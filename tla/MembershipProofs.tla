-------------------------- MODULE MembershipProofs --------------------------
(***************************************************************************)
(* Proofs about Membership, for every number of scans, files and sessions: *)
(* what a lease holds is what was planned, a remembered verdict is fresh,  *)
(* a plan the builder lets through is one the lease takes, and what was    *)
(* seen of a result stays.                                                 *)
(*                                                                         *)
(* The inductive invariant IInv joins to each record of the checkpoint its *)
(* shape; to the session, that it works on no completed scan; to the plan, *)
(* that it lives under an open view; and to an export, that its scan is    *)
(* completed and unchanged, or gone with the number it was born under.     *)
(***************************************************************************)
EXTENDS Membership, TLAPS

\* A scan in the checkpoint.  What is published has its marker; a result of an older
\* version belongs to a completed scan and is still there.
ScanOK(x) ==
    /\ Scan(x)
    /\ x.gen = 0 <=> x.mode = "Unknown"
    /\ x.mode # "Unknown" => x.prepared
    /\ DOMAIN x.files \subseteq Paths
    /\ x.was # None =>
        x.status = "Complete" /\ x.groups = x.was /\ x.mode = "Unknown" /\ (x.groups # <<>> \/ x.none)

DbOK == DOMAIN db = Ids /\ \A s \in Ids : db[s] # None => ScanOK(db[s])

LeftOK == left \in [Acts -> Nat]

\* A session that still writes works on a scan that is not completed.
SesOK ==
    /\ ses \in [pc : {"idle", "clear", "walk", "read", "hash", "status", "view"},
                scan : Ids \cup {None}, world : {ses.world}, todo : {ses.todo}]
    /\ ses.pc # "idle" => ses.scan \in Ids
    /\ ses.pc \notin {"idle", "view"} /\ db[ses.scan] # None => ~Completed(db[ses.scan])

ViewOK ==
    /\ view \in [pc : {"closed", "prepare", "legacy", "open"}, scan : Ids \cup {None}]
    /\ view.pc # "closed" => view.scan \in Ids

\* A plan lives under the view it was built in, and a lease has its plan.
PlanOK ==
    /\ plan \in [pc : {"none", "shown", "settle"}, scan : Ids \cup {None}, gen : Nat,
                 groups : {plan.groups}]
    /\ plan.pc # "none" => view.pc = "open" /\ plan.scan \in Ids
    /\ \A w \in plan.groups : w \in [rank : {w.rank}, digest : {w.digest}, members : {w.members}]
    /\ lease \in {"none", "begun", "held"}
    /\ lease # "none" => plan.pc = "shown"

CacheOK ==
    /\ DOMAIN cache = Conns
    /\ \A c \in Conns : cache[c] # None =>
        cache[c] \in [scan : Ids, mode : Modes, gen : Nat, current : BOOLEAN, verdict : {cache[c].verdict}]

Artifact(e) ==
    /\ e \in [pc : {"idle", "chosen", "open"}, scan : Ids \cup {None}, born : {e.born}, groups : {e.groups}]
    /\ e.pc # "idle" <=> e.scan # None

\* What was exported is completed and unchanged, as long as its scan is there; no scan
\* begun later, from n on, is born under its number.
Kept(e, d, n) ==
    e.pc = "open" =>
        /\ e.born \in Nat
        /\ e.born = 0 \/ e.born > n
        /\ d[e.scan] # None /\ d[e.scan].born = e.born =>
            /\ Completed(d[e.scan])
            /\ ~d[e.scan].edited =>
                /\ d[e.scan].mode # "Unknown"
                /\ e.groups = {Members(d[e.scan], r) : r \in Ranks(d[e.scan])}

CsvOK ==
    /\ csv \in [now : {csv.now}, made : {csv.made}]
    /\ Artifact(csv.now) /\ Artifact(csv.made)
    /\ csv.made.pc # "chosen"
    /\ Kept(csv.now, db, left.starts) /\ Kept(csv.made, db, left.starts)

Shapes == DbOK /\ LeftOK /\ SesOK /\ ViewOK /\ PlanOK /\ CacheOK

\* A scan's number is never given again.
BornOK == \A s \in Ids : db[s] # None => db[s].born = 0 \/ db[s].born > left.starts

IInv == Shapes /\ BornOK /\ CsvOK /\ VerdictIsFresh /\ LeasedIsPlanned

-----------------------------------------------------------------------------
(* What the writers make of a scan                                         *)

LEMMA NewScanOK ==
    ASSUME NEW born \in Nat, NEW keyless \in BOOLEAN
    PROVE  ScanOK(NewScan(born, keyless)) /\ ~Completed(NewScan(born, keyless))
  BY DEF ScanOK, Scan, Modes, NewScan, Completed, Nothing

LEMMA ClearFilesOK ==
    ASSUME NEW x, ScanOK(x), ~Completed(x)
    PROVE  ScanOK(ClearFiles(x)) /\ ~Completed(ClearFiles(x))
  BY DEF ScanOK, Scan, Modes, ClearFiles, NewScan, Completed, Nothing

\* The manifest of a new walk, and one digest in it.

LEMMA ManifestOK ==
    ASSUME NEW x, ScanOK(x), ~Completed(x), NEW files, DOMAIN files \subseteq Paths
    PROVE  LET y == [x EXCEPT !.files = files, !.status = "Hashing"]
               z == [x EXCEPT !.files = files]
           IN  ScanOK(y) /\ ~Completed(y) /\ ScanOK(z) /\ ~Completed(z)
  BY DEF ScanOK, Scan, Modes, Completed

LEMMA PublishOK ==
    ASSUME NEW x, ScanOK(x), ~Completed(x), NEW parts, NEW mode \in {"Derived", "Explicit"}
    PROVE  ScanOK(PublishResults(x, parts, mode)) /\ ~Completed(PublishResults(x, parts, mode))
<1> DEFINE groups == Summaries(parts)
           members == IF mode = "Explicit" THEN MemberRows(parts) ELSE Nothing
           gen == x.gen + 1
           y == [x EXCEPT !.groups = groups, !.members = members,
                          !.mode = mode, !.gen = gen, !.prepared = TRUE]
<1>1. PublishResults(x, parts, mode) = y
  BY DEF PublishResults
<1>0. gen \in Nat /\ gen # 0
  BY DEF ScanOK, Scan, Modes
<1> HIDE DEF groups, members, gen
<1>2. Scan(y)
  BY <1>0 DEF ScanOK, Scan, Modes
<1>3. /\ y.gen = gen /\ y.mode = mode /\ y.prepared /\ y.files = x.files
      /\ y.was = x.was /\ y.status = x.status
  BY DEF ScanOK, Scan, Modes
<1>4. x.was = None
  BY DEF ScanOK, Scan, Modes, Completed
<1> HIDE DEF y
<1>5. ScanOK(y) /\ ~Completed(y)
  BY <1>0, <1>2, <1>3, <1>4 DEF ScanOK, Scan, Modes, Completed
<1> QED
  BY <1>1, <1>5

LEMMA SummariesOK ==
    ASSUME NEW x, ScanOK(x)
    PROVE  ScanOK(BrowseSummaries(x))
  BY DEF ScanOK, Scan, Modes, BrowseSummaries

\* The other writes: one field, or none that is judged.

LEMMA FieldsOK ==
    ASSUME NEW x, ScanOK(x), NEW marks \in SUBSET Paths
    PROVE  /\ ScanOK([x EXCEPT !.marks = marks])
           /\ ScanOK([x EXCEPT !.trashed = TRUE])
           /\ ScanOK([x EXCEPT !.status = "Complete"])
  BY DEF ScanOK, Scan, Modes

LEMMA DamageOK ==
    ASSUME NEW x, ScanOK(x), x.mode # "Unknown", NEW y \in Damaged(x)
    PROVE  LET z == [y EXCEPT !.edited = TRUE]
           IN  ScanOK(z) /\ z.edited /\ z.status = x.status /\ z.born = x.born
<1> DEFINE Like(z) ==
        /\ z \in [born : {x.born}, status : {x.status}, keyless : {x.keyless},
                  trashed : {x.trashed}, files : {z.files}, mode : {x.mode}, gen : {x.gen},
                  groups : {z.groups}, members : {z.members}, marks : {x.marks},
                  prepared : {x.prepared}, none : {x.none}, was : {x.was}, edited : {x.edited}]
        /\ DOMAIN z.files \subseteq Paths
<1>1. ASSUME NEW files, DOMAIN files \subseteq Paths PROVE Like([x EXCEPT !.files = files])
  BY <1>1 DEF ScanOK, Scan, Modes
<1>2. ASSUME NEW members PROVE Like([x EXCEPT !.members = members])
  BY DEF ScanOK, Scan, Modes
<1>3. ASSUME NEW groups PROVE Like([x EXCEPT !.groups = groups])
  BY DEF ScanOK, Scan, Modes
<1>4. DOMAIN x.files \subseteq Paths
  BY DEF ScanOK
<1>0. x.was = None
  BY DEF ScanOK
<1> SUFFICES Like(y)
  BY <1>0 DEF ScanOK, Scan, Modes
<1> HIDE DEF Like
<1>5. CASE \E p \in DOMAIN x.files, d \in Digests \cup {None} : y = [x EXCEPT !.files[p] = d]
  <2>1. PICK p, d : y = [x EXCEPT !.files[p] = d]
    BY <1>5
  <2> DEFINE f == [x.files EXCEPT ![p] = d]
  <2>2. y = [x EXCEPT !.files = f]
    BY <2>1
  <2>3. DOMAIN f \subseteq Paths
    BY <1>4
  <2> HIDE DEF f
  <2> QED
    BY <2>2, <2>3, <1>1
<1>6. CASE \E p \in DOMAIN x.files : y = [x EXCEPT !.files = Without(@, p)]
  <2>1. PICK p : y = [x EXCEPT !.files = Without(@, p)]
    BY <1>6
  <2> DEFINE f == Without(x.files, p)
  <2>2. y = [x EXCEPT !.files = f]
    BY <2>1
  <2>3. DOMAIN f \subseteq Paths
    BY <1>4 DEF Without
  <2> HIDE DEF f
  <2> QED
    BY <2>2, <2>3, <1>1
<1>7. CASE \E p \in DOMAIN x.members : y = [x EXCEPT !.members = Without(@, p)]
  <2>1. PICK p : y = [x EXCEPT !.members = Without(@, p)]
    BY <1>7
  <2> DEFINE m == Without(x.members, p)
  <2>2. y = [x EXCEPT !.members = m]
    BY <2>1
  <2> HIDE DEF m
  <2> QED
    BY <2>2, <1>2
<1>8. CASE \E p \in DOMAIN x.files, r \in Ranks(x) : y = [x EXCEPT !.members = Putting(@, p, r)]
  <2>1. PICK p, r : y = [x EXCEPT !.members = Putting(@, p, r)]
    BY <1>8
  <2> DEFINE m == Putting(x.members, p, r)
  <2>2. y = [x EXCEPT !.members = m]
    BY <2>1
  <2> HIDE DEF m
  <2> QED
    BY <2>2, <1>2
<1>9. CASE \E r \in Ranks(x) : y = [x EXCEPT !.groups[r].count = @ - 1]
  <2>1. PICK r : y = [x EXCEPT !.groups[r].count = @ - 1]
    BY <1>9
  <2> DEFINE g == [x.groups EXCEPT ![r].count = @ - 1]
  <2>2. y = [x EXCEPT !.groups = g]
    BY <2>1
  <2> HIDE DEF g
  <2> QED
    BY <2>2, <1>3
<1> QED
  <2>1. \/ \E p \in DOMAIN x.files, d \in Digests \cup {None} : y = [x EXCEPT !.files[p] = d]
        \/ \E p \in DOMAIN x.files : y = [x EXCEPT !.files = Without(@, p)]
        \/ \E p \in DOMAIN x.members : y = [x EXCEPT !.members = Without(@, p)]
        \/ \E p \in DOMAIN x.files, r \in Ranks(x) : y = [x EXCEPT !.members = Putting(@, p, r)]
        \/ \E r \in Ranks(x) : y = [x EXCEPT !.groups[r].count = @ - 1]
    BY DEF Damaged
  <2> QED
    BY <2>1, <1>5, <1>6, <1>7, <1>8, <1>9

-----------------------------------------------------------------------------
(* Init and the parts of a step                                            *)

LEMMA ShapesInit == Init => Shapes
<1> SUFFICES ASSUME Init PROVE Shapes
  OBVIOUS
<1>1. DbOK
  <2>1. PICK old \in Legacies : db = [s \in Ids |-> IF s \in DOMAIN old THEN old[s] ELSE None]
    BY DEF Init
  <2>2. ASSUME NEW x, OldScan(x) PROVE ScanOK(x)
    BY <2>2 DEF OldScan, ScanOK, Scan
  <2> QED
    BY <2>1, <2>2, MembershipAssumption DEF DbOK
<1>2. LeftOK
  BY MembershipAssumption DEF Init, LeftOK
<1>3. SesOK /\ ViewOK /\ PlanOK /\ CacheOK
  BY DEF Init, SesOK, ViewOK, PlanOK, CacheOK, NoSession, NoView, NoPlan
<1> QED
  BY <1>1, <1>2, <1>3 DEF Shapes

LEMMA Storing ==
    ASSUME DbOK, NEW s \in Ids, NEW y, ScanOK(y), db' = [db EXCEPT ![s] = y]
    PROVE  DbOK'
  BY DEF DbOK

LEMMA CacheCommits ==
    ASSUME CacheOK, NEW c, Committed(c) \/ RevokedAndCommitted(c)
    PROVE  CacheOK'
  BY ZenonT(40) DEF CacheOK, Committed, RevokedAndCommitted, Outdated

LEMMA CacheRemembers ==
    ASSUME CacheOK, DbOK, NEW c \in Conns, NEW s \in Ids, db[s] # None, Remember(c, s)
    PROVE  CacheOK'
<1>1. db[s].mode \in Modes /\ db[s].gen \in Nat
  BY DEF DbOK, ScanOK, Scan
<1> DEFINE v == ValidateAuthority(db[s])
           e == [scan |-> s, mode |-> db[s].mode, gen |-> db[s].gen, current |-> TRUE, verdict |-> v]
<1>2. cache' = cache \/ cache' = [cache EXCEPT ![c] = e]
  BY DEF Remember
<1> HIDE DEF v
<1>3. e \in [scan : Ids, mode : Modes, gen : Nat, current : BOOLEAN, verdict : {e.verdict}]
  BY <1>1
<1> HIDE DEF e
<1> QED
  BY <1>2, <1>3 DEF CacheOK

LEMMA Spending ==
    ASSUME LeftOK, NEW what \in Acts, Spend(what)
    PROVE  LeftOK' /\ left'.starts \in Nat /\ left.starts \in Nat /\ left'.starts <= left.starts
<1>1. left[what] \in Nat /\ left[what] > 0 /\ left.starts \in Nat
  BY DEF LeftOK, Spend, Acts
<1>2. left' = [left EXCEPT ![what] = left[what] - 1]
  BY DEF Spend
<1>3. left[what] - 1 \in Nat
  BY <1>1
<1> QED
  BY <1>1, <1>2, <1>3 DEF LeftOK, Acts

-----------------------------------------------------------------------------
(* The session                                                             *)

LEMMA ShapesSession == ASSUME Shapes, Session PROVE Shapes'
<1> USE DEF Shapes
<1>1. CASE ClearForWalk
  <2>1. ses.scan \in Ids /\ ScanOK(db[ses.scan]) /\ ~Completed(db[ses.scan])
    BY <1>1 DEF ClearForWalk, SessionSteps, SesOK, DbOK
  <2> DEFINE y == ClearFiles(db[ses.scan])
  <2>2. ScanOK(y) /\ ~Completed(y)
    BY <2>1, ClearFilesOK
  <2> HIDE DEF y
  <2>3. db' = [db EXCEPT ![ses.scan] = y]
    BY <1>1 DEF ClearForWalk, Store, y
  <2>4. DbOK'
    BY <2>1, <2>2, <2>3, Storing
  <2>5. SesOK'
    BY <1>1, <2>1, <2>2, <2>3 DEF ClearForWalk, SesOK, DbOK
  <2>6. CacheOK'
    BY <1>1, CacheCommits DEF ClearForWalk
  <2> QED
    BY <1>1, <2>4, <2>5, <2>6 DEF ClearForWalk, SessionSteps, LeftOK, ViewOK, PlanOK
<1>2. CASE RecordFiles
  <2>1. ses.scan \in Ids /\ ScanOK(db[ses.scan]) /\ ~Completed(db[ses.scan])
    BY <1>2 DEF RecordFiles, SessionSteps, SesOK, DbOK
  <2>2. PICK w \in Worlds :
            /\ Store([db[ses.scan] EXCEPT !.files = [p \in DOMAIN w |-> None], !.status = "Hashing"])
            /\ ses' = [ses EXCEPT !.pc = "hash", !.world = w, !.todo = DOMAIN w]
    BY <1>2 DEF RecordFiles
  <2> DEFINE f == [p \in DOMAIN w |-> None]
             y == [db[ses.scan] EXCEPT !.files = f, !.status = "Hashing"]
  <2>3. DOMAIN f \subseteq Paths
    BY MembershipAssumption
  <2>4. db' = [db EXCEPT ![ses.scan] = y]
    BY <2>2 DEF Store
  <2> HIDE DEF f
  <2>5. ScanOK(y) /\ ~Completed(y)
    BY <2>1, <2>3, ManifestOK
  <2> HIDE DEF y
  <2>6. DbOK'
    BY <2>1, <2>4, <2>5, Storing
  <2>7. SesOK'
    BY <2>1, <2>2, <2>4, <2>5 DEF SesOK, DbOK
  <2>8. CacheOK'
    BY <1>2, CacheCommits DEF RecordFiles
  <2> QED
    BY <1>2, <2>6, <2>7, <2>8 DEF RecordFiles, SessionSteps, LeftOK, ViewOK, PlanOK
<1>3. CASE ReadManifest
  <2>1. PICK w : ses' = [ses EXCEPT !.pc = "hash", !.world = w,
                    !.todo = {p \in DOMAIN w : db[ses.scan].files[p] = None}]
    BY <1>3 DEF ReadManifest
  <2>2. SesOK'
    BY <1>3, <2>1 DEF ReadManifest, SessionSteps, SesOK
  <2> QED
    BY <1>3, <2>2 DEF ReadManifest, SessionSteps, DbOK, LeftOK, ViewOK, PlanOK, CacheOK
<1>4. CASE RecordHashes
  <2>1. ses.scan \in Ids /\ ScanOK(db[ses.scan]) /\ ~Completed(db[ses.scan])
    BY <1>4 DEF RecordHashes, SessionSteps, SesOK, DbOK
  <2> DEFINE p == Min(ses.todo)
             f == [db[ses.scan].files EXCEPT ![p] = ses.world[p].digest]
             y == [db[ses.scan] EXCEPT !.files = f]
  <2>2. DOMAIN f \subseteq Paths
    BY <2>1 DEF ScanOK
  <2>3. db' = [db EXCEPT ![ses.scan] = y] \/ db' = db
    BY <1>4 DEF RecordHashes, Store
  <2> HIDE DEF f
  <2>4. ScanOK(y) /\ ~Completed(y)
    BY <2>1, <2>2, ManifestOK
  <2> HIDE DEF y
  <2>5. DbOK'
    BY <2>1, <2>3, <2>4, Storing DEF DbOK
  <2>6. ses' = [ses EXCEPT !.todo = @ \ {p}] /\ ses.pc = "hash"
    BY <1>4 DEF RecordHashes, SessionSteps
  <2>7. SesOK'
    BY <2>1, <2>3, <2>4, <2>6 DEF SesOK, DbOK
  <2>8. CacheOK'
    BY <1>4, CacheCommits DEF RecordHashes
  <2> QED
    BY <1>4, <2>5, <2>7, <2>8 DEF RecordHashes, SessionSteps, LeftOK, ViewOK, PlanOK
<1>5. ASSUME NEW mode \in {"Derived", "Explicit"}, Publish(mode) PROVE Shapes'
  <2>1. ses.scan \in Ids /\ ScanOK(db[ses.scan]) /\ ~Completed(db[ses.scan])
    BY <1>5 DEF Publish, SessionSteps, SesOK, DbOK
  <2> DEFINE parts == IF mode = "Derived" THEN DerivedParts(db[ses.scan])
                      ELSE {x \in VerifiedParts(db[ses.scan], ses.world) : Cardinality(x.members) >= 2}
             y == PublishResults(db[ses.scan], parts, mode)
  <2>2. db' = [db EXCEPT ![ses.scan] = y]
    BY <1>5 DEF Publish, Store
  <2> HIDE DEF parts
  <2>3. ScanOK(y) /\ ~Completed(y)
    BY <2>1, PublishOK
  <2> HIDE DEF y
  <2>4. DbOK'
    BY <2>1, <2>2, <2>3, Storing
  <2>5. SesOK'
    BY <1>5, <2>1, <2>2, <2>3 DEF Publish, SesOK, DbOK
  <2>6. CacheOK'
    BY <1>5, CacheCommits DEF Publish
  <2> QED
    BY <1>5, <2>4, <2>5, <2>6 DEF Publish, SessionSteps, LeftOK, ViewOK, PlanOK
<1>6. CASE SetStatus
  <2>1. ses.scan \in Ids /\ ScanOK(db[ses.scan])
    BY <1>6 DEF SetStatus, SessionSteps, SesOK, DbOK
  <2> DEFINE y == [db[ses.scan] EXCEPT !.status = "Complete"]
  <2>2. ScanOK(y)
    BY <2>1, FieldsOK
  <2>3. db' = [db EXCEPT ![ses.scan] = y]
    BY <1>6 DEF SetStatus, Store
  <2> HIDE DEF y
  <2>4. DbOK'
    BY <2>1, <2>2, <2>3, Storing
  <2>5. SesOK'
    BY <1>6 DEF SetStatus, SessionSteps, SesOK
  <2>6. CacheOK'
    BY <1>6, CacheCommits DEF SetStatus
  <2> QED
    BY <1>6, <2>4, <2>5, <2>6 DEF SetStatus, SessionSteps, LeftOK, ViewOK, PlanOK
<1>7. CASE ViewOwnResult
  <2>1. CacheOK'
    BY <1>7, CacheRemembers DEF ViewOwnResult, SesOK, CacheOK, Conns
  <2>2. SesOK'
    BY <1>7 DEF ViewOwnResult, SesOK, NoSession
  <2> QED
    BY <1>7, <2>1, <2>2 DEF ViewOwnResult, DbOK, LeftOK, ViewOK, PlanOK
<1>8. CASE SessionFails
  BY <1>8 DEF SessionFails, SesOK, NoSession, DbOK, LeftOK, ViewOK, PlanOK, CacheOK
<1> QED
  BY <1>1, <1>2, <1>3, <1>4, <1>5, <1>6, <1>7, <1>8 DEF Session

-----------------------------------------------------------------------------
(* Sessions begin and die; others write                                    *)

LEMMA ShapesOrders ==
    ASSUME Shapes,
           \/ StartScan
           \/ \E s \in Ids : ResumeScan(s) \/ TrashScan(s) \/ PurgeScan(s) \/ Damage(s)
           \/ SessionCrashes
    PROVE  Shapes'
<1> USE DEF Shapes
<1>1. CASE StartScan
  <2>1. PICK id \in Ids : /\ \E keyless \in BOOLEAN : db' = [db EXCEPT ![id] = NewScan(left.starts, keyless)]
                          /\ ses' = [NoSession EXCEPT !.pc = "walk", !.scan = id]
    BY <1>1 DEF StartScan
  <2>2. PICK keyless \in BOOLEAN : db' = [db EXCEPT ![id] = NewScan(left.starts, keyless)]
    BY <2>1
  <2>3. LeftOK' /\ left.starts \in Nat
    BY <1>1, Spending DEF StartScan, Acts
  <2> DEFINE y == NewScan(left.starts, keyless)
  <2>4. ScanOK(y) /\ ~Completed(y)
    BY <2>3, NewScanOK
  <2> HIDE DEF y
  <2>5. db' = [db EXCEPT ![id] = y]
    BY <2>2 DEF y
  <2>6. DbOK'
    BY <2>4, <2>5, Storing
  <2>7. SesOK'
    BY <2>1, <2>4, <2>5 DEF SesOK, DbOK, NoSession
  <2>8. CacheOK'
    BY <1>1 DEF StartScan, CacheOK, Outdated, Conns
  <2> QED
    BY <1>1, <2>3, <2>6, <2>7, <2>8 DEF StartScan, ViewOK, PlanOK
<1>2. ASSUME NEW s \in Ids, ResumeScan(s) PROVE Shapes'
  <2>1. LeftOK'
    BY <1>2, Spending DEF ResumeScan, Acts
  <2>2. SesOK'
    BY <1>2 DEF ResumeScan, SesOK, NoSession
  <2>3. CacheOK'
    BY <1>2 DEF ResumeScan, CacheOK, Conns
  <2> QED
    BY <1>2, <2>1, <2>2, <2>3 DEF ResumeScan, DbOK, ViewOK, PlanOK
<1>3. ASSUME NEW s \in Ids, TrashScan(s) PROVE Shapes'
  <2>1. LeftOK'
    BY <1>3, Spending DEF TrashScan, Acts
  <2>2. CacheOK'
    BY <1>3, CacheCommits DEF TrashScan
  <2> DEFINE y == [db[s] EXCEPT !.trashed = TRUE]
  <2>3. ScanOK(y)
    BY <1>3, FieldsOK DEF TrashScan, DbOK
  <2> HIDE DEF y
  <2>4. db' = [db EXCEPT ![s] = y]
    BY <1>3 DEF TrashScan, y
  <2>5. DbOK'
    BY <2>3, <2>4, Storing
  <2>6. SesOK'
    BY <1>3 DEF TrashScan, SesOK
  <2> QED
    BY <1>3, <2>1, <2>2, <2>5, <2>6 DEF TrashScan, ViewOK, PlanOK
<1>4. ASSUME NEW s \in Ids, PurgeScan(s) PROVE Shapes'
  <2>1. LeftOK'
    BY <1>4, Spending DEF PurgeScan, Acts
  <2>2. CacheOK'
    BY <1>4, CacheCommits DEF PurgeScan
  <2>3. DbOK' /\ SesOK'
    BY <1>4 DEF PurgeScan, DbOK, SesOK
  <2> QED
    BY <1>4, <2>1, <2>2, <2>3 DEF PurgeScan, ViewOK, PlanOK
<1>5. ASSUME NEW s \in Ids, Damage(s) PROVE Shapes'
  <2>1. LeftOK'
    BY <1>5, Spending DEF Damage, Acts
  <2>2. CacheOK'
    BY <1>5, CacheCommits DEF Damage
  <2>3. PICK x \in Damaged(db[s]) : db' = [db EXCEPT ![s] = [x EXCEPT !.edited = TRUE]]
    BY <1>5 DEF Damage
  <2> DEFINE y == [x EXCEPT !.edited = TRUE]
  <2>4. ScanOK(y) /\ y.status = db[s].status
    BY <1>5, DamageOK DEF Damage, DbOK
  <2> HIDE DEF y
  <2>5. db' = [db EXCEPT ![s] = y]
    BY <2>3 DEF y
  <2>6. DbOK'
    BY <2>4, <2>5, Storing
  <2>7. SesOK'
    BY <1>5, <2>4, <2>5 DEF Damage, SesOK, DbOK, Completed
  <2> QED
    BY <1>5, <2>1, <2>2, <2>6, <2>7 DEF Damage, ViewOK, PlanOK
<1>6. CASE SessionCrashes
  <2>1. LeftOK'
    BY <1>6, Spending DEF SessionCrashes, Acts
  <2> QED
    BY <1>6, <2>1 DEF SessionCrashes, SesOK, NoSession, DbOK, ViewOK, PlanOK, CacheOK
<1> QED
  BY <1>1, <1>2, <1>3, <1>4, <1>5, <1>6

-----------------------------------------------------------------------------
(* The browsing actor, the plan and the lease                              *)

\* A write of the actor that leaves the status alone.

LEMMA ActorStores ==
    ASSUME DbOK, SesOK, CacheOK, NEW s \in Ids, db[s] # None, NEW y, ScanOK(y), y.status = db[s].status,
           db' = [db EXCEPT ![s] = y], UNCHANGED ses
    PROVE  DbOK' /\ SesOK'
<1>1. DbOK'
  BY Storing
<1>2. SesOK'
  BY DEF SesOK, DbOK, Completed
<1> QED
  BY <1>1, <1>2

LEMMA MarksStore ==
    ASSUME NEW x, ScanOK(x), NEW marks \in SUBSET Paths
    PROVE  LET y == [x EXCEPT !.marks = marks] IN ScanOK(y) /\ y.status = x.status
<1>1. ScanOK([x EXCEPT !.marks = marks])
  BY FieldsOK
<1> QED
  BY <1>1 DEF ScanOK, Scan

LEMMA ShapesActor == ASSUME Shapes, Actor \/ Batch PROVE Shapes'
<1> USE DEF Shapes
<1>1. CASE Prepare
  <2>1. view.scan \in Ids /\ view.pc = "prepare"
    BY <1>1 DEF Prepare, ViewOK
  <2>2. CacheOK'
    BY <1>1, <2>1, CacheRemembers DEF Prepare, CacheOK, Conns
  <2>3. ViewOK'
    BY <1>1, <2>1 DEF Prepare, ViewOK, NoView
  <2>4. PlanOK'
    BY <1>1, <2>1 DEF Prepare, PlanOK
  <2> QED
    BY <1>1, <2>2, <2>3, <2>4 DEF Prepare, DbOK, LeftOK, SesOK
<1>2. CASE PrepareLegacy
  <2>1. view.scan \in Ids /\ view.pc = "legacy"
    BY <1>2 DEF PrepareLegacy, ViewOK
  <2>2. CacheOK'
    BY <1>2, CacheCommits DEF PrepareLegacy, CacheOK
  <2>3. ViewOK'
    BY <1>2, <2>1 DEF PrepareLegacy, ViewOK, NoView
  <2>4. PlanOK'
    BY <1>2, <2>1 DEF PrepareLegacy, PlanOK
  <2>5. DbOK' /\ SesOK'
    <3>1. CASE db[view.scan] = None
      BY <1>2, <3>1 DEF PrepareLegacy, DbOK, SesOK
    <3>2. CASE db[view.scan] # None
      <4> DEFINE y == BrowseSummaries(db[view.scan])
      <4>1. ScanOK(y) /\ ScanOK(db[view.scan])
        BY <2>1, <3>2, SummariesOK DEF DbOK
      <4>2. y.status = db[view.scan].status
        BY <4>1 DEF BrowseSummaries, ScanOK, Scan
      <4>3. db' = [db EXCEPT ![view.scan] = y] /\ ses' = ses
        BY <1>2, <3>2 DEF PrepareLegacy
      <4> HIDE DEF y
      <4> QED
        BY <2>1, <3>2, <4>1, <4>2, <4>3, ActorStores
    <3> QED
      BY <3>1, <3>2
  <2> QED
    BY <1>2, <2>2, <2>3, <2>4, <2>5 DEF PrepareLegacy, LeftOK
<1>3. CASE LeaseValidate
  BY <1>3 DEF LeaseValidate, PlanOK, NoPlan, DbOK, LeftOK, SesOK, ViewOK, CacheOK
<1>4. CASE LeaseRelease
  <2>1. PlanOK'
    BY <1>4 DEF LeaseRelease, PlanOK
  <2> QED
    BY <1>4, <2>1 DEF LeaseRelease, DbOK, LeftOK, SesOK, ViewOK, CacheOK
<1>5. CASE Settle
  <2>1. PICK changed \in SUBSET plan.groups :
            db' = IF db[plan.scan] = None THEN db
                  ELSE [db EXCEPT ![plan.scan].marks = @ \ UNION {w.members : w \in changed}]
    BY <1>5 DEF Settle
  <2>2. plan.scan \in Ids /\ lease = "none"
    BY <1>5 DEF Settle, PlanOK, Writable
  <2>3. CacheOK'
    BY <1>5, CacheCommits DEF Settle
  <2>4. DbOK' /\ SesOK'
    <3>1. CASE db[plan.scan] = None
      BY <1>5, <2>1, <3>1 DEF Settle, DbOK, SesOK
    <3>2. CASE db[plan.scan] # None
      <4> DEFINE m == db[plan.scan].marks \ UNION {w.members : w \in changed}
                 y == [db[plan.scan] EXCEPT !.marks = m]
      <4>1. m \in SUBSET Paths /\ ScanOK(db[plan.scan])
        BY <2>2, <3>2 DEF DbOK, ScanOK, Scan
      <4>2. db' = [db EXCEPT ![plan.scan] = y] /\ ses' = ses
        BY <1>5, <2>1, <3>2 DEF Settle
      <4> HIDE DEF m
      <4>3. ScanOK(y) /\ y.status = db[plan.scan].status
        BY <4>1, MarksStore
      <4> HIDE DEF y
      <4> QED
        BY <2>2, <3>2, <4>2, <4>3, ActorStores
    <3> QED
      BY <3>1, <3>2
  <2>5. PlanOK'
    BY <1>5, <2>2 DEF Settle, PlanOK, NoPlan
  <2> QED
    BY <1>5, <2>3, <2>4, <2>5 DEF Settle, LeftOK, ViewOK
<1> QED
  BY <1>1, <1>2, <1>3, <1>4, <1>5 DEF Actor, Batch

LEMMA ShapesOperator ==
    ASSUME Shapes,
           \/ \E s \in Ids : OpenScan(s)
           \/ \E p \in Paths : SetMark(p)
           \/ ClearMarks \/ BuildPlan \/ DropPlan \/ LeaseBegin \/ LeaseBusy \/ OperatorCrashes
    PROVE  Shapes'
<1> USE DEF Shapes
<1>1. ASSUME NEW s \in Ids, OpenScan(s) PROVE Shapes'
  <2>1. LeftOK'
    BY <1>1, Spending DEF OpenScan, Acts
  <2> QED
    BY <1>1, <2>1 DEF OpenScan, ViewOK, PlanOK, DbOK, SesOK, CacheOK
<1>2. ASSUME NEW p \in Paths, SetMark(p) PROVE Shapes'
  <2>1. LeftOK'
    BY <1>2, Spending DEF SetMark, Acts
  <2>2. view.scan \in Ids /\ db[view.scan] # None
    BY <1>2 DEF SetMark, ViewOK
  <2> DEFINE m == db[view.scan].marks \cup {p}
             y == [db[view.scan] EXCEPT !.marks = m]
  <2>3. m \in SUBSET Paths /\ ScanOK(db[view.scan])
    BY <2>2 DEF DbOK, ScanOK, Scan
  <2>4. db' = [db EXCEPT ![view.scan] = y] /\ ses' = ses
    BY <1>2 DEF SetMark
  <2> HIDE DEF m
  <2>5. ScanOK(y) /\ y.status = db[view.scan].status
    BY <2>3, MarksStore
  <2> HIDE DEF y
  <2>6. DbOK' /\ SesOK'
    BY <2>2, <2>4, <2>5, ActorStores
  <2>7. CacheOK'
    BY <1>2, CacheCommits DEF SetMark
  <2> QED
    BY <1>2, <2>1, <2>6, <2>7 DEF SetMark, ViewOK, PlanOK
<1>3. CASE ClearMarks
  <2>1. view.scan \in Ids /\ db[view.scan] # None
    BY <1>3 DEF ClearMarks, ViewOK
  <2> DEFINE y == [db[view.scan] EXCEPT !.marks = {}]
  <2>2. ScanOK(y) /\ y.status = db[view.scan].status
    BY <2>1, MarksStore DEF DbOK
  <2>3. db' = [db EXCEPT ![view.scan] = y] /\ ses' = ses
    BY <1>3 DEF ClearMarks
  <2> HIDE DEF y
  <2>4. DbOK' /\ SesOK'
    BY <2>1, <2>2, <2>3, ActorStores
  <2>5. CacheOK'
    BY <1>3, CacheCommits DEF ClearMarks
  <2> QED
    BY <1>3, <2>4, <2>5 DEF ClearMarks, ViewOK, PlanOK, LeftOK
<1>4. CASE BuildPlan
  <2>1. LeftOK'
    BY <1>4, Spending DEF BuildPlan, Acts
  <2>2. view.scan \in Ids /\ db[view.scan] # None /\ ScanOK(db[view.scan]) /\ view.pc = "open"
    BY <1>4 DEF BuildPlan, ViewOK, DbOK
  <2>3. CacheOK'
    BY <1>4, <2>2, CacheRemembers DEF BuildPlan, Conns
  <2>4. PlanOK'
    <3> DEFINE ranks == UNION {GroupsOf(db[view.scan], p) : p \in db[view.scan].marks}
               g == WitnessOf(db[view.scan], ranks)
    <3>1. \/ plan' = NoPlan
          \/ plan' = [pc |-> "shown", scan |-> view.scan, gen |-> db[view.scan].gen, groups |-> g]
      BY <1>4 DEF BuildPlan
    <3>2. \A w \in g : w \in [rank : {w.rank}, digest : {w.digest}, members : {w.members}]
      BY DEF WitnessOf
    <3> HIDE DEF g
    <3>3. db[view.scan].gen \in Nat
      BY <2>2 DEF ScanOK, Scan
    <3> QED
      BY <1>4, <2>2, <3>1, <3>2, <3>3 DEF BuildPlan, PlanOK, NoPlan
  <2> QED
    BY <1>4, <2>1, <2>3, <2>4 DEF BuildPlan, DbOK, SesOK, ViewOK
<1>5. CASE DropPlan \/ LeaseBusy
  BY <1>5 DEF DropPlan, LeaseBusy, PlanOK, NoPlan, DbOK, LeftOK, SesOK, ViewOK, CacheOK
<1>6. CASE LeaseBegin
  BY <1>6 DEF LeaseBegin, PlanOK, DbOK, LeftOK, SesOK, ViewOK, CacheOK
<1>7. CASE OperatorCrashes
  <2>1. LeftOK'
    BY <1>7, Spending DEF OperatorCrashes, Acts
  <2>2. CacheOK'
    BY <1>7 DEF OperatorCrashes, CacheOK, Conns
  <2> QED
    BY <1>7, <2>1, <2>2 DEF OperatorCrashes, PlanOK, NoPlan, ViewOK, NoView, DbOK, SesOK
<1> QED
  BY <1>1, <1>2, <1>3, <1>4, <1>5, <1>6, <1>7

LEMMA ShapesNext == Shapes /\ [Next]_vars => Shapes'
<1> SUFFICES ASSUME Shapes, [Next]_vars PROVE Shapes'
  OBVIOUS
<1>1. CASE SelectExport
  BY <1>1, Spending DEF SelectExport, Acts, Shapes, DbOK, SesOK, ViewOK, PlanOK, CacheOK
<1>2. CASE Export
  BY <1>2 DEF Export, OpenExport, PublishExport, Shapes, DbOK, LeftOK, SesOK, ViewOK, PlanOK, CacheOK
<1>3. CASE UNCHANGED vars
  BY <1>3 DEF vars, Shapes, DbOK, LeftOK, SesOK, ViewOK, PlanOK, CacheOK
<1> QED
  BY <1>1, <1>2, <1>3, ShapesSession, ShapesOrders, ShapesActor, ShapesOperator, Zenon
  DEF Next, Operator, World, Rest

THEOREM TypeCorrect == Spec => []TypeOK
<1>1. Shapes => TypeOK
  BY DEF Shapes, DbOK, ScanOK, PlanOK, TypeOK
<1> QED
  BY <1>1, ShapesInit, ShapesNext, PTL DEF Spec

-----------------------------------------------------------------------------
(* Verdicts                                                                *)

\* Who belongs to a rank, and the verdict, depend on four fields of a scan.
Alike(x, y) ==
    /\ y.files = x.files /\ y.members = x.members
    /\ y.groups = x.groups /\ y.mode = x.mode

LEMMA AlikeMembers ==
    ASSUME NEW x, NEW y, Alike(x, y)
    PROVE  /\ Ranks(y) = Ranks(x)
           /\ \A r : Members(y, r) = Members(x, r)
           /\ ValidateAuthority(y) = ValidateAuthority(x)
<1>1. Ranks(y) = Ranks(x)
  BY DEF Alike, Ranks
<1>2. \A r : Members(y, r) = Members(x, r)
  BY DEF Alike, Members, With
<1>3. ExplicitShape(y) <=> ExplicitShape(x)
  BY <1>1, <1>2 DEF Alike, ExplicitShape
<1>4. DerivedShape(y) <=> DerivedShape(x)
  BY <1>1 DEF Alike, DerivedShape
<1>5. {r \in Ranks(y) : Cardinality(Members(y, r)) # y.groups[r].count}
        = {r \in Ranks(x) : Cardinality(Members(x, r)) # x.groups[r].count}
  BY <1>1, <1>2 DEF Alike
<1> QED
  BY <1>1, <1>2, <1>3, <1>4, <1>5 DEF Alike, ValidateAuthority

\* Whoever else committed, a connection's memory is of no use to it any more.

LEMMA ForgottenIsFresh ==
    ASSUME CacheOK,
           \/ \E c : RevokedAndCommitted(c)
           \/ Committed("other")
           \/ cache' = [c \in Conns |-> IF c = "scan" THEN None ELSE Outdated(c)]
    PROVE  VerdictIsFresh'
<1>1. \A k \in Conns : cache'[k] # None => cache'[k].current = FALSE
  BY DEF CacheOK, RevokedAndCommitted, Committed, Outdated, Conns
<1> QED
  BY <1>1 DEF VerdictIsFresh, CachedIntegrity

\* Its own commit changes nothing that is judged.

LEMMA OwnWriteIsFresh ==
    ASSUME CacheOK, DbOK, VerdictIsFresh, NEW c \in Conns, Committed(c),
           NEW s \in Ids, db[s] # None, NEW y, Alike(db[s], y), y.gen = db[s].gen,
           db' = [db EXCEPT ![s] = y] \/ db' = db
    PROVE  VerdictIsFresh'
<1> SUFFICES ASSUME NEW k \in Conns, NEW t \in Ids, db'[t] # None, CachedIntegrity(k, t)'
             PROVE  cache'[k].verdict = ValidateAuthority(db'[t])
  BY DEF VerdictIsFresh
<1>1. k = c
  BY DEF CachedIntegrity, Committed, CacheOK, Outdated
<1>2. cache'[c] = cache[c]
  BY DEF Committed
<1>3. db[t] # None /\ Alike(db[t], db'[t]) /\ db'[t].gen = db[t].gen
  BY DEF DbOK, Alike
<1>4. CachedIntegrity(c, t)
  BY <1>1, <1>2, <1>3 DEF CachedIntegrity, Alike
<1> QED
  BY <1>1, <1>2, <1>3, <1>4, AlikeMembers DEF VerdictIsFresh

LEMMA RememberedIsFresh ==
    ASSUME CacheOK, VerdictIsFresh, NEW c \in Conns, NEW s \in Ids, Remember(c, s), db' = db
    PROVE  VerdictIsFresh'
<1> DEFINE v == ValidateAuthority(db[s])
           e == [scan |-> s, mode |-> db[s].mode, gen |-> db[s].gen, current |-> TRUE, verdict |-> v]
<1>1. cache' = cache \/ cache' = [cache EXCEPT ![c] = e]
  BY DEF Remember
<1>2. CASE cache' = cache
  BY <1>2 DEF VerdictIsFresh, CachedIntegrity
<1>3. CASE cache' = [cache EXCEPT ![c] = e]
  <2>1. e.verdict = v /\ e.scan = s
    OBVIOUS
  <2> HIDE DEF e
  <2> SUFFICES ASSUME NEW k \in Conns, NEW t \in Ids, db'[t] # None, CachedIntegrity(k, t)'
               PROVE  cache'[k].verdict = ValidateAuthority(db'[t])
    BY DEF VerdictIsFresh
  <2>2. CASE k = c
    BY <1>3, <2>1, <2>2 DEF CachedIntegrity, CacheOK
  <2>3. CASE k # c
    BY <1>3, <2>3 DEF CachedIntegrity, CacheOK, VerdictIsFresh
  <2> QED
    BY <2>2, <2>3
<1> QED
  BY <1>1, <1>2, <1>3

LEMMA VerdictNext == Shapes /\ VerdictIsFresh /\ [Next]_vars => VerdictIsFresh'
<1> SUFFICES ASSUME Shapes, VerdictIsFresh, [Next]_vars PROVE VerdictIsFresh'
  OBVIOUS
<1> USE DEF Shapes
<1>1. CASE ClearForWalk \/ RecordFiles \/ RecordHashes \/ (\E m \in {"Derived", "Explicit"} : Publish(m))
  BY <1>1, ForgottenIsFresh DEF ClearForWalk, RecordFiles, RecordHashes, Publish
<1>2. CASE StartScan \/ \E s \in Ids : TrashScan(s) \/ PurgeScan(s) \/ Damage(s)
  BY <1>2, ForgottenIsFresh DEF StartScan, TrashScan, PurgeScan, Damage
<1>3. CASE SetStatus
  <2> DEFINE y == [db[ses.scan] EXCEPT !.status = "Complete"]
  <2>1. ses.scan \in Ids /\ db[ses.scan] # None /\ Committed("scan") /\ db' = [db EXCEPT ![ses.scan] = y]
    BY <1>3 DEF SetStatus, SessionSteps, SesOK, Store
  <2>2. Alike(db[ses.scan], y) /\ y.gen = db[ses.scan].gen
    BY <2>1 DEF DbOK, ScanOK, Scan, Alike
  <2> HIDE DEF y
  <2> QED
    BY <2>1, <2>2, OwnWriteIsFresh DEF Conns
<1>4. ASSUME NEW s \in Ids, NEW m, db[s] # None, Committed("actor"), db' = [db EXCEPT ![s].marks = m]
      PROVE  VerdictIsFresh'
  <2> DEFINE y == [db[s] EXCEPT !.marks = m]
  <2>1. db' = [db EXCEPT ![s] = y]
    BY <1>4
  <2>2. Alike(db[s], y) /\ y.gen = db[s].gen
    BY <1>4 DEF DbOK, ScanOK, Scan, Alike
  <2> HIDE DEF y
  <2> QED
    BY <1>4, <2>1, <2>2, OwnWriteIsFresh DEF Conns
<1>5. CASE (\E p \in Paths : SetMark(p)) \/ ClearMarks
  <2>1. PICK m : db' = [db EXCEPT ![view.scan].marks = m]
    BY <1>5 DEF SetMark, ClearMarks
  <2> QED
    BY <1>5, <1>4, <2>1 DEF SetMark, ClearMarks, ViewOK
<1>6. CASE Settle
  <2>1. Committed("actor") /\ plan.scan \in Ids
    BY <1>6 DEF Settle, PlanOK
  <2>2. CASE db[plan.scan] # None
    <3>1. PICK m : db' = [db EXCEPT ![plan.scan].marks = m]
      BY <1>6, <2>2 DEF Settle
    <3> QED
      BY <1>4, <2>1, <2>2, <3>1
  <2>3. CASE db' = db
    BY <2>1, <2>3 DEF VerdictIsFresh, CachedIntegrity, Committed, Outdated, CacheOK
  <2> QED
    BY <1>6, <2>2, <2>3 DEF Settle
<1>7. CASE ViewOwnResult
  BY <1>7, RememberedIsFresh DEF ViewOwnResult, SesOK, Conns, VerdictIsFresh, CachedIntegrity
<1>8. CASE Prepare
  BY <1>8, RememberedIsFresh DEF Prepare, ViewOK, Conns, VerdictIsFresh, CachedIntegrity
<1>9. CASE BuildPlan
  BY <1>9, RememberedIsFresh DEF BuildPlan, ViewOK, Conns
<1>10. CASE PrepareLegacy
  BY <1>10, ForgottenIsFresh DEF PrepareLegacy, VerdictIsFresh, CachedIntegrity
<1>11. CASE OperatorCrashes \/ \E s \in Ids : ResumeScan(s)
  <2>1. db' = db /\ \A k \in Conns : cache'[k] \in {None, cache[k]}
    BY <1>11 DEF OperatorCrashes, ResumeScan, CacheOK
  <2> QED
    BY <2>1 DEF VerdictIsFresh, CachedIntegrity
<1>12. CASE UNCHANGED <<db, cache>>
  BY <1>12 DEF VerdictIsFresh, CachedIntegrity
<1>13. CASE ReadManifest \/ SessionFails \/ SessionCrashes \/ LeaseValidate \/ LeaseRelease \/ Export
  BY <1>13, <1>12 DEF ReadManifest, SessionFails, SessionCrashes, LeaseValidate, LeaseRelease, Export,
                      OpenExport, PublishExport
<1>14. CASE (\E s \in Ids : OpenScan(s)) \/ DropPlan \/ LeaseBegin \/ LeaseBusy \/ SelectExport \/ UNCHANGED vars
  BY <1>14, <1>12 DEF OpenScan, DropPlan, LeaseBegin, LeaseBusy, SelectExport, vars
<1> QED
  BY <1>1, <1>2, <1>3, <1>5, <1>6, <1>7, <1>8, <1>9, <1>10, <1>11, <1>13, <1>14, Zenon
  DEF Next, Session, Actor, Batch, Operator, World, Rest

-----------------------------------------------------------------------------
(* The lease and the plan                                                  *)

\* While a lease is held nobody writes: BEGIN IMMEDIATE keeps every other connection

\* out, and the actor, whose view is open, prepares nothing.
LEMMA HeldQuiet == Shapes /\ lease = "held" /\ lease' = "held" /\ [Next]_vars => UNCHANGED <<db, plan>>
<1> SUFFICES ASSUME Shapes, lease = "held", lease' = "held", [Next]_vars PROVE UNCHANGED <<db, plan>>
  OBVIOUS
<1>1. plan.pc = "shown" /\ view.pc = "open" /\ ~Writable
  BY DEF Shapes, PlanOK, Writable
<1>2. CASE Session
  BY <1>1, <1>2 DEF Session, SessionSteps, ClearForWalk, RecordFiles, ReadManifest, RecordHashes, Publish,
                    SetStatus, ViewOwnResult, SessionFails
<1>3. CASE Actor \/ Batch \/ Export
  BY <1>1, <1>3 DEF Actor, Prepare, PrepareLegacy, Batch, LeaseValidate, LeaseRelease, Settle,
                    Export, OpenExport, PublishExport
<1>4. CASE Operator
  BY <1>1, <1>4 DEF Operator, StartScan, ResumeScan, TrashScan, PurgeScan, OpenScan, SetMark, ClearMarks,
                    BuildPlan, DropPlan, LeaseBegin, LeaseBusy, SelectExport
<1>5. CASE World
  BY <1>1, <1>5 DEF World, SessionCrashes, OperatorCrashes, Damage
<1>6. CASE UNCHANGED vars
  BY <1>6 DEF vars
<1> QED
  BY <1>2, <1>3, <1>4, <1>5, <1>6 DEF Next, Rest

\* What the lease is granted on is what was planned.

LEMMA GrantedIsPlanned ==
    ASSUME PlanOK, plan.pc = "shown", NEW x, ValidateLeaseWitness(x, plan), x.mode \in Modes
    PROVE  /\ \A w \in plan.groups :
               /\ w.rank \in Ranks(x)
               /\ Members(x, w.rank) = w.members
               /\ \A p \in w.members : p \in DOMAIN x.files /\ x.files[p] = w.digest
           /\ \A v, w \in plan.groups : v # w => v.members \cap w.members = {}
<1>1. \A w \in plan.groups : CheckWitnessedRank(x, w)
  BY DEF ValidateLeaseWitness, ValidateExplicitWitness, ValidateDerivedWitness, Modes
<1>2. \A w \in plan.groups : /\ w.rank \in Ranks(x) /\ Members(x, w.rank) = w.members
                             /\ x.groups[w.rank].digest = w.digest
  BY <1>1 DEF CheckWitnessedRank
<1>3. ASSUME NEW w \in plan.groups, NEW p \in w.members
      PROVE  p \in DOMAIN x.files /\ x.files[p] = w.digest
  <2>1. CASE x.mode = "Explicit"
    BY <2>1, <1>3 DEF ValidateLeaseWitness, ValidateExplicitWitness, MemberDigestOk
  <2>2. CASE x.mode = "Derived"
    BY <2>2, <1>2, <1>3 DEF Members, With
  <2> QED
    BY <2>1, <2>2 DEF ValidateLeaseWitness, Modes
<1>4. ASSUME NEW v \in plan.groups, NEW w \in plan.groups, NEW p, p \in v.members, p \in w.members
      PROVE  v = w
  <2>1. v.rank = w.rank
    <3>1. CASE x.mode = "Explicit"
      BY <3>1, <1>2, <1>4 DEF Members
    <3>2. CASE x.mode = "Derived"
      <4>1. x.groups[v.rank].digest = x.groups[w.rank].digest
        BY <1>2, <1>3, <1>4
      <4> QED
        BY <3>2, <4>1, <1>2, <1>4 DEF ValidateLeaseWitness, ValidateDerivedWitness, DerivedShape
    <3> QED
      BY <3>1, <3>2 DEF ValidateLeaseWitness, Modes
  <2>2. v.digest = w.digest /\ v.members = w.members
    BY <1>2, <2>1
  <2>3. /\ v \in [rank : {v.rank}, digest : {v.digest}, members : {v.members}]
        /\ w \in [rank : {w.rank}, digest : {w.digest}, members : {w.members}]
    BY <1>4 DEF PlanOK
  <2> QED
    BY <2>1, <2>2, <2>3
<1> QED
  BY <1>2, <1>3, <1>4

LEMMA LeasedNext == Shapes /\ LeasedIsPlanned /\ [Next]_vars => LeasedIsPlanned'
<1> SUFFICES ASSUME Shapes, LeasedIsPlanned, [Next]_vars, lease' = "held" PROVE LeasedIsPlanned'
  BY DEF LeasedIsPlanned
<1>1. CASE lease = "held"
  <2>1. db' = db /\ plan' = plan
    BY <1>1, HeldQuiet
  <2> QED
    BY <1>1, <2>1 DEF LeasedIsPlanned
<1>2. CASE lease # "held"
  <2>1. LeaseValidate
    BY <1>2 DEF Next, Session, SessionSteps, ClearForWalk, RecordFiles, ReadManifest, RecordHashes,
        Publish, SetStatus, ViewOwnResult, SessionFails, Actor, Prepare, PrepareLegacy, Batch, LeaseRelease,
        Settle, Export, OpenExport, PublishExport, Operator, StartScan, ResumeScan, TrashScan, PurgeScan,
        OpenScan, SetMark, ClearMarks, BuildPlan, DropPlan, LeaseBegin, LeaseBusy, SelectExport, World,
        SessionCrashes, OperatorCrashes, Damage, Rest, vars
  <2>2. ValidateLeaseWitness(db[plan.scan], plan) /\ UNCHANGED <<db, plan>>
    BY <2>1 DEF LeaseValidate
  <2>3. plan.pc = "shown" /\ plan.scan \in Ids /\ db[plan.scan] # None
    BY <2>1, <2>2 DEF LeaseValidate, Shapes, PlanOK, ValidateLeaseWitness
  <2>4. db[plan.scan].mode \in Modes
    BY <2>3 DEF Shapes, DbOK, ScanOK, Scan
  <2>5. PlanOK
    BY DEF Shapes
  <2> QED
    BY <2>2, <2>3, <2>4, <2>5, GrantedIsPlanned DEF LeasedIsPlanned
<1> QED
  BY <1>1, <1>2

\* What the builder lets through, on a verdict that is fresh, is what the lease asks for.
LEMMA BuiltIsLeasable ==
    ASSUME Shapes, VerdictIsFresh, BuildPlan, plan'.pc = "shown"
    PROVE  ValidateLeaseWitness(db[plan'.scan], plan')
<1> DEFINE x == db[view.scan]
           verdict == Integrity("actor", view.scan)
           ranks == UNION {GroupsOf(x, p) : p \in x.marks}
           g == WitnessOf(x, ranks)
<1>1. /\ plan' = [pc |-> "shown", scan |-> view.scan, gen |-> x.gen, groups |-> g]
      /\ x.mode # "Unknown" /\ verdict.sound
      /\ \A r \in ranks : r \notin verdict.bad
  BY DEF BuildPlan, NoPlan, RequireConsistent
<1>2. view.scan \in Ids /\ x # None
  BY DEF BuildPlan, Shapes, ViewOK
<1>3. x.mode \in {"Derived", "Explicit"}
  BY <1>1, <1>2 DEF Shapes, DbOK, ScanOK, Scan, Modes
<1>4. verdict = ValidateAuthority(x)
  BY <1>2 DEF Integrity, VerdictIsFresh, Conns
<1>5. /\ x.mode = "Explicit" => ExplicitShape(x)
      /\ x.mode = "Derived" => DerivedShape(x)
      /\ verdict.bad = {r \in Ranks(x) : Cardinality(Members(x, r)) # x.groups[r].count}
  BY <1>1, <1>3, <1>4 DEF ValidateAuthority, Sound, Inconsistent
<1>6. \A r \in ranks : r \in Ranks(x) /\ Cardinality(Members(x, r)) = x.groups[r].count
  BY <1>1, <1>5 DEF GroupsOf
<1> HIDE DEF ranks, verdict
<1>7. ASSUME NEW w \in g
      PROVE  CheckWitnessedRank(x, w) /\ (x.mode = "Explicit" => MemberDigestOk(x, w))
  <2>1. PICK r \in ranks : w = [rank |-> r, digest |-> x.groups[r].digest, members |-> Members(x, r)]
    BY <1>7 DEF WitnessOf
  <2>2. CheckWitnessedRank(x, w)
    BY <2>1, <1>6 DEF CheckWitnessedRank
  <2>3. ASSUME x.mode = "Explicit" PROVE MemberDigestOk(x, w)
    BY <2>1, <2>3, <1>5 DEF ExplicitShape, MemberDigestOk, Members
  <2> QED
    BY <2>2, <2>3
<1> HIDE DEF x, g
<1>8. plan'.scan = view.scan /\ plan'.gen = x.gen /\ plan'.groups = g
  BY <1>1
<1>9. ValidateLeaseWitness(x, plan')
  BY <1>2, <1>3, <1>5, <1>7, <1>8 DEF ValidateLeaseWitness, ValidateExplicitWitness, ValidateDerivedWitness
<1> QED
  BY <1>8, <1>9 DEF x

LEMMA LeasableNext ==
    Shapes /\ VerdictIsFresh /\ [Next]_vars =>
        [plan.pc = "none" /\ plan'.pc = "shown" => ValidateLeaseWitness(db[plan'.scan], plan')]_vars
<1> SUFFICES ASSUME Shapes, VerdictIsFresh, [Next]_vars, plan.pc = "none", plan'.pc = "shown"
             PROVE  ValidateLeaseWitness(db[plan'.scan], plan')
  OBVIOUS
<1>1. BuildPlan
  <2>1. lease = "none"
    BY DEF Shapes, PlanOK
  <2>2. CASE Session
    BY <2>2 DEF Session, SessionSteps, ClearForWalk, RecordFiles, ReadManifest, RecordHashes, Publish,
                SetStatus, ViewOwnResult, SessionFails
  <2>3. CASE Actor \/ Export
    BY <2>3 DEF Actor, Prepare, PrepareLegacy, Export, OpenExport, PublishExport
  <2>4. CASE Batch
    BY <2>1, <2>4 DEF Batch, LeaseValidate, LeaseRelease, Settle, NoPlan
  <2>5. CASE Operator
    BY <2>5 DEF Operator, StartScan, ResumeScan, TrashScan, PurgeScan, OpenScan, SetMark, ClearMarks,
                DropPlan, LeaseBegin, LeaseBusy, SelectExport
  <2>6. CASE World
    BY <2>6 DEF World, SessionCrashes, OperatorCrashes, Damage, NoPlan
  <2>7. CASE UNCHANGED vars
    BY <2>7 DEF vars
  <2> QED
    BY <2>2, <2>3, <2>4, <2>5, <2>6, <2>7 DEF Next, Rest
<1> QED
  BY <1>1, BuiltIsLeasable

-----------------------------------------------------------------------------
(* The export                                                              *)

\* How a scan's record may change in a step: what is judged stays, or it was edited; a
\* scan that is not completed is written, or one of an older version gets summaries; or
\* another is begun, under a number of its own.
Evolves(x, y) ==
    \/ /\ x # None
       /\ y.born = x.born /\ y.status = x.status
       /\ y.edited \/ (Alike(x, y) /\ y.edited = x.edited)
    \/ x # None /\ ~Completed(x) /\ y.born = x.born
    \/ x # None /\ x.mode = "Unknown" /\ ~x.edited /\ y.born = x.born

Begun(y) ==
    y.born = left.starts /\ left.starts \in Nat \ {0} /\ left'.starts = left.starts - 1

LEMMA EvolvesSession ==
    ASSUME Shapes, Session, NEW s \in Ids, db'[s] # None
    PROVE  Evolves(db[s], db'[s])
<1> USE DEF Shapes
<1>1. CASE db'[s] = db[s]
  BY <1>1 DEF Evolves, Alike
<1>2. ASSUME NEW y, ses.pc \notin {"idle", "view"}, db[ses.scan] # None,
             db' = [db EXCEPT ![ses.scan] = y], y.born = db[ses.scan].born
      PROVE  Evolves(db[s], db'[s])
  <2>1. CASE s = ses.scan
    BY <1>2, <2>1 DEF DbOK, SesOK, Evolves
  <2>2. CASE s # ses.scan
    BY <1>1, <1>2, <2>2 DEF DbOK
  <2> QED
    BY <2>1, <2>2
<1> DEFINE x == db[ses.scan]
<1>3. CASE ClearForWalk
  <2> DEFINE y == ClearFiles(x)
  <2>1. y.born = x.born
    BY DEF ClearFiles, NewScan
  <2>2. db' = [db EXCEPT ![ses.scan] = y] /\ ses.pc = "clear" /\ x # None
    BY <1>3 DEF ClearForWalk, SessionSteps, Store
  <2> HIDE DEF y
  <2> QED
    BY <1>2, <2>1, <2>2
<1>4. CASE RecordFiles
  <2>1. PICK w : db' = [db EXCEPT ![ses.scan] =
                          [x EXCEPT !.files = [p \in DOMAIN w |-> None], !.status = "Hashing"]]
    BY <1>4 DEF RecordFiles, Store
  <2> DEFINE f == [p \in DOMAIN w |-> None]
             y == [x EXCEPT !.files = f, !.status = "Hashing"]
  <2>2. ses.pc = "walk" /\ x # None /\ ses.scan \in Ids
    BY <1>4 DEF RecordFiles, SessionSteps, SesOK
  <2> HIDE DEF f
  <2>3. y.born = x.born
    BY <2>2 DEF DbOK, ScanOK, Scan
  <2>4. db' = [db EXCEPT ![ses.scan] = y]
    BY <2>1 DEF f
  <2> HIDE DEF y
  <2> QED
    BY <1>2, <2>2, <2>3, <2>4
<1>5. CASE RecordHashes
  <2> DEFINE p == Min(ses.todo)
             f == [x.files EXCEPT ![p] = ses.world[p].digest]
             y == [x EXCEPT !.files = f]
  <2>1. ses.pc = "hash" /\ x # None /\ ses.scan \in Ids
    BY <1>5 DEF RecordHashes, SessionSteps, SesOK
  <2>2. db' = [db EXCEPT ![ses.scan] = y] \/ db' = db
    BY <1>5 DEF RecordHashes, Store
  <2> HIDE DEF f
  <2>3. y.born = x.born
    BY <2>1 DEF DbOK, ScanOK, Scan
  <2> HIDE DEF y
  <2> QED
    BY <1>1, <1>2, <2>1, <2>2, <2>3
<1>6. ASSUME NEW mode \in {"Derived", "Explicit"}, Publish(mode) PROVE Evolves(db[s], db'[s])
  <2> DEFINE parts == IF mode = "Derived" THEN DerivedParts(x)
                      ELSE {z \in VerifiedParts(x, ses.world) : Cardinality(z.members) >= 2}
             y == PublishResults(x, parts, mode)
  <2>1. ses.pc = "hash" /\ x # None /\ ses.scan \in Ids
    BY <1>6 DEF Publish, SessionSteps, SesOK
  <2>2. db' = [db EXCEPT ![ses.scan] = y]
    BY <1>6 DEF Publish, Store
  <2> HIDE DEF parts
  <2>3. y.born = x.born
    BY <2>1 DEF DbOK, ScanOK, Scan, PublishResults
  <2> HIDE DEF y
  <2> QED
    BY <1>2, <2>1, <2>2, <2>3
<1>7. CASE SetStatus
  <2> DEFINE y == [x EXCEPT !.status = "Complete"]
  <2>1. ses.pc = "status" /\ x # None /\ ses.scan \in Ids
    BY <1>7 DEF SetStatus, SessionSteps, SesOK
  <2>2. db' = [db EXCEPT ![ses.scan] = y]
    BY <1>7 DEF SetStatus, Store
  <2>3. y.born = x.born
    BY <2>1 DEF DbOK, ScanOK, Scan
  <2> HIDE DEF y
  <2> QED
    BY <1>2, <2>1, <2>2, <2>3
<1>8. CASE ReadManifest \/ ViewOwnResult \/ SessionFails
  BY <1>1, <1>8 DEF ReadManifest, ViewOwnResult, SessionFails
<1> QED
  BY <1>3, <1>4, <1>5, <1>6, <1>7, <1>8 DEF Session

LEMMA EvolvesNext ==
    ASSUME Shapes, [Next]_vars, NEW s \in Ids, db'[s] # None
    PROVE  Evolves(db[s], db'[s]) \/ Begun(db'[s])
<1> USE DEF Shapes
<1>1. ASSUME db'[s] = db[s] PROVE Evolves(db[s], db'[s])
  BY <1>1 DEF Evolves, Alike
<1>2. ASSUME NEW t \in Ids, NEW y, db[t] # None, db' = [db EXCEPT ![t] = y],
             y.born = db[t].born, y.status = db[t].status,
             y.edited \/ (Alike(db[t], y) /\ y.edited = db[t].edited)
      PROVE  Evolves(db[s], db'[s])
  BY <1>1, <1>2 DEF DbOK, Evolves
<1>3. CASE StartScan
  <2>1. PICK id \in Ids, keyless \in BOOLEAN : db' = [db EXCEPT ![id] = NewScan(left.starts, keyless)]
    BY <1>3 DEF StartScan
  <2>2. left.starts \in Nat \ {0} /\ left'.starts = left.starts - 1
    BY <1>3 DEF StartScan, Spend, LeftOK, Acts
  <2>3. NewScan(left.starts, keyless).born = left.starts
    BY DEF NewScan
  <2>4. s = id => Begun(db'[s])
    BY <2>1, <2>2, <2>3 DEF DbOK, Begun
  <2> QED
    BY <1>1, <2>1, <2>4 DEF DbOK
<1>4. ASSUME NEW t \in Ids, TrashScan(t) PROVE Evolves(db[s], db'[s])
  <2> DEFINE y == [db[t] EXCEPT !.trashed = TRUE]
  <2>1. db[t] # None /\ db' = [db EXCEPT ![t] = y]
    BY <1>4 DEF TrashScan
  <2>2. y.born = db[t].born /\ y.status = db[t].status /\ Alike(db[t], y) /\ y.edited = db[t].edited
    BY <2>1 DEF DbOK, ScanOK, Scan, Alike
  <2> HIDE DEF y
  <2> QED
    BY <1>2, <2>1, <2>2
<1>5. ASSUME NEW t \in Ids, PurgeScan(t) PROVE Evolves(db[s], db'[s])
  BY <1>1, <1>5 DEF PurgeScan, DbOK
<1>6. ASSUME NEW t \in Ids, Damage(t) PROVE Evolves(db[s], db'[s])
  <2>1. PICK x \in Damaged(db[t]) : db' = [db EXCEPT ![t] = [x EXCEPT !.edited = TRUE]]
    BY <1>6 DEF Damage
  <2> DEFINE y == [x EXCEPT !.edited = TRUE]
  <2>2. db[t] # None /\ y.born = db[t].born /\ y.status = db[t].status /\ y.edited
    BY <1>6, DamageOK DEF Damage, DbOK
  <2> HIDE DEF y
  <2>3. db' = [db EXCEPT ![t] = y]
    BY <2>1 DEF y
  <2> QED
    BY <1>2, <2>2, <2>3
<1>7. ASSUME NEW t \in Ids, NEW m, db[t] # None, db' = [db EXCEPT ![t].marks = m]
      PROVE  Evolves(db[s], db'[s])
  <2> DEFINE y == [db[t] EXCEPT !.marks = m]
  <2>1. y.born = db[t].born /\ y.status = db[t].status /\ Alike(db[t], y) /\ y.edited = db[t].edited
    BY <1>7 DEF DbOK, ScanOK, Scan, Alike
  <2>2. db' = [db EXCEPT ![t] = y]
    BY <1>7
  <2> HIDE DEF y
  <2> QED
    BY <1>2, <1>7, <2>1, <2>2
<1>8. CASE (\E p \in Paths : SetMark(p)) \/ ClearMarks
  <2>1. PICK m : db' = [db EXCEPT ![view.scan].marks = m]
    BY <1>8 DEF SetMark, ClearMarks
  <2> QED
    BY <1>7, <1>8, <2>1 DEF SetMark, ClearMarks, ViewOK
<1>9. CASE Settle
  <2>1. plan.scan \in Ids
    BY <1>9 DEF Settle, PlanOK
  <2>2. CASE db[plan.scan] # None
    <3>1. PICK m : db' = [db EXCEPT ![plan.scan].marks = m]
      BY <1>9, <2>2 DEF Settle
    <3> QED
      BY <1>7, <2>1, <2>2, <3>1
  <2> QED
    BY <1>1, <1>9, <2>2 DEF Settle
<1>10. CASE PrepareLegacy
  <2> DEFINE x == db[view.scan]
             y == BrowseSummaries(x)
  <2>1. view.scan \in Ids /\ view.pc = "legacy"
    BY <1>10 DEF PrepareLegacy, ViewOK
  <2>2. CASE x # None
    <3>1. ScanOK(x)
      BY <2>1, <2>2 DEF DbOK
    <3>2. y.born = x.born /\ y.status = x.status /\ y.edited = x.edited
      BY <3>1 DEF BrowseSummaries, ScanOK, Scan
    <3>3. CASE x.mode # "Unknown"
      <4>1. Alike(x, y)
        BY <3>1, <3>3 DEF BrowseSummaries, ScanOK, Scan, Alike
      <4>2. db' = [db EXCEPT ![view.scan] = y]
        BY <1>10, <2>2 DEF PrepareLegacy
      <4> HIDE DEF y
      <4> QED
        BY <1>2, <2>1, <2>2, <3>2, <4>1, <4>2
    <3>4. CASE x.mode = "Unknown"
      <4>1. db' = [db EXCEPT ![view.scan] = y]
        BY <1>10, <2>2 DEF PrepareLegacy
      <4>2. x.edited \in BOOLEAN
        BY <3>1 DEF ScanOK, Scan
      <4> HIDE DEF y
      <4>3. s = view.scan => Evolves(db[s], db'[s])
        BY <2>1, <2>2, <3>2, <3>4, <4>1, <4>2 DEF DbOK, Evolves
      <4> QED
        BY <1>1, <2>1, <4>1, <4>3 DEF DbOK
    <3> QED
      BY <3>3, <3>4
  <2> QED
    BY <1>1, <1>10, <2>2 DEF PrepareLegacy
<1>11. CASE Prepare \/ LeaseValidate \/ LeaseRelease \/ Export \/ SelectExport \/ SessionCrashes \/ OperatorCrashes
  BY <1>1, <1>11 DEF Prepare, LeaseValidate, LeaseRelease, Export, OpenExport, PublishExport, SelectExport,
                     SessionCrashes, OperatorCrashes
<1>12. CASE (\E t \in Ids : ResumeScan(t) \/ OpenScan(t)) \/ BuildPlan \/ DropPlan \/ LeaseBegin \/ LeaseBusy
            \/ UNCHANGED vars
  BY <1>1, <1>12 DEF ResumeScan, OpenScan, BuildPlan, DropPlan, LeaseBegin, LeaseBusy, vars
<1>13. CASE Session
  BY <1>13, EvolvesSession
<1> QED
  BY <1>3, <1>4, <1>5, <1>6, <1>8, <1>9, <1>10, <1>11, <1>12, <1>13, Zenon
  DEF Next, Actor, Batch, Operator, World, Rest

LEMMA StartsSink ==
    ASSUME Shapes, [Next]_vars
    PROVE  left.starts \in Nat /\ left'.starts \in Nat /\ left'.starts <= left.starts
<1>1. LeftOK /\ LeftOK'
  BY ShapesNext DEF Shapes
<1>2. left' = left \/ \E what \in Acts : Spend(what)
  BY DEF Acts, Next, Session, SessionSteps, ClearForWalk, RecordFiles, ReadManifest, RecordHashes,
      Publish, SetStatus, ViewOwnResult, SessionFails, Actor, Prepare, PrepareLegacy, Batch, LeaseValidate,
      LeaseRelease, Settle, Export, OpenExport, PublishExport, Operator, StartScan, ResumeScan, TrashScan,
      PurgeScan, OpenScan, SetMark, ClearMarks, BuildPlan, DropPlan, LeaseBegin, LeaseBusy, SelectExport,
      World, SessionCrashes, OperatorCrashes, Damage, Rest, vars
<1>3. left.starts \in Nat
  BY <1>1 DEF LeftOK, Acts
<1> QED
  BY <1>1, <1>2, <1>3, Spending

LEMMA KeptNext ==
    ASSUME Shapes, [Next]_vars, NEW e, e.pc = "open" => e.scan \in Ids, Kept(e, db, left.starts)
    PROVE  Kept(e, db', left'.starts)
<1> SUFFICES ASSUME e.pc = "open" PROVE Kept(e, db', left'.starts)
  BY DEF Kept
<1> DEFINE x == db[e.scan]
           y == db'[e.scan]
<1>1. left.starts \in Nat /\ left'.starts \in Nat /\ left'.starts <= left.starts
  BY StartsSink
<1>2. e.born \in Nat /\ (e.born = 0 \/ e.born > left'.starts)
  BY <1>1 DEF Kept
<1>3. ASSUME y # None, y.born = e.born
      PROVE  /\ Completed(y)
             /\ ~y.edited => y.mode # "Unknown" /\ e.groups = {Members(y, r) : r \in Ranks(y)}
  <2>1. ~Begun(y)
    BY <1>1, <1>3 DEF Begun, Kept
  <2>2. Evolves(x, y)
    BY <1>3, <2>1, EvolvesNext
  <2>3. x # None /\ x.born = e.born
    BY <1>3, <2>2 DEF Evolves
  <2>4. /\ Completed(x)
        /\ ~x.edited => x.mode # "Unknown" /\ e.groups = {Members(x, r) : r \in Ranks(x)}
    BY <2>3 DEF Kept
  <2>5. y.status = x.status /\ (y.edited \/ (Alike(x, y) /\ y.edited = x.edited))
    BY <2>2, <2>4 DEF Evolves
  <2>6. CASE Alike(x, y) /\ y.edited = x.edited
    <3>1. Ranks(y) = Ranks(x) /\ \A r : Members(y, r) = Members(x, r)
      BY <2>6, AlikeMembers
    <3>2. {Members(y, r) : r \in Ranks(y)} = {Members(x, r) : r \in Ranks(x)}
      BY <3>1
    <3> QED
      BY <2>4, <2>5, <2>6, <3>2 DEF Completed, Alike
  <2> QED
    BY <2>4, <2>5, <2>6 DEF Completed
<1> QED
  BY <1>2, <1>3 DEF Kept

LEMMA CsvNext == Shapes /\ BornOK /\ CsvOK /\ [Next]_vars => CsvOK'
<1> SUFFICES ASSUME Shapes, BornOK, CsvOK, [Next]_vars PROVE CsvOK'
  OBVIOUS
<1>1. /\ Kept(csv.now, db', left'.starts) /\ Kept(csv.made, db', left'.starts)
  BY KeptNext, MembershipAssumption DEF CsvOK, Artifact
<1>2. CASE csv' = csv
  BY <1>1, <1>2 DEF CsvOK
<1>3. CASE SelectExport
  <2>1. PICK s \in Ids : csv' = [csv EXCEPT !.now = [NoExport EXCEPT !.pc = "chosen", !.scan = s]]
    BY <1>3 DEF SelectExport
  <2> DEFINE e == [NoExport EXCEPT !.pc = "chosen", !.scan = s]
  <2>2. Artifact(e) /\ e.pc = "chosen"
    BY MembershipAssumption DEF NoExport, Artifact
  <2> HIDE DEF e
  <2>3. csv'.now = e /\ csv'.made = csv.made /\ csv' \in [now : {csv'.now}, made : {csv'.made}]
    BY <2>1 DEF CsvOK, e
  <2>4. Kept(e, db', left'.starts)
    BY <2>2 DEF Kept
  <2> QED
    BY <1>1, <2>2, <2>3, <2>4 DEF CsvOK
<1>4. CASE OpenExport
  <2> DEFINE s == csv.now.scan
             groups == {Members(db[s], r) : r \in Ranks(db[s])}
             e == IF ExportAllowed(s)
                  THEN [pc |-> "open", scan |-> s, born |-> db[s].born, groups |-> groups]
                  ELSE NoExport
  <2>1. s \in Ids
    BY <1>4 DEF OpenExport, CsvOK, Artifact
  <2>2. Artifact(e) /\ e.pc # "chosen"
    BY <2>1, MembershipAssumption DEF NoExport, Artifact
  <2>3. Kept(e, db, left.starts)
    <3>1. CASE ExportAllowed(s)
      <4>1. db[s] # None /\ Completed(db[s]) /\ db[s].mode # "Unknown"
        BY <3>1 DEF ExportAllowed, Newest, Active
      <4>2. db[s].born \in Nat /\ (db[s].born = 0 \/ db[s].born > left.starts)
        BY <2>1, <4>1 DEF BornOK, Shapes, DbOK, ScanOK, Scan
      <4>3. e.pc = "open" /\ e.scan = s /\ e.born = db[s].born /\ e.groups = groups
        BY <3>1
      <4> HIDE DEF e
      <4> QED
        BY <4>1, <4>2, <4>3 DEF Kept
    <3>2. CASE ~ExportAllowed(s)
      BY <3>2 DEF Kept, NoExport
    <3> QED
      BY <3>1, <3>2
  <2>4. csv' = [csv EXCEPT !.now = e] /\ db' = db /\ left' = left
    BY <1>4 DEF OpenExport
  <2> HIDE DEF e
  <2>5. csv'.now = e /\ csv'.made = csv.made /\ csv' \in [now : {csv'.now}, made : {csv'.made}]
    BY <2>4 DEF CsvOK
  <2> QED
    BY <1>1, <2>2, <2>3, <2>4, <2>5 DEF CsvOK
<1>5. CASE PublishExport
  <2>1. csv' = [now |-> NoExport, made |-> csv.now] /\ csv.now.pc = "open"
    BY <1>5 DEF PublishExport
  <2>2. Artifact(NoExport) /\ Kept(NoExport, db', left'.starts)
    BY DEF NoExport, Artifact, Kept
  <2> QED
    BY <1>1, <2>1, <2>2 DEF CsvOK
<1>6. CASE Session
  BY <1>2, <1>6 DEF Session, SessionSteps, ClearForWalk, RecordFiles, ReadManifest, RecordHashes, Publish,
              SetStatus, ViewOwnResult, SessionFails
<1>7. CASE Actor \/ Batch
  BY <1>2, <1>7 DEF Actor, Prepare, PrepareLegacy, Batch, LeaseValidate, LeaseRelease, Settle
<1>8. CASE Operator
  BY <1>2, <1>3, <1>8 DEF Operator, StartScan, ResumeScan, TrashScan, PurgeScan, OpenScan, SetMark,
              ClearMarks, BuildPlan, DropPlan, LeaseBegin, LeaseBusy
<1>9. CASE World
  BY <1>2, <1>9 DEF World, SessionCrashes, OperatorCrashes, Damage
<1>10. CASE UNCHANGED vars
  BY <1>2, <1>10 DEF vars
<1> QED
  BY <1>4, <1>5, <1>6, <1>7, <1>8, <1>9, <1>10 DEF Next, Export, Rest

LEMMA BornNext == Shapes /\ BornOK /\ [Next]_vars => BornOK'
<1> SUFFICES ASSUME Shapes, BornOK, [Next]_vars, NEW s \in Ids, db'[s] # None
             PROVE  db'[s].born = 0 \/ db'[s].born > left'.starts
  BY DEF BornOK
<1>1. left.starts \in Nat /\ left'.starts \in Nat /\ left'.starts <= left.starts
  BY StartsSink
<1>2. CASE Begun(db'[s])
  BY <1>1, <1>2 DEF Begun
<1>3. CASE Evolves(db[s], db'[s])
  <2>1. db[s] # None /\ db'[s].born = db[s].born
    BY <1>3 DEF Evolves
  <2>2. db[s].born \in Nat
    BY <2>1 DEF Shapes, DbOK, ScanOK, Scan
  <2> QED
    BY <1>1, <2>1, <2>2 DEF BornOK
<1> QED
  BY <1>2, <1>3, EvolvesNext

-----------------------------------------------------------------------------
(* The theorems                                                            *)

LEMMA Inductive == Spec => []IInv
<1>1. Init => IInv
  <2> SUFFICES ASSUME Init PROVE IInv
    OBVIOUS
  <2>1. Shapes
    BY ShapesInit
  <2>2. BornOK
    <3>1. PICK old \in Legacies : db = [s \in Ids |-> IF s \in DOMAIN old THEN old[s] ELSE None]
      BY DEF Init
    <3> QED
      BY <3>1, MembershipAssumption DEF OldScan, BornOK
  <2>3. CsvOK
    BY DEF Init, CsvOK, Artifact, Kept, NoExport
  <2>4. VerdictIsFresh
    BY DEF Init, VerdictIsFresh, CachedIntegrity
  <2>5. LeasedIsPlanned
    BY DEF Init, LeasedIsPlanned
  <2> QED
    BY <2>1, <2>2, <2>3, <2>4, <2>5 DEF IInv
<1>2. IInv /\ [Next]_vars => IInv'
  BY ShapesNext, BornNext, CsvNext, VerdictNext, LeasedNext DEF IInv
<1> QED
  BY <1>1, <1>2, PTL DEF Spec

\* While the batch runs (validate_lease_witness, stream_witnessed_ranks), every group

\* it was planned on is what the plan says.
THEOREM LeaseHoldsThePlan == Spec => []LeasedIsPlanned
<1>1. IInv => LeasedIsPlanned
  BY DEF IInv
<1> QED
  BY <1>1, Inductive, PTL

\* A verdict that cached_integrity would use again is the one validate_authority would

\* come to now.
THEOREM RememberedVerdictIsFresh == Spec => []VerdictIsFresh
<1>1. IInv => VerdictIsFresh
  BY DEF IInv
<1> QED
  BY <1>1, Inductive, PTL

\* What build_action_plan lets through, validate_lease_witness takes, as long as nobody

\* writes in between.
THEOREM BuilderAgreesWithLease == Spec => PlanIsLeasable
<1>1. IInv /\ [Next]_vars =>
        [plan.pc = "none" /\ plan'.pc = "shown" => ValidateLeaseWitness(db[plan'.scan], plan')]_vars
  BY LeasableNext DEF IInv
<1> QED
  BY <1>1, Inductive, PTL DEF Spec, PlanIsLeasable

\* prepare_browse_summaries never replaces the result of an older version, and what an

\* export has written is never published again.
THEOREM SeenResultsStand == Spec => []ResultsStand
<1>1. IInv => ResultsStand
  <2> SUFFICES ASSUME IInv PROVE LegacyResultKept /\ ExportStands
    BY DEF ResultsStand
  <2>1. LegacyResultKept
    BY DEF IInv, Shapes, DbOK, ScanOK, LegacyResultKept
  <2>2. ExportStands
    <3> SUFFICES ASSUME NEW s, s = csv.made.scan, s # None, db[s] # None, db[s].born = csv.made.born, ~db[s].edited
                 PROVE  db[s].mode # "Unknown" /\ csv.made.groups = {Members(db[s], r) : r \in Ranks(db[s])}
      BY DEF ExportStands
    <3>1. csv.made.pc = "open"
      BY DEF IInv, CsvOK, Artifact
    <3> QED
      BY <3>1 DEF IInv, CsvOK, Kept
  <2> QED
    BY <2>1, <2>2
<1> QED
  BY <1>1, Inductive, PTL
=============================================================================
