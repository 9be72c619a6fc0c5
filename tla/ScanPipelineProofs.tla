------------------------- MODULE ScanPipelineProofs -------------------------
(***************************************************************************)
(* Proofs about ScanPipeline, for every set of files, every disk, every    *)
(* number of sessions, crashes and changes: a digest in the checkpoint is  *)
(* of the content its times stand for, what stands beside a scan is of     *)
(* that scan, nothing found out is forgotten, and the checkpoint as its    *)
(* readers see it is ScanResult.                                           *)
(*                                                                         *)
(* The inductive invariant IInv says what a stamp stands for, what a read  *)
(* in flight may still become, and, for each place of the session, what of *)
(* its scan is already true there.                                         *)
(***************************************************************************)
EXTENDS ScanPipeline, FiniteSetTheorems, TLAPS

Statuses == {"Walking", "Hashing", "Complete", "CompleteWithWarnings"}

Done(x) == x.status \in {"Complete", "CompleteWithWarnings"}

\* The disk: the newest stamp of an object stands for the content it has.
DiskOK ==
    /\ disk \in [names : [Paths -> Objects \cup {None}], denied : {disk.denied}, keyable : BOOLEAN,
                 stamp : [Objects -> 1..disk.clock], content : [Objects -> Contents],
                 dev : [Roots -> Nat], mounted : [Roots -> BOOLEAN], clock : 0..MaxStamp]
    /\ DOMAIN written = 1..MaxStamp
    /\ \A t \in 1..disk.clock : written[t] \in Contents
    /\ \A o \in Objects : written[disk.stamp[o]] = disk.content[o]

\* A row, when w is what the stamps up to c stand for.
RowOK(r, w, c) ==
    /\ r \in [hash : {r.hash}, obj : Objects, dev : Nat, stamp : 1..c]
    /\ r.hash # None => r.hash = w[r.stamp]

\* What a completed scan shows.
Published(x) ==
    /\ x.pub \in Publication
    /\ x.pub.mode = "Derived" => x.pub.members = {} /\ x.pub.digests = GroupDigests(x)
    /\ x.pub.mode = "Explicit" =>
        /\ x.pub.digests = {}
        /\ \A g \in x.pub.members :
            /\ \E d \in GroupDigests(x) : g \subseteq PathsWith(x, d)
            /\ Cardinality(ObjectsOf(x, g)) >= 2
    /\ x.dirs = DirRows(x)

\* A scan in the checkpoint: the directories it has are of its manifest even before it
\* is published.
ScanOK(x, w, c) ==
    /\ x \in [status : Statuses, trashed : BOOLEAN, rows : {x.rows}, authority : BOOLEAN,
              omitted : SUBSET Paths, dirs : {x.dirs}, pub : {x.pub}]
    /\ DOMAIN x.rows \subseteq Paths
    /\ \A p \in DOMAIN x.rows : RowOK(x.rows[p], w, c)
    /\ x.dirs \subseteq DirRows(x)
    /\ x.pub # None => x.pub.gen \in Nat
    /\ Done(x) => Published(x)

DbOK == DOMAIN db = Ids /\ \A s \in Ids : db[s] # None => ScanOK(db[s], written, disk.clock)

\* A read in flight: as long as the stamp is the one it began with, what it read is
\* what that stamp stands for; stamps only grow.
ReadOK(e, d, w) ==
    /\ e \in [phase : {"closed", "open", "read", "done"}, before : {e.before}, digest : {e.digest}]
    /\ e.phase \in {"closed", "open"} => e.digest = None
    /\ e.phase \in {"open", "read"} \/ (e.phase = "done" /\ e.digest # None) =>
        /\ e.before \in [obj : Objects, dev : Nat, stamp : 1..d.clock]
        /\ e.before.stamp <= d.stamp[e.before.obj]
    /\ e.phase = "read" /\ d.stamp[e.before.obj] = e.before.stamp => e.digest = w[e.before.stamp]
    /\ e.phase = "done" /\ e.digest # None => e.digest = w[e.before.stamp]

SesOK(e, d, w) ==
    /\ e \in [pc : {"idle", "clear", "walk", "persist", "status", "inherit", "propagate", "hash",
                    "dirs", "publish", "complete", "retain", "trash"},
              scan : Ids \cup {None}, cancel : BOOLEAN, verify : BOOLEAN, resumed : BOOLEAN, at : Nat,
              found : {e.found}, omitted : SUBSET Paths, observed : BOOLEAN, todo : SUBSET Paths,
              reads : {e.reads}, failures : {e.failures}, trash : SUBSET Ids]
    /\ e.pc # "idle" => e.scan \in Ids
    /\ DOMAIN e.found \subseteq Paths
    /\ \A p \in DOMAIN e.found : RowOK(e.found[p], w, d.clock)
    /\ DOMAIN e.reads \subseteq Paths
    /\ \A p \in DOMAIN e.reads : ReadOK(e.reads[p], d, w)

\* What is true of the session's scan x at each place of the session e; m is what the
\* last finished walk of the scan met.
Work(x, e, m) ==
    /\ ~x.trashed
    /\ Done(x) <=> e.pc \in {"retain", "trash"}
    /\ e.pc = "clear" => x.status = "Walking" \/ ~x.authority
    /\ e.pc \in {"walk", "persist"} => ~x.authority /\ x.dirs = {}
    /\ e.pc = "walk" => DOMAIN x.rows = {}
    /\ e.pc = "persist" =>
        /\ DOMAIN x.rows \subseteq DOMAIN e.found
        /\ m.found = DOMAIN e.found /\ m.omitted = e.omitted
    /\ e.pc \in {"status", "inherit", "propagate", "hash", "dirs", "publish", "complete"} =>
        x.authority \/ e.observed
    /\ e.pc \in {"publish", "complete"} => x.dirs = DirRows(x)
    /\ e.pc = "complete" => Published(x)

WorkOK == HasScan => Work(db[ses.scan], ses, seen[ses.scan])

\* What retention is about to move to the trash holds no root that the session's own
\* scan does not hold.
TrashOK ==
    HasScan /\ ses.pc = "trash" =>
        \A s \in ses.trash :
            /\ s # ses.scan
            /\ Completed(s) => \A r \in Roots : HasFilesUnder(s, r) => HasFilesUnder(ses.scan, r)

SeenOK == DOMAIN seen = Ids

IInv ==
    /\ DiskOK /\ DbOK /\ SesOK(ses, disk, written) /\ SeenOK /\ jobs \subseteq Ids
    /\ WorkOK /\ TrashOK /\ LedgerIsOfManifest

-----------------------------------------------------------------------------
(* What depends on the manifest alone                                      *)

LEMMA SameRows ==
    ASSUME NEW x, NEW y, x.rows = y.rows
    PROVE  /\ GroupDigests(x) = GroupDigests(y)
           /\ \A d : PathsWith(x, d) = PathsWith(y, d)
           /\ \A g : ObjectsOf(x, g) = ObjectsOf(y, g)
           /\ x.omitted = y.omitted => DirRows(x) = DirRows(y)
  BY DEF GroupDigests, Digests, PathsWith, ObjectsOf, DirRows

LEMMA DigestsAreContents ==
    ASSUME DiskOK, NEW x, ScanOK(x, written, disk.clock)
    PROVE  /\ Digests(x) \subseteq Contents
           /\ GroupDigests(x) \subseteq Contents
           /\ \A d : PathsWith(x, d) \subseteq Paths
<1>1. ASSUME NEW p \in DOMAIN x.rows, x.rows[p].hash # None PROVE x.rows[p].hash \in Contents
  BY <1>1 DEF ScanOK, RowOK, DiskOK
<1>2. Digests(x) \subseteq Contents
  BY <1>1 DEF Digests
<1> QED
  BY <1>2 DEF GroupDigests, PathsWith, ScanOK

-----------------------------------------------------------------------------
(* What the writers make of a scan                                         *)

LEMMA NewScanOK ==
    ASSUME NEW w, NEW c \in Nat
    PROVE  /\ ScanOK(NewScan, w, c) /\ ~Done(NewScan) /\ ~NewScan.trashed /\ ~NewScan.authority
           /\ NewScan.dirs = {} /\ DOMAIN NewScan.rows = {}
  BY DEF NewScan, ScanOK, Statuses, Done

LEMMA ClearFilesOK ==
    ASSUME NEW w, NEW c \in Nat, NEW x, ScanOK(x, w, c), ~Done(x)
    PROVE  LET y == ClearFiles(x)
           IN  /\ ScanOK(y, w, c) /\ ~Done(y) /\ (y.trashed <=> x.trashed) /\ ~y.authority
               /\ y.dirs = {} /\ DOMAIN y.rows = {}
  BY DEF ClearFiles, NewScan, ScanOK, Statuses, Done

LEMMA RecordFilesOK ==
    ASSUME NEW w, NEW c \in Nat, NEW x, ScanOK(x, w, c), ~Done(x), x.dirs = {},
           NEW rows, DOMAIN rows \subseteq Paths, \A p \in DOMAIN rows : RowOK(rows[p], w, c)
    PROVE  LET y == RecordFiles(x, rows)
           IN  /\ ScanOK(y, w, c) /\ ~Done(y) /\ (y.trashed <=> x.trashed) /\ (y.authority <=> x.authority)
               /\ y.dirs = {} /\ DOMAIN y.rows \subseteq DOMAIN x.rows \cup DOMAIN rows
<1> DEFINE f == [p \in DOMAIN x.rows \cup DOMAIN rows |-> IF p \in DOMAIN rows THEN rows[p] ELSE x.rows[p]]
           y == [x EXCEPT !.rows = f]
<1>1. RecordFiles(x, rows) = y
  BY DEF RecordFiles
<1>2. DOMAIN f = DOMAIN x.rows \cup DOMAIN rows /\ \A p \in DOMAIN f : RowOK(f[p], w, c)
  BY DEF ScanOK
<1> HIDE DEF f
<1>3. /\ y \in [status : {x.status}, trashed : {x.trashed}, rows : {f}, authority : {x.authority},
              omitted : {x.omitted}, dirs : {{}}, pub : {x.pub}]
  BY DEF ScanOK
<1> HIDE DEF y
<1>4. ScanOK(y, w, c) /\ ~Done(y)
  BY <1>2, <1>3 DEF ScanOK, Done
<1> QED
  BY <1>1, <1>2, <1>3, <1>4

LEMMA CommitOmissionsOK ==
    ASSUME NEW w, NEW c \in Nat, NEW x, ScanOK(x, w, c), ~Done(x), x.dirs = {}, NEW omitted \in SUBSET Paths
    PROVE  LET y == CommitOmissions(x, omitted)
           IN  /\ ScanOK(y, w, c) /\ ~Done(y) /\ (y.trashed <=> x.trashed) /\ y.authority
               /\ y.rows = x.rows /\ y.omitted = omitted
  BY DEF CommitOmissions, ScanOK, Statuses, Done

LEMMA StatusOK ==
    ASSUME NEW w, NEW c \in Nat, NEW x, ScanOK(x, w, c), NEW status \in Statuses,
           status \in {"Complete", "CompleteWithWarnings"} => Published(x)
    PROVE  LET y == [x EXCEPT !.status = status]
           IN  /\ ScanOK(y, w, c) /\ (y.trashed <=> x.trashed) /\ (y.authority <=> x.authority)
               /\ y.rows = x.rows /\ y.omitted = x.omitted /\ y.dirs = x.dirs /\ y.status = status
               /\ y.pub = x.pub
<1> DEFINE y == [x EXCEPT !.status = status]
<1>1. y \in [status : {status}, trashed : {x.trashed}, rows : {x.rows}, authority : {x.authority},
              omitted : {x.omitted}, dirs : {x.dirs}, pub : {x.pub}]
  BY DEF ScanOK
<1>0. y.rows = x.rows /\ y.omitted = x.omitted /\ y.pub = x.pub /\ y.dirs = x.dirs
  BY <1>1
<1> HIDE DEF y
<1>2. DirRows(y) = DirRows(x) /\ (Published(x) => Published(y))
  BY <1>0, SameRows DEF Published
<1>3. ScanOK(y, w, c)
  BY <1>1, <1>2 DEF ScanOK, Done
<1> QED
  BY <1>1, <1>3 DEF y

LEMMA TrashedOK ==
    ASSUME NEW w, NEW c \in Nat, NEW x, ScanOK(x, w, c), NEW b \in BOOLEAN
    PROVE  LET y == [x EXCEPT !.trashed = b]
           IN  /\ ScanOK(y, w, c) /\ y.status = x.status /\ (y.authority <=> x.authority)
               /\ y.rows = x.rows /\ y.omitted = x.omitted /\ y.dirs = x.dirs /\ y.trashed = b
               /\ y.pub = x.pub
<1> DEFINE y == [x EXCEPT !.trashed = b]
<1>1. y \in [status : {x.status}, trashed : {b}, rows : {x.rows}, authority : {x.authority},
              omitted : {x.omitted}, dirs : {x.dirs}, pub : {x.pub}]
  BY DEF ScanOK
<1>0. y.rows = x.rows /\ y.omitted = x.omitted /\ y.pub = x.pub /\ y.dirs = x.dirs
  BY <1>1
<1> HIDE DEF y
<1>2. DirRows(y) = DirRows(x) /\ (Published(x) => Published(y))
  BY <1>0, SameRows DEF Published
<1>3. ScanOK(y, w, c)
  BY <1>1, <1>2 DEF ScanOK, Done
<1> QED
  BY <1>1, <1>3 DEF y

LEMMA DirsOK ==
    ASSUME NEW w, NEW c \in Nat, NEW x, ScanOK(x, w, c), ~Done(x)
    PROVE  LET y == RecordDirGroups(x)
           IN  /\ ScanOK(y, w, c) /\ ~Done(y) /\ (y.trashed <=> x.trashed) /\ (y.authority <=> x.authority)
               /\ y.rows = x.rows /\ y.omitted = x.omitted /\ y.dirs = DirRows(y)
<1> DEFINE dirs == {d \in x.dirs : \A e \in DirRows(x) : e[1] # d[1]} \cup DirRows(x)
           y == [x EXCEPT !.dirs = dirs]
<1>1. dirs = DirRows(x)
  BY DEF ScanOK
<1>2. RecordDirGroups(x) = y
  BY DEF RecordDirGroups
<1> HIDE DEF dirs
<1>3. y \in [status : {x.status}, trashed : {x.trashed}, rows : {x.rows}, authority : {x.authority},
              omitted : {x.omitted}, dirs : {dirs}, pub : {x.pub}]
  BY DEF ScanOK
<1>0. y.rows = x.rows /\ y.omitted = x.omitted /\ y.pub = x.pub /\ y.dirs = dirs
  BY <1>3
<1> HIDE DEF y
<1>4. DirRows(y) = DirRows(x)
  BY <1>0, SameRows
<1>5. ScanOK(y, w, c) /\ ~Done(y)
  BY <1>1, <1>3, <1>4 DEF ScanOK, Done
<1> QED
  BY <1>1, <1>2, <1>3, <1>4, <1>5

LEMMA PublishOK ==
    ASSUME DiskOK, NEW x, ScanOK(x, written, disk.clock), ~Done(x), x.dirs = DirRows(x), NEW verify \in BOOLEAN
    PROVE  LET y == PublishResults(x, verify)
           IN  /\ ScanOK(y, written, disk.clock) /\ ~Done(y)
               /\ (y.trashed <=> x.trashed) /\ (y.authority <=> x.authority) /\ y.rows = x.rows
               /\ y.omitted = x.omitted /\ y.dirs = x.dirs /\ Published(y)
<1> DEFINE gen == IF x.pub = None THEN 1 ELSE x.pub.gen + 1
           mode == IF verify THEN "Explicit" ELSE "Derived"
           digests == IF verify THEN {} ELSE GroupDigests(x)
           members == IF verify THEN VerifiedGroups(x) ELSE {}
           pub == [gen |-> gen, mode |-> mode, digests |-> digests, members |-> members]
           y == [x EXCEPT !.pub = pub]
<1>1. y = PublishResults(x, verify)
  BY DEF PublishResults
<1>2. gen \in Nat
  BY DEF ScanOK
<1>3. ASSUME NEW g \in VerifiedGroups(x)
      PROVE  /\ g \in SUBSET Paths
             /\ \E d \in GroupDigests(x) : g \subseteq PathsWith(x, d)
             /\ Cardinality(ObjectsOf(x, g)) >= 2
  <2>1. PICK d \in GroupDigests(x) :
            g \in {{p \in PathsWith(x, d) : disk.content[disk.names[p]] = k} : k \in Contents}
    BY <1>3 DEF VerifiedGroups
  <2>2. g \subseteq PathsWith(x, d)
    BY <2>1
  <2>3. Cardinality(ObjectsOf(x, g)) >= 2
    BY <1>3 DEF VerifiedGroups
  <2> QED
    BY <2>2, <2>3, DigestsAreContents
<1>4. digests \in SUBSET Contents /\ members \in SUBSET SUBSET Paths
  BY <1>3, DigestsAreContents
<1> HIDE DEF gen
<1>5. pub \in Publication
  BY <1>2, <1>4 DEF Publication
<1>6. /\ pub.gen \in Nat
      /\ pub.mode = "Derived" => pub.members = {} /\ pub.digests = GroupDigests(x)
      /\ pub.mode = "Explicit" =>
            /\ pub.digests = {}
            /\ \A g \in pub.members :
                /\ \E d \in GroupDigests(x) : g \subseteq PathsWith(x, d)
                /\ Cardinality(ObjectsOf(x, g)) >= 2
  BY <1>2, <1>3
<1> HIDE DEF pub
<1>7. y \in [status : {x.status}, trashed : {x.trashed}, rows : {x.rows}, authority : {x.authority},
              omitted : {x.omitted}, dirs : {x.dirs}, pub : {pub}]
  BY DEF ScanOK
<1>0. y.rows = x.rows /\ y.omitted = x.omitted /\ y.pub = pub /\ y.dirs = x.dirs
  BY <1>7
<1> HIDE DEF y
<1>8. Published(y)
  BY <1>0, <1>5, <1>6, SameRows DEF Published
<1>9. ScanOK(y, written, disk.clock) /\ ~Done(y)
  BY <1>0, <1>6, <1>7, <1>8 DEF ScanOK, Done, Published
<1> QED
  BY <1>1, <1>7, <1>8, <1>9

-----------------------------------------------------------------------------
(* The digests                                                             *)

\* Every row with a digest stays, a row without one may get one.
Fills(x, rows, w, c) ==
    /\ DOMAIN rows = DOMAIN x.rows
    /\ \A p \in DOMAIN rows :
        /\ RowOK(rows[p], w, c)
        /\ x.rows[p].hash # None => rows[p] = x.rows[p]

LEMMA DirsStay ==
    ASSUME NEW x, NEW y, DOMAIN y.rows = DOMAIN x.rows, y.omitted = x.omitted,
           \A p \in DOMAIN x.rows : x.rows[p].hash # None => y.rows[p] = x.rows[p]
    PROVE  DirRows(x) \subseteq DirRows(y)
<1> DEFINE Whole(z, r) ==
        /\ \E p \in DOMAIN z.rows : RootOf[p] = r
        /\ \A p \in DOMAIN z.rows : RootOf[p] = r => z.rows[p].hash # None
        /\ \A p \in z.omitted : RootOf[p] # r
           Sig(z, r) == <<r, [p \in {q \in DOMAIN z.rows : RootOf[q] = r} |-> z.rows[p].hash]>>
<1>1. ASSUME NEW r \in Roots, Whole(x, r) PROVE Whole(y, r) /\ Sig(y, r) = Sig(x, r)
  BY <1>1
<1>2. \A z : DirRows(z) = {Sig(z, r) : r \in {q \in Roots : Whole(z, q)}}
  BY DEF DirRows
<1> HIDE DEF Whole, Sig
<1> QED
  BY <1>1, <1>2

LEMMA FillOK ==
    ASSUME NEW w, NEW c \in Nat, NEW x, ScanOK(x, w, c), ~Done(x), NEW rows, Fills(x, rows, w, c)
    PROVE  LET y == [x EXCEPT !.rows = rows]
           IN  /\ ScanOK(y, w, c) /\ ~Done(y) /\ (y.trashed <=> x.trashed) /\ (y.authority <=> x.authority)
               /\ y.rows = rows /\ y.omitted = x.omitted
<1> DEFINE y == [x EXCEPT !.rows = rows]
<1>1. y \in [status : {x.status}, trashed : {x.trashed}, rows : {rows}, authority : {x.authority},
              omitted : {x.omitted}, dirs : {x.dirs}, pub : {x.pub}]
  BY DEF ScanOK
<1>2. y.rows = rows /\ y.omitted = x.omitted /\ y.pub = x.pub /\ y.dirs = x.dirs
  BY <1>1
<1> HIDE DEF y
<1>3. DirRows(x) \subseteq DirRows(y)
  BY <1>2, DirsStay DEF Fills
<1>4. ScanOK(y, w, c) /\ ~Done(y)
  BY <1>1, <1>2, <1>3 DEF ScanOK, Done, Fills
<1> QED
  BY <1>1, <1>2, <1>4 DEF y

\* One row with a digest.
LEMMA HashedRow ==
    ASSUME NEW w, NEW c \in Nat, NEW r, RowOK(r, w, c), NEW d, d = w[r.stamp]
    PROVE  RowOK([r EXCEPT !.hash = d], w, c)
  BY DEF RowOK

\* Inherited from another scan: the same times stand for the same content.
LEMMA InheritFills ==
    ASSUME DbOK, NEW s \in Ids, db[s] # None, disk.clock \in Nat
    PROVE  \E rows : InheritHashes(s) = [db[s] EXCEPT !.rows = rows] /\ Fills(db[s], rows, written, disk.clock)
<1> DEFINE x == db[s]
           Heir(p) == CHOOSE d \in PastDigests(s, p) : TRUE
           rows == [p \in DOMAIN x.rows |->
                        IF x.rows[p].hash = None /\ PastDigests(s, p) # {}
                        THEN [x.rows[p] EXCEPT !.hash = Heir(p)] ELSE x.rows[p]]
<1>1. InheritHashes(s) = [x EXCEPT !.rows = rows]
  BY DEF InheritHashes
<1>2. \A p \in DOMAIN x.rows : RowOK(x.rows[p], written, disk.clock)
  BY DEF DbOK, ScanOK
<1>3. ASSUME NEW p \in DOMAIN x.rows, PastDigests(s, p) # {} PROVE Heir(p) = written[x.rows[p].stamp]
  <2>1. Heir(p) \in PastDigests(s, p)
    BY <1>3
  <2>2. PICK t \in Ids : /\ db[t] # None /\ p \in DOMAIN db[t].rows /\ db[t].rows[p].hash # None
                         /\ db[t].rows[p].stamp = x.rows[p].stamp /\ Heir(p) = db[t].rows[p].hash
    BY <2>1 DEF PastDigests
  <2>3. RowOK(db[t].rows[p], written, disk.clock)
    BY <2>2 DEF DbOK, ScanOK
  <2> QED
    BY <2>2, <2>3 DEF RowOK
<1> HIDE DEF Heir
<1>4. ASSUME NEW p \in DOMAIN x.rows
      PROVE  RowOK(rows[p], written, disk.clock) /\ (x.rows[p].hash # None => rows[p] = x.rows[p])
  BY <1>2, <1>3, HashedRow
<1>5. DOMAIN rows = DOMAIN x.rows
  OBVIOUS
<1> HIDE DEF rows
<1>6. Fills(x, rows, written, disk.clock)
  BY <1>4, <1>5 DEF Fills
<1> QED
  BY <1>1, <1>6

\* Spread to the other names of an object.
LEMMA PropagateFills ==
    ASSUME NEW w, NEW c \in Nat, NEW x, \A p \in DOMAIN x.rows : RowOK(x.rows[p], w, c), NEW keys
    PROVE  \E rows : Propagated(x, keys) = [x EXCEPT !.rows = rows] /\ Fills(x, rows, w, c)
<1> DEFINE Twin(p) == CHOOSE d \in ObjectDigests(x, Key(x.rows[p])) : TRUE
           rows == [p \in DOMAIN x.rows |->
                        IF x.rows[p].hash = None /\ Key(x.rows[p]) \in keys /\ ObjectDigests(x, Key(x.rows[p])) # {}
                        THEN [x.rows[p] EXCEPT !.hash = Twin(p)] ELSE x.rows[p]]
<1>1. Propagated(x, keys) = [x EXCEPT !.rows = rows]
  BY DEF Propagated
<1>2. ASSUME NEW p \in DOMAIN x.rows, ObjectDigests(x, Key(x.rows[p])) # {} PROVE Twin(p) = w[x.rows[p].stamp]
  <2>1. Twin(p) \in ObjectDigests(x, Key(x.rows[p]))
    BY <1>2
  <2>2. PICK q \in DOMAIN x.rows : Key(x.rows[q]) = Key(x.rows[p]) /\ Twin(p) = x.rows[q].hash /\ Twin(p) # None
    BY <2>1 DEF ObjectDigests
  <2>3. x.rows[q].stamp = x.rows[p].stamp
    BY <2>2 DEF Key
  <2> QED
    BY <2>2, <2>3 DEF RowOK
<1> HIDE DEF Twin
<1>3. ASSUME NEW p \in DOMAIN x.rows
      PROVE  RowOK(rows[p], w, c) /\ (x.rows[p].hash # None => rows[p] = x.rows[p])
  BY <1>2, HashedRow
<1>4. DOMAIN rows = DOMAIN x.rows
  OBVIOUS
<1> HIDE DEF rows
<1>5. Fills(x, rows, w, c)
  BY <1>3, <1>4 DEF Fills
<1> QED
  BY <1>1, <1>5

\* Read from the disk: only onto a row that still names what was read.
LEMMA RecordHashesFills ==
    ASSUME NEW w, NEW d, d.clock \in Nat, NEW x, ScanOK(x, w, d.clock),
           NEW reads, \A p \in DOMAIN reads : ReadOK(reads[p], d, w) /\ reads[p].phase = "done"
    PROVE  \E rows : /\ RecordHashesVerified(x, reads) = [x EXCEPT !.rows = rows]
                     /\ Fills(x, rows, w, d.clock)
<1> DEFINE committed == {p \in DOMAIN reads \cap Unhashed(x) :
                            reads[p].digest # None /\ Key(x.rows[p]) = reads[p].before}
           rows == [p \in DOMAIN x.rows |->
                        IF p \in committed THEN [x.rows[p] EXCEPT !.hash = reads[p].digest] ELSE x.rows[p]]
           y == [x EXCEPT !.rows = rows]
           keys == ObjectsOf(x, committed)
<1>1. RecordHashesVerified(x, reads) = Propagated(y, keys)
  BY DEF RecordHashesVerified
<1>2. ASSUME NEW p \in committed PROVE reads[p].digest = w[x.rows[p].stamp] /\ x.rows[p].hash = None
  <2>1. reads[p].digest = w[reads[p].before.stamp]
    BY DEF ReadOK
  <2>2. reads[p].before.stamp = x.rows[p].stamp
    BY DEF Key
  <2> QED
    BY <2>1, <2>2 DEF Unhashed
<1> HIDE DEF committed
<1>3. ASSUME NEW p \in DOMAIN x.rows
      PROVE  RowOK(rows[p], w, d.clock) /\ (x.rows[p].hash # None => rows[p] = x.rows[p])
  BY <1>2, HashedRow DEF ScanOK
<1>4. DOMAIN rows = DOMAIN x.rows
  OBVIOUS
<1> HIDE DEF rows, keys
<1>5. y.rows = rows
  BY DEF ScanOK
<1>6. \A p \in DOMAIN y.rows : RowOK(y.rows[p], w, d.clock)
  BY <1>3, <1>4, <1>5
<1> HIDE DEF y
<1>7. PICK filled : Propagated(y, keys) = [y EXCEPT !.rows = filled] /\ Fills(y, filled, w, d.clock)
  BY <1>6, PropagateFills
<1>8. Fills(x, filled, w, d.clock)
  BY <1>3, <1>4, <1>5, <1>7 DEF Fills
<1>9. [y EXCEPT !.rows = filled] = [x EXCEPT !.rows = filled]
  BY DEF y
<1> QED
  BY <1>1, <1>7, <1>8, <1>9

-----------------------------------------------------------------------------
(* Init, and the parts of a step                                           *)

LEMMA IdleOK == ASSUME NEW d, NEW w PROVE SesOK(Idle, d, w) /\ Idle.pc = "idle"
  BY DEF Idle, SesOK

LEMMA InitOK == Init => IInv
<1> SUFFICES ASSUME Init PROVE IInv
  OBVIOUS
<1>1. DiskOK
  <2>1. PICK d \in Disks :
            disk = [names |-> d.names, denied |-> d.denied, keyable |-> d.keyable,
                    stamp |-> [o \in Objects |-> o], content |-> d.content,
                    dev |-> [r \in Roots |-> 1], mounted |-> [r \in Roots |-> TRUE],
                    clock |-> Cardinality(Objects)]
    BY DEF Init
  <2>2. /\ d.names \in [Paths -> Objects] /\ d.keyable \in BOOLEAN /\ d.content \in [Objects -> Contents]
    BY PipelineAssumption
  <2>3. Cardinality(Objects) \in 0..MaxStamp /\ MaxStamp \in Nat
    BY PipelineAssumption, FS_CardinalityType
  <2>4. \A o \in Objects : o \in 1..Cardinality(Objects)
    BY PipelineAssumption
  <2>5. written = [t \in 1..MaxStamp |-> IF t \in Objects THEN disk.content[t] ELSE None]
    BY DEF Init
  <2>6. disk \in [names : [Paths -> Objects \cup {None}], denied : {disk.denied}, keyable : BOOLEAN,
                 stamp : [Objects -> 1..disk.clock], content : [Objects -> Contents],
                 dev : [Roots -> Nat], mounted : [Roots -> BOOLEAN], clock : 0..MaxStamp]
    BY <2>1, <2>2, <2>3, <2>4
  <2>7. \A t \in 1..disk.clock : t \in 1..MaxStamp /\ t \in Objects
    BY <2>1, <2>3, PipelineAssumption
  <2>8. \A t \in 1..disk.clock : written[t] \in Contents
    BY <2>1, <2>2, <2>5, <2>7
  <2>9. \A o \in Objects : written[disk.stamp[o]] = disk.content[o]
    BY <2>1, <2>3, <2>4, <2>5
  <2> QED
    BY <2>5, <2>6, <2>8, <2>9 DEF DiskOK
<1>2. db = [s \in Ids |-> None] /\ ses = Idle /\ jobs = {} /\ DOMAIN seen = Ids
  BY DEF Init
<1>3. DbOK /\ LedgerIsOfManifest /\ SeenOK
  BY <1>2 DEF DbOK, LedgerIsOfManifest, SeenOK
<1>4. SesOK(ses, disk, written) /\ ~HasScan
  BY <1>2, IdleOK DEF HasScan
<1> QED
  BY <1>1, <1>2, <1>3, <1>4 DEF IInv, WorkOK, TrashOK

\* A step of the session that writes nothing.
LEMMA KeepStep ==
    ASSUME IInv, UNCHANGED <<disk, written, db, seen, jobs>>, SesOK(ses', disk, written),
           ses'.pc # "idle" /\ db[ses'.scan] # None => Work(db[ses'.scan], ses', seen[ses'.scan]),
           ses'.pc = "trash" /\ db[ses'.scan] # None =>
                \A s \in ses'.trash :
                    /\ s # ses'.scan
                    /\ Completed(s) => \A r \in Roots : HasFilesUnder(s, r) => HasFilesUnder(ses'.scan, r)
    PROVE  IInv'
<1>1. DiskOK' /\ DbOK' /\ SeenOK' /\ LedgerIsOfManifest' /\ SesOK(ses, disk, written)'
  BY DEF IInv, DiskOK, DbOK, SeenOK, LedgerIsOfManifest
<1>2. WorkOK' /\ TrashOK'
  BY DEF WorkOK, TrashOK, HasScan, HasFilesUnder, Completed
<1> QED
  BY <1>1, <1>2 DEF IInv

\* A step of the session that writes its scan, before the scan is in the history.
LEMMA StoreStep ==
    ASSUME IInv, HasScan, UNCHANGED <<disk, written, seen, jobs>>, SesOK(ses', disk, written), ses'.pc # "trash",
           NEW y, ScanOK(y, written, disk.clock), db' = [db EXCEPT ![ses.scan] = y],
           ses'.pc # "idle" => ses'.scan = ses.scan /\ Work(y, ses', seen[ses.scan]),
           y.authority => DOMAIN y.rows = seen[ses.scan].found /\ y.omitted = seen[ses.scan].omitted
    PROVE  IInv'
<1>0. ses.scan \in Ids
  BY DEF IInv, SesOK, HasScan
<1>1. DiskOK' /\ SeenOK' /\ SesOK(ses, disk, written)'
  BY DEF IInv, DiskOK, SeenOK
<1>2. DbOK'
  BY <1>0 DEF IInv, DbOK
<1>3. LedgerIsOfManifest'
  BY <1>0 DEF IInv, DbOK, LedgerIsOfManifest
<1>4. WorkOK' /\ TrashOK'
  BY <1>0 DEF IInv, DbOK, WorkOK, TrashOK, HasScan
<1> QED
  BY <1>1, <1>2, <1>3, <1>4 DEF IInv

\* One that leaves its place and what it found.
LEMMA SameStep ==
    ASSUME IInv, UNCHANGED <<disk, written, db, seen, jobs>>, SesOK(ses', disk, written),
           ses'.pc = ses.pc, ses'.scan = ses.scan, ses'.found = ses.found, ses'.omitted = ses.omitted,
           ses'.observed = ses.observed, ses'.trash = ses.trash
    PROVE  IInv'
<1>1. ses'.pc # "idle" /\ db[ses'.scan] # None => Work(db[ses'.scan], ses', seen[ses'.scan])
  BY DEF IInv, WorkOK, HasScan, Work
<1>2. ses'.pc = "trash" /\ db[ses'.scan] # None =>
        \A s \in ses'.trash :
            /\ s # ses'.scan
            /\ Completed(s) => \A r \in Roots : HasFilesUnder(s, r) => HasFilesUnder(ses'.scan, r)
  BY DEF IInv, TrashOK, HasScan, HasFilesUnder
<1> QED
  BY <1>1, <1>2, KeepStep

\* Its end.
LEMMA EndStep == ASSUME IInv, UNCHANGED <<disk, written, db, seen, jobs>>, End PROVE IInv'
  BY KeepStep, IdleOK DEF End

\* What a step of the session starts from.
LEMMA AtWork ==
    ASSUME IInv, HasScan
    PROVE  /\ ses.scan \in Ids /\ db[ses.scan] # None /\ ScanOK(db[ses.scan], written, disk.clock)
           /\ Work(db[ses.scan], ses, seen[ses.scan]) /\ SesOK(ses, disk, written) /\ DiskOK /\ DbOK
           /\ disk.clock \in Nat
           /\ db[ses.scan].authority =>
                /\ DOMAIN db[ses.scan].rows = seen[ses.scan].found
                /\ db[ses.scan].omitted = seen[ses.scan].omitted
  BY DEF IInv, HasScan, SesOK, DbOK, WorkOK, LedgerIsOfManifest, DiskOK

-----------------------------------------------------------------------------
(* The walk                                                                *)

LEMMA ClearForWalkOK == ASSUME IInv, HasScan, ClearForWalk PROVE IInv'
<1> DEFINE x == db[ses.scan]
           y == ClearFiles(x)
<1>1. /\ ScanOK(x, written, disk.clock) /\ ~Done(x) /\ ~x.trashed
      /\ disk.clock \in Nat
  BY AtWork DEF Work, ClearForWalk
<1> HIDE DEF x
<1>2. /\ ScanOK(y, written, disk.clock) /\ ~Done(y) /\ (y.trashed <=> x.trashed) /\ ~y.authority
      /\ y.dirs = {} /\ DOMAIN y.rows = {}
  BY <1>1, ClearFilesOK
<1>3. db' = [db EXCEPT ![ses.scan] = y] /\ ses' = [ses EXCEPT !.pc = "walk"] /\ UNCHANGED <<disk, written, seen, jobs>>
  BY DEF ClearForWalk, Store, Continue, x
<1> HIDE DEF y
<1>4. SesOK(ses', disk, written) /\ ses'.pc = "walk" /\ ses'.scan = ses.scan
  BY <1>3, AtWork DEF SesOK
<1>5. Work(y, ses', seen[ses.scan])
  BY <1>1, <1>2, <1>4 DEF Work
<1> QED
  BY <1>2, <1>3, <1>4, <1>5, StoreStep

LEMMA NewRowOK ==
    ASSUME DiskOK, NEW p \in Paths, Visible(p)
    PROVE  RowOK(NewRow(Identity(p)), written, disk.clock)
  BY PipelineAssumption DEF NewRow, Identity, RowOK, DiskOK, Visible

LEMMA WalkEntryOK == ASSUME IInv, HasScan, WalkEntry PROVE IInv'
<1>0. UNCHANGED <<disk, written, db, seen, jobs>>
  BY DEF WalkEntry
<1>1. CASE Stopping
  BY <1>0, <1>1, EndStep DEF WalkEntry, End
<1>2. CASE ~Stopping
  <2>1. PICK p \in Paths :
            ses' = [ses EXCEPT !.at = p,
                    !.omitted = IF Visible(p) /\ p \in disk.denied THEN @ \cup {p} ELSE @,
                    !.found = IF Visible(p) /\ p \notin disk.denied
                              THEN [q \in DOMAIN @ \cup {p} |-> IF q = p THEN NewRow(Identity(p)) ELSE @[q]]
                              ELSE @]
    BY <1>2 DEF WalkEntry
  <2> DEFINE f == IF Visible(p) /\ p \notin disk.denied
                  THEN [q \in DOMAIN ses.found \cup {p} |-> IF q = p THEN NewRow(Identity(p)) ELSE ses.found[q]]
                  ELSE ses.found
             o == IF Visible(p) /\ p \in disk.denied THEN ses.omitted \cup {p} ELSE ses.omitted
  <2>2. o \in SUBSET Paths
    BY AtWork DEF SesOK
  <2>3. DOMAIN f \subseteq Paths /\ \A q \in DOMAIN f : RowOK(f[q], written, disk.clock)
    BY AtWork, NewRowOK DEF SesOK
  <2>4. ses' = [ses EXCEPT !.at = p, !.omitted = o, !.found = f]
    BY <2>1
  <2> HIDE DEF f, o
  <2>5. SesOK(ses', disk, written) /\ ses'.pc = "walk" /\ ses'.scan = ses.scan
    BY <2>2, <2>3, <2>4, AtWork, PipelineAssumption DEF SesOK, WalkEntry
  <2>6. Work(db[ses.scan], ses', seen[ses.scan])
    BY <2>5, AtWork DEF Work, WalkEntry
  <2> QED
    BY <1>0, <2>5, <2>6, KeepStep
<1> QED
  BY <1>1, <1>2

LEMMA WalkEndsOK == ASSUME IInv, HasScan, WalkEnds PROVE IInv'
<1>1. CASE Stopping
  BY <1>1, EndStep DEF WalkEnds
<1>2. CASE ~Stopping
  <2>1. /\ ses.pc = "walk" /\ ses' = [ses EXCEPT !.pc = "persist"]
        /\ seen' = [seen EXCEPT ![ses.scan] = [found |-> DOMAIN ses.found, omitted |-> ses.omitted]]
        /\ UNCHANGED <<disk, written, db, jobs>>
    BY <1>2 DEF WalkEnds, Continue
  <2>2. SesOK(ses', disk', written') /\ ses'.pc = "persist" /\ ses'.scan = ses.scan
        /\ ses'.found = ses.found /\ ses'.omitted = ses.omitted
    BY <2>1, AtWork DEF SesOK
  <2>3. ~db[ses.scan].authority
    BY <2>1, AtWork DEF Work
  <2>4. LedgerIsOfManifest' /\ SeenOK'
    BY <2>1, <2>3 DEF IInv, LedgerIsOfManifest, SeenOK
  <2>5. seen'[ses.scan] = [found |-> DOMAIN ses.found, omitted |-> ses.omitted]
    BY <2>1, AtWork DEF IInv, SeenOK
  <2>6. Work(db[ses.scan], ses', seen'[ses.scan])
    BY <2>1, <2>2, <2>5, AtWork DEF Work
  <2>7. WorkOK' /\ TrashOK'
    BY <2>1, <2>2, <2>6 DEF WorkOK, TrashOK, HasScan
  <2>8. DiskOK' /\ DbOK'
    BY <2>1 DEF IInv, DiskOK, DbOK
  <2> QED
    BY <2>1, <2>2, <2>4, <2>7, <2>8 DEF IInv
<1> QED
  BY <1>1, <1>2

LEMMA PersistBatchOK == ASSUME IInv, HasScan, PersistBatch PROVE IInv'
<1> DEFINE x == db[ses.scan]
           batch == {p \in Unwritten : Cardinality({q \in Unwritten : q < p}) < WalkBatch}
           rows == [p \in batch |-> ses.found[p]]
           y == RecordFiles(x, rows)
<1>0. ScanOK(x, written, disk.clock) /\ ~Done(x) /\ x.dirs = {} /\ disk.clock \in Nat
  BY AtWork DEF Work, PersistBatch
<1>1. /\ ~x.trashed /\ ~x.authority
      /\ DOMAIN x.rows \subseteq DOMAIN ses.found
      /\ seen[ses.scan].found = DOMAIN ses.found /\ seen[ses.scan].omitted = ses.omitted
  BY AtWork DEF Work, PersistBatch
<1>9. DOMAIN rows \subseteq DOMAIN ses.found
  BY DEF Unwritten
<1>2. /\ DOMAIN rows \subseteq Paths
      /\ \A p \in DOMAIN rows : RowOK(rows[p], written, disk.clock)
  BY AtWork DEF SesOK, Unwritten
<1>3. db' = [db EXCEPT ![ses.scan] = y] /\ UNCHANGED <<disk, written, seen, jobs>>
      /\ ses' \in {Idle, ses} /\ ses.pc = "persist"
  BY DEF PersistBatch, Store
<1> HIDE DEF x, rows
<1>4. ScanOK(y, written, disk.clock) /\ ~Done(y)
  BY <1>0, <1>2, RecordFilesOK
<1>5. y.dirs = {}
  BY <1>0, <1>2, RecordFilesOK
<1>6. DOMAIN y.rows \subseteq DOMAIN x.rows \cup DOMAIN rows
  BY <1>0, <1>2, RecordFilesOK
<1>7. (y.trashed <=> x.trashed) /\ (y.authority <=> x.authority)
  BY <1>0, <1>2, RecordFilesOK
<1> HIDE DEF y
<1>8. ~y.trashed /\ ~y.authority
  BY <1>1, <1>7
<1>11. Work(y, ses, seen[ses.scan])
  BY <1>1, <1>3, <1>4, <1>5, <1>6, <1>8, <1>9 DEF Work
<1>10. SesOK(ses', disk, written) /\ ses'.pc # "trash" /\ (ses'.pc # "idle" => ses' = ses)
  BY <1>3, AtWork, IdleOK
<1> QED
  BY <1>3, <1>4, <1>8, <1>10, <1>11, StoreStep

LEMMA PublishOmissionsOK == ASSUME IInv, HasScan, PublishOmissions PROVE IInv'
<1>0. UNCHANGED <<disk, written, seen, jobs>> /\ ses.pc = "persist" /\ Unwritten = {}
  BY DEF PublishOmissions
<1>1. CASE Stopping
  BY <1>0, <1>1, EndStep DEF PublishOmissions
<1>2. CASE ~Stopping
  <2> DEFINE x == db[ses.scan]
             y == CommitOmissions(x, ses.omitted)
  <2>1. ses' = [ses EXCEPT !.pc = "status", !.observed = ~disk.keyable]
    BY <1>2 DEF PublishOmissions
  <2>2. /\ ScanOK(x, written, disk.clock) /\ ~Done(x) /\ ~x.trashed /\ x.dirs = {}
        /\ DOMAIN x.rows = DOMAIN ses.found
        /\ seen[ses.scan].found = DOMAIN ses.found /\ seen[ses.scan].omitted = ses.omitted
        /\ disk.clock \in Nat /\ ses.omitted \in SUBSET Paths
    BY <1>0, AtWork DEF Work, Unwritten, SesOK
  <2>3. /\ SesOK(ses', disk, written) /\ ses'.pc = "status" /\ ses'.scan = ses.scan
        /\ ses'.observed = ~disk.keyable
    BY <2>1, AtWork DEF SesOK, DiskOK
  <2>4. CASE disk.keyable
    <3>1. db' = [db EXCEPT ![ses.scan] = y]
      BY <1>2, <2>4 DEF PublishOmissions, Store
    <3> HIDE DEF x
    <3>2. /\ ScanOK(y, written, disk.clock) /\ ~Done(y) /\ ~y.trashed /\ y.authority
          /\ y.rows = x.rows /\ y.omitted = ses.omitted
      BY <2>2, CommitOmissionsOK
    <3> HIDE DEF y
    <3>3. Work(y, ses', seen[ses.scan])
      BY <2>3, <3>2 DEF Work
    <3> QED
      BY <1>0, <2>2, <2>3, <3>1, <3>2, <3>3, StoreStep
  <2>5. CASE ~disk.keyable
    <3>1. db' = db
      BY <1>2, <2>5 DEF PublishOmissions
    <3>2. Work(x, ses', seen[ses.scan])
      BY <2>2, <2>3, <2>5 DEF Work
    <3> QED
      BY <1>0, <2>3, <3>1, <3>2, KeepStep
  <2> QED
    BY <2>4, <2>5
<1> QED
  BY <1>1, <1>2

LEMMA SetHashingOK == ASSUME IInv, HasScan, SetHashing PROVE IInv'
<1> DEFINE x == db[ses.scan]
           hashing == "Hashing"
           y == [x EXCEPT !.status = hashing]
<1>1. /\ ScanOK(x, written, disk.clock) /\ ~Done(x) /\ ~x.trashed /\ (x.authority \/ ses.observed)
      /\ disk.clock \in Nat
      /\ x.authority => DOMAIN x.rows = seen[ses.scan].found /\ x.omitted = seen[ses.scan].omitted
  BY AtWork DEF Work, SetHashing
<1>2. db' = [db EXCEPT ![ses.scan] = y] /\ ses' = [ses EXCEPT !.pc = "inherit"] /\ UNCHANGED <<disk, written, seen, jobs>>
  BY DEF SetHashing, Store, Continue
<1>0. hashing \in Statuses /\ hashing \notin {"Complete", "CompleteWithWarnings"}
  BY DEF Statuses
<1> HIDE DEF x, hashing
<1>3. /\ ScanOK(y, written, disk.clock) /\ (y.trashed <=> x.trashed) /\ (y.authority <=> x.authority)
      /\ y.rows = x.rows /\ y.omitted = x.omitted /\ y.status = hashing
  BY <1>0, <1>1, StatusOK
<1> HIDE DEF y
<1>4. SesOK(ses', disk, written) /\ ses'.pc = "inherit" /\ ses'.scan = ses.scan /\ ses'.observed = ses.observed
  BY <1>2, AtWork DEF SesOK
<1>5. Work(y, ses', seen[ses.scan])
  BY <1>0, <1>1, <1>3, <1>4 DEF Work, Done
<1> QED
  BY <1>1, <1>2, <1>3, <1>4, <1>5, StoreStep

-----------------------------------------------------------------------------
(* The hashing                                                             *)

LEMMA FillStep ==
    ASSUME IInv, HasScan, ses.pc \in {"inherit", "propagate", "hash"}, UNCHANGED <<disk, written, seen, jobs>>,
           NEW rows, Fills(db[ses.scan], rows, written, disk.clock),
           db' = [db EXCEPT ![ses.scan] = [db[ses.scan] EXCEPT !.rows = rows]],
           SesOK(ses', disk, written), ses'.pc \in {"idle", "propagate", "hash"},
           ses'.pc # "idle" => ses'.scan = ses.scan /\ ses'.observed = ses.observed
    PROVE  IInv'
<1> DEFINE x == db[ses.scan]
           y == [x EXCEPT !.rows = rows]
<1>0. ScanOK(x, written, disk.clock) /\ ~Done(x) /\ disk.clock \in Nat /\ Fills(x, rows, written, disk.clock)
  BY AtWork DEF Work
<1>1. /\ ~x.trashed /\ (x.authority \/ ses.observed)
      /\ x.authority => DOMAIN x.rows = seen[ses.scan].found /\ x.omitted = seen[ses.scan].omitted
  BY AtWork DEF Work
<1>2. db' = [db EXCEPT ![ses.scan] = y]
  OBVIOUS
<1> HIDE DEF x
<1>3. ScanOK(y, written, disk.clock) /\ ~Done(y)
  BY <1>0, FillOK
<1>4. (y.trashed <=> x.trashed) /\ (y.authority <=> x.authority)
  BY <1>0, FillOK
<1>5. y.rows = rows /\ y.omitted = x.omitted
  BY <1>0, FillOK
<1> HIDE DEF y
<1>6. Work(y, ses', seen[ses.scan]) \/ ses'.pc = "idle"
  BY <1>1, <1>3, <1>4 DEF Work
<1>7. y.authority => DOMAIN y.rows = seen[ses.scan].found /\ y.omitted = seen[ses.scan].omitted
  BY <1>0, <1>1, <1>4, <1>5 DEF Fills
<1> QED
  BY <1>2, <1>3, <1>6, <1>7, StoreStep

LEMMA InheritOK == ASSUME IInv, HasScan, Inherit PROVE IInv'
<1>0. UNCHANGED <<disk, written, seen, jobs>> /\ ses.pc = "inherit"
  BY DEF Inherit
<1>1. CASE ConflictingInheritance(ses.scan)
  BY <1>0, <1>1, EndStep DEF Inherit
<1>2. CASE ~ConflictingInheritance(ses.scan)
  <2>1. PICK rows : /\ InheritHashes(ses.scan) = [db[ses.scan] EXCEPT !.rows = rows]
                    /\ Fills(db[ses.scan], rows, written, disk.clock)
    BY AtWork, InheritFills
  <2>2. db' = [db EXCEPT ![ses.scan] = [db[ses.scan] EXCEPT !.rows = rows]] /\ ses' = [ses EXCEPT !.pc = "propagate"]
    BY <1>2, <2>1 DEF Inherit, Store, Continue
  <2>3. SesOK(ses', disk, written) /\ ses'.pc = "propagate" /\ ses'.scan = ses.scan /\ ses'.observed = ses.observed
    BY <2>2, AtWork DEF SesOK
  <2> QED
    BY <1>0, <2>1, <2>2, <2>3, FillStep
<1> QED
  BY <1>1, <1>2

LEMMA PropagateOK == ASSUME IInv, HasScan, Propagate PROVE IInv'
<1> DEFINE x == db[ses.scan]
           keys == ObjectsOf(x, DOMAIN x.rows)
           todo == CandidateObjects(Propagated(x, keys))
<1>0. UNCHANGED <<disk, written, seen, jobs>> /\ ses.pc = "propagate"
  BY DEF Propagate
<1>1. CASE ConflictingDigests(x)
  BY <1>0, <1>1, EndStep DEF Propagate
<1>2. CASE ~ConflictingDigests(x)
  <2>0. ScanOK(x, written, disk.clock) /\ disk.clock \in Nat
    BY AtWork
  <2>1. PICK rows : Propagated(x, keys) = [x EXCEPT !.rows = rows] /\ Fills(x, rows, written, disk.clock)
    BY <2>0, PropagateFills DEF ScanOK
  <2>2. db' = [db EXCEPT ![ses.scan] = [x EXCEPT !.rows = rows]] /\ ses' = [ses EXCEPT !.pc = "hash", !.todo = todo]
    BY <1>2, <2>1 DEF Propagate, Store
  <2>3. todo \subseteq Paths
    BY <2>0, <2>1 DEF CandidateObjects, Unhashed, Fills, ScanOK
  <2> HIDE DEF todo
  <2>4. SesOK(ses', disk, written) /\ ses'.pc = "hash" /\ ses'.scan = ses.scan /\ ses'.observed = ses.observed
    BY <2>2, <2>3, AtWork DEF SesOK
  <2> QED
    BY <1>0, <2>1, <2>2, <2>4, FillStep
<1> QED
  BY <1>1, <1>2

\* One read goes on, or all of them begin.
LEMMA ReadsStep ==
    ASSUME IInv, UNCHANGED <<disk, written, db, seen, jobs>>,
           NEW reads, DOMAIN reads \subseteq Paths, \A p \in DOMAIN reads : ReadOK(reads[p], disk, written),
           ses' = [ses EXCEPT !.reads = reads]
    PROVE  IInv'
<1>1. SesOK(ses', disk, written) /\ ses'.pc = ses.pc /\ ses'.scan = ses.scan /\ ses'.found = ses.found
      /\ ses'.omitted = ses.omitted /\ ses'.observed = ses.observed /\ ses'.trash = ses.trash
  BY DEF IInv, SesOK
<1> QED
  BY <1>1, SameStep

LEMMA OneReadStep ==
    ASSUME IInv, UNCHANGED <<disk, written, db, seen, jobs>>,
           NEW p \in DOMAIN ses.reads, NEW e, ReadOK(e, disk, written), ses' = [ses EXCEPT !.reads[p] = e]
    PROVE  IInv'
<1> DEFINE reads == [ses.reads EXCEPT ![p] = e]
<1>1. DOMAIN reads \subseteq Paths /\ \A q \in DOMAIN reads : ReadOK(reads[q], disk, written)
  BY DEF IInv, SesOK
<1>2. ses' = [ses EXCEPT !.reads = reads]
  OBVIOUS
<1> HIDE DEF reads
<1> QED
  BY <1>1, <1>2, ReadsStep

LEMMA StartBatchOK == ASSUME IInv, HasScan, StartBatch PROVE IInv'
<1> DEFINE reads == [p \in FirstCandidates |-> Closed]
<1>1. CASE Stopping
  BY <1>1, EndStep DEF StartBatch
<1>2. CASE ~Stopping
  <2>1. ses.pc = "hash" /\ ses' = [ses EXCEPT !.reads = reads] /\ UNCHANGED <<disk, written, db, seen, jobs>>
    BY <1>2 DEF StartBatch
  <2>2. ReadOK(Closed, disk, written)
    BY DEF Closed, ReadOK
  <2>3. FirstCandidates \subseteq Paths
    BY AtWork DEF FirstCandidates, SesOK
  <2>4. DOMAIN reads \subseteq Paths /\ \A p \in DOMAIN reads : ReadOK(reads[p], disk, written)
    BY <2>2, <2>3
  <2> HIDE DEF reads
  <2> QED
    BY <2>1, <2>4, ReadsStep
<1> QED
  BY <1>1, <1>2

LEMMA SkippedOK == ReadOK(Skipped, disk, written)
  BY DEF Skipped, ReadOK

LEMMA OpenFileOK == ASSUME IInv, NEW p \in Paths, OpenFile(p) PROVE IInv'
<1> DEFINE e == IF Stopping \/ ~Visible(p) \/ p \in disk.denied THEN Skipped
                ELSE [phase |-> "open", before |-> Identity(p), digest |-> None]
<1>1. p \in DOMAIN ses.reads /\ ses' = [ses EXCEPT !.reads[p] = e] /\ UNCHANGED <<disk, written, db, seen, jobs>>
  BY DEF OpenFile
<1>2. ASSUME Visible(p) PROVE ReadOK([phase |-> "open", before |-> Identity(p), digest |-> None], disk, written)
  <2>1. disk.names[p] \in Objects
    BY <1>2 DEF IInv, Visible, DiskOK
  <2>2. Identity(p) \in [obj : Objects, dev : Nat, stamp : 1..disk.clock]
        /\ Identity(p).stamp <= disk.stamp[Identity(p).obj]
    BY <2>1, PipelineAssumption DEF Identity, IInv, DiskOK
  <2> QED
    BY <2>2 DEF ReadOK
<1>3. ReadOK(e, disk, written)
  BY <1>2, SkippedOK
<1> HIDE DEF e
<1> QED
  BY <1>1, <1>3, OneReadStep

LEMMA ReadFileOK == ASSUME IInv, NEW p \in Paths, ReadFile(p) PROVE IInv'
<1> DEFINE r == ses.reads[p]
           done == [r EXCEPT !.phase = "read", !.digest = disk.content[r.before.obj]]
           e == IF Stopping THEN Skipped ELSE done
<1>1. p \in DOMAIN ses.reads /\ ses' = [ses EXCEPT !.reads[p] = e] /\ UNCHANGED <<disk, written, db, seen, jobs>>
  BY DEF ReadFile
<1>2. ReadOK(r, disk, written) /\ r.phase = "open"
  BY DEF IInv, SesOK, ReadFile
<1>3. ReadOK(done, disk, written)
  <2> HIDE DEF r
  <2>1. /\ r.before \in [obj : Objects, dev : Nat, stamp : 1..disk.clock]
        /\ r.before.stamp <= disk.stamp[r.before.obj]
    BY <1>2 DEF ReadOK
  <2>2. done \in [phase : {"read"}, before : {r.before}, digest : {disk.content[r.before.obj]}]
    BY <1>2 DEF ReadOK
  <2>3. written[disk.stamp[r.before.obj]] = disk.content[r.before.obj]
    BY <2>1 DEF IInv, DiskOK
  <2> HIDE DEF done
  <2> QED
    BY <2>1, <2>2, <2>3 DEF ReadOK
<1>4. ReadOK(e, disk, written)
  BY <1>3, SkippedOK
<1> HIDE DEF e
<1> QED
  BY <1>1, <1>4, OneReadStep

LEMMA ReadFailsOK == ASSUME IInv, NEW p \in Paths, ReadFails(p) PROVE IInv'
  BY SkippedOK, OneReadStep DEF ReadFails

LEMMA CheckFileOK == ASSUME IInv, NEW p \in Paths, CheckFile(p) PROVE IInv'
<1> DEFINE r == ses.reads[p]
           ok == /\ IdentityStable(r.before)
                 /\ PathObjectMatches(p, r.before)
                 /\ ManifestMatches(r.before, Row(p))
           done == [r EXCEPT !.phase = "done"]
           e == IF ok THEN done ELSE Skipped
<1>1. p \in DOMAIN ses.reads /\ ses' = [ses EXCEPT !.reads[p] = e] /\ UNCHANGED <<disk, written, db, seen, jobs>>
  BY DEF CheckFile
<1>2. ReadOK(r, disk, written) /\ r.phase = "read"
  BY DEF IInv, SesOK, CheckFile
<1>3. ok => ReadOK(done, disk, written)
  BY <1>2 DEF ReadOK, IdentityStable
<1>4. ReadOK(e, disk, written)
  BY <1>3, SkippedOK
<1> HIDE DEF e
<1> QED
  BY <1>1, <1>4, OneReadStep

LEMMA CheckpointOK == ASSUME IInv, HasScan, Checkpoint PROVE IInv'
<1> DEFINE x == db[ses.scan]
<1>0. UNCHANGED <<disk, written, seen, jobs>> /\ ses.pc = "hash"
  BY DEF Checkpoint
<1>1. ScanOK(x, written, disk.clock) /\ disk.clock \in Nat
  BY AtWork
<1>2. \A p \in DOMAIN ses.reads : ReadOK(ses.reads[p], disk, written) /\ ses.reads[p].phase = "done"
  BY AtWork DEF Checkpoint, SesOK
<1>3. PICK rows : /\ RecordHashesVerified(x, ses.reads) = [x EXCEPT !.rows = rows]
                  /\ Fills(x, rows, written, disk.clock)
  BY <1>1, <1>2, RecordHashesFills
<1>4. db' = [db EXCEPT ![ses.scan] = [x EXCEPT !.rows = rows]]
  BY <1>3 DEF Checkpoint, Store
<1> DEFINE todo == ses.todo \ DOMAIN ses.reads
           reads == [p \in {} |-> None]
<1>5. ses' \in {Idle, [ses EXCEPT !.todo = todo, !.reads = reads]}
  BY DEF Checkpoint
<1>6. DOMAIN reads = {} /\ todo \in SUBSET Paths
  BY AtWork DEF SesOK
<1> HIDE DEF todo, reads
<1>7. CASE ses' = Idle
  <2>1. SesOK(ses', disk, written) /\ ses'.pc = "idle"
    BY <1>7, IdleOK
  <2> QED
    BY <1>0, <1>3, <1>4, <2>1, FillStep
<1>8. CASE ses' = [ses EXCEPT !.todo = todo, !.reads = reads]
  <2>1. SesOK(ses', disk, written) /\ ses'.pc = "hash" /\ ses'.scan = ses.scan /\ ses'.observed = ses.observed
    BY <1>0, <1>6, <1>8, AtWork DEF SesOK
  <2> QED
    BY <1>0, <1>3, <1>4, <2>1, FillStep
<1> QED
  BY <1>5, <1>7, <1>8

-----------------------------------------------------------------------------
(* Grouping and completion                                                 *)

LEMMA BeginGroupingOK == ASSUME IInv, HasScan, BeginGrouping PROVE IInv'
<1>0. UNCHANGED <<disk, written, db, seen, jobs>> /\ ses.pc = "hash"
  BY DEF BeginGrouping
<1>1. CASE Stopping
  BY <1>0, <1>1, EndStep DEF BeginGrouping
<1>2. CASE ~Stopping
  <2> DEFINE failures == IF Eligible(db[ses.scan]) THEN Unhashed(db[ses.scan]) ELSE {}
  <2>1. ses' = [ses EXCEPT !.pc = "dirs", !.failures = failures]
    BY <1>2 DEF BeginGrouping
  <2> HIDE DEF failures
  <2>2. SesOK(ses', disk, written) /\ ses'.pc = "dirs" /\ ses'.scan = ses.scan /\ ses'.observed = ses.observed
    BY <2>1, AtWork DEF SesOK
  <2>3. Work(db[ses.scan], ses', seen[ses.scan])
    BY <1>0, <2>2, AtWork DEF Work
  <2> QED
    BY <1>0, <2>2, <2>3, KeepStep
<1> QED
  BY <1>1, <1>2

LEMMA WriteDirsOK == ASSUME IInv, HasScan, WriteDirs PROVE IInv'
<1> DEFINE x == db[ses.scan]
           y == RecordDirGroups(x)
<1>0. ScanOK(x, written, disk.clock) /\ ~Done(x) /\ disk.clock \in Nat
  BY AtWork DEF Work, WriteDirs
<1>1. /\ ~x.trashed /\ (x.authority \/ ses.observed)
      /\ x.authority => DOMAIN x.rows = seen[ses.scan].found /\ x.omitted = seen[ses.scan].omitted
  BY AtWork DEF Work, WriteDirs
<1>2. db' = [db EXCEPT ![ses.scan] = y] /\ ses' = [ses EXCEPT !.pc = "publish"] /\ UNCHANGED <<disk, written, seen, jobs>>
  BY DEF WriteDirs, Store, Continue
<1> HIDE DEF x
<1>3. ScanOK(y, written, disk.clock) /\ ~Done(y)
  BY <1>0, DirsOK
<1>4. (y.trashed <=> x.trashed) /\ (y.authority <=> x.authority)
  BY <1>0, DirsOK
<1>5. y.rows = x.rows /\ y.omitted = x.omitted /\ y.dirs = DirRows(y)
  BY <1>0, DirsOK
<1> HIDE DEF y
<1>6. SesOK(ses', disk, written) /\ ses'.pc = "publish" /\ ses'.scan = ses.scan /\ ses'.observed = ses.observed
  BY <1>2, AtWork DEF SesOK
<1>7. Work(y, ses', seen[ses.scan])
  BY <1>1, <1>3, <1>4, <1>5, <1>6 DEF Work
<1> QED
  BY <1>1, <1>2, <1>3, <1>4, <1>5, <1>6, <1>7, StoreStep

LEMMA PublishStepOK == ASSUME IInv, HasScan, Publish PROVE IInv'
<1>1. CASE UNCHANGED <<disk, written, db, seen, jobs>> /\ End
  BY <1>1, EndStep
<1>2. CASE ~(UNCHANGED <<disk, written, db, seen, jobs>> /\ End)
  <2> DEFINE x == db[ses.scan]
             y == PublishResults(x, ses.verify)
  <2>0. ScanOK(x, written, disk.clock) /\ ~Done(x) /\ x.dirs = DirRows(x) /\ ses.verify \in BOOLEAN /\ DiskOK
    BY AtWork DEF Work, Publish, SesOK
  <2>1. /\ ~x.trashed /\ (x.authority \/ ses.observed)
        /\ x.authority => DOMAIN x.rows = seen[ses.scan].found /\ x.omitted = seen[ses.scan].omitted
    BY AtWork DEF Work, Publish
  <2>2. db' = [db EXCEPT ![ses.scan] = y] /\ ses' = [ses EXCEPT !.pc = "complete"] /\ UNCHANGED <<disk, written, seen, jobs>>
    BY <1>2 DEF Publish, Store, Continue
  <2> HIDE DEF x
  <2>3. ScanOK(y, written, disk.clock) /\ ~Done(y) /\ Published(y)
    BY <2>0, PublishOK
  <2>4. (y.trashed <=> x.trashed) /\ (y.authority <=> x.authority)
    BY <2>0, PublishOK
  <2>5. y.rows = x.rows /\ y.omitted = x.omitted
    BY <2>0, PublishOK
  <2> HIDE DEF y
  <2>6. SesOK(ses', disk, written) /\ ses'.pc = "complete" /\ ses'.scan = ses.scan /\ ses'.observed = ses.observed
    BY <2>2, AtWork DEF SesOK
  <2>7. Work(y, ses', seen[ses.scan])
    BY <2>1, <2>3, <2>4, <2>6 DEF Work, Published
  <2> QED
    BY <2>1, <2>2, <2>3, <2>4, <2>5, <2>6, <2>7, StoreStep
<1> QED
  BY <1>1, <1>2

LEMMA SetCompleteOK == ASSUME IInv, HasScan, SetComplete PROVE IInv'
<1>1. CASE ~HasAccount
  BY <1>1, EndStep DEF SetComplete
<1>2. CASE HasAccount
  <2> DEFINE x == db[ses.scan]
             status == IF Warned THEN "CompleteWithWarnings" ELSE "Complete"
             y == [x EXCEPT !.status = status]
  <2>0. ScanOK(x, written, disk.clock) /\ disk.clock \in Nat /\ Published(x)
    BY AtWork DEF Work, SetComplete
  <2>1. /\ ~x.trashed
        /\ x.authority => DOMAIN x.rows = seen[ses.scan].found /\ x.omitted = seen[ses.scan].omitted
    BY AtWork DEF Work, SetComplete
  <2>2. db' = [db EXCEPT ![ses.scan] = y] /\ ses' = [ses EXCEPT !.pc = "retain"] /\ UNCHANGED <<disk, written, seen, jobs>>
    BY <1>2 DEF SetComplete, Store, Continue
  <2>9. status \in Statuses /\ status \in {"Complete", "CompleteWithWarnings"}
    BY DEF Statuses
  <2> HIDE DEF x, status
  <2>3. ScanOK(y, written, disk.clock) /\ y.status = status
    BY <2>0, <2>9, StatusOK
  <2>4. (y.trashed <=> x.trashed) /\ (y.authority <=> x.authority)
    BY <2>0, <2>9, StatusOK
  <2>5. y.rows = x.rows /\ y.omitted = x.omitted
    BY <2>0, <2>9, StatusOK
  <2> HIDE DEF y
  <2>6. SesOK(ses', disk, written) /\ ses'.pc = "retain" /\ ses'.scan = ses.scan
    BY <2>2, AtWork DEF SesOK
  <2>7. Work(y, ses', seen[ses.scan])
    BY <2>1, <2>3, <2>4, <2>6, <2>9 DEF Work, Done
  <2> QED
    BY <2>1, <2>2, <2>3, <2>4, <2>5, <2>6, <2>7, StoreStep
<1> QED
  BY <1>1, <1>2

LEMMA ListHistoryOK == ASSUME IInv, HasScan, ListHistory PROVE IInv'
<1> DEFINE trash == ToTrash(ses.scan)
<1>1. ses.pc = "retain" /\ ses' = [ses EXCEPT !.pc = "trash", !.trash = trash] /\ UNCHANGED <<disk, written, db, seen, jobs>>
  BY DEF ListHistory
<1>2. \A s \in trash : s \in Ids /\ s # ses.scan /\ (Completed(s) => DOMAIN db[s].rows = {} \/ ~HeldBy(s, ses.scan))
  BY DEF ToTrash
<1>3. \A s \in trash : Completed(s) => \A r \in Roots : HasFilesUnder(s, r) => HasFilesUnder(ses.scan, r)
  BY <1>2 DEF HeldBy, HasFilesUnder
<1> HIDE DEF trash
<1>4. SesOK(ses', disk, written) /\ ses'.pc = "trash" /\ ses'.scan = ses.scan /\ ses'.trash = trash
  BY <1>1, <1>2, AtWork DEF SesOK
<1>5. Work(db[ses.scan], ses', seen[ses.scan])
  BY <1>1, <1>4, AtWork DEF Work
<1> QED
  BY <1>1, <1>2, <1>3, <1>4, <1>5, KeepStep

\* A write beside the session's scan, that leaves what other scans are.
LEMMA AsideStep ==
    ASSUME IInv, UNCHANGED <<disk, written, seen>>, jobs' \subseteq Ids, DbOK', SesOK(ses', disk, written),
           ses'.pc = ses.pc, ses'.scan = ses.scan, ses'.found = ses.found, ses'.omitted = ses.omitted,
           ses'.observed = ses.observed, ses'.trash \subseteq ses.trash,
           \A t \in Ids : db'[t] # None =>
                /\ db[t] # None /\ db'[t].rows = db[t].rows /\ db'[t].omitted = db[t].omitted
                /\ (db'[t].authority <=> db[t].authority) /\ db'[t].status = db[t].status,
           HasScan /\ db'[ses.scan] # None => db'[ses.scan] = db[ses.scan]
    PROVE  IInv'
<1>1. DiskOK' /\ SeenOK' /\ SesOK(ses, disk, written)'
  BY DEF IInv, DiskOK, SeenOK
<1>2. LedgerIsOfManifest'
  BY DEF IInv, LedgerIsOfManifest
<1>3. HasScan' => HasScan /\ ses.scan \in Ids /\ db'[ses.scan] = db[ses.scan]
  BY DEF HasScan, IInv, SesOK
<1>4. WorkOK'
  BY <1>3 DEF IInv, WorkOK, Work
<1>5. TrashOK'
  <2> SUFFICES ASSUME HasScan', ses'.pc = "trash", NEW s \in ses'.trash
               PROVE  /\ s # ses'.scan
                      /\ Completed(s)' => \A r \in Roots : HasFilesUnder(s, r)' => HasFilesUnder(ses.scan, r)'
    BY DEF TrashOK
  <2>1. s \in Ids /\ s # ses.scan /\ (Completed(s) => \A r \in Roots : HasFilesUnder(s, r) => HasFilesUnder(ses.scan, r))
    BY <1>3 DEF IInv, TrashOK, SesOK
  <2>2. Completed(s)' => Completed(s) /\ db'[s].rows = db[s].rows
    BY <2>1 DEF Completed
  <2> QED
    BY <1>3, <2>1, <2>2 DEF HasFilesUnder
<1> QED
  BY <1>1, <1>2, <1>4, <1>5 DEF IInv

\* A scan goes to the trash or comes back.
LEMMA TrashedStep ==
    ASSUME IInv, UNCHANGED <<disk, written, seen, jobs>>, NEW s \in Ids, db[s] # None, NEW b \in BOOLEAN,
           db' = [db EXCEPT ![s].trashed = b], HasScan => s # ses.scan,
           SesOK(ses', disk, written),
           ses'.pc = ses.pc, ses'.scan = ses.scan, ses'.found = ses.found, ses'.omitted = ses.omitted,
           ses'.observed = ses.observed, ses'.trash \subseteq ses.trash
    PROVE  IInv'
<1> DEFINE x == db[s]
           y == [x EXCEPT !.trashed = b]
<1>0. ScanOK(x, written, disk.clock) /\ disk.clock \in Nat /\ DOMAIN db = Ids
  BY DEF IInv, DbOK, DiskOK
<1>1. db' = [db EXCEPT ![s] = y]
  OBVIOUS
<1> HIDE DEF x
<1>2. ScanOK(y, written, disk.clock)
  BY <1>0, TrashedOK
<1>3. y.rows = x.rows /\ y.omitted = x.omitted /\ y.status = x.status
  BY <1>0, TrashedOK
<1>4. y.authority <=> x.authority
  BY <1>0, TrashedOK
<1> HIDE DEF y
<1>5. DbOK'
  BY <1>1, <1>2 DEF IInv, DbOK
<1>6. \A t \in Ids : db'[t] # None =>
                /\ db[t] # None /\ db'[t].rows = db[t].rows /\ db'[t].omitted = db[t].omitted
                /\ (db'[t].authority <=> db[t].authority) /\ db'[t].status = db[t].status
  BY <1>0, <1>1, <1>3, <1>4 DEF x
<1>7. HasScan => db'[ses.scan] = db[ses.scan]
  BY <1>0, <1>1
<1>8. jobs' \subseteq Ids
  BY DEF IInv
<1> QED
  BY <1>5, <1>6, <1>7, <1>8, AsideStep

LEMMA TrashOldOK == ASSUME IInv, HasScan, TrashOld PROVE IInv'
<1>0. ses.pc = "trash" /\ UNCHANGED <<disk, written, seen, jobs>>
  BY DEF TrashOld
<1>1. CASE ses.trash = {}
  BY <1>0, <1>1, EndStep DEF TrashOld
<1>2. CASE ses.trash # {}
  <2>1. PICK s \in ses.trash : /\ db' = IF db[s] = None THEN db ELSE [db EXCEPT ![s].trashed = TRUE]
                               /\ ses' = [ses EXCEPT !.trash = @ \ {s}]
    BY <1>2 DEF TrashOld
  <2>2. s \in Ids /\ s # ses.scan
    BY <1>0 DEF IInv, TrashOK, SesOK
  <2>3. /\ SesOK(ses', disk, written)
        /\ ses'.pc = ses.pc /\ ses'.scan = ses.scan /\ ses'.found = ses.found /\ ses'.omitted = ses.omitted
        /\ ses'.observed = ses.observed /\ ses'.trash \subseteq ses.trash
    BY <2>1, AtWork DEF SesOK
  <2>4. CASE db[s] # None
    BY <1>0, <2>1, <2>2, <2>3, <2>4, TrashedStep
  <2>5. CASE db[s] = None
    <3>1. db' = db
      BY <2>1, <2>5
    <3>2. DbOK'
      BY <1>0, <3>1 DEF IInv, DbOK
    <3>3. jobs' \subseteq Ids
      BY <1>0 DEF IInv
    <3> QED
      BY <1>0, <2>3, <3>1, <3>2, <3>3, AsideStep
  <2> QED
    BY <2>4, <2>5
<1> QED
  BY <1>1, <1>2

-----------------------------------------------------------------------------
(* The operator and the purge                                              *)

LEMMA StartScanOK == ASSUME IInv, NEW verify \in BOOLEAN, StartScan(verify) PROVE IInv'
<1>1. PICK id \in Ids : /\ NextId(id)
                        /\ db' = [db EXCEPT ![id] = NewScan]
                        /\ ses' = [Idle EXCEPT !.pc = "walk", !.scan = id, !.verify = verify]
  BY DEF StartScan
<1>0. UNCHANGED <<disk, written, seen, jobs>> /\ disk.clock \in Nat
  BY DEF StartScan, IInv, DiskOK
<1>2. /\ ScanOK(NewScan, written, disk.clock) /\ ~Done(NewScan) /\ ~NewScan.trashed /\ ~NewScan.authority
      /\ NewScan.dirs = {} /\ DOMAIN NewScan.rows = {}
  BY <1>0, NewScanOK
<1>3. SesOK(ses', disk, written) /\ ses'.pc = "walk" /\ ses'.scan = id
  BY <1>1, IdleOK DEF SesOK
<1>4. DbOK' /\ LedgerIsOfManifest' /\ DiskOK' /\ SeenOK' /\ jobs' \subseteq Ids
  BY <1>0, <1>1, <1>2 DEF IInv, DbOK, LedgerIsOfManifest, DiskOK, SeenOK
<1>5. WorkOK' /\ TrashOK'
  BY <1>1, <1>2, <1>3 DEF IInv, DbOK, WorkOK, TrashOK, Work
<1> QED
  BY <1>0, <1>3, <1>4, <1>5 DEF IInv

LEMMA ResumeScanOK == ASSUME IInv, NEW s \in Ids, NEW verify \in BOOLEAN, ResumeScan(s, verify) PROVE IInv'
<1> DEFINE pc == IF Completed(s) THEN "idle" ELSE IF NeedWalk(s) THEN "clear" ELSE "inherit"
<1>0. UNCHANGED <<disk, written, db, seen, jobs>> /\ db[s] # None /\ ~db[s].trashed
  BY DEF ResumeScan
<1>1. ses' = [Idle EXCEPT !.scan = s, !.verify = verify, !.resumed = TRUE, !.pc = pc]
  BY DEF ResumeScan
<1>2. ScanOK(db[s], written, disk.clock)
  BY <1>0 DEF IInv, DbOK
<1>3. /\ pc \in {"idle", "clear", "inherit"}
      /\ pc # "idle" => ~Done(db[s])
      /\ pc = "clear" => db[s].status = "Walking" \/ ~db[s].authority
      /\ pc = "inherit" => db[s].authority
  BY <1>0, <1>2 DEF Completed, Done, NeedWalk, LedgerAuthoritative, ScanOK, Statuses
<1> HIDE DEF pc
<1>4. SesOK(ses', disk, written) /\ ses'.pc = pc /\ ses'.scan = s
  BY ZenonT(40), <1>1, <1>3, IdleOK DEF SesOK
<1>5. pc # "idle" => Work(db[s], ses', seen[s])
  BY <1>0, <1>3, <1>4 DEF Work
<1> QED
  BY <1>0, <1>3, <1>4, <1>5, KeepStep

LEMMA StopOK == ASSUME IInv, Stop PROVE IInv'
<1>0. UNCHANGED <<disk, written, db, seen, jobs>> /\ ses' = [ses EXCEPT !.cancel = TRUE]
  BY DEF Stop
<1>1. SesOK(ses', disk, written) /\ ses'.pc = ses.pc /\ ses'.scan = ses.scan /\ ses'.found = ses.found
      /\ ses'.omitted = ses.omitted /\ ses'.observed = ses.observed /\ ses'.trash = ses.trash
  BY <1>0 DEF IInv, SesOK
<1> QED
  BY <1>0, <1>1, SameStep

LEMMA OrdersOK == ASSUME IInv, NEW s \in Ids, TrashScan(s) \/ RestoreScan(s) \/ OrderPurge(s) PROVE IInv'
<1>0. SesOK(ses, disk, written) /\ UNCHANGED <<disk, written, seen, ses>> /\ db[s] # None
  BY DEF IInv, TrashScan, RestoreScan, OrderPurge
<1>1. CASE TrashScan(s)
  <2>1. ~HasScan /\ db' = [db EXCEPT ![s].trashed = TRUE] /\ jobs' = jobs
    BY <1>1 DEF TrashScan, HasScan
  <2> QED
    BY <1>0, <2>1, TrashedStep
<1>2. CASE RestoreScan(s)
  <2>1. db' = [db EXCEPT ![s].trashed = FALSE] /\ jobs' = jobs /\ db[s].trashed
    BY <1>2 DEF RestoreScan
  <2>2. HasScan => s # ses.scan
    BY <2>1 DEF IInv, WorkOK, Work
  <2> QED
    BY <1>0, <2>1, <2>2, TrashedStep
<1>3. CASE OrderPurge(s)
  <2>1. db' = db /\ jobs' = jobs \cup {s}
    BY <1>3 DEF OrderPurge
  <2>2. DbOK' /\ jobs' \subseteq Ids
    BY <1>0, <2>1 DEF IInv, DbOK
  <2> QED
    BY <1>0, <2>1, <2>2, AsideStep
<1> QED
  BY <1>0, <1>1, <1>2, <1>3

LEMMA PurgeScanOK == ASSUME IInv, NEW s \in Ids, PurgeScan(s) PROVE IInv'
<1>1. db' = [db EXCEPT ![s] = None] /\ jobs' = jobs \ {s} /\ UNCHANGED <<disk, written, seen, ses>>
  BY DEF PurgeScan
<1>2. SesOK(ses, disk, written) /\ jobs' \subseteq Ids /\ DbOK' /\ DOMAIN db = Ids
  BY <1>1 DEF IInv, DbOK
<1>3. \A t \in Ids : db'[t] # None => db'[t] = db[t]
  BY <1>1, <1>2
<1>4. HasScan => ses.scan \in Ids
  BY AtWork
<1> QED
  BY <1>1, <1>2, <1>3, <1>4, AsideStep

-----------------------------------------------------------------------------
(* The disk                                                                *)

\* An object gets a new stamp, and with it a content.
LEMMA StampStep ==
    ASSUME IInv, NEW o \in Objects, NEW k \in Contents, disk.clock < MaxStamp, UNCHANGED <<db, seen, ses, jobs>>,
           NEW names \in [Paths -> Objects \cup {None}],
           disk' = [disk EXCEPT !.clock = @ + 1, !.stamp[o] = disk.clock + 1, !.content[o] = k, !.names = names],
           written' = [written EXCEPT ![disk.clock + 1] = k]
    PROVE  IInv'
<1> DEFINE c == disk.clock + 1
           stamp == [disk.stamp EXCEPT ![o] = c]
           content == [disk.content EXCEPT ![o] = k]
<1>1. disk' = [disk EXCEPT !.clock = c, !.stamp = stamp, !.content = content, !.names = names]
  BY DEF IInv, DiskOK
<1>2. /\ MaxStamp \in Nat /\ disk.clock \in Nat /\ c \in 0..MaxStamp /\ c \in 1..MaxStamp
      /\ c \notin 1..disk.clock /\ 1..c = (1..disk.clock) \cup {c}
  BY PipelineAssumption DEF IInv, DiskOK
<1>3. stamp \in [Objects -> 1..c] /\ content \in [Objects -> Contents]
  BY <1>2 DEF IInv, DiskOK
<1> HIDE DEF c
<1>4. /\ DOMAIN written' = 1..MaxStamp /\ written'[c] = k
      /\ \A t \in 1..disk.clock : written'[t] = written[t]
  BY <1>2 DEF IInv, DiskOK, c
<1>5. \A p \in Objects : written'[stamp[p]] = content[p]
  BY <1>2, <1>4 DEF IInv, DiskOK
<1>6. \A p \in Objects : disk.stamp[p] <= stamp[p] /\ stamp[p] \in Nat
      /\ (stamp[p] \in 1..disk.clock => stamp[p] = disk.stamp[p])
  BY <1>2 DEF IInv, DiskOK, c
<1> HIDE DEF stamp, content
<1>7. disk' \in [names : {names}, denied : {disk.denied}, keyable : {disk.keyable}, stamp : {stamp},
                 content : {content}, dev : {disk.dev}, mounted : {disk.mounted}, clock : {c}]
  BY <1>1 DEF IInv, DiskOK
<1>8. DiskOK'
  <2>1. /\ disk'.names \in [Paths -> Objects \cup {None}] /\ disk'.keyable \in BOOLEAN
        /\ disk'.dev \in [Roots -> Nat] /\ disk'.mounted \in [Roots -> BOOLEAN]
        /\ disk'.clock = c /\ disk'.stamp = stamp /\ disk'.content = content
    BY <1>7 DEF IInv, DiskOK
  <2>2. disk' \in [names : [Paths -> Objects \cup {None}], denied : {disk'.denied}, keyable : BOOLEAN,
                 stamp : [Objects -> 1..disk'.clock], content : [Objects -> Contents],
                 dev : [Roots -> Nat], mounted : [Roots -> BOOLEAN], clock : 0..MaxStamp]
    BY <1>2, <1>3, <1>7, <2>1
  <2>3. \A t \in 1..disk'.clock : written'[t] \in Contents
    BY <1>2, <1>4, <2>1 DEF IInv, DiskOK
  <2>4. \A p \in Objects : written'[disk'.stamp[p]] = disk'.content[p]
    BY <1>5, <2>1
  <2> QED
    BY <1>4, <2>2, <2>3, <2>4 DEF DiskOK
<1>9. disk'.clock = c /\ disk'.stamp = stamp
  BY <1>7
<1>10. ASSUME NEW r, RowOK(r, written, disk.clock) PROVE RowOK(r, written', disk'.clock)
  BY <1>2, <1>4, <1>9, <1>10 DEF RowOK
<1>11. DbOK'
  BY <1>10 DEF IInv, DbOK, ScanOK
<1>12. ASSUME NEW e, ReadOK(e, disk, written) PROVE ReadOK(e, disk', written')
  <2>1. e \in [phase : {"closed", "open", "read", "done"}, before : {e.before}, digest : {e.digest}]
    BY <1>12 DEF ReadOK
  <2>2. e.phase \in {"closed", "open"} => e.digest = None
    BY <1>12 DEF ReadOK
  <2>3. ASSUME e.phase \in {"open", "read"} \/ (e.phase = "done" /\ e.digest # None)
        PROVE  /\ e.before \in [obj : Objects, dev : Nat, stamp : 1..disk.clock]
               /\ e.before.stamp <= disk.stamp[e.before.obj]
               /\ e.before \in [obj : Objects, dev : Nat, stamp : 1..c]
               /\ e.before.stamp <= stamp[e.before.obj]
               /\ written'[e.before.stamp] = written[e.before.stamp]
               /\ stamp[e.before.obj] = e.before.stamp => disk.stamp[e.before.obj] = e.before.stamp
    <3>1. /\ e.before \in [obj : Objects, dev : Nat, stamp : 1..disk.clock]
          /\ e.before.stamp <= disk.stamp[e.before.obj]
      BY <1>12, <2>3 DEF ReadOK
    <3>2. disk.stamp[e.before.obj] \in Nat
      BY <3>1 DEF IInv, DiskOK
    <3> QED
      BY <1>2, <1>4, <1>6, <3>1, <3>2
  <2>4. e.phase = "read" /\ disk'.stamp[e.before.obj] = e.before.stamp => e.digest = written'[e.before.stamp]
    BY <1>9, <1>12, <2>3 DEF ReadOK
  <2>5. e.phase = "done" /\ e.digest # None => e.digest = written'[e.before.stamp]
    BY <1>12, <2>3 DEF ReadOK
  <2> QED
    BY <1>9, <2>1, <2>2, <2>3, <2>4, <2>5 DEF ReadOK
<1>13. SesOK(ses, disk, written)'
  BY <1>10, <1>12 DEF IInv, SesOK
<1>14. WorkOK' /\ TrashOK' /\ LedgerIsOfManifest' /\ SeenOK' /\ jobs' \subseteq Ids
  BY DEF IInv, WorkOK, TrashOK, LedgerIsOfManifest, SeenOK, HasScan, HasFilesUnder, Completed
<1> QED
  BY <1>8, <1>11, <1>13, <1>14 DEF IInv

LEMMA EditOK == ASSUME IInv, NEW p \in Paths, Edit(p) PROVE IInv'
<1> DEFINE o == disk.names[p]
<1>1. o \in Objects /\ disk.names \in [Paths -> Objects \cup {None}]
  BY DEF IInv, DiskOK, Edit, Visible
<1>2. PICK k \in Contents :
        /\ disk' = [disk EXCEPT !.clock = @ + 1, !.stamp[o] = disk.clock + 1, !.content[o] = k]
        /\ written' = [written EXCEPT ![disk.clock + 1] = k]
  BY DEF Edit
<1> HIDE DEF o
<1>3. disk' = [disk EXCEPT !.clock = @ + 1, !.stamp[o] = disk.clock + 1, !.content[o] = k, !.names = disk.names]
  BY <1>2 DEF IInv, DiskOK
<1> QED
  BY <1>1, <1>2, <1>3, StampStep DEF Edit

LEMMA UnlinkOK == ASSUME IInv, NEW p \in Paths, Unlink(p) PROVE IInv'
<1> DEFINE o == disk.names[p]
           names == [disk.names EXCEPT ![p] = None]
           k == disk.content[o]
<1>1. o \in Objects /\ names \in [Paths -> Objects \cup {None}] /\ k \in Contents
  BY DEF IInv, DiskOK, Unlink, Visible
<1>2. /\ disk' = [disk EXCEPT !.clock = @ + 1, !.stamp[o] = disk.clock + 1, !.names = names]
      /\ written' = [written EXCEPT ![disk.clock + 1] = k]
  BY DEF Unlink
<1> HIDE DEF o, names
<1>3. [disk.content EXCEPT ![o] = k] = disk.content
  BY DEF IInv, DiskOK
<1>4. disk' = [disk EXCEPT !.clock = @ + 1, !.stamp[o] = disk.clock + 1, !.content[o] = k, !.names = names]
  BY <1>2, <1>3 DEF IInv, DiskOK
<1> HIDE DEF k
<1> QED
  BY <1>1, <1>2, <1>4, StampStep DEF Unlink

LEMMA MountOK == ASSUME IInv, NEW r \in Roots, Mount(r) PROVE IInv'
<1> DEFINE mounted == [disk.mounted EXCEPT ![r] = ~@]
           dev == [disk.dev EXCEPT ![r] = IF disk.mounted[r] THEN @ ELSE @ + 1]
<1>1. disk' = [disk EXCEPT !.mounted = mounted, !.dev = dev] /\ UNCHANGED <<written, db, seen, ses, jobs>>
  BY DEF Mount
<1>2. mounted \in [Roots -> BOOLEAN] /\ dev \in [Roots -> Nat]
  BY DEF IInv, DiskOK
<1> HIDE DEF mounted, dev
<1>3. disk'.clock = disk.clock /\ disk'.stamp = disk.stamp /\ DiskOK'
  BY <1>1, <1>2 DEF IInv, DiskOK
<1>4. DbOK' /\ SesOK(ses, disk, written)'
  BY <1>1, <1>3 DEF IInv, DbOK, SesOK, ReadOK
<1>5. WorkOK' /\ TrashOK' /\ LedgerIsOfManifest' /\ SeenOK' /\ jobs' \subseteq Ids
  BY <1>1 DEF IInv, WorkOK, TrashOK, LedgerIsOfManifest, SeenOK, HasScan, HasFilesUnder, Completed
<1> QED
  BY <1>3, <1>4, <1>5 DEF IInv

-----------------------------------------------------------------------------
(* The invariant                                                           *)

LEMMA NextOK == IInv /\ [Next]_vars => IInv'
<1> SUFFICES ASSUME IInv, [Next]_vars PROVE IInv'
  OBVIOUS
<1>1. CASE SessionStep
  <2>1. CASE ScanGone
    BY <2>1, EndStep DEF ScanGone
  <2> QED
    BY <1>1, <2>1, ClearForWalkOK, WalkEntryOK, WalkEndsOK, PersistBatchOK, PublishOmissionsOK, SetHashingOK,
       InheritOK, PropagateOK, StartBatchOK, CheckpointOK, BeginGroupingOK, WriteDirsOK, PublishStepOK,
       SetCompleteOK, ListHistoryOK, TrashOldOK
    DEF SessionStep
<1>2. CASE \E p \in Paths : ReaderStep(p)
  BY <1>2, OpenFileOK, ReadFileOK, CheckFileOK DEF ReaderStep
<1>3. CASE \E s \in Ids : PurgeScan(s)
  BY <1>3, PurgeScanOK
<1>4. CASE Operator
  BY <1>4, StartScanOK, ResumeScanOK, StopOK, OrdersOK DEF Operator
<1>5. CASE World
  <2>1. CASE Crash
    BY <2>1, EndStep DEF Crash
  <2> QED
    BY <1>5, <2>1, EditOK, UnlinkOK, ReadFailsOK, MountOK DEF World
<1>6. CASE UNCHANGED vars
  <2>1. IInv' <=> IInv
    BY <1>6 DEF vars, IInv, DiskOK, DbOK, SeenOK, WorkOK, TrashOK, LedgerIsOfManifest, HasScan,
                HasFilesUnder, Completed
  <2> QED
    BY <2>1
<1> QED
  BY <1>1, <1>2, <1>3, <1>4, <1>5, <1>6 DEF Next, Rest

LEMMA Inductive == Spec => []IInv
  BY InitOK, NextOK, PTL DEF Spec

-----------------------------------------------------------------------------
(* The theorems about states                                               *)

\* Every scan of the checkpoint, and the session, is well formed, whatever was killed.
THEOREM TypeCorrect == Spec => []TypeOK
<1>1. IInv => TypeOK
  <2> SUFFICES ASSUME IInv PROVE TypeOK
    OBVIOUS
  <2>1. ASSUME NEW s \in Ids, db[s] # None, NEW p \in DOMAIN db[s].rows
        PROVE  db[s].rows[p].hash \in Contents \cup {None}
    <3>1. RowOK(db[s].rows[p], written, disk.clock)
      BY <2>1 DEF IInv, DbOK, ScanOK
    <3> QED
      BY <3>1 DEF RowOK, IInv, DiskOK
  <2> QED
    BY <2>1 DEF IInv, DbOK, ScanOK, SesOK, Statuses, TypeOK
<1> QED
  BY <1>1, Inductive, PTL

\* hash_file_verified, conflicting_inheritance_objects and propagate_sql: a digest in
\* the checkpoint is of the content the file had when it carried the times beside it.
THEOREM DigestsAreTrue == Spec => []HashIsTruth
<1>1. IInv => HashIsTruth
  BY DEF IInv, DbOK, ScanOK, RowOK, HashIsTruth
<1> QED
  BY <1>1, Inductive, PTL

LEMMA PublishedShown ==
    ASSUME NEW s \in Ids, db[s] # None, Published(db[s])
    PROVE  LET groups == {PathsWith(db[s], d) : d \in GroupDigests(db[s])}
           IN  /\ db[s].pub.mode = "Derived" => ShownGroups(db[s]) = groups
               /\ \A g \in ShownGroups(db[s]) :
                       /\ \E h \in groups : g \subseteq h
                       /\ Cardinality(ObjectsOf(db[s], g)) >= 2
               /\ db[s].dirs = DirRows(db[s])
<1> DEFINE x == db[s]
           groups == {PathsWith(x, d) : d \in GroupDigests(x)}
<1>1. x.pub.mode \in {"Derived", "Explicit"}
  BY DEF Published, Publication
<1>2. CASE x.pub.mode = "Derived"
  <2>1. ShownGroups(x) = groups
    BY <1>2 DEF Published, ShownGroups
  <2>2. \A g \in groups : Cardinality(ObjectsOf(x, g)) >= 2
    BY DEF GroupDigests
  <2> QED
    BY <2>1, <2>2 DEF Published
<1>3. CASE x.pub.mode = "Explicit"
  <2>1. ShownGroups(x) = x.pub.members
    BY <1>3 DEF Published, ShownGroups
  <2> QED
    BY <1>3, <2>1 DEF Published
<1> QED
  BY <1>1, <1>2, <1>3

\* publish_walk_omissions, publish_results and the refusal in run_phases: the ledger
\* beside a scan is of its manifest, its result of its digests, and no session comes to
\* the end without an account of its walk.
THEOREM ResultBelongs == Spec => []ResultIsOfScan
<1>1. IInv => ResultIsOfScan
  <2> SUFFICES ASSUME IInv PROVE ResultIsOfScan
    OBVIOUS
  <2>1. LedgerIsOfManifest
    BY DEF IInv
  <2>2. ShownIsManifest
    <3>1. ASSUME NEW s \in Ids, Completed(s) PROVE db[s] # None /\ Published(db[s])
      BY <3>1 DEF Completed, IInv, DbOK, ScanOK, Done
    <3> QED
      BY <3>1, PublishedShown DEF ShownIsManifest
  <2>3. CompletionHasAccount
    BY AtWork DEF CompletionHasAccount, HasAccount, LedgerAuthoritative, Work
  <2> QED
    BY <2>1, <2>2, <2>3 DEF ResultIsOfScan
<1> QED
  BY <1>1, Inductive, PTL

-----------------------------------------------------------------------------
(* What one step can make of the checkpoint                                *)

\* The rows that have a digest stay.
KeepsDigests(x, y) ==
    \A p \in DOMAIN x.rows : x.rows[p].hash # None => p \in DOMAIN y.rows /\ y.rows[p] = x.rows[p]

Begins == \E s \in Ids : db[s] = None /\ db' = [db EXCEPT ![s] = NewScan]

Retitles ==
    \E s \in Ids : \E b \in BOOLEAN :
        /\ db[s] # None
        /\ db' = [db EXCEPT ![s].trashed = b]
        /\ b => TrashScan(s) \/ (HasScan /\ ses.pc = "trash" /\ s \in ses.trash)
        /\ ~b => db[s].trashed

Works ==
    /\ HasScan
    /\ ~Done(db[ses.scan])
    /\ \E y : /\ db' = [db EXCEPT ![ses.scan] = y]
              /\ db[ses.scan].status # "Walking" /\ db[ses.scan].authority => KeepsDigests(db[ses.scan], y)

LEMMA FillWorks ==
    ASSUME IInv, HasScan, ses.pc \in {"inherit", "propagate", "hash"},
           NEW rows, Fills(db[ses.scan], rows, written, disk.clock),
           db' = [db EXCEPT ![ses.scan] = [db[ses.scan] EXCEPT !.rows = rows]]
    PROVE  Works
<1> DEFINE x == db[ses.scan]
           y == [x EXCEPT !.rows = rows]
<1>1. ScanOK(x, written, disk.clock) /\ ~Done(x)
  BY AtWork DEF Work
<1>2. y.rows = rows
  BY <1>1 DEF ScanOK
<1>3. KeepsDigests(x, y)
  BY <1>2 DEF KeepsDigests, Fills
<1> QED
  BY <1>1, <1>3 DEF Works

LEMMA SessionWorks ==
    ASSUME IInv, SessionStep
    PROVE  db' = db \/ Retitles \/ Works
<1> DEFINE x == db[ses.scan]
<1>1. CASE ScanGone
  BY <1>1 DEF ScanGone
<1>2. CASE ~ScanGone
  <2>0. HasScan
    BY <1>2 DEF SessionStep
  <2>1. /\ ses.scan \in Ids /\ x # None /\ ScanOK(x, written, disk.clock) /\ disk.clock \in Nat /\ DiskOK
        /\ Work(x, ses, seen[ses.scan]) /\ SesOK(ses, disk, written) /\ DbOK
    BY <2>0, AtWork
  <2>2. CASE ClearForWalk
    BY <2>0, <2>1, <2>2 DEF ClearForWalk, Store, Works, Work
  <2>3. CASE PersistBatch
    BY <2>0, <2>1, <2>3 DEF PersistBatch, Store, Works, Work
  <2>4. CASE PublishOmissions
    BY <2>0, <2>1, <2>4 DEF PublishOmissions, Store, Works, Work
  <2>5. CASE SetHashing
    <3>1. db' = [db EXCEPT ![ses.scan] = [x EXCEPT !.status = "Hashing"]] /\ ~Done(x)
      BY <2>1, <2>5 DEF SetHashing, Store, Work
    <3>2. [x EXCEPT !.status = "Hashing"].rows = x.rows
      BY <2>1 DEF ScanOK
    <3> QED
      BY <2>0, <3>1, <3>2 DEF Works, KeepsDigests
  <2>6. CASE Inherit
    <3>1. PICK rows : /\ InheritHashes(ses.scan) = [x EXCEPT !.rows = rows]
                      /\ Fills(x, rows, written, disk.clock)
      BY <2>1, InheritFills
    <3> QED
      BY <2>0, <2>6, <3>1, FillWorks DEF Inherit, Store
  <2>7. CASE Propagate
    <3>1. PICK rows : /\ Propagated(x, ObjectsOf(x, DOMAIN x.rows)) = [x EXCEPT !.rows = rows]
                      /\ Fills(x, rows, written, disk.clock)
      BY <2>1, PropagateFills DEF ScanOK
    <3> QED
      BY <2>0, <2>7, <3>1, FillWorks DEF Propagate, Store
  <2>8. CASE Checkpoint
    <3>1. \A p \in DOMAIN ses.reads : ReadOK(ses.reads[p], disk, written) /\ ses.reads[p].phase = "done"
      BY <2>1, <2>8 DEF Checkpoint, SesOK
    <3>2. PICK rows : /\ RecordHashesVerified(x, ses.reads) = [x EXCEPT !.rows = rows]
                      /\ Fills(x, rows, written, disk.clock)
      BY <2>1, <3>1, RecordHashesFills
    <3> QED
      BY <2>0, <2>8, <3>2, FillWorks DEF Checkpoint, Store
  <2>9. CASE WriteDirs
    <3>1. db' = [db EXCEPT ![ses.scan] = RecordDirGroups(x)] /\ ~Done(x)
      BY <2>1, <2>9 DEF WriteDirs, Store, Work
    <3>2. RecordDirGroups(x).rows = x.rows
      BY <2>1, <3>1, DirsOK
    <3> QED
      BY <2>0, <3>1, <3>2 DEF Works, KeepsDigests
  <2>10. CASE Publish
    <3>1. CASE db' = db
      BY <3>1
    <3>2. CASE db' # db
      <4>1. db' = [db EXCEPT ![ses.scan] = PublishResults(x, ses.verify)] /\ ~Done(x)
        BY <2>1, <2>10, <3>2 DEF Publish, Store, Work
      <4>2. PublishResults(x, ses.verify).rows = x.rows
        BY <2>1 DEF PublishResults, ScanOK
      <4> QED
        BY <2>0, <4>1, <4>2 DEF Works, KeepsDigests
    <3> QED
      BY <3>1, <3>2
  <2>11. CASE SetComplete
    <3>1. CASE db' = db
      BY <3>1
    <3>2. CASE db' # db
      <4> DEFINE status == IF Warned THEN "CompleteWithWarnings" ELSE "Complete"
      <4>1. db' = [db EXCEPT ![ses.scan] = [x EXCEPT !.status = status]] /\ ~Done(x)
        BY <2>1, <2>11, <3>2 DEF SetComplete, Store, Work
      <4>2. [x EXCEPT !.status = status].rows = x.rows
        BY <2>1 DEF ScanOK
      <4> QED
        BY <2>0, <4>1, <4>2 DEF Works, KeepsDigests
    <3> QED
      BY <3>1, <3>2
  <2>12. CASE TrashOld
    <3>1. CASE db' = db
      BY <3>1
    <3>2. CASE db' # db
      <4>1. PICK s \in ses.trash : db[s] # None /\ db' = [db EXCEPT ![s].trashed = TRUE]
        BY <2>12, <3>2 DEF TrashOld
      <4> QED
        BY <2>0, <2>1, <2>12, <4>1 DEF TrashOld, Retitles, SesOK
    <3> QED
      BY <3>1, <3>2
  <2>13. CASE WalkEntry \/ WalkEnds \/ StartBatch \/ BeginGrouping \/ ListHistory
    BY <2>13 DEF WalkEntry, WalkEnds, StartBatch, BeginGrouping, ListHistory
  <2> QED
    BY <1>2, <2>2, <2>3, <2>4, <2>5, <2>6, <2>7, <2>8, <2>9, <2>10, <2>11, <2>12, <2>13 DEF SessionStep
<1> QED
  BY <1>1, <1>2

LEMMA StepKinds ==
    ASSUME IInv, [Next]_vars
    PROVE  db' = db \/ Begins \/ (\E s \in Ids : PurgeScan(s)) \/ Retitles \/ Works
<1>1. CASE SessionStep
  BY <1>1, SessionWorks
<1>2. CASE \E p \in Paths : ReaderStep(p)
  BY <1>2 DEF ReaderStep, OpenFile, ReadFile, CheckFile
<1>3. CASE Operator
  <2>1. CASE \E v \in BOOLEAN : StartScan(v)
    <3>1. PICK id \in Ids : NextId(id) /\ db' = [db EXCEPT ![id] = NewScan]
      BY <2>1 DEF StartScan
    <3>2. id \notin Used
      BY <3>1, PipelineAssumption DEF NextId, Ids
    <3> QED
      BY <3>1, <3>2 DEF Used, Begins
  <2>2. CASE \E v \in BOOLEAN : \E s \in Ids : ResumeScan(s, v)
    BY <2>2 DEF ResumeScan
  <2>3. CASE Stop
    BY <2>3 DEF Stop
  <2>4. CASE \E s \in Ids : TrashScan(s)
    BY <2>4 DEF TrashScan, Retitles
  <2>5. CASE \E s \in Ids : RestoreScan(s)
    BY <2>5 DEF RestoreScan, Retitles
  <2>6. CASE \E s \in Ids : OrderPurge(s)
    BY <2>6 DEF OrderPurge
  <2> QED
    BY <1>3, <2>1, <2>2, <2>3, <2>4, <2>5, <2>6 DEF Operator
<1>4. CASE World
  BY <1>4 DEF World, Edit, Unlink, ReadFails, Mount, Crash
<1> QED
  BY <1>1, <1>2, <1>3, <1>4 DEF Next, Rest, vars

-----------------------------------------------------------------------------
(* The theorems about steps                                                *)

LEMMA HistoryStep ==
    ASSUME IInv, [Next]_vars, NEW r \in Roots, InHistory(r), ~\E s \in Ids : TrashScan(s) \/ PurgeScan(s)
    PROVE  InHistory(r)'
<1>0. DOMAIN db = Ids
  BY DEF IInv, DbOK
<1>1. PICK s \in Ids : Completed(s) /\ ~db[s].trashed /\ HasFilesUnder(s, r)
  BY DEF InHistory
<1>2. db[s] # None /\ Done(db[s])
  BY <1>1 DEF Completed, Done
<1>3. ASSUME NEW t \in Ids, db'[t] = db[t], Completed(t), ~db[t].trashed, HasFilesUnder(t, r) PROVE InHistory(r)'
  BY <1>3 DEF InHistory, Completed, HasFilesUnder
<1>4. CASE db' = db
  BY <1>1, <1>3, <1>4
<1>5. CASE Begins
  BY <1>0, <1>1, <1>2, <1>3, <1>5 DEF Begins
<1>6. CASE Works
  BY <1>0, <1>1, <1>2, <1>3, <1>6 DEF Works
<1>7. CASE Retitles
  <2>1. PICK t \in Ids, b \in BOOLEAN :
            /\ db[t] # None /\ db' = [db EXCEPT ![t].trashed = b] /\ (~b => db[t].trashed)
            /\ b => HasScan /\ ses.pc = "trash" /\ t \in ses.trash
    BY <1>7 DEF Retitles
  <2>2. CASE t # s
    BY <1>0, <1>1, <1>3, <2>1, <2>2
  <2>3. CASE t = s
    <3>1. HasScan /\ ses.pc = "trash" /\ s \in ses.trash
      BY <1>1, <2>1, <2>3
    <3>2. s # ses.scan /\ HasFilesUnder(ses.scan, r)
      BY <1>1, <3>1 DEF IInv, TrashOK
    <3>3. ses.scan \in Ids /\ Completed(ses.scan) /\ ~db[ses.scan].trashed
      BY <3>1, AtWork DEF Work, Completed, Done
    <3>4. db'[ses.scan] = db[ses.scan]
      BY <1>0, <2>1, <2>3, <3>2, <3>3
    <3> QED
      BY <1>3, <3>2, <3>3, <3>4
  <2> QED
    BY <2>2, <2>3
<1> QED
  BY <1>4, <1>5, <1>6, <1>7, StepKinds

LEMMA ProgressStep ==
    ASSUME IInv, [Next]_vars, NEW s \in Ids, db[s] # None, db'[s] # None, db[s].status # "Walking", db[s].authority
    PROVE  KeepsDigests(db[s], db'[s])
<1>0. DOMAIN db = Ids /\ ScanOK(db[s], written, disk.clock)
  BY DEF IInv, DbOK
<1>1. KeepsDigests(db[s], db[s])
  BY DEF KeepsDigests
<1>2. CASE Begins
  BY <1>0, <1>1, <1>2 DEF Begins
<1>3. CASE \E t \in Ids : PurgeScan(t)
  BY <1>0, <1>1, <1>3 DEF PurgeScan
<1>4. CASE Retitles
  <2>1. db'[s].rows = db[s].rows
    BY <1>0, <1>4 DEF Retitles, ScanOK
  <2> QED
    BY <2>1 DEF KeepsDigests
<1>5. CASE Works
  BY <1>0, <1>1, <1>5 DEF Works
<1> QED
  BY <1>1, <1>2, <1>3, <1>4, <1>5, StepKinds

\* apply_retention, clear_files and the resumption in run_phases: only the operator makes
\* the history forget a root, and no step but a purge takes a digest from a scan that has
\* its ledger.
THEOREM NothingIsForgotten == Spec => NothingForgotten
<1>1. IInv /\ [Next]_vars =>
        [(\E s \in Ids : TrashScan(s) \/ PurgeScan(s)) \/ \A r \in Roots : InHistory(r) => InHistory(r)']_vars
  BY HistoryStep
<1>2. IInv /\ [Next]_vars =>
        [\A s \in Ids :
            /\ db[s] # None /\ db'[s] # None
            /\ db[s].status # "Walking" /\ db[s].authority
            => \A p \in DOMAIN db[s].rows :
                db[s].rows[p].hash # None => p \in DOMAIN db'[s].rows /\ db'[s].rows[p] = db[s].rows[p]]_vars
  BY ProgressStep DEF KeepsDigests
<1>3. Spec => HistoryKept
  BY <1>1, Inductive, PTL DEF Spec, HistoryKept
<1>4. Spec => ProgressKept
  BY <1>2, Inductive, PTL DEF Spec, ProgressKept
<1> QED
  BY <1>3, <1>4 DEF NothingForgotten

-----------------------------------------------------------------------------
(* The refinement                                                          *)

ShownPhase == [s \in Ids |-> IF db[s] = None THEN "absent" ELSE IF Completed(s) THEN "done" ELSE "open"]

ShownResult == [s \in Ids |-> IF Completed(s) /\ db[s].pub # None THEN ShownGroups(db[s]) ELSE None]

\* What a step on one scan is to its readers.
ReaderMoves(s) ==
    \/ /\ ShownPhase[s] = "absent"
       /\ ShownPhase' = [ShownPhase EXCEPT ![s] = "open"] /\ ShownResult' = ShownResult
    \/ /\ ShownPhase[s] = "open"
       /\ ShownPhase' = [ShownPhase EXCEPT ![s] = "done"]
       /\ \E r \in SUBSET SUBSET Paths : ShownResult' = [ShownResult EXCEPT ![s] = r]
    \/ /\ ShownPhase[s] # "absent"
       /\ ShownPhase' = [ShownPhase EXCEPT ![s] = "absent"]
       /\ ShownResult' = [ShownResult EXCEPT ![s] = None]

LEMMA ReaderNext == ASSUME NEW s \in Ids, ReaderMoves(s) PROVE Reader!Next
<1>1. Reader!Begin(s) \/ Reader!Finish(s) \/ Reader!Discard(s)
  BY DEF Reader!Begin, Reader!Finish, Reader!Discard, ReaderMoves, ShownPhase, ShownResult
<1> QED
  BY <1>1 DEF Reader!Next

\* A completed scan has its result.
LEMMA CompletedHasResult ==
    ASSUME DiskOK, DbOK, NEW s \in Ids, Completed(s)
    PROVE  db[s].pub # None /\ ShownGroups(db[s]) \in SUBSET SUBSET Paths
<1>1. ScanOK(db[s], written, disk.clock) /\ Published(db[s])
  BY DEF Completed, DbOK, ScanOK, Done
<1>2. db[s].pub # None /\ db[s].pub.members \in SUBSET SUBSET Paths
  BY <1>1, PipelineAssumption DEF Published, Publication
<1>3. \A d : PathsWith(db[s], d) \subseteq Paths
  BY <1>1, DigestsAreContents
<1> QED
  BY <1>2, <1>3 DEF ShownGroups

LEMMA OneScanStep ==
    ASSUME IInv, IInv', NEW s \in Ids, NEW y, db' = [db EXCEPT ![s] = y],
           db[s] = None => y = None \/ ~Done(y),
           Completed(s) => y = None \/ (Done(y) /\ ShownGroups(y) = ShownGroups(db[s]))
    PROVE  ReaderMoves(s) \/ (ShownPhase' = ShownPhase /\ ShownResult' = ShownResult)
<1>0. DOMAIN db = Ids /\ DOMAIN db' = Ids /\ db'[s] = y /\ \A t \in Ids \ {s} : db'[t] = db[t]
  BY DEF IInv, DbOK
<1>1. \A t \in Ids \ {s} : ShownPhase'[t] = ShownPhase[t] /\ ShownResult'[t] = ShownResult[t]
  BY <1>0 DEF ShownPhase, ShownResult, Completed
<1>2. /\ ShownPhase = [t \in Ids |-> ShownPhase[t]] /\ ShownResult = [t \in Ids |-> ShownResult[t]]
      /\ ShownPhase' = [t \in Ids |-> ShownPhase'[t]] /\ ShownResult' = [t \in Ids |-> ShownResult'[t]]
  BY DEF ShownPhase, ShownResult
<1>3. /\ ShownPhase' = [ShownPhase EXCEPT ![s] = ShownPhase'[s]]
      /\ ShownResult' = [ShownResult EXCEPT ![s] = ShownResult'[s]]
  BY <1>1, <1>2
<1>4. /\ ShownPhase[s] = IF db[s] = None THEN "absent" ELSE IF Completed(s) THEN "done" ELSE "open"
      /\ ShownResult[s] = IF Completed(s) THEN ShownGroups(db[s]) ELSE None
  BY CompletedHasResult DEF ShownPhase, ShownResult, IInv
<1>5. /\ ShownPhase'[s] = IF y = None THEN "absent" ELSE IF Done(y) THEN "done" ELSE "open"
      /\ y # None /\ Done(y) => ShownGroups(y) \in SUBSET SUBSET Paths
      /\ ShownResult'[s] = IF y # None /\ Done(y) THEN ShownGroups(y) ELSE None
  <2>1. Completed(s)' <=> y # None /\ Done(y)
    BY <1>0 DEF Completed, Done
  <2>2. Completed(s)' => y.pub # None /\ ShownGroups(y) \in SUBSET SUBSET Paths
    <3>1. (DiskOK /\ DbOK /\ Completed(s))' => (db[s].pub # None /\ ShownGroups(db[s]) \in SUBSET SUBSET Paths)'
      BY CompletedHasResult, PTL
    <3>2. ShownGroups(db[s])' = ShownGroups(y)
      BY <1>0 DEF ShownGroups, PathsWith
    <3> QED
      BY <1>0, <3>1, <3>2 DEF IInv
  <2>3. ShownGroups(db[s])' = ShownGroups(y)
    BY <1>0 DEF ShownGroups, PathsWith
  <2> QED
    BY <1>0, <2>1, <2>2, <2>3 DEF ShownPhase, ShownResult
<1> DEFINE p == ShownPhase
           q == ShownPhase'
           f == ShownResult
           g == ShownResult'
<1>6. CASE db[s] = None /\ y = None
  BY <1>2, <1>3, <1>4, <1>5, <1>6 DEF Completed
<1>7. CASE db[s] = None /\ y # None
  BY <1>2, <1>3, <1>4, <1>5, <1>7 DEF Completed, ReaderMoves
<1>8. CASE db[s] # None /\ y = None
  BY <1>3, <1>4, <1>5, <1>8 DEF ReaderMoves
<1>9. CASE db[s] # None /\ y # None /\ ~Completed(s) /\ ~Done(y)
  BY <1>2, <1>3, <1>4, <1>5, <1>9
<1>10. CASE db[s] # None /\ y # None /\ ~Completed(s) /\ Done(y)
  BY <1>3, <1>4, <1>5, <1>10 DEF ReaderMoves
<1>11. CASE db[s] # None /\ y # None /\ Completed(s)
  BY <1>2, <1>3, <1>4, <1>5, <1>11
<1> QED
  BY <1>6, <1>7, <1>8, <1>9, <1>10, <1>11

LEMMA ReaderStepOK ==
    ASSUME IInv, IInv', [Next]_vars
    PROVE  Reader!Next \/ (ShownPhase' = ShownPhase /\ ShownResult' = ShownResult)
<1>0. DOMAIN db = Ids
  BY DEF IInv, DbOK
<1>1. CASE db' = db
  BY <1>1 DEF ShownPhase, ShownResult, Completed, ShownGroups, PathsWith
<1>2. CASE Begins
  <2>1. PICK s \in Ids : db[s] = None /\ db' = [db EXCEPT ![s] = NewScan]
    BY <1>2 DEF Begins
  <2>2. ~Done(NewScan) /\ ~Completed(s)
    BY <2>1 DEF NewScan, Done, Completed
  <2> QED
    BY <2>1, <2>2, OneScanStep, ReaderNext
<1>3. CASE \E s \in Ids : PurgeScan(s)
  <2>1. PICK s \in Ids : db' = [db EXCEPT ![s] = None]
    BY <1>3 DEF PurgeScan
  <2> QED
    BY <2>1, OneScanStep, ReaderNext
<1>4. CASE Retitles
  <2>1. PICK s \in Ids, b \in BOOLEAN : db[s] # None /\ db' = [db EXCEPT ![s].trashed = b]
    BY <1>4 DEF Retitles
  <2> DEFINE y == [db[s] EXCEPT !.trashed = b]
  <2>2. y.status = db[s].status /\ y.rows = db[s].rows /\ y.pub = db[s].pub
    BY <2>1 DEF IInv, DbOK, ScanOK
  <2>3. db' = [db EXCEPT ![s] = y]
    BY <2>1
  <2> HIDE DEF y
  <2>4. Completed(s) => Done(y) /\ ShownGroups(y) = ShownGroups(db[s])
    BY <2>2 DEF Completed, Done, ShownGroups, PathsWith
  <2> QED
    BY <2>1, <2>3, <2>4, OneScanStep, ReaderNext
<1>5. CASE Works
  <2>1. PICK y : db' = [db EXCEPT ![ses.scan] = y]
    BY <1>5 DEF Works
  <2>2. ses.scan \in Ids /\ db[ses.scan] # None /\ ~Completed(ses.scan)
    BY <1>5, AtWork DEF Works, Completed, Done
  <2> QED
    BY <2>1, <2>2, OneScanStep, ReaderNext
<1> QED
  BY <1>1, <1>2, <1>3, <1>4, <1>5, StepKinds

\* publish_results and set_status: the checkpoint, as its readers see it, is ScanResult.  A
\* scan has its result in the moment it is complete, and shows it until it is purged.
THEOREM ReadersSeeScanResult == Spec => ShowsScanResult
<1>1. Init => Reader!Init
  BY DEF Init, Reader!Init, Completed
<1>2. IInv /\ IInv' /\ [Next]_vars => [Reader!Next]_(Reader!vars)
  BY ReaderStepOK DEF Reader!vars, ShownPhase, ShownResult
<1> QED
  BY <1>1, <1>2, Inductive, PTL DEF Spec, ShowsScanResult, Reader!Spec

=============================================================================
