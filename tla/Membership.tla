----------------------------- MODULE Membership -----------------------------
(***************************************************************************)
(* Who belongs to a group (src/state/store.rs): the published membership   *)
(* of a scan, the readers that trust it, the plan that is built from it    *)
(* and the lease that a destructive batch holds on it.                     *)
(*                                                                         *)
(* Three connections of one checkpoint meet here: the browsing actor's,    *)
(* the running scan's and the batch's lease; others purge, export and, from *)
(* outside the program, damage.  Each write is one transaction.  An id     *)
(* comes again after a purge, and a publication starts again at 1 after a  *)
(* new walk, so an identity can name two things in its time.               *)
(*                                                                         *)
(* Paths and digests are numbers; every path is a file of its own, of one  *)
(* size.  What the walk and the hashing do beside this is ScanPipeline.    *)
(***************************************************************************)
EXTENDS Integers, FiniteSets, FiniteSetsExt, Sequences, SequencesExt, TLC

CONSTANTS
    Paths, Digests,
    MaxScans,   \* ids are 1..MaxScans
    Worlds,     \* what a walk can find: functions to [digest, bytes, fails]
    Legacies,   \* what a checkpoint of an older version holds at the start
    Budgets,    \* how often the operator, the outside and the crash act
    None

Ids == 1..MaxScans
Acts == {"starts", "opens", "marks", "plans", "orders", "crashes", "damages", "exports"}

Modes == {"Unknown", "Derived", "Explicit"}

\* The record of a scan; what the fields left open hold is for the properties to say.
Scan(x) ==
    x \in [born : Nat, status : {"Walking", "Hashing", "Complete"}, keyless : BOOLEAN,
          trashed : BOOLEAN, files : {x.files}, mode : Modes, gen : Nat,
          groups : {x.groups}, members : {x.members}, marks : SUBSET Paths, prepared : BOOLEAN,
          none : BOOLEAN, was : {x.was}, edited : BOOLEAN]

\* An older version recorded no authority and no generation; a result it has is that
\* of a scan that came to its end, with groups or known to have found none.
OldScan(x) ==
    /\ Scan(x)
    /\ x.born = 0 /\ x.mode = "Unknown" /\ x.gen = 0 /\ ~x.edited
    /\ DOMAIN x.files \subseteq Paths
    /\ x.was # None => x.was = x.groups /\ x.status = "Complete" /\ (x.groups # <<>> \/ x.none)

ASSUME MembershipAssumption ==
    /\ Paths \subseteq Nat /\ Digests \subseteq Nat /\ MaxScans \in Nat \ {0} /\ None \notin Ids
    /\ \A w \in Worlds : DOMAIN w \subseteq Paths /\ \A p \in DOMAIN w : w[p].digest \in Digests
    /\ \A old \in Legacies, s \in Ids : s \in DOMAIN old => OldScan(old[s])
    /\ Budgets \subseteq [Acts -> Nat]

VARIABLES
    db,      \* the checkpoint: a scan for each id in use
    ses,     \* the session that scans
    view,    \* the scan the browsing actor has open, and how far the opening is
    cache,   \* for each connection, the verdict it remembers
    plan,    \* the plan the operator was shown
    lease,   \* "none", "begun" or "held"
    csv,     \* the export under way, and the file it made
    left     \* what remains of the budget

vars == <<db, ses, view, cache, plan, lease, csv, left>>

Conns == {"actor", "scan"}

Spend(what) == left[what] > 0 /\ left' = [left EXCEPT ![what] = @ - 1]

-----------------------------------------------------------------------------
(* A scan and its groups                                                   *)

Nothing == [p \in {} |-> None]

NewScan(born, keyless) ==
    [born |-> born, status |-> "Walking", keyless |-> keyless, trashed |-> FALSE,
     files |-> Nothing, mode |-> "Unknown", gen |-> 0, groups |-> <<>>, members |-> Nothing,
     marks |-> {}, prepared |-> FALSE, none |-> FALSE, was |-> None, edited |-> FALSE]

\* clear_files: the marks stay, the publication goes with its generation.
ClearFiles(scan) ==
    [NewScan(scan.born, scan.keyless) EXCEPT
        !.status = scan.status, !.trashed = scan.trashed, !.marks = scan.marks]

Completed(scan) == scan.status = "Complete"

With(scan, digest) == {p \in DOMAIN scan.files : scan.files[p] = digest}

Ranks(scan) == DOMAIN scan.groups

\* The order of the groups: by what they free, which is by their number of files,
\* and then by digest; the rows of one digest stay in the order of their files.
Ranked(parts) ==
    SetToSortSeq(parts, LAMBDA a, b :
        \/ Cardinality(a.members) > Cardinality(b.members)
        \/ /\ Cardinality(a.members) = Cardinality(b.members)
           /\ a.digest < b.digest \/ (a.digest = b.digest /\ Min(a.members) < Min(b.members)))

\* group_rows_sql: the digests of two files or more.
DerivedParts(scan) ==
    {[digest |-> d, members |-> With(scan, d)] :
        d \in {e \in Digests : Cardinality(With(scan, e)) >= 2}}

\* verify_groups: each of them split by the bytes read now.
VerifiedParts(scan, world) ==
    UNION {{[digest |-> part.digest, members |-> {q \in part.members : world[q].bytes = world[p].bytes}] :
                p \in part.members} : part \in DerivedParts(scan)}

Summaries(parts) ==
    [i \in DOMAIN Ranked(parts) |->
        [digest |-> Ranked(parts)[i].digest, count |-> Cardinality(Ranked(parts)[i].members)]]

MemberRows(parts) ==
    [p \in UNION {part.members : part \in parts} |->
        CHOOSE i \in DOMAIN Ranked(parts) : p \in Ranked(parts)[i].members]

\* Mutated PublishResults: the generation stays.
PublishedUncounted(scan, parts, mode) ==
    [scan EXCEPT !.groups = Summaries(parts),
                 !.members = IF mode = "Explicit" THEN MemberRows(parts) ELSE Nothing,
                 !.mode = mode, !.prepared = TRUE]

\* publish_results: summaries, members, authority and the marker in one transaction.
PublishResults(scan, parts, mode) ==
    [scan EXCEPT !.groups = Summaries(parts),
                 !.members = IF mode = "Explicit" THEN MemberRows(parts) ELSE Nothing,
                 !.mode = mode, !.gen = @ + 1, !.prepared = TRUE]

\* explicit_members, derived_members: who belongs to a rank at this moment.
Members(scan, rank) ==
    IF scan.mode = "Explicit"
    THEN {p \in DOMAIN scan.members : scan.members[p] = rank}
    ELSE With(scan, scan.groups[rank].digest)

-----------------------------------------------------------------------------
(* The verdict on a publication                                            *)

Sound(ranks) == [sound |-> TRUE, bad |-> ranks]
Inconsistent == [sound |-> FALSE, bad |-> {}]

\* Explicit: every member has a row with its group's digest, no group is empty.
ExplicitShape(scan) ==
    /\ \A p \in DOMAIN scan.members :
        /\ p \in DOMAIN scan.files
        /\ scan.members[p] \in Ranks(scan)
        /\ scan.files[p] = scan.groups[scan.members[p]].digest
    /\ \A r \in Ranks(scan) : Members(scan, r) # {}

\* Derived: no member row, no digest of two groups.
DerivedShape(scan) ==
    /\ DOMAIN scan.members = {}
    /\ \A r, q \in Ranks(scan) : scan.groups[r].digest = scan.groups[q].digest => r = q

\* validate_authority: over the whole scan; a wrong count only bars its rank.
ValidateAuthority(scan) ==
    CASE scan.mode = "Unknown" -> Sound({})
      [] scan.mode = "Explicit" /\ ~ExplicitShape(scan) -> Inconsistent
      [] scan.mode = "Derived" /\ ~DerivedShape(scan) -> Inconsistent
      [] OTHER -> Sound({r \in Ranks(scan) : Cardinality(Members(scan, r)) # scan.groups[r].count})

\* Mutated CachedIntegrity: the version of the data is not part of the key.
CachedByGeneration(c, s) ==
    /\ cache[c] # None
    /\ cache[c].scan = s
    /\ cache[c].mode = db[s].mode
    /\ cache[c].gen = db[s].gen

\* cached_integrity.  `current` stands for the data version: another connection's
\* commit changes it, the connection's own does not.
CachedIntegrity(c, s) ==
    /\ cache[c] # None
    /\ cache[c].scan = s
    /\ cache[c].mode = db[s].mode
    /\ cache[c].gen = db[s].gen
    /\ cache[c].current

\* membership_snapshot: what the connection takes the scan's integrity to be.
Integrity(c, s) == IF CachedIntegrity(c, s) THEN cache[c].verdict ELSE ValidateAuthority(db[s])

\* remember_integrity; an Unknown scan leaves nothing to remember.
Remember(c, s) ==
    cache' = IF CachedIntegrity(c, s) \/ db[s].mode = "Unknown" THEN cache
             ELSE [cache EXCEPT ![c] = [scan |-> s, mode |-> db[s].mode, gen |-> db[s].gen,
                                        current |-> TRUE, verdict |-> ValidateAuthority(db[s])]]

Outdated(c) == IF cache[c] = None THEN None ELSE [cache[c] EXCEPT !.current = FALSE]

\* A commit of the connection (or of one that remembers nothing).
Committed(c) == cache' = [k \in Conns |-> IF k = c THEN cache[k] ELSE Outdated(k)]

\* revoke_membership_cache, and the commit after it.
RevokedAndCommitted(c) == cache' = [k \in Conns |-> IF k = c THEN None ELSE Outdated(k)]

\* One writer at a time: BEGIN IMMEDIATE keeps all others out.
Writable == lease = "none"

-----------------------------------------------------------------------------
NoSession == [pc |-> "idle", scan |-> None, world |-> None, todo |-> {}]
NoPlan == [pc |-> "none", scan |-> None, gen |-> 0, groups |-> {}]
NoView == [pc |-> "closed", scan |-> None]
NoExport == [pc |-> "idle", scan |-> None, born |-> None, groups |-> {}]

Init ==
    /\ \E old \in Legacies : db = [s \in Ids |-> IF s \in DOMAIN old THEN old[s] ELSE None]
    /\ ses = NoSession
    /\ view = NoView
    /\ cache = [c \in Conns |-> None]
    /\ plan = NoPlan
    /\ lease = "none"
    /\ csv = [now |-> NoExport, made |-> NoExport]
    /\ left \in Budgets

-----------------------------------------------------------------------------
(* The scan's session                                                      *)

StartScan ==
    LET id == 1 + Max({0} \cup {s \in Ids : db[s] # None})
    IN  /\ ses.pc = "idle"
        /\ id \in Ids
        /\ Writable
        /\ Spend("starts")
        /\ \E keyless \in BOOLEAN : db' = [db EXCEPT ![id] = NewScan(left.starts, keyless)]
        /\ ses' = [NoSession EXCEPT !.pc = "walk", !.scan = id]
        /\ cache' = [c \in Conns |-> IF c = "scan" THEN None ELSE Outdated(c)]
        /\ UNCHANGED <<view, plan, lease, csv>>

\* A later session goes on; roots without keys are walked again.
ResumeScan(s) ==
    /\ ses.pc = "idle"
    /\ db[s] # None
    /\ ~Completed(db[s])
    /\ Spend("starts")
    /\ ses' = [NoSession EXCEPT !.scan = s,
                !.pc = IF db[s].status = "Walking" \/ db[s].keyless THEN "clear" ELSE "read"]
    /\ cache' = [cache EXCEPT !["scan"] = None]
    /\ UNCHANGED <<db, view, plan, lease, csv>>

Store(scan) == db' = [db EXCEPT ![ses.scan] = scan]

SessionSteps(pc) ==
    /\ ses.pc = pc
    /\ db[ses.scan] # None
    /\ Writable
    /\ UNCHANGED <<view, plan, lease, csv, left>>

ClearForWalk ==
    /\ SessionSteps("clear")
    /\ Store(ClearFiles(db[ses.scan]))
    /\ ses' = [ses EXCEPT !.pc = "walk"]
    /\ RevokedAndCommitted("scan")

\* record_files, and the status after it.
RecordFiles ==
    /\ SessionSteps("walk")
    /\ \E w \in Worlds :
        /\ Store([db[ses.scan] EXCEPT !.files = [p \in DOMAIN w |-> None], !.status = "Hashing"])
        /\ ses' = [ses EXCEPT !.pc = "hash", !.world = w, !.todo = DOMAIN w]
    /\ RevokedAndCommitted("scan")

\* A session that does not walk reads what is on the disk now.
ReadManifest ==
    /\ SessionSteps("read")
    /\ \E w \in {x \in Worlds : DOMAIN x = DOMAIN db[ses.scan].files} :
        ses' = [ses EXCEPT !.pc = "hash", !.world = w,
                    !.todo = {p \in DOMAIN w : db[ses.scan].files[p] = None}]
    /\ UNCHANGED <<db, cache>>

\* record_hashes_verified: one file after the other, if it can be read.
RecordHashes ==
    /\ SessionSteps("hash")
    /\ ses.todo # {}
    /\ LET p == Min(ses.todo)
       IN  /\ ses' = [ses EXCEPT !.todo = @ \ {p}]
           /\ \/ Store([db[ses.scan] EXCEPT !.files[p] = ses.world[p].digest])
              \/ ses.world[p].fails /\ UNCHANGED db
    /\ RevokedAndCommitted("scan")

Publish(mode) ==
    /\ SessionSteps("hash")
    /\ ses.todo = {}
    /\ LET scan == db[ses.scan]
           parts == IF mode = "Derived" THEN DerivedParts(scan)
                    ELSE {x \in VerifiedParts(scan, ses.world) : Cardinality(x.members) >= 2}
       IN  Store(PublishResults(scan, parts, mode))
    /\ ses' = [ses EXCEPT !.pc = "status"]
    /\ RevokedAndCommitted("scan")

\* set_status; the session's own look at the result follows.
SetStatus ==
    /\ SessionSteps("status")
    /\ Store([db[ses.scan] EXCEPT !.status = "Complete"])
    /\ ses' = [ses EXCEPT !.pc = "view"]
    /\ Committed("scan")

ViewOwnResult ==
    /\ ses.pc = "view"
    /\ IF db[ses.scan] = None THEN UNCHANGED cache ELSE Remember("scan", ses.scan)
    /\ ses' = NoSession
    /\ UNCHANGED <<db, view, plan, lease, csv, left>>

\* The scan was purged under the session, or it waited too long for a lease: an
\* error of the next statement ends it.
SessionFails ==
    /\ ses.pc # "idle"
    /\ db[ses.scan] = None \/ ~Writable
    /\ ses' = NoSession
    /\ UNCHANGED <<db, view, cache, plan, lease, csv, left>>

SessionCrashes ==
    /\ ses.pc # "idle"
    /\ Spend("crashes")
    /\ ses' = NoSession
    /\ UNCHANGED <<db, view, cache, plan, lease, csv>>

-----------------------------------------------------------------------------
(* Other writers                                                           *)

TrashScan(s) ==
    /\ db[s] # None /\ ~db[s].trashed
    /\ ses.pc = "idle"
    /\ Writable
    /\ Spend("orders")
    /\ db' = [db EXCEPT ![s].trashed = TRUE]
    /\ Committed("other")
    /\ UNCHANGED <<ses, view, plan, lease, csv>>

PurgeScan(s) ==
    /\ db[s] # None /\ db[s].trashed
    /\ Writable
    /\ Spend("orders")
    /\ db' = [db EXCEPT ![s] = None]
    /\ Committed("other")
    /\ UNCHANGED <<ses, view, plan, lease, csv>>

Without(f, p) == [q \in DOMAIN f \ {p} |-> f[q]]
Putting(f, p, v) == [q \in DOMAIN f \cup {p} |-> IF q = p THEN v ELSE f[q]]

\* Somebody edits the database with another program: a digest, a row of the
\* manifest, a member or a count.
Damaged(scan) ==
    {[scan EXCEPT !.files[p] = d] : p \in DOMAIN scan.files, d \in Digests \cup {None}}
    \cup {[scan EXCEPT !.files = Without(@, p)] : p \in DOMAIN scan.files}
    \cup {[scan EXCEPT !.members = Without(@, p)] : p \in DOMAIN scan.members}
    \cup {[scan EXCEPT !.members = Putting(@, p, r)] : p \in DOMAIN scan.files, r \in Ranks(scan)}
    \cup {[scan EXCEPT !.groups[r].count = @ - 1] : r \in Ranks(scan)}

Damage(s) ==
    /\ db[s] # None
    /\ db[s].mode # "Unknown"
    /\ Writable
    /\ Spend("damages")
    /\ \E scan \in Damaged(db[s]) : db' = [db EXCEPT ![s] = [scan EXCEPT !.edited = TRUE]]
    /\ Committed("other")
    /\ UNCHANGED <<ses, view, plan, lease, csv>>

-----------------------------------------------------------------------------
(* The browsing actor                                                      *)

\* Open: the interface asks for completed scans only.
OpenScan(s) ==
    /\ view.pc \in {"closed", "open"}
    /\ plan.pc = "none"
    /\ db[s] # None
    /\ Completed(db[s]) /\ ~db[s].trashed
    /\ Spend("opens")
    /\ view' = [pc |-> "prepare", scan |-> s]
    /\ UNCHANGED <<db, ses, cache, plan, lease, csv>>

\* prepare_legacy_for_viewing: a publication is judged as every reader does.
Prepare ==
    /\ view.pc = "prepare"
    /\ IF db[view.scan] = None THEN view' = NoView /\ UNCHANGED cache
       ELSE /\ Remember("actor", view.scan)
            /\ view' = IF db[view.scan].mode = "Unknown" THEN [view EXCEPT !.pc = "legacy"]
                       ELSE IF Integrity("actor", view.scan) = Sound({}) THEN [view EXCEPT !.pc = "open"]
                       ELSE NoView
    /\ UNCHANGED <<db, ses, plan, lease, csv, left>>

\* Mutated BrowseSummaries: no summaries means that none were made.
SummariesIfEmpty(scan) ==
    IF scan.prepared \/ scan.groups # <<>>
    THEN [scan EXCEPT !.prepared = TRUE]
    ELSE [scan EXCEPT !.prepared = TRUE, !.groups = Summaries(DerivedParts(scan)), !.members = Nothing]

\* prepare_browse_summaries: a scan without a publication gets summaries, unless it
\* has some or is known to have found none.
BrowseSummaries(scan) ==
    IF scan.prepared \/ scan.groups # <<>> \/ scan.none
    THEN [scan EXCEPT !.prepared = TRUE]
    ELSE [scan EXCEPT !.prepared = TRUE, !.groups = Summaries(DerivedParts(scan)), !.members = Nothing]

\* The look at the scan and the transaction that writes are one step.  A completed
\* scan is not resumed, so what lies between them can only be a purge, after which
\* the write fails, or a purge, a new scan under the same id and its publication,
\* all within one call of the actor, which materialize_browse_summaries would
\* write over: that is left out.
PrepareLegacy ==
    /\ view.pc = "legacy"
    /\ db' = IF db[view.scan] = None THEN db ELSE [db EXCEPT ![view.scan] = BrowseSummaries(@)]
    /\ view' = IF db[view.scan] = None THEN NoView ELSE [view EXCEPT !.pc = "open"]
    /\ IF db' = db THEN UNCHANGED cache ELSE RevokedAndCommitted("actor")
    /\ UNCHANGED <<ses, plan, lease, csv, left>>

\* save_marks_settled and clear_marks_settled.
SetMark(p) ==
    /\ view.pc = "open"
    /\ plan.pc = "none"
    /\ db[view.scan] # None
    /\ p \in DOMAIN db[view.scan].files
    /\ Writable
    /\ Spend("marks")
    /\ db' = [db EXCEPT ![view.scan].marks = @ \cup {p}]
    /\ Committed("actor")
    /\ UNCHANGED <<ses, view, plan, lease, csv>>

ClearMarks ==
    /\ view.pc = "open"
    /\ plan.pc = "none"
    /\ db[view.scan] # None
    /\ db[view.scan].marks # {}
    /\ Writable
    /\ db' = [db EXCEPT ![view.scan].marks = {}]
    /\ Committed("actor")
    /\ UNCHANGED <<ses, view, plan, lease, csv, left>>

\* group_of_path, for a rank that may be answered for.
GroupsOf(scan, p) ==
    {r \in Ranks(scan) : p \in DOMAIN scan.files /\ p \in Members(scan, r)}

\* Mutated RequireConsistent: a rank with a wrong count is answered for.
RequireNothing(verdict, rank) == TRUE

RequireConsistent(verdict, rank) == rank \notin verdict.bad

\* witness_of: the digest and the members of each rank, read in one snapshot.
WitnessOf(scan, ranks) ==
    {[rank |-> r, digest |-> scan.groups[r].digest, members |-> Members(scan, r)] : r \in ranks}

\* durable_marks: there are some, and each has its row with a digest.
DurableMarks(scan) ==
    scan.marks # {} /\ \A p \in scan.marks : p \in DOMAIN scan.files /\ scan.files[p] # None

\* build_action_plan: every mark must have its one group, or nothing is planned.
BuildPlan ==
    /\ view.pc = "open"
    /\ plan.pc = "none"
    /\ db[view.scan] # None
    /\ Spend("plans")
    /\ LET scan == db[view.scan]
           verdict == Integrity("actor", view.scan)
           ranks == UNION {GroupsOf(scan, p) : p \in scan.marks}
       IN  /\ Remember("actor", view.scan)
           /\ plan' = IF /\ scan.mode # "Unknown"
                         /\ verdict.sound
                         /\ DurableMarks(scan)
                         /\ \A p \in scan.marks : Cardinality(GroupsOf(scan, p)) = 1
                         /\ \A r \in ranks : RequireConsistent(verdict, r)
                      THEN [pc |-> "shown", scan |-> view.scan, gen |-> scan.gen,
                            groups |-> WitnessOf(scan, ranks)]
                      ELSE NoPlan
    /\ UNCHANGED <<db, ses, view, lease, csv>>

-----------------------------------------------------------------------------
(* The lease                                                               *)

DropPlan ==
    /\ plan.pc = "shown" /\ lease = "none"
    /\ plan' = NoPlan
    /\ UNCHANGED <<db, ses, view, cache, lease, csv, left>>

LeaseBegin ==
    /\ plan.pc = "shown" /\ lease = "none"
    /\ lease' = "begun"
    /\ UNCHANGED <<db, ses, view, cache, plan, csv, left>>

\* Somebody is writing at this moment: the lease does not wait.
LeaseBusy ==
    /\ plan.pc = "shown" /\ lease = "none"
    /\ ses.pc \notin {"idle", "view"}
    /\ plan' = NoPlan
    /\ UNCHANGED <<db, ses, view, cache, lease, csv, left>>

\* check_witnessed_rank, on what is stored for the rank now.
CheckWitnessedRank(scan, w) ==
    /\ w.rank \in Ranks(scan)
    /\ scan.groups[w.rank].digest = w.digest
    /\ scan.groups[w.rank].count = Cardinality(Members(scan, w.rank))
    /\ scan.groups[w.rank].count = Cardinality(w.members)
    /\ Members(scan, w.rank) \subseteq w.members
    /\ w.members \subseteq Members(scan, w.rank)

\* Mutated MemberDigestOk: the digest of a member's row is not looked at again.
MemberKnown(scan, w) == w.members \subseteq DOMAIN scan.files

\* has_manifest and digest_state of the members of an Explicit group.
MemberDigestOk(scan, w) ==
    \A p \in w.members : p \in DOMAIN scan.files /\ scan.files[p] = w.digest

\* stream_witnessed_ranks: every witnessed rank, by the rows that are there now.
ValidateExplicitWitness(scan, witness) ==
    \A w \in witness.groups : CheckWitnessedRank(scan, w) /\ MemberDigestOk(scan, w)

ValidateDerivedWitness(scan, witness) ==
    (\A w \in witness.groups : CheckWitnessedRank(scan, w)) /\ DerivedShape(scan)

\* validate_lease_witness, in the transaction the lease has just begun.
ValidateLeaseWitness(scan, witness) ==
    /\ scan # None
    /\ scan.mode # "Unknown"
    /\ scan.gen = witness.gen
    /\ scan.mode = "Explicit" => ValidateExplicitWitness(scan, witness)
    /\ scan.mode = "Derived" => ValidateDerivedWitness(scan, witness)

LeaseValidate ==
    /\ lease = "begun"
    /\ IF ValidateLeaseWitness(db[plan.scan], plan)
       THEN lease' = "held" /\ UNCHANGED plan
       ELSE lease' = "none" /\ plan' = NoPlan
    /\ UNCHANGED <<db, ses, view, cache, csv, left>>

\* The batch is over: the transaction is rolled back, it wrote nothing.
LeaseRelease ==
    /\ lease = "held"
    /\ lease' = "none"
    /\ plan' = [plan EXCEPT !.pc = "settle"]
    /\ UNCHANGED <<db, ses, view, cache, csv, left>>

\* reconcile_marks_after_batch: the marks of the groups the batch changed.
Settle ==
    /\ plan.pc = "settle"
    /\ Writable
    /\ \E changed \in SUBSET plan.groups :
        db' = IF db[plan.scan] = None THEN db
              ELSE [db EXCEPT ![plan.scan].marks = @ \ UNION {w.members : w \in changed}]
    /\ plan' = NoPlan
    /\ Committed("actor")
    /\ UNCHANGED <<ses, view, lease, csv, left>>

\* The operator's process dies; the operating system gives its lock back.
OperatorCrashes ==
    /\ view.pc # "closed"
    /\ Spend("crashes")
    /\ lease' = "none"
    /\ plan' = NoPlan
    /\ view' = NoView
    /\ cache' = [cache EXCEPT !["actor"] = None]
    /\ UNCHANGED <<db, ses, csv>>

-----------------------------------------------------------------------------
(* The export, in a process of its own that takes no lock                  *)

Active == {s \in Ids : db[s] # None /\ ~db[s].trashed}

Newest(s) == s \in Active /\ \A t \in Active : t <= s

SelectExport ==
    /\ csv.now.pc = "idle"
    /\ Spend("exports")
    /\ \E s \in Ids :
        Newest(s) /\ csv' = [csv EXCEPT !.now = [NoExport EXCEPT !.pc = "chosen", !.scan = s]]
    /\ UNCHANGED <<db, ses, view, cache, plan, lease>>

\* Mutated ExportAllowed: a publication is enough.
PublishedIsEnough(s) ==
    /\ Newest(s)
    /\ db[s].mode # "Unknown"
    /\ ValidateAuthority(db[s]) = Sound({})

\* open_trusted_export, for_each_export_group: asked again in the snapshot.
ExportAllowed(s) ==
    /\ Newest(s)
    /\ db[s].mode # "Unknown"
    /\ Completed(db[s])
    /\ ValidateAuthority(db[s]) = Sound({})

OpenExport ==
    /\ csv.now.pc = "chosen"
    /\ LET s == csv.now.scan
       IN  csv' = [csv EXCEPT !.now =
                IF ExportAllowed(s)
                THEN [pc |-> "open", scan |-> s, born |-> db[s].born,
                      groups |-> {Members(db[s], r) : r \in Ranks(db[s])}]
                ELSE NoExport]
    /\ UNCHANGED <<db, ses, view, cache, plan, lease, left>>

\* TempArtifact: the file is written beside its name and renamed over it.
PublishExport ==
    /\ csv.now.pc = "open"
    /\ csv' = [now |-> NoExport, made |-> csv.now]
    /\ UNCHANGED <<db, ses, view, cache, plan, lease, left>>

-----------------------------------------------------------------------------
Session ==
    \/ ClearForWalk \/ RecordFiles \/ ReadManifest \/ RecordHashes
    \/ \E m \in {"Derived", "Explicit"} : Publish(m)
    \/ SetStatus \/ ViewOwnResult \/ SessionFails

Batch == LeaseValidate \/ LeaseRelease \/ Settle

Export == OpenExport \/ PublishExport

Operator ==
    \/ StartScan
    \/ \E s \in Ids : ResumeScan(s) \/ TrashScan(s) \/ PurgeScan(s) \/ OpenScan(s)
    \/ \E p \in Paths : SetMark(p)
    \/ ClearMarks \/ BuildPlan \/ DropPlan \/ LeaseBegin \/ LeaseBusy
    \/ SelectExport

World == SessionCrashes \/ OperatorCrashes \/ \E s \in Ids : Damage(s)

Actor == Prepare \/ PrepareLegacy

\* Nobody has to ask for anything.
Rest == ses.pc = "idle" /\ view.pc \in {"closed", "open"} /\ plan.pc = "none" /\ UNCHANGED vars

Next == Session \/ Actor \/ Batch \/ Export \/ Operator \/ World \/ Rest

Spec == Init /\ [][Next]_vars

-----------------------------------------------------------------------------
(* Properties                                                              *)

TypeOK ==
    /\ \A s \in Ids : db[s] # None =>
        /\ Scan(db[s])
        /\ db[s].gen = 0 <=> db[s].mode = "Unknown"
        /\ DOMAIN db[s].files \subseteq Paths
    /\ lease \in {"none", "begun", "held"}
    /\ lease # "none" => plan.pc = "shown"

\* While the batch runs, every group it was planned on is what the plan says, to
\* the file and to the digest: whatever was republished, walked again under the
\* same generation, purged and begun under the same id, or edited from outside
\* between the plan and the lease, and whoever wants to write now.
LeasedIsPlanned ==
    lease = "held" =>
        /\ db[plan.scan] # None
        /\ \A w \in plan.groups :
            /\ w.rank \in Ranks(db[plan.scan])
            /\ Members(db[plan.scan], w.rank) = w.members
            /\ \A p \in w.members :
                    p \in DOMAIN db[plan.scan].files /\ db[plan.scan].files[p] = w.digest
        /\ \A v, w \in plan.groups : v # w => v.members \cap w.members = {}

\* A verdict a connection would use again is the one it would come to now: what it
\* wrote itself and what others wrote has made it forget.
VerdictIsFresh ==
    \A c \in Conns, s \in Ids :
        db[s] # None /\ CachedIntegrity(c, s) => cache[c].verdict = ValidateAuthority(db[s])

\* The two validators agree: a plan the builder lets through is one the lease takes,
\* as long as nobody writes in between, so a refusal always means a change.
PlanIsLeasable ==
    [][plan.pc = "none" /\ plan'.pc = "shown" => ValidateLeaseWitness(db[plan'.scan], plan')]_vars

\* Looking at the scan of an older version never replaces its result, which --verify
\* may have thinned out, by one made from the digests.
LegacyResultKept ==
    \A s \in Ids : db[s] # None /\ db[s].was # None => db[s].groups = db[s].was

\* What an export has written stays the result of its scan: it never holds one that
\* is still to be published again.  (An edit from outside is not the program's.)
ExportStands ==
    LET s == csv.made.scan
    IN  s # None /\ db[s] # None /\ db[s].born = csv.made.born /\ ~db[s].edited
        => db[s].mode # "Unknown" /\ csv.made.groups = {Members(db[s], r) : r \in Ranks(db[s])}

\* A result that somebody saw stays: looking at it does not replace it, an export outlives it.
ResultsStand == LegacyResultKept /\ ExportStands

=============================================================================
