---------------------------- MODULE ScanPipeline ----------------------------
(***************************************************************************)
(* A scan and its checkpoint (src/pipeline/mod.rs, src/state/store.rs): a  *)
(* session walks the roots, writes the manifest, the omission ledger and   *)
(* the digests in transactions of their own, publishes, sets the status    *)
(* and trims the history.  It may be stopped or killed after any of them   *)
(* and resumed by a later session, while the disk changes under it.        *)
(*                                                                         *)
(* Paths and objects are numbers, in the order of their names and inodes.  *)
(* A file has one size, so that two objects are enough to make candidates. *)
(* Every change of an object gives it a stamp of its own (mtime and ctime), *)
(* and a root has another device number after each mount.                  *)
(***************************************************************************)
EXTENDS Integers, FiniteSets

CONSTANTS
    Paths, Objects, Contents, Roots,
    RootOf,      \* the root each path lies under
    Disks,       \* the initial disks: [names: [Paths -> Objects], denied: SUBSET Paths]
    MaxScans,    \* ids are 1..MaxScans
    MaxStamp,    \* the number of changes of the disk, and of objects at the start
    WalkBatch,   \* rows in one transaction of the manifest (WALK_BATCH)
    HashChunk,   \* files in one batch of reads (HASH_CHUNK)
    Keep,        \* completed scans the history keeps
    Budgets,     \* how many sessions, faults, stops, crashes and operator's orders
    None

Ids == 1..MaxScans

\* What a reader may be shown of a scan.
Publication ==
    [gen : Nat, mode : {"Derived", "Explicit"}, digests : SUBSET Contents, members : SUBSET SUBSET Paths]

Acts == {"starts", "faults", "stops", "crashes", "orders"}

ASSUME PipelineAssumption ==
    /\ Paths \subseteq Nat \ {0} /\ RootOf \in [Paths -> Roots]
    /\ IsFiniteSet(Objects) /\ Objects = 1..Cardinality(Objects)
    /\ None \notin Ids /\ None \notin Objects /\ None \notin Contents
    /\ None \notin Publication
    /\ Disks \subseteq [names : [Paths -> Objects], denied : SUBSET Paths, keyable : BOOLEAN,
                        content : [Objects -> Contents]]
    /\ {MaxScans, MaxStamp, WalkBatch, HashChunk} \subseteq Nat \ {0}
    /\ Cardinality(Objects) <= MaxStamp
    /\ Keep \in Nat
    /\ Budgets \subseteq [Acts -> Nat]

VARIABLES
    disk,     \* names, stamps, contents, mounts: what the system calls see
    written,  \* the content each stamp stands for
    db,       \* the checkpoint, a scan for each id in use
    seen,     \* what the last finished walk of each scan met
    ses,      \* the session running in this process
    jobs,     \* the scans a background purge was started for
    left      \* what remains of the budget

vars == <<disk, written, db, seen, ses, jobs, left>>

Spend(what) == left[what] > 0 /\ left' = [left EXCEPT ![what] = @ - 1]

-----------------------------------------------------------------------------
(* The disk                                                                *)

Visible(p) == disk.mounted[RootOf[p]] /\ disk.names[p] # None

\* FileIdentity: device, inode, times.
Identity(p) ==
    [obj |-> disk.names[p], dev |-> disk.dev[RootOf[p]], stamp |-> disk.stamp[disk.names[p]]]

Key(row) == [obj |-> row.obj, dev |-> row.dev, stamp |-> row.stamp]

\* The file at a path is written.
Edit(p) ==
    /\ Spend("faults")
    /\ Visible(p)
    /\ disk.clock < MaxStamp
    /\ \E c \in Contents :
        /\ disk' = [disk EXCEPT !.clock = @ + 1, !.stamp[disk.names[p]] = disk.clock + 1,
                                !.content[disk.names[p]] = c]
        /\ written' = [written EXCEPT ![disk.clock + 1] = c]
    /\ UNCHANGED <<db, seen, ses, jobs>>

\* One name of a file goes, which changes the times of the others.
Unlink(p) ==
    /\ Spend("faults")
    /\ Visible(p)
    /\ disk.clock < MaxStamp
    /\ disk' = [disk EXCEPT !.clock = @ + 1, !.stamp[disk.names[p]] = disk.clock + 1,
                            !.names[p] = None]
    /\ written' = [written EXCEPT ![disk.clock + 1] = disk.content[disk.names[p]]]
    /\ UNCHANGED <<db, seen, ses, jobs>>

\* A dataset is unmounted, unless a file of it is open, or mounted again.
Busy(r) ==
    \E p \in DOMAIN ses.reads : RootOf[p] = r /\ ses.reads[p].phase \in {"open", "read"}

Mount(r) ==
    /\ Spend("faults")
    /\ ~Busy(r)
    /\ disk' = [disk EXCEPT !.mounted[r] = ~@, !.dev[r] = IF disk.mounted[r] THEN @ ELSE @ + 1]
    /\ UNCHANGED <<written, db, seen, ses, jobs>>

-----------------------------------------------------------------------------
(* The checkpoint                                                          *)

Completed(s) == db[s] # None /\ db[s].status \in {"Complete", "CompleteWithWarnings"}

NewScan ==
    [status |-> "Walking", trashed |-> FALSE, rows |-> [p \in {} |-> None], authority |-> FALSE,
     omitted |-> {}, dirs |-> {}, pub |-> None]

\* The id SQLite gives a new row: one more than the largest in use.
Used == {s \in Ids : db[s] # None}

NextId(id) == id - 1 \in {0} \cup Used /\ \A s \in Used : s < id

\* Mutated ClearFiles: the ledger outlives its manifest.
ClearManifest(scan) ==
    [NewScan EXCEPT !.status = scan.status, !.trashed = scan.trashed,
                    !.authority = scan.authority, !.omitted = scan.omitted]

\* clear_files: the manifest, the ledger and everything published about them.
ClearFiles(scan) == [NewScan EXCEPT !.status = scan.status, !.trashed = scan.trashed]

\* ledger_authoritative: every root has a generation.
LedgerAuthoritative(s) == db[s].authority

RecordFiles(scan, rows) ==
    [scan EXCEPT !.rows = [p \in DOMAIN @ \cup DOMAIN rows |->
        IF p \in DOMAIN rows THEN rows[p] ELSE @[p]]]

\* commit_omissions; clear_files has emptied the ledger before.
CommitOmissions(scan, omitted) == [scan EXCEPT !.authority = TRUE, !.omitted = omitted]

Digests(scan) == {scan.rows[p].hash : p \in DOMAIN scan.rows} \ {None}

PathsWith(scan, digest) == {p \in DOMAIN scan.rows : scan.rows[p].hash = digest}

ObjectsOf(scan, paths) == {Key(scan.rows[p]) : p \in paths}

\* eligible_sizes_sql: there is one size, so the count is of all objects.
Eligible(scan) == Cardinality(ObjectsOf(scan, DOMAIN scan.rows)) >= 2

Unhashed(scan) == {p \in DOMAIN scan.rows : scan.rows[p].hash = None}

\* candidate_objects: the first unhashed name of each object.
CandidateObjects(scan) ==
    IF Eligible(scan)
    THEN {p \in Unhashed(scan) :
            \A q \in Unhashed(scan) : Key(scan.rows[p]) = Key(scan.rows[q]) => p <= q}
    ELSE {}

\* CROSS_SCAN_SOURCE: the same path with the same times in any other scan, in the
\* trash or not; the device and the inode are not asked for.
PastDigests(s, p) ==
    {db[t].rows[p].hash : t \in {u \in Ids \ {s} :
        /\ db[u] # None
        /\ p \in DOMAIN db[u].rows
        /\ db[u].rows[p].stamp = db[s].rows[p].stamp
        /\ db[u].rows[p].hash # None}}

\* conflicting_inheritance_objects: what the scan trusts and what it is offered.
Offered(s, key) ==
    UNION {IF db[s].rows[p].hash # None THEN {db[s].rows[p].hash} ELSE PastDigests(s, p) :
            p \in {q \in DOMAIN db[s].rows : Key(db[s].rows[q]) = key}}

ConflictingInheritance(s) ==
    \E key \in ObjectsOf(db[s], DOMAIN db[s].rows) : Cardinality(Offered(s, key)) > 1

InheritHashes(s) ==
    [db[s] EXCEPT !.rows = [p \in DOMAIN @ |->
        IF @[p].hash = None /\ PastDigests(s, p) # {}
        THEN [@[p] EXCEPT !.hash = CHOOSE d \in PastDigests(s, p) : TRUE] ELSE @[p]]]

\* TRUSTED_SOURCE: a digest of the same object in the same scan.
ObjectDigests(scan, key) ==
    {scan.rows[p].hash : p \in {q \in DOMAIN scan.rows : Key(scan.rows[q]) = key}} \ {None}

ConflictingDigests(scan) ==
    \E key \in ObjectsOf(scan, DOMAIN scan.rows) : Cardinality(ObjectDigests(scan, key)) > 1

\* propagate_sql, for the objects whose keys are given.
Propagated(scan, keys) ==
    [scan EXCEPT !.rows = [p \in DOMAIN @ |->
        IF @[p].hash = None /\ Key(@[p]) \in keys /\ ObjectDigests(scan, Key(@[p])) # {}
        THEN [@[p] EXCEPT !.hash = CHOOSE d \in ObjectDigests(scan, Key(scan.rows[p])) : TRUE] ELSE @[p]]]

\* record_hashes_verified: only onto a row without a digest that still names the
\* object that was read, and its other names in the same transaction.
RecordHashesVerified(scan, reads) ==
    LET committed == {p \in DOMAIN reads \cap Unhashed(scan) :
                        reads[p].digest # None /\ Key(scan.rows[p]) = reads[p].before}
        stored == [scan EXCEPT !.rows = [p \in DOMAIN @ |->
                    IF p \in committed THEN [@[p] EXCEPT !.hash = reads[p].digest] ELSE @[p]]]
    IN  Propagated(stored, ObjectsOf(scan, committed))

\* record_dir_groups: INSERT OR REPLACE, nothing is deleted.  A root stands for
\* its directory; one with an omission or a missing digest has no signature.
DirRows(scan) ==
    {<<r, [p \in {q \in DOMAIN scan.rows : RootOf[q] = r} |-> scan.rows[p].hash]>> :
        r \in {x \in Roots :
            /\ \E p \in DOMAIN scan.rows : RootOf[p] = x
            /\ \A p \in DOMAIN scan.rows : RootOf[p] = x => scan.rows[p].hash # None
            /\ \A p \in scan.omitted : RootOf[p] # x}}

RecordDirGroups(scan) ==
    [scan EXCEPT !.dirs = {d \in @ : \A e \in DirRows(scan) : e[1] # d[1]} \cup DirRows(scan)]

\* group_rows_sql: the digests two objects share.
GroupDigests(scan) ==
    {d \in Digests(scan) : Cardinality(ObjectsOf(scan, PathsWith(scan, d))) >= 2}

\* verify_groups: every group split by what its files hold now; publish_results
\* keeps the parts that are two objects.
VerifiedGroups(scan) ==
    {g \in UNION {{{p \in PathsWith(scan, d) : disk.content[disk.names[p]] = c} : c \in Contents} :
                    d \in GroupDigests(scan)} :
        Cardinality(ObjectsOf(scan, g)) >= 2}

VerifyFails(scan) == \E d \in GroupDigests(scan) : \E p \in PathsWith(scan, d) : ~Visible(p)

\* Mutated PublishResults: a scan already published is left as it is.
PublishOnce(scan, verify) ==
    IF scan.pub # None THEN scan ELSE
    [scan EXCEPT !.pub =
        [gen |-> 1,
         mode |-> IF verify THEN "Explicit" ELSE "Derived",
         digests |-> IF verify THEN {} ELSE GroupDigests(scan),
         members |-> IF verify THEN VerifiedGroups(scan) ELSE {}]]

\* publish_results: everything published before is replaced; the generation goes
\* on from the one it finds and starts at 1 without one.
PublishResults(scan, verify) ==
    [scan EXCEPT !.pub =
        [gen |-> IF scan.pub = None THEN 1 ELSE scan.pub.gen + 1,
         mode |-> IF verify THEN "Explicit" ELSE "Derived",
         digests |-> IF verify THEN {} ELSE GroupDigests(scan),
         members |-> IF verify THEN VerifiedGroups(scan) ELSE {}]]

\* What a reader is shown: member rows, or the manifest by digest.
ShownGroups(scan) ==
    scan.pub.members \cup {PathsWith(scan, d) : d \in scan.pub.digests}

\* apply_retention: has_files_under, has_any_file.
HasFilesUnder(s, r) == \E p \in DOMAIN db[s].rows : RootOf[p] = r

\* Mutated HeldBy: a root that turned up empty holds nothing.
HeldByNone(s, current) == FALSE

HeldBy(s, current) == \E r \in Roots : ~HasFilesUnder(current, r) /\ HasFilesUnder(s, r)

ToTrash(current) ==
    LET listed == {s \in Ids : db[s] # None /\ ~db[s].trashed /\ s # current}
        counted == {s \in listed : Completed(s) /\ DOMAIN db[s].rows # {}}
        \* Newest first; the current scan takes its place where it comes.
        Place(s) == Cardinality({t \in counted \cup {current} : t >= s})
    IN  {s \in listed :
            IF Completed(s)
            THEN DOMAIN db[s].rows = {} \/ (Place(s) > Keep /\ ~HeldBy(s, current))
            ELSE ~HeldBy(s, current)}

-----------------------------------------------------------------------------
Idle ==
    [pc |-> "idle", scan |-> None, cancel |-> FALSE, verify |-> FALSE, resumed |-> FALSE,
     at |-> 0, found |-> [p \in {} |-> None], omitted |-> {}, observed |-> FALSE,
     todo |-> {}, reads |-> [p \in {} |-> None], failures |-> {}, trash |-> {}]

Init ==
    /\ \E d \in Disks :
        disk = [names |-> d.names, denied |-> d.denied, keyable |-> d.keyable,
                stamp |-> [o \in Objects |-> o], content |-> d.content,
                dev |-> [r \in Roots |-> 1], mounted |-> [r \in Roots |-> TRUE],
                clock |-> Cardinality(Objects)]
    /\ written = [t \in 1..MaxStamp |-> IF t \in Objects THEN disk.content[t] ELSE None]
    /\ db = [s \in Ids |-> None]
    /\ seen = [s \in Ids |-> [found |-> {}, omitted |-> {}]]
    /\ ses = Idle
    /\ jobs = {}
    /\ left \in Budgets

\* The session ends here, with whatever the checkpoint holds.
End == ses' = Idle

Stopping == ses.cancel

Store(scan) == db' = [db EXCEPT ![ses.scan] = scan]

Continue(pc) == ses' = [ses EXCEPT !.pc = pc]

-----------------------------------------------------------------------------
(* The operator                                                            *)

\* begin_scan: the row, its statistics and its roots in one transaction.
StartScan(verify) ==
    /\ ses.pc = "idle"
    /\ Spend("starts")
    /\ \E id \in Ids :
        /\ NextId(id)
        /\ db' = [db EXCEPT ![id] = NewScan]
        /\ ses' = [Idle EXCEPT !.pc = "walk", !.scan = id, !.verify = verify]
    /\ UNCHANGED <<disk, written, seen, jobs>>

\* Mutated NeedWalk: the status alone decides.
NeedWalkByStatus(s) == db[s].status = "Walking"

\* Mutated NeedWalk: every resumption walks again.
NeedWalkAlways(s) == TRUE

NeedWalk(s) ==
    \/ db[s].status = "Walking"
    \/ db[s].status = "Hashing" /\ ~LedgerAuthoritative(s)

\* run_scan with a resume id: a completed scan is only prepared for viewing.  The
\* walk is done again when its manifest has no ledger.
ResumeScan(s, verify) ==
    /\ ses.pc = "idle"
    /\ db[s] # None
    /\ ~db[s].trashed
    /\ Spend("starts")
    /\ ses' = [Idle EXCEPT !.scan = s, !.verify = verify, !.resumed = TRUE,
            !.pc = IF Completed(s) THEN "idle" ELSE IF NeedWalk(s) THEN "clear" ELSE "inherit"]
    /\ UNCHANGED <<disk, written, db, seen, jobs>>

Stop ==
    /\ ses.pc # "idle"
    /\ ~ses.cancel
    /\ Spend("stops")
    /\ ses' = [ses EXCEPT !.cancel = TRUE]
    /\ UNCHANGED <<disk, written, db, seen, jobs>>

\* The process is killed: SQLite keeps what was committed.
Crash ==
    /\ ses.pc # "idle"
    /\ Spend("crashes")
    /\ End
    /\ UNCHANGED <<disk, written, db, seen, jobs>>

\* The list of sessions refuses while a scan runs; the trash does not ask.
TrashScan(s) ==
    /\ ses.pc = "idle"
    /\ db[s] # None
    /\ ~db[s].trashed
    /\ Spend("orders")
    /\ db' = [db EXCEPT ![s].trashed = TRUE]
    /\ UNCHANGED <<disk, written, seen, ses, jobs>>

\* Mutated OrderPurge: the purge is started by the place in the list.
OrderPurgeByPlace(s) ==
    /\ db[s] # None
    /\ db[s].trashed
    /\ Spend("orders")
    /\ jobs' = jobs \cup {s - 1}
    /\ UNCHANGED <<disk, written, db, seen, ses>>

RestoreScan(s) ==
    /\ db[s] # None
    /\ db[s].trashed
    /\ Spend("orders")
    /\ db' = [db EXCEPT ![s].trashed = FALSE]
    /\ UNCHANGED <<disk, written, seen, ses, jobs>>

\* execute_purge: a thread of its own deletes the scan, whatever has become of it
\* in the meantime.
OrderPurge(s) ==
    /\ db[s] # None
    /\ db[s].trashed
    /\ s \notin jobs
    /\ Spend("orders")
    /\ jobs' = jobs \cup {s}
    /\ UNCHANGED <<disk, written, db, seen, ses>>

PurgeScan(s) ==
    /\ s \in jobs
    /\ jobs' = jobs \ {s}
    /\ db' = [db EXCEPT ![s] = None]
    /\ UNCHANGED <<disk, written, seen, ses, left>>

-----------------------------------------------------------------------------
(* The walk                                                                *)

ClearForWalk ==
    /\ ses.pc = "clear"
    /\ Store(ClearFiles(db[ses.scan]))
    /\ Continue("walk")
    /\ UNCHANGED <<disk, written, seen, left, jobs>>

\* One entry after another, in the order of their names.
NextPath(p) == p > ses.at /\ \A q \in Paths : q > ses.at => p <= q

NewRow(id) == [hash |-> None, obj |-> id.obj, dev |-> id.dev, stamp |-> id.stamp]

WalkEntry ==
    /\ ses.pc = "walk"
    /\ \E p \in Paths :
        /\ NextPath(p)
        /\ ses' = IF Stopping THEN Idle
                  ELSE [ses EXCEPT !.at = p,
                    !.omitted = IF Visible(p) /\ p \in disk.denied THEN @ \cup {p} ELSE @,
                    !.found = IF Visible(p) /\ p \notin disk.denied
                              THEN [q \in DOMAIN @ \cup {p} |-> IF q = p THEN NewRow(Identity(p)) ELSE @[q]]
                              ELSE @]
    /\ UNCHANGED <<disk, written, db, seen, left, jobs>>

WalkEnds ==
    /\ ses.pc = "walk"
    /\ \A p \in Paths : p <= ses.at
    /\ IF Stopping THEN End /\ UNCHANGED seen
       ELSE /\ Continue("persist")
            /\ seen' = [seen EXCEPT ![ses.scan] = [found |-> DOMAIN ses.found, omitted |-> ses.omitted]]
    /\ UNCHANGED <<disk, written, db, left, jobs>>

Unwritten == DOMAIN ses.found \ DOMAIN db[ses.scan].rows

PersistBatch ==
    /\ ses.pc = "persist"
    /\ Unwritten # {}
    /\ LET batch == {p \in Unwritten : Cardinality({q \in Unwritten : q < p}) < WalkBatch}
       IN  Store(RecordFiles(db[ses.scan], [p \in batch |-> ses.found[p]]))
    /\ ses' = IF Stopping THEN Idle ELSE ses
    /\ UNCHANGED <<disk, written, seen, left, jobs>>

\* publish_walk_omissions: roots without keys have no ledger, only a count the
\* session keeps.
PublishOmissions ==
    /\ ses.pc = "persist"
    /\ Unwritten = {}
    /\ IF Stopping THEN End /\ UNCHANGED db
       ELSE /\ ses' = [ses EXCEPT !.pc = "status", !.observed = ~disk.keyable]
            /\ IF disk.keyable THEN Store(CommitOmissions(db[ses.scan], ses.omitted))
               ELSE UNCHANGED db
    /\ UNCHANGED <<disk, written, seen, left, jobs>>

SetHashing ==
    /\ ses.pc = "status"
    /\ Store([db[ses.scan] EXCEPT !.status = "Hashing"])
    /\ Continue("inherit")
    /\ UNCHANGED <<disk, written, seen, left, jobs>>

-----------------------------------------------------------------------------
(* The digests                                                             *)

Inherit ==
    /\ ses.pc = "inherit"
    /\ IF ConflictingInheritance(ses.scan) THEN End /\ UNCHANGED db
       ELSE Store(InheritHashes(ses.scan)) /\ Continue("propagate")
    /\ UNCHANGED <<disk, written, seen, left, jobs>>

Propagate ==
    /\ ses.pc = "propagate"
    /\ IF ConflictingDigests(db[ses.scan]) THEN End /\ UNCHANGED db
       ELSE LET scan == Propagated(db[ses.scan], ObjectsOf(db[ses.scan], DOMAIN db[ses.scan].rows))
            IN  /\ Store(scan)
                /\ ses' = [ses EXCEPT !.pc = "hash", !.todo = CandidateObjects(scan)]
    /\ UNCHANGED <<disk, written, seen, left, jobs>>

Row(p) == db[ses.scan].rows[p]

\* Candidates are read in the order of their inodes.
FirstCandidates ==
    LET Sooner(p, q) ==
            \/ Row(p).dev < Row(q).dev
            \/ Row(p).dev = Row(q).dev /\ Row(p).obj < Row(q).obj
            \/ Row(p).dev = Row(q).dev /\ Row(p).obj = Row(q).obj /\ p < q
    IN  {p \in ses.todo : Cardinality({q \in ses.todo : Sooner(q, p)}) < HashChunk}

Closed == [phase |-> "closed", before |-> None, digest |-> None]
Skipped == [phase |-> "done", before |-> None, digest |-> None]

StartBatch ==
    /\ ses.pc = "hash"
    /\ ses.todo # {}
    /\ DOMAIN ses.reads = {}
    /\ IF Stopping THEN End
       ELSE ses' = [ses EXCEPT !.reads = [p \in FirstCandidates |-> Closed]]
    /\ UNCHANGED <<disk, written, db, seen, left, jobs>>

\* hash_file_verified, on one of the pool's threads: open and fstat, read, fstat
\* and lstat again, and the manifest's own identity.  The stop is looked at
\* before each.
OpenFile(p) ==
    /\ p \in DOMAIN ses.reads
    /\ ses.reads[p].phase = "closed"
    /\ ses' = [ses EXCEPT !.reads[p] =
            IF Stopping \/ ~Visible(p) \/ p \in disk.denied THEN Skipped
            ELSE [phase |-> "open", before |-> Identity(p), digest |-> None]]
    /\ UNCHANGED <<disk, written, db, seen, left, jobs>>

ReadFile(p) ==
    /\ p \in DOMAIN ses.reads
    /\ ses.reads[p].phase = "open"
    /\ ses' = [ses EXCEPT !.reads[p] =
            IF Stopping THEN Skipped
            ELSE [@ EXCEPT !.phase = "read", !.digest = disk.content[ses.reads[p].before.obj]]]
    /\ UNCHANGED <<disk, written, db, seen, left, jobs>>

\* A read error of the disk.
ReadFails(p) ==
    /\ p \in DOMAIN ses.reads
    /\ ses.reads[p].phase = "open"
    /\ Spend("faults")
    /\ ses' = [ses EXCEPT !.reads[p] = Skipped]
    /\ UNCHANGED <<disk, written, db, seen, jobs>>

\* Mutated IdentityStable: the descriptor is not looked at again.
NeverChanged(before) == TRUE

IdentityStable(before) == disk.stamp[before.obj] = before.stamp

PathObjectMatches(p, before) == disk.names[p] = before.obj

ManifestMatches(before, row) == before = Key(row)

CheckFile(p) ==
    /\ p \in DOMAIN ses.reads
    /\ ses.reads[p].phase = "read"
    /\ LET before == ses.reads[p].before
       IN  ses' = [ses EXCEPT !.reads[p] =
                IF /\ IdentityStable(before)
                   /\ PathObjectMatches(p, before)
                   /\ ManifestMatches(before, Row(p))
                THEN [@ EXCEPT !.phase = "done"] ELSE Skipped]
    /\ UNCHANGED <<disk, written, db, seen, left, jobs>>

\* Mutated Checkpoint: what could not be read is a candidate again at once.
CheckpointRetries ==
    /\ ses.pc = "hash"
    /\ DOMAIN ses.reads # {}
    /\ \A p \in DOMAIN ses.reads : ses.reads[p].phase = "done"
    /\ Store(RecordHashesVerified(db[ses.scan], ses.reads))
    /\ ses' = IF Stopping THEN Idle
              ELSE [ses EXCEPT !.todo = {p \in @ : p \in DOMAIN ses.reads => ses.reads[p].digest = None},
                               !.reads = [p \in {} |-> None]]
    /\ UNCHANGED <<disk, written, seen, left, jobs>>

Checkpoint ==
    /\ ses.pc = "hash"
    /\ DOMAIN ses.reads # {}
    /\ \A p \in DOMAIN ses.reads : ses.reads[p].phase = "done"
    /\ Store(RecordHashesVerified(db[ses.scan], ses.reads))
    /\ ses' = IF Stopping THEN Idle
              ELSE [ses EXCEPT !.todo = @ \ DOMAIN ses.reads, !.reads = [p \in {} |-> None]]
    /\ UNCHANGED <<disk, written, seen, left, jobs>>

-----------------------------------------------------------------------------
(* Grouping and completion                                                 *)

\* candidate_stats: what is eligible and still has no digest.
BeginGrouping ==
    /\ ses.pc = "hash"
    /\ ses.todo = {}
    /\ IF Stopping THEN End
       ELSE ses' = [ses EXCEPT !.pc = "dirs",
                !.failures = IF Eligible(db[ses.scan]) THEN Unhashed(db[ses.scan]) ELSE {}]
    /\ UNCHANGED <<disk, written, db, seen, left, jobs>>

\* Mutated WriteDirs: the status is set with the directories, before the publication.
WriteDirsAndStatus ==
    /\ ses.pc = "dirs"
    /\ Store([RecordDirGroups(db[ses.scan]) EXCEPT !.status = "Complete"])
    /\ Continue("publish")
    /\ UNCHANGED <<disk, written, seen, left, jobs>>

WriteDirs ==
    /\ ses.pc = "dirs"
    /\ Store(RecordDirGroups(db[ses.scan]))
    /\ Continue("publish")
    /\ UNCHANGED <<disk, written, seen, left, jobs>>

\* verify_and_publish gives up the scan when one file of a group cannot be read.
Publish ==
    /\ ses.pc = "publish"
    /\ IF Stopping \/ (ses.verify /\ VerifyFails(db[ses.scan])) THEN End /\ UNCHANGED db
       ELSE Store(PublishResults(db[ses.scan], ses.verify)) /\ Continue("complete")
    /\ UNCHANGED <<disk, written, seen, left, jobs>>

\* The ledger of this or an earlier session, or the count this one kept; a scan
\* without either is given up as a defect.
HasAccount == LedgerAuthoritative(ses.scan) \/ ses.observed

Warned ==
    \/ ses.failures # {}
    \/ (IF LedgerAuthoritative(ses.scan) THEN db[ses.scan].omitted ELSE ses.omitted) # {}

SetComplete ==
    /\ ses.pc = "complete"
    /\ IF ~HasAccount THEN End /\ UNCHANGED db
       ELSE /\ Store([db[ses.scan] EXCEPT !.status = IF Warned THEN "CompleteWithWarnings" ELSE "Complete"])
            /\ Continue("retain")
    /\ UNCHANGED <<disk, written, seen, left, jobs>>

ListHistory ==
    /\ ses.pc = "retain"
    /\ ses' = [ses EXCEPT !.pc = "trash", !.trash = ToTrash(ses.scan)]
    /\ UNCHANGED <<disk, written, db, seen, left, jobs>>

\* One UPDATE for each, newest first; the session ends after the last.
TrashOld ==
    /\ ses.pc = "trash"
    /\ IF ses.trash = {} THEN End /\ UNCHANGED db
       ELSE \E s \in ses.trash :
                /\ \A t \in ses.trash : t <= s
                /\ db' = IF db[s] = None THEN db ELSE [db EXCEPT ![s].trashed = TRUE]
                /\ ses' = [ses EXCEPT !.trash = @ \ {s}]
    /\ UNCHANGED <<disk, written, seen, left, jobs>>

\* Its scan was purged under it: the next statement that needs it fails.
ScanGone ==
    /\ ses.pc # "idle"
    /\ db[ses.scan] = None
    /\ End
    /\ UNCHANGED <<disk, written, db, seen, jobs, left>>

-----------------------------------------------------------------------------
HasScan == ses.pc # "idle" /\ db[ses.scan] # None

SessionStep ==
    \/ /\ HasScan
       /\ \/ ClearForWalk \/ WalkEntry \/ WalkEnds \/ PersistBatch \/ PublishOmissions \/ SetHashing
          \/ Inherit \/ Propagate \/ StartBatch \/ Checkpoint
          \/ BeginGrouping \/ WriteDirs \/ Publish \/ SetComplete \/ ListHistory \/ TrashOld
    \/ ScanGone

ReaderStep(p) == HasScan /\ (OpenFile(p) \/ ReadFile(p) \/ CheckFile(p))

Operator ==
    \/ \E v \in BOOLEAN : StartScan(v) \/ \E s \in Ids : ResumeScan(s, v)
    \/ Stop
    \/ \E s \in Ids : TrashScan(s) \/ RestoreScan(s) \/ OrderPurge(s)

World ==
    \/ \E p \in Paths : Edit(p) \/ Unlink(p) \/ ReadFails(p)
    \/ \E r \in Roots : Mount(r)
    \/ Crash

\* Nobody has to start a scan.
Rest == ses.pc = "idle" /\ UNCHANGED vars

Next ==
    \/ SessionStep
    \/ \E p \in Paths : ReaderStep(p)
    \/ \E s \in Ids : PurgeScan(s)
    \/ Operator
    \/ World
    \/ Rest

\* The session's thread and the threads of its pool run on; nothing makes the
\* operator, the disk or a crash do anything.
Fairness == WF_vars(SessionStep) /\ \A p \in Paths : WF_vars(ReaderStep(p))

Spec == Init /\ [][Next]_vars /\ Fairness

-----------------------------------------------------------------------------
(* Properties                                                              *)

TypeOK ==
    /\ \A s \in Ids : db[s] # None =>
        /\ db[s].status \in {"Walking", "Hashing", "Complete", "CompleteWithWarnings"}
        /\ DOMAIN db[s].rows \subseteq Paths
        /\ \A p \in DOMAIN db[s].rows : db[s].rows[p].hash \in Contents \cup {None}
        /\ db[s].omitted \subseteq Paths
    /\ ses.scan \in Ids \cup {None}
    /\ DOMAIN ses.reads \subseteq Paths
    /\ jobs \subseteq Ids

\* A digest in the checkpoint is that of the content the file had when it carried
\* the times beside it, however it came there: read while the file was written,
\* renamed or unmounted, spread to the other names, inherited from another scan.
HashIsTruth ==
    \A s \in Ids : db[s] # None =>
        \A p \in DOMAIN db[s].rows :
            db[s].rows[p].hash # None => db[s].rows[p].hash = written[db[s].rows[p].stamp]

\* A ledger that claims to be complete belongs to the manifest beside it: both are
\* of one walk, and neither is cut short, whatever was killed and begun again.
LedgerIsOfManifest ==
    \A s \in Ids : db[s] # None /\ db[s].authority =>
        /\ DOMAIN db[s].rows = seen[s].found
        /\ db[s].omitted = seen[s].omitted

\* What a completed scan shows is what its manifest says: every digest two objects
\* share, or a part of one after --verify, and the directories of these digests.
ShownIsManifest ==
    \A s \in Ids : Completed(s) /\ db[s].pub # None =>
        LET groups == {PathsWith(db[s], d) : d \in GroupDigests(db[s])}
        IN  /\ db[s].pub.mode = "Derived" => ShownGroups(db[s]) = groups
            /\ \A g \in ShownGroups(db[s]) :
                    /\ \E h \in groups : g \subseteq h
                    /\ Cardinality(ObjectsOf(db[s], g)) >= 2
            /\ db[s].dirs = DirRows(db[s])

\* The refusal in run_phases that calls itself a wiring defect is never reached:
\* a session that gets so far has a ledger, or walked itself.
CompletionHasAccount == HasScan /\ ses.pc = "complete" => HasAccount

\* Some scan in the list is a completed one that holds files under the root.
InHistory(r) == \E s \in Ids : Completed(s) /\ ~db[s].trashed /\ HasFilesUnder(s, r)

\* Only the operator can make the history forget a root: retention, even of a scan
\* that found the root empty because it was not mounted, never does.
HistoryKept ==
    [][(\E s \in Ids : TrashScan(s) \/ PurgeScan(s)) \/ \A r \in Roots : InHistory(r) => InHistory(r)']_vars

\* A scan that reached its digests loses none of them to a crash, a stop or a
\* resumption; only its purge takes them away.
ProgressKept ==
    [][\A s \in Ids :
        /\ db[s] # None /\ db'[s] # None
        /\ db[s].status # "Walking" /\ db[s].authority
        => \A p \in DOMAIN db[s].rows :
            db[s].rows[p].hash # None => p \in DOMAIN db'[s].rows /\ db'[s].rows[p] = db[s].rows[p]]_vars

\* A session comes to its end, whatever the disk does to its files.
SessionEnds == ses.pc # "idle" ~> ses.pc = "idle"

\* The checkpoint, as its readers see it, is ScanResult.
Reader == INSTANCE ScanResult WITH
    Results <- SUBSET SUBSET Paths,
    NoResult <- None,
    phase <- [s \in Ids |-> IF db[s] = None THEN "absent" ELSE IF Completed(s) THEN "done" ELSE "open"],
    result <- [s \in Ids |-> IF Completed(s) /\ db[s].pub # None THEN ShownGroups(db[s]) ELSE None]

\* Every step of the pipeline, the crash between the publication and the status
\* included, is a step of ScanResult or none: a completed scan has its result in
\* the same moment and never shows another.
ShowsScanResult == Reader!Spec

\* What stands beside a scan is of that scan: its ledger is of its manifest, its result of its
\* digests, and a session that completes it has seen its walk's account.
ResultIsOfScan == LedgerIsOfManifest /\ ShownIsManifest /\ CompletionHasAccount

\* Nothing is forgotten that took hours to find out: no root by retention, no digest by a crash.
NothingForgotten == HistoryKept /\ ProgressKept

=============================================================================
