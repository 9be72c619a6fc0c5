----------------------------- MODULE MoveBatch -----------------------------
(***************************************************************************)
(* Moving files and directories from one panel to another, and taking a    *)
(* move back.                                                              *)
(*                                                                         *)
(* The interface queues a batch for the single move worker, which carries  *)
(* it out item by item: a file is moved under its own name or, when the    *)
(* receiving directory holds its twin, under a name of a duplicate; a      *)
(* directory is moved whole or, when there is one of its name, merged into *)
(* it. The worker's report gives the interface what it needs to undo the   *)
(* batch, which it does itself, beside the worker. Meanwhile others create *)
(* and unlink files in the same directories.                               *)
(*                                                                         *)
(* A name is the sequence of its parts between the dots: a part is a       *)
(* letter (above 100), the n of a suffix ".n" or 50 + n for ".dupn", so    *)
(* that names sort as their bytes do. A path is a sequence of names.       *)
(***************************************************************************)
EXTENDS Integers, Sequences, FiniteSets, SequencesExt

CONSTANTS
    Size, Digest,          \* of every file there may be
    Dir, Link,             \* what else may lie at a path: a plain directory, and a symbolic link,
                           \* one that leads to no directory
    Datasets,              \* the root of a mounted dataset, which is a directory too
    Scenes,                \* the file systems to start from, with the panels' directories
                           \* and how often what may happen does
    Strangers,             \* the files others may create, and under which names
    StrangeNames,
    Database, LockFile,    \* the files this process keeps open and locked
    StateFiles,            \* the state directory's files, by path
    None

Files == DOMAIN Size
Directories == {Dir} \cup Datasets
Names == Seq(Nat) \ {<<>>}
Paths == Seq(Names)
Kinds == {"send", "undo", "fault", "create", "unlink", "panic"}

Parent(p) == Front(p)
Name(p) == Last(p)
Join(d, n) == Append(d, n)
Above(q, p) == IsPrefix(q, p)

\* What the worker keeps of a batch, frame by frame of what is left to do, and the interface of an
\* undo. Places are where files lay.
MovedItems == [from : Paths \ {<<>>}, to : Paths \ {<<>>}]

Frames ==
    [do : {"item"}, src : Paths, dir : Paths]
    \cup [do : {"compare"}, src : Paths, dir : Paths, candidates : SUBSET Paths]
    \cup [do : {"land"}, src : Paths, dst : Paths \ {<<>>}, dup : BOOLEAN]
    \cup [do : {"whole"}, src : Paths, dst : Paths \ {<<>>}]
    \cup [do : {"remove"}, src : Paths, before : Nat]

Places == UNION {[some -> Paths] : some \in SUBSET Files}

Work == [sources : Seq(Paths), stack : Seq(Frames), moved : Seq(MovedItems), failed : Nat, dups : Nat,
         quiet : BOOLEAN, was : Places, began : Places]

Undo == [todo : Seq(MovedItems), made : BOOLEAN, failed : Nat, was : Places]

ASSUME NoneAssumption == None \notin Paths /\ None \notin Work /\ None \notin Undo

ASSUME FilesAssumption ==
    /\ DOMAIN Digest = Files
    /\ \A i, j \in Files : Digest[i] = Digest[j] => Size[i] = Size[j]
    /\ Strangers \subseteq Files /\ Strangers \cap Range(StateFiles) = {}
    /\ Range(StateFiles) \subseteq Files
    /\ Directories \cap Files = {} /\ Dir \notin Datasets /\ Link \notin Files \cup Directories
    /\ StrangeNames \subseteq Names

\* A tree: each file at one path, each path below directories.
Tree(tree) ==
    /\ IsFiniteSet(DOMAIN tree) /\ DOMAIN tree \subseteq Paths \ {<<>>}
    /\ \A p \in DOMAIN tree : tree[p] \in Files \cup Directories \cup {Link}
    /\ \A p \in DOMAIN tree : \A n \in 1..Len(p) - 1 :
          SubSeq(p, 1, n) \in DOMAIN tree /\ tree[SubSeq(p, 1, n)] \in Directories
    /\ \A p, q \in DOMAIN tree : tree[p] = tree[q] /\ tree[p] \in Files => p = q

\* What a panel shows of the way to a file of the state directory holds the database or the
\* lock file: no panel shows the state directory itself. Two panels may show one directory.
ASSUME ScenesAssumption ==
    /\ DOMAIN StateFiles \subseteq Paths \ {<<>>}
    /\ \A scene \in Scenes :
          /\ Tree(scene.fs)
          /\ scene.panels \in Seq(Paths \ {<<>>}) /\ scene.budgets \subseteq [Kinds -> Nat]
          /\ \/ \A p \in DOMAIN StateFiles : p \in DOMAIN scene.fs /\ scene.fs[p] = StateFiles[p]
             \/ Range(scene.fs) \cap Range(StateFiles) = {}
          /\ \A d \in Range(scene.panels), p \in DOMAIN StateFiles : Above(d, p) =>
                /\ Len(d) < Len(p)
                /\ \E q \in DOMAIN StateFiles : /\ StateFiles[q] \in {Database, LockFile}
                                                 /\ Above(SubSeq(p, 1, Len(d) + 1), q)

VARIABLES
    fs,        \* what lies at each path that exists
    panels,    \* the directories the panels show
    queue,     \* the requests the worker has not taken yet
    work,      \* the batch under way, or None
    done,      \* the reports the interface has not applied yet
    pending,   \* move_pending
    log,       \* move_log: what can be undone
    undo,      \* the undo under way, or None
    snapped,   \* the datasets snapshotted in this run
    left,      \* what may still happen
    alive,     \* history: the files nobody unlinked
    calm       \* history: nothing has come between the batches and their undo

vars == <<fs, panels, queue, work, done, pending, log, undo, snapped, left, alive, calm>>

May(k) == left[k] > 0
Spend(k) == left' = [left EXCEPT ![k] = @ - 1]

(***************************************************************************)
(* The file system.                                                        *)
(***************************************************************************)
IsDir(p) == p \in DOMAIN fs /\ fs[p] \in Directories
IsMount(p) == p \in DOMAIN fs /\ fs[p] \in Datasets
IsFile(p) == p \in DOMAIN fs /\ fs[p] \in Files
Kids(d) == {p \in DOMAIN fs : Len(p) = Len(d) + 1 /\ Parent(p) = d}
Below(p) == {q \in DOMAIN fs : Above(p, q)}
IdsBelow(p) == {fs[q] : q \in Below(p)} \cap Files

\* A dataset is known by those it is mounted in; what is mounted below a directory goes along
\* when the directory is renamed.
Dataset(p) == {fs[q] : q \in {r \in DOMAIN fs : Above(r, p)}} \cap Datasets

\* renameat2: a mount point is not moved, and a name goes to no other dataset's directory.
OneDataset(src, dst) == ~IsMount(src) /\ Dataset(Parent(src)) = Dataset(Parent(dst))

\* What a path below src is called after src was renamed to dst.
Carried(p, src, dst) == dst \o SubSeq(p, Len(src) + 1, Len(p))

Renamed(src, dst) ==
    LET landed == {Carried(p, src, dst) : p \in Below(src)}
    IN  [q \in (DOMAIN fs \ Below(src)) \cup landed |->
            IF q \in landed THEN fs[Carried(q, dst, src)] ELSE fs[q]]

\* create_dir_all: a file in the way stops it.
WithDirs(p) ==
    LET new == {SubSeq(p, 1, n) : n \in 1..Len(p)} \ DOMAIN fs
        stopped == \E n \in 1..Len(p) : SubSeq(p, 1, n) \in DOMAIN fs /\ ~IsDir(SubSeq(p, 1, n))
    IN  [q \in DOMAIN fs \cup (IF stopped THEN {} ELSE new) |-> IF q \in new THEN Dir ELSE fs[q]]

\* A file of the open database, the lock file, or a directory one of them lies in.
refused_at_once(p) == \E q \in Below(p) : fs[q] \in {Database, LockFile}

suffixed(p, n) == IF n = 0 THEN p ELSE Join(Parent(p), Append(Name(p), n))

FirstFreeOrFile(p) ==
    LET open == {n \in 0..Cardinality(DOMAIN fs) : suffixed(p, n) \in DOMAIN fs => IsFile(suffixed(p, n))}
    IN  suffixed(p, CHOOSE n \in open : \A m \in open : n <= m)

\* The first of p, p.1, p.2, ... that is free.
FirstFree(p) ==
    LET free == {n \in 0..Cardinality(DOMAIN fs) : suffixed(p, n) \notin DOMAIN fs}
    IN  suffixed(p, CHOOSE n \in free : \A m \in free : n <= m)

\* The part the marker goes before is what Path::extension takes for one.
WithMarker(n, k) == IF Len(n) = 1 THEN Append(n, 50 + k) ELSE InsertAt(n, Len(n), 50 + k)

dup_dest(dir, src) ==
    LET free == {k \in 1..Cardinality(DOMAIN fs) + 1 :
                    Join(dir, WithMarker(Name(src), k)) \notin DOMAIN fs}
    IN  Join(dir, WithMarker(Name(src), CHOOSE k \in free : \A m \in free : k <= m))

\* Where move_to and move_dir_to put src when asked to put it at dst, or None.
move_to(src, dst) ==
    IF /\ IsFile(src) /\ IsDir(Parent(dst)) /\ src # dst
       /\ ~refused_at_once(src) /\ OneDataset(src, dst)
    THEN FirstFree(dst)
    ELSE None

move_dir_to_unguarded(src, dst) ==
    IF /\ IsDir(src) /\ IsDir(Parent(dst)) /\ src # dst
       /\ ~refused_at_once(src) /\ OneDataset(src, dst)
    THEN FirstFree(dst)
    ELSE None

move_dir_to(src, dst) ==
    IF /\ IsDir(src) /\ IsDir(Parent(dst)) /\ ~Above(src, dst)
       /\ ~refused_at_once(src) /\ OneDataset(src, dst)
    THEN FirstFree(dst)
    ELSE None

(***************************************************************************)
(* The worker: a stack of what is left to do, in the order it is done.     *)
(***************************************************************************)
Item(src, dir) == [do |-> "item", src |-> src, dir |-> dir]
Compare(src, dir, candidates) == [do |-> "compare", src |-> src, dir |-> dir, candidates |-> candidates]
Land(src, dst, dup) == [do |-> "land", src |-> src, dst |-> dst, dup |-> dup]
Whole(src, dst) == [do |-> "whole", src |-> src, dst |-> dst]
Removal(src, before) == [do |-> "remove", src |-> src, before |-> before]

Items(paths, dir) == [i \in DOMAIN paths |-> Item(paths[i], dir)]

\* file_name_bytes: the canonical order of a directory's children.
Before(p, q) ==
    LET a == Name(p)
        b == Name(q)
    IN  \/ IsStrictPrefix(a, b)
        \/ \E i \in 1..Len(a) : i <= Len(b) /\ SubSeq(a, 1, i - 1) = SubSeq(b, 1, i - 1) /\ a[i] < b[i]
Sorted(paths) == {s \in SetToSeqs(paths) : \A i, j \in DOMAIN s : i < j => Before(s[i], s[j])}

At(do) == work # None /\ work.stack # <<>> /\ Head(work.stack).do = do
Top == Head(work.stack)

\* The top of the stack is replaced by frames, failures more items have failed.
Go(frames, failures) ==
    work' = [work EXCEPT !.stack = frames \o Tail(@), !.failed = @ + failures,
                         !.quiet = @ \/ Top.do = "item"]

WorkerOnly == UNCHANGED <<panels, queue, done, pending, log, undo, snapped, alive, calm>>

\* An error of the system instead of the answer: the item is counted as failed.
Fault == May("fault") /\ Spend("fault") /\ Go(<<>>, 1) /\ UNCHANGED fs

Take ==
    /\ work = None /\ queue # <<>>
    /\ LET request == Head(queue)
           ids == UNION {IdsBelow(s) : s \in Range(request.sources)}
           was == [i \in ids |-> CHOOSE p \in DOMAIN fs : fs[p] = i]
       IN  work' = [sources |-> request.sources, stack |-> Items(request.sources, request.dir),
                    moved |-> <<>>, failed |-> 0, dups |-> 0, quiet |-> TRUE,
                    was |-> was, began |-> was]
    /\ queue' = Tail(queue)
    /\ UNCHANGED <<fs, panels, done, pending, log, undo, snapped, left, alive, calm>>

RefusedFile == Top.src \in DOMAIN fs => fs[Top.src] \in {Link, Database, LockFile}

\* move_item: looked_at, refused_at_once.
Refused == Top.src \in DOMAIN fs => fs[Top.src] = Link \/ refused_at_once(Top.src)

same_size_files(dir, size) ==
    {p \in Kids(dir) : IsFile(p) /\ Size[fs[p]] = size /\ fs[p] # Database}

LookAtFile ==
    LET candidates == same_size_files(Top.dir, Size[fs[Top.src]])
    IN  Go(IF ~IsDir(Top.dir) THEN <<>>
           ELSE IF candidates = {}
           THEN <<Land(Top.src, Join(Top.dir, Name(Top.src)), FALSE)>>
           ELSE <<Compare(Top.src, Top.dir, candidates)>>,
           IF IsDir(Top.dir) THEN 0 ELSE 1)

\* merge_dir: the listing may stop on an error, and what it had not reached stays.
LookAtDir ==
    LET target == Join(Top.dir, Name(Top.src))
        Merge(children, failures) == \E sorted \in Sorted(children) :
            Go(Append(Items(sorted, target), Removal(Top.src, work.failed)), failures)
    IN  \/ ~IsDir(target) /\ Go(<<Whole(Top.src, target)>>, 0) /\ UNCHANGED left
        \/ IsDir(target) /\ Merge(Kids(Top.src), 0) /\ UNCHANGED left
        \/ /\ IsDir(target) /\ May("fault") /\ Spend("fault")
           /\ \E some \in SUBSET Kids(Top.src) : Merge(some, 1)

Look ==
    /\ At("item")
    /\ UNCHANGED fs
    /\ \/ Refused /\ Go(<<>>, 1) /\ UNCHANGED left
       \/ ~Refused /\ Fault
       \/ ~Refused /\ IsFile(Top.src) /\ LookAtFile /\ UNCHANGED left
       \/ ~Refused /\ IsDir(Top.src) /\ LookAtDir
    /\ WorkerOnly

\* move_file_item with candidates: those that are gone are none any more, one that
\* cannot be read leaves the question open unless a twin is found.
Twin(src, p) == IsFile(p) /\ Digest[fs[p]] = Digest[fs[src]]

UndeterminedReadsAsOther(unread, twins) == FALSE

Undetermined(unread, twins) == unread # {} /\ twins = {}

Judge(unreadable) ==
    LET unread == unreadable \cup {p \in Top.candidates : p \in DOMAIN fs /\ ~IsFile(p)}
        twins == {p \in Top.candidates \ unread : Twin(Top.src, p)}
        name == Join(Top.dir, Name(Top.src))
    IN  IF Undetermined(unread, twins) THEN Go(<<>>, 1)
        ELSE IF twins = {} THEN Go(<<Land(Top.src, name, FALSE)>>, 0)
        ELSE Go(<<Land(Top.src, dup_dest(Top.dir, Top.src), TRUE)>>, 0)

HashAndCompare ==
    /\ At("compare")
    /\ UNCHANGED fs
    /\ \/ ~IsFile(Top.src) /\ Go(<<>>, 1) /\ UNCHANGED left
       \/ IsFile(Top.src) /\ Fault
       \/ IsFile(Top.src) /\ Judge({}) /\ UNCHANGED left
       \/ /\ IsFile(Top.src) /\ May("fault") /\ Spend("fault")
          /\ \E unreadable \in SUBSET Top.candidates \ {{}} : Judge(unreadable)
    /\ WorkerOnly

\* A rename that went through, as run_batch reports it.
Moved(to, dup) ==
    /\ fs' = Renamed(Top.src, to)
    /\ work' = [work EXCEPT !.stack = Tail(@), !.moved = Append(@, [from |-> Top.src, to |-> to]),
                            !.dups = IF dup THEN @ + 1 ELSE @]

LandFile ==
    /\ At("land")
    /\ LET to == move_to(Top.src, Top.dst)
       IN  \/ to # None /\ Moved(to, Top.dup) /\ UNCHANGED left
           \/ to # None /\ Fault
           \/ to = None /\ Go(<<>>, 1) /\ UNCHANGED <<fs, left>>
    /\ WorkerOnly

MoveWhole ==
    /\ At("whole")
    /\ LET to == move_dir_to(Top.src, Top.dst)
       IN  \/ to # None /\ Moved(to, FALSE) /\ UNCHANGED left
           \/ to # None /\ Fault
           \/ to = None /\ Go(<<>>, 1) /\ UNCHANGED <<fs, left>>
    /\ WorkerOnly

RemovalFailureSilent == 0

\* The removal of a merged directory: a refusal counts unless a child's failure did.
RemovalFailure == IF work.failed = Top.before THEN 1 ELSE 0

RemoveMerged ==
    /\ At("remove")
    /\ LET empty == IsDir(Top.src) /\ ~IsMount(Top.src) /\ Kids(Top.src) = {}
       IN  \/ /\ empty
              /\ fs' = [p \in DOMAIN fs \ {Top.src} |-> fs[p]]
              /\ Go(<<>>, 0) /\ UNCHANGED left
           \/ ~empty /\ Go(<<>>, RemovalFailure) /\ UNCHANGED <<fs, left>>
           \/ /\ empty /\ May("fault") /\ Spend("fault")
              /\ Go(<<>>, RemovalFailure) /\ UNCHANGED fs
    /\ WorkerOnly

Lies(i, p) == p \in DOMAIN fs /\ fs[p] = i

Report(moved, failed, was, stayed) ==
    [moved |-> moved, failed |-> failed, was |-> was, stayed |-> stayed]

Finish ==
    /\ work # None /\ work.stack = <<>>
    /\ done' = Append(done, Report(work.moved, work.failed, work.was,
                 {i \in DOMAIN work.began : Lies(i, work.began[i])}))
    /\ work' = None
    /\ UNCHANGED <<fs, panels, queue, pending, log, undo, snapped, left, alive, calm>>

PanicLost == <<>>

\* spawn_move_worker guards the batch: a panic is reported, what was moved is not.
PanicReported == <<Report(<<>>, Len(work.sources), <<>>, {})>>

Panic ==
    /\ work # None /\ work.stack # <<>> /\ May("panic") /\ Spend("panic")
    /\ done' = done \o PanicReported
    /\ work' = None
    /\ calm' = FALSE
    /\ UNCHANGED <<fs, panels, queue, pending, log, undo, snapped, alive>>

Worker == Take \/ Look \/ HashAndCompare \/ LandFile \/ MoveWhole \/ RemoveMerged \/ Finish

(***************************************************************************)
(* The interface.                                                          *)
(***************************************************************************)
\* Marked entries in the order they are shown, or the one under the cursor.
Batches(dir) == UNION {SetToSeqs(some) : some \in SUBSET Kids(dir) \ {{}}}

spawn_move(sources, dir) ==
    /\ queue' = Append(queue, [sources |-> sources, dir |-> dir])
    /\ pending' = pending + 1

OnSnapshotFailureMove(sources, dir) == spawn_move(sources, dir) /\ UNCHANGED snapped

\* ensure_source_snapshots: the datasets the sources lie on.
Targets(sources) == {Dataset(p) : p \in Range(sources)}

\* A snapshot that fails cancels the move, whatever was snapshotted before it.
OnSnapshotFailure(sources, dir) ==
    /\ \E made \in SUBSET Targets(sources) :
          Targets(sources) \ (snapped \cup made) # {} /\ snapped' = snapped \cup made
    /\ UNCHANGED <<queue, pending>>

\* perform_triage_move and send_to_receiver: from one panel to another, whatever they show.
Send ==
    /\ undo = None /\ May("send")
    /\ \E from, to \in DOMAIN panels : from # to /\ \E sources \in Batches(panels[from]) :
          \/ /\ snapped' = snapped \cup Targets(sources)
             /\ spawn_move(sources, panels[to])
             /\ Spend("send")
          \/ /\ Targets(sources) \ snapped # {}
             /\ May("fault") /\ left' = [left EXCEPT !.send = @ - 1, !.fault = @ - 1]
             /\ OnSnapshotFailure(sources, panels[to])
    /\ UNCHANGED <<fs, panels, work, done, log, undo, alive, calm>>

apply_move_outcome ==
    /\ undo = None /\ done # <<>>
    /\ pending' = pending - 1
    /\ log' = IF Head(done).moved = <<>> THEN log
              ELSE Append(log, [items |-> Head(done).moved, was |-> Head(done).was])
    /\ done' = Tail(done)
    /\ UNCHANGED <<fs, panels, queue, work, undo, snapped, left, alive, calm>>

UndoOrderForward(items) == items

\* The last moved item is taken back first.
UndoOrder(items) == Reverse(items)

undo_last_move ==
    /\ undo = None /\ log # <<>> /\ May("undo") /\ Spend("undo")
    /\ undo' = [todo |-> UndoOrder(Last(log).items), made |-> FALSE, failed |-> 0,
                was |-> Last(log).was]
    /\ log' = Front(log)
    /\ calm' = (calm /\ pending = 0)
    /\ UNCHANGED <<fs, panels, queue, work, done, pending, snapped, alive>>

Back == Head(undo.todo)

\* The batch under way does not answer for what others do to its files.
Disturb(gone, new) ==
    work' = IF work = None THEN None
            ELSE [work EXCEPT !.quiet = FALSE,
                    !.began = [i \in (DOMAIN @ \ gone) \cup DOMAIN new |->
                                  IF i \in DOMAIN new THEN new[i] ELSE @[i]]]

\* restore_one: the parent directory first, then the item.
MakeParent ==
    /\ undo # None /\ undo.todo # <<>> /\ ~undo.made
    /\ fs' = WithDirs(Parent(Back.from))
    /\ undo' = [undo EXCEPT !.made = TRUE]
    /\ Disturb({}, <<>>)
    /\ UNCHANGED <<panels, queue, done, pending, log, snapped, left, alive, calm>>

NextItem(failures) ==
    undo' = [undo EXCEPT !.todo = Tail(@), !.made = FALSE, !.failed = @ + failures]

Restored == IF IsDir(Back.to) THEN move_dir_to(Back.to, Back.from) ELSE move_to(Back.to, Back.from)

restore_one ==
    /\ undo # None /\ undo.todo # <<>> /\ undo.made
    /\ \/ /\ Restored # None
          /\ fs' = Renamed(Back.to, Restored)
          /\ Disturb(IdsBelow(Back.to), <<>>)
          /\ NextItem(0) /\ UNCHANGED <<left, calm>>
       \/ Restored = None /\ NextItem(1) /\ UNCHANGED <<fs, work, left, calm>>
       \/ /\ Restored # None /\ May("fault") /\ Spend("fault") /\ NextItem(1)
          /\ calm' = FALSE /\ UNCHANGED <<fs, work>>
    /\ UNCHANGED <<panels, queue, done, pending, log, snapped, alive>>

UndoEnds ==
    /\ undo # None /\ undo.todo = <<>>
    /\ undo' = None
    /\ UNCHANGED <<fs, panels, queue, work, done, pending, log, snapped, left, alive, calm>>

(***************************************************************************)
(* Everybody else.                                                         *)
(***************************************************************************)
\* A file that appears below what the batch under way has yet to move or to remove is the
\* batch's to report.
LateFor(d, i) ==
    IF work # None /\ (\E f \in Range(work.stack) : Above(f.src, d)) THEN {i} ELSE {}

Create ==
    /\ May("create") /\ Spend("create")
    /\ \E d \in {p \in DOMAIN fs : IsDir(p)}, n \in StrangeNames, i \in Strangers \ alive :
          /\ Join(d, n) \notin DOMAIN fs
          /\ fs' = [p \in DOMAIN fs \cup {Join(d, n)} |-> IF p \in DOMAIN fs THEN fs[p] ELSE i]
          /\ alive' = alive \cup {i}
          /\ Disturb({}, [j \in LateFor(d, i) |-> Join(d, n)])
    /\ calm' = FALSE
    /\ UNCHANGED <<panels, queue, done, pending, log, undo, snapped>>

Unlink ==
    /\ May("unlink") /\ Spend("unlink")
    /\ \E p \in {q \in DOMAIN fs : IsFile(q)} \ DOMAIN StateFiles :
          /\ fs' = [q \in DOMAIN fs \ {p} |-> fs[q]]
          /\ alive' = alive \ {fs[p]}
          /\ Disturb({fs[p]}, <<>>)
    /\ calm' = FALSE
    /\ UNCHANGED <<panels, queue, done, pending, log, undo, snapped>>

Rest ==
    /\ work = None /\ queue = <<>> /\ done = <<>> /\ undo = None
    /\ UNCHANGED vars

Init ==
    /\ \E scene \in Scenes :
          /\ fs = scene.fs /\ panels = scene.panels /\ left \in scene.budgets
    /\ queue = <<>> /\ work = None /\ done = <<>> /\ pending = 0
    /\ log = <<>> /\ undo = None /\ snapped = {}
    /\ alive = Range(fs) \cap Files /\ calm = TRUE

Interface == apply_move_outcome \/ MakeParent \/ restore_one \/ UndoEnds

Next == Worker \/ Panic \/ Send \/ undo_last_move \/ Interface \/ Create \/ Unlink \/ Rest

\* Both threads run on; nobody has to press a key, and nobody else has to act.
Spec == Init /\ [][Next]_vars /\ WF_vars(Worker) /\ WF_vars(Interface)

(***************************************************************************)
(* Properties.                                                             *)
(***************************************************************************)
\* The file system is a tree, and each part of the state has its shape.
TypeOK ==
    /\ \A p \in DOMAIN fs : fs[p] \in Files \cup Directories \cup {Link} /\ (Len(p) > 1 => IsDir(Parent(p)))
    /\ pending \in Nat
    /\ work # None => work.failed \in Nat /\ work.dups <= Len(work.moved)
    /\ alive \subseteq Files /\ left \in [Kinds -> Nat] /\ calm \in BOOLEAN

\* renameat2 without replacement: whatever the batches, their undo and the others do at the
\* same time, every file that nobody unlinked lies at exactly one path.
EveryFileOnce ==
    /\ Range(fs) \cap Files = alive
    /\ \A p, q \in DOMAIN fs : fs[p] = fs[q] /\ fs[p] \in Files => p = q

\* A batch reports no error only if nothing that lay under its sources, or was put there before
\* it was through with them, lies there still: neither an interrupted listing nor a late arrival
\* passes for a merge.
CleanMeansMoved == \A i \in DOMAIN done : done[i].failed = 0 => done[i].stayed = {}

\* With nobody else at work, a file that is moved to another directory takes a duplicate's name
\* exactly if the directory that receives it holds its twin, whichever of the candidates could
\* not be read. Within one directory a file would count as its own twin.
TwinNamed ==
    [][At("land") /\ work.quiet /\ work' # None /\ work'.moved # work.moved
       /\ Parent(Top.src) # Parent(Top.dst)
        => (work'.dups > work.dups
            <=> \E p \in Kids(Parent(Top.dst)) : fs[p] # Database /\ Twin(Top.src, p))]_vars

\* An undo that nothing came between puts every file of its batch back where it was; it takes
\* each item to its very path, unless that was an empty directory and a later merge removed it.
UndoRestores ==
    undo # None /\ calm =>
        /\ undo.todo = <<>> => \A i \in DOMAIN undo.was : Lies(i, undo.was[i])
        /\ undo.todo # <<>> /\ undo.made /\ Back.to \in DOMAIN fs => Restored = Back.from

\* The state directory's files stay where they are: no merge takes them from around the lock.
StateStays ==
    \A p \in DOMAIN StateFiles : StateFiles[p] \in alive => Lies(StateFiles[p], p)

\* Nothing is moved from a dataset that was not snapshotted first: "a safeguard ZFS snapshot of
\* every affected source dataset". It does not hold: the datasets of the marked sources are asked
\* for, and a merge goes on into what is mounted below them.
SafeguardFirst ==
    [][work # None /\ work' # None /\ work'.moved # work.moved => Dataset(Top.src) \in snapped]_vars

\* No dataset is mounted below an entry of a panel.
NoneBelow ==
    \A d \in Range(panels), p \in DOMAIN fs : IsMount(p) /\ Above(d, p) => Len(p) <= Len(d) + 1

\* What it comes to: unless a dataset is mounted below an entry of a panel, nothing is moved that
\* was not snapshotted, whichever snapshots failed and whatever was merged, renamed or undone since.
SafeguardReaches ==
    [][work # None /\ work' # None /\ work'.moved # work.moved /\ NoneBelow
        => Dataset(Top.src) \in snapped]_vars

\* Every batch is reported in the end, one that panicked too: only its report lets
\* move_pending go down.
PendingSettles == pending > 0 ~> pending = 0

\* Whatever is moved is somewhere once, and the program's own state directory is not taken from
\* under it.
FilesStand == EveryFileOnce /\ StateStays

\* MoveOutcome and the undo record: what a batch reports as moved has left its source, and what its
\* record says of it is enough to put it back.
RecordIsTrue == CleanMeansMoved /\ UndoRestores

============================================================================
