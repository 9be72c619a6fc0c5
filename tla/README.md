# DedupCommando: a TLA+ development

DedupCommando finds duplicate files on ZFS and removes, hard-links or
block-clones them. What has to be right is the destructive part: files are
changed on a live host, other processes write meanwhile, any system call may
fail, and what the program reports afterwards must be what happened. This
directory holds TLA+ models of those parts, TLC configurations that check them
on small instances and theorems that TLAPS checks for all instances.

Source paths are given relative to `src/src/`.

## The system

| Component | State it keeps | Operations | Interacts with |
|---|---|---|---|
| Scan pipeline (`pipeline/`, `scan/worker.rs`) | phase, file list, size groups, hashes, verified groups, checkpoint cursor | walk, group, hash, verify, save checkpoint, resume, cancel | writes the checkpoint store, sends events to the interface |
| Checkpoint store (`state/store.rs`, `state/schema.rs`) | SQLite tables: sessions, files, groups, marks, omissions, publication generation | publish results, save/clear marks, lease membership for an apply, retention and trash, migrate | every other component |
| Plan builder (`model/plan.rs`) | the witness: objects, members, actions | `try_new` (refuses contradictory evidence), `preflight`, `realize`, `settle_marks` | reads leased membership, read by the batch |
| Guarded batch (`actions/mod.rs`) | step, snapshots made, obstacles, runtime ledger, outcomes | lease, preflight, obstacles, snapshots, preflight, apply each action, settle | the file system, ZFS, the apply worker |
| Runtime ledger (`model/plan.rs`) | per allocation: live identity, locations, trusted or poisoned | `open`, `check`, `quarantined`, `settled`, `linked`, `cloned`, `poison` | the batch |
| Moves (`actions/move_file.rs`, `move_dir.rs`, `tui/commander/move_batch.rs`) | the items of a batch, its undo record | snapshot, move, merge, name a duplicate, report, undo | the file system, ZFS, the interface |
| Open databases (`paths.rs`, `pipeline/safe_open.rs`) | the list of the files SQLite holds for the process | enter, note, announce the close, leave; ask before a read, a close, a rename | every connection, every read, every rename |
| Browsing actor (`state/browse.rs`) | request queue, snapshot being browsed, gates, poison | open, page, mark, auto-select, reconcile, shut down | owns the store's read connection; events to the interface |
| Interface (`app.rs`, `main.rs`) | screens, routes of outstanding requests, retired actor, owed marks, shutdown stage | keys, events, start scan/apply, staged exit | all worker threads |
| Single-instance lock (`lock.rs`) | lock file, its holder data, list of protected names | try to acquire, decide, take over by force | the interface, every rename |
| Signals and panics (`signals.rs`, `panics.rs`) | signal count, recorded panic | first signal: staged exit; second: forced | the interface |
| ZFS (`zfs/`) | none of its own | list datasets, create/claim a snapshot | the batch |

What is hard here, and hard to test: other processes changing files between
two system calls of a batch; a batch that stops half-way through one action;
the batch's own renames looking like somebody else's change; a report claiming
more than happened; two instances on one state directory; worker threads that
end, fail or answer late while the program is shutting down; marks that no
longer fit the disk. `PROJECT.json` lists these hazards with their lines.

## Module map

| Module | Models | Run with |
|---|---|---|
| `ApplyBatch` | one guarded destructive batch | `MCApplyBatch`: `ApplyAlias.cfg`, `ApplyPair.cfg` |
| `PlanBuilder` | from marks and evidence to a plan, or a refusal | the runs of `MCApplyBatch`, whose plans it builds |
| `ApplyBatchProofs` | theorems about the two | tlapm |
| `InstanceLock` | the single-instance lock and the roles of several processes | `MCInstanceLock`: `LockOrderly.cfg`, and `LockLeftBehind.cfg`, which shows a disagreement |
| `InstanceLockProofs` | theorems about `InstanceLock` | tlapm |
| `Interface` | the event loop, App, the browsing actor and the worker threads | `MCInterface`: `IfaceOps.cfg`, and `IfaceSettles.cfg`, which shows a disagreement |
| `InterfaceProofs` | theorems about it | tlapm |
| `WalkAccount` | the walk of a scan and its account of what it left out | through `DirTwins` |
| `DirTwins` | `WalkAccount` and the grouping of directories built on its account | `MCDirTwins`: `DirTwins.cfg` |
| `DirTwinsProofs` | theorems about the two | tlapm |
| `ScanResult` | abstract: what a reader is promised of each scan | as a property of `ScanPipeline` |
| `ScanPipeline` | sessions, checkpoint, crash, resumption, retention, purge | `MCScanPipeline`: `ScanPipeline.cfg` |
| `ScanPipelineProofs` | theorems about it, and that it implements `ScanResult` | tlapm |
| `Membership` | the published membership, its readers, plan, lease, export | `MCMembership`: `Membership.cfg` |
| `MembershipProofs` | theorems about it | tlapm |
| `MoveBatch` | moving files and directories between panels, and back | `MCMoveBatch`: `MoveBatch.cfg`, and `MovesSnapshot.cfg`, which shows a disagreement |
| `MoveBatchProofs` | theorems about it | tlapm |
| `OpenDatabases` | the list that keeps reads and renames off SQLite's files | `MCOpenDatabases`: `OpenDatabases.cfg` |
| `OpenDatabasesProofs` | theorems about it | tlapm |

How they meet: `PlanBuilder` makes the plans `ApplyBatch` carries out; the lease that `Membership` takes in several steps is one step of
`ApplyBatch`; the session of `ScanPipeline` is the session of `Membership` and
one worker of `Interface`; the account `WalkAccount` settles is what
`ScanPipeline` writes as `omitted`; a batch of `MoveBatch` is one move of
`Interface`; the rename that `ApplyBatch` and `MoveBatch` make is the one that
`OpenDatabases` and `InstanceLock` refuse for certain files. Each seam is
abstracted on the side that does not look into it.

A property a run checks is often the conjunction of two or three named parts,
each a statement of its own above it; each part has its own mutant.

## ApplyBatch

### State and actions against the code

The file tree is two functions: `dir` (name to inode) and `node` (inode to
contents, mtime, ctime and the number of links outside the modelled names).
Names are member pathnames (`Home`), the staging name next to one (`Temp`) and
the names it may get in quarantine (`Quar`). Contents are a group (its digest),
`"foreign"` or `"symlink"`. The link count is computed from the tree, and every
rename, link and unlink moves the ctime, as the kernel does.

One action of `Worker` is one system call, or one pure decision, of the batch:

| Action | Code |
|---|---|
| `LeaseTaken`, `LeaseRefused` | `apply_guarded_with`: a membership lease, or a refusal |
| `PreflightFirst`, `PreflightSecond` | `ActionPlan::preflight`, before and after the snapshots; the second reading opens the ledger |
| `FindObstacles` | `preflight::obstacles`: `place` exactly, the host probes as any set of actions |
| `CreateSnapshot`, `SnapshotFails`, `SnapshotsMade` | one safety snapshot per affected dataset, in plan order |
| `Boundary` | the loop head of `run_batch`: end, cancel flag, next action |
| `ApplyOne` | `Batch::apply_one`: obstacle, `guarded_place`, ledger check of target and keeper |
| `StatTarget` ... `HashKeeper` | `revalidate`/`verify_file`: the stat and the read are two steps |
| `ReadMeta`, `Build`, `BuildFails` | the replacement under its staging name |
| `QuarantineLook`, `QuarantineMove`, `QuarantineFails` | `delete_to_quarantine` with its suffixed names |
| `Publish`, `PublishFails`, `RemoveTemp`, `PutBack`, `PutBackFails` | `evacuate_then_publish` and its rollback |
| `SettleTarget`, `SettleKeeper` | `after_move`, `finish_publication`: the ledger's transitions |

`Cancel` sets the flag the apply worker shares with the interface.
The outsider (`OutsiderWrites`, `OutsiderPuts`, `OutsiderRemoves`,
`OutsiderLinks`) changes any member or quarantine name between any two steps;
it may put an old mtime back but never a ctime. It does not use staging names,
which carry the process id, the time and a counter. Faults (`Fault`) are calls
that fail for no reason in the model: I/O errors, full disks, permissions.

A crash is not an action of its own: nothing of a batch is persisted, so what a
crash leaves is the tree after a prefix of its steps, and `NothingLost` is
stated of every step.

`PlanBuilder` is `ActionPlan::try_new` as a function from rows (one for every
member of every group that has a mark) to at most one plan. Each refusal is a
named conjunct of `Accepts`: `OnePublication`, `OneMeaning`
(`check_global_evidence`), `GroupStands`, `LinksAgree` (`push_objects`),
`NoneCrosses`, nothing to do (`CoveredRows`), and a total that does not fit
(`Ceiling`). A refusal is of the whole plan, so which of several reasons it names
is left out. The instances build their plans with it, and TLC evaluates on each
that accepted evidence makes exactly one plan (`OnePlan`).

### Runs

* **apply_alias** - one file, and one allocation with two more names; every plan
  `PlanBuilder` makes of any marks on the three (either may be kept, one alias may
  be left unmarked, the keeper may have the second name), one outside change and
  one fault. The aliased
  allocation is where the ledger matters: the first action changes ctime and
  link count of what the second one checks. Checks that nothing is lost, that a
  published replacement has the scanned contents, that the batch never refuses
  over its own renames, and that an allocation reported as freed is.
* **apply_pair** - two groups on two datasets, with plans of two shapes. Plans of
  one action, under the Hybrid policy, the second group there as evidence only,
  meet an outsider with two moves who may restore contents and mtime (two are
  needed to change a file and change it back) and one fault. `TrustIsEarned`: the
  snapshot holds the scanned contents once the target has moved, and the Hybrid
  cache vouches only for bytes that were hashed. Plans of two actions, under
  Strict, meet one outside change and two faults (a failed publication whose
  rollback fails too takes two). `ReportIsTrue`: the report's whereabouts, the marks
  kept for the next plan, and stopped runs that changed nothing; no dataset
  changes before its snapshot; every batch ends. Both may be cancelled.

The bounds on outside acts and faults are functions of the plan (`MaxOutsider`,
`MaxFaults`), and `Strict` is the set of plans that re-read every file, so that one
run can give each plan what its case needs.
`MaxSuffix = 1` gives two quarantine names: enough for one collision, and for
running out. The ledger treats kinds and groups uniformly, so two actions show
every pair of neighbours; what grows with the plan is only the number of pairs.
Spare inodes are interchangeable and symmetric in the runs without a temporal
liveness property.

**Fairness** is weak fairness of `Worker`: the worker is a thread that blocks on
nothing but its own system calls, so it always takes its next step. Neither
the outsider nor the cancel key is fair.

### Proofs

`ApplyBatchProofs` proves, for any paths, inodes, plans and bounds that satisfy
`ConstantsOK`, `PlansOK` and `ObjectsOK`:

* `TypeCorrect`: `Spec => []TypeOK`. `TypeOK` is not inductive: `act` is
  `plan[cur]`, which is an action only while one is running, and reading a
  quarantine name needs one to have been taken. `IInv` adds `StepOK`, which ties
  `pc` to `cur`, `seen`, `moved` and `pub`.
* `NothingIsLost`: `Spec => NothingLost`. Each step that touches the tree is a
  rename to a free name, a link, or the removal of a staging name; each keeps
  every inode that has a name other than a staging name, and none writes an
  inode in use.
* `SnapshotComesFirst`: `Spec => SnapshotFirst`, with `GateHolds`: past
  `ApplyOne` the dataset of the running action has a snapshot, no step of an
  action changes `snap` or `cur`, and every name such a step touches belongs to
  the action's target.

`ApplyBatchProofs` also discharges what `ApplyBatch` assumes of its plans, for any
evidence: `BuiltIsExecutable` says that a plan of `TryNew` satisfies `Executable`,
which is `PlansOK` (a group is a rank, an allocation a key). Its two lemmas are
that a covered row has exactly one keeper (`OneKeeper`) and that the sorted plan
lists each covered row once (`OneActionEach`). `AllocationsApart` gives
`ObjectsOK` where no two ranks share a digest; `check_global_evidence` accepts an
allocation under two ranks of one digest, and keeping the two apart is then the
business of the publication, not of the builder. `BuiltIsOne` says that accepted
evidence makes a plan, and only one: rows that positions tell apart can be sorted
(`SortedExists`, by a smallest set of rows that cannot: what comes before one of
its rows and what comes after it can) in one way (`SortedOnce`).

Its second part proves the rest of what the runs check, for any plan, tree,
number of outside acts and of faults. One argument carries it: ctime is a
witness. `CtimeTells` says that no step changes a file's bytes, times, links or
names and leaves its ctime, so that an identity found again tells what it told
when it was taken. The inductive invariants are built in four layers, each kept
with the help of those before it:

* `WhatIsTrusted` (`TrustIsEarned`), by `TrustInv`: how far the batch is
  (`Progress`), that a scanned allocation with its first ctime is as the scan
  recorded it (`Intact`), that the snapshot therefore holds what the scan hashed
  (`SnapOK`: both preflights saw that ctime, and the snapshot lies between them),
  and that an identity in the Hybrid cache is older than the bytes that were read
  (`CacheOK`).
* `ReportTellsTrue` (`ReportIsTrue`), by `ReportInv`: what the three names of the
  running action may hold at each `pc` (`StageOK`), where the originals of the
  ended ones lie (`WhereOK`), what a stopped run has not touched (`StoppedOK`), and
  what an allocation still is whose group was given no action (`KeptOK`, which the
  marks for the next plan rest on).
* `LedgerKeepsItsWord` (`ReplacementIsDigest`, `CompletedIsFreed`), by `LedgerInv`
  and `FreedInv`: what an identity in the ledger tells about bytes (`LedgerOK`,
  `CloneOK`, `ClonesOK`, or, where nobody may put times back, `PlainOK`), which
  names it stands for (`NamesOK`, `GoneOK`), and which entry is trusted while an
  action of its allocation has failed (`TrustOK`).
* `NeverInItsOwnWay` (`OwnMarksNeverRefuse`), by `OwnInv`: while nobody else
  acts and no staging link has stayed, the ledger mirrors the tree. `Mirrored`
  says of each allocation that its names are those the ledger expects, but for
  the renames the running action has in flight (`Expected`), and that its ctime is
  the ledger's, unless the running action has just moved it (`Marked`). So no check
  fails but for a fault, and `CountOK` counts each lost action against one.

`LedgerTells` joins the last two into `LedgerIsRight`. TLC checked `OwnInv` as an
invariant before it was proved.

Two statements are narrower than they first were, because the proof did not go
through and TLC had not been asked. `ReplacementIsDigest` claims nothing where
others may put a changed file's mtime back (`Rewinds`): the ledger's identity has
no ctime at the moment it adopts a replacement. `CompletedIsFreed` speaks of the
links `realize` counted and, of an allocation nobody touched, of where they are:
with two outside acts, one that replaces a quarantined file and one that adds an
outside link, the count of links is right and the names are not. TLC checks the
corrected statements with two outside acts as well (3.6 million states, too many
for the run that is kept).

`ConstantsOK` says nothing of the code: the values that stand for "none" are not
also an inode, a name, a snapshot or an identity, and bounds are numbers.
`ObjectsOK` and `PlansOK` are the plan's, above. `Termination` (liveness under
fairness is out of the prover's reach) is checked by TLC only.

## InstanceLock

### State and actions against the code

Several processes share one state directory. The lock is an flock on a file
that is looked up by name, so the state is what lies at the name (`at`), and per
file its `shape`, the pid written in it (`holder`) and the process that has its
lock (`flock`). Each process has a command line and the policy of its config
file, a `pc`, the descriptor and verdict of its attempt, a role, and its own
list of files and names that a rename may not touch (`LOCK_FILES`).

| Action | Code |
|---|---|
| `Open`, `FlockTaken`, `FlockBusy`, `CannotTell` | `try_acquire`: open or create, the shape checks, `try_lock` |
| `Truncate`, `Write` | `write_holder`, which empties the file before it writes and drops both errors: the old data may stay, the new may be missing or torn |
| `ReadHolder` | `read_holder`, by name and without the lock |
| `Refused`, `Operate`, `Observe` | `decide`, `decide_headless` and what `run_tui` does with the answer |
| `Window` | `App::new` lists the name, whoever has the lock |
| `PressR`, `PressF`, `Forced` | the start-up overlay; F tries once more and goes in regardless |
| `MoveLockFile` | `rename_noreplace` of the lock file or of a directory above it, refused by `unless_part_of_lock` |
| `Quit` | the end of `App`: lock and entries go, the threads of an interface go on (`leaving`) |
| `Die` | the end of the process: the kernel closes its descriptors |

The shape checks and the open are one step (the file they look at is the
descriptor's), and so are `LOCK_FILES`' entry and the flock, which the code
takes under the list's write guard. Two histories are kept for the properties:
`wrote`, that a holder's data went to its file, and `strayed`, the files that
were renamed by a thread whose interface was gone.

### Runs

* **lock_orderly** - three processes, so that one may quit while another waits
  and a third starts, with forced, asking and observing starts among them. Two
  front ends operate at once only if one was let in (`OneOperator`); the locked
  file stays at its name (`NameKept`); a taken lock means an operator, and the
  file names it once its data went there (`LockTells`). One thing breaks the
  first two, and they name it: a thread that outlived its interface has no list
  of lock files left to ask (`lock.rs:147`), so it may rename the file that the
  next process has just locked, and the one after that finds the name free.
* **lock_left_behind** (a violation) - `OneWriter` takes the manual at its word
  (`01-intro.md:83`: "only one writing `dedcom` per state directory") and counts
  the threads left behind as writers. The lock goes with the interface
  (`lock.rs:42`): after an exit that does not wait, a start in between operates
  beside them.

Reading the code for this model showed three smaller disagreements with the
manual that no run is spent on: a `--read-only` start does take a free lock for
a moment (`main.rs:736`), the ask policy does not ask when it meets the file
before its holder has written its data (`main.rs:791`), and the pid in the
message may then be that of an earlier process (`lock.rs:404`).

Two files at the name are enough: a third could only come after a second was
moved away, and no step tells the first from the second. **Fairness** is weak
fairness of each process's attempt and decision, which wait for nobody
(`try_lock` does not block); no run checks a liveness property of this module.

### Proofs

`InstanceLockProofs` proves, for any number of processes and files and from
`ConstantsOK`:

* `LockFileStays`: `Spec => []NameKept`. The list of a window that may rename is
  never empty (`WindowOK`), so the file at the name is moved only by a thread
  without one, and then it has strayed.
* `OneOperatorAtATime`: `Spec => []OneOperator`. An operator that was not let in
  has the flock of the file at the name or of a strayed one (`OperatorOK`,
  `AttemptOK`), and a file has one holder.
* `LockTypeCorrect` and `TheLockTells`: `Spec => []TypeOK` and
  `Spec => []LockTells`, whichever of the writes fail. `GuardOK` lists the stages
  in which a process can have the lock, what it has written there and in which
  role: the data is written inside the lock and before the decision, and an
  observer has dropped its guard before its window opens.

## Interface

### State and actions against the code

The interface composes four parts that meet only through queues and flags: the
event loop with `App`, one browsing actor at a time, the workers, and what
befalls the process. A handler runs to its end on the loop's thread, so it is
one step. `app` is a record, and each handler an operator from `app` to `app`;
a handler that calls another is written as the composition of the two, in the
order of the calls, so that a trailing `advance_shutdown` or
`settle_scan_screen` is part of the handler.

`thread[i]` is actor `i`'s own state: running, unwound by a panic (`"dropped"`)
or ended; the scan and activation it has installed; whether its slot is
poisoned. `app.queue[i]` is its channel, `inbox` the channel back. `app.scan`,
`app.apply`, `app.moves`, `app.purges` are what App believes is running;
`app.work` is what is. `app.pending` are the marks the window waits for,
`app.ledger` the tickets on the actor's handle. `stale`, `app.last`, `app.late`
and `app.keyQuit` are history and guard nothing.

| Operators and actions | Code |
|---|---|
| `Pass`, `PassLosesTerminal`, `Handle`, `Timeout`, `End` | `event_loop` (`main.rs`): the flags, the frame, one event or none |
| `Look`, `AutoSwitch`, `OnCoveringScan` | every commander frame asks which scan covers the active panel, and follows the answer |
| `OpenViaActor`, `OnOpenFinished`, `InstallOpened`, `UninstallBrowsing` | opening a scan, and losing the database |
| `SettleScanScreen`, `LeaveScanScreen`, `OnFinished` | the scan screen and the result it hands over to |
| `KeyMark`, `KeyAskClear`, `KeyClear`, `OnMarkAck`, `SettleTicket` | marks: ticket and request together, then the acknowledgement |
| `KeyPlan`, `OnPlan`, `KeyConfirm`, `KeyDecline`, `OnApplyFinished`, `Owe` | plan, confirmation, batch, and what it owes |
| `SendPendingReconcile`, `OnReconcileAck`, `StartGateReload`, `SettleGate` | the settlement and the gate that re-reads the marks |
| `KeyRole`, `BecomeOperator`, `BeginClose`, `OnActorClosed`, `RetireActor` | replacing the actor; its one terminal |
| `RequestShutdown`, `AdvanceShutdown` | the staged exit: producers, settlement, drain, done |
| `ServeOpen` ... `ServeSwap`, `ServeShutdown`, `ServeRefusal` | one request of the actor, taken and answered |
| `ActorPanics`, `PanicTerminal` | a panic drops the receiver first; the terminal follows, and a join waits for it |
| `ApplyEnds`, `ApplyPanics`, `ScanEnds`, `MoveEnds`, `PurgeEnds`, `ProbeAnswers` | the one outcome of a worker |
| `Signal` | SIGINT and SIGTERM count, SIGHUP does not |

Of a scan only whether it has marks is kept (`db`): groups, rows and the text of
a plan do not decide any of this control. `ServeFault` is any refusal or error
of the store, `ServeSwap` another file at the database's path.

### Runs and bounds

A behaviour of the interface is as long as the operator likes, so each run has a
budget: how many marks, plans, scans, signals, faults and so on may occur.
Going back, declining and stopping are not bounded.

* **iface_ops** - one of fifteen budgets, all with two scans and two directories (a
  step into the other makes the window follow another scan). A batch with a mark, a
  directory entered or a failure of the store (`BatchBudgets`); an observer that
  becomes the operator while the actor panics, the store fails and the file is
  replaced (`RoleBudgets`); every way to end with a batch (`ExitBatchBudgets`) and with
  a move, a deletion or a scan (`ExitWorkBudgets`); a scan that ends while another is
  opened (`ScreenBudget`). `MarksHonest`: a write queued before an open never lands
  on the scan opened after it, no mark is waited for in vain, and the warning
  about unsettled marks is up while marks a batch carried out stand in the scan its
  settlement was addressed to. `OneActor`, `ExitWaits`: two signals, because
  the second is different; a hangup beside them, because it must not be the
  second. The run is of the fair specification and checks two liveness properties
  with them: `ShutdownEnds` with a batch or a scan and a panic of the actor, and
  `ScanScreenLeaves` with another scan being opened when the scan ends and an open
  that may fail.

The warning is promised of the scan the settlement was addressed to, and of no
other, because the code gives it no further. A settlement is addressed to the
scan shown at the report (`app.rs:3438`), which may be another (the run below). A
report that finds no scan shown (`app.rs:3460`) takes the marks for never written and
sends no settlement. A batch that panicked half-way
(`app.rs:3476`) is reported as failed: it may have changed files (`ApplyPanics` makes
its marks stale, or not), nothing is settled and nothing is said of its marks,
which stand until the operator clears them.

Actors are numbered as they are spawned, and there is no bound on them; one
spawned in the step under way has its thread (`Fresh`) when the step ends. One
run shows a sentence of the code that the code does not keep (`PROJECT.json`
quotes it):

* **iface_settles** - the settlement of a batch goes to whatever scan the
  commander shows when the batch reports. A directory entered before F11 can
  have an open in flight whose answer arrives while the batch runs. With the
  same open, a batch that was refused brings its plan back as confirmable over
  the other scan (`app.rs:3396`).

Others noted while modelling, which no run is spent on: an acknowledged mark
overwrites the request the gate waits for (`app.rs:1924`), so that no plan can be
built until the scan is opened again; work a key starts after the exit has passed
its first stage is not waited for (`app.rs:3711`; `ExitWaits` leaves out what was
started after the exit had begun, and no property speaks of it); an
acknowledgement that arrives while the fleet drains does not settle its ticket,
so the mark is reported as never acknowledged (`app.rs:2561`); and a request
after the actor's panic starts another actor, which `app.rs:3264` says it does
not get.

**Fairness** (`FairSpec`). The loop waits 200 ms at most, so a pass and a timeout
are weakly fair; its channel is first in, first out, so an event is handled in
the end although keys arrive (strong fairness of `Handle`, since a key takes the
turn). The actor and workers are threads; moves, deletions and probes end by
themselves, a scan or a batch is only assumed to end once it was told to stop.
The conditions are written out instead of `ENABLED`, which TLC would have to
compute by trying every handler.

### Proofs

`InterfaceProofs` proves the four invariants of `iface_ops` for any scans,
directories and budgets, so for any number of actors, requests and events, of
which the run has two or three: `MarksAreHonest` (`MarksHonest`),
`ExitWaitsForWork` (`ExitWaits`), `OneActorAtATime` (`OneActor`) and `Types`
(`TypeOK`). They assume nothing but `ConstantsOK`. None of the four is inductive.
`IInv` adds what ties the window to the queues and threads it does not look into:

* `Lands`, where writes land. An open that stands in the queue is the one the
  window waits for, there is one, it has the activation after the one shown, and
  no answer to it is in the inbox (`AsksWell`); a write in the queue under the
  activation the actor has installed is for the scan installed. What the actor
  has installed is what an answer in the inbox says, or, if there is none, what
  the window shows (`WorksFor`). Two answers in the inbox never answer the same
  open (`BoxOK`). And the scan a batch is owed at is no longer stale, or the
  warning stands, or the settlement is on its way (`OwesOK`, and the last parts
  of `AsksWell` and `BoxOK`). An activation id is used again after an open that
  failed, which is why the ids alone say nothing and each part needs the others.
* `Good`, the fleet: the actor whose terminal is owed is the last one spawned,
  every mark waited for has its ticket on the ledger, and an idle fleet has an
  empty one. While a step is under way an actor that has dropped its receiver may
  stand beside its successor (`Housed`); between steps it may not (`Hosted`),
  since `Become` joins it.
* `Counts`: what the window counts as under way (`moves`, `purges`, `probes`,
  `scan`, `apply`) is what the workers run and the reports in the inbox, together.
  Hence a batch is reported once, and an exit that waits for the window's counts
  has waited for the work and for its outcome.
* `Exits`: what each stage of the exit has waited for (`Leaving`), and that a
  batch, a scan or an open that is to be shown has its screen (`Way`), so that
  no key that starts or leaves something meets another under way. The screens
  fail to show it only when the loop is to end at its next pass.
* `Posted`, `Spent`, `Stored`: what an event says is so; the signals counted are
  those spent; stale marks are marks the database holds.

A handler is an operator from App to App, and is built of others. So what a
handler keeps is proved of the operator, for any record: `Keeps(a, b, box)` says
that `b` is as good as `a`, that work and way out are as they were, and that
writes still land where they should while `box` is the inbox. `Keeps` composes
(`KeepsOn`), and so the proof follows the calls: `SendKeeps`, `OpenKeeps`,
`ScreenKeeps`, `AdvanceKeeps` are proved once, and a handler that ends with
`advance_shutdown` cites the last. An answer to an open needs its own form
(`Comes`), since between taking it and installing it nothing says what the actor
has; a scan that ends after the exit has let go of the panels another (`Held`).
The proof had to carry along what no property names: a plan answered has a scan,
and so has the batch confirmed from it and its report; a write is never for no
scan.

## WalkAccount and DirTwins

### State and actions against the code

`WalkAccount` is a walk over a fixed disk of a handful of entries, each with a
fate: kept, without metadata, filtered, not UTF-8, special, an error of the
iterator; a directory may be listed, shut, without an identity, or the alias of
another. A path is a sequence of numbers, `<<>>` the root of the file system.
`Items(root)` is what the `ignore` iterator hands over of a root; what is still to
come is the set `walk.todo`, and its next item is the first in the iterator's order
(`Before`, `IsFirst`). `walk.cells` counts the events of each cell of the account; the
64 bits of a count and the 63 of the checkpoint's are scaled down to `MaxU64` and
`MaxI64`. Only files have names that are not UTF-8: every directory has a key, so
the climb of `attribute_child` to the nearest ancestor with one (`walk.rs:359`) always
takes its first candidate, and an event below a directory without a key is not
modelled.

| Action or operator | Code |
|---|---|
| `NextRoot`, `Absorb`, `WalkFinished`, `WalkStopped` | `walk_roots`: one root after the other, one item after the other, the stop looked at every `CheckEvery` entries |
| `AbsorbFile`, `AbsorbFolder`, `SettledBy` | `Sink::absorb` and `attribute_child`, with every early return |
| `NoteFolder`, `SettleUnverified` | `DirAliasGuard::note`, and the directory whose identity is still open when the next item comes |
| `RecordChild`, `RecordError`, `TallyRecord`, `Snapshot` | the omission collector, for roots with keys and the tally for those without |
| `BeginGrouping`, `TakeFile`, `CloseFrame`, `CompleteScan` | `DirTwins`: the stream of sorted files, the stack of open directories, the status |
| `Disposition`, `OmittedAtOrUnder` | `omission.rs`: trusted, untrusted or suppressed |
| `OldSignature`, `OldDirs` | the whole-subtree build (`DirSigAlgo::Old`), the reference for the streaming one |

### Run

* **dir_twins** - a root with two directories of one shape, each with a directory
  of its own, and a root that is a file; any two entries with any other fate, or
  up to three files of one folder that are left out for one reason, four
  assignments of contents. `WalkIsAccounted`: one event for each thing left out,
  no folder counted twice, no tree walked twice. `GroupingIsSound`: two
  directories shown as trusted twins hold the same files, gaps counted, and the
  streaming and the whole-subtree build agree. `CleanMeansComplete`: a scan that
  ends without a warning holds every file the operator did not filter out.

Two fates are needed for an unverified directory to meet its own failing listing,
or two gaps to cancel out between the twins. Depth three is the least at which a
gap lies below a directory that has none itself. Two events of one cell are one
more than the checkpoint can store (`MaxI64 = 1`), three one more than the collector
can count (`MaxU64 = 2`), and without keys three of one reason are what the tally
cannot count: both ends of the numeric edge are reached, as a failed account. Every behaviour is finite, and a
state without a successor other than the end would be reported as a deadlock, so
that the walk ends needs no property.

### Proofs

`DirTwinsProofs` proves all four invariants of the run for any disk, any roots none
of which lies in another, any bounds and any moment of a stop. What it assumes is
named: `DiskAssumption` (entries are finitely many and what lies between an entry and
its root are folders), `WorldsAssumption` (files have fates of files), `RootsAssumption`,
`BoundsAssumption`, and `NoneAssumption` (`None` is no folder, failure or end). Nothing is
assumed of contents, sizes, unread files or the alias. `IInv` is `WalkInv`,
`GroupInv` and `StatusInv`.

* `WalkIsAccountedFor` (`WalkIsAccounted`), by `WalkInv`, which says of a walk under
  way what the property says of a published one. What was met is what is no
  longer to come of the roots begun (`Met`), so that the account is exact at every
  step (`Account` of `LostAs`) but for the folder that waits for its identity. That
  each waiting folder is counted once, and none that was gone into at all, rests
  on the order: depth first is convex (`Convex`: what comes between two
  items of a folder lies in it) and nothing comes between a folder and the failure
  to list it (`NothingBetween`). The manifest and the alias guard are `Manifest`; that
  a folder without an identity was never gone into is `NotEntered`.
* `CleanScansAreComplete` (`CleanMeansComplete`), from the first and `Gapless`: a
  file that is not in the manifest has a lost entry at or above it, the topmost
  folder that could not be entered, and so an event that is no filter's.
* `GroupingIsRight` (`GroupingIsSound`), by `GroupInv`: the stack is the chain of
  accountable ancestors of one file that was handed over (`Chain`), a frame holds what
  was handed over and written directly in its directory, and is incomplete exactly
  if something there has no digest or signature (`FrameIs`), a directory whose frame
  is gone gets no further file, and was written exactly if it is whole (`Written`), and
  two signatures are equal exactly if the whole subtrees are (`Paired`). The last is
  shown one level at a time (`TwinsMatch`): a frame holds names with digests, which
  are no signatures, and names with signatures that are right already, and what two
  subtrees have of one name matches exactly if they do (`Ascend`, `Descend`); suppression is inherited upwards
  (`SuppressedAbove`), so a child that is missing in the build of old is missing here.
  `TwinsAreTwins` joins this with `TrustedHolds`: nothing is missing from the
  manifest below a trusted directory.
* `TypeCorrect`.

That a set of items has a first one is not proved: without it the walk would stop
short, which TLC would report as a deadlock, and no safety property rests on it.

## ScanResult and ScanPipeline

### State and actions against the code

`db[s]` is a scan of the checkpoint: status, trash flag, manifest rows with the
identity each had and its digest, the omissions, whether the ledger is complete
(`authority`), publication and directories. `ses` is the running session, which a
crash erases; `disk` is what lies on the disk, with a stamp (mtime and ctime) per
object and a device number per mount; `jobs` are the purge threads. `seen` and
`written` are history: what each walk met, and the content each stamp stands for.

| Action | Code |
|---|---|
| `StartScan`, `ResumeScan`, `ClearForWalk` | `run_scan` and `run_phases`: a new id, or the resume rule `need_walk`; `clear_files` |
| `WalkEntry`, `WalkEnds`, `PersistBatch`, `PublishOmissions`, `SetHashing` | the walk, its rows in batches, the ledger in a transaction of its own, the status |
| `Inherit`, `Propagate` | digests of past scans of the same object, and of hard links |
| `StartBatch`, `OpenFile`, `ReadFile`, `ReadFails`, `CheckFile`, `Checkpoint` | `hash_file_verified` in its four looks, on the pool's threads, and the transaction after each batch |
| `BeginGrouping`, `WriteDirs`, `Publish`, `SetComplete` | directories, publication, status: three transactions |
| `ListHistory`, `TrashOld` | `apply_retention`, one update per scan |
| `TrashScan`, `RestoreScan`, `OrderPurge`, `PurgeScan`, `ScanGone` | the operator, the purge's thread, and the session whose scan it took |
| `Edit`, `Unlink`, `Mount`, `Crash`, `Stop` | the disk, the machine, the stop flag |

`ScanResult` is what a reader is promised: a scan is begun, ends once with a
result, shows it unchanged and is discarded as a whole. `ScanPipeline` implements
it (`ShowsScanResult`, by `INSTANCE ... WITH`): a scan is done when its status
says so, and its result is the groups it shows.

### Run

* **scan_pipeline** - three names on two roots, two of them possibly one object;
  a denied file; roots without keys; sessions resumed after a crash or a stop at
  any transaction, or with a file edited, unlinked or unmounted in between, or
  with three orders of the operator. `HashIsTruth`: no digest in the checkpoint is
  of another content than its times stand for, however it came there.
  `ResultIsOfScan`: ledger and manifest are of one walk, the result is that of the
  digests, a completion has seen an account. `NothingForgotten`: retention never
  takes the last scan of a root, not for one that found it unmounted; a resumption
  loses no digest. `SessionEnds`, and the refinement.

Three ids with `Keep = 1` are what retention needs to trash one and keep one.
`MaxStamp` bounds how often the disk changes; an edit and an unlink of one file
are enough for every case of the four looks. Each budget spends what its case
needs. **Fairness** is weak fairness of the session's thread and of its readers;
neither the operator, the disk nor a crash is fair, and a purge need not happen.

### Proofs

`ScanPipelineProofs` proves, for any files, roots, disks, sizes of batch and
budgets (`PipelineAssumption`: what a disk and a budget are, and that "none" is no
id, object, content or publication):

* `DigestsAreTrue` (`HashIsTruth`). The invariant says what a stamp stands for
  (`DiskOK`), that a row's digest is that of its stamp (`RowOK`), and of a read in
  flight that it is of the content its first look saw as long as the object's
  stamp is still that one (`ReadOK`). Stamps only grow, so the last look decides.
* `ResultBelongs` (`ResultIsOfScan`). `Work` says what of its scan is already
  true at each place of the session: the ledger open until the walk is accounted
  for, directories of the manifest before it is published, a publication that
  groups by the digests before the status says complete.
* `NothingIsForgotten` (`NothingForgotten`), with `TrashOK`: what retention has
  listed has no root that the session's own scan has not.
* `ReadersSeeScanResult` (`ShowsScanResult`): the refinement of `ScanResult`. For
  each scan, a step of the pipeline is a step of the reader's view of it or
  leaves that view alone (`ReaderStepOK`); a completed scan never changes its
  groups because its session only retires others.
* `TypeCorrect`.

`SessionEnds` is liveness and stays with TLC.

## Membership

### State and actions against the code

Three connections meet at one checkpoint: the browsing actor's, the running
session's and the batch's lease. `db[s]` holds here what membership is made of:
per path a digest, the groups with their ranks and counts, the explicit member
rows after `--verify`, the mode, the generation, the marks. `cache[c]` is the
verdict a connection remembers and what it was reached on (`data_version`, the
generation); `plan` carries the witness of the groups it was built on; `lease` is
the writer's lock of the batch.

| Action | Code |
|---|---|
| `StartScan` ... `SetStatus`, `ViewOwnResult`, `SessionFails`, `SessionCrashes` | the session's transactions as far as they touch membership, each with the cache it revokes |
| `TrashScan`, `PurgeScan`, `Damage` | other writers, and an edit of the database from outside |
| `OpenScan`, `Prepare`, `PrepareLegacy` | opening a scan, and the summaries of a scan of an older version (see below) |
| `SetMark`, `ClearMarks`, `BuildPlan`, `DropPlan` | marks; the plan, which trusts only a sound verdict |
| `LeaseBegin`, `LeaseBusy`, `LeaseValidate`, `LeaseRelease`, `Settle`, `OperatorCrashes` | `acquire_membership_lease`: BEGIN IMMEDIATE, every witness checked again, the settlement |
| `SelectExport`, `OpenExport`, `PublishExport` | `open_trusted_export`: a scan is selected, then opened and checked again |
| `ValidateAuthority`, `ValidateExplicitWitness`, `ValidateDerivedWitness` | the two validators, each as the code has it |

`PrepareLegacy` is one step where the code has two: it reads in autocommit whether a
scan has a result (`store.rs:3840`) and writes summaries in a transaction
(`store.rs:2067`) that does not look again. A completed scan is not resumed, so only a
purge can come between. A write to a purged scan fails on its foreign key. What is
left out is that the id is given to a new scan which is walked, hashed and published
within that one call: `materialize_browse_summaries` would then write over the
published groups, and `ResultsStand` says nothing of it.

### Run

* **membership** - four files, two scan ids, so that an id is given twice after a
  purge; two pairs, one digest that `--verify` takes apart, and a file that cannot
  be read in some session. `LeasedIsPlanned`: while the batch runs, every group is
  what its plan says, to the file and the digest. `VerdictIsFresh`: a verdict that
  would be used again is the one reached now. `PlanIsLeasable`: the lease refuses
  no plan that nothing has happened to. `ResultsStand`: looking at an old scan
  replaces nothing, an export is of a result that stays.

One group with three members and one with two are the least that can lose a member
without ceasing to be a group. Only safety is stated: nobody has to press a key.

### Proofs

`MembershipProofs` proves, for any files, worlds, old checkpoints and budgets:

* `RememberedVerdictIsFresh` (`VerdictIsFresh`): every transaction that changes
  membership either revokes the writer's own cache or moves the number the
  others compare, and a verdict is remembered with what it was reached on.
* `LeaseHoldsThePlan` (`LeasedIsPlanned`): the grant compares every witness,
  member by member (`GrantedIsPlanned`), and nothing writes until the release
  (`HeldQuiet`).
* `BuilderAgreesWithLease` (`PlanIsLeasable`), by `BuiltIsLeasable`: the two
  validators of the code, written apart, agree on a plan nothing has happened to.
* `SeenResultsStand` (`ResultsStand`). It needs the birth number of a scan
  (`BornOK`): an id is given again after a purge, and an export of the old scan
  must not be held against the new one (`Kept`).
* `TypeCorrect`.

`IInv` joins the shapes of the records, `BornOK` and `CsvOK` to the two safety
invariants. `MembershipAssumption` says of a checkpoint of an older version what
that version wrote (`OldScan`): no authority, no generation, and a result only of
a scan that came to its end. A scan others have edited from outside (`edited`) is
left out of what an export promises; `Damage` sets it.

## MoveBatch

### State and actions against the code

`fs` maps each path to the file, directory, dataset or link that lies there: a
dataset is a directory that a rename does not move and across whose edge nothing is
renamed (EXDEV, `OneDataset`), and it may lie anywhere in the tree. `panels` is the
sequence of the directories shown. `queue`,
`work` and `done` are the worker's requests, the batch under way (a stack of items,
since a merge goes into directories) and its reports; `log` and `undo` are the
interface's undo records and the undo it is carrying out itself. `snapped`,
`calm`, `alive` and the batch's `quiet` are history.

| Action | Code |
|---|---|
| `Send` | `perform_triage_move`, `ensure_source_snapshots`, `send_to_receiver`: from one panel to another, which may show the same directory; a snapshot of every dataset a marked source lies on, or no move |
| `Take`, `Look`, `LookAtFile`, `LookAtDir` | `run_batch`, `move_item`, `merge_dir`: what is refused at once, what the item is, the sorted listing |
| `HashAndCompare`, `Judge` | `move_file_item`: files of its size at the receiver, their digests, the duplicate's name |
| `LandFile`, `MoveWhole`, `RemoveMerged` | `move_to` with its suffixes, `move_dir_to`, the removal of a directory that was merged |
| `Finish`, `Panic` | the one report of a batch, of a worker that panicked too |
| `apply_move_outcome`, `undo_last_move`, `MakeParent`, `restore_one`, `UndoEnds` | the interface's thread, an undo item by item |
| `Create`, `Unlink` | others, in the same directories |

### Run

* **moves** - ten scenes: files and directories that meet their like (`Like`), the same
  with both panels on one directory, twins below a merged directory, a file in the way
  of a directory, the state directory with a dataset beside it, a panel that shows a
  directory of the other (`Nested`, `Late`), a dataset mounted in a directory that is
  moved or merged (`Mounted`), one that holds a copy of the directories that lead to it
  and is shown by a panel (`Copied`), and two empty directories of one name among three
  panels. They go through two or three moves and two undos, a failing call, files that
  others create and unlink, a panic.
  `FilesStand`: every file nobody unlinked lies at exactly one path, and the state
  directory's files where they were. `RecordIsTrue`: a batch without a failure left
  nothing behind of what it found or of what others put there before it was through, an
  undisturbed undo restores every file. `TwinNamed`: a file moved to another directory
  takes a duplicate's name exactly if its twin is there. `SafeguardReaches`: nothing
  leaves a dataset without a snapshot while none is mounted below an entry of a panel.
  `PendingSettles`: every batch is reported.
* **moves_snapshot** (a violation) - `SafeguardFirst` takes the doc comment of
  `ensure_source_snapshots` at its word (`tui/commander/mod.rs:2636`: "A safeguard ZFS
  snapshot of every affected source dataset"). It asks for the datasets of the marked
  sources, and `merge_dir` (`move_batch.rs:198`) goes on into a dataset mounted below one.
  Most of what it then tries fails, since a rename to another dataset is refused. But
  where the directory it merges into lies in that same dataset the renames succeed, and
  files leave a dataset of which no snapshot was made.

Two moves are what an undo beside a batch needs. **Fairness** is weak fairness of
the worker and of the interface's loop; a panic, a key and others are not fair.

A disagreement no run is spent on: `perform_triage_move` compares the panels' numbers
(`tui/commander/mod.rs:2226`), so both may show one directory. A file that is moved there
is found among its own candidates, counts as its own twin and is renamed `name.dup1`,
where `move_file.rs:38` calls moving into the same directory a no-op that is rejected; and
an empty directory is merged into itself, that is, removed. The model does the same
(the second scene, `Like` on one panel); `TwinNamed` speaks of moves to another directory.
Also noted: a batch whose worker panicked loses the undo of what it had moved; an undo is
not journaled. A link in the model leads to no directory, where `move_batch.rs:136` follows
one that does and merges into what it leads to.

### Proofs

`MoveBatchProofs` proves, for any file system, number of batches, undos, faults
and changes by others:

* `FilesAreKept` (`FilesStand`). The heart is that a rename makes a tree of a
  tree and keeps the files (`RenamedIs`), shown from what paths are. The
  invariant `IInv` adds what a batch may be asked to move (`Source`): it lies below
  what a panel shows, and if a file of the state directory lies below it then so does
  the database or the lock file, which is why the refusal of those two protects all of
  them; and that what was moved went to where no file of the state directory lies, which
  an undo relies on (`Moves`, in the reports, the log and the undo).
* `TwinsAreNamed` (`TwinNamed`), by `AnswerStands`: as long as nothing disturbs the
  batch, what the worker asked of the directory is still so when it acts on it.
* `RecordsAreTrue` (`RecordIsTrue`), from `CleanBatchesAreMoved` and, for the undo,
  `UndoInv`. `CleanBatchesAreMoved`: a report without a
  failure tells the truth. `CleanInv` says that as long as nothing has failed
  whatever the batch found and did not move yet has a frame of the stack above it
  (`Covered`), the removal of the merged directory it lies in at the least, which
  cannot succeed before it is gone; that a removal never finds fewer failures than
  its merge began with (`Counted`), so that the failure it leaves uncounted was
  counted by a child; and that nothing comes back to where the batch found it
  (`Routed`): a batch takes everything equally far up or down the tree, or, between
  two panels of one depth, below the one it goes to. Between two panels on one directory
  it takes nothing anywhere else: only files are renamed there, each time to a name with
  more parts (`Longer`), so that what was renamed is not where it lay.
* `UndoInv` keeps the history of the trees, as long as nothing comes between: there are
  trees such that each item of each undo record was renamed from within the tree the
  one before it left (`Takes`, `Leads`), each record's batch began where the record
  before it led, with its files where the record says (`Tells`, `Lay`), and what is
  there now lies within the last of them. *Within*, and not equal to: a merge removes
  directories it has emptied, so that a tree may have lost directories, never a
  file. To move an item back from within the tree that the move led to leads within the tree
  the move was made from (`TakenBack`), so an undo, last item first, walks the history
  back to where the files lay (`Lay`). Its very path is free for an item that is still
  there, and its parent, which `MakeParent` made of what the tree of the move had, lies
  on the same dataset (`RestoredIs`). Nobody moves anything meanwhile: the
  interface takes no report and sends no batch during an undo, and
  with nothing pending (`Alone`) the worker is idle.
* `TypeCorrect`.

Two things that were thought to hold do not, which the attempts at these proofs
showed and the last two scenes keep. A file that others create below a source the
batch has dealt with already, in a directory of that name that was moved there
meanwhile, is not the batch's to report: `LateFor` asks for what is still on the
stack. And an undisturbed undo may report a failure: an empty directory that was
moved and then merged away by a later batch is not there to be taken back. No file
is concerned, so `UndoRestores` speaks of the files, and of the place each item
that is there goes to.

`SafeguardReaches` is checked by TLC only.

`FilesAssumption` says that equal digests are of files of equal size,
`NoneAssumption` that `None` is no path, batch or undo.
`ScenesAssumption` says that the file system is a tree and that no panel shows the state
directory itself. Datasets may be mounted anywhere, and panels may show one directory
or each other's.

## OpenDatabases

### State and actions against the code

SQLite drops the locks a process has on a file when any descriptor of it is
closed, and finds the file by name. `dir` maps names to file numbers, which are
used again; `noted` is what the list has of each connection, `holds` what SQLite
has open for it. A connection goes through the steps of an opener and of the drop
of `HeldConnection`: `Prepare`, `LookAtName`, `List`, `SqliteOpens`, `Settle` (the
second look of `settled_identity`), `SqliteReads`, `NoteFiles`, then `Announce`,
`SqliteCloses`, `Leave`. A reader looks, opens and drops (`ReadFile`); a mover looks,
asks and renames with the list held for reading, which keeps every step that
writes to it out. `Outsider` replaces, links, moves and unlinks files. Of the
three files of a database the journal and its index behave alike, so the index
stands for both. The last connection to close may remove the index or leave it
(`SqliteCloses`), as SQLite does when another process has the database open or the
connection may not write, so a later connection may find one it did not make. The opener of the apply lease takes no second look; a connection
whose file is not the one probed is left out of `ListIsTrue` either way.

### Run

* **open_databases** - two connections on one database, one reader, one mover, one
  act of others. `ListIsTrue`: no close drops a lock of a connection that was not
  interfered with from outside, and no number in the list outlives its file.
  `KeptAtItsName`: no rename takes a file SQLite holds from its name.

Two connections are what it takes for the index to be removed by one and made
anew by the other. What others may spoil is named (`blind`): a file of the
database that they replace or move while it is not noted yet, or no more. The
code says the same of `settled_identity`. Numbers, connections and plain names
are interchangeable. Only safety is stated.

### Proofs

`OpenDatabasesProofs` proves `ListTells` (`ListIsTrue`), `RenameKeepsOpenFiles`
(`KeptAtItsName`) and `TypeCorrect` (the shape of the
state, which no run repeats) for any number of connections, readers, movers
and acts of others. `IInv` says, for each step of an opening or a closing, which of
its files the list knows by number and which only by name (`Opening`, `Holding`,
`Noting`), and for a rename that has asked, what cannot come to lie at the name it
asked about while it has the list (`Clear`). The proof found what one outside act
cannot show: with two, a file is taken from its name between a mover's look and
its rename and the number is given to a new database. `quiet` excludes that for the
mover and `blind` for the connection, and both are history only.

## Not modelled, and why

Rendering, key handling that only moves a cursor, text sanitising, logging,
argument parsing, ZFS output parsing and the benchmark keep no state the
properties speak of. In `Interface` the requests that only fetch rows for a
panel, the auto-select sweep, the wizard's review window, session list and
trash, the start-up disclaimer and a panic of the interface's own thread are
left out; a deletion from the trash is started from the panels. ACL and
attribute copying (`actions/meta.rs`) is one call that succeeds or fails. The
digest and wording of a confirmation (`PlanDigest`) are left out. A schema migration is one transaction of statements whose
content is data. `move_track.rs` is a pure comparison; it reports a deleted
duplicate as moved onto its surviving twin, which the manual's page on the trash
(`10-diff-trash.md`) does not say. The journal of moves and the digest cache are
written on a best effort and read by nothing. `PROJECT.json` gives the reason
for each component.

The source is large because of what is left out here: screens, the rows of
panels, SQL text, messages, and tests, which are most of its lines.

## What is proved and what is only checked

Proved for every value of the constants: all that the runs of `MCApplyBatch`,
`MCInstanceLock`, `MCInterface`, `MCDirTwins`, `MCScanPipeline`, `MCMembership`, `MCMoveBatch`
and `MCOpenDatabases` check but for what follows, and what `ApplyBatch` assumes of plans.

Checked by TLC only:

* liveness (`Termination`, `SessionEnds`, `PendingSettles`, `ShutdownEnds`,
  `ScanScreenLeaves`), which is out of the prover's reach;
* `SafeguardReaches` of `MoveBatch`;
* the total `Ceiling` computes, a recursive function over a set, of which the proofs
  use nothing: what recursion computes needs induction over data.

Where a proof needs induction it takes a least element instead: a smallest set, or
a least number, for which a claim fails (`Least`, `SortedExists`).

## Plan

Done: `PlanBuilder`, `ApplyBatch`, `InstanceLock`, `Interface`, `WalkAccount` and `DirTwins`,
`ScanResult` and `ScanPipeline`, `Membership`, `MoveBatch`, `OpenDatabases`;
theorems about each of them.

Next, in the order of what a mistake would cost:

1. To model: the auto-select sweep and the review window; the two steps of
   `prepare_browse_summaries` apart; links that lead to directories in a merge.
2. To prove: `SafeguardReaches`.
