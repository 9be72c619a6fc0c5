----------------------------- MODULE ApplyBatch -----------------------------
(***************************************************************************)
(* One guarded destructive batch (src/actions/mod.rs): lease, structural   *)
(* preflight, obstacles, safety snapshots, second preflight, then the      *)
(* actions one by one, each checked against the runtime ledger             *)
(* (src/model/plan.rs), re-hashed, carried out by renames that never       *)
(* overwrite, and settled with the ledger again.                           *)
(*                                                                         *)
(* Between any two system calls of the batch somebody else ("the outsider")*)
(* may change the same files, and any call of the batch may fail.          *)
(***************************************************************************)
EXTENDS Naturals, Sequences, FiniteSets, PlanBuilder

CONSTANTS
    Paths,       \* the member pathnames of the plan's witness
    Inodes,      \* every inode the run may use: the plan's allocations and spares
    Datasets,    \* the ZFS datasets, one device each
    Groups,      \* the duplicate groups; a group stands for its digest
    None,
    InodeOf,     \* [Paths -> Inodes]    the allocation the manifest recorded
    GroupOf,     \* [Paths -> Groups]
    DatasetOf,   \* [Paths -> Datasets]
    Outside,     \* [Inodes -> Nat]      links outside the scan at scan time
    Plans,       \* the action plans a batch may be given
    Known,       \* the datasets the host reported (Dataset::device_id)
    ReflinkSafe, \* the host can clone blocks
    Cloning,     \* the datasets whose pool has block_cloning
    Strict,      \* the plans applied with RevalidationMode::Strict; Hybrid otherwise
    Rewinds,     \* the outsider's writes may put the old mtime back
    MaxSuffix,   \* bound: quarantine names tried on a collision
    MaxOutsider, \* bound: plan -> moves of the outsider
    MaxFaults    \* bound: plan -> calls of the batch that fail on their own

Data == Groups \cup {"foreign", "symlink"}

(***************************************************************************)
(* Names of the file tree: a member pathname, the staging name made next   *)
(* to it, and the names its quarantine directory may give it.              *)
(***************************************************************************)
Home(p) == <<"home", p, 0>>
Temp(p) == <<"temp", p, 0>>
Quar(p, n) == <<"quarantine", p, n>>
Homes == {Home(p) : p \in Paths}
Temps == {Temp(p) : p \in Paths}
Quars == {Quar(p, n) : p \in Paths, n \in 0..MaxSuffix}
Locs == Homes \cup Temps \cup Quars

Objects == {InodeOf[p] : p \in Paths}
Members(o) == {p \in Paths : InodeOf[p] = o}
Links(o) == Cardinality(Members(o)) + Outside[o]

Action == [kind : Kinds, target : Paths, keeper : Paths]

ASSUME ConstantsOK ==
    /\ IsFiniteSet(Paths)
    /\ None \notin Inodes /\ None \notin Datasets /\ None \notin Locs
    /\ None \notin [Paths -> Data \cup {None}]
    /\ None \notin [ino : Inodes, mtime : Nat, ctime : Nat, nlink : Nat]
    /\ Groups \cap {"foreign", "symlink"} = {}
    /\ InodeOf \in [Paths -> Inodes]
    /\ GroupOf \in [Paths -> Groups]
    /\ DatasetOf \in [Paths -> Datasets]
    /\ Outside \in [Inodes -> Nat]
    /\ Known \subseteq Datasets /\ Cloning \subseteq Datasets
    /\ ReflinkSafe \in BOOLEAN /\ Strict \subseteq Plans /\ Rewinds \in BOOLEAN
    /\ MaxSuffix \in Nat /\ MaxOutsider \in [Plans -> Nat] /\ MaxFaults \in [Plans -> Nat]

\* What ActionPlan::try_new guarantees of a plan it builds (ApplyBatchProofs).
ASSUME PlansOK ==
    \A plan \in Plans :
        plan \in Seq(Action) /\ Executable(plan, GroupOf, InodeOf, DatasetOf)

\* One allocation lies on one dataset and belongs to one group.
ASSUME ObjectsOK ==
    \A p, q \in Paths : InodeOf[p] = InodeOf[q] =>
        DatasetOf[p] = DatasetOf[q] /\ GroupOf[p] = GroupOf[q]

VARIABLES
    plan,       \* the plan being applied
    setAside,   \* the actions its confirmation counted out
    dir,        \* the file tree: name -> inode
    node,       \* inode -> contents, times, links outside the tree's names
    snap,       \* dataset -> what its safety snapshot holds, None before it
    pc,         \* the batch's next step
    cur,        \* the action being carried out
    obstacles,  \* the actions refused before the first snapshot
    ledger,     \* RuntimeLedger: allocation -> identity, locations, trust
    clones,     \* the identities RuntimeLedger::cloned entered
    verified,   \* Batch::verified, the Hybrid cache
    seen,       \* a stat made before the read it belongs to
    moved,      \* where the running action's original is in quarantine
    pub,        \* how far the running action's publication came
    results,    \* the outcomes so far
    cancel,     \* ApplyShared::cancel
    ending,     \* how the run ended
    touched,    \* history: names and allocations the outsider changed
    faults,     \* faults still to come
    outsider    \* outsider's moves still to come

treeVars == <<dir, node>>
batchVars == <<plan, setAside, snap, pc, cur, obstacles, ledger, clones,
               verified, seen, moved, pub, results, ending>>
vars == <<treeVars, batchVars, cancel, touched, faults, outsider>>

(***************************************************************************)
(* The file tree.                                                          *)
(***************************************************************************)
Nlink(i) == Cardinality({l \in Locs : dir[l] = i}) + node[i].outside
Linked(i) == (\E l \in Locs : dir[l] = i) \/ node[i].outside > 0
Bump(i) == [node EXCEPT ![i].ctime = @ + 1]

\* The eight fields of LiveIdentity; device and size go with the inode and the mtime.
Identity(l) == [ino |-> dir[l], mtime |-> node[dir[l]].mtime,
                ctime |-> node[dir[l]].ctime, nlink |-> Nlink(dir[l])]
\* live_identity answers: the name exists and is not a symbolic link.
Live(l) == dir[l] # None /\ node[dir[l]].data # "symlink"

\* Mutated FileIdentity: ctime is left out, so a rewound mtime goes unseen.
FileIdentityNoCtime(l) == [ino |-> dir[l], mtime |-> node[dir[l]].mtime, ctime |-> 0]

\* FileIdentity, the re-stat guard of the Hybrid cache.
FileIdentity(l) == [ino |-> dir[l], mtime |-> node[dir[l]].mtime,
                    ctime |-> node[dir[l]].ctime]

\* Mutated RenameOK: a plain rename, which overwrites.
RenameOverwrites(from, to) == dir[from] # None

\* A rename that does not overwrite: the inode keeps all but its ctime.
RenameOK(from, to) == dir[from] # None /\ dir[to] = None
Rename(from, to) ==
    /\ dir' = [dir EXCEPT ![to] = dir[from], ![from] = None]
    /\ node' = Bump(dir[from])

Ids == [ino : Inodes, mtime : Nat, ctime : Nat, nlink : Nat]
FileIds == [ino : Inodes, mtime : Nat, ctime : Nat]
Entry == [id : Ids \cup {None}, paths : SUBSET Locs, settled : BOOLEAN]
Untracked == [id |-> None, paths |-> {}, settled |-> FALSE]
Outcome == [res : {"Removed", "Refused", "RolledBack", "Stranded", "Unsettled"},
            quarantine : Locs \cup {None}]

(***************************************************************************)
(* The running action.                                                     *)
(***************************************************************************)
act == plan[cur]
target == Home(act.target)
keeper == Home(act.keeper)
temp == Temp(act.target)
targetObject == InodeOf[act.target]
keeperObject == InodeOf[act.keeper]
digest == GroupOf[act.target]

\* preflight::place: the plan's own answer, pure.
Place(a) ==
    /\ a.kind = "Reflink" => ReflinkSafe
    /\ a.kind # "Delete" => DatasetOf[a.keeper] = DatasetOf[a.target]
    /\ DatasetOf[a.target] \in Known
    /\ a.kind = "Reflink" => DatasetOf[a.target] \in Cloning

\* Mutated Preflight: ctime is not compared.
PreflightNoCtime ==
    \A o \in Objects : \A p \in Members(o) :
        LET l == Home(p) IN
        Live(l) /\ Identity(l) = [ino |-> o, mtime |-> 0, ctime |-> node[o].ctime,
                                  nlink |-> Links(o)]

\* ActionPlan::preflight: every pathname of every allocation is still what the scan recorded.
Preflight ==
    /\ \A o \in Objects : \A p \in Members(o) :
        /\ Live(Home(p))
        /\ Identity(Home(p)) = [ino |-> o, mtime |-> 0, ctime |-> 0, nlink |-> Links(o)]
    /\ \A i \in DOMAIN plan : dir[Home(plan[i].target)] # dir[Home(plan[i].keeper)]

\* The dataset of the first action that can run and has no snapshot yet.
Affected == {DatasetOf[plan[i].target] : i \in DOMAIN plan \ obstacles}
NextAffected(d) ==
    \E i \in DOMAIN plan \ obstacles :
        /\ d = DatasetOf[plan[i].target] /\ d \in Known /\ snap[d] = None
        /\ \A j \in DOMAIN plan \ obstacles :
            j < i => snap[DatasetOf[plan[j].target]] # None

(***************************************************************************)
(* RuntimeLedger.                                                          *)
(***************************************************************************)
\* RuntimeLedger::check
Check(o) ==
    /\ ledger[o].settled
    /\ \A l \in ledger[o].paths : Live(l) /\ Identity(l) = ledger[o].id

\* Mutated SameButCtime: the link count is not compared.
SameButLinks(o, l) ==
    /\ Live(l) /\ ledger[o].id # None
    /\ Identity(l) = [ledger[o].id EXCEPT !.ctime = node[dir[l]].ctime,
                                          !.nlink = Nlink(dir[l])]

\* The reading of quarantined and settled: nothing but ctime may have moved.
SameButCtime(o, l) ==
    /\ Live(l) /\ ledger[o].id # None
    /\ Identity(l) = [ledger[o].id EXCEPT !.ctime = node[dir[l]].ctime]

\* Mutated LinkedOnce: the keeper's mtime is not compared.
LinkedAnyMtime(o, k, published) ==
    /\ Live(k) /\ ledger[o].id # None
    /\ Identity(k) = [ledger[o].id EXCEPT !.ctime = node[dir[k]].ctime,
                                          !.mtime = node[dir[k]].mtime, !.nlink = @ + 1]
    /\ Live(published) /\ Identity(published) = Identity(k)

\* The reading of linked: one link more, and the published name is that allocation.
LinkedOnce(o, k, published) ==
    /\ Live(k) /\ ledger[o].id # None
    /\ Identity(k) = [ledger[o].id EXCEPT !.ctime = node[dir[k]].ctime, !.nlink = @ + 1]
    /\ Live(published) /\ Identity(published) = Identity(k)

\* The reading of cloned: the keeper untouched, the published name a fresh allocation with
\* the replaced file's own times.
ClonedOnce(o, original, k, published) ==
    /\ Live(k) /\ Identity(k) = ledger[o].id
    /\ Live(published) /\ ledger[original].id # None
    /\ dir[published] \notin {ledger[o].id.ino, ledger[original].id.ino}
    /\ node[dir[published]].mtime = ledger[original].id.mtime
    /\ Nlink(dir[published]) = 1

Poisoned(l, os) ==
    [o \in Inodes |-> IF o \in os THEN [l[o] EXCEPT !.settled = FALSE] ELSE l[o]]

\* settled: the identity is adopted where the pathname is.
Settled(o, l) == [ledger EXCEPT ![o].id = Identity(l)]

\* Mutated Adopt: the batch's own ctime is not adopted.
AdoptNoIdentity(o, from, to) == [ledger EXCEPT ![o].paths = (@ \ {from}) \cup {to}]

\* quarantined: adopt the identity, replace the pathname.
Adopt(o, from, to) ==
    [ledger EXCEPT ![o].id = Identity(to), ![o].paths = (@ \ {from}) \cup {to}]

(***************************************************************************)
(* The specification.                                                      *)
(***************************************************************************)
Init ==
    /\ plan \in Plans
    /\ setAside \in SUBSET DOMAIN plan
    /\ dir = [l \in Locs |-> IF l \in Homes THEN InodeOf[l[2]] ELSE None]
    /\ node = [i \in Inodes |->
                 [data |-> IF i \in Objects THEN GroupOf[CHOOSE p \in Members(i) : TRUE]
                                            ELSE "foreign",
                  mtime |-> 0, ctime |-> 0, outside |-> Outside[i]]]
    /\ snap = [d \in Datasets |-> None]
    /\ pc = "lease"
    /\ cur = 0
    /\ obstacles = {}
    /\ ledger = [i \in Inodes |-> Untracked]
    /\ clones = [p \in Paths |-> None]
    /\ verified = [p \in Paths |-> None]
    /\ seen = None
    /\ moved = None
    /\ pub = "none"
    /\ results = <<>>
    /\ cancel = FALSE
    /\ ending = "running"
    /\ touched = {}
    /\ faults = MaxFaults[plan]
    /\ outsider = MaxOutsider[plan]

Goto(label) == pc' = label
End(how) == pc' = "done" /\ ending' = how
Fault == faults > 0 /\ faults' = faults - 1
NoFault == UNCHANGED faults
Same == UNCHANGED <<plan, setAside, cancel, touched, outsider>>

\* apply_guarded_with: the lease is refused, and nothing has been done.
LeaseRefused ==
    /\ pc = "lease" /\ End("Refused")
    /\ UNCHANGED <<treeVars, snap, cur, obstacles, ledger, clones, verified, seen, moved,
                   pub, results, faults>> /\ Same

LeaseTaken ==
    /\ pc = "lease" /\ Goto("preflight")
    /\ UNCHANGED <<treeVars, snap, cur, obstacles, ledger, clones, verified, seen, moved,
                   pub, results, ending, faults>> /\ Same

\* run_batch step 1: the structural preflight, before anything exists.
PreflightFirst ==
    /\ pc = "preflight"
    /\ IF Preflight THEN Goto("obstacles") /\ UNCHANGED ending ELSE End("Failed")
    /\ UNCHANGED <<treeVars, snap, cur, obstacles, ledger, clones, verified, seen, moved,
                   pub, results, faults>> /\ Same

\* preflight::obstacles: place's refusals, and whatever the probes of the host find.
MayFind == {found \in SUBSET DOMAIN plan : \A i \in DOMAIN plan : ~Place(plan[i]) => i \in found}

\* run_batch steps 2 and 3: with every action in somebody's way the batch refuses as a whole.
FindObstacles ==
    /\ pc = "obstacles"
    /\ \E found \in MayFind : obstacles' = found \cup setAside
    /\ IF obstacles' = DOMAIN plan THEN End("Refused") ELSE Goto("snapshots") /\ UNCHANGED ending
    /\ UNCHANGED <<treeVars, snap, cur, ledger, clones, verified, seen, moved,
                   pub, results, faults>> /\ Same

\* What a snapshot of dataset d keeps: the contents of each of its pathnames now.
Contents(d) ==
    [p \in Paths |-> IF DatasetOf[p] # d \/ dir[Home(p)] = None THEN None
                                                           ELSE node[dir[Home(p)]].data]

\* run_batch step 4: one safety snapshot per affected dataset.
CreateSnapshot ==
    /\ pc = "snapshots"
    /\ \E d \in Datasets : NextAffected(d) /\ snap' = [snap EXCEPT ![d] = Contents(d)]
    /\ UNCHANGED <<treeVars, pc, cur, obstacles, ledger, clones, verified, seen, moved,
                   pub, results, ending, faults>> /\ Same

\* Mutated FailedSnapshot: the snapshots already made are forgotten.
FailedSnapshotForgets == "Failed"

\* A failure before the first snapshot is an error; after it, the batch aborts and names
\* the snapshots it leaves.
FailedSnapshot == IF \A d \in Datasets : snap[d] = None THEN "Failed" ELSE "Aborted"

SnapshotFails ==
    /\ pc = "snapshots" /\ Fault
    /\ \E d \in Datasets : NextAffected(d)
    /\ End(FailedSnapshot)
    /\ UNCHANGED <<treeVars, snap, cur, obstacles, ledger, clones, verified, seen, moved,
                   pub, results>> /\ Same

SnapshotsMade ==
    /\ pc = "snapshots" /\ ~\E d \in Datasets : NextAffected(d)
    /\ Goto("preflight2")
    /\ UNCHANGED <<treeVars, snap, cur, obstacles, ledger, clones, verified, seen, moved,
                   pub, results, ending, faults>> /\ Same

\* run_batch step 5: the second preflight; its reading opens the ledger.
PreflightSecond ==
    /\ pc = "preflight2"
    /\ IF Preflight
         THEN /\ Goto("boundary") /\ UNCHANGED ending
              /\ ledger' = [i \in Inodes |->
                    IF i \in Objects
                      THEN [id |-> [ino |-> i, mtime |-> node[i].mtime,
                                    ctime |-> node[i].ctime, nlink |-> Nlink(i)],
                            paths |-> {Home(p) : p \in Members(i)}, settled |-> TRUE]
                      ELSE Untracked]
         ELSE End("Aborted") /\ UNCHANGED ledger
    /\ UNCHANGED <<treeVars, snap, cur, obstacles, clones, verified, seen, moved,
                   pub, results, faults>> /\ Same

\* Mutated AllReached: one action too many.
AllReachedLate == cur > Len(plan)
AllReached == cur = Len(plan)

\* run_batch step 6, at the boundary of two actions: the end, the cancel flag, the next one.
Boundary ==
    /\ pc = "boundary"
    /\ IF AllReached \/ cancel
         THEN End("Finished") /\ UNCHANGED <<cur, moved, pub>>
         ELSE /\ cur' = cur + 1 /\ moved' = None /\ pub' = "none"
              /\ Goto("check") /\ UNCHANGED ending
    /\ UNCHANGED <<treeVars, snap, obstacles, ledger, clones, verified, seen,
                   results, faults>> /\ Same

\* The action is over; the batch goes on with the next one.
Report(res, quarantine) ==
    /\ results' = Append(results, [res |-> res, quarantine |-> quarantine])
    /\ Goto("boundary")

\* Batch::apply_one: obstacle, guarded_place, then the ledger, target and keeper alike.
Guarded == Place(act) /\ snap[DatasetOf[act.target]] # None

\* Mutated ApplyOne: the gate in front of the ledger is gone.
ApplyOneUngated ==
    /\ pc = "check"
    /\ IF Check(targetObject) /\ Check(keeperObject)
         THEN Goto("statTarget") /\ UNCHANGED results
         ELSE Report("Refused", None)
    /\ UNCHANGED <<treeVars, snap, cur, obstacles, ledger, clones, verified, seen, moved,
                   pub, ending, faults>> /\ Same

ApplyOne ==
    /\ pc = "check"
    /\ IF /\ cur \notin obstacles /\ Guarded
          /\ Check(targetObject) /\ Check(keeperObject)
         THEN Goto("statTarget") /\ UNCHANGED results
         ELSE Report("Refused", None)
    /\ UNCHANGED <<treeVars, snap, cur, obstacles, ledger, clones, verified, seen, moved,
                   pub, ending, faults>> /\ Same

\* Where an action goes once its files are verified.
FirstStep == CASE act.kind = "Delete" -> "look"
               [] act.kind = "Hardlink" -> "build"
               [] act.kind = "Reflink" -> "meta"

\* verify_file, the stat: a symbolic link refuses; Hybrid trusts an identity it has hashed.
Stat(p, hash, next) ==
    /\ IF ~Live(Home(p))
         THEN Report("Refused", None) /\ UNCHANGED seen
         ELSE /\ seen' = FileIdentity(Home(p))
              /\ Goto(IF plan \notin Strict /\ verified[p] = seen' THEN next ELSE hash)
              /\ UNCHANGED results
    /\ UNCHANGED <<treeVars, snap, cur, obstacles, ledger, clones, verified, moved,
                   pub, ending, faults>> /\ Same

\* verify_file, the read: the identity remembered is the one read before the bytes.
Hash(p, next) ==
    /\ IF Live(Home(p)) /\ node[dir[Home(p)]].data = digest
         THEN /\ verified' = IF plan \in Strict THEN verified ELSE [verified EXCEPT ![p] = seen]
              /\ Goto(next) /\ UNCHANGED results
         ELSE Report("Refused", None) /\ UNCHANGED verified
    /\ seen' = None
    /\ UNCHANGED <<treeVars, snap, cur, obstacles, ledger, clones, moved, pub, ending,
                   faults>> /\ Same

StatTarget == pc = "statTarget" /\ Stat(act.target, "hashTarget", "statKeeper")
HashTarget == pc = "hashTarget" /\ Hash(act.target, "statKeeper")
StatKeeper == pc = "statKeeper" /\ Stat(act.keeper, "hashKeeper", FirstStep)
HashKeeper == pc = "hashKeeper" /\ Hash(act.keeper, FirstStep)

\* publish_clone: meta::read of the target, before anything is built.
ReadMeta ==
    /\ pc = "meta"
    /\ \/ /\ dir[target] # None /\ NoFault
          /\ seen' = FileIdentity(target) /\ Goto("build") /\ UNCHANGED pub
       \/ /\ IF dir[target] = None THEN NoFault ELSE Fault
          /\ pub' = "NotMoved" /\ Goto("settleTarget") /\ UNCHANGED seen
    /\ UNCHANGED <<treeVars, snap, cur, obstacles, ledger, clones, verified, moved,
                   results, ending>> /\ Same

\* evacuate_then_publish (1): the replacement under its staging name.
BuildLink ==
    /\ act.kind = "Hardlink" /\ dir[keeper] # None
    /\ dir' = [dir EXCEPT ![temp] = dir[keeper]]
    /\ node' = Bump(dir[keeper])

BuildClone ==
    /\ act.kind = "Reflink" /\ Live(keeper)
    /\ \E i \in Inodes :
        /\ ~Linked(i)
        /\ dir' = [dir EXCEPT ![temp] = i]
        /\ node' = [node EXCEPT ![i] = [data |-> node[dir[keeper]].data, mtime |-> seen.mtime,
                                        ctime |-> @.ctime + 1, outside |-> 0]]

Build ==
    /\ pc = "build" /\ dir[temp] = None
    /\ NoFault /\ (BuildLink \/ BuildClone)
    /\ Goto("look") /\ seen' = None
    /\ UNCHANGED <<snap, cur, obstacles, ledger, clones, verified, moved, pub, results,
                   ending>> /\ Same

BuildFails ==
    /\ pc = "build" /\ seen' = None
    /\ IF dir[keeper] = None \/ (act.kind = "Reflink" /\ ~Live(keeper))
         THEN NoFault ELSE Fault
    /\ pub' = "NotMoved" /\ Goto("removeTemp")
    /\ UNCHANGED <<treeVars, snap, cur, obstacles, ledger, clones, verified, moved, results,
                   ending>> /\ Same

\* What is told when the original could not be moved: a delete is simply refused, a
\* publication drops its replacement first.
NotMoved ==
    IF act.kind = "Delete"
      THEN Report("Refused", None) /\ UNCHANGED pub
      ELSE pub' = "NotMoved" /\ Goto("removeTemp") /\ UNCHANGED results

\* delete_to_quarantine: the look at the target before the rename.
QuarantineLook ==
    /\ pc = "look"
    /\ IF Live(target) THEN Goto("move") /\ UNCHANGED <<pub, results>> ELSE NotMoved
    /\ UNCHANGED <<treeVars, snap, cur, obstacles, ledger, clones, verified, seen, moved,
                   ending, faults>> /\ Same

\* delete_to_quarantine: the first free name, claimed by the rename itself.
FreeName(n) == dir[Quar(act.target, n)] = None
                 /\ \A m \in 0..MaxSuffix : m < n => dir[Quar(act.target, m)] # None

QuarantineMove ==
    /\ pc = "move" /\ NoFault
    /\ \E n \in 0..MaxSuffix :
        /\ FreeName(n) /\ RenameOK(target, Quar(act.target, n))
        /\ Rename(target, Quar(act.target, n))
        /\ moved' = Quar(act.target, n)
    /\ IF act.kind = "Delete" THEN pub' = "Published" /\ Goto("settleTarget")
                              ELSE Goto("publish") /\ UNCHANGED pub
    /\ UNCHANGED <<snap, cur, obstacles, ledger, clones, verified, seen, results, ending>>
    /\ Same

QuarantineFails ==
    /\ pc = "move"
    /\ IF dir[target] = None \/ ~\E n \in 0..MaxSuffix : FreeName(n) THEN NoFault ELSE Fault
    /\ NotMoved
    /\ UNCHANGED <<treeVars, snap, cur, obstacles, ledger, clones, verified, seen, moved,
                   ending>> /\ Same

\* evacuate_then_publish (3): the replacement into the freed slot.
Publish ==
    /\ pc = "publish" /\ NoFault
    /\ RenameOK(temp, target) /\ Rename(temp, target)
    /\ pub' = "Published" /\ Goto("settleTarget")
    /\ UNCHANGED <<snap, cur, obstacles, ledger, clones, verified, seen, moved, results,
                   ending>> /\ Same

\* Mutated PublishFails: a taken slot is tried again.
PublishRetries ==
    /\ pc = "publish" /\ ~RenameOK(temp, target)
    /\ UNCHANGED <<treeVars, snap, cur, obstacles, ledger, clones, verified, seen, moved, pc,
                   pub, results, ending, faults>> /\ Same

PublishFails ==
    /\ pc = "publish"
    /\ IF RenameOK(temp, target) THEN Fault ELSE NoFault
    /\ pub' = "Failed" /\ Goto("removeTemp")
    /\ UNCHANGED <<treeVars, snap, cur, obstacles, ledger, clones, verified, seen, moved,
                   results, ending>> /\ Same

\* remove_replacement, and the best-effort removal after a failed build or evacuation.
RemoveTemp ==
    /\ pc = "removeTemp"
    /\ \/ /\ NoFault
          /\ dir' = [dir EXCEPT ![temp] = None]
          /\ node' = IF dir[temp] = None THEN node ELSE Bump(dir[temp])
       \/ Fault /\ dir[temp] # None /\ UNCHANGED treeVars
    /\ Goto(IF pub = "Failed" THEN "putBack" ELSE "settleTarget")
    /\ UNCHANGED <<snap, cur, obstacles, ledger, clones, verified, seen, moved, pub, results,
                   ending>> /\ Same

\* The original back from quarantine, when its slot is still free.
PutBack ==
    /\ pc = "putBack" /\ NoFault
    /\ RenameOK(moved, target) /\ Rename(moved, target)
    /\ pub' = "RolledBack" /\ Goto("settleTarget")
    /\ UNCHANGED <<snap, cur, obstacles, ledger, clones, verified, seen, moved, results,
                   ending>> /\ Same

\* Mutated PutBackFails: a failed put-back is told as a rollback.
PutBackClaimed ==
    /\ pc = "putBack"
    /\ IF RenameOK(moved, target) THEN Fault ELSE NoFault
    /\ pub' = "RolledBack" /\ Goto("settleTarget")
    /\ UNCHANGED <<treeVars, snap, cur, obstacles, ledger, clones, verified, seen, moved,
                   results, ending>> /\ Same

PutBackFails ==
    /\ pc = "putBack"
    /\ IF RenameOK(moved, target) THEN Fault ELSE NoFault
    /\ pub' = "Stranded" /\ Goto("settleTarget")
    /\ UNCHANGED <<treeVars, snap, cur, obstacles, ledger, clones, verified, seen, moved,
                   results, ending>> /\ Same

\* after_move, when a transition does not add up: neither allocation is trusted again.
Unsettle ==
    /\ ledger' = Poisoned(ledger, {targetObject, keeperObject})
    /\ Report("Unsettled", moved)

\* The target's half of after_move and of finish_publication.
SettleTarget ==
    /\ pc = "settleTarget"
    /\ LET where == IF pub \in {"Published", "Stranded"} THEN moved ELSE target
           ok == SameButCtime(targetObject, where)
           adopted == IF where = target THEN Settled(targetObject, target)
                                        ELSE Adopt(targetObject, target, where)
       IN  IF pub = "Published"
             THEN IF ~ok THEN Unsettle
                  ELSE /\ ledger' = adopted
                       /\ IF act.kind = "Delete" THEN Report("Removed", moved)
                          ELSE Goto("settleKeeper") /\ UNCHANGED results
             ELSE /\ ledger' = IF ok THEN adopted ELSE Poisoned(ledger, {targetObject})
                  /\ Goto("settleKeeper") /\ UNCHANGED results
    /\ UNCHANGED <<treeVars, snap, cur, obstacles, clones, verified, seen, moved, pub,
                   ending, faults>> /\ Same

\* linked and cloned.
SettlePublished ==
    /\ pub = "Published"
    /\ \/ /\ act.kind = "Hardlink" /\ LinkedOnce(keeperObject, keeper, target)
          /\ ledger' = [ledger EXCEPT ![keeperObject].id = Identity(keeper),
                                      ![keeperObject].paths = @ \cup {target}]
          /\ Report("Removed", moved) /\ UNCHANGED clones
       \/ /\ act.kind = "Reflink" /\ ClonedOnce(keeperObject, targetObject, keeper, target)
          /\ clones' = [clones EXCEPT ![act.target] = Identity(target)]
          /\ Report("Removed", moved) /\ UNCHANGED ledger
       \/ /\ ~(act.kind = "Hardlink" /\ LinkedOnce(keeperObject, keeper, target))
          /\ ~(act.kind = "Reflink" /\ ClonedOnce(keeperObject, targetObject, keeper, target))
          /\ Unsettle /\ UNCHANGED clones

\* The keeper's half of finish_publication: settled, or poisoned, whatever the target's was.
SettleFailed ==
    /\ pub # "Published"
    /\ ledger' = IF SameButCtime(keeperObject, keeper)
                   THEN Settled(keeperObject, keeper)
                   ELSE Poisoned(ledger, {keeperObject})
    /\ CASE pub = "NotMoved" -> Report("Refused", None)
         [] pub = "RolledBack" -> Report("RolledBack", None)
         [] pub = "Stranded" -> Report("Stranded", moved)
    /\ UNCHANGED clones

SettleKeeper ==
    /\ pc = "settleKeeper"
    /\ SettlePublished \/ SettleFailed
    /\ UNCHANGED <<treeVars, snap, cur, obstacles, verified, seen, moved, pub, ending, faults>>
    /\ Same

Worker ==
    \/ LeaseRefused \/ LeaseTaken \/ PreflightFirst \/ FindObstacles
    \/ CreateSnapshot \/ SnapshotFails \/ SnapshotsMade \/ PreflightSecond
    \/ Boundary \/ ApplyOne
    \/ StatTarget \/ HashTarget \/ StatKeeper \/ HashKeeper
    \/ ReadMeta \/ Build \/ BuildFails
    \/ QuarantineLook \/ QuarantineMove \/ QuarantineFails
    \/ Publish \/ PublishFails \/ RemoveTemp \/ PutBack \/ PutBackFails
    \/ SettleTarget \/ SettleKeeper

(***************************************************************************)
(* Everybody else on the host. Staging names carry the pid, the time and a *)
(* counter, so nobody else makes or takes one.                             *)
(***************************************************************************)
Cancel ==
    /\ ~cancel /\ pc # "done" /\ cancel' = TRUE
    /\ UNCHANGED <<treeVars, batchVars, touched, faults, outsider>>

Outsider == pc # "done" /\ outsider > 0 /\ outsider' = outsider - 1
Rest == UNCHANGED <<batchVars, cancel, faults>>

\* A write in place; a careful tool may put the old mtime back.
OutsiderWrites(l) ==
    /\ Outsider /\ dir[l] # None
    /\ \E step \in IF Rewinds THEN {0, 1} ELSE {1} :
        \E data \in Groups \cup {"foreign"} :
            node' = [node EXCEPT ![dir[l]].data = data, ![dir[l]].ctime = @ + 1,
                                 ![dir[l]].mtime = @ + step]
    /\ touched' = touched \cup {l, dir[l]}
    /\ UNCHANGED dir /\ Rest

\* Another file, or a symbolic link, takes the name, over whatever held it.
OutsiderPuts(l) ==
    /\ Outsider
    /\ \E i \in Inodes, data \in {"foreign", "symlink"} :
        /\ ~Linked(i)
        /\ dir' = [dir EXCEPT ![l] = i]
        /\ node' = [n \in Inodes |->
              IF n = i THEN [data |-> data, mtime |-> node[i].mtime + 1,
                             ctime |-> node[i].ctime + 1, outside |-> 0]
              ELSE IF n = dir[l] THEN [node[n] EXCEPT !.ctime = @ + 1] ELSE node[n]]
        /\ touched' = touched \cup {l, i} \cup ({dir[l]} \ {None})
    /\ Rest

OutsiderRemoves(l) ==
    /\ Outsider /\ dir[l] # None
    /\ dir' = [dir EXCEPT ![l] = None] /\ node' = Bump(dir[l])
    /\ touched' = touched \cup {l, dir[l]} /\ Rest

OutsiderLinks(l) ==
    /\ Outsider /\ dir[l] # None
    /\ node' = [node EXCEPT ![dir[l]].outside = @ + 1, ![dir[l]].ctime = @ + 1]
    /\ touched' = touched \cup {dir[l]}
    /\ UNCHANGED dir /\ Rest

OutsiderMoves ==
    \E l \in Homes \cup Quars :
        OutsiderWrites(l) \/ OutsiderPuts(l) \/ OutsiderRemoves(l) \/ OutsiderLinks(l)

Done == pc = "done" /\ UNCHANGED vars

Next == Worker \/ Cancel \/ OutsiderMoves \/ Done

Spec == Init /\ [][Next]_vars /\ WF_vars(Worker)

-----------------------------------------------------------------------------
Steps == {"lease", "preflight", "obstacles", "snapshots", "preflight2", "boundary", "check",
          "statTarget", "hashTarget", "statKeeper", "hashKeeper", "meta", "build", "look",
          "move", "publish", "removeTemp", "putBack", "settleTarget", "settleKeeper", "done"}

TypeOK ==
    /\ plan \in Plans
    /\ setAside \subseteq DOMAIN plan /\ obstacles \subseteq DOMAIN plan
    /\ dir \in [Locs -> Inodes \cup {None}]
    /\ node \in [Inodes -> [data : Data, mtime : Nat, ctime : Nat, outside : Nat]]
    /\ snap \in [Datasets -> [Paths -> Data \cup {None}] \cup {None}]
    /\ pc \in Steps
    /\ cur \in 0..Len(plan)
    /\ ledger \in [Inodes -> Entry]
    /\ clones \in [Paths -> Ids \cup {None}]
    /\ verified \in [Paths -> FileIds \cup {None}]
    /\ seen \in FileIds \cup {None}
    /\ moved \in Locs \cup {None}
    /\ pub \in {"none", "NotMoved", "Failed", "RolledBack", "Stranded", "Published"}
    /\ results \in Seq(Outcome)
    /\ cancel \in BOOLEAN
    /\ ending \in {"running", "Refused", "Failed", "Aborted", "Finished"}
    /\ touched \subseteq Locs \cup Inodes
    /\ faults \in Nat /\ outsider \in Nat

(***************************************************************************)
(* What the batch reports: ActionPlan::realize and settle_marks.           *)
(***************************************************************************)
Covered(o) == {i \in DOMAIN plan : InodeOf[plan[i].target] = o}
ResultsOf(o) == {results[i].res : i \in Covered(o) \cap DOMAIN results}

\* object_realization, in its fixed order.
Realization(o) ==
    CASE ResultsOf(o) \cap {"Stranded", "Unsettled"} # {} -> "Unknown"
      [] OTHER ->
         IF /\ Covered(o) \subseteq DOMAIN results
            /\ ResultsOf(o) = {"Removed"}
            /\ Cardinality(Members(o)) = Cardinality(Covered(o))
            /\ Links(o) = Cardinality(Members(o))
           THEN "Completed" ELSE "Zero"

\* Mutated Ran: an action that was refused or rolled back did not run.
RanRemovedOnly == {i \in DOMAIN results : results[i].res = "Removed"}

\* An action ran when it was reached and nothing stood in its way before the snapshots.
Ran == IF ending = "Finished" THEN DOMAIN results \ obstacles ELSE {}
SpentGroups == {GroupOf[plan[i].target] : i \in Ran}

-----------------------------------------------------------------------------
\* A file somebody can still reach by a name that is not a staging name.
Held(i) == (\E l \in Homes \cup Quars : dir[l] = i) \/ node[i].outside > 0

\* No step of the batch takes the last name from a file or changes its bytes: whatever
\* the outsider does meanwhile, a file that could be reached still can be (SAFETY.md:
\* quarantine instead of rm, renames that never overwrite).
NothingLost ==
    [][Worker => \A i \in Inodes : Held(i) => Held(i)' /\ node'[i].data = node[i].data]_vars

\* A name is given or taken only on a dataset whose safety snapshot this batch has made.
SnapshotFirst ==
    [][Worker => \A l \in Locs : dir'[l] # dir[l] => snap[DatasetOf[l[2]]] # None]_vars

\* Once a target has been moved, the snapshot of its dataset holds the scanned contents at
\* its pathname: the two preflights around the snapshots leave no room for a stale one.
SnapshotHoldsOriginal ==
    \A i \in DOMAIN plan :
        (\/ i \in DOMAIN results /\ results[i].quarantine # None
         \/ i = cur /\ moved # None) =>
            LET p == plan[i].target IN
            snap[DatasetOf[p]] # None /\ snap[DatasetOf[p]][p] = GroupOf[p]

\* A replacement reported as published has the scanned contents, for as long as the
\* allocation is the one the ledger adopted when it was settled; where somebody puts a changed
\* file's mtime back, no identity without ctime could tell, and nothing is claimed.
ReplacementIsDigest ==
    ~Rewinds => \A i \in DOMAIN results :
        LET a == plan[i] IN
        results[i].res = "Removed" /\ dir[Home(a.target)] # None =>
            /\ a.kind = "Hardlink" /\ Identity(Home(a.target)) = ledger[InodeOf[a.keeper]].id
                 => node[dir[Home(a.target)]].data = GroupOf[a.target]
            /\ a.kind = "Reflink" /\ Identity(Home(a.target)) = clones[a.target]
                 => node[dir[Home(a.target)]].data = GroupOf[a.target]

\* An identity in the Hybrid cache vouches for the bytes: a file that still has it has the
\* digest, although it was read in an earlier action and by pathname.
CacheIsHonest ==
    \A p \in Paths :
        verified[p] # None /\ Live(Home(p)) /\ FileIdentity(Home(p)) = verified[p]
            => node[dir[Home(p)]].data = GroupOf[p]

\* The batch's own renames, links and rollbacks never make it refuse a later action: with
\* no outsider, at most one action is lost per failed call (unless a staging link stayed).
OwnMarksNeverRefuse ==
    pc \in {"boundary", "done"} /\ outsider = MaxOutsider[plan] /\ (\A l \in Temps : dir[l] = None)
        => Cardinality({i \in DOMAIN results : i \notin obstacles /\ results[i].res # "Removed"})
             <= MaxFaults[plan] - faults

\* An allocation reported as freed is one the ledger still trusts; while it is as the ledger
\* adopted it, it has the links realize counted, and unless somebody changed it, quarantine
\* holds every one of them.
CompletedIsFreed ==
    ending = "Finished" => \A o \in Objects :
        Covered(o) # {} /\ Realization(o) = "Completed" =>
            /\ ledger[o].settled
            /\ node[o].ctime = ledger[o].id.ctime => Nlink(o) = Links(o)
            /\ o \notin touched =>
                node[o].outside = 0 /\ \A l \in Locs : dir[l] = o => l \in Quars

\* The report says where the original is: at the quarantine path it names, or, when it names
\* none, at its own pathname.
WhereaboutsReported ==
    \A i \in DOMAIN results :
        LET p == plan[i].target
            at == IF results[i].quarantine = None THEN Home(p) ELSE results[i].quarantine
        IN  /\ {Home(p), InodeOf[p], at} \cap touched = {} => dir[at] = InodeOf[p]
            /\ results[i].quarantine # None /\ at \notin touched => dir[at] # None

\* Marks the batch leaves are marks the next plan can use: every file of a group whose marks
\* were kept still has the identity the scan recorded, unless somebody else changed it.
KeptMarksStillMatch ==
    pc = "done" => \A p \in Paths :
        GroupOf[p] \notin SpentGroups /\ {Home(p), InodeOf[p]} \cap touched = {} =>
            /\ dir[Home(p)] = InodeOf[p]
            /\ Identity(Home(p)) = [ino |-> InodeOf[p], mtime |-> 0, ctime |-> 0,
                                    nlink |-> Links(InodeOf[p])]

\* A refused or failed run has made no snapshot; an aborted one has, and like them it has
\* renamed, linked and removed nothing.
StoppedRunsChangeNothing ==
    ending \in {"Refused", "Failed", "Aborted"} =>
        /\ results = <<>>
        /\ (ending = "Aborted") = (\E d \in Datasets : snap[d] # None)
        /\ \A l \in Locs \ touched : dir[l] = IF l \in Homes THEN InodeOf[l[2]] ELSE None

\* The batch ends: no failure, race or cancellation leaves the worker without a next step.
Termination == <>(pc = "done")

\* RuntimeLedger: with two names of one allocation in the plan, what the ledger keeps lets every
\* action find its own file, publishes only the scanned contents and counts only what is free.
LedgerIsRight == ReplacementIsDigest /\ OwnMarksNeverRefuse /\ CompletedIsFreed

\* preflight, verify_file and the Hybrid cache: what is trusted without another read was read, or
\* is kept by a snapshot, though an outsider puts contents and mtime back.
TrustIsEarned == SnapshotHoldsOriginal /\ CacheIsHonest

\* realize, settle_marks and the outcomes: what the batch says it left, where, and which marks it
\* keeps for the next plan, is what lies on the disk.
ReportIsTrue == WhereaboutsReported /\ KeptMarksStillMatch /\ StoppedRunsChangeNothing

=============================================================================
