---------------------------- MODULE InstanceLock ----------------------------
(***************************************************************************)
(* The single-instance lock (src/lock.rs) and the role it gives a process  *)
(* (src/main.rs, src/app.rs): an advisory flock on a file that the next    *)
(* process looks for by its name in the state directory.                   *)
(*                                                                         *)
(* Several processes start, take a role, work, quit and die over one state *)
(* directory. Each starts once, so a process is its own pid.               *)
(***************************************************************************)

CONSTANTS
    Procs,         \* the processes
    Files,         \* the files that may lie at the lock file's name
    Clis,          \* the command lines and configurations a process may start with
    Old,           \* a pid of no process: an earlier one's in a plain lock file, or a torn one
    None

Policies == {"Ask", "ReadOnly", "Block", "Allow"}
Front == {"tui", "headless"}
\* The parser refuses --read-only beside --force.
Cli == {c \in [front : Front, readOnly : BOOLEAN, force : BOOLEAN, policy : Policies] :
          ~(c.readOnly /\ c.force)}

ASSUME ConstantsOK ==
    /\ None \notin Procs \cup Files \cup {Old} /\ Old \notin Procs
    /\ Clis \subseteq Cli

VARIABLES
    at,       \* the file at the lock file's name
    shape,    \* file -> "plain", or "other": a link, a directory, a device, two names
    holder,   \* file -> the pid in it, None when empty
    flock,    \* file -> the process whose descriptor has the lock
    cli,      \* process -> its flags and the policy of its config file
    pc,       \* process -> its next step
    fd,       \* process -> the file its attempt opened
    state,    \* process -> LockState of its last attempt
    said,     \* process -> the holder's data its attempt read
    role,     \* process -> "operator" or "observer", None before the decision
    prompt,   \* process -> the start-up overlay is shown
    pressedF, \* process -> history: the operator pressed F
    listed,   \* process -> its entries in LOCK_FILES: "lock", "name"
    wrote,    \* process -> history: its data has gone to the file it has locked
    strayed   \* history: the files renamed by threads that outlived their interface

history == <<wrote, strayed>>
fileVars == <<at, shape, holder, flock, history>>
vars == <<fileVars, cli, pc, fd, state, said, role, prompt, pressedF, listed>>

Init ==
    /\ \E f \in Files, s \in {"plain", "other"} :
        /\ at \in {None, f}
        /\ shape = [g \in Files |-> IF g = f THEN s ELSE "plain"]
        /\ holder = [g \in Files |-> IF g = f /\ at = f THEN Old ELSE None]
    /\ flock = [f \in Files |-> None]
    /\ cli \in [Procs -> Clis]
    /\ pc = [p \in Procs |-> "off"]
    /\ fd = [p \in Procs |-> None]
    /\ state = [p \in Procs |-> None]
    /\ said = [p \in Procs |-> None]
    /\ role = [p \in Procs |-> None]
    /\ prompt = [p \in Procs |-> FALSE]
    /\ pressedF = [p \in Procs |-> FALSE]
    /\ listed = [p \in Procs |-> {}]
    /\ wrote = [p \in Procs |-> FALSE]
    /\ strayed = {}

Goto(p, label) == pc' = [pc EXCEPT ![p] = label]

(***************************************************************************)
(* try_acquire. Its own list of lock files is held to write from the open  *)
(* to the entry; other processes have lists of their own.                  *)
(***************************************************************************)
Start(p) ==
    /\ pc[p] = "off" /\ Goto(p, "open")
    /\ UNCHANGED <<fileVars, cli, fd, state, said, role, prompt, pressedF, listed>>

\* A file that was never at the name.
Fresh(f) == /\ f # at /\ f \notin strayed /\ holder[f] = None /\ shape[f] = "plain"
            /\ \A q \in Procs : fd[q] # f

\* Mutated Open: the file is emptied as it is opened, before anybody asks for the lock.
OpenTruncates(p) ==
    /\ pc[p] = "open"
    /\ \/ at # None /\ at' = at
       \/ at = None /\ \E f \in Files : Fresh(f) /\ at' = f
    /\ IF shape[at'] = "plain"
         THEN /\ Goto(p, "flock") /\ fd' = [fd EXCEPT ![p] = at'] /\ UNCHANGED state
              /\ holder' = [holder EXCEPT ![at'] = None]
         ELSE /\ Goto(p, "decide") /\ state' = [state EXCEPT ![p] = "NotOurs"]
              /\ UNCHANGED <<fd, holder>>
    /\ UNCHANGED <<shape, flock, cli, said, role, prompt, pressedF, listed, history>>

\* The open creates a missing file; what is not a plain file of one name is refused.
Open(p) ==
    /\ pc[p] = "open"
    /\ \/ at # None /\ at' = at
       \/ at = None /\ \E f \in Files : Fresh(f) /\ at' = f
    /\ IF shape[at'] = "plain"
         THEN Goto(p, "flock") /\ fd' = [fd EXCEPT ![p] = at'] /\ UNCHANGED state
         ELSE Goto(p, "decide") /\ state' = [state EXCEPT ![p] = "NotOurs"] /\ UNCHANGED fd
    /\ UNCHANGED <<shape, holder, flock, cli, said, role, prompt, pressedF, listed, history>>

\* Mutated Taken: the lock is booked under the file, not the process.
TakenByFile(p) == /\ flock' = [flock EXCEPT ![fd[p]] = fd[p]]
                  /\ listed' = [listed EXCEPT ![p] = @ \cup {"lock"}]

\* The lock is taken and its file listed before anything of this process can rename it.
Taken(p) == /\ flock' = [flock EXCEPT ![fd[p]] = p]
            /\ listed' = [listed EXCEPT ![p] = @ \cup {"lock"}]

FlockTaken(p) ==
    /\ pc[p] = "flock" /\ flock[fd[p]] = None
    /\ Taken(p)
    /\ state' = [state EXCEPT ![p] = "Held"]
    /\ Goto(p, "truncate")
    /\ UNCHANGED <<at, shape, holder, cli, fd, said, role, prompt, pressedF, history>>

FlockBusy(p) ==
    /\ pc[p] = "flock" /\ flock[fd[p]] # None
    /\ state' = [state EXCEPT ![p] = "Busy"]
    /\ fd' = [fd EXCEPT ![p] = None]
    /\ Goto(p, "read")
    /\ UNCHANGED <<fileVars, cli, said, role, prompt, pressedF, listed>>

\* The open or the flock fails for another reason: nothing is known about the lock.
CannotTell(p) ==
    /\ pc[p] \in {"open", "flock"}
    /\ state' = [state EXCEPT ![p] = "Unknown"]
    /\ fd' = [fd EXCEPT ![p] = None]
    /\ Goto(p, "decide")
    /\ UNCHANGED <<fileVars, cli, said, role, prompt, pressedF, listed>>

\* write_holder: set_len(0), then the pid and the time. Neither's error stops the start: the
\* old data may stay, and the new may be missing or torn.
Truncate(p) ==
    /\ pc[p] = "truncate"
    /\ holder' \in {holder, [holder EXCEPT ![fd[p]] = None]}
    /\ Goto(p, "write")
    /\ UNCHANGED <<at, shape, flock, cli, fd, state, said, role, prompt, pressedF,
                   listed, history>>

Write(p) ==
    /\ pc[p] = "write"
    /\ holder' \in {holder} \cup {[holder EXCEPT ![fd[p]] = pid] : pid \in {p, Old}}
    /\ wrote' = [wrote EXCEPT ![p] = holder'[fd[p]] = p]
    /\ Goto(p, "decide")
    /\ UNCHANGED <<at, shape, flock, cli, fd, state, said, role, prompt, pressedF,
                   listed, strayed>>

\* read_holder opens the file again, by its name.
ReadHolder(p) ==
    /\ pc[p] = "read"
    /\ said' = [said EXCEPT ![p] = IF at = None THEN None ELSE holder[at]]
    /\ Goto(p, "decide")
    /\ UNCHANGED <<fileVars, cli, fd, state, role, prompt, pressedF, listed>>

(***************************************************************************)
(* The role.                                                               *)
(***************************************************************************)
\* Mutated Decide: an unevaluable lock is taken for a free one.
DecideOpen(s, c) ==
    CASE c.readOnly -> "ReadOnly"
      [] ~c.readOnly /\ (s \in {"Held", "Unknown"} \/ c.force) -> "Operator"
      [] OTHER -> IF c.policy = "Allow" THEN "Operator" ELSE "Blocked"

\* lock::decide
Decide(s, c) ==
    CASE c.readOnly -> "ReadOnly"
      [] ~c.readOnly /\ (s = "Held" \/ c.force) -> "Operator"
      [] ~c.readOnly /\ ~c.force /\ s = "Unknown" -> "Blocked"
      [] ~c.readOnly /\ ~c.force /\ s = "Busy" ->
            (CASE c.policy = "Allow" -> "Operator"
               [] c.policy = "ReadOnly" -> "ReadOnly"
               [] c.policy = "Block" -> "Blocked"
               [] c.policy = "Ask" -> "Ask")

\* lock::decide_headless, and acquire_write_lock_with: an observer is refused too.
DecideHeadless(s, c) == IF Decide(s, c) = "Operator" THEN "Operator" ELSE "Blocked"

\* A file that is not ours is refused before any policy is read.
Decision(p) ==
    CASE state[p] = "NotOurs" -> "Blocked"
      [] state[p] # "NotOurs" /\ cli[p].front = "tui" -> Decide(state[p], cli[p])
      [] OTHER -> DecideHeadless(state[p], cli[p])

\* Drop of an InstanceLock: the entry and the lock go in one step.
Unlocked(p) == /\ flock' = [f \in Files |-> IF flock[f] = p THEN None ELSE flock[f]]
               /\ wrote' = [wrote EXCEPT ![p] = FALSE]
               /\ fd' = [fd EXCEPT ![p] = None]
               /\ listed' = [listed EXCEPT ![p] = {}]

\* The process is no more: the kernel lets go of what it held.
Ended(p) ==
    /\ Goto(p, "gone") /\ Unlocked(p)
    /\ state' = [state EXCEPT ![p] = None] /\ said' = [said EXCEPT ![p] = None]
    /\ role' = [role EXCEPT ![p] = None] /\ prompt' = [prompt EXCEPT ![p] = FALSE]
    /\ pressedF' = [pressedF EXCEPT ![p] = FALSE]
    /\ UNCHANGED <<at, shape, holder, cli, strayed>>

\* The process starts no further.
Refused(p) == pc[p] = "decide" /\ ~pressedF[p] /\ Decision(p) = "Blocked" /\ Ended(p)

Operate(p) ==
    /\ pc[p] = "decide" /\ ~pressedF[p] /\ Decision(p) = "Operator"
    /\ role' = [role EXCEPT ![p] = "operator"]
    /\ Goto(p, IF cli[p].front = "tui" THEN "boot" ELSE "work")
    /\ UNCHANGED <<fileVars, cli, fd, state, said, prompt, pressedF, listed>>

\* Mutated Observe: the observer keeps the guard it was handed.
ObserveKeeps(p) ==
    /\ pc[p] = "decide" /\ ~pressedF[p] /\ Decision(p) \in {"ReadOnly", "Ask"}
    /\ role' = [role EXCEPT ![p] = "observer"]
    /\ Goto(p, "boot")
    /\ prompt' = [prompt EXCEPT ![p] = Decision(p) = "Ask" /\ said[p] # None]
    /\ UNCHANGED <<fileVars, cli, fd, state, said, pressedF, listed>>

\* An observer drops the guard; the overlay of Ask is the holder's data that was read.
Observe(p) ==
    /\ pc[p] = "decide" /\ ~pressedF[p] /\ Decision(p) \in {"ReadOnly", "Ask"}
    /\ role' = [role EXCEPT ![p] = "observer"]
    /\ Goto(p, "boot") /\ Unlocked(p)
    /\ prompt' = [prompt EXCEPT ![p] = Decision(p) = "Ask" /\ said[p] # None]
    /\ UNCHANGED <<at, shape, holder, cli, state, said, pressedF, strayed>>

\* Mutated Window: no LockName is kept.
WindowUnlisted(p) ==
    /\ pc[p] = "boot" /\ Goto(p, "work")
    /\ UNCHANGED <<fileVars, cli, fd, state, said, role, prompt, pressedF, listed>>

\* App::new: the window lists the lock file's name, whoever holds the lock.
Window(p) ==
    /\ pc[p] = "boot" /\ Goto(p, "work")
    /\ listed' = [listed EXCEPT ![p] = @ \cup {"name"}]
    /\ UNCHANGED <<fileVars, cli, fd, state, said, role, prompt, pressedF>>

\* on_key_concurrency: R stays an observer.
PressR(p) ==
    /\ pc[p] = "work" /\ prompt[p]
    /\ prompt' = [prompt EXCEPT ![p] = FALSE]
    /\ UNCHANGED <<fileVars, cli, pc, fd, state, said, role, pressedF, listed>>

\* F tries the lock once more.
PressF(p) ==
    /\ pc[p] = "work" /\ prompt[p]
    /\ pressedF' = [pressedF EXCEPT ![p] = TRUE]
    /\ prompt' = [prompt EXCEPT ![p] = FALSE]
    /\ Goto(p, "open")
    /\ UNCHANGED <<fileVars, cli, fd, state, said, role, listed>>

\* Whatever the second attempt said, the window is the operator now.
Forced(p) ==
    /\ pc[p] = "decide" /\ pressedF[p]
    /\ role' = [role EXCEPT ![p] = "operator"]
    /\ Goto(p, "work")
    /\ UNCHANGED <<fileVars, cli, fd, state, said, prompt, pressedF, listed>>

(***************************************************************************)
(* Work and its end.                                                       *)
(***************************************************************************)
\* The interface's threads rename what the operator points at: rename_noreplace, here of
\* the lock file or of a directory above it. An entry of either kind refuses both, and the
\* file stays where it is; a thread that outlived its interface has no entry left to ask.
Renames(p) == role[p] = "operator" /\ cli[p].front = "tui" /\ pc[p] \in {"work", "leaving"}

MoveLockFile(p) ==
    /\ Renames(p) /\ at # None
    /\ at' = IF listed[p] = {} THEN None ELSE at
    /\ strayed' = IF at' # at /\ pc[p] = "leaving" THEN strayed \cup {at} ELSE strayed
    /\ UNCHANGED <<shape, holder, flock, cli, pc, fd, state, said, role, prompt,
                   pressedF, listed, wrote>>

\* The event loop ends and App is dropped, its lock and its entries with it. The process of
\* an interface ends later (Die), and the worker threads it left go on until then.
Quit(p) ==
    /\ pc[p] \in {"boot", "work"} /\ cli[p].front = "tui"
    /\ Goto(p, "leaving") /\ Unlocked(p)
    /\ prompt' = [prompt EXCEPT ![p] = FALSE]
    /\ UNCHANGED <<at, shape, holder, cli, state, said, role, pressedF, strayed>>

\* A run without an interface is over with its process; any process ends at last, or is
\* killed, at any point.
Die(p) == pc[p] \notin {"off", "gone"} /\ Ended(p)

Attempt(p) == Open(p) \/ FlockTaken(p) \/ FlockBusy(p) \/ CannotTell(p) \/ Truncate(p)
                \/ Write(p) \/ ReadHolder(p)
Decides(p) == Refused(p) \/ Operate(p) \/ Observe(p) \/ Forced(p) \/ Window(p)

Next ==
    \/ \E p \in Procs : \/ Start(p) \/ Attempt(p) \/ Decides(p) \/ PressR(p) \/ PressF(p)
                        \/ MoveLockFile(p) \/ Quit(p) \/ Die(p)
    \/ (\A p \in Procs : pc[p] = "gone") /\ UNCHANGED vars

Spec == Init /\ [][Next]_vars /\ \A p \in Procs : WF_vars(Attempt(p) \/ Decides(p))

-----------------------------------------------------------------------------
TypeOK ==
    /\ at \in Files \cup {None}
    /\ shape \in [Files -> {"plain", "other"}]
    /\ holder \in [Files -> Procs \cup {Old, None}]
    /\ flock \in [Files -> Procs \cup {None}]
    /\ cli \in [Procs -> Cli]
    /\ pc \in [Procs -> {"off", "open", "flock", "truncate", "write", "read", "decide", "boot",
                         "work", "leaving", "gone"}]
    /\ fd \in [Procs -> Files \cup {None}]
    /\ state \in [Procs -> {"Held", "Busy", "Unknown", "NotOurs", None}]
    /\ said \in [Procs -> Procs \cup {Old, None}]
    /\ role \in [Procs -> {"operator", "observer", None}]
    /\ prompt \in [Procs -> BOOLEAN] /\ pressedF \in [Procs -> BOOLEAN]
    /\ listed \in [Procs -> SUBSET {"lock", "name"}]
    /\ wrote \in [Procs -> BOOLEAN] /\ strayed \subseteq Files

\* A process that scans, applies or writes to the database with its front end there ...
Operating(p) == role[p] = "operator" /\ pc[p] \in {"boot", "work"}
\* ... or whose threads still do after it.
Writing(p) == Operating(p) \/ (role[p] = "operator" /\ pc[p] = "leaving")
\* It was told to go in past another's lock.
LetIn(p) == cli[p].force \/ cli[p].policy = "Allow" \/ pressedF[p]
\* Its lock is on a file that a thread without an interface has taken from the name.
Passed(p) == \E f \in strayed : flock[f] = p

\* Two front ends operate at once only if one of them was let in past the lock, by --force, by
\* the allow policy or by F, or the file one has locked was renamed by a thread whose own
\* interface was gone: no other order of starts, keys, renames, ends and crashes does it.
OneOperator ==
    \A p, q \in Procs : Operating(p) /\ Operating(q) /\ p # q =>
        LetIn(p) \/ LetIn(q) \/ Passed(p) \/ Passed(q)

\* Only one dedcom per state directory writes (01-intro.md), unless another was let in past
\* the lock. The drop of App breaks it: the lock goes, the threads that write may not have.
OneWriter ==
    \A p, q \in Procs : Writing(p) /\ Writing(q) /\ p # q => LetIn(p) \/ LetIn(q)

\* The file a process has its lock on is the file at the name: no window that is there,
\* forced or not, has moved it, so the next process meets it.
NameKept == \A f \in Files : flock[f] # None /\ f \notin strayed => at = f

\* Past its start a process that holds the lock is an operator: an observer keeps nobody out.
LockMeansOperator ==
    \A f \in Files, p \in Procs : flock[f] = p /\ pc[p] = "work" => role[p] = "operator"

\* The file a process has its lock on names it from the moment its data went there, whatever
\* others have tried meanwhile: nobody but the holder empties or writes it.
HolderOnFile ==
    \A f \in Files, p \in Procs : flock[f] = p /\ wrote[p] => holder[f] = p

\* What a start that finds the lock taken concludes from it is so: an operator has it, the one
\* the file names if that one's data could be written.
LockTells == LockMeansOperator /\ HolderOnFile

=============================================================================
