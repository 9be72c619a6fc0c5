------------------------- MODULE InstanceLockProofs -------------------------
(***************************************************************************)
(* For any number of processes, that end before their worker threads have  *)
(* or not: a lock file is taken from its name only by such a thread, two   *)
(* front ends operate at once only if one was let in or its lock was on a  *)
(* file so taken, and what a taken lock says, that an operator has it and  *)
(* which, is so.                                                           *)
(***************************************************************************)
EXTENDS InstanceLock, TLAPS

\* A file that is at the name, or that a thread without an interface took from there.
Named(f) == f = at \/ f \in strayed

\* What an attempt knows on its way: the file it opened was the one at the name, and an
\* attempt that says Held has the lock.
AttemptOK ==
    \A p \in Procs :
        /\ pc[p] = "flock" => fd[p] \in Files /\ Named(fd[p])
        /\ pc[p] \in {"truncate", "write"} =>
              fd[p] \in Files /\ Named(fd[p]) /\ flock[fd[p]] = p /\ state[p] = "Held"
        /\ pc[p] = "decide" /\ state[p] = "Held" => \E f \in Files : flock[f] = p /\ Named(f)
        /\ pc[p] = "read" => state[p] = "Busy"
        /\ pc[p] = "decide" => state[p] \in {"Held", "Busy", "Unknown", "NotOurs"}

\* A window lists the name from its start to its end, through the second attempt of F.
WindowOK ==
    \A p \in Procs :
        cli[p].front = "tui" /\ (pc[p] = "work" \/ (pressedF[p] /\ pc[p] # "leaving"))
            => "name" \in listed[p]

\* An operator nobody let in has the lock on the file at the name, or on one taken from it.
OperatorOK ==
    \A p \in Procs :
        Operating(p) /\ ~LetIn(p) => \E f \in Files : flock[f] = p /\ Named(f)

LInv == TypeOK /\ AttemptOK /\ WindowOK /\ OperatorOK /\ NameKept

\* The invariant holds before the first process starts.
LEMMA LockInit == Init => LInv
<1> SUFFICES ASSUME Init PROVE LInv
  OBVIOUS
<1> USE ConstantsOK DEF Init
<1>1. TypeOK
  BY DEF TypeOK, Cli
<1>2. AttemptOK /\ WindowOK /\ OperatorOK /\ NameKept
  BY DEF AttemptOK, WindowOK, OperatorOK, NameKept, Operating
<1> QED BY <1>1, <1>2 DEF LInv

\* Every step keeps the types.
LEMMA LockTypes == TypeOK /\ AttemptOK /\ [Next]_vars => TypeOK'
<1> SUFFICES ASSUME TypeOK, AttemptOK, [Next]_vars PROVE TypeOK'
  OBVIOUS
<1> USE ConstantsOK DEF TypeOK, Goto, fileVars, history
<1>1. CASE UNCHANGED vars
  BY <1>1 DEF vars
<1>2. ASSUME NEW p \in Procs, Attempt(p) PROVE TypeOK'
  <2>1. CASE Open(p)
    BY <2>1 DEF Open, Fresh
  <2>2. CASE FlockTaken(p)
    BY <2>2 DEF FlockTaken, Taken, AttemptOK
  <2>3. CASE FlockBusy(p)
    BY <2>3 DEF FlockBusy, AttemptOK
  <2>4. CASE CannotTell(p)
    BY <2>4 DEF CannotTell
  <2>5. CASE Truncate(p)
    <3>1. holder' \in [Files -> Procs \cup {Old, None}]
      BY <2>5 DEF Truncate, AttemptOK
    <3> QED BY <2>5, <3>1 DEF Truncate
  <2>6. CASE Write(p)
    <3>1. holder' \in [Files -> Procs \cup {Old, None}]
      BY <2>6 DEF Write, AttemptOK
    <3> QED BY <2>6, <3>1 DEF Write
  <2>7. CASE ReadHolder(p)
    BY <2>7 DEF ReadHolder
  <2> QED BY <1>2, <2>1, <2>2, <2>3, <2>4, <2>5, <2>6, <2>7 DEF Attempt
<1>3. ASSUME NEW p \in Procs, Decides(p) PROVE TypeOK'
  <2>1. CASE Refused(p)
    BY <2>1 DEF Refused, Ended, Unlocked
  <2>2. CASE Operate(p)
    BY <2>2 DEF Operate
  <2>3. CASE Observe(p)
    BY <2>3 DEF Observe, Unlocked
  <2>4. CASE Forced(p)
    BY <2>4 DEF Forced
  <2>5. CASE Window(p)
    BY <2>5 DEF Window
  <2> QED BY <1>3, <2>1, <2>2, <2>3, <2>4, <2>5 DEF Decides
<1>4. ASSUME NEW p \in Procs, Start(p) \/ PressR(p) \/ PressF(p) PROVE TypeOK'
  <2>1. CASE Start(p)
    BY <2>1 DEF Start
  <2>2. CASE PressR(p)
    BY <2>2 DEF PressR
  <2>3. CASE PressF(p)
    BY <2>3 DEF PressF
  <2> QED BY <1>4, <2>1, <2>2, <2>3
<1>5. ASSUME NEW p \in Procs, MoveLockFile(p) PROVE TypeOK'
  BY <1>5 DEF MoveLockFile
<1>6. ASSUME NEW p \in Procs, Quit(p) PROVE TypeOK'
  BY <1>6 DEF Quit, Unlocked
<1>7. ASSUME NEW p \in Procs, Die(p) PROVE TypeOK'
  BY <1>7 DEF Die, Ended, Unlocked
<1> QED BY <1>1, <1>2, <1>3, <1>4, <1>5, <1>6, <1>7 DEF Next, vars

\* An operator nobody let in got there by an attempt that said Held.
LEMMA OperatorHeld ==
    ASSUME NEW p \in Procs, TypeOK, Decision(p) = "Operator", ~LetIn(p),
           pc[p] = "decide", AttemptOK
    PROVE  state[p] = "Held"
<1>1. /\ ~cli[p].force /\ cli[p].policy # "Allow" /\ cli[p] \in Cli
      /\ state[p] \in {"Held", "Busy", "Unknown", "NotOurs"}
  BY DEF LetIn, TypeOK, AttemptOK
<1>2. cli[p].policy \in Policies /\ cli[p].readOnly \in BOOLEAN
  BY <1>1 DEF Cli
<1>3. Decide(state[p], cli[p]) = "Operator" /\ state[p] # "NotOurs"
  BY <1>1 DEF Decision, DecideHeadless
<1> QED BY <1>1, <1>2, <1>3 DEF Decide, Policies

\* Every step keeps the invariant.
LEMMA LockNext == ASSUME LInv, [Next]_vars PROVE LInv'
<1> USE ConstantsOK
<1>t. TypeOK'
  BY LockTypes DEF LInv
<1> DEFINE Rest == AttemptOK' /\ WindowOK' /\ OperatorOK' /\ NameKept'
<1> USE DEF LInv, AttemptOK, WindowOK, OperatorOK, NameKept, Operating, LetIn, Named,
            Goto, fileVars, history
<1>1. CASE UNCHANGED vars
  BY <1>1, <1>t DEF vars
<1>2. ASSUME NEW p \in Procs, Attempt(p) PROVE Rest
  <2>1. CASE Open(p)
    BY <2>1, <1>t DEF Open, Fresh, TypeOK
  <2>2. CASE FlockTaken(p)
    BY <2>2, <1>t DEF FlockTaken, Taken, TypeOK
  <2>3. CASE FlockBusy(p)
    BY <2>3, <1>t DEF FlockBusy, TypeOK
  <2>4. CASE CannotTell(p)
    BY <2>4, <1>t DEF CannotTell, TypeOK
  <2>5. CASE Truncate(p)
    BY <2>5, <1>t DEF Truncate, TypeOK
  <2>6. CASE Write(p)
    BY <2>6, <1>t DEF Write, TypeOK
  <2>7. CASE ReadHolder(p)
    BY <2>7, <1>t DEF ReadHolder, TypeOK
  <2> QED BY <1>2, <2>1, <2>2, <2>3, <2>4, <2>5, <2>6, <2>7 DEF Attempt
<1>3. ASSUME NEW p \in Procs, Decides(p) PROVE Rest
  <2>1. CASE Refused(p)
    BY <2>1, <1>t DEF Refused, Ended, Unlocked, TypeOK
  <2>2. CASE Operate(p)
    BY <2>2, <1>t, OperatorHeld DEF Operate, TypeOK
  <2>3. CASE Observe(p)
    BY <2>3, <1>t DEF Observe, Unlocked, TypeOK
  <2>4. CASE Forced(p)
    BY <2>4, <1>t DEF Forced, TypeOK
  <2>5. CASE Window(p)
    BY <2>5, <1>t DEF Window, TypeOK
  <2> QED BY <1>3, <2>1, <2>2, <2>3, <2>4, <2>5 DEF Decides
<1>4. ASSUME NEW p \in Procs, Start(p) PROVE Rest
  BY <1>4, <1>t DEF Start, TypeOK
<1>5. ASSUME NEW p \in Procs, PressR(p) PROVE Rest
  BY <1>5, <1>t DEF PressR, TypeOK
<1>6. ASSUME NEW p \in Procs, PressF(p) PROVE Rest
  BY <1>6, <1>t DEF PressF, TypeOK
<1>7. ASSUME NEW p \in Procs, MoveLockFile(p) PROVE Rest
  BY <1>7 DEF MoveLockFile, Renames
<1>8. ASSUME NEW p \in Procs, Quit(p) PROVE Rest
  BY <1>8, <1>t DEF Quit, Unlocked, TypeOK
<1>9. ASSUME NEW p \in Procs, Die(p) PROVE Rest
  BY <1>9, <1>t DEF Die, Ended, Unlocked, TypeOK
<1> QED
  BY <1>t, <1>1, <1>2, <1>3, <1>4, <1>5, <1>6, <1>7, <1>8, <1>9 DEF Next, vars

\* For any number of processes, two front ends operate at once only if one was let in past the
\* lock, or the file one has locked was renamed by a thread whose own interface was gone.
THEOREM OneOperatorAtATime == Spec => []OneOperator
<1>1. LInv => OneOperator
  BY DEF LInv, TypeOK, OperatorOK, OneOperator, Named, Passed
<1>2. LInv /\ [Next]_vars => LInv'
  BY LockNext
<1> QED BY LockInit, <1>1, <1>2, PTL DEF Spec

\* No window that is there, forced or not, moves the file a process has its lock on away from
\* the name: only a thread that outlived its interface can.
THEOREM LockFileStays == Spec => []NameKept
<1>1. LInv => NameKept
  BY DEF LInv
<1>2. LInv /\ [Next]_vars => LInv'
  BY LockNext
<1> QED BY LockInit, <1>1, <1>2, PTL DEF Spec

-----------------------------------------------------------------------------
(***************************************************************************)
(* What the lock tells: the holder keeps it from the call that took it to  *)
(* the drop of its guard, writes its data inside, if it can be written,    *)
(* and an observer has dropped it before its window opens.                 *)
(***************************************************************************)
\* The stages of a process that may have the lock, and what it has done there.
GuardOK ==
    \A p \in Procs :
        /\ pc[p] = "flock" => fd[p] \in Files
        /\ pc[p] \in {"truncate", "write"} => fd[p] \in Files /\ flock[fd[p]] = p
        /\ prompt[p] => role[p] = "observer" /\ pc[p] \in {"boot", "work"}
        /\ wrote[p] => pc[p] \in {"decide", "boot", "work"} /\ ~prompt[p]
        /\ \A f \in Files : flock[f] = p =>
              /\ pc[p] \in {"truncate", "write", "decide", "boot", "work"}
              /\ pc[p] \in {"truncate", "write"} => f = fd[p]
              /\ wrote[p] => holder[f] = p
              /\ pc[p] \in {"boot", "work"} => role[p] = "operator"

GInv == TypeOK /\ GuardOK

LEMMA GuardInit == Init => GInv
<1> SUFFICES ASSUME Init PROVE GInv
  OBVIOUS
<1>1. TypeOK
  BY LockInit DEF LInv
<1>2. GuardOK
  BY ConstantsOK DEF Init, GuardOK
<1> QED BY <1>1, <1>2 DEF GInv

\* Every step keeps the types and what the lock's holder has done.
LEMMA GuardNext == ASSUME GInv, [Next]_vars PROVE GInv'
<1> USE ConstantsOK DEF GInv, TypeOK, GuardOK, Goto, fileVars, history
<1>1. CASE UNCHANGED vars
  BY <1>1 DEF vars
<1>2. ASSUME NEW p \in Procs, Attempt(p) PROVE GInv'
  <2>1. CASE Open(p)
    BY SMTT(30), <2>1 DEF Open, Fresh
  <2>2. CASE FlockTaken(p)
    BY <2>2 DEF FlockTaken, Taken
  <2>3. CASE FlockBusy(p)
    BY <2>3 DEF FlockBusy
  <2>4. CASE CannotTell(p)
    BY <2>4 DEF CannotTell
  <2>5. CASE Truncate(p)
    BY <2>5 DEF Truncate
  <2>6. CASE Write(p)
    BY <2>6 DEF Write
  <2>7. CASE ReadHolder(p)
    BY <2>7 DEF ReadHolder
  <2> QED BY <1>2, <2>1, <2>2, <2>3, <2>4, <2>5, <2>6, <2>7 DEF Attempt
<1>3. ASSUME NEW p \in Procs, Decides(p) PROVE GInv'
  <2>1. CASE Refused(p)
    BY <2>1 DEF Refused, Ended, Unlocked
  <2>2. CASE Operate(p)
    BY <2>2 DEF Operate
  <2>3. CASE Observe(p)
    BY <2>3 DEF Observe, Unlocked
  <2>4. CASE Forced(p)
    BY <2>4 DEF Forced
  <2>5. CASE Window(p)
    BY <2>5 DEF Window
  <2> QED BY <1>3, <2>1, <2>2, <2>3, <2>4, <2>5 DEF Decides
<1>4. ASSUME NEW p \in Procs, Start(p) PROVE GInv'
  BY <1>4 DEF Start
<1>5. ASSUME NEW p \in Procs, PressR(p) PROVE GInv'
  BY <1>5 DEF PressR
<1>6. ASSUME NEW p \in Procs, PressF(p) PROVE GInv'
  BY <1>6 DEF PressF
<1>7. ASSUME NEW p \in Procs, MoveLockFile(p) PROVE GInv'
  BY <1>7 DEF MoveLockFile
<1>8. ASSUME NEW p \in Procs, Quit(p) PROVE GInv'
  BY <1>8 DEF Quit, Unlocked
<1>9. ASSUME NEW p \in Procs, Die(p) PROVE GInv'
  BY <1>9 DEF Die, Ended, Unlocked
<1> QED
  BY <1>1, <1>2, <1>3, <1>4, <1>5, <1>6, <1>7, <1>8, <1>9 DEF Next, vars

\* Whatever the processes do, every variable keeps its type.
THEOREM LockTypeCorrect == Spec => []TypeOK
<1>1. GInv /\ [Next]_vars => GInv'
  BY GuardNext
<1>2. GInv => TypeOK
  BY DEF GInv
<1> QED BY GuardInit, <1>1, <1>2, PTL DEF Spec

\* What a start that finds the lock taken concludes from it is so, for any number of processes:
\* who holds it past its start is an operator (an observer drops the guard as it is chosen, and F
\* makes an operator of whoever takes it again), and the file names that process once its data
\* went there, because only the holder empties or writes it (write_holder behind the flock).
THEOREM TheLockTells == Spec => []LockTells
<1>1. GInv /\ [Next]_vars => GInv'
  BY GuardNext
<1>2. GInv => LockTells
  BY DEF GInv, GuardOK, LockTells, LockMeansOperator, HolderOnFile
<1> QED BY GuardInit, <1>1, <1>2, PTL DEF Spec
=============================================================================
