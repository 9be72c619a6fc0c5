---------------------------- MODULE MCInterface ----------------------------
(***************************************************************************)
(* Instances of Interface for TLC. A budget names what may happen in a run *)
(* and how often; what it does not name does not happen.                   *)
(***************************************************************************)
EXTENDS Interface, TLC

CONSTANTS s1, s2, d1, d2

TwoScans == {s1, s2}
TwoDirs == {d1, d2}

Only(b) == b @@ [k \in Kinds |-> 0]

\* A directory is entered, a mark is written and planned, the plan runs; or the store fails once
\* instead of one of them.
BatchBudgets == {Only([cd |-> 1, mark |-> 1, plan |-> 1, confirm |-> 1]),
                 Only([mark |-> 1, plan |-> 1, confirm |-> 1, fault |-> 1]),
                 Only([cd |-> 1, mark |-> 2, fault |-> 1])}

\* An observer becomes the operator: the actor panics, the database's file is replaced, and the
\* store fails on marks and their clearing, or a second mark follows the first.
RoleBudgets == {Only([mark |-> 1, clear |-> 1, role |-> 1, fault |-> 1, swap |-> 1, actorPanic |-> 1]),
                Only([mark |-> 2, role |-> 1, swap |-> 1, actorPanic |-> 1, hangup |-> 1])}

\* A batch under every kind of end, with a panic of its own or of the actor.
ExitBatchBudgets == {Only([mark |-> 1, plan |-> 1, confirm |-> 1, quit |-> 1, workerPanic |-> 1,
                           kill |-> 1, lose |-> 1]),
                     Only([mark |-> 1, plan |-> 1, confirm |-> 1, kill |-> 2, hangup |-> 1]),
                     Only([mark |-> 1, plan |-> 1, confirm |-> 1, actorPanic |-> 1, hangup |-> 1])}

\* A batch beside a move, a move, a deletion or a scan under every kind of end.
ExitWorkBudgets == {Only([move |-> 1, mark |-> 1, plan |-> 1, confirm |-> 1, kill |-> 1]),
                    Only([move |-> 1, quit |-> 1, kill |-> 2, lose |-> 1]),
                    Only([purge |-> 1, quit |-> 1, kill |-> 2, lose |-> 1]),
                    Only([scan |-> 1, quit |-> 1, kill |-> 1]),
                    Only([scan |-> 1, lose |-> 1]),
                    Only([scan |-> 1, actorPanic |-> 1, hangup |-> 1])}

\* A scan ends while another is opened, or its open fails.
ScreenBudget == Only([cd |-> 1, scan |-> 1, fault |-> 1])

AllBudgets == {ScreenBudget} \cup BatchBudgets \cup RoleBudgets \cup ExitBatchBudgets
                \cup ExitWorkBudgets
============================================================================
