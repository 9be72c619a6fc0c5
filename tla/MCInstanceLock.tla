--------------------------- MODULE MCInstanceLock ---------------------------
(***************************************************************************)
(* Instances of InstanceLock: processes are interchangeable.               *)
(***************************************************************************)
EXTENDS InstanceLock, TLC

\* Every command line, and a few that meet in one state directory.
AllClis == Cli
With(front, readOnly, force, policy) ==
    [front |-> front, readOnly |-> readOnly, force |-> force, policy |-> policy]
SomeClis == {With("tui", FALSE, FALSE, "Ask"), With("tui", TRUE, FALSE, "Ask"),
             With("tui", FALSE, TRUE, "Ask"), With("headless", FALSE, FALSE, "Ask")}

Symmetry == Permutations(Procs) \cup Permutations(Files)
=============================================================================
