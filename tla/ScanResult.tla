----------------------------- MODULE ScanResult -----------------------------
(***************************************************************************)
(* What the checkpoint promises a reader about each scan: a scan is begun, *)
(* stays open for as long as it takes, ends once with a result, and shows  *)
(* that result unchanged until it is discarded as a whole.  An id may then *)
(* be given to another scan.                                               *)
(***************************************************************************)
CONSTANTS
    Ids,       \* the ids a scan can have
    Results,   \* every result a scan could end with
    NoResult

VARIABLES
    phase,     \* [Ids -> {"absent", "open", "done"}]
    result     \* [Ids -> Results \cup {NoResult}]

vars == <<phase, result>>

Init ==
    /\ phase = [i \in Ids |-> "absent"]
    /\ result = [i \in Ids |-> NoResult]

Begin(i) ==
    /\ phase[i] = "absent"
    /\ phase' = [phase EXCEPT ![i] = "open"]
    /\ UNCHANGED result

Finish(i) ==
    /\ phase[i] = "open"
    /\ phase' = [phase EXCEPT ![i] = "done"]
    /\ \E r \in Results : result' = [result EXCEPT ![i] = r]

Discard(i) ==
    /\ phase[i] # "absent"
    /\ phase' = [phase EXCEPT ![i] = "absent"]
    /\ result' = [result EXCEPT ![i] = NoResult]

Next == \E i \in Ids : Begin(i) \/ Finish(i) \/ Discard(i)

Spec == Init /\ [][Next]_vars
=============================================================================
