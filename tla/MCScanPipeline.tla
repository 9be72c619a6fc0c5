--------------------------- MODULE MCScanPipeline ---------------------------
(***************************************************************************)
(* Three names under two roots.  A budget is spent in sessions, faults of  *)
(* the disk, stops, crashes and orders of the operator.                    *)
(***************************************************************************)
EXTENDS ScanPipeline

MCPaths == 1..3
MCObjects == 1..3
MCContents == {"c1", "c2"}
MCRoots == {"A", "B"}
MCRootOf == [p \in MCPaths |-> IF p = 3 THEN "B" ELSE "A"]

Same == [o \in MCObjects |-> "c1"]

MCDisks ==
    {[names |-> <<1, 1, 2>>, denied |-> {}, keyable |-> TRUE, content |-> Same],
     [names |-> <<1, 2, 3>>, denied |-> {2}, keyable |-> TRUE, content |-> Same],
     [names |-> <<1, 2, 3>>, denied |-> {}, keyable |-> FALSE, content |-> Same]}

Budget(starts, faults, stops, crashes, orders) ==
    [starts |-> starts, faults |-> faults, stops |-> stops, crashes |-> crashes, orders |-> orders]

MCBudgets ==
    {Budget(2, 1, 0, 1, 0), Budget(2, 1, 1, 0, 0), Budget(3, 1, 0, 0, 0), Budget(3, 0, 0, 1, 0),
     Budget(2, 0, 0, 1, 3)}
=============================================================================
