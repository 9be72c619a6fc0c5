---------------------------- MODULE MCMembership ----------------------------
(***************************************************************************)
(* Membership on four files and two scans.                                 *)
(***************************************************************************)
EXTENDS Membership

mcPaths == 1..4
mcDigests == {1, 2}

File(digest, bytes, fails) == [digest |-> digest, bytes |-> bytes, fails |-> fails]

\* Two pairs; one digest that --verify splits into two pairs; three files of which
\* one may not be readable in this session.
mcWorlds ==
    {[p \in 1..4 |-> File(IF p <= 2 THEN 1 ELSE 2, 1, FALSE)],
     [p \in 1..4 |-> File(1, IF p <= 2 THEN 1 ELSE 2, FALSE)],
     [p \in 1..3 |-> File(1, 1, p = 3)]}

Old(groups, none) ==
    [NewScan(0, FALSE) EXCEPT !.status = "Complete", !.files = [p \in 1..3 |-> 1],
        !.groups = groups, !.none = none, !.was = IF groups = <<>> /\ ~none THEN None ELSE groups]

\* An empty checkpoint, and a scan of an older version with a result that was
\* thinned out, with none, and with nothing recorded.
mcLegacies ==
    {[s \in {} |-> None]} \cup
    {[s \in {1} |-> Old(g.groups, g.none)] :
        g \in {[groups |-> <<[digest |-> 1, count |-> 2]>>, none |-> FALSE],
               [groups |-> <<>>, none |-> TRUE],
               [groups |-> <<>>, none |-> FALSE]}}

Budget(starts, opens, marks, plans, orders, crashes, damages, exports) ==
    [starts |-> starts, opens |-> opens, marks |-> marks, plans |-> plans, orders |-> orders,
     crashes |-> crashes, damages |-> damages, exports |-> exports]

mcBudgets ==
    {Budget(2, 1, 1, 1, 2, 0, 0, 0),
     Budget(1, 1, 2, 1, 0, 0, 0, 0),
     Budget(1, 1, 1, 1, 0, 0, 1, 0),
     Budget(2, 1, 1, 1, 0, 1, 0, 0),
     Budget(2, 0, 0, 0, 1, 1, 0, 1)}
=============================================================================
