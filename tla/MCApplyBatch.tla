---------------------------- MODULE MCApplyBatch ----------------------------
(***************************************************************************)
(* Instances of ApplyBatch, whose plans ActionPlan::try_new builds.        *)
(*   Alias: one group, one file and one allocation with two more names.    *)
(*   Pair : two groups on two datasets, each a keeper and one duplicate:   *)
(*          one action, Hybrid, an outsider with two moves; or two, Strict.*)
(***************************************************************************)
EXTENDS ApplyBatch, TLC

CONSTANTS pk, pa, pb, pm, pn, i1, i2, i3, i4, i5, g1, g2, d1, d2

NoOutside == [i \in Inodes |-> 0]

\* What the store holds of the instance: the groups of the names, and one row a name.
Position == pk :> 1 @@ pa :> 2 @@ pb :> 3 @@ pm :> 4 @@ pn :> 5
Rank == g1 :> 0 @@ g2 :> 1
PlanGroups == {[scan |-> 1, rank |-> Rank[GroupOf[p]], generation |-> 1, hash |-> GroupOf[p]] :
                 p \in Paths}
Rows(marks) ==
    {[path |-> p, pos |-> Position[p], rank |-> Rank[GroupOf[p]],
      key |-> [device |-> DatasetOf[p], object |-> InodeOf[p], size |-> 1],
      links |-> Links(InodeOf[p]), mark |-> marks[p]] : p \in Paths}

\* A scan has few bytes here: they fit the column.
MaxBytes == 10
Built(marks) == TryNew(1, PlanGroups, Rows(marks), MaxBytes)

\* Evidence that is accepted makes exactly one plan.
ASSUME OnePlan ==
    \A marks \in [Paths -> Marks] :
        Cardinality(Built(marks))
          = IF Accepts(1, PlanGroups, Rows(marks), MaxBytes) THEN 1 ELSE 0

\* Alias: every plan any marks make.
AliasInode == [p \in Paths |-> IF p = pk THEN i1 ELSE i2]
AliasGroup == [p \in Paths |-> g1]
AliasDataset == [p \in Paths |-> d1]
EveryPlan == UNION {Built(marks) : marks \in [Paths -> Marks]}
AliasPlans == EveryPlan
Once == [pl \in Plans |-> 1]

\* Pair: the second group lies on the second dataset, and may be there only as evidence.
PairInode == pk :> i1 @@ pa :> i2 @@ pm :> i3 @@ pn :> i4
PairGroup == pk :> g1 @@ pa :> g1 @@ pm :> g2 @@ pn :> g2
PairDataset == pk :> d1 @@ pa :> d1 @@ pm :> d2 @@ pn :> d2
WithSecond(y) ==
    UNION {Built(pk :> "keeper" @@ pa :> x @@ pm :> "keeper" @@ pn :> y) :
             x \in {"Delete", "Hardlink"}}
OneAction == WithSecond("none")
TwoActions == WithSecond("Delete")
PairPlans == OneAction \cup TwoActions
PairOutsider == [pl \in Plans |-> IF Len(pl) = 1 THEN 2 ELSE 1]
PairFaults == [pl \in Plans |-> IF Len(pl) = 1 THEN 1 ELSE 2]
PairStrict == TwoActions

\* The spare inodes are interchangeable.
Spares == Permutations({i3, i4, i5})
=============================================================================
