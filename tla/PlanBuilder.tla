---------------------------- MODULE PlanBuilder ----------------------------
(***************************************************************************)
(* The builder of a destructive plan (src/model/plan.rs,                   *)
(* ActionPlan::try_new): from every persisted member of every group that   *)
(* has a mark to the actions of one batch, or to a refusal of the whole    *)
(* plan. Which of several reasons a refusal names is left out.             *)
(*   A group is [scan, rank, generation, hash], its published identity and *)
(* the digest it carries. A row is one member: its pathname, the position  *)
(* of that pathname in byte order, the rank of its group, its key (the     *)
(* device, the size, and as `object` the other fields), the link count its *)
(* inode reported and its mark. PlanMemberEvidence::new makes no row of a  *)
(* member whose link count or digest was never established.                *)
(***************************************************************************)
EXTENDS Integers, Sequences, FiniteSets

Kinds == {"Delete", "Hardlink", "Reflink"}
Marks == {"none", "keeper"} \cup Kinds

MembersOf(rows, rank) == {r \in rows : r.rank = rank}
KeepersOf(rows, rank) == {r \in MembersOf(rows, rank) : r.mark = "keeper"}
TargetsOf(rows, rank) == {r \in MembersOf(rows, rank) : r.mark \in Kinds}

\* try_new, before any evidence is read: one scan, one publication, no rank below zero.
OnePublication(scan, groups) ==
    \A g \in groups :
        /\ g.scan = scan /\ g.rank >= 0
        /\ \A h \in groups : h.generation = g.generation

\* check_global_evidence: a group, a pathname and an allocation each mean one thing. Two
\* ranks may share a digest, and then an allocation.
OneMeaning(groups, rows) ==
    /\ \A g, h \in groups : g.rank = h.rank => g = h
    /\ \A r, s \in rows : r.path = s.path => r = s
    /\ \A r, s \in rows : r.key = s.key =>
        \A g, h \in groups : g.rank = r.rank /\ h.rank = s.rank => g.hash = h.hash

\* try_new, one group: one size, and one keeper if anything is to be removed.
GroupStands(rows, rank) ==
    /\ MembersOf(rows, rank) # {}
    /\ \A r, s \in MembersOf(rows, rank) : r.key.size = s.key.size
    /\ \A r, s \in KeepersOf(rows, rank) : r = s
    /\ TargetsOf(rows, rank) # {} => KeepersOf(rows, rank) # {}

\* push_objects: the pathnames of one allocation agree on its link count and are no more.
Aliases(rows, r) == {s \in rows : s.rank = r.rank /\ s.key = r.key}
LinksAgree(rows) ==
    \A r \in rows :
        /\ \A s \in Aliases(rows, r) : s.links = r.links
        /\ Cardinality(Aliases(rows, r)) <= r.links

\* A mark on a name of the keeper's own allocation is reported, and not carried out.
CoveredRows(rows) ==
    {r \in rows : r.mark \in Kinds /\ \A k \in KeepersOf(rows, r.rank) : k.key # r.key}

\* No link or clone from one dataset to another, in the whole plan.
NoneCrosses(rows) ==
    \A r \in CoveredRows(rows) : \A k \in KeepersOf(rows, r.rank) :
        r.mark # "Delete" => r.key.device = k.key.device

\* PlannedObject::estimate and the scan-level fold: an allocation whose every observed
\* name is removed counts its size, if only as an upper bound.
Emptied(rows) == {o \in {Aliases(rows, r) : r \in rows} : o \subseteq CoveredRows(rows)}
SizeOf(object) == (CHOOSE r \in object : TRUE).key.size
Ceiling(rows) ==
    LET sum[S \in SUBSET Emptied(rows)] ==
            IF S = {} THEN 0
            ELSE LET o == CHOOSE o \in S : TRUE IN SizeOf(o) + sum[S \ {o}]
    IN  sum[Emptied(rows)]

Accepts(scan, groups, rows, limit) ==
    /\ OnePublication(scan, groups)
    /\ OneMeaning(groups, rows)
    /\ \A g \in groups : GroupStands(rows, g.rank)
    /\ LinksAgree(rows)
    /\ NoneCrosses(rows)
    /\ CoveredRows(rows) # {}
    /\ Ceiling(rows) <= limit

\* The order of the actions: by the rank of the group, then by pathname.
Before(r, s) == r.rank < s.rank \/ (r.rank = s.rank /\ r.pos < s.pos)
Sorted(S) ==
    {s \in [1..Cardinality(S) -> S] :
        /\ \A r \in S : \E i \in DOMAIN s : s[i] = r
        /\ \A i, j \in DOMAIN s : i < j => Before(s[i], s[j])}

ActionOf(rows, r) ==
    [kind |-> r.mark, target |-> r.path,
     keeper |-> (CHOOSE k \in KeepersOf(rows, r.rank) : TRUE).path]

\* ActionPlan::try_new: the one plan the evidence makes, or none.
TryNew(scan, groups, rows, limit) ==
    IF Accepts(scan, groups, rows, limit)
      THEN {[i \in DOMAIN s |-> ActionOf(rows, s[i])] : s \in Sorted(CoveredRows(rows))}
      ELSE {}

\* What a batch relies on in a plan: an action stays in its group, never touches the
\* keeper's own allocation, links within one dataset, removes no name twice and never the
\* name of a keeper, and a group has one keeper.
Executable(plan, groupOf, inodeOf, datasetOf) ==
    \A i \in DOMAIN plan :
        LET a == plan[i] IN
        /\ groupOf[a.target] = groupOf[a.keeper]
        /\ inodeOf[a.target] # inodeOf[a.keeper]
        /\ a.kind # "Delete" => datasetOf[a.target] = datasetOf[a.keeper]
        /\ \A j \in DOMAIN plan :
            /\ plan[j].target = a.target => i = j
            /\ plan[j].target # a.keeper
            /\ groupOf[plan[j].target] = groupOf[a.target] => plan[j].keeper = a.keeper
=============================================================================
