-------------------------- MODULE ApplyBatchProofs --------------------------
(***************************************************************************)
(* Theorems about PlanBuilder for any evidence whatever, the assumptions   *)
(* ApplyBatch makes about its plans; and about ApplyBatch for every plan,  *)
(* every file tree and any number of outsider's moves and faults: first    *)
(* what no step may do, then what a batch trusts, what it records and what *)
(* it reports.                                                             *)
(***************************************************************************)
EXTENDS ApplyBatch, FiniteSetTheorems, WellFoundedInduction, TLAPS

(***************************************************************************)
(* The plans: what ActionPlan::try_new promises of every plan it builds.   *)
(***************************************************************************)
\* Evidence as the store hands it over: the rows belong to the groups, and ranks and
\* positions are numbers. Nothing is assumed of what the rows say.
Evidence(groups, rows) ==
    /\ \A g \in groups : g.rank \in Int
    /\ \A r \in rows : r.pos \in Int /\ \E g \in groups : g.rank = r.rank

\* A row that becomes an action has exactly one keeper, in its group and of another
\* allocation.
LEMMA OneKeeper ==
    ASSUME NEW scan, NEW groups, NEW rows, NEW limit,
           Evidence(groups, rows), Accepts(scan, groups, rows, limit),
           NEW r \in CoveredRows(rows)
    PROVE  \E k \in rows :
              /\ KeepersOf(rows, r.rank) = {k}
              /\ k.rank = r.rank /\ k.mark = "keeper" /\ k.key # r.key
              /\ ActionOf(rows, r) = [kind |-> r.mark, target |-> r.path, keeper |-> k.path]
<1>1. r \in rows /\ r.mark \in Kinds
  BY DEF CoveredRows
<1>2. PICK g \in groups : g.rank = r.rank
  BY <1>1 DEF Evidence
<1>3. GroupStands(rows, r.rank)
  BY <1>2 DEF Accepts
<1>4. KeepersOf(rows, r.rank) # {}
  BY <1>1, <1>3 DEF GroupStands, TargetsOf, MembersOf
<1>5. PICK k \in KeepersOf(rows, r.rank) : KeepersOf(rows, r.rank) = {k}
  BY <1>3, <1>4 DEF GroupStands
<1>6. k \in rows /\ k.rank = r.rank /\ k.mark = "keeper"
  BY <1>5 DEF KeepersOf, MembersOf
<1>7. k.key # r.key
  BY <1>5 DEF CoveredRows
<1>8. (CHOOSE x \in KeepersOf(rows, r.rank) : TRUE) = k
  BY <1>5
<1> QED BY <1>5, <1>6, <1>7, <1>8 DEF ActionOf

\* A plan lists the covered rows, each once.
LEMMA OneActionEach ==
    ASSUME NEW scan, NEW groups, NEW rows, NEW limit,
           Evidence(groups, rows),
           NEW built \in TryNew(scan, groups, rows, limit)
    PROVE  /\ Accepts(scan, groups, rows, limit)
           /\ \E s : /\ DOMAIN s = DOMAIN built
                     /\ DOMAIN built = 1..Cardinality(CoveredRows(rows))
                     /\ \A i \in DOMAIN built :
                          s[i] \in CoveredRows(rows) /\ built[i] = ActionOf(rows, s[i])
                     /\ \A i, j \in DOMAIN built : s[i] = s[j] => i = j
<1>1. Accepts(scan, groups, rows, limit)
  BY DEF TryNew
<1>2. PICK s \in Sorted(CoveredRows(rows)) :
         built = [i \in DOMAIN s |-> ActionOf(rows, s[i])]
  BY <1>1 DEF TryNew
<1>3. s \in [1..Cardinality(CoveredRows(rows)) -> CoveredRows(rows)]
  BY <1>2 DEF Sorted
<1>4. \A i, j \in DOMAIN s : i < j => Before(s[i], s[j])
  BY <1>2 DEF Sorted
<1>5. \A r \in CoveredRows(rows) : r.rank \in Int /\ r.pos \in Int
  BY DEF Evidence, CoveredRows
<1>6. \A r \in CoveredRows(rows) : ~Before(r, r)
  BY <1>5 DEF Before
<1>7. ASSUME NEW i \in DOMAIN s, NEW j \in DOMAIN s, s[i] = s[j] PROVE i = j
  <2>1. s[i] \in CoveredRows(rows)
    BY <1>3
  <2>2. ~(i < j) /\ ~(j < i)
    BY <2>1, <1>4, <1>6, <1>7
  <2>3. DOMAIN s \subseteq Int
    <3>1. DOMAIN s = 1..Cardinality(CoveredRows(rows))
      BY <1>3
    <3> QED BY <3>1
  <2> QED BY <2>2, <2>3
<1> QED BY <1>1, <1>2, <1>3, <1>7

\* ActionPlan::try_new: every plan it builds is one a batch can carry out. A group, here,
\* is a rank of the publication, and an allocation is a key.
THEOREM BuiltIsExecutable ==
    ASSUME NEW scan, NEW groups, NEW rows, NEW limit,
           Evidence(groups, rows),
           NEW built \in TryNew(scan, groups, rows, limit),
           NEW groupOf, NEW inodeOf, NEW datasetOf,
           \A r \in rows : /\ groupOf[r.path] = r.rank
                           /\ inodeOf[r.path] = r.key
                           /\ datasetOf[r.path] = r.key.device
    PROVE  Executable(built, groupOf, inodeOf, datasetOf)
<1>1. Accepts(scan, groups, rows, limit)
  BY OneActionEach
<1>2. PICK s : /\ DOMAIN s = DOMAIN built
               /\ \A i \in DOMAIN built :
                    s[i] \in CoveredRows(rows) /\ built[i] = ActionOf(rows, s[i])
               /\ \A i, j \in DOMAIN built : s[i] = s[j] => i = j
  BY OneActionEach
<1>3. \A x, y \in rows : x.path = y.path => x = y
  BY <1>1 DEF Accepts, OneMeaning
<1>4. \A r \in CoveredRows(rows) : r \in rows /\ r.mark \in Kinds
  BY DEF CoveredRows
<1>5. "keeper" \notin Kinds
  BY DEF Kinds
<1> SUFFICES ASSUME NEW i \in DOMAIN built
             PROVE  LET a == built[i] IN
                    /\ groupOf[a.target] = groupOf[a.keeper]
                    /\ inodeOf[a.target] # inodeOf[a.keeper]
                    /\ a.kind # "Delete" => datasetOf[a.target] = datasetOf[a.keeper]
                    /\ \A j \in DOMAIN built :
                        /\ built[j].target = a.target => i = j
                        /\ built[j].target # a.keeper
                        /\ groupOf[built[j].target] = groupOf[a.target]
                             => built[j].keeper = a.keeper
  BY DEF Executable
<1> DEFINE r == s[i]
<1>6. r \in CoveredRows(rows) /\ built[i] = ActionOf(rows, r)
  BY <1>2
<1> HIDE DEF r
<1>7. PICK k \in rows :
         /\ KeepersOf(rows, r.rank) = {k}
         /\ k.rank = r.rank /\ k.mark = "keeper" /\ k.key # r.key
         /\ ActionOf(rows, r) = [kind |-> r.mark, target |-> r.path, keeper |-> k.path]
  BY <1>1, <1>6, OneKeeper
<1>8. built[i].kind = r.mark /\ built[i].target = r.path /\ built[i].keeper = k.path
  BY <1>6, <1>7
<1>9. groupOf[r.path] = groupOf[k.path] /\ inodeOf[r.path] # inodeOf[k.path]
  BY <1>4, <1>6, <1>7
<1>10. r.mark # "Delete" => datasetOf[r.path] = datasetOf[k.path]
  <2>1. NoneCrosses(rows)
    BY <1>1 DEF Accepts
  <2>2. k \in KeepersOf(rows, r.rank)
    BY <1>7
  <2> QED BY <2>1, <2>2, <1>4, <1>6 DEF NoneCrosses
<1>11. ASSUME NEW j \in DOMAIN built
       PROVE  /\ built[j].target = r.path => i = j
              /\ built[j].target # k.path
              /\ groupOf[built[j].target] = groupOf[r.path] => built[j].keeper = k.path
  <2> DEFINE q == s[j]
  <2>1. q \in CoveredRows(rows) /\ built[j] = ActionOf(rows, q)
    BY <1>2
  <2>2. q = r => i = j
    BY <1>2 DEF r
  <2> HIDE DEF q
  <2>3. PICK m \in rows :
           /\ KeepersOf(rows, q.rank) = {m}
           /\ ActionOf(rows, q) = [kind |-> q.mark, target |-> q.path, keeper |-> m.path]
    BY SMTT(30), <1>1, <2>1, OneKeeper
  <2>4. built[j].target = q.path /\ built[j].keeper = m.path
    BY <2>1, <2>3
  <2>5. built[j].target = r.path => i = j
    BY <2>1, <2>2, <2>4, <1>3, <1>4, <1>6
  <2>6. built[j].target # k.path
    BY <2>1, <2>4, <1>3, <1>4, <1>5, <1>7
  <2>7. groupOf[built[j].target] = groupOf[r.path] => q.rank = r.rank
    BY <2>1, <2>4, <1>4, <1>6
  <2> QED BY <2>3, <2>4, <2>5, <2>6, <2>7, <1>7
<1> QED BY <1>8, <1>9, <1>10, <1>11

\* Rows that can be put in order: their ranks and positions are numbers, and tell them apart.
Distinct(S) ==
    /\ IsFiniteSet(S)
    /\ \A r \in S : r.rank \in Int /\ r.pos \in Int
    /\ \A r, s \in S : r.rank = s.rank /\ r.pos = s.pos => r = s

\* The order of the actions is strict and total.
LEMMA BeforeIs ==
    ASSUME NEW S, Distinct(S)
    PROVE  /\ \A r \in S : ~Before(r, r)
           /\ \A r, s \in S : r # s => Before(r, s) \/ Before(s, r)
           /\ \A r, s, t \in S : Before(r, s) /\ Before(s, t) => Before(r, t)
BY DEF Distinct, Before

\* Two sorted lists with a row between them make one.
LEMMA Joined ==
    ASSUME NEW T, Distinct(T), NEW x \in T, NEW L, L = {r \in T : Before(r, x)},
           NEW G, G = {r \in T : Before(x, r)}, NEW s \in Sorted(L), NEW t \in Sorted(G)
    PROVE  Sorted(T) # {}
<1> DEFINE a == Cardinality(L)
           b == Cardinality(G)
           n == Cardinality(T)
           f == [i \in 1..n |-> IF i <= a THEN s[i] ELSE IF i = a + 1 THEN x ELSE t[i - a - 1]]
<1>1. /\ x \notin L /\ x \notin G /\ L \cap G = {} /\ T = (L \cup G) \cup {x}
      /\ \A l \in L, g \in G : Before(l, g)
  BY BeforeIs
<1>2. IsFiniteSet(L) /\ IsFiniteSet(G) /\ L \in SUBSET T /\ G \in SUBSET T
  BY FS_Subset DEF Distinct
<1>3. a \in Nat /\ b \in Nat /\ n = a + b + 1
  <2>1. a \in Nat /\ b \in Nat
    BY <1>2, FS_CardinalityType
  <2>2. IsFiniteSet(L \cup G) /\ Cardinality(L \cup G) = a + b - Cardinality(L \cap G)
    BY <1>2, FS_Union
  <2>3. Cardinality(L \cap G) = 0
    BY <1>1, FS_EmptySet
  <2>4. n = Cardinality(L \cup G) + 1
    <3>1. x \notin L \cup G
      BY <1>1
    <3>2. Cardinality((L \cup G) \cup {x}) = Cardinality(L \cup G) + 1
      BY <2>2, <3>1, FS_AddElement
    <3>3. QED
      BY <1>1, <3>2
  <2>5. QED
    BY <2>1, <2>2, <2>3, <2>4
<1>4. /\ s \in [1..a -> L] /\ \A r \in L : \E i \in 1..a : s[i] = r
      /\ \A i, j \in 1..a : i < j => Before(s[i], s[j])
  BY DEF Sorted
<1>5. /\ t \in [1..b -> G] /\ \A r \in G : \E i \in 1..b : t[i] = r
      /\ \A i, j \in 1..b : i < j => Before(t[i], t[j])
  BY DEF Sorted
<1> HIDE DEF a, b, n
<1>6. /\ DOMAIN f = 1..n
      /\ \A i \in 1..a : f[i] = s[i] /\ f[i] \in L
      /\ f[a + 1] = x
      /\ \A i \in 1..b : f[a + 1 + i] = t[i] /\ f[a + 1 + i] \in G
  <2>1. \A i \in 1..a : f[i] = s[i] /\ f[i] \in L
    BY <1>3, <1>4
  <2>2. f[a + 1] = x
    BY <1>3
  <2>3. ASSUME NEW i \in 1..b
        PROVE  f[a + 1 + i] = t[i] /\ f[a + 1 + i] \in G
    <3> DEFINE k == a + 1 + i
    <3>1. k \in 1..n /\ ~(k <= a) /\ k # a + 1 /\ k - a - 1 = i
      BY <1>3
    <3> HIDE DEF k
    <3>2. f[k] = t[i]
      BY <3>1
    <3> USE DEF k
    <3>3. QED
      BY <1>5, <3>2
  <2>4. QED
    BY <2>1, <2>2, <2>3
<1>7. \A i \in 1..n : i \in 1..a \/ i = a + 1 \/ \E k \in 1..b : i = a + 1 + k
  <2> TAKE i \in 1..n
  <2>1. CASE i > a + 1
    <3>1. i - a - 1 \in 1..b /\ i = a + 1 + (i - a - 1)
      BY <1>3, <2>1
    <3>2. QED
      BY <3>1
  <2>2. QED
    BY <1>3, <2>1
<1> HIDE DEF f
<1>8. f \in [1..n -> T]
  <2>1. \A i \in 1..n : f[i] \in T
    BY <1>2, <1>6, <1>7
  <2>2. f = [i \in 1..n |-> f[i]]
    BY DEF f
  <2>3. QED
    BY <2>1, <2>2
<1>9. ASSUME NEW r \in T
      PROVE  \E i \in 1..n : f[i] = r
  <2>1. CASE r \in L
    <3>1. PICK i \in 1..a : s[i] = r
      BY <1>4, <2>1
    <3>2. QED
      BY <1>3, <1>6, <3>1
  <2>2. CASE r \in G
    <3>1. PICK i \in 1..b : t[i] = r
      BY <1>5, <2>2
    <3>2. a + 1 + i \in 1..n
      BY <1>3
    <3>3. QED
      BY <1>6, <3>1, <3>2
  <2>3. CASE r = x
    BY <1>3, <1>6, <2>3
  <2>4. QED
    BY <1>1, <2>1, <2>2, <2>3
<1>10. ASSUME NEW i \in 1..n, NEW j \in 1..n, i < j
       PROVE  Before(f[i], f[j])
  <2>1. CASE i \in 1..a /\ j \in 1..a
    BY <1>4, <1>6, <1>10, <2>1
  <2>2. CASE i \in 1..a /\ j = a + 1
    BY <1>6, <2>2
  <2>3. CASE i \in 1..a /\ \E k \in 1..b : j = a + 1 + k
    BY <1>1, <1>6, <2>3
  <2>4. CASE i = a + 1 /\ \E k \in 1..b : j = a + 1 + k
    BY <1>6, <2>4
  <2>5. CASE \E k, l \in 1..b : i = a + 1 + k /\ j = a + 1 + l
    <3>1. PICK k \in 1..b, l \in 1..b : i = a + 1 + k /\ j = a + 1 + l
      BY <2>5
    <3>2. k < l
      BY <1>3, <1>10, <3>1
    <3>3. QED
      BY <1>5, <1>6, <3>1, <3>2
  <2>6. i \in 1..a \/ i = a + 1 \/ \E k \in 1..b : i = a + 1 + k
    BY <1>7
  <2>7. j \in 1..a \/ j = a + 1 \/ \E k \in 1..b : j = a + 1 + k
    BY <1>7
  <2>8. ~(i = a + 1 /\ j \in 1..a) /\ ~(i = a + 1 /\ j = a + 1)
        /\ ~(\E k \in 1..b : i = a + 1 + k /\ j \in 1..a) /\ ~(\E k \in 1..b : i = a + 1 + k /\ j = a + 1)
    BY <1>3, <1>10
  <2>9. QED
    BY <2>1, <2>2, <2>3, <2>4, <2>5, <2>6, <2>7, <2>8
<1>11. f \in Sorted(T)
  BY <1>8, <1>9, <1>10 DEF Sorted, n
<1>12. QED
  BY <1>11

\* Rows can be put in order: in a smallest set that could not, the ones before some row and
\* the ones after it could.
LEMMA SortedExists ==
    ASSUME NEW S, Distinct(S)
    PROVE  Sorted(S) # {}
<1> DEFINE B == {T \in SUBSET S : Sorted(T) = {}}
<1> SUFFICES ASSUME Sorted(S) = {}
             PROVE  FALSE
  OBVIOUS
<1>1. \A T \in SUBSET S : Distinct(T)
  BY FS_Subset DEF Distinct
<1>2. B \subseteq FiniteSubsetsOf(S) /\ B # {}
  BY <1>1 DEF FiniteSubsetsOf, Distinct
<1>3. IsWellFoundedOn(StrictSubsetOrdering(S), FiniteSubsetsOf(S))
  BY FS_StrictSubsetOrderingWellFounded
<1> HIDE DEF B
<1>4. \E T \in B : \A U \in B : ~(<<U, T>> \in StrictSubsetOrdering(S))
  BY <1>2, <1>3, WFMin
<1>5. PICK T \in B : \A U \in B : <<U, T>> \notin StrictSubsetOrdering(S)
  BY <1>4
<1>6. T \in SUBSET S /\ Sorted(T) = {} /\ Distinct(T)
  BY <1>1 DEF B
<1>7. ASSUME NEW U \in SUBSET T, U # T
      PROVE  Sorted(U) # {}
  <2>1. U \in SUBSET S /\ U \subseteq T
    BY <1>6
  <2>2. <<U, T>> \in StrictSubsetOrdering(S)
    BY <1>6, <1>7, <2>1 DEF StrictSubsetOrdering
  <2>3. U \notin B
    BY <1>5, <2>2
  <2>4. QED
    BY <2>1, <2>3 DEF B
<1>8. CASE T = {}
  <2>1. [i \in 1..0 |-> 0] \in Sorted({})
    BY FS_EmptySet DEF Sorted
  <2>2. QED
    BY <1>6, <1>8, <2>1
<1>9. CASE T # {}
  <2>1. PICK x \in T : TRUE
    BY <1>9
  <2> DEFINE L == {r \in T : Before(r, x)}
             G == {r \in T : Before(x, r)}
  <2>2. L \in SUBSET T /\ G \in SUBSET T /\ x \notin L /\ x \notin G
    BY <1>6, BeforeIs
  <2>3. Sorted(L) # {} /\ Sorted(G) # {}
    BY <1>7, <2>1, <2>2
  <2>4. PICK s \in Sorted(L), t \in Sorted(G) : TRUE
    BY <2>3
  <2>5. QED
    BY <1>6, <2>1, <2>4, Joined
<1>10. QED
  BY <1>8, <1>9

\* A set of numbers that is not empty has a least one.
LEMMA Least ==
    ASSUME NEW S \in SUBSET Nat, S # {}
    PROVE  \E n \in S : \A m \in S : n <= m
<1> DEFINE T == {0..n : n \in S}
<1>1. IsWellFoundedOn(StrictSubsetOrdering(Nat), FiniteSubsetsOf(Nat))
  BY FS_StrictSubsetOrderingWellFounded
<1>2. T \subseteq FiniteSubsetsOf(Nat)
  <2>1. \A n \in S : IsFiniteSet(0..n) /\ 0..n \in SUBSET Nat
    BY FS_Interval
  <2>2. QED
    BY <2>1 DEF FiniteSubsetsOf
<1>3. T # {}
  OBVIOUS
<1> HIDE DEF T
<1>4. \E x \in T : \A y \in T : ~(<<y, x>> \in StrictSubsetOrdering(Nat))
  BY <1>1, <1>2, <1>3, WFMin
<1>5. PICK n \in S : \A m \in S : <<0..m, 0..n>> \notin StrictSubsetOrdering(Nat)
  BY <1>4 DEF T
<1>6. ASSUME NEW m \in S, m < n
      PROVE  FALSE
  <2>1. 0..m \in SUBSET Nat /\ 0..n \in SUBSET Nat /\ 0..m \subseteq 0..n /\ n \in 0..n /\ n \notin 0..m
    BY <1>6
  <2>2. QED
    BY <1>5, <1>6, <2>1 DEF StrictSubsetOrdering
<1>7. QED
  BY <1>6

\* And in one way only: at a first place where two orders differ, each would have the
\* other's row later.
LEMMA SortedOnce ==
    ASSUME NEW S, Distinct(S), NEW s \in Sorted(S), NEW t \in Sorted(S)
    PROVE  s = t
<1> DEFINE n == Cardinality(S)
<1>1. n \in Nat
  BY FS_CardinalityType DEF Distinct
<1>2. /\ s \in [1..n -> S] /\ \A r \in S : \E i \in 1..n : s[i] = r
      /\ \A i, j \in 1..n : i < j => Before(s[i], s[j])
  BY DEF Sorted
<1>3. /\ t \in [1..n -> S] /\ \A r \in S : \E i \in 1..n : t[i] = r
      /\ \A i, j \in 1..n : i < j => Before(t[i], t[j])
  BY DEF Sorted
<1> HIDE DEF n
<1> DEFINE D == {i \in 1..n : s[i] # t[i]}
<1>4. \A i \in 1..n : s[i] \in S /\ t[i] \in S
  BY <1>2, <1>3
<1>5. ASSUME D # {}
      PROVE  FALSE
  <2>1. D \in SUBSET Nat
    BY <1>1
  <2>2. PICK i \in D : \A j \in D : i <= j
    BY <1>5, <2>1, Least
  <2>3. i \in 1..n /\ s[i] # t[i] /\ \A j \in 1..n : j < i => s[j] = t[j]
    BY <1>1, <2>2
  <2> HIDE DEF D
  <2>4. PICK j \in 1..n : t[j] = s[i]
    BY <1>3, <1>4, <2>3
  <2>5. PICK k \in 1..n : s[k] = t[i]
    BY <1>2, <1>4, <2>3
  <2>6. i < j
    <3>1. j # i
      BY <2>3, <2>4
    <3>2. ~(j < i)
      <4>1. j < i => s[j] = s[i] /\ Before(s[j], s[i])
        BY <1>2, <2>3, <2>4
      <4>2. QED
        BY <1>4, <2>3, <4>1, BeforeIs
    <3>3. QED
      BY <1>1, <2>3, <3>1, <3>2
  <2>7. i < k
    <3>1. k # i
      BY <2>3, <2>5
    <3>2. ~(k < i)
      <4>1. k < i => t[k] = t[i] /\ Before(t[k], t[i])
        BY <1>3, <2>3, <2>5
      <4>2. QED
        BY <1>4, <2>3, <4>1, BeforeIs
    <3>3. QED
      BY <1>1, <2>3, <3>1, <3>2
  <2>8. Before(t[i], s[i]) /\ Before(s[i], t[i])
    BY <1>2, <1>3, <2>3, <2>4, <2>5, <2>6, <2>7
  <2>9. Before(s[i], s[i])
    BY <1>4, <2>3, <2>8, BeforeIs
  <2>10. QED
    BY <1>4, <2>3, <2>9, BeforeIs
<1>6. \A i \in 1..n : s[i] = t[i]
  BY <1>5
<1>7. s = [i \in 1..n |-> s[i]] /\ t = [i \in 1..n |-> t[i]]
  BY <1>2, <1>3
<1>8. QED
  BY <1>6, <1>7

\* The positions of pathnames in byte order tell the pathnames apart.
Placed(rows) == IsFiniteSet(rows) /\ \A r, s \in rows : r.pos = s.pos => r.path = s.path

\* ActionPlan::try_new: evidence that is accepted makes one plan, and only one.
THEOREM BuiltIsOne ==
    ASSUME NEW scan, NEW groups, NEW rows, NEW limit,
           Evidence(groups, rows), Placed(rows),
           Accepts(scan, groups, rows, limit)
    PROVE  \E built : TryNew(scan, groups, rows, limit) = {built}
<1> DEFINE S == CoveredRows(rows)
<1>1. S \in SUBSET rows
  BY DEF CoveredRows
<1>2. \A r, s \in rows : r.path = s.path => r = s
  BY DEF Accepts, OneMeaning
<1>3. Distinct(S)
  BY <1>1, <1>2, FS_Subset DEF Distinct, Placed, Evidence
<1> HIDE DEF S
<1>4. PICK s \in Sorted(S) : TRUE
  BY <1>3, SortedExists
<1>5. Sorted(S) = {s}
  BY <1>3, <1>4, SortedOnce
<1>6. TryNew(scan, groups, rows, limit) = {[i \in DOMAIN s |-> ActionOf(rows, s[i])]}
  BY <1>5 DEF TryNew, S
<1>7. QED
  BY <1>6

\* check_global_evidence: where no two ranks share a digest, as in every result that was
\* not verified byte by byte, an allocation belongs to one group.
THEOREM AllocationsApart ==
    ASSUME NEW scan, NEW groups, NEW rows, NEW limit,
           Evidence(groups, rows), Accepts(scan, groups, rows, limit),
           \A g, h \in groups : g.hash = h.hash => g = h
    PROVE  \A r, s \in rows : r.key = s.key => r.rank = s.rank
<1> SUFFICES ASSUME NEW r \in rows, NEW s \in rows, r.key = s.key PROVE r.rank = s.rank
  OBVIOUS
<1>1. PICK g \in groups : g.rank = r.rank
  BY DEF Evidence
<1>2. PICK h \in groups : h.rank = s.rank
  BY DEF Evidence
<1>3. g.hash = h.hash
  BY <1>1, <1>2 DEF Accepts, OneMeaning
<1> QED BY <1>1, <1>2, <1>3

(***************************************************************************)
(* The batch                                                               *)
(***************************************************************************)
\* The steps at which an action is being carried out.
ActionSteps == Steps \ {"lease", "preflight", "obstacles", "snapshots", "preflight2",
                        "boundary", "done"}

\* Where the running action is: what its steps rely on and TypeOK does not say.
StepOK ==
    /\ pc \in ActionSteps => cur \in DOMAIN plan
    /\ pc \in {"publish", "putBack"} => moved \in Locs
    /\ pub = "Failed" => moved \in Locs
    /\ pc = "build" /\ plan[cur].kind = "Reflink" => seen \in FileIds
    /\ pc \in {"settleTarget", "settleKeeper"} =>
        /\ pub \in {"NotMoved", "RolledBack", "Stranded", "Published"}
        /\ pub \in {"Stranded", "Published"} => moved \in Locs
    /\ pc \in {"hashTarget", "hashKeeper"} => seen \in FileIds
    /\ pc = "removeTemp" => pub \in {"NotMoved", "Failed"}

IInv == TypeOK /\ StepOK

\* There are finitely many names.
LEMMA LocsFinite == IsFiniteSet(Locs)
<1> DEFINE A == {"home", "temp", "quarantine"}
           N == 0..MaxSuffix
           S == (A \X Paths) \X N
           T == {<<w[1][1], w[1][2], w[2]>> : w \in S}
           f == [w \in S |-> <<w[1][1], w[1][2], w[2]>>]
<1>1. IsFiniteSet(A)
  <2>1. IsFiniteSet({"home"})
    BY FS_Singleton
  <2>2. IsFiniteSet({"home"} \cup {"temp"})
    BY <2>1, FS_AddElement
  <2>3. IsFiniteSet(({"home"} \cup {"temp"}) \cup {"quarantine"})
    BY <2>2, FS_AddElement
  <2>4. A = ({"home"} \cup {"temp"}) \cup {"quarantine"}
    OBVIOUS
  <2> QED BY <2>3, <2>4
<1>2. IsFiniteSet(N)
  <2>1. 0 \in Int /\ MaxSuffix \in Int
    BY ConstantsOK
  <2>2. IsFiniteSet(0..MaxSuffix)
    BY <2>1, FS_Interval
  <2> QED BY <2>2
<1>3. IsFiniteSet(S)
  <2> HIDE DEF A, N
  <2>1. IsFiniteSet(A \X Paths)
    BY <1>1, ConstantsOK, FS_Product
  <2> QED BY <2>1, <1>2, FS_Product
<1>4. f \in Surjection(S, T)
  BY DEF Surjection
<1>5. IsFiniteSet(T)
  <2> HIDE DEF S, T, f
  <2> QED BY <1>3, <1>4, FS_Surjection
<1>6. Locs \subseteq T
  <2>1. ASSUME NEW x \in A, NEW p \in Paths, NEW n \in N PROVE <<x, p, n>> \in T
    <3>1. <<<<x, p>>, n>> \in S
      OBVIOUS
    <3> QED BY <3>1
  <2>2. 0 \in N
    BY ConstantsOK
  <2> HIDE DEF T, N
  <2> QED BY <2>1, <2>2 DEF Locs, Homes, Temps, Quars, Home, Temp, Quar, N
<1> QED BY <1>5, <1>6, FS_Subset

\* A link count is a number.
LEMMA NlinkType ==
    ASSUME TypeOK, NEW i \in Inodes
    PROVE  Nlink(i) \in Nat
<1>1. IsFiniteSet({l \in Locs : dir[l] = i})
  BY LocsFinite, FS_Subset
<1>2. Cardinality({l \in Locs : dir[l] = i}) \in Nat
  BY <1>1, FS_CardinalityType
<1> QED BY <1>2 DEF Nlink, TypeOK

\* What a stat reads of a name that exists is an identity.
LEMMA IdentityType ==
    ASSUME TypeOK, NEW l \in Locs, dir[l] # None
    PROVE  Identity(l) \in Ids /\ FileIdentity(l) \in FileIds /\ dir[l] \in Inodes
<1>1. dir[l] \in Inodes
  BY DEF TypeOK
<1>2. Nlink(dir[l]) \in Nat
  BY <1>1, NlinkType
<1> QED BY <1>1, <1>2 DEF TypeOK, Identity, FileIdentity, Ids, FileIds

\* The names made for a member pathname are names of the tree.
LEMMA NamesAreLocs ==
    ASSUME NEW p \in Paths
    PROVE  /\ Home(p) \in Locs /\ Temp(p) \in Locs
           /\ \A n \in 0..MaxSuffix : Quar(p, n) \in Locs
BY DEF Locs, Homes, Temps, Quars

\* The running action and everything named after it are well typed.
LEMMA ActionType ==
    ASSUME TypeOK, cur \in DOMAIN plan
    PROVE  /\ act \in Action
           /\ target \in Locs /\ keeper \in Locs /\ temp \in Locs
           /\ \A n \in 0..MaxSuffix : Quar(act.target, n) \in Locs
           /\ targetObject \in Inodes /\ keeperObject \in Inodes
<1>1. plan \in Seq(Action)
  BY PlansOK DEF TypeOK
<1>2. act \in Action
  BY <1>1 DEF act
<1>3. act.target \in Paths /\ act.keeper \in Paths
  BY <1>2 DEF Action
<1>4. targetObject \in Inodes /\ keeperObject \in Inodes
  BY <1>3, ConstantsOK DEF targetObject, keeperObject
<1> QED BY <1>2, <1>3, <1>4, NamesAreLocs DEF target, keeper, temp

\* The inductive invariant holds when a batch begins.
LEMMA TypeInit == Init => IInv
<1> SUFFICES ASSUME Init PROVE IInv
  OBVIOUS
<1>1. plan \in Plans /\ setAside \subseteq DOMAIN plan /\ obstacles \subseteq DOMAIN plan
  BY DEF Init
<1>2. dir \in [Locs -> Inodes \cup {None}]
  BY ConstantsOK DEF Init, Locs, Homes, Home
<1>3. node \in [Inodes -> [data : Data, mtime : Nat, ctime : Nat, outside : Nat]]
  <2>1. ASSUME NEW i \in Objects PROVE GroupOf[CHOOSE p \in Members(i) : TRUE] \in Groups
    <3>1. \E p \in Members(i) : TRUE
      BY DEF Objects, Members
    <3>2. (CHOOSE p \in Members(i) : TRUE) \in Paths
      BY <3>1 DEF Members
    <3> QED BY <3>2, ConstantsOK
  <2> QED BY <2>1, ConstantsOK DEF Init, Data
<1>4. snap \in [Datasets -> [Paths -> Data \cup {None}] \cup {None}]
  BY DEF Init
<1>5. cur \in 0..Len(plan)
  <2>1. plan \in Seq(Action)
    BY <1>1, PlansOK
  <2> QED BY <2>1 DEF Init
<1>6. ledger \in [Inodes -> Entry]
  BY DEF Init, Entry, Untracked
<1>7. clones \in [Paths -> Ids \cup {None}] /\ verified \in [Paths -> FileIds \cup {None}]
  BY DEF Init
<1>8. results \in Seq(Outcome) /\ faults \in Nat /\ outsider \in Nat
  BY ConstantsOK DEF Init
<1>9. TypeOK
  BY <1>1, <1>2, <1>3, <1>4, <1>5, <1>6, <1>7, <1>8 DEF Init, TypeOK, Steps
<1> QED BY <1>9 DEF Init, IInv, StepOK, ActionSteps

NodeType == [data : Data, mtime : Nat, ctime : Nat, outside : Nat]

\* A ctime that moves on leaves the inodes well typed.
LEMMA BumpType ==
    ASSUME TypeOK, NEW i \in Inodes
    PROVE  Bump(i) \in [Inodes -> NodeType]
<1>1. node[i] \in NodeType
  BY DEF TypeOK, NodeType
<1>2. [node[i] EXCEPT !.ctime = @ + 1] \in NodeType
  BY <1>1 DEF NodeType
<1>3. Bump(i) = [node EXCEPT ![i] = [node[i] EXCEPT !.ctime = @ + 1]]
  BY DEF Bump, TypeOK
<1>4. node \in [Inodes -> NodeType]
  BY DEF TypeOK, NodeType
<1> QED BY <1>2, <1>3, <1>4

\* So do the outsider's changes of one inode.
LEMMA NodeFields ==
    ASSUME NEW e \in NodeType, NEW data \in Data, NEW step \in Nat
    PROVE  /\ [e EXCEPT !.ctime = @ + 1] \in NodeType
           /\ [e EXCEPT !.outside = @ + 1, !.ctime = @ + 1] \in NodeType
           /\ [e EXCEPT !.data = data, !.ctime = @ + 1, !.mtime = @ + step] \in NodeType
<1>1. [e EXCEPT !.ctime = @ + 1] \in NodeType
  BY DEF NodeType
<1>a. /\ e.data \in Data /\ e.mtime \in Nat /\ e.ctime \in Nat /\ e.outside \in Nat
      /\ e.mtime + step \in Nat /\ e.ctime + 1 \in Nat /\ e.outside + 1 \in Nat
  BY DEF NodeType
<1>2. [e EXCEPT !.outside = @ + 1, !.ctime = @ + 1] \in NodeType
  <2>1. \A x, y \in Nat : [e EXCEPT !.outside = x, !.ctime = y] \in NodeType
    BY DEF NodeType
  <2> QED BY <2>1, <1>a
<1>3. [e EXCEPT !.data = data, !.ctime = @ + 1, !.mtime = @ + step] \in NodeType
  <2>1. \A x, y \in Nat : [e EXCEPT !.data = data, !.ctime = x, !.mtime = y] \in NodeType
    BY DEF NodeType
  <2> QED BY <2>1, <1>a
<1> QED BY <1>1, <1>2, <1>3

\* A rename leaves the tree and the inodes well typed.
LEMMA RenameType ==
    ASSUME TypeOK, NEW from \in Locs, NEW to \in Locs, RenameOK(from, to), Rename(from, to)
    PROVE  dir' \in [Locs -> Inodes \cup {None}] /\ node' \in [Inodes -> NodeType]
<1>1. dir[from] \in Inodes
  BY DEF TypeOK, RenameOK
<1> QED BY <1>1, BumpType DEF TypeOK, Rename

\* Reporting an outcome leaves the results well typed and returns to the boundary.
LEMMA ReportType ==
    ASSUME TypeOK, NEW res \in {"Removed", "Refused", "RolledBack", "Stranded", "Unsettled"},
           NEW quarantine \in Locs \cup {None}, Report(res, quarantine)
    PROVE  results' \in Seq(Outcome) /\ pc' = "boundary"
<1>1. [res |-> res, quarantine |-> quarantine] \in Outcome
  BY DEF Outcome
<1> QED BY <1>1 DEF TypeOK, Report, Goto

\* The batch before its first action.
LEMMA TypeOpening ==
    ASSUME IInv,
           LeaseRefused \/ LeaseTaken \/ PreflightFirst \/ FindObstacles \/ CreateSnapshot
             \/ SnapshotFails \/ SnapshotsMade \/ PreflightSecond \/ Boundary
    PROVE  IInv'
<1> USE DEF IInv, TypeOK, StepOK, ActionSteps, Steps, treeVars, Same, Goto, End
<1>1. CASE LeaseRefused
  BY <1>1 DEF LeaseRefused
<1>2. CASE LeaseTaken
  BY <1>2 DEF LeaseTaken
<1>3. CASE PreflightFirst
  BY <1>3 DEF PreflightFirst
<1>4. CASE FindObstacles
  BY <1>4 DEF FindObstacles, MayFind
<1>5. CASE CreateSnapshot
  <2>1. ASSUME NEW d \in Datasets PROVE Contents(d) \in [Paths -> Data \cup {None}]
    BY NamesAreLocs DEF Contents
  <2>2. snap' \in [Datasets -> [Paths -> Data \cup {None}] \cup {None}]
    BY <1>5, <2>1 DEF CreateSnapshot
  <2> QED BY <1>5, <2>2 DEF CreateSnapshot
<1>6. CASE SnapshotFails
  BY <1>6 DEF SnapshotFails, FailedSnapshot, Fault
<1>7. CASE SnapshotsMade
  BY <1>7 DEF SnapshotsMade
<1>8. CASE PreflightSecond
  <2>1. ledger' \in [Inodes -> Entry]
    <3>1. \A i \in Inodes : {Home(p) : p \in Members(i)} \subseteq Locs
      BY NamesAreLocs DEF Members
    <3>2. \A i \in Inodes : Nlink(i) \in Nat
      BY NlinkType
    <3>3. ASSUME NEW i \in Inodes
          PROVE  [id |-> [ino |-> i, mtime |-> node[i].mtime, ctime |-> node[i].ctime,
                          nlink |-> Nlink(i)],
                  paths |-> {Home(p) : p \in Members(i)}, settled |-> TRUE] \in Entry
      BY <3>1, <3>2 DEF Entry, Ids
    <3>4. Untracked \in Entry
      BY DEF Entry, Untracked
    <3> HIDE DEF Entry
    <3> QED BY <1>8, <3>3, <3>4 DEF PreflightSecond
  <2> QED BY <1>8, <2>1 DEF PreflightSecond
<1>9. CASE Boundary
  <2>1. plan \in Seq(Action)
    BY PlansOK
  <2> QED BY <1>9, <2>1 DEF Boundary, AllReached
<1> QED BY <1>1, <1>2, <1>3, <1>4, <1>5, <1>6, <1>7, <1>8, <1>9

\* The checks of one action: nothing but the cache and the report is written.
LEMMA TypeChecks ==
    ASSUME IInv, ApplyOne \/ StatTarget \/ HashTarget \/ StatKeeper \/ HashKeeper \/ ReadMeta
    PROVE  IInv'
<1> USE DEF IInv, TypeOK, StepOK, ActionSteps, Steps, treeVars, Same, Goto, End
<1>0. cur \in DOMAIN plan
  BY DEF ApplyOne, StatTarget, HashTarget, StatKeeper, HashKeeper, ReadMeta
<1>a. act \in Action /\ target \in Locs
  BY <1>0, ActionType
<1>b. act.target \in Paths /\ act.keeper \in Paths /\ act.kind \in Kinds
  BY <1>a DEF Action
<1>c. Home(act.target) \in Locs /\ Home(act.keeper) \in Locs
  BY <1>b, NamesAreLocs
<1>d. Report("Refused", None) => results' \in Seq(Outcome) /\ pc' = "boundary"
  BY ReportType
<1>e. FirstStep \in {"look", "build", "meta"} /\ (FirstStep = "build" => act.kind = "Hardlink")
  BY <1>b DEF FirstStep, Kinds
<1>1. CASE ApplyOne
  BY <1>1, <1>0, <1>d DEF ApplyOne
<1>2. ASSUME NEW p \in Paths, NEW hash, NEW next, Stat(p, hash, next),
             hash \in {"hashTarget", "hashKeeper"}, next \in {"statKeeper", FirstStep}
      PROVE  IInv'
  <2>1. Home(p) \in Locs
    BY NamesAreLocs
  <2>2. CASE ~Live(Home(p))
    BY <1>2, <2>2, <1>0, <1>d DEF Stat
  <2>3. CASE Live(Home(p))
    <3>1. FileIdentity(Home(p)) \in FileIds
      BY <2>1, <2>3, IdentityType DEF Live
    <3> QED BY <1>2, <2>3, <3>1, <1>0, <1>e DEF Stat, act
  <2> QED BY <2>2, <2>3
<1>3. ASSUME NEW p \in Paths, NEW next, Hash(p, next), next \in {"statKeeper", FirstStep},
             seen \in FileIds
      PROVE  IInv'
  <2>1. CASE Live(Home(p)) /\ node[dir[Home(p)]].data = digest
    <3>1. verified' \in [Paths -> FileIds \cup {None}]
      BY <1>3, <2>1 DEF Hash
    <3> QED BY <1>3, <2>1, <3>1, <1>0, <1>e DEF Hash, act
  <2>2. CASE ~(Live(Home(p)) /\ node[dir[Home(p)]].data = digest)
    BY <1>3, <2>2, <1>0, <1>d DEF Hash
  <2> QED BY <2>1, <2>2
<1>4. CASE StatTarget
  BY <1>4, <1>2, <1>b DEF StatTarget
<1>5. CASE HashTarget
  BY <1>5, <1>3, <1>b DEF HashTarget
<1>6. CASE StatKeeper
  BY <1>6, <1>2, <1>b DEF StatKeeper
<1>7. CASE HashKeeper
  BY <1>7, <1>3, <1>b DEF HashKeeper
<1>8. CASE ReadMeta
  <2>1. dir[target] # None => FileIdentity(target) \in FileIds
    BY <1>a, IdentityType
  <2> QED BY <1>8, <1>0, <2>1 DEF ReadMeta, NoFault, Fault
<1> QED BY <1>1, <1>4, <1>5, <1>6, <1>7, <1>8

\* The renames, links and removals of one action.
LEMMA TypeMoves ==
    ASSUME IInv,
           Build \/ BuildFails \/ QuarantineLook \/ QuarantineMove \/ QuarantineFails
             \/ Publish \/ PublishFails \/ RemoveTemp \/ PutBack \/ PutBackFails
    PROVE  IInv'
<1> USE DEF IInv, TypeOK, StepOK, ActionSteps, Steps, treeVars, Same, Goto, End, NoFault, Fault
<1>0. cur \in DOMAIN plan
  BY DEF Build, BuildFails, QuarantineLook, QuarantineMove, QuarantineFails, Publish,
         PublishFails, RemoveTemp, PutBack, PutBackFails
<1>a. /\ act \in Action /\ target \in Locs /\ keeper \in Locs /\ temp \in Locs
      /\ \A n \in 0..MaxSuffix : Quar(act.target, n) \in Locs
  BY <1>0, ActionType
<1>b. NotMoved =>
        \/ results' \in Seq(Outcome) /\ pc' = "boundary" /\ pub' = pub
        \/ results' = results /\ pc' = "removeTemp" /\ pub' = "NotMoved"
  BY ReportType DEF NotMoved
<1>c. [Inodes -> NodeType]
        = [Inodes -> [data : Data, mtime : Nat, ctime : Nat, outside : Nat]]
  BY DEF NodeType
<1>1. CASE Build
  <2>1. CASE BuildLink
    <3>1. dir[keeper] \in Inodes
      BY <1>a, <2>1 DEF BuildLink
    <3>2. node' \in [Inodes -> NodeType]
      BY <2>1, <3>1, BumpType DEF BuildLink
    <3>3. dir' \in [Locs -> Inodes \cup {None}]
      BY <2>1, <3>1, <1>a DEF BuildLink
    <3> QED BY <1>0, <1>1, <3>2, <3>3, <1>c DEF Build
  <2>2. CASE BuildClone
    <3>1. PICK i \in Inodes :
            /\ dir' = [dir EXCEPT ![temp] = i]
            /\ node' = [node EXCEPT ![i] = [data |-> node[dir[keeper]].data, mtime |-> seen.mtime,
                                            ctime |-> @.ctime + 1, outside |-> 0]]
      BY <2>2 DEF BuildClone
    <3>2. dir[keeper] \in Inodes
      BY <1>a, <2>2 DEF BuildClone, Live
    <3>3. seen \in FileIds
      BY <1>1, <2>2 DEF Build, BuildClone, act
    <3>4. [data |-> node[dir[keeper]].data, mtime |-> seen.mtime,
           ctime |-> node[i].ctime + 1, outside |-> 0] \in NodeType
      BY SMTT(30), <3>2, <3>3 DEF NodeType, FileIds
    <3>5. node' \in [Inodes -> NodeType]
      BY <3>1, <3>4, <1>c
    <3>6. dir' \in [Locs -> Inodes \cup {None}]
      BY <3>1, <1>a
    <3> QED BY <1>0, <1>1, <3>5, <3>6, <1>c DEF Build
  <2> QED BY <1>1, <2>1, <2>2 DEF Build
<1>2. CASE BuildFails
  BY <1>2, <1>0 DEF BuildFails
<1>3. CASE QuarantineLook
  BY <1>3, <1>0, <1>b DEF QuarantineLook
<1>4. CASE QuarantineMove
  <2>1. PICK n \in 0..MaxSuffix :
          /\ RenameOK(target, Quar(act.target, n)) /\ Rename(target, Quar(act.target, n))
          /\ moved' = Quar(act.target, n)
    BY <1>4 DEF QuarantineMove
  <2>2. dir' \in [Locs -> Inodes \cup {None}] /\ node' \in [Inodes -> NodeType]
    BY <2>1, <1>a, RenameType
  <2> QED BY <1>4, <1>0, <1>a, <1>c, <2>1, <2>2 DEF QuarantineMove
<1>5. CASE QuarantineFails
  BY <1>5, <1>0, <1>b DEF QuarantineFails
<1>6. CASE Publish
  <2>1. dir' \in [Locs -> Inodes \cup {None}] /\ node' \in [Inodes -> NodeType]
    BY <1>6, <1>a, RenameType DEF Publish
  <2> QED BY <1>6, <1>0, <1>c, <2>1 DEF Publish
<1>7. CASE PublishFails
  BY <1>7, <1>0 DEF PublishFails
<1>8. CASE RemoveTemp
  <2>1. dir' \in [Locs -> Inodes \cup {None}]
    BY <1>8, <1>a DEF RemoveTemp
  <2>2. node' \in [Inodes -> NodeType]
    <3>1. dir[temp] # None => Bump(dir[temp]) \in [Inodes -> NodeType]
      BY <1>a, BumpType
    <3> QED BY <1>8, <1>c, <3>1 DEF RemoveTemp
  <2>3. pub \in {"NotMoved", "Failed"}
    BY <1>8 DEF RemoveTemp
  <2>4. faults' \in Nat
    BY <1>8 DEF RemoveTemp
  <2>5. /\ pc' = (IF pub = "Failed" THEN "putBack" ELSE "settleTarget")
        /\ UNCHANGED <<snap, cur, obstacles, ledger, clones, verified, seen, moved, pub,
                       results, ending, plan, setAside, cancel, touched, outsider>>
    BY <1>8 DEF RemoveTemp
  <2> QED BY <1>0, <1>c, <2>1, <2>2, <2>3, <2>4, <2>5
<1>9. CASE PutBack
  <2>1. dir' \in [Locs -> Inodes \cup {None}] /\ node' \in [Inodes -> NodeType]
    BY <1>9, <1>a, RenameType DEF PutBack
  <2> QED BY <1>9, <1>0, <1>c, <2>1 DEF PutBack
<1>10. CASE PutBackFails
  BY <1>10, <1>0 DEF PutBackFails
<1> QED BY <1>1, <1>2, <1>3, <1>4, <1>5, <1>6, <1>7, <1>8, <1>9, <1>10

\* Every entry the ledger's transitions write is well typed.
LEMMA LedgerType ==
    ASSUME TypeOK, NEW o \in Inodes
    PROVE  /\ \A l \in Locs : dir[l] # None => Settled(o, l) \in [Inodes -> Entry]
           /\ \A from, to \in Locs : dir[to] # None => Adopt(o, from, to) \in [Inodes -> Entry]
           /\ \A k, l \in Locs : dir[k] # None =>
                [ledger EXCEPT ![o].id = Identity(k), ![o].paths = @ \cup {l}]
                    \in [Inodes -> Entry]
           /\ \A os : Poisoned(ledger, os) \in [Inodes -> Entry]
<1>1. ledger \in [Inodes -> Entry]
  BY DEF TypeOK
<1>2. ASSUME NEW os PROVE Poisoned(ledger, os) \in [Inodes -> Entry]
  <2>1. \A i \in Inodes : [ledger[i] EXCEPT !.settled = FALSE] \in Entry
    BY <1>1 DEF Entry
  <2> QED BY <1>1, <2>1 DEF Poisoned
<1>3. ledger[o].paths \subseteq Locs
  BY <1>1 DEF Entry
<1>4. ASSUME NEW k \in Locs, dir[k] # None
      PROVE  Settled(o, k) \in [Inodes -> Entry]
  <2>1. Identity(k) \in Ids
    BY <1>4, IdentityType
  <2> DEFINE e == [ledger[o] EXCEPT !.id = Identity(k)]
  <2>2. e \in Entry
    BY <1>1, <2>1 DEF Entry
  <2>3. Settled(o, k) = [ledger EXCEPT ![o] = e]
    BY <1>1 DEF Settled
  <2> HIDE DEF e
  <2> QED BY <1>1, <2>2, <2>3
<1>5. ASSUME NEW k \in Locs, NEW l \in Locs, dir[k] # None
      PROVE  [ledger EXCEPT ![o].id = Identity(k), ![o].paths = @ \cup {l}] \in [Inodes -> Entry]
  <2>1. Identity(k) \in Ids
    BY <1>5, IdentityType
  <2> DEFINE e == [ledger[o] EXCEPT !.id = Identity(k), !.paths = @ \cup {l}]
  <2>2. e \in Entry
    BY <1>1, <1>3, <2>1 DEF Entry
  <2>3. [ledger EXCEPT ![o].id = Identity(k), ![o].paths = @ \cup {l}] = [ledger EXCEPT ![o] = e]
    BY <1>1
  <2>4. [ledger EXCEPT ![o] = e] \in [Inodes -> Entry]
    <3> HIDE DEF e
    <3> QED BY <1>1, <2>2
  <2> QED BY <2>3, <2>4
<1>6. ASSUME NEW from \in Locs, NEW to \in Locs, dir[to] # None
      PROVE  Adopt(o, from, to) \in [Inodes -> Entry]
  <2>1. Identity(to) \in Ids
    BY <1>6, IdentityType
  <2> DEFINE e == [ledger[o] EXCEPT !.id = Identity(to), !.paths = (@ \ {from}) \cup {to}]
  <2>2. e \in Entry
    BY <1>1, <1>3, <2>1 DEF Entry
  <2>3. Adopt(o, from, to) = [ledger EXCEPT ![o] = e]
    BY <1>1 DEF Adopt
  <2>4. [ledger EXCEPT ![o] = e] \in [Inodes -> Entry]
    <3> HIDE DEF e
    <3> QED BY <1>1, <2>2
  <2> QED BY <2>3, <2>4
<1> QED BY <1>2, <1>4, <1>5, <1>6

\* The ledger's transitions after the renames.
LEMMA TypeSettles ==
    ASSUME IInv, SettleTarget \/ SettleKeeper
    PROVE  IInv'
<1> DEFINE Rests == UNCHANGED <<dir, node, snap, cur, obstacles, verified, seen, moved, pub,
                                ending, faults, plan, setAside, cancel, touched, outsider>>
<1>0. cur \in DOMAIN plan
  BY DEF IInv, StepOK, ActionSteps, Steps, SettleTarget, SettleKeeper
<1>a. /\ TypeOK /\ act \in Action /\ target \in Locs /\ keeper \in Locs
      /\ targetObject \in Inodes /\ keeperObject \in Inodes
  BY <1>0, ActionType DEF IInv
<1>b. /\ pub \in {"NotMoved", "RolledBack", "Stranded", "Published"}
      /\ pub \in {"Stranded", "Published"} => moved \in Locs
  BY DEF IInv, StepOK, SettleTarget, SettleKeeper
<1>c. \A os : Poisoned(ledger, os) \in [Inodes -> Entry]
  BY <1>a, LedgerType
<1>d. Unsettle /\ pub = "Published" =>
        ledger' \in [Inodes -> Entry] /\ results' \in Seq(Outcome) /\ pc' = "boundary"
  BY <1>a, <1>b, <1>c, ReportType DEF Unsettle
<1>e. pub = "Published" /\ Report("Removed", moved)
        => results' \in Seq(Outcome) /\ pc' = "boundary"
  BY <1>a, <1>b, ReportType
<1>1. SUFFICES /\ Rests
               /\ ledger' \in [Inodes -> Entry]
               /\ clones' \in [Paths -> Ids \cup {None}]
               /\ \/ results' \in Seq(Outcome) /\ pc' = "boundary"
                  \/ results' = results /\ pc' = "settleKeeper"
  <2>1. results \in Seq(Outcome)
    BY <1>a DEF TypeOK
  <2> QED BY <1>1, <2>1, <1>0, <1>a, <1>b DEF IInv, TypeOK, StepOK, Steps, ActionSteps
<1>2. CASE SettleTarget
  <2> DEFINE where == IF pub \in {"Published", "Stranded"} THEN moved ELSE target
             ok == SameButCtime(targetObject, where)
             adopted == IF where = target THEN Settled(targetObject, target)
                                          ELSE Adopt(targetObject, target, where)
  <2>1. where \in Locs
    BY <1>a, <1>b
  <2>2. ok => adopted \in [Inodes -> Entry]
    <3>1. ok => dir[where] # None
      BY DEF SameButCtime, Live
    <3>2. dir[where] # None => Adopt(targetObject, target, where) \in [Inodes -> Entry]
      BY <1>a, <2>1, LedgerType
    <3>3. dir[target] # None => Settled(targetObject, target) \in [Inodes -> Entry]
      BY <1>a, LedgerType
    <3> QED BY <3>1, <3>2, <3>3
  <2>3. Rests /\ clones' = clones
    BY <1>2 DEF SettleTarget, treeVars, Same
  <2>4. \/ pub = "Published" /\ Unsettle
        \/ /\ ok /\ ledger' = adopted /\ pub = "Published"
           /\ Report("Removed", moved) \/ (Goto("settleKeeper") /\ results' = results)
        \/ /\ ledger' = IF ok THEN adopted ELSE Poisoned(ledger, {targetObject})
           /\ Goto("settleKeeper") /\ results' = results
    BY <1>2 DEF SettleTarget
  <2> HIDE DEF where, ok, adopted
  <2> QED BY <2>2, <2>3, <2>4, <1>a, <1>c, <1>d, <1>e DEF TypeOK, Goto
<1>3. CASE SettleKeeper
  <2>1. Rests
    BY <1>3 DEF SettleKeeper, treeVars, Same
  <2>2. CASE SettlePublished
    <3>1. CASE Unsettle /\ clones' = clones
      BY <2>1, <2>2, <3>1, <1>a, <1>d DEF SettlePublished, TypeOK
    <3>2. CASE /\ LinkedOnce(keeperObject, keeper, target)
               /\ ledger' = [ledger EXCEPT ![keeperObject].id = Identity(keeper),
                                           ![keeperObject].paths = @ \cup {target}]
               /\ Report("Removed", moved) /\ clones' = clones
      <4>1. dir[keeper] # None
        BY <3>2 DEF LinkedOnce, Live
      <4>2. ledger' \in [Inodes -> Entry]
        BY <3>2, <4>1, <1>a, LedgerType
      <4> QED BY <2>1, <2>2, <3>2, <4>2, <1>a, <1>e DEF SettlePublished, TypeOK
    <3>3. CASE /\ ClonedOnce(keeperObject, targetObject, keeper, target)
               /\ clones' = [clones EXCEPT ![act.target] = Identity(target)]
               /\ Report("Removed", moved) /\ ledger' = ledger
      <4>1. dir[target] # None
        BY <3>3 DEF ClonedOnce, Live
      <4>2. Identity(target) \in Ids
        BY <4>1, <1>a, IdentityType
      <4> QED BY <2>1, <2>2, <3>3, <4>2, <1>a, <1>e DEF SettlePublished, TypeOK
    <3> QED BY <2>2, <3>1, <3>2, <3>3 DEF SettlePublished
  <2>3. CASE SettleFailed
    <3>1. SameButCtime(keeperObject, keeper) => dir[keeper] # None
      BY DEF SameButCtime, Live
    <3>2. ledger' \in [Inodes -> Entry]
      BY <2>3, <3>1, <1>a, <1>c, LedgerType DEF SettleFailed
    <3>3. results' \in Seq(Outcome) /\ pc' = "boundary"
      <4>1. CASE pub = "NotMoved"
        BY <4>1, <2>3, <1>a, ReportType DEF SettleFailed
      <4>2. CASE pub = "RolledBack"
        BY <4>2, <2>3, <1>a, ReportType DEF SettleFailed
      <4>3. CASE pub = "Stranded"
        BY <4>3, <2>3, <1>a, <1>b, ReportType DEF SettleFailed
      <4> QED BY <4>1, <4>2, <4>3, <1>b, <2>3 DEF SettleFailed
    <3> QED BY <2>1, <2>3, <3>2, <3>3, <1>a DEF SettleFailed, TypeOK
  <2> QED BY <1>3, <2>2, <2>3 DEF SettleKeeper
<1> QED BY <1>2, <1>3

\* Everybody else.
LEMMA TypeOthers ==
    ASSUME IInv, Cancel \/ OutsiderMoves \/ UNCHANGED vars
    PROVE  IInv'
<1> USE DEF IInv, TypeOK, StepOK, batchVars, treeVars
<1>1. CASE UNCHANGED vars
  BY <1>1 DEF vars
<1>2. CASE Cancel
  BY <1>2 DEF Cancel
<1>3. CASE OutsiderMoves
  <2>1. PICK l \in Homes \cup Quars :
          OutsiderWrites(l) \/ OutsiderPuts(l) \/ OutsiderRemoves(l) \/ OutsiderLinks(l)
    BY <1>3 DEF OutsiderMoves
  <2>2. l \in Locs
    BY DEF Locs
  <2>a. [Inodes -> NodeType]
          = [Inodes -> [data : Data, mtime : Nat, ctime : Nat, outside : Nat]]
    BY DEF NodeType
  <2>b. \A n \in Inodes : node[n] \in NodeType
    BY <2>a
  <2>3. SUFFICES /\ dir' \in [Locs -> Inodes \cup {None}] /\ node' \in [Inodes -> NodeType]
                 /\ touched' \subseteq Locs \cup Inodes /\ outsider' \in Nat /\ Rest
    <3>1. TypeOK'
      BY <2>3, <2>a DEF Rest
    <3>2. StepOK'
      BY <2>3 DEF Rest
    <3> QED BY <3>1, <3>2
  <2>4. outsider' \in Nat /\ Rest
    <3>1. Outsider /\ Rest
      BY <2>1 DEF OutsiderWrites, OutsiderPuts, OutsiderRemoves, OutsiderLinks
    <3> QED BY <3>1 DEF Outsider
  <2>5. CASE OutsiderWrites(l)
    <3>1. dir[l] \in Inodes
      BY <2>2, <2>5 DEF OutsiderWrites
    <3>2. PICK step \in Nat, data \in Data :
            node' = [node EXCEPT ![dir[l]].data = data, ![dir[l]].ctime = @ + 1,
                                 ![dir[l]].mtime = @ + step]
      BY <2>5 DEF OutsiderWrites, Data
    <3> DEFINE e == [node[dir[l]] EXCEPT !.data = data, !.ctime = @ + 1, !.mtime = @ + step]
    <3>3. e \in NodeType
      BY <3>1, <2>b, NodeFields
    <3>4. node' = [node EXCEPT ![dir[l]] = e]
      BY <3>1, <3>2
    <3>5. node' \in [Inodes -> NodeType]
      <4> HIDE DEF e
      <4> QED BY <3>3, <3>4, <2>a
    <3> QED BY <2>2, <2>4, <2>5, <3>1, <3>5 DEF OutsiderWrites
  <2>6. CASE OutsiderPuts(l)
    <3>1. PICK i \in Inodes, data \in Data :
            /\ dir' = [dir EXCEPT ![l] = i]
            /\ node' = [n \in Inodes |->
                  IF n = i THEN [data |-> data, mtime |-> node[i].mtime + 1,
                                 ctime |-> node[i].ctime + 1, outside |-> 0]
                  ELSE IF n = dir[l] THEN [node[n] EXCEPT !.ctime = @ + 1] ELSE node[n]]
            /\ touched' = touched \cup {l, i} \cup ({dir[l]} \ {None})
      BY <2>6 DEF OutsiderPuts, Data
    <3>2. \A n \in Inodes : node[n] \in NodeType /\ [node[n] EXCEPT !.ctime = @ + 1] \in NodeType
      BY <2>b, NodeFields
    <3>3. [data |-> data, mtime |-> node[i].mtime + 1, ctime |-> node[i].ctime + 1,
           outside |-> 0] \in NodeType
      BY DEF NodeType
    <3>4. node' \in [Inodes -> NodeType]
      BY <3>1, <3>2, <3>3
    <3>5. touched' \subseteq Locs \cup Inodes
      BY <3>1, <2>2
    <3>6. dir' \in [Locs -> Inodes \cup {None}]
      BY <3>1, <2>2
    <3> QED BY <2>4, <3>4, <3>5, <3>6
  <2>7. CASE OutsiderRemoves(l)
    <3>1. dir[l] \in Inodes
      BY <2>2, <2>7 DEF OutsiderRemoves
    <3>2. node' \in [Inodes -> NodeType]
      BY <2>7, <3>1, BumpType DEF OutsiderRemoves
    <3> QED BY <2>2, <2>4, <2>7, <3>1, <3>2 DEF OutsiderRemoves
  <2>8. CASE OutsiderLinks(l)
    <3>1. dir[l] \in Inodes
      BY <2>2, <2>8 DEF OutsiderLinks
    <3> DEFINE e == [node[dir[l]] EXCEPT !.outside = @ + 1, !.ctime = @ + 1]
    <3>2. e \in NodeType
      BY <3>1, <2>b, NodeFields, ConstantsOK DEF Data
    <3>3. node' = [node EXCEPT ![dir[l]] = e]
      BY <2>8, <3>1 DEF OutsiderLinks
    <3>4. node' \in [Inodes -> NodeType]
      <4> HIDE DEF e
      <4> QED BY <3>2, <3>3, <2>a
    <3> QED BY <2>2, <2>4, <2>8, <3>1, <3>4 DEF OutsiderLinks
  <2> QED BY <2>1, <2>5, <2>6, <2>7, <2>8
<1> QED BY <1>1, <1>2, <1>3

\* TypeOK is an invariant of the batch, together with what its steps rely on.
THEOREM TypeInvariant == Spec => []IInv
<1>1. IInv /\ [Next]_vars => IInv'
  BY TypeOpening, TypeChecks, TypeMoves, TypeSettles, TypeOthers DEF Next, Worker, Done
<1> QED BY <1>1, TypeInit, PTL DEF Spec

\* TypeOK itself.
THEOREM TypeCorrect == Spec => []TypeOK
BY TypeInvariant, PTL DEF IInv

-----------------------------------------------------------------------------
(***************************************************************************)
(* No step of the batch takes a file's last name or changes its bytes.     *)
(***************************************************************************)
Kept(i) == Held(i) => Held(i)' /\ node'[i].data = node[i].data

\* A ctime that moves on changes neither bytes nor outside links.
LEMMA BumpKeeps ==
    ASSUME TypeOK, NEW j \in Inodes, NEW i \in Inodes
    PROVE  Bump(j)[i].data = node[i].data /\ Bump(j)[i].outside = node[i].outside
BY DEF TypeOK, Bump

\* A rename that does not overwrite keeps every file reachable.
LEMMA RenameKeeps ==
    ASSUME TypeOK, NEW from \in Locs, NEW to \in Homes \cup Quars,
           RenameOK(from, to), Rename(from, to), NEW i \in Inodes
    PROVE  Kept(i)
<1>0. dir[from] \in Inodes /\ dir[to] = None /\ to \in Locs /\ from # to
  BY DEF TypeOK, RenameOK, Locs
<1>1. node'[i].data = node[i].data /\ node'[i].outside = node[i].outside
  BY <1>0, BumpKeeps DEF Rename
<1>2. ASSUME NEW l \in Homes \cup Quars, dir[l] = i
      PROVE  \E k \in Homes \cup Quars : dir'[k] = i
  <2>0. l \in Locs /\ None # i
    BY ConstantsOK DEF Locs
  <2>1. CASE l = from
    BY <1>0, <1>2, <2>0, <2>1 DEF Rename, TypeOK
  <2>2. CASE l # from
    <3>1. l # to
      BY <1>0, <1>2, <2>0
    <3>2. dir'[l] = i
      BY <1>0, <1>2, <2>0, <2>2, <3>1 DEF Rename, TypeOK
    <3> QED BY <3>2
  <2> QED BY <2>1, <2>2
<1> QED BY <1>1, <1>2 DEF Kept, Held

\* Making or removing a staging name takes no other name away.
LEMMA TempKeeps ==
    ASSUME TypeOK, NEW p \in Paths, NEW v, NEW i \in Inodes,
           dir' = [dir EXCEPT ![Temp(p)] = v],
           node'[i].data = node[i].data, node'[i].outside = node[i].outside
    PROVE  Kept(i)
<1>1. Temp(p) \notin Homes \cup Quars
  BY DEF Temp, Homes, Home, Quars, Quar
<1>2. \A l \in Homes \cup Quars : dir'[l] = dir[l]
  BY <1>1 DEF TypeOK, Locs
<1> QED BY <1>2 DEF Kept, Held

\* Every step of the batch keeps every file reachable and its bytes.
LEMMA WorkerKeeps ==
    ASSUME IInv, Worker, NEW i \in Inodes
    PROVE  Kept(i)
<1>0. TypeOK
  BY DEF IInv
<1>1. CASE UNCHANGED treeVars
  BY <1>1 DEF treeVars, Kept, Held
<1>2. CASE Build \/ QuarantineMove \/ Publish \/ RemoveTemp \/ PutBack
  <2>0. cur \in DOMAIN plan
    BY <1>2 DEF IInv, StepOK, ActionSteps, Steps, Build, QuarantineMove, Publish, RemoveTemp,
                PutBack
  <2>1. act \in Action /\ target \in Locs /\ keeper \in Locs /\ temp \in Locs
    BY <1>0, <2>0, ActionType
  <2>2. act.target \in Paths
    BY <2>1 DEF Action
  <2>3. target \in Homes /\ \A n \in 0..MaxSuffix : Quar(act.target, n) \in Quars
    BY <2>2 DEF target, Homes, Quars
  <2>4. CASE QuarantineMove
    BY <2>4, <1>0, <2>1, <2>3, RenameKeeps DEF QuarantineMove
  <2>5. CASE Publish
    BY <2>5, <1>0, <2>1, <2>3, RenameKeeps DEF Publish
  <2>6. CASE PutBack
    <3>1. moved \in Locs
      BY <2>6 DEF PutBack, IInv, StepOK
    <3> QED BY <2>6, <1>0, <2>3, <3>1, RenameKeeps DEF PutBack
  <2>7. CASE RemoveTemp
    <3>1. CASE UNCHANGED treeVars
      BY <1>1, <3>1
    <3>2. CASE /\ dir' = [dir EXCEPT ![temp] = None]
               /\ node' = IF dir[temp] = None THEN node ELSE Bump(dir[temp])
      <4>1. dir[temp] = None \/ dir[temp] \in Inodes
        BY <1>0, <2>1 DEF TypeOK
      <4>2. node'[i].data = node[i].data /\ node'[i].outside = node[i].outside
        BY <1>0, <3>2, <4>1, BumpKeeps
      <4> QED BY <1>0, <2>2, <3>2, <4>2, TempKeeps DEF temp
    <3> QED BY <2>7, <3>1, <3>2 DEF RemoveTemp
  <2>8. CASE Build /\ BuildLink
    <3>1. dir[keeper] \in Inodes
      BY <1>0, <2>1, <2>8 DEF TypeOK, BuildLink
    <3>2. node'[i].data = node[i].data /\ node'[i].outside = node[i].outside
      BY <1>0, <2>8, <3>1, BumpKeeps DEF BuildLink
    <3> QED BY <1>0, <2>2, <2>8, <3>2, TempKeeps DEF BuildLink, temp
  <2>9. CASE Build /\ BuildClone
    <3>1. PICK j \in Inodes :
            /\ ~Linked(j)
            /\ dir' = [dir EXCEPT ![temp] = j]
            /\ node' = [node EXCEPT ![j] = [data |-> node[dir[keeper]].data, mtime |-> seen.mtime,
                                            ctime |-> @.ctime + 1, outside |-> 0]]
      BY <2>9 DEF BuildClone
    <3>2. CASE i = j
      BY <3>1, <3>2 DEF Kept, Held, Linked, Locs
    <3>3. CASE i # j
      <4>1. node'[i] = node[i]
        BY <1>0, <3>1, <3>3 DEF TypeOK
      <4> QED BY <1>0, <2>2, <3>1, <4>1, TempKeeps DEF temp
    <3> QED BY <3>2, <3>3
  <2> QED BY <1>2, <2>4, <2>5, <2>6, <2>7, <2>8, <2>9 DEF Build
<1>3. QED
  <2>1. \/ UNCHANGED treeVars
        \/ Build \/ QuarantineMove \/ Publish \/ RemoveTemp \/ PutBack
    BY DEF Worker, LeaseRefused, LeaseTaken, PreflightFirst, FindObstacles, CreateSnapshot,
           SnapshotFails, SnapshotsMade, PreflightSecond, Boundary, ApplyOne, StatTarget,
           HashTarget, StatKeeper, HashKeeper, Stat, Hash, ReadMeta, BuildFails,
           QuarantineLook, QuarantineFails, PublishFails, PutBackFails, SettleTarget,
           SettleKeeper
  <2> QED BY <2>1, <1>1, <1>2

\* Whatever the outsider does between two of its steps, the batch loses no file.
THEOREM NothingIsLost == Spec => NothingLost
<1>1. IInv /\ [Next]_vars =>
        [Worker => \A i \in Inodes : Held(i) => Held(i)' /\ node'[i].data = node[i].data]_vars
  BY WorkerKeeps DEF Kept
<1> QED BY <1>1, TypeInvariant, PTL DEF Spec, NothingLost

-----------------------------------------------------------------------------
(***************************************************************************)
(* The file tree changes only where a snapshot has been made.              *)
(***************************************************************************)
\* From the moment an action has passed its gate, its dataset has its snapshot; and what it
\* may put back is what it moved.
GateHolds ==
    /\ pc \in ActionSteps \ {"check"} => snap[DatasetOf[plan[cur].target]] # None
    /\ pc = "putBack" => pub = "Failed"
    /\ pc = "publish" \/ pub = "Failed" =>
        moved \in {Quar(plan[cur].target, n) : n \in 0..MaxSuffix}

\* The gate, once passed, stays passed for the action that runs.
LEMMA GateNext ==
    ASSUME IInv, GateHolds, [Next]_vars
    PROVE  GateHolds'
<1> USE DEF GateHolds, ActionSteps, Steps, Goto, End
<1>1. CASE UNCHANGED vars
  BY <1>1 DEF vars, batchVars
<1>2. CASE Cancel \/ OutsiderMoves
  <2>1. UNCHANGED batchVars
    BY <1>2 DEF Cancel, OutsiderMoves, OutsiderWrites, OutsiderPuts, OutsiderRemoves,
                OutsiderLinks, Rest
  <2> QED BY <2>1 DEF batchVars
<1>3. CASE LeaseRefused \/ LeaseTaken \/ PreflightFirst \/ FindObstacles \/ CreateSnapshot
             \/ SnapshotFails \/ SnapshotsMade \/ PreflightSecond \/ Boundary
  <2>1. pc' \notin ActionSteps \ {"check"}
    BY <1>3 DEF LeaseRefused, LeaseTaken, PreflightFirst, FindObstacles, CreateSnapshot,
                SnapshotFails, SnapshotsMade, PreflightSecond, Boundary
  <2>2. pub' = "none" \/ UNCHANGED <<pub, moved, cur, plan>>
    BY <1>3 DEF LeaseRefused, LeaseTaken, PreflightFirst, FindObstacles, CreateSnapshot,
                SnapshotFails, SnapshotsMade, PreflightSecond, Boundary, Same
  <2> QED BY <2>1, <2>2
<1>4. CASE ApplyOne
  BY <1>4 DEF ApplyOne, Guarded, act, Report, Same
<1>5. CASE StatTarget \/ HashTarget \/ StatKeeper \/ HashKeeper \/ ReadMeta \/ Build
             \/ BuildFails \/ QuarantineLook \/ QuarantineMove \/ QuarantineFails \/ Publish
             \/ PublishFails \/ RemoveTemp \/ PutBack \/ PutBackFails \/ SettleTarget
             \/ SettleKeeper
  <2>1. UNCHANGED <<snap, cur, plan>> /\ pc \in ActionSteps \ {"check"}
    BY <1>5 DEF StatTarget, HashTarget, StatKeeper, HashKeeper, Stat, Hash, ReadMeta, Build,
                BuildFails, QuarantineLook, QuarantineMove, QuarantineFails, Publish,
                PublishFails, RemoveTemp, PutBack, PutBackFails, SettleTarget, SettleKeeper,
                Same
  <2>2. CASE QuarantineMove
    <3>1. moved' \in {Quar(plan[cur].target, n) : n \in 0..MaxSuffix}
      BY <2>2 DEF QuarantineMove, act
    <3>2. pc' # "putBack"
      BY <2>2 DEF QuarantineMove
    <3> QED BY <2>1, <3>1, <3>2
  <2>3. CASE ~QuarantineMove
    <3>1. /\ moved' = moved
          /\ pc' # "publish"
          /\ pub' = "Failed" => pub = "Failed" \/ pc = "publish"
          /\ pc' = "putBack" => pub' = "Failed"
      <4>1. FirstStep \in {"look", "build", "meta"}
        <5>1. cur \in DOMAIN plan /\ TypeOK
          BY <2>1 DEF IInv, StepOK
        <5>2. act.kind \in Kinds
          BY <5>1, ActionType DEF Action
        <5> QED BY <5>2 DEF FirstStep, Kinds
      <4>2. CASE StatTarget \/ HashTarget \/ StatKeeper \/ HashKeeper
        BY <4>1, <4>2 DEF StatTarget, HashTarget, StatKeeper, HashKeeper, Stat, Hash, Report
      <4>3. CASE ReadMeta \/ Build \/ BuildFails
        BY <4>3 DEF ReadMeta, Build, BuildFails
      <4>4. CASE QuarantineLook \/ QuarantineFails
        BY <4>4 DEF QuarantineLook, QuarantineFails, NotMoved, Report
      <4>5. CASE Publish \/ PublishFails \/ RemoveTemp \/ PutBack \/ PutBackFails
        BY <4>5 DEF Publish, PublishFails, RemoveTemp, PutBack, PutBackFails
      <4>6. CASE SettleTarget
        BY <4>6 DEF SettleTarget, Unsettle, Report
      <4>7. CASE SettleKeeper
        <5>1. UNCHANGED <<moved, pub>>
          BY <4>7 DEF SettleKeeper
        <5>2. pub \in {"NotMoved", "RolledBack", "Stranded", "Published"}
          BY <4>7 DEF SettleKeeper, IInv, StepOK
        <5>3. pc' = "boundary"
          <6>1. CASE SettlePublished
            BY <6>1 DEF SettlePublished, Unsettle, Report
          <6>2. CASE SettleFailed
            BY <6>2, <5>2 DEF SettleFailed, Report
          <6> QED BY <4>7, <6>1, <6>2 DEF SettleKeeper
        <5> QED BY <5>1, <5>3
      <4> QED BY <1>5, <2>3, <4>2, <4>3, <4>4, <4>5, <4>6, <4>7
    <3> QED BY <2>1, <3>1
  <2> QED BY <2>2, <2>3
<1> QED BY <1>1, <1>2, <1>3, <1>4, <1>5 DEF Next, Worker, Done

\* Behind the gate, a changed name lies on a dataset with a snapshot.
LEMMA GateGuards ==
    ASSUME IInv, GateHolds, Worker, NEW l \in Locs, dir'[l] # dir[l]
    PROVE  snap[DatasetOf[l[2]]] # None
<1>1. Build \/ QuarantineMove \/ Publish \/ RemoveTemp \/ PutBack
  BY DEF Worker, LeaseRefused, LeaseTaken, PreflightFirst, FindObstacles, CreateSnapshot,
         SnapshotFails, SnapshotsMade, PreflightSecond, Boundary, ApplyOne, StatTarget,
         HashTarget, StatKeeper, HashKeeper, Stat, Hash, ReadMeta, BuildFails,
         QuarantineLook, QuarantineFails, PublishFails, PutBackFails, SettleTarget,
         SettleKeeper, treeVars
<1>2. snap[DatasetOf[act.target]] # None
  BY <1>1 DEF GateHolds, ActionSteps, Steps, act, Build, QuarantineMove, Publish, RemoveTemp,
              PutBack
<1>3. dir \in [Locs -> Inodes \cup {None}]
  BY DEF IInv, TypeOK
<1>4. l \in {target, temp} \cup {Quar(act.target, n) : n \in 0..MaxSuffix}
  BY <1>1, <1>3 DEF Build, BuildLink, BuildClone, QuarantineMove, Publish, RemoveTemp, PutBack,
                    Rename, treeVars, GateHolds, act
<1> QED BY <1>2, <1>4 DEF target, temp, Home, Temp, Quar

\* Every rename, link and removal of the batch is on a dataset it has a snapshot of.
THEOREM SnapshotComesFirst == Spec => SnapshotFirst
<1>1. Init => GateHolds
  BY DEF Init, GateHolds, ActionSteps, Steps
<1>2. IInv /\ GateHolds /\ [Next]_vars => GateHolds'
  BY GateNext
<1>3. IInv /\ GateHolds /\ [Next]_vars =>
        [Worker => \A l \in Locs : dir'[l] # dir[l] => snap[DatasetOf[l[2]]] # None]_vars
  BY GateGuards
<1> QED BY <1>1, <1>2, <1>3, TypeInvariant, PTL DEF Spec, SnapshotFirst

-----------------------------------------------------------------------------
(***************************************************************************)
(* What a batch trusts, what it records and what it reports. ctime is the  *)
(* witness throughout: no step changes a file's bytes, links or names and  *)
(* leaves its ctime, so an identity the batch still finds tells what it    *)
(* told when it was taken. In this order: what the checks of one action    *)
(* vouch for (TrustIsEarned), what the report says of the tree             *)
(* (ReportIsTrue), what the ledger's identities vouch for                  *)
(* (ReplacementIsDigest, CompletedIsFreed), and that an undisturbed batch  *)
(* is never in its own way (OwnMarksNeverRefuse).                          *)
(***************************************************************************)

(***************************************************************************)
(* ctime is a witness: no step changes a file's bytes, times, links or     *)
(* names and leaves its ctime.                                             *)
(***************************************************************************)
Aged(i) ==
    /\ node[i].ctime <= node'[i].ctime
    /\ node'[i].ctime = node[i].ctime =>
        /\ node'[i].data = node[i].data /\ node'[i].mtime = node[i].mtime
        /\ node'[i].outside = node[i].outside
        /\ \A l \in Locs : dir'[l] = i <=> dir[l] = i

\* The steps of the batch that change the file tree.
LEMMA TreeSteps ==
    Worker => \/ UNCHANGED treeVars
              \/ Build \/ QuarantineMove \/ Publish \/ RemoveTemp \/ PutBack
BY DEF Worker, LeaseRefused, LeaseTaken, PreflightFirst, FindObstacles, CreateSnapshot,
       SnapshotFails, SnapshotsMade, PreflightSecond, Boundary, ApplyOne, StatTarget,
       HashTarget, StatKeeper, HashKeeper, Stat, Hash, ReadMeta, BuildFails,
       QuarantineLook, QuarantineFails, PublishFails, PutBackFails, SettleTarget,
       SettleKeeper

\* The names and the inode such a step works on are names and an inode of the tree.
LEMMA TreeStepType ==
    ASSUME IInv, Build \/ QuarantineMove \/ Publish \/ RemoveTemp \/ PutBack
    PROVE  /\ TypeOK /\ cur \in DOMAIN plan /\ act \in Action
           /\ target \in Locs /\ keeper \in Locs /\ temp \in Locs
           /\ \A n \in 0..MaxSuffix : Quar(act.target, n) \in Locs
           /\ PutBack => moved \in Locs
<1>1. TypeOK /\ cur \in DOMAIN plan
  BY DEF IInv, StepOK, ActionSteps, Steps, Build, QuarantineMove, Publish, RemoveTemp, PutBack
<1>2. PutBack => moved \in Locs
  BY DEF PutBack, IInv, StepOK
<1> QED BY <1>1, <1>2, ActionType

\* A bump ages its inode and no other.
LEMMA BumpAges ==
    ASSUME TypeOK, NEW j \in Inodes, NEW i \in Inodes
    PROVE  /\ i # j => Bump(j)[i] = node[i]
           /\ Bump(j)[j].ctime = node[j].ctime + 1 /\ node[j].ctime \in Nat
           /\ Bump(j)[i].mtime = node[i].mtime /\ Bump(j)[i].data = node[i].data
           /\ Bump(j)[i].outside = node[i].outside
BY DEF TypeOK, Bump

\* A step that bumps one inode, and gives and takes only its names, ages every inode.
LEMMA OneInodeAges ==
    ASSUME TypeOK, NEW j \in Inodes, node' = Bump(j),
           \A l \in Locs : dir'[l] = dir[l] \/ (dir[l] \in {j, None} /\ dir'[l] \in {j, None}),
           NEW i \in Inodes
    PROVE  Aged(i)
<1>1. CASE i = j
  BY <1>1, BumpAges DEF Aged
<1>2. CASE i # j
  <2>1. node'[i] = node[i] /\ node[i].ctime \in Nat
    BY <1>2, BumpAges
  <2>2. \A l \in Locs : dir'[l] = i <=> dir[l] = i
    BY <1>2, ConstantsOK
  <2> QED BY <2>1, <2>2 DEF Aged
<1> QED BY <1>1, <1>2

\* A rename ages every inode.
LEMMA RenameAges ==
    ASSUME TypeOK, NEW from \in Locs, NEW to \in Locs, RenameOK(from, to), Rename(from, to),
           NEW i \in Inodes
    PROVE  Aged(i)
<1>1. dir[from] \in Inodes /\ dir[to] = None
  BY DEF TypeOK, RenameOK
<1>2. \A l \in Locs : dir'[l] = dir[l] \/ (dir[l] \in {dir[from], None} /\ dir'[l] \in {dir[from], None})
  BY <1>1 DEF Rename, TypeOK
<1>3. node' = Bump(dir[from])
  BY DEF Rename
<1> QED BY <1>1, <1>2, <1>3, OneInodeAges

\* So does a file that is put on an inode nothing leads to, under a name, with a new ctime.
LEMMA FreshAges ==
    ASSUME TypeOK, NEW l \in Locs, NEW j \in Inodes, ~Linked(j), NEW i \in Inodes,
           dir' = [dir EXCEPT ![l] = j],
           node'[j].ctime = node[j].ctime + 1,
           i \in Inodes \ {j, dir[l]} => node'[i] = node[i],
           i # j /\ i = dir[l] => node'[i].ctime = node[i].ctime + 1
    PROVE  Aged(i)
<1>0. node[i].ctime \in Nat
  BY DEF TypeOK
<1>1. CASE i = j
  BY <1>0, <1>1 DEF Aged
<1>2. CASE i # j /\ i = dir[l]
  BY <1>0, <1>2 DEF Aged
<1>3. CASE i # j /\ i # dir[l]
  <2>1. \A k \in Locs : dir'[k] = i <=> dir[k] = i
    BY <1>3 DEF TypeOK
  <2> QED BY <1>0, <1>3, <2>1 DEF Aged
<1> QED BY <1>1, <1>2, <1>3

\* Every step, of the batch and of everybody else, ages every inode.
LEMMA CtimeTells == ASSUME IInv, [Next]_vars, NEW i \in Inodes PROVE Aged(i)
<1>0. TypeOK /\ node[i].ctime \in Nat
  BY DEF IInv, TypeOK
<1>1. CASE UNCHANGED treeVars
  BY <1>0, <1>1 DEF treeVars, Aged
<1>2. CASE Build \/ QuarantineMove \/ Publish \/ RemoveTemp \/ PutBack
  <2>0. /\ TypeOK /\ cur \in DOMAIN plan /\ act \in Action
        /\ target \in Locs /\ keeper \in Locs /\ temp \in Locs
        /\ \A n \in 0..MaxSuffix : Quar(act.target, n) \in Locs
        /\ PutBack => moved \in Locs
    BY <1>2, TreeStepType
  <2>1. CASE Build /\ BuildLink
    <3>1. dir[keeper] \in Inodes /\ dir[temp] = None
      BY <2>0, <2>1 DEF BuildLink, TypeOK, Build
    <3>2. \A l \in Locs : dir'[l] = dir[l] \/ (dir[l] \in {dir[keeper], None} /\ dir'[l] \in {dir[keeper], None})
      BY <2>0, <2>1, <3>1 DEF BuildLink, TypeOK
    <3> QED BY <2>0, <2>1, <3>1, <3>2, OneInodeAges DEF BuildLink
  <2>2. CASE Build /\ BuildClone
    <3>1. PICK j \in Inodes :
            /\ ~Linked(j)
            /\ dir' = [dir EXCEPT ![temp] = j]
            /\ node' = [node EXCEPT ![j] = [data |-> node[dir[keeper]].data, mtime |-> seen.mtime,
                                            ctime |-> @.ctime + 1, outside |-> 0]]
      BY <2>2 DEF BuildClone
    <3>2. node'[j].ctime = node[j].ctime + 1 /\ (i # j => node'[i] = node[i])
      BY <2>0, <3>1 DEF TypeOK
    <3>3. i # j /\ i = dir[temp] => node'[i].ctime = node[i].ctime + 1
      BY <2>2, ConstantsOK DEF Build
    <3> QED BY <2>0, <3>1, <3>2, <3>3, FreshAges
  <2>3. CASE QuarantineMove
    BY <2>0, <2>3, RenameAges DEF QuarantineMove
  <2>4. CASE Publish
    BY <2>0, <2>4, RenameAges DEF Publish
  <2>5. CASE PutBack
    BY <2>0, <2>5, RenameAges DEF PutBack
  <2>6. CASE RemoveTemp
    <3>1. CASE UNCHANGED treeVars
      BY <1>1, <3>1
    <3>2. CASE dir' = [dir EXCEPT ![temp] = None] /\ dir[temp] = None /\ node' = node
      <4>1. dir' = dir
        BY <2>0, <3>2 DEF TypeOK
      <4> QED BY <1>1, <3>2, <4>1 DEF treeVars
    <3>3. CASE dir' = [dir EXCEPT ![temp] = None] /\ dir[temp] # None /\ node' = Bump(dir[temp])
      <4>1. dir[temp] \in Inodes
        BY <2>0, <3>3 DEF TypeOK
      <4>2. \A l \in Locs : dir'[l] = dir[l] \/ (dir[l] \in {dir[temp], None} /\ dir'[l] \in {dir[temp], None})
        BY <2>0, <3>3 DEF TypeOK
      <4> QED BY <2>0, <3>3, <4>1, <4>2, OneInodeAges
    <3> QED BY <2>6, <3>1, <3>2, <3>3 DEF RemoveTemp
  <2> QED BY <1>2, <2>1, <2>2, <2>3, <2>4, <2>5, <2>6 DEF Build
<1>3. CASE OutsiderMoves
  <2>1. PICK l \in Homes \cup Quars :
          OutsiderWrites(l) \/ OutsiderPuts(l) \/ OutsiderRemoves(l) \/ OutsiderLinks(l)
    BY <1>3 DEF OutsiderMoves
  <2>2. l \in Locs /\ (dir[l] # None => dir[l] \in Inodes)
    BY <1>0 DEF Locs, TypeOK
  <2>3. CASE OutsiderWrites(l) \/ OutsiderLinks(l)
    <3>1. dir[l] \in Inodes /\ dir' = dir
      BY <2>2, <2>3 DEF OutsiderWrites, OutsiderLinks
    <3>2. node'[dir[l]].ctime = node[dir[l]].ctime + 1
      <4>1. CASE OutsiderWrites(l)
        BY <1>0, <3>1, <4>1 DEF OutsiderWrites, TypeOK
      <4>2. CASE OutsiderLinks(l)
        BY <1>0, <3>1, <4>2 DEF OutsiderLinks, TypeOK
      <4> QED BY <2>3, <4>1, <4>2
    <3>3. i # dir[l] => node'[i] = node[i]
      <4>1. CASE OutsiderWrites(l)
        BY <1>0, <3>1, <4>1 DEF OutsiderWrites, TypeOK
      <4>2. CASE OutsiderLinks(l)
        BY <1>0, <3>1, <4>2 DEF OutsiderLinks, TypeOK
      <4> QED BY <2>3, <4>1, <4>2
    <3> QED BY <1>0, <3>1, <3>2, <3>3 DEF Aged
  <2>4. CASE OutsiderRemoves(l)
    <3>1. dir[l] \in Inodes /\ node' = Bump(dir[l])
      BY <2>2, <2>4 DEF OutsiderRemoves
    <3>2. \A k \in Locs : dir'[k] = dir[k] \/ (dir[k] \in {dir[l], None} /\ dir'[k] \in {dir[l], None})
      BY <1>0, <2>2, <2>4 DEF OutsiderRemoves, TypeOK
    <3> QED BY <1>0, <3>1, <3>2, OneInodeAges
  <2>5. CASE OutsiderPuts(l)
    <3>1. PICK j \in Inodes, data \in {"foreign", "symlink"} :
            /\ ~Linked(j)
            /\ dir' = [dir EXCEPT ![l] = j]
            /\ node' = [n \in Inodes |->
                  IF n = j THEN [data |-> data, mtime |-> node[j].mtime + 1,
                                 ctime |-> node[j].ctime + 1, outside |-> 0]
                  ELSE IF n = dir[l] THEN [node[n] EXCEPT !.ctime = @ + 1] ELSE node[n]]
      BY <2>5 DEF OutsiderPuts
    <3>2. node'[j].ctime = node[j].ctime + 1
      BY <3>1
    <3>3. i \in Inodes \ {j, dir[l]} => node'[i] = node[i]
      BY <3>1
    <3>4. i # j /\ i = dir[l] => node'[i].ctime = node[i].ctime + 1
      <4> SUFFICES ASSUME i # j, i = dir[l] PROVE node'[i].ctime = node[i].ctime + 1
        OBVIOUS
      <4>1. node'[i] = [node[i] EXCEPT !.ctime = @ + 1]
        BY <3>1
      <4> QED BY <1>0, <4>1 DEF TypeOK
    <3> QED BY <1>0, <2>2, <3>1, <3>2, <3>3, <3>4, FreshAges
  <2> QED BY <2>1, <2>3, <2>4, <2>5
<1>4. CASE Worker
  BY <1>1, <1>2, <1>4, TreeSteps
<1>5. CASE Cancel \/ Done \/ UNCHANGED vars
  BY <1>1, <1>5 DEF Cancel, Done, vars, treeVars
<1> QED BY <1>3, <1>4, <1>5 DEF Next


-----------------------------------------------------------------------------
(***************************************************************************)
(* Where the batch is: before its first action, in one, between two, over. *)
(***************************************************************************)
Opening == {"lease", "preflight", "obstacles", "snapshots", "preflight2"}

Progress ==
    /\ pc \in Opening => results = <<>> /\ cur = 0 /\ ending = "running" /\ moved = None
    /\ pc \in ActionSteps => cur = Len(results) + 1 /\ ending = "running"
    /\ pc = "boundary" => cur = Len(results) /\ ending = "running"
    /\ pc = "done" => ending # "running"
    /\ pc = "done" /\ ending = "Finished" => cur = Len(results)
    /\ pc = "done" /\ ending # "Finished" => results = <<>> /\ cur = 0 /\ moved = None

\* The last steps of one action: what a report may say, and where the batch is after it.
Told ==
    /\ pc' = "boundary" /\ moved' = moved
    /\ \E out \in Outcome : results' = Append(results, out) /\ out.quarantine \in {None, moved}

LEMMA ReportTells ==
    ASSUME NEW res \in {"Removed", "Refused", "RolledBack", "Stranded", "Unsettled"},
           NEW q \in {None, moved}, q \in Locs \cup {None}, Report(res, q), moved' = moved
    PROVE  Told
<1>1. [res |-> res, quarantine |-> q] \in Outcome
  BY DEF Outcome
<1>2. [res |-> res, quarantine |-> q].quarantine \in {None, moved}
  OBVIOUS
<1> QED BY <1>1, <1>2 DEF Told, Report, Goto

\* A step before the first action changes no file, and leaves it to come or ends the run.
LEMMA OpeningSteps ==
    ASSUME IInv, Worker, pc \in Opening
    PROVE  /\ UNCHANGED <<treeVars, plan, setAside, cur, clones, verified, seen, moved, pub,
                          results, cancel, touched, outsider>>
           /\ \/ pc' \in Opening /\ ending' = ending
              \/ pc' = "done" /\ ending' \in {"Refused", "Failed", "Aborted"}
              \/ pc = "preflight2" /\ Preflight /\ pc' = "boundary" /\ ending' = ending
<1>1. LeaseRefused \/ LeaseTaken \/ PreflightFirst \/ FindObstacles \/ CreateSnapshot
        \/ SnapshotFails \/ SnapshotsMade \/ PreflightSecond
  BY DEF Worker, Opening, Boundary, ApplyOne, StatTarget,
       HashTarget, StatKeeper, HashKeeper, Stat, Hash, ReadMeta, BuildFails, Build,
       QuarantineLook, QuarantineMove, QuarantineFails, Publish, PublishFails, PutBack,
       PutBackFails, RemoveTemp, SettleTarget, SettleKeeper
<1> USE DEF Opening, Same, Goto, End, treeVars
<1>2. CASE LeaseRefused \/ LeaseTaken
  BY <1>2 DEF LeaseRefused, LeaseTaken
<1>3. CASE PreflightFirst \/ PreflightSecond
  BY <1>3 DEF PreflightFirst, PreflightSecond
<1>4. CASE FindObstacles
  BY <1>4 DEF FindObstacles
<1>5. CASE CreateSnapshot \/ SnapshotsMade
  BY <1>5 DEF CreateSnapshot, SnapshotsMade
<1>6. CASE SnapshotFails
  BY <1>6 DEF SnapshotFails, FailedSnapshot
<1> QED BY <1>1, <1>2, <1>3, <1>4, <1>5, <1>6

\* A step of an action goes on in it, or tells its outcome.
LEMMA ActionReports ==
    ASSUME IInv, Worker, pc \in ActionSteps
    PROVE  /\ UNCHANGED <<plan, setAside, snap, cur, obstacles, ending, cancel, touched,
                          outsider>>
           /\ \/ results' = results /\ pc' \in ActionSteps \ {"check"}
              \/ Told
<1>1. ApplyOne \/ StatTarget \/ HashTarget \/ StatKeeper \/ HashKeeper \/ ReadMeta \/ Build
        \/ BuildFails \/ QuarantineLook \/ QuarantineMove \/ QuarantineFails \/ Publish
        \/ PublishFails \/ RemoveTemp \/ PutBack \/ PutBackFails \/ SettleTarget \/ SettleKeeper
  BY DEF Worker, ActionSteps, Steps, LeaseRefused, LeaseTaken, PreflightFirst, FindObstacles,
       CreateSnapshot, SnapshotFails, SnapshotsMade, PreflightSecond, Boundary
<1>2. UNCHANGED <<plan, setAside, snap, cur, obstacles, ending, cancel, touched, outsider>>
  BY <1>1 DEF ApplyOne, StatTarget, HashTarget, StatKeeper, HashKeeper, Stat, Hash, ReadMeta,
       BuildFails, Build, QuarantineLook, QuarantineMove, QuarantineFails, Publish, PublishFails,
       PutBack, PutBackFails, RemoveTemp, SettleTarget, SettleKeeper, Same
<1>3. TypeOK /\ cur \in DOMAIN plan /\ moved \in Locs \cup {None}
  BY DEF IInv, StepOK, TypeOK
<1>4. FirstStep \in {"look", "build", "meta"}
  <2>1. act.kind \in Kinds
    BY <1>3, ActionType DEF Action
  <2> QED BY <2>1 DEF FirstStep, Kinds
<1>5. ASSUME Report("Refused", None), moved' = moved PROVE Told
  BY <1>5, ReportTells
<1>6. ASSUME Unsettle, moved' = moved PROVE Told
  BY <1>3, <1>6, ReportTells DEF Unsettle
<1>7. ASSUME Report("Removed", moved), moved' = moved PROVE Told
  BY <1>3, <1>7, ReportTells
<1> USE DEF ActionSteps, Steps, Goto
<1>8. CASE ApplyOne
  BY <1>2, <1>5, <1>8 DEF ApplyOne
<1>9. CASE StatTarget \/ HashTarget \/ StatKeeper \/ HashKeeper
  <2>1. CASE StatTarget
    BY <1>2, <1>4, <1>5, <2>1 DEF StatTarget, Stat
  <2>2. CASE HashTarget
    BY <1>2, <1>4, <1>5, <2>2 DEF HashTarget, Hash
  <2>3. CASE StatKeeper
    BY <1>2, <1>4, <1>5, <2>3 DEF StatKeeper, Stat
  <2>4. CASE HashKeeper
    BY <1>2, <1>4, <1>5, <2>4 DEF HashKeeper, Hash
  <2> QED BY <1>9, <2>1, <2>2, <2>3, <2>4
<1>10. CASE ReadMeta \/ Build \/ BuildFails
  BY <1>2, <1>10 DEF ReadMeta, Build, BuildFails
<1>11. CASE QuarantineLook \/ QuarantineFails
  <2>1. moved' = moved /\ (NotMoved \/ (results' = results /\ pc' = "move"))
    BY <1>11 DEF QuarantineLook, QuarantineFails
  <2>2. CASE NotMoved
    BY <1>2, <1>5, <2>1, <2>2 DEF NotMoved
  <2> QED BY <1>2, <2>1, <2>2
<1>12. CASE QuarantineMove \/ Publish \/ PublishFails \/ RemoveTemp \/ PutBack \/ PutBackFails
  BY <1>2, <1>12 DEF QuarantineMove, Publish, PublishFails, RemoveTemp, PutBack, PutBackFails
<1>13. CASE SettleTarget
  <2>1. moved' = moved
    BY <1>13 DEF SettleTarget
  <2>2. \/ Unsettle \/ Report("Removed", moved)
        \/ results' = results /\ pc' = "settleKeeper"
    BY <1>13 DEF SettleTarget
  <2> QED BY <1>2, <1>6, <1>7, <2>1, <2>2
<1>14. CASE SettleKeeper
  <2>1. moved' = moved
    BY <1>14 DEF SettleKeeper
  <2>2. pub \in {"NotMoved", "RolledBack", "Stranded", "Published"}
    BY <1>14 DEF SettleKeeper, IInv, StepOK
  <2>3. CASE SettlePublished
    BY <1>2, <1>6, <1>7, <2>1, <2>3 DEF SettlePublished
  <2>4. CASE SettleFailed
    <3>1. CASE pub = "NotMoved"
      BY <1>2, <1>5, <2>1, <2>4, <3>1 DEF SettleFailed
    <3>2. CASE pub = "RolledBack"
      <4>1. Report("RolledBack", None)
        BY <2>4, <3>2 DEF SettleFailed
      <4> QED BY <1>2, <2>1, <4>1, ReportTells
    <3>3. CASE pub = "Stranded"
      <4>1. Report("Stranded", moved)
        BY <2>4, <3>3 DEF SettleFailed
      <4> QED BY <1>2, <1>3, <2>1, <4>1, ReportTells
    <3> QED BY <2>2, <2>4, <3>1, <3>2, <3>3 DEF SettleFailed
  <2> QED BY <1>14, <2>3, <2>4 DEF SettleKeeper
<1> QED BY <1>1, <1>8, <1>9, <1>10, <1>11, <1>12, <1>13, <1>14

\* Between two actions: the end, or the next one.
LEMMA BoundarySteps ==
    ASSUME IInv, Worker, pc = "boundary"
    PROVE  /\ UNCHANGED <<treeVars, plan, setAside, snap, obstacles, ledger, clones, verified,
                          seen, results, cancel, touched, outsider>>
           /\ \/ pc' = "done" /\ ending' = "Finished" /\ UNCHANGED <<cur, moved, pub>>
              \/ /\ pc' = "check" /\ ending' = ending /\ cur' = cur + 1
                 /\ cur' \in DOMAIN plan /\ moved' = None /\ pub' = "none"
<1>1. Boundary
  BY DEF Worker, LeaseRefused, LeaseTaken, PreflightFirst, FindObstacles,
       CreateSnapshot, SnapshotFails, SnapshotsMade, PreflightSecond, ApplyOne, StatTarget,
       HashTarget, StatKeeper, HashKeeper, Stat, Hash, ReadMeta, BuildFails, Build,
       QuarantineLook, QuarantineMove, QuarantineFails, Publish, PublishFails, PutBack,
       PutBackFails, RemoveTemp, SettleTarget, SettleKeeper
<1>2. plan \in Seq(Action) /\ cur \in 0..Len(plan)
  BY PlansOK DEF IInv, TypeOK
<1> QED BY <1>1, <1>2 DEF Boundary, AllReached, Goto, End, Same

\* A step of the batch comes before its first action, in one, or between two; all others leave
\* what the batch knows alone.
LEMMA StepKinds ==
    ASSUME IInv, [Next]_vars
    PROVE  \/ UNCHANGED batchVars /\ ~Worker
           \/ Worker /\ pc \in Opening
           \/ Worker /\ pc \in ActionSteps
           \/ Worker /\ pc = "boundary"
<1>1. Worker => pc # "done"
  BY DEF Worker, LeaseRefused, LeaseTaken, PreflightFirst, FindObstacles,
       CreateSnapshot, SnapshotFails, SnapshotsMade, PreflightSecond, Boundary, ApplyOne,
       StatTarget, HashTarget, StatKeeper, HashKeeper, Stat, Hash, ReadMeta, BuildFails, Build,
       QuarantineLook, QuarantineMove, QuarantineFails, Publish, PublishFails, PutBack,
       PutBackFails, RemoveTemp, SettleTarget, SettleKeeper
<1>2. pc \in Opening \cup ActionSteps \cup {"boundary", "done"}
  BY DEF IInv, TypeOK, Opening, ActionSteps, Steps
<1>3. Worker \/ UNCHANGED batchVars
  BY ZenonT(40) DEF Next, Cancel, OutsiderMoves, OutsiderWrites, OutsiderPuts, OutsiderRemoves,
         OutsiderLinks, Rest, Done, vars, batchVars
<1> QED BY <1>1, <1>2, <1>3

LEMMA ProgressNext == ASSUME IInv, Progress, [Next]_vars PROVE Progress'
<1> USE DEF Progress
<1>1. CASE UNCHANGED batchVars
  BY <1>1 DEF batchVars
<1>2. CASE Worker /\ pc \in Opening
  BY <1>2, OpeningSteps DEF Opening, ActionSteps, Steps
<1>3. CASE Worker /\ pc \in ActionSteps
  <2>1. results \in Seq(Outcome)
    BY DEF IInv, TypeOK
  <2>2. Told => pc' = "boundary" /\ Len(results') = Len(results) + 1
    BY <2>1 DEF Told
  <2> QED BY <1>3, <2>2, ActionReports DEF Opening, ActionSteps, Steps
<1>4. CASE Worker /\ pc = "boundary"
  BY <1>4, BoundarySteps DEF Opening, ActionSteps, Steps
<1> QED BY <1>1, <1>2, <1>3, <1>4, StepKinds


-----------------------------------------------------------------------------
(***************************************************************************)
(* What is trusted without another read: the snapshots, because a scanned  *)
(* file whose ctime stands at both preflights was what the scan recorded   *)
(* all the time between, and the cache, because an identity is remembered  *)
(* as it was before the bytes were read.                                   *)
(***************************************************************************)
\* A scanned allocation is as the scan recorded it, names and all.
AsScanned(o) ==
    /\ node[o].mtime = 0 /\ node[o].outside = Outside[o]
    /\ \A p \in Members(o) : node[o].data = GroupOf[p]
    /\ \A l \in Locs : dir[l] = o <=> l \in {Home(p) : p \in Members(o)}

Intact == \A o \in Objects : node[o].ctime = 0 => AsScanned(o)

\* The actions have begun, and the run was not stopped before them.
Acting == pc \in ActionSteps \cup {"boundary"} \/ (pc = "done" /\ ending = "Finished")

SnapOK ==
    \A p \in Paths :
        snap[DatasetOf[p]] # None /\ ((pc \in Opening /\ node[InodeOf[p]].ctime = 0) \/ Acting)
            => snap[DatasetOf[p]][p] = GroupOf[p]

\* What was moved, by this action or an earlier one, lay on a dataset with its snapshot.
MovedOK ==
    /\ moved # None => snap[DatasetOf[plan[cur].target]] # None
    /\ \A i \in DOMAIN results :
        results[i].quarantine # None => snap[DatasetOf[plan[i].target]] # None

Vouches(v, p) ==
    /\ v.ctime <= node[v.ino].ctime
    /\ node[v.ino].ctime = v.ctime => node[v.ino].data = GroupOf[p]

StillThere(v, p) ==
    /\ v.ctime <= node[v.ino].ctime
    /\ node[v.ino].ctime = v.ctime => dir[Home(p)] = v.ino

CacheOK ==
    /\ \A p \in Paths : verified[p] # None => Vouches(verified[p], p)
    /\ pc = "hashTarget" => StillThere(seen, act.target)
    /\ pc = "hashKeeper" => StillThere(seen, act.keeper)

TrustInv == IInv /\ GateHolds /\ Progress /\ Intact /\ SnapOK /\ MovedOK /\ CacheOK

\* Every scanned file begins as the scan recorded it.
LEMMA IntactInit == Init => Intact
<1> SUFFICES ASSUME Init, NEW o \in Objects PROVE AsScanned(o)
  BY DEF Intact
<1>1. o \in Inodes
  BY ConstantsOK DEF Objects
<1>2. node[o].mtime = 0 /\ node[o].outside = Outside[o]
  BY <1>1 DEF Init
<1>3. ASSUME NEW p \in Members(o) PROVE node[o].data = GroupOf[p]
  <2> DEFINE q == CHOOSE q \in Members(o) : TRUE
  <2>1. q \in Members(o)
    BY <1>3
  <2>2. GroupOf[q] = GroupOf[p]
    BY <1>3, <2>1, ObjectsOK DEF Members
  <2>3. node[o].data = GroupOf[q]
    BY <1>1 DEF Init
  <2> QED BY <2>2, <2>3
<1>4. ASSUME NEW l \in Locs PROVE dir[l] = o <=> l \in {Home(p) : p \in Members(o)}
  <2>1. dir[l] = IF l \in Homes THEN InodeOf[l[2]] ELSE None
    BY DEF Init
  <2>2. CASE l \in Homes
    <3>1. PICK p \in Paths : l = Home(p)
      BY <2>2 DEF Homes
    <3>2. l[2] = p
      BY <3>1 DEF Home
    <3>3. \A q \in Paths : Home(q) = l => q = p
      BY <3>1 DEF Home
    <3> QED BY <2>1, <2>2, <3>1, <3>2, <3>3 DEF Members
  <2>3. CASE l \notin Homes
    BY <1>1, <2>1, <2>3, ConstantsOK DEF Homes, Members
  <2> QED BY <2>2, <2>3
<1> QED BY <1>2, <1>3, <1>4 DEF AsScanned

LEMMA TrustInit == Init => TrustInv
<1> SUFFICES ASSUME Init PROVE TrustInv
  OBVIOUS
<1>1. GateHolds /\ Progress
  BY DEF Init, GateHolds, Progress, Opening, ActionSteps, Steps
<1>2. SnapOK /\ MovedOK /\ CacheOK
  BY ConstantsOK DEF Init, SnapOK, MovedOK, CacheOK
<1> QED BY <1>1, <1>2, TypeInit, IntactInit DEF TrustInv

LEMMA IntactNext == ASSUME IInv, Intact, [Next]_vars PROVE Intact'
<1> SUFFICES ASSUME NEW o \in Objects, node'[o].ctime = 0 PROVE AsScanned(o)'
  BY DEF Intact
<1>1. o \in Inodes
  BY ConstantsOK DEF Objects
<1>2. Aged(o) /\ node[o].ctime \in Nat
  BY <1>1, CtimeTells DEF IInv, TypeOK
<1>3. node[o].ctime = 0
  BY <1>2 DEF Aged
<1>4. AsScanned(o)
  BY <1>3 DEF Intact
<1> QED BY <1>2, <1>3, <1>4 DEF Aged, AsScanned

\* The preflight passes on files nobody has touched since the scan.
LEMMA PreflightSees ==
    ASSUME IInv, Preflight, NEW p \in Paths
    PROVE  dir[Home(p)] = InodeOf[p] /\ node[InodeOf[p]].ctime = 0
<1>1. InodeOf[p] \in Objects /\ p \in Members(InodeOf[p])
  BY DEF Objects, Members
<1>2. Identity(Home(p)) = [ino |-> InodeOf[p], mtime |-> 0, ctime |-> 0,
                           nlink |-> Links(InodeOf[p])]
  BY <1>1 DEF Preflight
<1>3. Identity(Home(p)).ino = InodeOf[p] /\ Identity(Home(p)).ctime = 0
  BY <1>2
<1> QED BY <1>3 DEF Identity

LEMMA SnapNext ==
    ASSUME IInv, Progress, Intact, SnapOK, [Next]_vars
    PROVE  SnapOK'
<1> SUFFICES ASSUME NEW p \in Paths, snap'[DatasetOf[p]] # None,
                    (pc' \in Opening /\ node'[InodeOf[p]].ctime = 0) \/ Acting'
             PROVE  snap'[DatasetOf[p]][p] = GroupOf[p]
  BY DEF SnapOK
<1>0. InodeOf[p] \in Inodes /\ InodeOf[p] \in Objects /\ p \in Members(InodeOf[p])
      /\ DatasetOf[p] \in Datasets
  BY ConstantsOK DEF Objects, Members
<1>1. Aged(InodeOf[p]) /\ node[InodeOf[p]].ctime \in Nat
  BY <1>0, CtimeTells DEF IInv, TypeOK
<1>2. node'[InodeOf[p]].ctime = 0 => node[InodeOf[p]].ctime = 0
  BY <1>1 DEF Aged
<1>3. CASE UNCHANGED batchVars
  BY <1>2, <1>3 DEF batchVars, SnapOK, Acting
<1>4. CASE Worker /\ pc \in Opening
  <2>1. CASE CreateSnapshot
    <3>1. pc' \in Opening /\ pc' \notin ActionSteps \cup {"boundary", "done"}
      BY <2>1 DEF CreateSnapshot, Opening, ActionSteps, Steps
    <3>2. node[InodeOf[p]].ctime = 0
      BY <1>2, <3>1 DEF Acting
    <3>3. AsScanned(InodeOf[p])
      BY <1>0, <3>2 DEF Intact
    <3>4. dir[Home(p)] = InodeOf[p] /\ node[InodeOf[p]].data = GroupOf[p]
      BY <1>0, <3>3, NamesAreLocs DEF AsScanned
    <3>5. PICK d \in Datasets : snap' = [snap EXCEPT ![d] = Contents(d)]
      BY <2>1 DEF CreateSnapshot
    <3>6. CASE d = DatasetOf[p]
      <4>1. snap'[DatasetOf[p]] = Contents(d)
        BY <1>0, <3>5, <3>6 DEF IInv, TypeOK
      <4>2. Contents(d)[p] = GroupOf[p]
        BY <1>0, <3>4, <3>6, ConstantsOK DEF Contents
      <4> QED BY <4>1, <4>2
    <3>7. CASE d # DatasetOf[p]
      <4>1. snap'[DatasetOf[p]] = snap[DatasetOf[p]]
        BY <1>0, <3>5, <3>7 DEF IInv, TypeOK
      <4>2. pc \in Opening
        BY <1>4
      <4> QED BY <3>2, <4>1, <4>2 DEF SnapOK
    <3> QED BY <3>6, <3>7
  <2>2. CASE ~CreateSnapshot
    <3>1. snap' = snap
      BY <1>4, <2>2 DEF Opening, Worker, LeaseRefused, LeaseTaken, PreflightFirst, FindObstacles,
       SnapshotFails, SnapshotsMade, PreflightSecond, Boundary, ApplyOne, StatTarget,
       HashTarget, StatKeeper, HashKeeper, Stat, Hash, ReadMeta, BuildFails, Build,
       QuarantineLook, QuarantineMove, QuarantineFails, Publish, PublishFails, PutBack,
       PutBackFails, RemoveTemp, SettleTarget, SettleKeeper
    <3>2. \/ pc' \in Opening
          \/ pc' = "done" /\ ending' # "Finished"
          \/ pc = "preflight2" /\ Preflight /\ pc' = "boundary"
      BY <1>4, OpeningSteps
    <3>3. node[InodeOf[p]].ctime = 0
      <4>1. CASE Preflight
        BY <4>1, PreflightSees
      <4>2. CASE ~Preflight
        <5>1. pc' \in Opening \/ (pc' = "done" /\ ending' # "Finished")
          BY <3>2, <4>2
        <5>2. ~Acting'
          BY <5>1 DEF Acting, Opening, ActionSteps, Steps
        <5> QED BY <1>2, <5>2
      <4> QED BY <4>1, <4>2
    <3> QED BY <1>4, <3>1, <3>3 DEF SnapOK
  <2> QED BY <2>1, <2>2
<1>5. CASE Worker /\ pc \in ActionSteps \cup {"boundary"}
  <2>1. snap' = snap /\ Acting
    BY <1>5, ActionReports, BoundarySteps DEF Acting
  <2> QED BY <2>1 DEF SnapOK
<1> QED BY <1>3, <1>4, <1>5, StepKinds


LEMMA MovedNext ==
    ASSUME IInv, GateHolds, Progress, MovedOK, [Next]_vars
    PROVE  MovedOK'
<1>0. plan \in Seq(Action) /\ results \in Seq(Outcome) /\ cur \in 0..Len(plan)
  BY PlansOK DEF IInv, TypeOK
<1>1. CASE UNCHANGED batchVars
  BY <1>1 DEF batchVars, MovedOK
<1>2. CASE Worker /\ pc \in Opening
  <2>1. moved' = None /\ results' = <<>>
    BY <1>2, OpeningSteps DEF Progress
  <2> QED BY <2>1 DEF MovedOK
<1>3. CASE Worker /\ pc \in ActionSteps
  <2>1. UNCHANGED <<plan, snap, cur>>
    BY <1>3, ActionReports
  <2>2. moved' # None => snap'[DatasetOf[plan'[cur'].target]] # None
    <3>1. CASE pc = "check"
      <4>1. moved' = moved
        BY <1>3, <3>1 DEF Worker, LeaseRefused, LeaseTaken, PreflightFirst, FindObstacles,
       CreateSnapshot, SnapshotFails, SnapshotsMade, PreflightSecond, Boundary, ApplyOne,
       StatTarget, HashTarget, StatKeeper, HashKeeper, Stat, Hash, ReadMeta, BuildFails, Build,
       QuarantineLook, QuarantineMove, QuarantineFails, Publish, PublishFails, PutBack,
       PutBackFails, RemoveTemp, SettleTarget, SettleKeeper
      <4> QED BY <2>1, <4>1 DEF MovedOK
    <3>2. CASE pc # "check"
      BY <1>3, <2>1, <3>2 DEF GateHolds
    <3> QED BY <3>1, <3>2
  <2>3. ASSUME NEW i \in DOMAIN results', results'[i].quarantine # None
        PROVE  snap'[DatasetOf[plan'[i].target]] # None
    <3>1. CASE results' = results
      BY <2>1, <2>3, <3>1 DEF MovedOK
    <3>2. CASE Told
      <4>1. PICK out \in Outcome : results' = Append(results, out) /\ out.quarantine \in {None, moved}
        BY <3>2 DEF Told
      <4>2. CASE i \in DOMAIN results
        <5>1. results'[i] = results[i]
          BY <1>0, <4>1, <4>2
        <5> QED BY <2>1, <2>3, <4>2, <5>1 DEF MovedOK
      <4>3. CASE i \notin DOMAIN results
        <5>1. i = Len(results) + 1 /\ results'[i] = out
          BY <1>0, <4>1, <4>3
        <5>2. i = cur /\ moved # None
          BY <1>3, <2>3, <4>1, <5>1 DEF Progress
        <5> QED BY <2>1, <5>2 DEF MovedOK
      <4> QED BY <4>2, <4>3
    <3> QED BY <1>3, <3>1, <3>2, ActionReports
  <2> QED BY <2>2, <2>3 DEF MovedOK
<1>4. CASE Worker /\ pc = "boundary"
  BY <1>4, BoundarySteps DEF MovedOK
<1> QED BY <1>1, <1>2, <1>3, <1>4, StepKinds

\* What an identity read earlier still says, after any step.
LEMMA VouchesNext ==
    ASSUME IInv, [Next]_vars, NEW v \in FileIds, NEW p \in Paths
    PROVE  /\ Vouches(v, p) => Vouches(v, p)'
           /\ StillThere(v, p) => StillThere(v, p)'
<1>1. v.ino \in Inodes /\ v.ctime \in Nat
  BY DEF FileIds
<1>2. Aged(v.ino) /\ node[v.ino].ctime \in Nat /\ node'[v.ino].ctime \in Nat
  <2>1. TypeOK /\ TypeOK'
    BY TypeOpening, TypeChecks, TypeMoves, TypeSettles, TypeOthers DEF Next, Worker, Done, IInv
  <2> QED BY <1>1, <2>1, CtimeTells DEF TypeOK
<1>3. node'[v.ino].ctime = v.ctime /\ v.ctime <= node[v.ino].ctime
        => node[v.ino].ctime = v.ctime /\ node'[v.ino].ctime = node[v.ino].ctime
  BY <1>1, <1>2 DEF Aged
<1>4. v.ctime <= node[v.ino].ctime => v.ctime <= node'[v.ino].ctime
  BY <1>1, <1>2 DEF Aged
<1>5. Home(p) \in Locs
  BY NamesAreLocs
<1>6. node'[v.ino].ctime = node[v.ino].ctime
        => node'[v.ino].data = node[v.ino].data /\ (dir'[Home(p)] = v.ino <=> dir[Home(p)] = v.ino)
  BY <1>2, <1>5 DEF Aged
<1>7. Vouches(v, p) => Vouches(v, p)'
  BY <1>3, <1>4, <1>6 DEF Vouches
<1>8. StillThere(v, p) => StillThere(v, p)'
  BY <1>3, <1>4, <1>6 DEF StillThere
<1> QED BY <1>7, <1>8

\* The two files of an action, and the digest both are read against.
LEMMA ActionFiles ==
    ASSUME IInv, cur \in DOMAIN plan
    PROVE  /\ act.target \in Paths /\ act.keeper \in Paths /\ act.kind \in Kinds
           /\ GroupOf[act.keeper] = GroupOf[act.target] /\ digest = GroupOf[act.target]
           /\ InodeOf[act.keeper] # InodeOf[act.target]
<1>1. plan \in Plans /\ TypeOK
  BY DEF IInv, TypeOK
<1>2. act \in Action
  BY <1>1, ActionType
<1>3. Executable(plan, GroupOf, InodeOf, DatasetOf)
  BY <1>1, PlansOK
<1> QED BY <1>2, <1>3 DEF Action, Executable, act, digest

\* A stat remembers the file that is there, and a read only what the stat before it saw.
LEMMA CacheSteps ==
    ASSUME IInv, CacheOK, Worker, pc \in ActionSteps
    PROVE  /\ \A p \in Paths : verified'[p] # None => Vouches(verified'[p], p) /\ verified'[p] \in FileIds
           /\ pc' = "hashTarget" => StillThere(seen', act.target) /\ seen' \in FileIds
           /\ pc' = "hashKeeper" => StillThere(seen', act.keeper) /\ seen' \in FileIds
<1>0. TypeOK /\ cur \in DOMAIN plan
  BY DEF IInv, StepOK
<1>1. /\ act.target \in Paths /\ act.keeper \in Paths /\ act.kind \in Kinds
      /\ GroupOf[act.keeper] = GroupOf[act.target] /\ digest = GroupOf[act.target]
  BY <1>0, ActionFiles
<1>2. FirstStep \in {"look", "build", "meta"}
  BY <1>1 DEF FirstStep, Kinds
<1>3. \A p \in Paths : verified[p] # None => Vouches(verified[p], p) /\ verified[p] \in FileIds
  BY <1>0 DEF CacheOK, TypeOK
<1>4. ASSUME NEW p \in Paths, NEW hash, NEW next, Stat(p, hash, next),
             next \notin {"hashTarget", "hashKeeper"}
      PROVE  /\ verified' = verified
             /\ pc' \in {"hashTarget", "hashKeeper"} =>
                    pc' = hash /\ StillThere(seen', p) /\ seen' \in FileIds
  <2>1. verified' = verified
    BY <1>4 DEF Stat
  <2>2. CASE ~Live(Home(p))
    BY <1>4, <2>1, <2>2 DEF Stat, Report, Goto
  <2>3. CASE Live(Home(p))
    <3>1. seen' = FileIdentity(Home(p)) /\ pc' \in {hash, next}
      BY <1>4, <2>3 DEF Stat, Goto
    <3>2. FileIdentity(Home(p)) \in FileIds /\ dir[Home(p)] \in Inodes
      BY <1>0, <2>3, NamesAreLocs, IdentityType DEF Live
    <3>3. node[dir[Home(p)]].ctime \in Nat
      BY <1>0, <3>2 DEF TypeOK
    <3>4. StillThere(FileIdentity(Home(p)), p)
      BY <3>3 DEF StillThere, FileIdentity
    <3>5. StillThere(seen', p) /\ seen' \in FileIds
      BY <3>1, <3>2, <3>4
    <3> QED BY <1>4, <2>1, <3>1, <3>5
  <2> QED BY <2>2, <2>3
<1>5. ASSUME NEW p \in Paths, NEW next, Hash(p, next), next \notin {"hashTarget", "hashKeeper"},
             seen \in FileIds, StillThere(seen, p), GroupOf[p] = digest
      PROVE  /\ \A q \in Paths : verified'[q] # None => Vouches(verified'[q], q) /\ verified'[q] \in FileIds
             /\ pc' \notin {"hashTarget", "hashKeeper"}
  <2>1. CASE Live(Home(p)) /\ node[dir[Home(p)]].data = digest
    <3>1. pc' = next /\ verified' \in {verified, [verified EXCEPT ![p] = seen]}
      BY <1>5, <2>1 DEF Hash, Goto
    <3>2. Vouches(seen, p)
      BY <1>5, <2>1 DEF Vouches, StillThere
    <3>3. [verified EXCEPT ![p] = seen][p] = seen
          /\ \A q \in Paths \ {p} : [verified EXCEPT ![p] = seen][q] = verified[q]
      BY <1>0 DEF TypeOK
    <3> QED BY <1>3, <1>5, <3>1, <3>2, <3>3
  <2>2. CASE ~(Live(Home(p)) /\ node[dir[Home(p)]].data = digest)
    BY <1>3, <1>5, <2>2 DEF Hash, Report, Goto
  <2> QED BY <2>1, <2>2
<1>6. CASE StatTarget
  BY <1>1, <1>3, <1>4, <1>6 DEF StatTarget
<1>7. CASE StatKeeper
  BY <1>1, <1>2, <1>3, <1>4, <1>7 DEF StatKeeper
<1>8. CASE HashTarget
  <2>1. seen \in FileIds /\ StillThere(seen, act.target)
    BY <1>8 DEF HashTarget, IInv, StepOK, CacheOK
  <2> QED BY <1>1, <1>5, <1>8, <2>1 DEF HashTarget
<1>9. CASE HashKeeper
  <2>1. seen \in FileIds /\ StillThere(seen, act.keeper)
    BY <1>9 DEF HashKeeper, IInv, StepOK, CacheOK
  <2> QED BY <1>1, <1>2, <1>5, <1>9, <2>1 DEF HashKeeper
<1>10. CASE ~(StatTarget \/ StatKeeper \/ HashTarget \/ HashKeeper)
  <2>1. verified' = verified /\ pc' \notin {"hashTarget", "hashKeeper"}
    <3>1. ApplyOne \/ ReadMeta \/ Build
        \/ BuildFails \/ QuarantineLook \/ QuarantineMove \/ QuarantineFails \/ Publish
        \/ PublishFails \/ RemoveTemp \/ PutBack \/ PutBackFails \/ SettleTarget \/ SettleKeeper
      BY <1>10 DEF Worker, ActionSteps, Steps, LeaseRefused, LeaseTaken, PreflightFirst, FindObstacles,
       CreateSnapshot, SnapshotFails, SnapshotsMade, PreflightSecond, Boundary
    <3>2. verified' = verified
      BY <3>1 DEF ApplyOne, ReadMeta, Build, BuildFails, QuarantineLook, QuarantineMove,
        QuarantineFails, Publish, PublishFails, RemoveTemp, PutBack, PutBackFails, SettleTarget,
        SettleKeeper
    <3>3. pc' \notin {"hashTarget", "hashKeeper"}
      <4>1. CASE SettleKeeper
        <5>1. pub \in {"NotMoved", "RolledBack", "Stranded", "Published"}
          BY <4>1 DEF SettleKeeper, IInv, StepOK
        <5> QED BY <4>1, <5>1 DEF SettleKeeper, SettlePublished, SettleFailed, Unsettle, Report, Goto
      <4>2. CASE ~SettleKeeper
        BY <3>1, <4>2 DEF ApplyOne, ReadMeta, Build, BuildFails, QuarantineLook, QuarantineMove,
        QuarantineFails, NotMoved, Publish, PublishFails, RemoveTemp, PutBack, PutBackFails,
        SettleTarget, Unsettle, Report, Goto
      <4> QED BY <4>1, <4>2
    <3> QED BY <3>2, <3>3
  <2> QED BY <1>3, <2>1
<1> QED BY <1>6, <1>7, <1>8, <1>9, <1>10

LEMMA CacheNext == ASSUME IInv, CacheOK, [Next]_vars PROVE CacheOK'
<1>0. TypeOK /\ \A p \in Paths : verified[p] \in FileIds \cup {None}
  BY DEF IInv, TypeOK
<1>1. CASE UNCHANGED batchVars
  <2>1. act' = act /\ UNCHANGED <<pc, seen, verified>>
    BY <1>1 DEF batchVars, act
  <2>2. ASSUME NEW p \in Paths, verified[p] # None PROVE Vouches(verified[p], p)'
    <3>1. verified[p] \in FileIds /\ Vouches(verified[p], p)
      BY <1>0, <2>2 DEF CacheOK
    <3>2. \A v \in FileIds : Vouches(v, p) => Vouches(v, p)'
      BY VouchesNext
    <3> QED BY <2>1, <3>1, <3>2 DEF Vouches
  <2>3. ASSUME pc \in {"hashTarget", "hashKeeper"}, NEW p \in Paths, StillThere(seen, p)
        PROVE  StillThere(seen, p)'
    <3>1. seen \in FileIds
      BY <2>3 DEF IInv, StepOK
    <3>2. \A v \in FileIds : StillThere(v, p) => StillThere(v, p)'
      BY VouchesNext
    <3> QED BY <2>1, <2>3, <3>1, <3>2 DEF StillThere
  <2>4. pc \in {"hashTarget", "hashKeeper"} => act.target \in Paths /\ act.keeper \in Paths
    BY ActionFiles DEF IInv, StepOK, ActionSteps, Steps
  <2>5. pc = "hashTarget" => StillThere(seen, act.target)'
    <3> SUFFICES ASSUME pc = "hashTarget" PROVE StillThere(seen, act.target)'
      OBVIOUS
    <3>1. StillThere(seen, act.target)
      BY DEF CacheOK
    <3>2. \A p \in Paths : StillThere(seen, p) => StillThere(seen, p)'
      BY <2>3
    <3> QED BY <2>1, <2>4, <3>1, <3>2 DEF StillThere
  <2>6. pc = "hashKeeper" => StillThere(seen, act.keeper)'
    <3> SUFFICES ASSUME pc = "hashKeeper" PROVE StillThere(seen, act.keeper)'
      OBVIOUS
    <3>1. StillThere(seen, act.keeper)
      BY DEF CacheOK
    <3>2. \A p \in Paths : StillThere(seen, p) => StillThere(seen, p)'
      BY <2>3
    <3> QED BY <2>1, <2>4, <3>1, <3>2 DEF StillThere
  <2> QED BY <2>1, <2>2, <2>5, <2>6 DEF CacheOK
<1>2. CASE Worker /\ pc \in ActionSteps
  <2>1. cur' = cur /\ plan' = plan
    BY <1>2, ActionReports
  <2>2. act' = act
    BY <2>1 DEF act
  <2>3. pc \in ActionSteps => act.target \in Paths /\ act.keeper \in Paths
    BY ActionFiles DEF IInv, StepOK
  <2>4. /\ \A p \in Paths : verified'[p] # None => Vouches(verified'[p], p) /\ verified'[p] \in FileIds
        /\ pc' = "hashTarget" => StillThere(seen', act.target) /\ seen' \in FileIds
        /\ pc' = "hashKeeper" => StillThere(seen', act.keeper) /\ seen' \in FileIds
    BY <1>2, CacheSteps
  <2>5. ASSUME NEW v \in FileIds, NEW p \in Paths
        PROVE  /\ Vouches(v, p) => v.ctime <= node'[v.ino].ctime
                    /\ (node'[v.ino].ctime = v.ctime => node'[v.ino].data = GroupOf[p])
               /\ StillThere(v, p) => v.ctime <= node'[v.ino].ctime
                    /\ (node'[v.ino].ctime = v.ctime => dir'[Home(p)] = v.ino)
    BY VouchesNext DEF Vouches, StillThere
  <2>7. ASSUME NEW p \in Paths, verified'[p] # None PROVE Vouches(verified[p], p)'
    BY <2>4, <2>5, <2>7 DEF Vouches
  <2>8. pc' = "hashTarget" => StillThere(seen, act.target)'
    BY <1>2, <2>2, <2>3, <2>4, <2>5 DEF StillThere
  <2>9. pc' = "hashKeeper" => StillThere(seen, act.keeper)'
    BY <1>2, <2>2, <2>3, <2>4, <2>5 DEF StillThere
  <2> QED BY <2>7, <2>8, <2>9 DEF CacheOK
<1>3. CASE Worker /\ (pc \in Opening \/ pc = "boundary")
  <2>1. UNCHANGED <<treeVars, verified>> /\ pc' \notin {"hashTarget", "hashKeeper"}
    BY <1>3, OpeningSteps, BoundarySteps DEF Opening
  <2> QED BY <2>1 DEF treeVars, CacheOK, Vouches
<1> QED BY <1>1, <1>2, <1>3, StepKinds


LEMMA TrustNext == ASSUME TrustInv, [Next]_vars PROVE TrustInv'
<1>1. IInv'
  BY TypeOpening, TypeChecks, TypeMoves, TypeSettles, TypeOthers DEF TrustInv, Next, Worker, Done
<1>2. GateHolds' /\ Progress' /\ Intact'
  BY GateNext, ProgressNext, IntactNext DEF TrustInv
<1>3. SnapOK' /\ MovedOK' /\ CacheOK'
  BY SnapNext, MovedNext, CacheNext DEF TrustInv
<1> QED BY <1>1, <1>2, <1>3 DEF TrustInv

\* What the batch trusts without another read is so, for every plan, in Strict and in Hybrid, with
\* any number of outside acts that put contents and mtime back: the snapshot of a dataset holds
\* the scanned contents at the name of whatever was moved there (the two preflights around
\* snapshot creation, run_batch), and a file that still has the identity in the Hybrid cache has
\* the digest (verify_file remembers the identity it read before the bytes).
THEOREM WhatIsTrusted == Spec => []TrustIsEarned
<1>1. TrustInv => SnapshotHoldsOriginal
  <2> SUFFICES ASSUME TrustInv, NEW i \in DOMAIN plan,
                      (i \in DOMAIN results /\ results[i].quarantine # None) \/ (i = cur /\ moved # None)
               PROVE  /\ snap[DatasetOf[plan[i].target]] # None
                      /\ snap[DatasetOf[plan[i].target]][plan[i].target] = GroupOf[plan[i].target]
    BY DEF SnapshotHoldsOriginal
  <2>1. snap[DatasetOf[plan[i].target]] # None
    BY DEF TrustInv, MovedOK
  <2>2. plan \in Seq(Action) /\ plan[i].target \in Paths
    <3>1. plan \in Seq(Action)
      BY PlansOK DEF TrustInv, IInv, TypeOK
    <3>2. plan[i] \in Action
      BY <3>1
    <3> QED BY <3>1, <3>2 DEF Action
  <2>3. Acting
    <3>1. pc \in Opening \cup ActionSteps \cup {"boundary", "done"}
      BY DEF TrustInv, IInv, TypeOK, Opening, ActionSteps, Steps
    <3>2. ~(results = <<>> /\ moved = None)
      OBVIOUS
    <3> QED BY <3>1, <3>2 DEF TrustInv, Progress, Acting
  <2> QED BY <2>1, <2>2, <2>3 DEF TrustInv, SnapOK
<1>2. TrustInv => CacheIsHonest
  <2> SUFFICES ASSUME TrustInv, NEW p \in Paths, verified[p] # None, Live(Home(p)),
                      FileIdentity(Home(p)) = verified[p]
               PROVE  node[dir[Home(p)]].data = GroupOf[p]
    BY DEF CacheIsHonest
  <2>1. Vouches(verified[p], p)
    BY DEF TrustInv, CacheOK
  <2>2. verified[p].ino = dir[Home(p)] /\ verified[p].ctime = node[dir[Home(p)]].ctime
    BY DEF FileIdentity
  <2> QED BY <2>1, <2>2 DEF Vouches
<1>3. TrustInv /\ [Next]_vars => TrustInv'
  BY TrustNext
<1> QED BY TrustInit, <1>1, <1>2, <1>3, PTL DEF Spec, TrustIsEarned


-----------------------------------------------------------------------------
(***************************************************************************)
(* What the batch reports is what lies on the disk.                        *)
(***************************************************************************)
\* Everybody else leaves their mark on every name and every file they change.
LEMMA OthersTouch ==
    ASSUME IInv, [Next]_vars, ~Worker
    PROVE  /\ touched \subseteq touched'
           /\ \A l \in Locs : dir'[l] # dir[l] =>
                /\ l \in touched' /\ dir[l] \in touched' \cup {None}
                /\ dir'[l] \in touched' \cup {None}
           /\ \A i \in Inodes : node'[i] # node[i] => i \in touched'
<1>0. TypeOK
  BY DEF IInv
<1>1. CASE OutsiderMoves
  <2>1. PICK l \in Homes \cup Quars :
          OutsiderWrites(l) \/ OutsiderPuts(l) \/ OutsiderRemoves(l) \/ OutsiderLinks(l)
    BY <1>1 DEF OutsiderMoves
  <2>2. l \in Locs
    BY DEF Locs
  <2>3. CASE OutsiderWrites(l)
    BY <1>0, <2>2, <2>3 DEF OutsiderWrites, TypeOK
  <2>4. CASE OutsiderLinks(l)
    BY <1>0, <2>2, <2>4 DEF OutsiderLinks, TypeOK
  <2>5. CASE OutsiderRemoves(l)
    <3>1. \A i \in Inodes : i # dir[l] => Bump(dir[l])[i] = node[i]
      BY <1>0, <2>2, <2>5, BumpAges DEF OutsiderRemoves, TypeOK
    <3> QED BY <1>0, <2>2, <2>5, <3>1 DEF OutsiderRemoves, TypeOK
  <2>6. CASE OutsiderPuts(l)
    <3>1. PICK j \in Inodes, data \in {"foreign", "symlink"} :
            /\ dir' = [dir EXCEPT ![l] = j]
            /\ node' = [n \in Inodes |->
                  IF n = j THEN [data |-> data, mtime |-> node[j].mtime + 1,
                                 ctime |-> node[j].ctime + 1, outside |-> 0]
                  ELSE IF n = dir[l] THEN [node[n] EXCEPT !.ctime = @ + 1] ELSE node[n]]
            /\ touched' = touched \cup {l, j} \cup ({dir[l]} \ {None})
      BY <2>6 DEF OutsiderPuts
    <3>2. \A i \in Inodes : i \notin {j, dir[l]} => node'[i] = node[i]
      BY <3>1
    <3>3. \A i \in Inodes : node'[i] # node[i] => i \in touched'
      BY <3>1, <3>2, ConstantsOK
    <3>4. \A k \in Locs : k # l => dir'[k] = dir[k]
      BY <1>0, <3>1 DEF TypeOK
    <3>5. dir'[l] = j
      BY <1>0, <2>2, <3>1 DEF TypeOK
    <3> QED BY <3>1, <3>3, <3>4, <3>5
  <2> QED BY <2>1, <2>3, <2>4, <2>5, <2>6
<1>2. CASE ~OutsiderMoves
  <2>1. UNCHANGED <<treeVars, touched>>
    BY <1>2 DEF Next, Cancel, Done, vars
  <2> QED BY <2>1 DEF treeVars
<1> QED BY <1>1, <1>2

\* A step of the batch gives and takes only the running target's names.
LEMMA OwnNames ==
    ASSUME IInv, GateHolds, Worker, NEW l \in Locs, dir'[l] # dir[l]
    PROVE  /\ pc \in ActionSteps
           /\ l \in {target, temp} \cup {Quar(act.target, n) : n \in 0..MaxSuffix}
           /\ l[2] = act.target
<1>1. Build \/ QuarantineMove \/ Publish \/ RemoveTemp \/ PutBack
  BY TreeSteps DEF treeVars
<1>2. dir \in [Locs -> Inodes \cup {None}]
  BY DEF IInv, TypeOK
<1>3. l \in {target, temp} \cup {Quar(act.target, n) : n \in 0..MaxSuffix}
  BY <1>1, <1>2 DEF Build, BuildLink, BuildClone, QuarantineMove, Publish, RemoveTemp, PutBack,
                    Rename, treeVars, GateHolds, act
<1>4. pc \in ActionSteps
  BY <1>1 DEF Build, QuarantineMove, Publish, RemoveTemp, PutBack, ActionSteps, Steps
<1> QED BY <1>3, <1>4 DEF target, temp, Home, Temp, Quar

\* Names made from different pathnames, or for different uses, are different.
LEMMA NamesApart ==
    /\ \A p, q, n : Home(p) # Temp(q) /\ Home(p) # Quar(q, n) /\ Temp(p) # Quar(q, n)
    /\ \A p, q : Home(p) = Home(q) <=> p = q
    /\ \A p : Home(p)[2] = p /\ Temp(p)[2] = p
    /\ \A p, n : Quar(p, n)[2] = p
BY DEF Home, Temp, Quar

-----------------------------------------------------------------------------
\* The names of the tree before anybody changes them.
Initially(l) == IF l \in Homes THEN InodeOf[l[2]] ELSE None

Runnable == DOMAIN plan \ obstacles

\* A run that stops before its first action has snapshots exactly when it says so.
StoppedOK ==
    /\ pc \in {"lease", "preflight", "obstacles"} => \A d \in Datasets : snap[d] = None
    /\ pc \in {"snapshots", "preflight2"} =>
         Runnable # {} /\ \A i \in Runnable : DatasetOf[plan[i].target] \in Known
    /\ pc = "preflight2" => \E d \in Datasets : snap[d] # None
    /\ ending \in {"Refused", "Failed"} => \A d \in Datasets : snap[d] = None
    /\ ending = "Aborted" => \E d \in Datasets : snap[d] # None
    /\ pc \in Opening \/ ending \in {"Refused", "Failed", "Aborted"} =>
         \A l \in Locs \ touched : dir[l] = Initially(l)

\* Of the numbers in a set one is the least: the intervals below them are well ordered.
LEMMA LeastOne ==
    ASSUME NEW S, S \subseteq Nat, S # {}
    PROVE  \E j \in S : \A k \in S : j <= k
<1> DEFINE Below == {1..j : j \in S}
<1>1. \A j \in S : 1..j \in FiniteSubsetsOf(Nat)
  <2> SUFFICES ASSUME NEW j \in S PROVE 1..j \in FiniteSubsetsOf(Nat)
    OBVIOUS
  <2>1. 1 \in Int /\ j \in Int
    OBVIOUS
  <2>2. IsFiniteSet(1..j)
    BY <2>1, FS_Interval
  <2> QED BY <2>2 DEF FiniteSubsetsOf
<1>2. Below \subseteq FiniteSubsetsOf(Nat) /\ Below # {}
  BY <1>1
<1>3. PICK x \in Below : \A y \in Below : ~(<<y, x>> \in StrictSubsetOrdering(Nat))
  <2> HIDE DEF Below
  <2> QED BY <1>2, FS_StrictSubsetOrderingWellFounded, WFMin
<1>4. PICK j \in S : x = 1..j
  OBVIOUS
<1>5. ASSUME NEW k \in S, k < j PROVE FALSE
  <2>1. 1..k \in SUBSET Nat /\ 1..j \in SUBSET Nat /\ 1..k \subseteq 1..j
    BY <1>5
  <2>2. j \in 1..j /\ j \notin 1..k
    BY <1>5
  <2>3. <<1..k, 1..j>> \in StrictSubsetOrdering(Nat)
    BY <2>1, <2>2 DEF StrictSubsetOrdering
  <2> QED BY <1>3, <1>4, <2>3
<1>6. \A k \in S : j <= k
  BY <1>5
<1> QED BY <1>6

\* When no dataset is next, every action that can run has its snapshot.
LEMMA AllSnapped ==
    ASSUME IInv, \A i \in Runnable : DatasetOf[plan[i].target] \in Known,
           ~\E d \in Datasets : NextAffected(d), NEW i \in Runnable
    PROVE  snap[DatasetOf[plan[i].target]] # None
<1> DEFINE Bare == {j \in Runnable : snap[DatasetOf[plan[j].target]] = None}
<1>0. plan \in Seq(Action)
  BY PlansOK DEF IInv, TypeOK
<1>1. Bare \subseteq Nat
  BY <1>0 DEF Runnable
<1>2. SUFFICES ASSUME Bare # {} PROVE FALSE
  OBVIOUS
<1>3. PICK j \in Bare : \A k \in Bare : j <= k
  <2> HIDE DEF Bare
  <2> QED BY <1>1, <1>2, LeastOne
<1>4. \A k \in Runnable : k < j => snap[DatasetOf[plan[k].target]] # None
  BY <1>1, <1>3, <1>0 DEF Runnable
<1>5. DatasetOf[plan[j].target] \in Datasets
  <2>1. plan[j] \in Action
    BY <1>0, <1>3 DEF Runnable
  <2> QED BY <2>1, ConstantsOK DEF Action
<1>6. NextAffected(DatasetOf[plan[j].target])
  BY <1>3, <1>4 DEF NextAffected, Runnable
<1> QED BY <1>5, <1>6

LEMMA StoppedNext == ASSUME IInv, Progress, StoppedOK, [Next]_vars PROVE StoppedOK'
<1>0. plan \in Seq(Action) /\ snap \in [Datasets -> [Paths -> Data \cup {None}] \cup {None}]
  BY PlansOK DEF IInv, TypeOK
<1>1. CASE UNCHANGED batchVars /\ ~Worker
  <2>1. \A l \in Locs : dir'[l] # dir[l] => l \in touched'
    BY <1>1, OthersTouch
  <2>2. touched \subseteq touched'
    BY <1>1, OthersTouch
  <2> QED BY <1>1, <2>1, <2>2 DEF batchVars, StoppedOK, Runnable, Initially
<1>2. CASE Worker /\ pc \in Opening
  <2>0. LeaseRefused \/ LeaseTaken \/ PreflightFirst \/ FindObstacles \/ CreateSnapshot
          \/ SnapshotFails \/ SnapshotsMade \/ PreflightSecond
    BY <1>2 DEF Worker, Opening, Boundary, ApplyOne, StatTarget,
       HashTarget, StatKeeper, HashKeeper, Stat, Hash, ReadMeta, BuildFails, Build,
       QuarantineLook, QuarantineMove, QuarantineFails, Publish, PublishFails, PutBack,
       PutBackFails, RemoveTemp, SettleTarget, SettleKeeper
  <2>1. UNCHANGED <<treeVars, plan, touched>> /\ ending = "running"
    BY <1>2, OpeningSteps DEF Progress
  <2> USE <1>2, <2>1 DEF StoppedOK, treeVars, Opening, Initially, Goto, End
  <2>2. CASE LeaseRefused \/ LeaseTaken
    BY <2>2 DEF LeaseRefused, LeaseTaken
  <2>3. CASE PreflightFirst
    BY <2>3 DEF PreflightFirst
  <2>4. CASE FindObstacles
    <3>1. PICK found \in MayFind : obstacles' = found \cup setAside
      BY <2>4 DEF FindObstacles
    <3>2. /\ pc' \in {"done", "snapshots"} /\ snap' = snap
          /\ pc' = "done" => ending' = "Refused"
          /\ pc' = "snapshots" => obstacles' # DOMAIN plan /\ ending' = ending
      BY <2>4 DEF FindObstacles
    <3>3. obstacles' \subseteq DOMAIN plan
      BY <3>1 DEF MayFind, IInv, TypeOK
    <3>4. \A i \in DOMAIN plan : i \notin obstacles' => DatasetOf[plan[i].target] \in Known
      BY <3>1 DEF MayFind, Place
    <3>5. pc' = "snapshots" => Runnable' # {}
      BY <3>2, <3>3 DEF Runnable
    <3> QED BY <2>4, <3>2, <3>4, <3>5 DEF FindObstacles, Runnable
  <2>5. CASE CreateSnapshot
    <3>1. UNCHANGED <<pc, obstacles, ending>> /\ pc = "snapshots"
      BY <2>5 DEF CreateSnapshot
    <3> QED BY <3>1 DEF Runnable
  <2>6. CASE SnapshotFails
    <3>1. /\ UNCHANGED <<snap, obstacles>> /\ pc' = "done"
          /\ ending' = IF \A d \in Datasets : snap[d] = None THEN "Failed" ELSE "Aborted"
      BY <2>6 DEF SnapshotFails, FailedSnapshot
    <3> QED BY <3>1 DEF Runnable
  <2>7. CASE SnapshotsMade
    <3>1. UNCHANGED <<snap, obstacles, ending>> /\ pc = "snapshots" /\ pc' = "preflight2"
      BY <2>7 DEF SnapshotsMade
    <3>2. PICK i \in Runnable : TRUE
      BY <3>1
    <3>3. snap[DatasetOf[plan[i].target]] # None
      BY <2>7, <3>1, AllSnapped DEF SnapshotsMade
    <3>4. DatasetOf[plan[i].target] \in Datasets
      <4>1. plan[i] \in Action
        BY <1>0, <3>2 DEF Runnable
      <4> QED BY <4>1, ConstantsOK DEF Action
    <3> QED BY <3>1, <3>3, <3>4 DEF Runnable
  <2>8. CASE PreflightSecond
    <3>1. /\ UNCHANGED <<snap, obstacles>> /\ pc = "preflight2"
          /\ \/ pc' = "boundary" /\ ending' = ending
             \/ pc' = "done" /\ ending' = "Aborted"
      BY <2>8 DEF PreflightSecond
    <3> QED BY <3>1 DEF Runnable
  <2> QED BY <2>0, <2>2, <2>3, <2>4, <2>5, <2>6, <2>7, <2>8
<1>3. CASE Worker /\ pc \in ActionSteps \cup {"boundary"}
  <2>1. ending = "running"
    BY <1>3 DEF Progress
  <2>2. ending' \in {"running", "Finished"} /\ pc' \notin Opening
    <3>1. CASE pc \in ActionSteps
      BY <1>3, <2>1, <3>1, ActionReports DEF Told, ActionSteps, Steps, Opening
    <3>2. CASE pc = "boundary"
      <4>1. pc' \in {"done", "check"} /\ ending' \in {"Finished", ending}
        BY <1>3, <3>2, BoundarySteps
      <4> QED BY <2>1, <4>1 DEF Opening
    <3> QED BY <1>3, <3>1, <3>2
  <2> QED BY <2>2 DEF StoppedOK, Opening
<1> QED BY <1>1, <1>2, <1>3, StepKinds

\* A refused, failed or aborted run ends as StoppedRunsChangeNothing says.
LEMMA StoppedInit == Init => StoppedOK
<1> SUFFICES ASSUME Init PROVE StoppedOK
  OBVIOUS
<1>1. \A d \in Datasets : snap[d] = None
  BY DEF Init
<1>2. pc = "lease" /\ ending = "running"
  BY DEF Init
<1>3. \A l \in Locs : dir[l] = Initially(l)
  BY DEF Init, Initially
<1> QED BY <1>1, <1>2, <1>3 DEF StoppedOK

LEMMA StoppedTells ==
    ASSUME IInv, Progress, StoppedOK
    PROVE  StoppedRunsChangeNothing
<1>1. SUFFICES ASSUME ending \in {"Refused", "Failed", "Aborted"}
               PROVE  /\ results = <<>>
                      /\ (ending = "Aborted") = (\E d \in Datasets : snap[d] # None)
                      /\ \A l \in Locs \ touched : dir[l] = Initially(l)
  BY DEF StoppedRunsChangeNothing, Initially
<1>2. pc \in Opening \cup ActionSteps \cup {"boundary", "done"}
  BY DEF IInv, TypeOK, Opening, ActionSteps, Steps
<1>3. results = <<>>
  BY <1>1, <1>2 DEF Progress
<1>4. \A l \in Locs \ touched : dir[l] = Initially(l)
  BY <1>1 DEF StoppedOK
<1>5. ending = "Aborted" <=> \E d \in Datasets : snap[d] # None
  BY <1>1 DEF StoppedOK
<1> QED BY <1>3, <1>4, <1>5

-----------------------------------------------------------------------------
\* The pathname p, of a target whose original is told to lie at q, or at p where q is None.
QuarsOf(p) == {Quar(p, n) : n \in 0..MaxSuffix}
At(p, q) == IF q = None THEN Home(p) ELSE q
Lies(d, t, p, q) ==
    /\ q # None => q \in QuarsOf(p)
    /\ {Home(p), InodeOf[p]} \cap t = {} => d[At(p, q)] = InodeOf[p]
    /\ q # None /\ q \notin t => d[q] # None

\* Where the running action would say its original is.
whereabouts == IF pub = "RolledBack" THEN None ELSE moved

\* Before an action is reached its target lies at its name; while it runs, and when it is told,
\* the original lies where the report will say, or says.
WhereOK ==
    /\ \A p \in Paths : (\A i \in 1..cur : plan[i].target # p) => Lies(dir, touched, p, None)
    /\ pc \in ActionSteps => Lies(dir, touched, act.target, whereabouts)
    /\ \A i \in DOMAIN results : Lies(dir, touched, plan[i].target, results[i].quarantine)

\* An original is moved only at the step that says so.
StageOK ==
    /\ pc \in ActionSteps \ {"publish", "removeTemp", "putBack", "settleTarget", "settleKeeper"}
         => moved = None /\ pub = "none"
    /\ pc \in ActionSteps /\ pub = "NotMoved" => moved = None
    /\ pc = "publish" => pub = "none"
    /\ pc = "removeTemp" => pub \in {"NotMoved", "Failed"}
    /\ pc = "settleTarget" /\ pub = "none" => FALSE
    /\ pc \in ActionSteps \ {"check"} => cur \notin obstacles

\* Whatever other names do, an original lies where it lay.
LEMMA OthersLeave ==
    ASSUME IInv, [Next]_vars, ~Worker, NEW p \in Paths, NEW q, Lies(dir, touched, p, q)
    PROVE  Lies(dir', touched', p, q)
<1>1. At(p, q) \in Locs /\ (q # None => q = At(p, q))
  BY NamesAreLocs DEF Lies, At, QuarsOf
<1>2. InodeOf[p] \in Inodes /\ InodeOf[p] # None
  BY ConstantsOK
<1>3. touched \subseteq touched'
  BY OthersTouch
<1>4. dir'[At(p, q)] # dir[At(p, q)] =>
         At(p, q) \in touched' /\ dir[At(p, q)] \in touched' \cup {None}
  BY <1>1, OthersTouch
<1>5. {Home(p), InodeOf[p]} \cap touched' = {} => dir'[At(p, q)] = InodeOf[p]
  <2> SUFFICES ASSUME {Home(p), InodeOf[p]} \cap touched' = {} PROVE dir'[At(p, q)] = InodeOf[p]
    OBVIOUS
  <2>1. dir[At(p, q)] = InodeOf[p]
    BY <1>3 DEF Lies
  <2> QED BY <1>2, <1>4, <2>1
<1>6. q # None /\ q \notin touched' => dir'[q] # None
  BY <1>1, <1>3, <1>4 DEF Lies
<1> QED BY <1>5, <1>6 DEF Lies

\* The batch takes only the running target's names, and touches nothing as somebody else.
LEMMA WorkerTouches ==
    ASSUME IInv, Worker
    PROVE  touched' = touched /\ plan' = plan
<1>1. pc \in Opening \cup ActionSteps \cup {"boundary"}
  BY StepKinds DEF Next
<1> QED BY <1>1, OpeningSteps, ActionReports, BoundarySteps

LEMMA OwnLeave ==
    ASSUME IInv, GateHolds, Worker, NEW p \in Paths, NEW q, Lies(dir, touched, p, q),
           p # act.target \/ dir' = dir
    PROVE  Lies(dir', touched', p, q)
<1>1. At(p, q) \in Locs /\ At(p, q)[2] = p /\ (q # None => q = At(p, q))
  BY NamesAreLocs, NamesApart DEF Lies, At, QuarsOf
<1>2. dir'[At(p, q)] = dir[At(p, q)]
  BY <1>1, OwnNames
<1>3. touched' = touched
  BY WorkerTouches
<1> QED BY <1>1, <1>2, <1>3 DEF Lies

\* The steps of one action.
LEMMA ActionKinds ==
    ASSUME Worker, pc \in ActionSteps
    PROVE  ApplyOne \/ StatTarget \/ HashTarget \/ StatKeeper \/ HashKeeper \/ ReadMeta \/ Build
             \/ BuildFails \/ QuarantineLook \/ QuarantineMove \/ QuarantineFails \/ Publish
             \/ PublishFails \/ RemoveTemp \/ PutBack \/ PutBackFails \/ SettleTarget \/ SettleKeeper
BY DEF Worker, ActionSteps, Steps, LeaseRefused, LeaseTaken, PreflightFirst, FindObstacles,
       CreateSnapshot, SnapshotFails, SnapshotsMade, PreflightSecond, Boundary

\* An outcome tells where the original is, and the step that tells it moves nothing.
Says ==
    /\ UNCHANGED <<treeVars, moved, pub>> /\ pc' = "boundary"
    /\ \E out \in Outcome : results' = Append(results, out) /\ out.quarantine = whereabouts

LEMMA Saying ==
    ASSUME IInv, NEW res \in {"Removed", "Refused", "RolledBack", "Stranded", "Unsettled"},
           NEW q, q = whereabouts, Report(res, q), UNCHANGED <<treeVars, moved, pub>>
    PROVE  Says
<1>1. q \in Locs \cup {None}
  BY DEF whereabouts, IInv, TypeOK
<1>2. [res |-> res, quarantine |-> q] \in Outcome
  BY <1>1 DEF Outcome
<1>3. [res |-> res, quarantine |-> q].quarantine = whereabouts
  OBVIOUS
<1> QED BY <1>2, <1>3 DEF Says, Report, Goto

\* Each step of an action keeps the stage it is in, and says where the original is or nothing.
LEMMA StageSteps ==
    ASSUME IInv, GateHolds, StageOK, Worker, pc \in ActionSteps
    PROVE  StageOK' /\ (results' = results \/ Says)
<1>1. UNCHANGED <<plan, cur, obstacles>>
  BY ActionReports
<1>2. FirstStep \in {"look", "build", "meta"}
  <2>1. act.kind \in Kinds
    BY ActionFiles DEF IInv, StepOK
  <2> QED BY <2>1 DEF FirstStep, Kinds
<1>3. ASSUME Says PROVE StageOK'
  BY <1>3 DEF Says, StageOK, ActionSteps
<1>4. pub = "none" /\ moved = None => whereabouts = None
  BY DEF whereabouts
<1>5. ASSUME Report("Refused", None), whereabouts = None, UNCHANGED <<treeVars, moved, pub>>
      PROVE  Says
  BY <1>5, Saying
<1> USE <1>1 DEF StageOK, ActionSteps, Steps, Goto
<1>6. CASE ApplyOne
  <2>1. UNCHANGED <<treeVars, moved, pub>> /\ whereabouts = None
    BY <1>4, <1>6 DEF ApplyOne
  <2>2. CASE Report("Refused", None)
    BY <1>3, <1>5, <2>1, <2>2
  <2>3. CASE ~Report("Refused", None)
    BY <1>6, <2>1, <2>3 DEF ApplyOne
  <2> QED BY <2>2, <2>3
<1>7. CASE StatTarget \/ HashTarget \/ StatKeeper \/ HashKeeper
  <2>1. UNCHANGED <<treeVars, moved, pub>> /\ whereabouts = None
    BY <1>4, <1>7 DEF StatTarget, HashTarget, StatKeeper, HashKeeper, Stat, Hash
  <2>2. Report("Refused", None) \/ (results' = results /\ pc' \in
            {"hashTarget", "statKeeper", "hashKeeper", "look", "build", "meta"})
    <3>1. CASE StatTarget \/ HashTarget
      BY <1>2, <3>1 DEF StatTarget, HashTarget, Stat, Hash
    <3>2. CASE StatKeeper \/ HashKeeper
      BY <1>2, <3>2 DEF StatKeeper, HashKeeper, Stat, Hash
    <3> QED BY <1>7, <3>1, <3>2
  <2>3. pub = "none" /\ moved = None /\ cur \notin obstacles
    BY <1>7 DEF StatTarget, HashTarget, StatKeeper, HashKeeper
  <2>4. CASE Report("Refused", None)
    BY <1>3, <1>5, <2>1, <2>4
  <2>5. CASE ~Report("Refused", None)
    BY <2>1, <2>2, <2>3, <2>5
  <2> QED BY <2>4, <2>5
<1>8. CASE ReadMeta \/ Build \/ BuildFails
  BY <1>8 DEF ReadMeta, Build, BuildFails
<1>9. CASE QuarantineLook \/ QuarantineFails
  <2>1. /\ UNCHANGED <<treeVars, moved>> /\ whereabouts = None
        /\ pub = "none" /\ moved = None /\ cur \notin obstacles
    BY <1>4, <1>9 DEF QuarantineLook, QuarantineFails
  <2>2. \/ Report("Refused", None) /\ pub' = pub
        \/ results' = results /\ pub' = "NotMoved" /\ pc' = "removeTemp"
        \/ results' = results /\ pub' = pub /\ pc' = "move"
    BY <1>9 DEF QuarantineLook, QuarantineFails, NotMoved
  <2>3. CASE Report("Refused", None) /\ pub' = pub
    BY <1>3, <1>5, <2>1, <2>3
  <2>4. CASE ~(Report("Refused", None) /\ pub' = pub)
    BY <2>1, <2>2, <2>4
  <2> QED BY <2>3, <2>4
<1>10. CASE QuarantineMove \/ Publish \/ PublishFails \/ PutBack \/ PutBackFails
  BY <1>10 DEF QuarantineMove, Publish, PublishFails, PutBack, PutBackFails
<1>11. CASE RemoveTemp
  BY <1>11 DEF RemoveTemp
<1>12. CASE SettleTarget
  <2>1. UNCHANGED <<treeVars, moved, pub>> /\ cur \notin obstacles
    BY <1>12 DEF SettleTarget
  <2>2. \/ pub = "Published" /\ (Unsettle \/ Report("Removed", moved))
        \/ results' = results /\ pc' = "settleKeeper"
    BY <1>12 DEF SettleTarget
  <2>3. CASE pub = "Published" /\ (Unsettle \/ Report("Removed", moved))
    <3>1. whereabouts = moved
      BY <2>3 DEF whereabouts
    <3>2. Says
      BY <2>1, <2>3, <3>1, Saying DEF Unsettle
    <3> QED BY <1>3, <3>2
  <2>4. CASE results' = results /\ pc' = "settleKeeper"
    BY <1>12, <2>1, <2>4 DEF SettleTarget
  <2> QED BY <2>2, <2>3, <2>4
<1>13. CASE SettleKeeper
  <2>1. UNCHANGED <<treeVars, moved, pub>>
    BY <1>13 DEF SettleKeeper
  <2>2. pub \in {"NotMoved", "RolledBack", "Stranded", "Published"}
    BY <1>13 DEF SettleKeeper, IInv, StepOK
  <2>3. CASE SettlePublished
    <3>1. whereabouts = moved
      BY <2>3 DEF whereabouts, SettlePublished
    <3>2. Unsettle \/ Report("Removed", moved)
      BY <2>3 DEF SettlePublished
    <3>3. Says
      BY <2>1, <3>1, <3>2, Saying DEF Unsettle
    <3> QED BY <1>3, <3>3
  <2>4. CASE SettleFailed
    <3>1. CASE pub = "NotMoved"
      <4>1. whereabouts = None /\ Report("Refused", None)
        BY <1>13, <2>4, <3>1 DEF whereabouts, SettleFailed, SettleKeeper
      <4> QED BY <1>3, <2>1, <4>1, Saying
    <3>2. CASE pub = "RolledBack"
      <4>1. whereabouts = None /\ Report("RolledBack", None)
        BY <2>4, <3>2 DEF whereabouts, SettleFailed
      <4> QED BY <1>3, <2>1, <4>1, Saying
    <3>3. CASE pub = "Stranded"
      <4>1. whereabouts = moved /\ Report("Stranded", moved)
        BY <2>4, <3>3 DEF whereabouts, SettleFailed
      <4> QED BY <1>3, <2>1, <4>1, Saying
    <3> QED BY <2>2, <2>4, <3>1, <3>2, <3>3 DEF SettleFailed
  <2> QED BY <1>13, <2>3, <2>4 DEF SettleKeeper
<1> QED BY <1>6, <1>7, <1>8, <1>9, <1>10, <1>11, <1>12, <1>13, ActionKinds

LEMMA StageNext == ASSUME IInv, GateHolds, StageOK, [Next]_vars PROVE StageOK'
<1>1. CASE UNCHANGED batchVars
  BY <1>1 DEF batchVars, StageOK
<1>2. CASE Worker /\ pc \in Opening
  <2>1. pc' \notin ActionSteps
    BY <1>2, OpeningSteps DEF Opening, ActionSteps, Steps
  <2> QED BY <2>1 DEF StageOK, ActionSteps, Steps
<1>3. CASE Worker /\ pc \in ActionSteps
  BY <1>3, StageSteps
<1>4. CASE Worker /\ pc = "boundary"
  BY <1>4, BoundarySteps DEF StageOK, ActionSteps, Steps
<1> QED BY <1>1, <1>2, <1>3, <1>4, StepKinds

\* The running action's original goes where the step that moves it says.
LEMMA RunningSteps ==
    ASSUME IInv, GateHolds, StageOK, Worker, pc \in ActionSteps,
           Lies(dir, touched, act.target, whereabouts)
    PROVE  Lies(dir', touched', act.target, whereabouts')
<1>0. TypeOK /\ cur \in DOMAIN plan /\ touched' = touched
  BY WorkerTouches DEF IInv, StepOK
<1>1. /\ act.target \in Paths /\ target \in Locs /\ keeper \in Locs /\ temp \in Locs
      /\ \A n \in 0..MaxSuffix : Quar(act.target, n) \in Locs
      /\ InodeOf[act.target] \in Inodes /\ InodeOf[act.target] # None
  BY <1>0, ActionType, ActionFiles, ConstantsOK
<1>2. temp # target /\ temp \notin QuarsOf(act.target) /\ target \notin QuarsOf(act.target)
  BY NamesApart DEF temp, target, QuarsOf
<1>3. None \notin QuarsOf(act.target)
  BY <1>1, ConstantsOK DEF QuarsOf
<1>4. /\ target = Home(act.target)
      /\ dir \in [Locs -> Inodes \cup {None}]
      /\ \A q \in QuarsOf(act.target) : q \in Locs
  BY <1>0, <1>1 DEF TypeOK, target, QuarsOf
<1>5. At(act.target, whereabouts) \in Locs \ {temp}
  BY <1>1, <1>2, <1>4 DEF Lies, At
<1>6. ASSUME whereabouts' = whereabouts,
             dir'[At(act.target, whereabouts)] = dir[At(act.target, whereabouts)]
      PROVE  Lies(dir', touched', act.target, whereabouts')
  <2>1. whereabouts # None => whereabouts = At(act.target, whereabouts)
    BY DEF At
  <2> QED BY <1>0, <1>6, <2>1 DEF Lies
<1> USE DEF ActionSteps, Steps
<1>7. CASE QuarantineMove
  <2>1. PICK n \in 0..MaxSuffix :
          /\ RenameOK(target, Quar(act.target, n)) /\ Rename(target, Quar(act.target, n))
          /\ moved' = Quar(act.target, n)
    BY <1>7 DEF QuarantineMove
  <2>2. Quar(act.target, n) \in QuarsOf(act.target)
    BY DEF QuarsOf
  <2>3. pub' # "RolledBack" /\ whereabouts = None
    BY <1>7 DEF QuarantineMove, StageOK, whereabouts
  <2>4. whereabouts' = moved' /\ moved' \in QuarsOf(act.target) /\ moved' # None
    BY <1>3, <2>1, <2>2, <2>3 DEF whereabouts
  <2>5. dir'[moved'] = dir[target] /\ dir[target] # None
    BY <1>1, <1>2, <1>4, <2>1, <2>2 DEF Rename, RenameOK
  <2>6. {Home(act.target), InodeOf[act.target]} \cap touched = {} => dir[target] = InodeOf[act.target]
    BY <1>4, <2>3 DEF Lies, At
  <2>7. At(act.target, moved') = moved'
    BY <2>4 DEF At
  <2> QED BY <1>0, <2>4, <2>5, <2>6, <2>7 DEF Lies
<1>8. CASE PutBack
  <2>1. RenameOK(moved, target) /\ Rename(moved, target) /\ pub' = "RolledBack"
    BY <1>8 DEF PutBack
  <2>2. whereabouts' = None
    BY <2>1 DEF whereabouts
  <2>3. whereabouts = moved /\ moved \in QuarsOf(act.target)
    BY <1>8 DEF PutBack, GateHolds, whereabouts, QuarsOf, act
  <2>4. dir'[target] = dir[moved]
    BY <1>1, <1>2, <1>4, <2>1, <2>3 DEF Rename, RenameOK
  <2>5. At(act.target, whereabouts) = moved
    BY <1>3, <2>3 DEF At
  <2>6. At(act.target, None) = target
    BY <1>4 DEF At
  <2> QED BY <1>0, <2>2, <2>4, <2>5, <2>6 DEF Lies
<1>9. CASE Publish
  <2>1. RenameOK(temp, target) /\ Rename(temp, target) /\ pub' = "Published" /\ moved' = moved
    BY <1>9 DEF Publish
  <2>2. pub = "none" /\ moved \in QuarsOf(act.target)
    BY <1>9 DEF Publish, GateHolds, StageOK, QuarsOf, act
  <2>3. whereabouts' = whereabouts /\ whereabouts = moved
    BY <2>1, <2>2 DEF whereabouts
  <2>4. At(act.target, whereabouts) = moved /\ moved # target /\ moved # temp
    BY <1>2, <1>3, <2>2, <2>3 DEF At
  <2>5. dir'[moved] = dir[moved]
    BY <1>1, <1>4, <2>1, <2>2, <2>4 DEF Rename
  <2> QED BY <1>6, <2>3, <2>4, <2>5
<1>10. CASE Build \/ RemoveTemp
  <2>1. UNCHANGED <<pub, moved>>
    BY <1>10 DEF Build, RemoveTemp
  <2>2. \A l \in Locs \ {temp} : dir'[l] = dir[l]
    BY <1>4, <1>10 DEF Build, BuildLink, BuildClone, RemoveTemp, treeVars
  <2> QED BY <1>5, <1>6, <2>1, <2>2 DEF whereabouts
<1>11. CASE ~(QuarantineMove \/ PutBack \/ Publish \/ Build \/ RemoveTemp)
  <2>1. dir' = dir
    BY <1>11, TreeSteps DEF treeVars
  <2>2. moved' = moved
    BY <1>11, ActionKinds DEF ApplyOne, StatTarget, HashTarget, StatKeeper, HashKeeper, Stat, Hash,
       ReadMeta, BuildFails, QuarantineLook, QuarantineFails, PublishFails, PutBackFails,
       SettleTarget, SettleKeeper
  <2>3. pub' = "RolledBack" <=> pub = "RolledBack"
    <3>1. CASE ReadMeta \/ BuildFails \/ QuarantineLook \/ QuarantineFails \/ PublishFails
      <4>1. pub = "none"
        BY <3>1 DEF StageOK, ReadMeta, BuildFails, QuarantineLook, QuarantineFails, PublishFails
      <4>2. pub' \in {pub, "NotMoved", "Failed"}
        BY <3>1 DEF ReadMeta, BuildFails, QuarantineLook, QuarantineFails, NotMoved, PublishFails
      <4> QED BY <4>1, <4>2
    <3>2. CASE PutBackFails
      <4>1. pub = "Failed" /\ pub' = "Stranded"
        BY <3>2 DEF PutBackFails, GateHolds
      <4> QED BY <4>1
    <3>3. CASE ~(ReadMeta \/ BuildFails \/ QuarantineLook \/ QuarantineFails \/ PublishFails \/ PutBackFails)
      BY <1>11, <3>3, ActionKinds DEF ApplyOne, StatTarget, HashTarget, StatKeeper, HashKeeper,
         Stat, Hash, SettleTarget, SettleKeeper
    <3> QED BY <3>1, <3>2, <3>3
  <2> QED BY <1>6, <2>1, <2>2, <2>3 DEF whereabouts
<1> QED BY <1>7, <1>8, <1>9, <1>10, <1>11

LEMMA WhereInit == Init => WhereOK /\ StageOK
<1> SUFFICES ASSUME Init PROVE WhereOK /\ StageOK
  OBVIOUS
<1>1. \A p \in Paths : dir[Home(p)] = InodeOf[p]
  <2> SUFFICES ASSUME NEW p \in Paths PROVE dir[Home(p)] = InodeOf[p]
    OBVIOUS
  <2>1. Home(p) \in Locs /\ Home(p) \in Homes /\ Home(p)[2] = p
    BY NamesAreLocs, NamesApart DEF Homes
  <2> QED BY <2>1 DEF Init
<1>2. pc \notin ActionSteps /\ DOMAIN results = {}
  BY DEF Init, ActionSteps, Steps
<1> QED BY <1>1, <1>2 DEF WhereOK, StageOK, Lies, At, Init

\* Two actions of a plan have different targets, all of them pathnames of its witness.
LEMMA TargetsApart ==
    ASSUME IInv, NEW i \in DOMAIN plan
    PROVE  /\ plan[i].target \in Paths
           /\ \A j \in DOMAIN plan : plan[j].target = plan[i].target => i = j
<1>1. plan \in Seq(Action) /\ Executable(plan, GroupOf, InodeOf, DatasetOf)
  BY PlansOK DEF IInv, TypeOK
<1>2. plan[i] \in Action
  BY <1>1
<1>3. plan[i].target \in Paths
  BY <1>2 DEF Action
<1>4. \A j \in DOMAIN plan : plan[j].target = plan[i].target => i = j
  BY <1>1 DEF Executable
<1> QED BY <1>3, <1>4

LEMMA WhereNext ==
    ASSUME IInv, GateHolds, Progress, StageOK, WhereOK, [Next]_vars
    PROVE  WhereOK'
<1>0. /\ plan \in Seq(Action) /\ results \in Seq(Outcome) /\ cur \in 0..Len(plan)
      /\ \A i \in DOMAIN plan : plan[i].target \in Paths
  BY PlansOK, TargetsApart DEF IInv, TypeOK
<1>a. Len(results) <= cur /\ Len(results) \in Nat /\ DOMAIN results \subseteq DOMAIN plan
  <2>1. pc \in Opening \cup ActionSteps \cup {"boundary", "done"}
    BY DEF IInv, TypeOK, Opening, ActionSteps, Steps
  <2>2. Len(results) <= cur
    BY <1>0, <2>1 DEF Progress
  <2> QED BY <1>0, <2>2
<1>1. CASE UNCHANGED batchVars /\ ~Worker
  <2>1. \A p \in Paths : \A q : Lies(dir, touched, p, q) => Lies(dir', touched', p, q)
    BY <1>1, OthersLeave
  <2>2. UNCHANGED <<pc, plan, cur, results, moved, pub>> /\ act' = act /\ whereabouts' = whereabouts
    BY <1>1 DEF batchVars, act, whereabouts
  <2>3. pc \in ActionSteps => act.target \in Paths
    BY ActionFiles DEF IInv, StepOK
  <2>4. pc \in ActionSteps => Lies(dir', touched', act.target, whereabouts)
    BY <2>1, <2>3 DEF WhereOK
  <2>5. \A i \in DOMAIN results : Lies(dir', touched', plan[i].target, results[i].quarantine)
    BY <1>0, <1>a, <2>1 DEF WhereOK
  <2>6. \A p \in Paths : (\A i \in 1..cur : plan[i].target # p) => Lies(dir', touched', p, None)
    BY <2>1 DEF WhereOK
  <2> QED BY <2>2, <2>4, <2>5, <2>6 DEF WhereOK
<1>2. CASE Worker /\ pc \in Opening
  <2>1. UNCHANGED <<dir, touched, plan, cur, results>> /\ pc' \notin ActionSteps
    BY <1>2, OpeningSteps DEF Opening, ActionSteps, Steps, treeVars
  <2> QED BY <2>1 DEF WhereOK
<1>3. CASE Worker /\ pc \in ActionSteps
  <2>0. cur \in DOMAIN plan /\ act = plan[cur] /\ cur = Len(results) + 1
    BY <1>3 DEF IInv, StepOK, act, Progress
  <2>1. UNCHANGED <<plan, cur>> /\ act' = act
    BY <1>3, ActionReports DEF act
  <2>2. \A p \in Paths : \A q : p # act.target /\ Lies(dir, touched, p, q) => Lies(dir', touched', p, q)
    BY <1>3, OwnLeave
  <2>3. Lies(dir', touched', act.target, whereabouts')
    BY <1>3, RunningSteps DEF WhereOK
  <2>4. ASSUME NEW p \in Paths, \A i \in 1..cur : plan[i].target # p
        PROVE  Lies(dir', touched', p, None)
    <3>1. p # act.target
      BY <1>0, <2>0, <2>4
    <3> QED BY <2>2, <2>4, <3>1 DEF WhereOK
  <2>5. ASSUME NEW i \in DOMAIN results
        PROVE  Lies(dir', touched', plan[i].target, results[i].quarantine)
    <3>1. i \in DOMAIN plan /\ i # cur
      BY <1>0, <1>a, <2>0
    <3>2. plan[i].target \in Paths /\ plan[i].target # act.target
      BY <2>0, <3>1, TargetsApart
    <3> QED BY <2>2, <2>5, <3>2 DEF WhereOK
  <2>6. ASSUME NEW i \in DOMAIN results'
        PROVE  Lies(dir', touched', plan[i].target, results'[i].quarantine)
    <3>1. CASE results' = results
      BY <2>5, <3>1
    <3>2. CASE Says
      <4>1. PICK out \in Outcome : results' = Append(results, out) /\ out.quarantine = whereabouts
        BY <3>2 DEF Says
      <4>2. whereabouts' = whereabouts
        BY <3>2 DEF Says, whereabouts
      <4>3. CASE i \in DOMAIN results
        BY <1>0, <2>5, <4>1, <4>3
      <4>4. CASE i \notin DOMAIN results
        <5>1. i = cur /\ results'[i] = out
          BY <1>0, <2>0, <4>1, <4>4
        <5> QED BY <2>0, <2>3, <4>1, <4>2, <5>1
      <4> QED BY <4>3, <4>4
    <3> QED BY <1>3, <3>1, <3>2, StageSteps
  <2> QED BY <2>1, <2>3, <2>4, <2>6 DEF WhereOK
<1>4. CASE Worker /\ pc = "boundary"
  <2>1. UNCHANGED <<dir, touched, plan, results>>
    BY <1>4, BoundarySteps DEF treeVars
  <2>2. CASE pc' = "done" /\ cur' = cur
    <3>1. pc' \notin ActionSteps
      BY <2>2 DEF ActionSteps
    <3> QED BY <2>1, <2>2, <3>1 DEF WhereOK
  <2>3. CASE /\ pc' = "check" /\ cur' = cur + 1 /\ cur' \in DOMAIN plan
             /\ moved' = None /\ pub' = "none"
    <3>1. act' = plan[cur + 1] /\ whereabouts' = None /\ cur + 1 \in DOMAIN plan
      BY <2>1, <2>3 DEF act, whereabouts
    <3>2. \A i \in 1..cur : i \in DOMAIN plan /\ i # cur + 1
      BY <1>0
    <3>3. \A i \in 1..cur : plan[i].target # plan[cur + 1].target
      BY <3>1, <3>2, TargetsApart
    <3>4. Lies(dir, touched, plan[cur + 1].target, None)
      BY <1>0, <3>1, <3>3 DEF WhereOK
    <3>5. \A p \in Paths : (\A i \in 1..(cur + 1) : plan[i].target # p) => Lies(dir, touched, p, None)
      BY <1>0 DEF WhereOK
    <3> QED BY <2>1, <2>3, <3>1, <3>4, <3>5 DEF WhereOK
  <2> QED BY <1>4, <2>2, <2>3, BoundarySteps
<1> QED BY <1>1, <1>2, <1>3, <1>4, StepKinds

-----------------------------------------------------------------------------
\* A group is spent once the batch has gone on with an action on it.
Spent(g) == \E i \in 1..cur : i \notin obstacles /\ GroupOf[plan[i].target] = g

\* Whoever else leaves a scanned allocation alone leaves it a name, and names made from its own
\* group's pathnames; and the batch leaves alone those of a group it has not come to.
KeptOK ==
    \A o \in Objects \ touched :
        /\ Held(o)
        /\ \A l \in Locs, p \in Members(o) : dir[l] = o => GroupOf[p] = GroupOf[l[2]]
        /\ \A p \in Members(o) : ~Spent(GroupOf[p]) => node[o].ctime = 0

LEMMA KeptInit == Init => KeptOK
<1> SUFFICES ASSUME Init, NEW o \in Objects
             PROVE  /\ Held(o) /\ node[o].ctime = 0
                    /\ \A l \in Locs, p \in Members(o) : dir[l] = o => GroupOf[p] = GroupOf[l[2]]
  BY DEF KeptOK
<1>1. o \in Inodes /\ o # None
  BY ConstantsOK DEF Objects
<1>2. AsScanned(o) /\ node[o].ctime = 0
  BY <1>1, IntactInit DEF Init, Intact
<1>3. PICK q \in Paths : InodeOf[q] = o
  BY DEF Objects
<1>4. Home(q) \in Homes /\ Home(q) \in Locs /\ q \in Members(o)
  BY <1>3, NamesAreLocs DEF Homes, Members
<1>5. Held(o)
  BY <1>2, <1>4 DEF Held, AsScanned
<1>6. ASSUME NEW l \in Locs, NEW p \in Members(o), dir[l] = o PROVE GroupOf[p] = GroupOf[l[2]]
  <2>1. PICK r \in Members(o) : l = Home(r)
    BY <1>2, <1>6 DEF AsScanned
  <2>2. l[2] = r
    BY <2>1, NamesApart
  <2> QED BY <1>6, <2>1, <2>2, ObjectsOK DEF Members
<1> QED BY <1>2, <1>5, <1>6

\* A step of the batch gives a name the file of another name of the same group, or of no name,
\* and changes only the running group's files and those without a name.
LEMMA OwnFiles ==
    ASSUME IInv, GateHolds, Worker
    PROVE  /\ \A l \in Locs : dir'[l] # dir[l] =>
                \/ dir'[l] \notin Inodes
                \/ ~Linked(dir'[l])
                \/ \E k \in Locs : dir[k] = dir'[l] /\ GroupOf[k[2]] = GroupOf[l[2]]
           /\ \A i \in Inodes : node'[i] # node[i] =>
                /\ pc \in ActionSteps \ {"check"}
                /\ \/ ~Linked(i)
                   \/ \E k \in Locs : dir[k] = i /\ GroupOf[k[2]] = GroupOf[act.target]
<1>1. CASE UNCHANGED treeVars
  BY <1>1 DEF treeVars
<1>2. CASE Build \/ QuarantineMove \/ Publish \/ RemoveTemp \/ PutBack
  <2>0. /\ TypeOK /\ cur \in DOMAIN plan /\ act \in Action
        /\ target \in Locs /\ keeper \in Locs /\ temp \in Locs
        /\ \A n \in 0..MaxSuffix : Quar(act.target, n) \in Locs
        /\ dir \in [Locs -> Inodes \cup {None}]
    BY <1>2, TreeStepType DEF TypeOK
  <2>1. GroupOf[act.keeper] = GroupOf[act.target]
    BY <2>0, ActionFiles
  <2>2. /\ target[2] = act.target /\ keeper[2] = act.keeper /\ temp[2] = act.target
        /\ \A n : Quar(act.target, n)[2] = act.target
    BY NamesApart DEF target, keeper, temp
  <2>3. pc \in ActionSteps \ {"check"}
    BY <1>2 DEF Build, QuarantineMove, Publish, RemoveTemp, PutBack, ActionSteps, Steps
  <2>4. None \notin Inodes
    BY ConstantsOK
  <2>5. ASSUME NEW from \in Locs, NEW to \in Locs, RenameOK(from, to), Rename(from, to),
               from[2] = act.target, to[2] = act.target
        PROVE  /\ \A l \in Locs : dir'[l] # dir[l] =>
                    \/ dir'[l] \notin Inodes
                    \/ \E k \in Locs : dir[k] = dir'[l] /\ GroupOf[k[2]] = GroupOf[l[2]]
               /\ \A i \in Inodes : node'[i] # node[i] =>
                    \E k \in Locs : dir[k] = i /\ GroupOf[k[2]] = GroupOf[act.target]
    <3>1. dir[from] \in Inodes
      BY <2>0, <2>5 DEF RenameOK
    <3>2. \A l \in Locs : dir'[l] = IF l = from THEN None ELSE IF l = to THEN dir[from] ELSE dir[l]
      BY <2>0, <2>5 DEF Rename
    <3>3. \A i \in Inodes : i # dir[from] => node'[i] = node[i]
      BY <2>0, <2>5, <3>1, BumpAges DEF Rename
    <3> QED BY <2>4, <2>5, <3>2, <3>3
  <2>6. CASE QuarantineMove
    <3>1. PICK n \in 0..MaxSuffix :
            RenameOK(target, Quar(act.target, n)) /\ Rename(target, Quar(act.target, n))
      BY <2>6 DEF QuarantineMove
    <3>2. Quar(act.target, n) \in Locs /\ Quar(act.target, n)[2] = act.target
      BY <2>0, <2>2
    <3> QED BY <2>0, <2>2, <2>3, <2>5, <3>1, <3>2
  <2>7. CASE Publish
    BY <2>0, <2>2, <2>3, <2>5, <2>7 DEF Publish
  <2>8. CASE PutBack
    <3>1. moved \in Locs /\ moved[2] = act.target
      BY <2>0, <2>2, <2>8 DEF PutBack, GateHolds, act
    <3> QED BY <2>0, <2>2, <2>3, <2>5, <2>8, <3>1 DEF PutBack
  <2>9. CASE RemoveTemp
    <3>1. \A l \in Locs : dir'[l] # dir[l] => dir'[l] = None
      BY <2>0, <2>9 DEF RemoveTemp, treeVars
    <3>2. \A i \in Inodes : node'[i] # node[i] => i = dir[temp]
      <4> SUFFICES ASSUME NEW i \in Inodes, node'[i] # node[i] PROVE i = dir[temp]
        OBVIOUS
      <4>1. dir[temp] # None /\ node' = Bump(dir[temp])
        BY <2>9 DEF RemoveTemp, treeVars
      <4>2. dir[temp] \in Inodes
        BY <2>0, <4>1
      <4> QED BY <2>0, <4>1, <4>2, BumpAges
    <3> QED BY <2>0, <2>2, <2>3, <2>4, <3>1, <3>2
  <2>10. CASE Build /\ BuildLink
    <3>1. dir[keeper] \in Inodes
      BY <2>0, <2>10 DEF BuildLink
    <3>2. \A l \in Locs : dir'[l] # dir[l] => l = temp /\ dir'[l] = dir[keeper]
      BY <2>0, <2>10 DEF BuildLink
    <3>3. \A i \in Inodes : node'[i] # node[i] => i = dir[keeper]
      BY <2>0, <2>10, <3>1, BumpAges DEF BuildLink
    <3> QED BY <2>0, <2>1, <2>2, <2>3, <3>2, <3>3
  <2>11. CASE Build /\ BuildClone
    <3>1. PICK j \in Inodes :
            /\ ~Linked(j)
            /\ dir' = [dir EXCEPT ![temp] = j]
            /\ node' = [node EXCEPT ![j] = [data |-> node[dir[keeper]].data, mtime |-> seen.mtime,
                                            ctime |-> @.ctime + 1, outside |-> 0]]
      BY <2>11 DEF BuildClone
    <3>2. \A l \in Locs : dir'[l] # dir[l] => dir'[l] = j
      BY <2>0, <3>1
    <3>3. \A i \in Inodes : node'[i] # node[i] => i = j
      BY <2>0, <3>1 DEF TypeOK
    <3> QED BY <2>3, <3>1, <3>2, <3>3
  <2> QED BY <1>2, <2>6, <2>7, <2>8, <2>9, <2>10, <2>11 DEF Build
<1> QED BY <1>1, <1>2, TreeSteps

\* The batch goes on: what is spent stays spent.
LEMMA SpentStays ==
    ASSUME IInv, [Next]_vars, NEW g, Spent(g), pc \notin Opening
    PROVE  Spent(g)'
<1>0. cur \in Nat
  BY DEF IInv, TypeOK
<1>1. plan' = plan /\ obstacles' = obstacles /\ cur' \in {cur, cur + 1}
  <2>1. CASE UNCHANGED batchVars
    BY <2>1 DEF batchVars
  <2>2. CASE Worker /\ pc \in ActionSteps
    BY <2>2, ActionReports
  <2>3. CASE Worker /\ pc = "boundary"
    BY <2>3, BoundarySteps
  <2> QED BY <2>1, <2>2, <2>3, StepKinds
<1>2. PICK i \in 1..cur : i \notin obstacles /\ GroupOf[plan[i].target] = g
  BY DEF Spent
<1>3. i \in 1..cur'
  BY <1>0, <1>1
<1> QED BY <1>1, <1>2, <1>3 DEF Spent

LEMMA KeptNext ==
    ASSUME IInv, GateHolds, Progress, StageOK, KeptOK, [Next]_vars
    PROVE  KeptOK'
<1>0. cur \in Nat /\ dir \in [Locs -> Inodes \cup {None}]
  BY DEF IInv, TypeOK
<1> SUFFICES ASSUME NEW o \in Objects, o \notin touched'
             PROVE  /\ Held(o)'
                    /\ \A l \in Locs, p \in Members(o) : dir'[l] = o => GroupOf[p] = GroupOf[l[2]]
                    /\ \A p \in Members(o) : ~Spent(GroupOf[p])' => node'[o].ctime = 0
  BY DEF KeptOK
<1>1. o \in Inodes /\ o # None
  BY ConstantsOK DEF Objects
<1>2. CASE ~Worker
  <2>1. o \notin touched /\ \A l \in Locs : dir'[l] = o <=> dir[l] = o
    BY <1>1, <1>2, OthersTouch
  <2>2. node'[o] = node[o]
    BY <1>1, <1>2, OthersTouch
  <2>3. UNCHANGED <<plan, cur, obstacles>>
    BY <1>2, StepKinds DEF batchVars
  <2>4. Homes \cup Quars \subseteq Locs
    BY DEF Locs
  <2>5. Held(o)'
    BY <2>1, <2>2, <2>4 DEF KeptOK, Held
  <2> QED BY <2>1, <2>2, <2>3, <2>5 DEF KeptOK, Spent
<1>3. CASE Worker
  <2>1. o \notin touched
    BY <1>3, WorkerTouches
  <2>2. Held(o) /\ Linked(o)
    <3>1. Held(o)
      BY <2>1 DEF KeptOK
    <3> QED BY <3>1 DEF Held, Linked, Locs
  <2>3. Held(o)'
    BY <1>1, <1>3, <2>2, WorkerKeeps DEF Kept
  <2>4. ASSUME NEW l \in Locs, NEW p \in Members(o), dir'[l] = o PROVE GroupOf[p] = GroupOf[l[2]]
    <3>1. CASE dir[l] = o
      BY <2>1, <2>4, <3>1 DEF KeptOK
    <3>2. CASE dir[l] # o
      <4>1. PICK k \in Locs : dir[k] = o /\ GroupOf[k[2]] = GroupOf[l[2]]
        BY <1>1, <1>3, <2>2, <2>4, <3>2, OwnFiles
      <4> QED BY <2>1, <2>4, <4>1 DEF KeptOK
    <3> QED BY <3>1, <3>2
  <2>5. ASSUME NEW p \in Members(o), ~Spent(GroupOf[p])' PROVE node'[o].ctime = 0
    <3>1. CASE node'[o] = node[o]
      <4>1. ~Spent(GroupOf[p])
        <5>1. CASE pc \in Opening
          BY <1>0, <5>1 DEF Progress, Spent
        <5>2. CASE pc \notin Opening
          BY <2>5, <5>2, SpentStays
        <5> QED BY <5>1, <5>2
      <4> QED BY <2>1, <2>5, <3>1, <4>1 DEF KeptOK
    <3>2. CASE node'[o] # node[o]
      <4>1. PICK k \in Locs : dir[k] = o /\ GroupOf[k[2]] = GroupOf[act.target]
        BY <1>1, <1>3, <2>2, <3>2, OwnFiles
      <4>2. pc \in ActionSteps \ {"check"}
        BY <1>1, <1>3, <3>2, OwnFiles
      <4>3. GroupOf[p] = GroupOf[act.target]
        BY <2>1, <2>5, <4>1 DEF KeptOK
      <4>4. cur \notin obstacles /\ cur \in 1..cur
        <5>1. cur \in DOMAIN plan /\ plan \in Seq(Action)
          BY <4>2, PlansOK DEF IInv, StepOK, TypeOK
        <5> QED BY <4>2, <5>1 DEF StageOK
      <4>5. Spent(GroupOf[p])
        BY <4>3, <4>4 DEF Spent, act
      <4>6. pc \notin Opening
        BY <4>2 DEF ActionSteps, Opening
      <4> QED BY <2>5, <4>5, <4>6, SpentStays
    <3> QED BY <3>1, <3>2
  <2> QED BY <2>3, <2>4, <2>5
<1> QED BY <1>2, <1>3

\* An allocation as the scan recorded it has the links the scan recorded.
LEMMA ScannedLinks ==
    ASSUME NEW o \in Objects, AsScanned(o)
    PROVE  Nlink(o) = Links(o)
<1> DEFINE M == Members(o)
           H == {Home(p) : p \in M}
           f == [p \in M |-> Home(p)]
<1>1. IsFiniteSet(M)
  BY ConstantsOK, FS_Subset DEF Members
<1>2. f \in Bijection(M, H)
  <2>1. f \in [M -> H] /\ (\A a, b \in M : f[a] = f[b] => a = b) /\ (\A h \in H : \E a \in M : f[a] = h)
    BY NamesApart
  <2> HIDE DEF M, H, f
  <2> QED BY <2>1 DEF Bijection, Injection, Surjection, IsInjective
<1>3. ExistsBijection(M, H)
  <2> HIDE DEF M, H, f
  <2> QED BY <1>2 DEF ExistsBijection
<1>4. Cardinality(H) = Cardinality(M)
  <2> HIDE DEF M, H, f
  <2> QED BY <1>1, <1>3, FS_Bijection
<1>5. {l \in Locs : dir[l] = o} = H
  BY NamesAreLocs DEF AsScanned, Members
<1>6. node[o].outside = Outside[o]
  BY DEF AsScanned
<1> QED BY <1>4, <1>5, <1>6 DEF Nlink, Links

ReportInv == TrustInv /\ StoppedOK /\ StageOK /\ WhereOK /\ KeptOK

LEMMA ReportNext == ASSUME ReportInv, [Next]_vars PROVE ReportInv'
BY TrustNext, StoppedNext, StageNext, WhereNext, KeptNext DEF ReportInv, TrustInv

\* What the batch says when it ends is what lies on the disk, for every plan and any number of
\* outside acts and failed calls: the original of every action lies at the quarantine path its
\* outcome names, or at its own pathname (finish_publication, after_move); a mark the batch keeps
\* is one whose file still has all eight fields of the scan's identity (settle_marks); and a run
\* that stops before its first action has changed no name and says whether it left snapshots.
THEOREM ReportTellsTrue == Spec => []ReportIsTrue
<1>1. Init => ReportInv
  BY TrustInit, StoppedInit, WhereInit, KeptInit DEF ReportInv
<1>2. ReportInv => WhereaboutsReported
  <2> SUFFICES ASSUME ReportInv, NEW i \in DOMAIN results
               PROVE  LET p == plan[i].target
                          at == At(p, results[i].quarantine)
                      IN  /\ {Home(p), InodeOf[p], at} \cap touched = {} => dir[at] = InodeOf[p]
                          /\ results[i].quarantine # None /\ at \notin touched => dir[at] # None
    BY DEF WhereaboutsReported, At
  <2>1. Lies(dir, touched, plan[i].target, results[i].quarantine)
    BY DEF ReportInv, WhereOK
  <2> QED BY <2>1 DEF Lies, At
<1>3. ReportInv => KeptMarksStillMatch
  <2> SUFFICES ASSUME ReportInv, pc = "done", NEW p \in Paths, GroupOf[p] \notin SpentGroups,
                      {Home(p), InodeOf[p]} \cap touched = {}
               PROVE  /\ dir[Home(p)] = InodeOf[p]
                      /\ Identity(Home(p)) = [ino |-> InodeOf[p], mtime |-> 0, ctime |-> 0,
                                              nlink |-> Links(InodeOf[p])]
    BY DEF KeptMarksStillMatch
  <2>1. InodeOf[p] \in Objects \ touched /\ p \in Members(InodeOf[p])
    BY DEF Objects, Members
  <2>2. ~Spent(GroupOf[p])
    <3>1. results \in Seq(Outcome) /\ cur \in Nat
      BY DEF ReportInv, TrustInv, IInv, TypeOK
    <3>2. CASE ending = "Finished"
      <4>1. cur = Len(results)
        BY <3>2 DEF ReportInv, TrustInv, Progress
      <4>2. Ran = (1..cur) \ obstacles
        BY <3>1, <3>2, <4>1 DEF Ran
      <4> QED BY <4>2 DEF SpentGroups, Spent
    <3>3. CASE ending # "Finished"
      <4>1. cur = 0
        BY <3>3 DEF ReportInv, TrustInv, Progress
      <4> QED BY <4>1 DEF Spent
    <3> QED BY <3>2, <3>3
  <2>3. node[InodeOf[p]].ctime = 0
    BY <2>1, <2>2 DEF ReportInv, KeptOK
  <2>4. AsScanned(InodeOf[p])
    BY <2>1, <2>3 DEF ReportInv, TrustInv, Intact
  <2>5. dir[Home(p)] = InodeOf[p] /\ node[InodeOf[p]].mtime = 0
    BY <2>1, <2>4, NamesAreLocs DEF AsScanned
  <2>6. Nlink(InodeOf[p]) = Links(InodeOf[p])
    BY <2>1, <2>4, ScannedLinks
  <2> QED BY <2>3, <2>5, <2>6 DEF Identity
<1>4. ReportInv => StoppedRunsChangeNothing
  BY StoppedTells DEF ReportInv, TrustInv
<1>5. ReportInv /\ [Next]_vars => ReportInv'
  BY ReportNext
<1> QED BY <1>1, <1>2, <1>3, <1>4, <1>5, PTL DEF Spec, ReportIsTrue

(***************************************************************************)
(* The ledger: an identity it adopts is one the batch knows the bytes and  *)
(* the links of.                                                           *)
(***************************************************************************)
\* Where nobody puts an mtime back, a file with the scan's mtime has what its name says.
Plain(l) == dir[l] # None /\ node[dir[l]].mtime = 0 => node[dir[l]].data = GroupOf[l[2]]

\* The targets of reflinks, and those of them that may already hold a clone.
CloneTargets == {plan[i].target : i \in {j \in DOMAIN plan : plan[j].kind = "Reflink"}}
Replaced(p) ==
    \E i \in 1..cur : plan[i].target = p /\ (i # cur \/ pc \notin ActionSteps \/ pub = "Published")

\* A name that only scanned files and links of them can have, but for outside acts.
NoClone(l) ==
    \/ l \in Quars
    \/ l[2] \notin CloneTargets
    \/ l \in Homes /\ ~Replaced(l[2])

PlainOK == ~Rewinds => \A l \in Locs : NoClone(l) => Plain(l)

\* The contents of an allocation of the plan.
Right(o) == \A p \in Members(o) : node[o].data = GroupOf[p]

KeeperObjects == {InodeOf[plan[i].keeper] : i \in DOMAIN plan}

\* What the ledger holds of an allocation, once the actions have begun.
Tells(v, o) ==
    /\ v \in Ids /\ v.ino = o /\ v.mtime = 0 /\ v.ctime <= node[o].ctime
    /\ node[o].ctime = v.ctime => Nlink(o) = v.nlink /\ (~Rewinds => Right(o))
    /\ o \notin KeeperObjects => v.nlink = Links(o)

LedgerOK == Acting => \A o \in Objects : Tells(ledger[o].id, o)

\* A clone that was built from the keeper the ledger knows has the scanned contents, unless
\* somebody has changed it or the keeper since.
Cloned(l) ==
    /\ dir[l] # None /\ node[dir[l]].mtime = 0 /\ dir[keeper] = keeperObject
    /\ node[keeperObject].ctime = ledger[keeperObject].id.ctime
    => node[dir[l]].data = digest

VouchesFor(v, p) ==
    /\ v \in Ids /\ v.ctime <= node[v.ino].ctime
    /\ node[v.ino].ctime = v.ctime => node[v.ino].data = GroupOf[p]

\* The running reflink's clone, under its staging name and then in place.
CloneOK ==
    ~Rewinds /\ pc \in ActionSteps /\ act.kind = "Reflink" =>
        /\ pc \in {"look", "move", "publish"} => Cloned(temp)
        /\ pub = "Published" => Cloned(target)

ClonesOK ==
    ~Rewinds => \A i \in DOMAIN results :
        plan[i].kind = "Reflink" /\ results[i].res = "Removed" =>
            VouchesFor(clones[plan[i].target], plan[i].target)

\* Outside writes and files leave an mtime the scan did not see, unless it is put back.
LEMMA OthersAge ==
    ASSUME IInv, [Next]_vars, ~Worker, ~Rewinds
    PROVE  /\ \A i \in Inodes :
                \/ node'[i].data = node[i].data /\ node'[i].mtime = node[i].mtime
                \/ node'[i].mtime # 0
           /\ \A l \in Locs : dir'[l] # dir[l] => dir'[l] = None \/ node'[dir'[l]].mtime # 0
<1>0. TypeOK
  BY DEF IInv
<1>1. CASE OutsiderMoves
  <2>1. PICK l \in Homes \cup Quars :
          OutsiderWrites(l) \/ OutsiderPuts(l) \/ OutsiderRemoves(l) \/ OutsiderLinks(l)
    BY <1>1 DEF OutsiderMoves
  <2>2. l \in Locs
    BY DEF Locs
  <2>3. CASE OutsiderWrites(l)
    <3>1. PICK data \in Groups \cup {"foreign"} :
            node' = [node EXCEPT ![dir[l]].data = data, ![dir[l]].ctime = @ + 1,
                                 ![dir[l]].mtime = @ + 1]
      BY <2>3 DEF OutsiderWrites
    <3>2. dir' = dir /\ dir[l] \in Inodes
      BY <1>0, <2>2, <2>3 DEF OutsiderWrites, TypeOK
    <3>3. \A i \in Inodes : i # dir[l] => node'[i] = node[i]
      BY <1>0, <3>1 DEF TypeOK
    <3>4. node'[dir[l]].mtime # 0
      BY <1>0, <3>1, <3>2 DEF TypeOK
    <3> QED BY <3>2, <3>3, <3>4
  <2>4. CASE OutsiderLinks(l)
    BY <1>0, <2>2, <2>4 DEF OutsiderLinks, TypeOK
  <2>5. CASE OutsiderRemoves(l)
    <3>1. dir[l] \in Inodes /\ node' = Bump(dir[l]) /\ dir' = [dir EXCEPT ![l] = None]
      BY <1>0, <2>2, <2>5 DEF OutsiderRemoves, TypeOK
    <3>2. \A i \in Inodes : node'[i].data = node[i].data /\ node'[i].mtime = node[i].mtime
      BY <1>0, <3>1, BumpAges
    <3> QED BY <1>0, <3>1, <3>2 DEF TypeOK
  <2>6. CASE OutsiderPuts(l)
    <3>1. PICK j \in Inodes, data \in {"foreign", "symlink"} :
            /\ dir' = [dir EXCEPT ![l] = j]
            /\ node' = [n \in Inodes |->
                  IF n = j THEN [data |-> data, mtime |-> node[j].mtime + 1,
                                 ctime |-> node[j].ctime + 1, outside |-> 0]
                  ELSE IF n = dir[l] THEN [node[n] EXCEPT !.ctime = @ + 1] ELSE node[n]]
      BY <2>6 DEF OutsiderPuts
    <3>2. node'[j].mtime # 0
      <4>1. node'[j].mtime = node[j].mtime + 1 /\ node[j].mtime \in Nat
        BY <1>0, <3>1 DEF TypeOK
      <4> QED BY <4>1
    <3>3. \A i \in Inodes : i # j => node'[i].data = node[i].data /\ node'[i].mtime = node[i].mtime
      <4> SUFFICES ASSUME NEW i \in Inodes, i # j
                   PROVE  node'[i].data = node[i].data /\ node'[i].mtime = node[i].mtime
        OBVIOUS
      <4>1. node'[i] = node[i] \/ node'[i] = [node[i] EXCEPT !.ctime = @ + 1]
        BY <3>1
      <4> QED BY <1>0, <4>1 DEF TypeOK
    <3>4. \A k \in Locs : dir'[k] # dir[k] => dir'[k] = j
      BY <1>0, <2>2, <3>1 DEF TypeOK
    <3> QED BY <3>2, <3>3, <3>4
  <2> QED BY <2>1, <2>3, <2>4, <2>5, <2>6
<1>2. CASE ~OutsiderMoves
  BY <1>2 DEF Next, Cancel, Done, vars, treeVars
<1> QED BY <1>1, <1>2

\* The batch writes only into an inode without a name, which it takes for a clone.
LEMMA WorkerWrites ==
    ASSUME IInv, Worker, NEW i \in Inodes, Linked(i)
    PROVE  node'[i].data = node[i].data /\ node'[i].mtime = node[i].mtime
<1>1. CASE UNCHANGED treeVars
  BY <1>1 DEF treeVars
<1>2. CASE Build \/ QuarantineMove \/ Publish \/ RemoveTemp \/ PutBack
  <2>0. /\ TypeOK /\ target \in Locs /\ keeper \in Locs /\ temp \in Locs
        /\ PutBack => moved \in Locs
        /\ dir \in [Locs -> Inodes \cup {None}]
    BY <1>2, TreeStepType DEF TypeOK
  <2>1. CASE Build /\ BuildClone
    <3>1. PICK j \in Inodes :
            /\ ~Linked(j)
            /\ node' = [node EXCEPT ![j] = [data |-> node[dir[keeper]].data, mtime |-> seen.mtime,
                                            ctime |-> @.ctime + 1, outside |-> 0]]
      BY <2>1 DEF BuildClone
    <3>2. i # j
      BY <3>1
    <3>3. node'[i] = node[i]
      BY <2>0, <3>1, <3>2 DEF TypeOK
    <3> QED BY <3>3
  <2>2. CASE ~(Build /\ BuildClone)
    <3>1. node' = node \/ \E j \in Inodes : node' = Bump(j)
      BY <1>2, <2>0, <2>2 DEF Build, BuildLink, QuarantineMove, Publish, RemoveTemp, PutBack,
                              RenameOK, Rename, treeVars
    <3> QED BY <2>0, <3>1, BumpAges
  <2> QED BY <2>1, <2>2
<1> QED BY <1>1, <1>2, TreeSteps

\* No keeper of the plan is a target of it.
LEMMA KeepersApart ==
    ASSUME IInv, cur \in DOMAIN plan
    PROVE  /\ act.keeper \notin CloneTargets /\ act.keeper \in Paths
           /\ act.kind # "Reflink" => act.target \notin CloneTargets
           /\ \A j \in DOMAIN plan : plan[j].target # act.keeper
<1>1. Executable(plan, GroupOf, InodeOf, DatasetOf)
  BY PlansOK DEF IInv, TypeOK
<1>2. \A j \in DOMAIN plan : plan[j].target # act.keeper
  BY <1>1 DEF Executable, act
<1>3. \A j \in DOMAIN plan : plan[j].target = act.target => j = cur
  BY TargetsApart DEF act
<1> QED BY <1>2, <1>3, ActionFiles DEF CloneTargets, act

\* A name that has been given a clone keeps that mark, and the running target has none yet.
LEMMA ReplacedStays ==
    ASSUME IInv, GateHolds, StageOK, Progress, [Next]_vars, NEW p \in Paths, Replaced(p)
    PROVE  Replaced(p)'
<1>0. cur \in Nat
  BY DEF IInv, TypeOK
<1>1. CASE UNCHANGED batchVars
  BY <1>1 DEF batchVars, Replaced
<1>2. CASE Worker /\ pc \in Opening
  <2>1. cur = 0
    BY <1>2 DEF Progress
  <2> QED BY <2>1 DEF Replaced
<1>3. CASE Worker /\ pc \in ActionSteps
  <2>1. plan' = plan /\ cur' = cur
    BY <1>3, ActionReports
  <2>2. pc \in ActionSteps /\ pub = "Published" => pub' = "Published" \/ pc' \notin ActionSteps
    <3>1. CASE ReadMeta \/ BuildFails \/ QuarantineLook \/ QuarantineFails \/ QuarantineMove
                 \/ Publish \/ PublishFails
      BY <3>1 DEF ReadMeta, BuildFails, QuarantineLook, QuarantineFails, QuarantineMove, Publish,
                  PublishFails, StageOK, ActionSteps, Steps
    <3>2. CASE PutBack \/ PutBackFails
      BY <3>2 DEF PutBack, PutBackFails, GateHolds
    <3>3. CASE ~(ReadMeta \/ BuildFails \/ QuarantineLook \/ QuarantineFails \/ QuarantineMove
                 \/ Publish \/ PublishFails \/ PutBack \/ PutBackFails)
      <4>1. \/ pub' = pub
            \/ pc' \notin ActionSteps
        BY <1>3, <3>3, ActionKinds DEF ApplyOne, StatTarget, HashTarget, StatKeeper, HashKeeper,
           Stat, Hash, Build, RemoveTemp, SettleTarget, SettleKeeper
      <4> QED BY <4>1
    <3> QED BY <3>1, <3>2, <3>3
  <2> QED BY <1>3, <2>1, <2>2 DEF Replaced
<1>4. CASE Worker /\ pc = "boundary"
  <2>1. plan' = plan /\ cur' \in {cur, cur + 1} /\ (cur' = cur => pc' = "done")
    BY <1>0, <1>4, BoundarySteps
  <2>2. PICK i \in 1..cur : plan[i].target = p
    BY DEF Replaced
  <2>3. i \in 1..cur' /\ (i # cur' \/ pc' \notin ActionSteps)
    BY <1>0, <2>1, <2>2 DEF ActionSteps
  <2> QED BY <2>1, <2>2, <2>3 DEF Replaced
<1> QED BY <1>1, <1>2, <1>3, <1>4, StepKinds

\* Where a name that the batch gives comes from.
LEMMA Gives ==
    ASSUME IInv, GateHolds, StageOK, Worker, NEW l \in Locs, dir'[l] # dir[l], dir'[l] # None
    PROVE  \/ Build /\ act.kind = "Hardlink" /\ l = temp /\ dir'[l] = dir[keeper]
           \/ Build /\ act.kind = "Reflink" /\ l = temp /\ ~Linked(dir'[l])
           \/ /\ QuarantineMove /\ pub = "none" /\ l = moved' /\ l \in QuarsOf(act.target)
              /\ dir'[l] = dir[target] /\ dir'[target] = None
           \/ Publish /\ l = target /\ dir'[l] = dir[temp]
           \/ PutBack /\ l = target /\ dir'[l] = dir[moved] /\ moved \in QuarsOf(act.target)
<1>1. Build \/ QuarantineMove \/ Publish \/ RemoveTemp \/ PutBack
  BY TreeSteps DEF treeVars
<1>0. /\ target \in Locs /\ keeper \in Locs /\ temp \in Locs
      /\ \A n \in 0..MaxSuffix : Quar(act.target, n) \in Locs
      /\ dir \in [Locs -> Inodes \cup {None}]
  BY <1>1, TreeStepType DEF TypeOK
<1>2. CASE Build
  <2>1. CASE BuildLink
    BY <1>0, <1>2, <2>1 DEF BuildLink
  <2>2. CASE BuildClone
    BY <1>0, <1>2, <2>2 DEF BuildClone
  <2> QED BY <1>2, <2>1, <2>2 DEF Build
<1>3. CASE QuarantineMove
  <2>1. PICK n \in 0..MaxSuffix :
          Rename(target, Quar(act.target, n)) /\ moved' = Quar(act.target, n)
    BY <1>3 DEF QuarantineMove
  <2>2. Quar(act.target, n) \in QuarsOf(act.target) /\ Quar(act.target, n) \in Locs
    BY <1>0 DEF QuarsOf
  <2>3. pub = "none"
    BY <1>3 DEF QuarantineMove, StageOK, ActionSteps, Steps
  <2>4. target # Quar(act.target, n)
    BY NamesApart DEF target
  <2> QED BY <1>0, <1>3, <2>1, <2>2, <2>3, <2>4 DEF Rename
<1>4. CASE Publish
  BY <1>0, <1>4 DEF Publish, Rename
<1>5. CASE RemoveTemp
  BY <1>0, <1>5 DEF RemoveTemp, treeVars
<1>6. CASE PutBack
  <2>1. moved \in Locs /\ moved \in QuarsOf(act.target)
    BY <1>0, <1>6 DEF PutBack, GateHolds, QuarsOf, act
  <2> QED BY <1>0, <1>6, <2>1 DEF PutBack, Rename
<1> QED BY <1>1, <1>2, <1>3, <1>4, <1>5, <1>6

LEMMA PlainInit == Init => PlainOK
<1> SUFFICES ASSUME Init, NEW l \in Locs, dir[l] # None
             PROVE  node[dir[l]].data = GroupOf[l[2]]
  BY DEF PlainOK, Plain
<1>1. PICK p \in Paths : l = Home(p)
  BY DEF Init, Homes
<1>2. l[2] = p /\ dir[l] = InodeOf[p]
  BY <1>1, NamesApart DEF Init, Homes
<1>3. InodeOf[p] \in Objects /\ InodeOf[p] \in Inodes /\ p \in Members(InodeOf[p])
  BY ConstantsOK DEF Objects, Members
<1>4. AsScanned(InodeOf[p])
  BY <1>3, IntactInit DEF Init, Intact
<1> QED BY <1>2, <1>3, <1>4 DEF AsScanned

\* A step of the batch leaves a file that has a name its bytes and mtime, and gives no name of
\* scanned files a clone.
LEMMA PlainSteps ==
    ASSUME IInv, GateHolds, StageOK, PlainOK, ~Rewinds, Worker,
           NEW l \in Locs, NoClone(l), NoClone(l)', dir'[l] # dir[l]
    PROVE  Plain(l)'
<1> SUFFICES ASSUME dir'[l] # None, node'[dir'[l]].mtime = 0
             PROVE  node'[dir'[l]].data = GroupOf[l[2]]
  BY DEF Plain
<1>0. TypeOK /\ cur \in DOMAIN plan /\ pc \in ActionSteps
  <2>1. pc \in ActionSteps
    BY OwnNames
  <2> QED BY <2>1 DEF IInv, StepOK
<1>1. /\ act.target \in Paths /\ target \in Locs /\ keeper \in Locs /\ temp \in Locs
      /\ GroupOf[act.keeper] = GroupOf[act.target]
      /\ plan' = plan /\ dir \in [Locs -> Inodes \cup {None}]
  BY <1>0, ActionType, ActionFiles, WorkerTouches DEF TypeOK
<1>2. /\ target[2] = act.target /\ keeper[2] = act.keeper /\ temp[2] = act.target
      /\ \A q \in QuarsOf(act.target) : q[2] = act.target /\ q \in Quars
  BY <1>1, NamesApart DEF target, keeper, temp, QuarsOf, Quars
<1>3. ASSUME NEW k \in Locs, NoClone(k), dir'[l] = dir[k], GroupOf[k[2]] = GroupOf[l[2]]
      PROVE  node'[dir'[l]].data = GroupOf[l[2]]
  <2>1. dir[k] \in Inodes /\ Linked(dir[k])
    BY <1>1, <1>3 DEF Linked
  <2>2. node'[dir[k]].data = node[dir[k]].data /\ node'[dir[k]].mtime = node[dir[k]].mtime
    BY <2>1, WorkerWrites
  <2>3. Plain(k)
    BY <1>3 DEF PlainOK
  <2> QED BY <1>3, <2>2, <2>3 DEF Plain
<1>4. CASE Build /\ act.kind = "Hardlink" /\ l = temp /\ dir'[l] = dir[keeper]
  <2>1. NoClone(keeper)
    BY <1>0, <1>2, KeepersApart DEF NoClone
  <2> QED BY <1>1, <1>2, <1>3, <1>4, <2>1
<1>5. CASE act.kind = "Reflink" /\ l = temp
  <2>1. act.target \in CloneTargets
    BY <1>0, <1>5 DEF CloneTargets, act
  <2>2. temp \notin Quars /\ temp \notin Homes
    BY NamesApart DEF temp, Quars, Homes
  <2>3. CloneTargets' = CloneTargets
    BY <1>1 DEF CloneTargets
  <2> QED BY <1>2, <1>5, <2>1, <2>2, <2>3 DEF NoClone
<1>6. CASE QuarantineMove /\ pub = "none" /\ l \in QuarsOf(act.target) /\ dir'[l] = dir[target]
  <2>1. \A i \in 1..cur : i \in DOMAIN plan
    BY <1>0, PlansOK DEF TypeOK
  <2>2. ~Replaced(act.target)
    BY <1>0, <1>6, <2>1, TargetsApart DEF Replaced, act
  <2>3. NoClone(target)
    BY <1>1, <1>2, <2>2 DEF NoClone, target, Homes
  <2> QED BY <1>1, <1>2, <1>3, <1>6, <2>3
<1>7. CASE Publish /\ l = target /\ dir'[l] = dir[temp]
  <2>1. pub' = "Published" /\ cur' = cur /\ cur \in 1..cur
    <3>1. cur \in 1..cur
      BY <1>0, PlansOK DEF TypeOK
    <3> QED BY <1>7, <3>1 DEF Publish
  <2>2. Replaced(l[2])'
    BY <1>1, <1>2, <1>7, <2>1 DEF Replaced, act
  <2>3. target \notin Quars /\ CloneTargets' = CloneTargets
    BY <1>1, NamesApart DEF target, Quars, CloneTargets
  <2>4. NoClone(temp)
    <3>1. l[2] = act.target /\ l \notin Quars
      BY <1>2, <1>7, <2>3
    <3>2. l[2] \notin CloneTargets' \/ ~Replaced(l[2])'
      BY <3>1 DEF NoClone
    <3>3. act.target \notin CloneTargets
      <4> HIDE DEF CloneTargets, Replaced
      <4> QED BY <2>2, <2>3, <3>1, <3>2
    <3> QED BY <1>2, <3>3 DEF NoClone
  <2> QED BY <1>1, <1>2, <1>3, <1>7, <2>4
<1>8. CASE PutBack /\ l = target /\ dir'[l] = dir[moved] /\ moved \in QuarsOf(act.target)
  <2>1. moved \in Locs /\ NoClone(moved)
    BY <1>2, <1>8 DEF NoClone, Locs
  <2> QED BY <1>2, <1>3, <1>8, <2>1
<1> QED BY <1>4, <1>5, <1>6, <1>7, <1>8, Gives

LEMMA PlainNext ==
    ASSUME IInv, GateHolds, Progress, StageOK, PlainOK, [Next]_vars
    PROVE  PlainOK'
<1> SUFFICES ASSUME ~Rewinds, NEW l \in Locs, NoClone(l)'
             PROVE  Plain(l)'
  BY DEF PlainOK
<1>0. TypeOK /\ dir \in [Locs -> Inodes \cup {None}] /\ l[2] \in Paths
  <2>1. l[2] \in Paths
    BY DEF Locs, Homes, Temps, Quars, Home, Temp, Quar
  <2> QED BY <2>1 DEF IInv, TypeOK
<1>1. NoClone(l)
  <2>1. plan' = plan
    BY StepKinds, WorkerTouches DEF batchVars
  <2>2. Replaced(l[2]) => Replaced(l[2])'
    BY <1>0, ReplacedStays
  <2> QED BY <2>1, <2>2 DEF NoClone, CloneTargets
<1>2. Plain(l)
  BY <1>1 DEF PlainOK
<1>3. CASE ~Worker
  <2>1. CASE dir'[l] = dir[l]
    <3>1. dir[l] # None => dir[l] \in Inodes
      BY <1>0
    <3>2. ASSUME dir[l] # None, node'[dir[l]].mtime = 0
          PROVE  node'[dir[l]].data = node[dir[l]].data /\ node[dir[l]].mtime = 0
      BY <1>3, <3>1, <3>2, OthersAge
    <3> QED BY <1>2, <2>1, <3>2 DEF Plain
  <2>2. CASE dir'[l] # dir[l]
    BY <1>3, <2>2, OthersAge DEF Plain
  <2> QED BY <2>1, <2>2
<1>4. CASE Worker
  <2>1. CASE dir'[l] = dir[l]
    <3>1. dir[l] # None => dir[l] \in Inodes /\ Linked(dir[l])
      BY <1>0 DEF Linked
    <3> QED BY <1>2, <1>4, <2>1, <3>1, WorkerWrites DEF Plain
  <2>2. CASE dir'[l] # dir[l]
    BY <1>1, <1>4, <2>2, PlainSteps
  <2> QED BY <2>1, <2>2
<1> QED BY <1>3, <1>4

-----------------------------------------------------------------------------
\* What the ledger holds of an allocation stays true, whoever steps.
LEMMA TellsNext ==
    ASSUME IInv, IInv', [Next]_vars, KeeperObjects' = KeeperObjects,
           NEW o \in Objects, NEW v, Tells(v, o)
    PROVE  Tells(v, o)'
<1>1. o \in Inodes /\ v.ctime \in Nat
  BY ConstantsOK DEF Objects, Tells, Ids
<1>2. Aged(o) /\ node[o].ctime \in Nat /\ node'[o].ctime \in Nat
  BY <1>1, CtimeTells DEF IInv, TypeOK
<1>3. v.ctime <= node'[o].ctime
  BY <1>1, <1>2 DEF Tells, Aged
<1>4. ASSUME node'[o].ctime = v.ctime
      PROVE  Nlink(o)' = v.nlink /\ (~Rewinds => Right(o)')
  <2>1. node'[o].ctime = node[o].ctime /\ node[o].ctime = v.ctime
    BY <1>1, <1>2, <1>4 DEF Tells, Aged
  <2>2. {l \in Locs : dir'[l] = o} = {l \in Locs : dir[l] = o}
    BY <1>2, <2>1 DEF Aged
  <2>3. node'[o].outside = node[o].outside /\ node'[o].data = node[o].data
    BY <1>2, <2>1 DEF Aged
  <2> QED BY <2>1, <2>2, <2>3 DEF Tells, Nlink, Right
<1> QED BY <1>3, <1>4 DEF Tells

\* The ledger opens with what the second preflight has seen.
LEMMA LedgerOpens ==
    ASSUME IInv, Progress, Intact, Worker, pc \in Opening, Acting', NEW o \in Objects
    PROVE  Tells(ledger[o].id, o)' /\ ledger'[o].settled
<1>1. pc = "preflight2" /\ Preflight
  BY OpeningSteps DEF Acting, Opening, ActionSteps, Progress
<1>2. PreflightSecond
  BY <1>1 DEF Worker, LeaseRefused, LeaseTaken, PreflightFirst, FindObstacles,
       CreateSnapshot, SnapshotFails, SnapshotsMade, Boundary, ApplyOne, StatTarget, HashTarget,
       StatKeeper, HashKeeper, ReadMeta, Build, BuildFails, QuarantineLook, QuarantineMove,
       QuarantineFails, Publish, PublishFails, RemoveTemp, PutBack, PutBackFails, SettleTarget,
       SettleKeeper
<1>3. o \in Inodes /\ node[o].mtime \in Nat /\ node[o].ctime \in Nat /\ Nlink(o) \in Nat
  BY SMTT(30), ConstantsOK, NlinkType DEF Objects, IInv, TypeOK
<1>4. PICK p \in Paths : InodeOf[p] = o
  BY DEF Objects
<1>5. AsScanned(o)
  BY <1>1, <1>4, PreflightSees DEF Intact
<1>6. Nlink(o) = Links(o) /\ node[o].mtime = 0 /\ Right(o)
  BY <1>5, ScannedLinks DEF AsScanned, Right
<1>7. /\ ledger'[o].id = [ino |-> o, mtime |-> node[o].mtime, ctime |-> node[o].ctime,
                          nlink |-> Nlink(o)]
      /\ ledger'[o].settled
  BY <1>1, <1>2, <1>3 DEF PreflightSecond
<1>8. UNCHANGED <<dir, node, plan>>
  BY <1>2 DEF PreflightSecond, treeVars, Same
<1>9. PICK v : v = [ino |-> o, mtime |-> node[o].mtime, ctime |-> node[o].ctime,
                    nlink |-> Nlink(o)]
  OBVIOUS
<1>10. Tells(v, o)
  BY <1>3, <1>6, <1>9 DEF Tells, Ids
<1>11. Tells(v, o)'
  <2>1. Nlink(o)' = Nlink(o) /\ Right(o)' = Right(o) /\ KeeperObjects' = KeeperObjects
    BY <1>8 DEF Nlink, Right, KeeperObjects
  <2> QED BY <1>10, <1>8, <2>1 DEF Tells
<1> QED BY <1>7, <1>9, <1>11

\* A transition of one entry leaves the other entries, and an adoption leaves the entry's trust.
LEMMA EntryUpdates ==
    ASSUME NEW L \in [Inodes -> Entry], NEW t \in Inodes, NEW o \in Inodes, NEW v, NEW a, NEW b
    PROVE  \A M :
              \/ M = [L EXCEPT ![t].id = v]
              \/ M = [L EXCEPT ![t].id = v, ![t].paths = (@ \ {a}) \cup {b}]
              \/ M = [L EXCEPT ![t].id = v, ![t].paths = @ \cup {b}]
              => M[o].id = (IF o = t THEN v ELSE L[o].id) /\ M[o].settled = L[o].settled
<1>1. ASSUME NEW e \in Entry, NEW Q
      PROVE  /\ [e EXCEPT !.id = v].id = v /\ [e EXCEPT !.id = v].settled = e.settled
             /\ [e EXCEPT !.id = v, !.paths = Q].id = v
             /\ [e EXCEPT !.id = v, !.paths = Q].settled = e.settled
  BY DEF Entry
<1>2. L[t] \in Entry
  OBVIOUS
<1> DEFINE e1 == [L[t] EXCEPT !.id = v]
           e2 == [L[t] EXCEPT !.id = v, !.paths = (@ \ {a}) \cup {b}]
           e3 == [L[t] EXCEPT !.id = v, !.paths = @ \cup {b}]
<1>3. [L EXCEPT ![t].id = v] = [L EXCEPT ![t] = e1]
  OBVIOUS
<1>4. [L EXCEPT ![t].id = v, ![t].paths = (@ \ {a}) \cup {b}] = [L EXCEPT ![t] = e2]
  OBVIOUS
<1>5. [L EXCEPT ![t].id = v, ![t].paths = @ \cup {b}] = [L EXCEPT ![t] = e3]
  OBVIOUS
<1>6. e1.id = v /\ e1.settled = L[t].settled
  BY <1>1, <1>2
<1>7. e2.id = v /\ e2.settled = L[t].settled
  <2>1. e2 = [L[t] EXCEPT !.id = v, !.paths = (L[t].paths \ {a}) \cup {b}]
    BY <1>2 DEF Entry
  <2> HIDE DEF e2
  <2> QED BY <1>1, <1>2, <2>1
<1>8. e3.id = v /\ e3.settled = L[t].settled
  <2>1. e3 = [L[t] EXCEPT !.id = v, !.paths = L[t].paths \cup {b}]
    BY <1>2 DEF Entry
  <2> HIDE DEF e3
  <2> QED BY <1>1, <1>2, <2>1
<1>9. ASSUME NEW e
      PROVE  [L EXCEPT ![t] = e][o] = IF o = t THEN e ELSE L[o]
  OBVIOUS
<1> HIDE DEF e1, e2, e3
<1>10. /\ [L EXCEPT ![t] = e1][o] = IF o = t THEN e1 ELSE L[o]
       /\ [L EXCEPT ![t] = e2][o] = IF o = t THEN e2 ELSE L[o]
       /\ [L EXCEPT ![t] = e3][o] = IF o = t THEN e3 ELSE L[o]
  BY <1>9
<1> QED BY <1>3, <1>4, <1>5, <1>6, <1>7, <1>8, <1>10

\* What a step of an action does to an entry of the ledger.
Adopts(o, l) == /\ SameButCtime(o, l) \/ (l = keeper /\ LinkedOnce(o, l, target))
                /\ ledger'[o].id = Identity(l)

LEMMA LedgerSteps ==
    ASSUME IInv, Worker, pc \in ActionSteps, NEW o \in Objects
    PROVE  \/ ledger'[o].id = ledger[o].id
           \/ /\ pc = "settleTarget" /\ o = targetObject /\ UNCHANGED treeVars
              /\ \/ pub \in {"Published", "Stranded"} /\ moved \in Locs /\ Adopts(o, moved)
                 \/ pub \notin {"Published", "Stranded"} /\ Adopts(o, target)
           \/ /\ pc = "settleKeeper" /\ o = keeperObject /\ UNCHANGED treeVars
              /\ Adopts(o, keeper)
<1>0. o \in Inodes /\ ledger \in [Inodes -> Entry] /\ cur \in DOMAIN plan
  BY ConstantsOK DEF Objects, IInv, TypeOK, StepOK
<1>1. ASSUME NEW S PROVE Poisoned(ledger, S)[o].id = ledger[o].id
  BY <1>0 DEF Poisoned, Entry
<1>2. targetObject \in Inodes /\ keeperObject \in Inodes
  BY <1>0, ActionType DEF IInv
<1>3. CASE SettleTarget
  <2> DEFINE where == IF pub \in {"Published", "Stranded"} THEN moved ELSE target
  <2>1. UNCHANGED treeVars /\ pc = "settleTarget"
    BY <1>3 DEF SettleTarget
  <2>2. pub \in {"Published", "Stranded"} => moved \in Locs
    BY <2>1 DEF IInv, StepOK
  <2>3. \/ ledger' = Poisoned(ledger, {targetObject, keeperObject})
        \/ ledger' = Poisoned(ledger, {targetObject})
        \/ /\ SameButCtime(targetObject, where)
           /\ \/ ledger' = Settled(targetObject, where)
              \/ ledger' = Adopt(targetObject, target, where)
    BY <1>3 DEF SettleTarget, Unsettle
  <2>4. CASE ledger' = Settled(targetObject, where) \/ ledger' = Adopt(targetObject, target, where)
    <3>1. ledger'[o].id = IF o = targetObject THEN Identity(where) ELSE ledger[o].id
      <4> DEFINE v == Identity(where)
      <4> HIDE DEF v, where
      <4>1. CASE ledger' = [ledger EXCEPT ![targetObject].id = v]
        BY <1>0, <1>2, <4>1, EntryUpdates DEF v
      <4>2. CASE ledger' = [ledger EXCEPT ![targetObject].id = v,
                                          ![targetObject].paths = (@ \ {target}) \cup {where}]
        BY <1>0, <1>2, <4>2, EntryUpdates DEF v
      <4> QED BY <2>4, <4>1, <4>2 DEF Settled, Adopt, v
    <3>2. CASE SameButCtime(targetObject, where)
      BY <2>1, <2>2, <3>1, <3>2 DEF Adopts
    <3>3. CASE ~SameButCtime(targetObject, where)
      BY <1>1, <2>3, <3>3
    <3> QED BY <3>2, <3>3
  <2> QED BY <1>1, <2>3, <2>4
<1>4. CASE SettleKeeper
  <2>1. UNCHANGED treeVars /\ pc = "settleKeeper"
    BY <1>4 DEF SettleKeeper
  <2>2. \/ \E S : ledger' = Poisoned(ledger, S)
        \/ ledger' = ledger
        \/ SameButCtime(keeperObject, keeper) /\ ledger' = Settled(keeperObject, keeper)
        \/ /\ LinkedOnce(keeperObject, keeper, target)
           /\ ledger' = [ledger EXCEPT ![keeperObject].id = Identity(keeper),
                                       ![keeperObject].paths = @ \cup {target}]
    BY <1>4 DEF SettleKeeper, SettlePublished, SettleFailed, Unsettle
  <2>3. CASE ledger' = Settled(keeperObject, keeper) \/
             ledger' = [ledger EXCEPT ![keeperObject].id = Identity(keeper),
                                      ![keeperObject].paths = @ \cup {target}]
    <3>1. ledger'[o].id = IF o = keeperObject THEN Identity(keeper) ELSE ledger[o].id
      <4> DEFINE v == Identity(keeper)
      <4> HIDE DEF v
      <4>1. CASE ledger' = [ledger EXCEPT ![keeperObject].id = v]
        BY <1>0, <1>2, <4>1, EntryUpdates DEF v
      <4>2. CASE ledger' = [ledger EXCEPT ![keeperObject].id = v,
                                          ![keeperObject].paths = @ \cup {target}]
        BY <1>0, <1>2, <4>2, EntryUpdates DEF v
      <4> QED BY <2>3, <4>1, <4>2 DEF Settled, v
    <3>2. CASE SameButCtime(keeperObject, keeper) \/ LinkedOnce(keeperObject, keeper, target)
      BY <2>1, <3>1, <3>2 DEF Adopts
    <3>3. CASE ~(SameButCtime(keeperObject, keeper) \/ LinkedOnce(keeperObject, keeper, target))
      BY <1>1, <2>2, <3>3
    <3> QED BY <3>2, <3>3
  <2> QED BY <1>1, <2>2, <2>3
<1>5. CASE ~(SettleTarget \/ SettleKeeper)
  <2>1. ledger' = ledger
    BY <1>5, ActionKinds DEF ApplyOne, StatTarget, HashTarget, StatKeeper, HashKeeper, Stat, Hash,
       ReadMeta, Build, BuildFails, QuarantineLook, QuarantineMove, QuarantineFails, Publish,
       PublishFails, RemoveTemp, PutBack, PutBackFails
  <2> QED BY <2>1
<1> QED BY <1>3, <1>4, <1>5

\* An identity adopted at a name that no clone can have tells the allocation as it is.
LEMMA AdoptTells ==
    ASSUME IInv, PlainOK, NEW o \in Objects, Tells(ledger[o].id, o), NEW l \in Locs,
           Adopts(o, l), l[2] \in Paths,
           \A p \in Members(o) : GroupOf[p] = GroupOf[l[2]],
           NoClone(l), l = keeper => o \in KeeperObjects
    PROVE  Tells(Identity(l), o)
<1>1. PICK v \in Ids : v = ledger[o].id
  BY DEF Tells
<1>2. v.ino = o /\ v.mtime = 0 /\ (o \notin KeeperObjects => v.nlink = Links(o))
  BY <1>1 DEF Tells
<1>3. Live(l) /\ Identity(l).ino = o /\ Identity(l).mtime = 0
       /\ (o \notin KeeperObjects => Identity(l).nlink = v.nlink)
  <2>1. PICK w, c : w = Identity(l) /\ c = node[dir[l]].ctime
    OBVIOUS
  <2>2. CASE SameButCtime(o, l)
    <3>1. Live(l) /\ w = [v EXCEPT !.ctime = c]
      BY <1>1, <2>1, <2>2 DEF SameButCtime
    <3>2. w.ino = v.ino /\ w.mtime = v.mtime /\ w.nlink = v.nlink
      BY <1>1, <3>1 DEF Ids
    <3> QED BY <1>2, <2>1, <3>1, <3>2
  <2>3. CASE l = keeper /\ LinkedOnce(o, l, target)
    <3>1. Live(l) /\ w = [v EXCEPT !.ctime = c, !.nlink = @ + 1]
      BY <1>1, <2>1, <2>3 DEF LinkedOnce
    <3>2. w.ino = v.ino /\ w.mtime = v.mtime
      BY <1>1, <3>1 DEF Ids
    <3> QED BY <1>2, <2>1, <2>3, <3>1, <3>2
  <2> QED BY <2>2, <2>3 DEF Adopts
<1>4. dir[l] = o /\ node[o].mtime = 0 /\ Identity(l).nlink = Nlink(o)
      /\ Identity(l).ctime = node[o].ctime
  BY <1>3 DEF Identity
<1>5. Identity(l) \in Ids
  BY <1>3, IdentityType DEF IInv, Live
<1>6. node[o].ctime \in Nat
  BY <1>4, <1>5 DEF Ids
<1>7. ~Rewinds => Right(o)
  <2> SUFFICES ASSUME ~Rewinds PROVE Right(o)
    OBVIOUS
  <2>1. node[o].data = GroupOf[l[2]]
    BY <1>3, <1>4 DEF PlainOK, Plain, Live
  <2> QED BY <2>1 DEF Right
<1> QED BY <1>2, <1>3, <1>4, <1>5, <1>6, <1>7 DEF Tells

LEMMA LedgerNext ==
    ASSUME ReportInv, IInv', PlainOK, LedgerOK, [Next]_vars
    PROVE  LedgerOK'
<1>0. IInv /\ GateHolds /\ Progress /\ Intact /\ StageOK /\ WhereOK
  BY DEF ReportInv, TrustInv
<1> SUFFICES ASSUME Acting', NEW o \in Objects PROVE Tells(ledger[o].id, o)'
  BY DEF LedgerOK
<1>1. KeeperObjects' = KeeperObjects
  <2>1. plan' = plan
    BY <1>0, StepKinds, WorkerTouches DEF batchVars
  <2> QED BY <2>1 DEF KeeperObjects
<1>2. ASSUME Acting, ledger'[o].id = ledger[o].id PROVE Tells(ledger[o].id, o)'
  <2>1. PICK v : v = ledger[o].id
    OBVIOUS
  <2>2. Tells(v, o)
    BY <1>2, <2>1 DEF LedgerOK
  <2>3. Tells(v, o)'
    BY <1>0, <1>1, <2>2, TellsNext
  <2> QED BY <1>2, <2>1, <2>3
<1>3. ASSUME Acting, NEW l \in Locs, Adopts(o, l), l[2] \in Paths,
             \A p \in Members(o) : GroupOf[p] = GroupOf[l[2]],
             NoClone(l), l = keeper => o \in KeeperObjects
      PROVE  Tells(ledger[o].id, o)'
  <2>1. PICK v : v = Identity(l)
    OBVIOUS
  <2>2. Tells(v, o)
    BY <1>0, <1>3, <2>1, AdoptTells DEF LedgerOK
  <2>3. Tells(v, o)'
    BY <1>0, <1>1, <2>2, TellsNext
  <2>4. ledger'[o].id = v
    BY <1>3, <2>1 DEF Adopts
  <2> QED BY <2>3, <2>4
<1>4. CASE UNCHANGED batchVars
  BY <1>2, <1>4 DEF batchVars, Acting
<1>5. CASE Worker /\ pc \in Opening
  BY <1>0, <1>5, LedgerOpens
<1>6. CASE Worker /\ pc \in ActionSteps
  <2>0. Acting /\ TypeOK /\ cur \in DOMAIN plan
    BY <1>0, <1>6 DEF Acting, IInv, StepOK
  <2>1. /\ act.target \in Paths /\ act.keeper \in Paths
        /\ target \in Locs /\ keeper \in Locs /\ target # keeper
        /\ target[2] = act.target /\ keeper[2] = act.keeper
    BY <1>0, <2>0, ActionType, ActionFiles, NamesApart DEF target, keeper
  <2>2. \A p \in Members(targetObject) : GroupOf[p] = GroupOf[act.target]
    BY <2>1, ObjectsOK DEF targetObject, Members
  <2>3. \A p \in Members(keeperObject) : GroupOf[p] = GroupOf[act.keeper]
    BY <2>1, ObjectsOK DEF keeperObject, Members
  <2>4. CASE pc = "settleTarget" /\ o = targetObject
              /\ pub \in {"Published", "Stranded"} /\ moved \in Locs /\ Adopts(o, moved)
    <3>1. moved \in QuarsOf(act.target)
      <4>1. whereabouts = moved /\ moved # None
        BY <2>4, ConstantsOK DEF whereabouts
      <4> QED BY <1>0, <1>6, <4>1 DEF WhereOK, Lies
    <3>2. moved[2] = act.target /\ moved \in Quars /\ moved # keeper
      BY <2>1, <3>1, NamesApart DEF QuarsOf, Quars, keeper
    <3> QED BY <1>3, <2>0, <2>1, <2>2, <2>4, <3>2 DEF NoClone
  <2>5. CASE pc = "settleTarget" /\ o = targetObject
              /\ pub \notin {"Published", "Stranded"} /\ Adopts(o, target)
    <3>1. \A i \in 1..cur : i \in DOMAIN plan
      BY <2>0, PlansOK DEF TypeOK
    <3>2. ~Replaced(act.target)
      BY <1>0, <1>6, <2>0, <2>5, <3>1, TargetsApart DEF Replaced, act
    <3>3. NoClone(target)
      BY <2>1, <3>2 DEF NoClone, target, Homes
    <3> QED BY <1>3, <2>0, <2>1, <2>2, <2>5, <3>3
  <2>6. CASE pc = "settleKeeper" /\ o = keeperObject /\ Adopts(o, keeper)
    <3>1. NoClone(keeper) /\ o \in KeeperObjects
      BY <1>0, <2>0, <2>1, <2>6, KeepersApart DEF NoClone, KeeperObjects, keeperObject, act
    <3> QED BY <1>3, <2>0, <2>1, <2>3, <2>6, <3>1
  <2> QED BY <1>0, <1>2, <1>6, <2>0, <2>4, <2>5, <2>6, LedgerSteps
<1>7. CASE Worker /\ pc = "boundary"
  BY <1>0, <1>2, <1>7, BoundarySteps DEF Acting
<1> QED BY <1>0, <1>4, <1>5, <1>6, <1>7, StepKinds

-----------------------------------------------------------------------------
\* A removal is reported by the step that has seen the last transition add up.
Removal ==
    /\ pub = "Published" /\ UNCHANGED <<treeVars, pub, moved>>
    /\ \/ pc = "settleTarget" /\ act.kind = "Delete" /\ clones' = clones
       \/ pc = "settleKeeper" /\ act.kind = "Hardlink" /\ clones' = clones
       \/ /\ pc = "settleKeeper" /\ act.kind = "Reflink"
          /\ ClonedOnce(keeperObject, targetObject, keeper, target)
          /\ clones' = [clones EXCEPT ![act.target] = Identity(target)]

Tell(res) == /\ pc' = "boundary"
             /\ \E out \in Outcome : results' = Append(results, out) /\ out.res = res

Outcomes == \/ results' = results /\ clones' = clones /\ pc' \in ActionSteps
            \/ \E res : res # "Removed" /\ Tell(res) /\ clones' = clones
            \/ Tell("Removed") /\ Removal

LEMMA Telling ==
    ASSUME IInv, NEW res \in {"Removed", "Refused", "RolledBack", "Stranded", "Unsettled"},
           NEW q \in Locs \cup {None}, Report(res, q)
    PROVE  Tell(res)
<1>1. [res |-> res, quarantine |-> q] \in Outcome
  BY DEF Outcome
<1>2. [res |-> res, quarantine |-> q].res = res
  OBVIOUS
<1> QED BY <1>1, <1>2 DEF Tell, Report, Goto

LEMMA OutcomeSteps ==
    ASSUME IInv, Worker, pc \in ActionSteps
    PROVE  Outcomes
<1>0. moved \in Locs \cup {None} /\ None \in Locs \cup {None}
  BY DEF IInv, TypeOK
<1>1. Report("Refused", None) => Tell("Refused")
  BY Telling
<1>2. Unsettle => Tell("Unsettled")
  BY <1>0, Telling DEF Unsettle
<1>3. Report("Removed", moved) => Tell("Removed")
  BY <1>0, Telling
<1>4. FirstStep \in ActionSteps /\ act.kind \in Kinds
  <2>1. act.kind \in Kinds
    BY ActionFiles DEF IInv, StepOK
  <2> QED BY <2>1 DEF FirstStep, Kinds, ActionSteps, Steps
<1> USE DEF Outcomes
<1>5. CASE ApplyOne
  BY <1>1, <1>5 DEF ApplyOne, Goto, ActionSteps, Steps
<1>6. CASE StatTarget \/ HashTarget \/ StatKeeper \/ HashKeeper
  <2>1. clones' = clones
    BY <1>6 DEF StatTarget, HashTarget, StatKeeper, HashKeeper, Stat, Hash
  <2>2. \/ Report("Refused", None)
        \/ results' = results /\ pc' \in {"hashTarget", "statKeeper", "hashKeeper", FirstStep}
    BY <1>6 DEF StatTarget, HashTarget, StatKeeper, HashKeeper, Stat, Hash, Goto
  <2>3. {"hashTarget", "statKeeper", "hashKeeper", FirstStep} \subseteq ActionSteps
    BY <1>4 DEF ActionSteps, Steps
  <2> QED BY <1>1, <2>1, <2>2, <2>3
<1>7. CASE ReadMeta \/ Build \/ BuildFails \/ QuarantineMove \/ Publish \/ PublishFails
           \/ RemoveTemp \/ PutBack \/ PutBackFails
  BY <1>7 DEF ReadMeta, Build, BuildFails, QuarantineMove, Publish, PublishFails, RemoveTemp,
              PutBack, PutBackFails, Goto, ActionSteps, Steps
<1>8. CASE QuarantineLook \/ QuarantineFails
  BY <1>1, <1>8 DEF QuarantineLook, QuarantineFails, NotMoved, Goto, ActionSteps, Steps
<1>9. CASE SettleTarget
  <2>1. UNCHANGED <<treeVars, pub, moved, clones>> /\ pc = "settleTarget"
    BY <1>9 DEF SettleTarget
  <2>2. \/ Unsettle
        \/ pub = "Published" /\ act.kind = "Delete" /\ Report("Removed", moved)
        \/ results' = results /\ pc' = "settleKeeper"
    BY <1>9 DEF SettleTarget, Goto
  <2>3. CASE pub = "Published" /\ act.kind = "Delete" /\ Report("Removed", moved)
    BY <1>3, <2>1, <2>3 DEF Removal
  <2>4. CASE results' = results /\ pc' = "settleKeeper"
    BY <2>1, <2>4 DEF ActionSteps, Steps
  <2> QED BY <1>2, <2>1, <2>2, <2>3, <2>4
<1>10. CASE SettleKeeper
  <2>1. UNCHANGED <<treeVars, pub, moved>> /\ pc = "settleKeeper"
    BY <1>10 DEF SettleKeeper
  <2>2. CASE SettlePublished
    <3>1. CASE act.kind = "Hardlink" /\ Report("Removed", moved) /\ clones' = clones
      BY <1>3, <2>1, <2>2, <3>1 DEF Removal, SettlePublished
    <3>2. CASE /\ act.kind = "Reflink" /\ ClonedOnce(keeperObject, targetObject, keeper, target)
               /\ clones' = [clones EXCEPT ![act.target] = Identity(target)]
               /\ Report("Removed", moved)
      BY <1>3, <2>1, <2>2, <3>2 DEF Removal, SettlePublished
    <3>3. CASE Unsettle /\ clones' = clones
      BY <1>2, <3>3
    <3> QED BY <2>2, <3>1, <3>2, <3>3 DEF SettlePublished
  <2>3. CASE SettleFailed
    <3>1. pub \in {"NotMoved", "RolledBack", "Stranded", "Published"}
      BY <2>1 DEF IInv, StepOK
    <3>2. \/ Report("Refused", None)
          \/ Report("RolledBack", None)
          \/ Report("Stranded", moved)
      <4>1. CASE pub = "NotMoved"
        BY <2>3, <4>1 DEF SettleFailed
      <4>2. CASE pub = "RolledBack"
        BY <2>3, <4>2 DEF SettleFailed
      <4>3. CASE pub = "Stranded"
        BY <2>3, <4>3 DEF SettleFailed
      <4> QED BY <2>3, <3>1, <4>1, <4>2, <4>3 DEF SettleFailed
    <3>3. Tell("Refused") \/ Tell("RolledBack") \/ Tell("Stranded")
      BY <1>0, <3>2, Telling
    <3>4. clones' = clones
      BY <2>3 DEF SettleFailed
    <3> QED BY <3>3, <3>4
  <2> QED BY <1>10, <2>2, <2>3 DEF SettleKeeper
<1> QED BY <1>5, <1>6, <1>7, <1>8, <1>9, <1>10, ActionKinds

\* A clone keeps the contents it was built with wherever it is moved.
LEMMA ClonedStays ==
    ASSUME IInv, LedgerOK, Acting, [Next]_vars, ~Rewinds, cur \in DOMAIN plan,
           UNCHANGED <<plan, cur>>, ledger'[keeperObject].id = ledger[keeperObject].id,
           NEW k \in Locs, Cloned(k), NEW l \in Locs, dir'[l] = dir[k]
    PROVE  Cloned(l)'
<1>1. /\ act' = act /\ keeper' = keeper /\ keeperObject' = keeperObject /\ digest' = digest
      /\ keeper \in Locs /\ keeperObject \in Inodes /\ keeperObject \in Objects
  <2>1. act' = act
    BY DEF act
  <2> QED BY <2>1, ActionType, ActionFiles DEF IInv, keeper, keeperObject, digest, Objects
<1> SUFFICES ASSUME dir[k] # None, node'[dir[k]].mtime = 0, dir'[keeper] = keeperObject,
                    node'[keeperObject].ctime = ledger[keeperObject].id.ctime
             PROVE  node'[dir[k]].data = digest
  BY <1>1 DEF Cloned
<1>2. dir[k] \in Inodes /\ Linked(dir[k])
  BY DEF IInv, TypeOK, Linked
<1>3. node'[dir[k]].data = node[dir[k]].data /\ node[dir[k]].mtime = 0
  <2>1. CASE Worker
    BY <1>2, <2>1, WorkerWrites
  <2>2. CASE ~Worker
    BY <1>2, <2>2, OthersAge
  <2> QED BY <2>1, <2>2
<1>4. Tells(ledger[keeperObject].id, keeperObject)
  BY <1>1 DEF LedgerOK
<1>5. Aged(keeperObject) /\ node[keeperObject].ctime \in Nat
  BY <1>1, CtimeTells DEF IInv, TypeOK
<1>6. node[keeperObject].ctime = ledger[keeperObject].id.ctime
      /\ node'[keeperObject].ctime = node[keeperObject].ctime
  <2>1. ledger[keeperObject].id.ctime \in Nat
    BY <1>4 DEF Tells, Ids
  <2> QED BY <1>4, <1>5, <2>1 DEF Tells, Aged
<1>7. dir[keeper] = keeperObject
  BY <1>1, <1>5, <1>6 DEF Aged
<1> QED BY <1>3, <1>6, <1>7 DEF Cloned

\* A clone is built of the file the keeper's name leads to.
LEMMA CloneBuilt ==
    ASSUME IInv, LedgerOK, Acting, [Next]_vars, ~Rewinds, Build, act.kind = "Reflink",
           ledger' = ledger
    PROVE  Cloned(temp)'
<1>0. IInv /\ TypeOK /\ cur \in DOMAIN plan /\ UNCHANGED <<plan, cur>>
  BY DEF IInv, StepOK, Build, Same, ActionSteps, Steps
<1>1. /\ act' = act /\ keeper' = keeper /\ keeperObject' = keeperObject /\ digest' = digest
      /\ temp' = temp /\ keeper \in Locs /\ temp \in Locs /\ keeper # temp
      /\ keeperObject \in Inodes /\ keeperObject \in Objects
      /\ act.keeper \in Paths /\ act.keeper \in Members(keeperObject) /\ digest = GroupOf[act.keeper]
  <2>1. act' = act
    BY <1>0 DEF act
  <2>2. act.keeper \in Paths /\ digest = GroupOf[act.keeper]
    BY <1>0, ActionFiles
  <2>3. keeper \in Locs /\ temp \in Locs /\ keeper # temp /\ keeperObject \in Inodes
    BY <1>0, ActionType, NamesApart DEF keeper, temp
  <2> QED BY <2>1, <2>2, <2>3 DEF keeper, keeperObject, digest, temp, Objects, Members
<1>2. PICK j \in Inodes :
        /\ ~Linked(j)
        /\ dir' = [dir EXCEPT ![temp] = j]
        /\ node' = [node EXCEPT ![j] = [data |-> node[dir[keeper]].data, mtime |-> seen.mtime,
                                        ctime |-> @.ctime + 1, outside |-> 0]]
  BY DEF Build, BuildClone, BuildLink
<1>3. /\ dir'[temp] = j /\ dir'[keeper] = dir[keeper]
      /\ node'[j].data = node[dir[keeper]].data
      /\ \A i \in Inodes : i # j => node'[i] = node[i]
  BY <1>0, <1>1, <1>2 DEF TypeOK
<1>4. ASSUME dir[keeper] = keeperObject, node'[keeperObject].ctime = ledger[keeperObject].id.ctime
      PROVE  node[dir[keeper]].data = digest
  <2>1. keeperObject # j
    BY <1>1, <1>2, <1>4 DEF Linked
  <2>2. node[keeperObject].ctime = ledger[keeperObject].id.ctime
    BY <1>1, <1>3, <1>4, <2>1
  <2>3. Right(keeperObject)
    BY <1>1, <2>2 DEF LedgerOK, Tells
  <2> QED BY <1>1, <1>4, <2>3 DEF Right
<1> QED BY <1>1, <1>3, <1>4 DEF Cloned

\* With the keeper settled the action is over.
LEMMA KeeperSettles ==
    ASSUME IInv, Worker, pc = "settleKeeper"
    PROVE  SettleKeeper /\ pc' = "boundary"
<1>1. SettleKeeper
  BY ActionKinds DEF ActionSteps, Steps, ApplyOne, StatTarget, HashTarget, StatKeeper, HashKeeper,
     ReadMeta, Build, BuildFails, QuarantineLook, QuarantineMove, QuarantineFails, Publish,
     PublishFails, RemoveTemp, PutBack, PutBackFails, SettleTarget
<1>2. pub \in {"NotMoved", "RolledBack", "Stranded", "Published"}
  BY DEF IInv, StepOK
<1>3. CASE SettlePublished
  BY <1>1, <1>3 DEF SettlePublished, Unsettle, Report, Goto
<1>4. CASE SettleFailed
  <2>1. CASE pub = "NotMoved"
    BY <1>1, <1>4, <2>1 DEF SettleFailed, Report, Goto
  <2>2. CASE pub = "RolledBack"
    BY <1>1, <1>4, <2>2 DEF SettleFailed, Report, Goto
  <2>3. CASE pub = "Stranded"
    BY <1>1, <1>4, <2>3 DEF SettleFailed, Report, Goto
  <2>4. pub # "Published"
    BY <1>4 DEF SettleFailed
  <2> QED BY <1>1, <1>2, <2>1, <2>2, <2>3, <2>4
<1> QED BY <1>1, <1>3, <1>4 DEF SettleKeeper

LEMMA CloneSteps ==
    ASSUME ReportInv, LedgerOK, CloneOK, [Next]_vars, Worker, pc \in ActionSteps, ~Rewinds,
           act.kind = "Reflink", pc' \in ActionSteps
    PROVE  /\ pc' \in {"look", "move", "publish"} => Cloned(temp)'
           /\ pub' = "Published" => Cloned(target)'
<1>0. /\ IInv /\ GateHolds /\ StageOK /\ Acting /\ TypeOK /\ cur \in DOMAIN plan
      /\ UNCHANGED <<plan, cur>> /\ dir \in [Locs -> Inodes \cup {None}]
  <2>1. IInv /\ GateHolds /\ StageOK /\ Acting
    BY DEF ReportInv, TrustInv, Acting
  <2> QED BY <2>1, ActionReports DEF IInv, StepOK, TypeOK
<1>1. /\ act' = act /\ temp' = temp /\ target' = target
      /\ temp \in Locs /\ target \in Locs /\ temp # target
      /\ keeperObject \in Objects /\ keeperObject # targetObject
  <2>1. act' = act
    BY <1>0 DEF act
  <2> QED BY <1>0, <2>1, ActionType, ActionFiles, NamesApart
          DEF temp, target, keeperObject, targetObject, Objects
<1>2. pc # "settleKeeper"
  BY <1>0, KeeperSettles DEF ActionSteps
<1>3. ledger'[keeperObject].id = ledger[keeperObject].id
  BY <1>0, <1>1, <1>2, LedgerSteps
<1>4. ASSUME NEW k \in Locs, Cloned(k), NEW l \in Locs, dir'[l] = dir[k]
      PROVE  Cloned(l)'
  BY <1>0, <1>3, <1>4, ClonedStays
<1>5. ASSUME pc' \in {"look", "move", "publish"} PROVE Cloned(temp)'
  <2>1. CASE Build
    BY <1>0, <2>1, CloneBuilt DEF Build
  <2>2. CASE ~Build
    <3>1. pc \in {"look", "move"}
      <4>1. FirstStep = "meta"
        BY DEF FirstStep
      <4>2. StatTarget \/ HashTarget \/ StatKeeper \/ HashKeeper
              => pc' \in {"boundary", "hashTarget", "statKeeper", "hashKeeper", "meta"}
        BY <4>1 DEF StatTarget, HashTarget, StatKeeper, HashKeeper, Stat, Hash, Goto, Report
      <4>3. ~(StatTarget \/ HashTarget \/ StatKeeper \/ HashKeeper)
        BY <1>5, <4>2
      <4>4. SettleTarget \/ SettleKeeper => pc' \in {"boundary", "settleKeeper"}
        BY <1>0, <1>2 DEF SettleTarget, SettleKeeper, Unsettle, Goto, Report
      <4>5. ~(SettleTarget \/ SettleKeeper)
        BY <1>5, <4>4
      <4> QED
        BY <1>5, <2>2, <4>3, <4>5, ActionKinds DEF ApplyOne, ReadMeta, BuildFails,
         QuarantineLook, QuarantineMove, QuarantineFails, NotMoved, Publish, PublishFails,
         RemoveTemp, PutBack, PutBackFails, Goto, Report
    <3>2. dir'[temp] = dir[temp]
      <4>1. CASE QuarantineMove
        <5>1. PICK n \in 0..MaxSuffix : Rename(target, Quar(act.target, n))
          BY <4>1 DEF QuarantineMove
        <5>2. temp # Quar(act.target, n) /\ Quar(act.target, n) \in Locs
          BY <1>0, ActionType, NamesApart DEF temp
        <5> QED BY <1>0, <1>1, <5>1, <5>2 DEF Rename
      <4>2. CASE ~QuarantineMove
        BY <3>1, <4>2, TreeSteps DEF treeVars, Build, Publish, RemoveTemp, PutBack
      <4> QED BY <4>1, <4>2
    <3>3. Cloned(temp)
      BY <3>1 DEF CloneOK
    <3>4. PICK l \in Locs : l = temp
      BY <1>1
    <3>5. Cloned(l)'
      BY <1>4, <3>2, <3>3, <3>4
    <3> QED BY <1>1, <3>4, <3>5
  <2> QED BY <2>1, <2>2
<1>6. ASSUME pub' = "Published" PROVE Cloned(target)'
  <2>1. PICK l \in Locs : l = target
    BY <1>1
  <2>2. CASE Publish
    <3>1. dir'[l] = dir[temp] /\ Cloned(temp)
      BY <1>0, <1>1, <2>1, <2>2 DEF Publish, Rename, CloneOK
    <3>2. Cloned(l)'
      BY <1>1, <1>4, <3>1
    <3> QED BY <1>1, <2>1, <3>2
  <2>3. CASE ~Publish
    <3>1. pub = "Published"
      BY <1>6, <2>3, ActionKinds DEF ApplyOne, StatTarget, HashTarget, StatKeeper, HashKeeper,
       Stat, Hash, ReadMeta, Build, BuildFails, QuarantineLook, QuarantineMove,
       QuarantineFails, NotMoved, PublishFails, RemoveTemp, PutBack, PutBackFails,
       SettleTarget, SettleKeeper
    <3>2. pc \in {"settleTarget", "settleKeeper"}
      BY <1>0, <3>1 DEF StageOK, GateHolds
    <3>3. dir' = dir
      BY <3>2, TreeSteps DEF treeVars, Build, QuarantineMove, Publish, RemoveTemp, PutBack
    <3>4. Cloned(l)'
      BY <1>4, <2>1, <3>1, <3>3 DEF CloneOK
    <3> QED BY <1>1, <2>1, <3>4
  <2> QED BY <2>2, <2>3
<1> QED BY <1>5, <1>6

LEMMA CloneNext ==
    ASSUME ReportInv, LedgerOK, CloneOK, [Next]_vars
    PROVE  CloneOK'
<1> SUFFICES ASSUME ~Rewinds, pc' \in ActionSteps, act'.kind = "Reflink"
             PROVE  /\ pc' \in {"look", "move", "publish"} => Cloned(temp)'
                    /\ pub' = "Published" => Cloned(target)'
  BY DEF CloneOK
<1>0. IInv /\ Progress
  BY DEF ReportInv, TrustInv
<1>1. CASE UNCHANGED batchVars /\ ~Worker
  <2>1. UNCHANGED <<plan, cur, pc, pub, ledger>>
    BY <1>1 DEF batchVars
  <2>2. act' = act /\ temp' = temp /\ target' = target /\ keeper' = keeper
    BY <2>1 DEF act, temp, target, keeper
  <2>3. Acting /\ cur \in DOMAIN plan
    BY <1>0, <2>1 DEF Acting, IInv, StepOK
  <2>4. temp \in Locs /\ target \in Locs
    BY <1>0, <2>3, ActionType DEF IInv
  <2>5. ASSUME NEW l \in Locs, Cloned(l) PROVE Cloned(l)'
    <3>1. CASE dir'[l] = dir[l]
      BY <1>0, <2>1, <2>3, <2>5, <3>1, ClonedStays
    <3>2. CASE dir'[l] # dir[l]
      BY <1>0, <1>1, <3>2, OthersAge DEF Cloned
    <3> QED BY <3>1, <3>2
  <2>6. PICK l, k \in Locs : l = temp /\ k = target
    BY <2>4
  <2>7. /\ pc' \in {"look", "move", "publish"} => Cloned(l)
        /\ pub' = "Published" => Cloned(k)
    BY <2>1, <2>2, <2>6 DEF CloneOK
  <2>8. /\ pc' \in {"look", "move", "publish"} => Cloned(l)'
        /\ pub' = "Published" => Cloned(k)'
    BY <2>5, <2>7
  <2> QED BY <2>2, <2>6, <2>8
<1>2. CASE Worker /\ pc \in Opening
  BY <1>0, <1>2, OpeningSteps DEF Opening, ActionSteps
<1>3. CASE Worker /\ pc \in ActionSteps
  <2>1. act' = act
    BY <1>0, <1>3, ActionReports DEF act
  <2> QED BY <1>3, <2>1, CloneSteps
<1>4. CASE Worker /\ pc = "boundary"
  BY <1>0, <1>4, BoundarySteps DEF ActionSteps
<1> QED BY <1>0, <1>1, <1>2, <1>3, <1>4, StepKinds

\* The identity entered for a clone vouches for its contents, whoever steps.
LEMMA VouchStays ==
    ASSUME IInv, IInv', [Next]_vars, NEW v, NEW p \in Paths, VouchesFor(v, p)
    PROVE  VouchesFor(v, p)'
<1>1. v.ino \in Inodes /\ v.ctime \in Nat
  BY DEF VouchesFor, Ids
<1>2. Aged(v.ino) /\ node[v.ino].ctime \in Nat /\ node'[v.ino].ctime \in Nat
  BY <1>1, CtimeTells DEF IInv, TypeOK
<1> QED BY <1>1, <1>2 DEF Aged, VouchesFor

\* A clone the ledger enters is a fresh file with the scanned contents.
LEMMA CloneEntered ==
    ASSUME ReportInv, LedgerOK, CloneOK, ~Rewinds, Worker, pc \in ActionSteps, Removal,
           act.kind = "Reflink"
    PROVE  clones' = [clones EXCEPT ![act.target] = Identity(target)]
           /\ VouchesFor(Identity(target), act.target)
<1>0. IInv /\ Acting /\ cur \in DOMAIN plan /\ TypeOK
  BY DEF ReportInv, TrustInv, Acting, IInv, StepOK
<1>1. /\ ClonedOnce(keeperObject, targetObject, keeper, target)
      /\ clones' = [clones EXCEPT ![act.target] = Identity(target)]
  BY DEF Removal
<1>2. /\ keeperObject \in Objects /\ targetObject \in Objects /\ digest = GroupOf[act.target]
      /\ target \in Locs /\ keeper \in Locs
  BY <1>0, ActionType, ActionFiles DEF keeperObject, targetObject, Objects
<1>3. Tells(ledger[keeperObject].id, keeperObject) /\ Tells(ledger[targetObject].id, targetObject)
  BY <1>0, <1>2 DEF LedgerOK
<1>4. dir[keeper] = keeperObject /\ node[keeperObject].ctime = ledger[keeperObject].id.ctime
  <2>1. Identity(keeper) = ledger[keeperObject].id
    BY <1>1 DEF ClonedOnce
  <2>2. Identity(keeper).ino = keeperObject
    BY <1>3, <2>1 DEF Tells
  <2> QED BY <2>1, <2>2 DEF Identity
<1>5. dir[target] # None /\ node[dir[target]].mtime = 0
  BY <1>1, <1>3 DEF ClonedOnce, Live, Tells
<1>6. node[dir[target]].data = digest
  BY <1>4, <1>5 DEF CloneOK, Cloned, Removal
<1>7. Identity(target) \in Ids /\ dir[target] \in Inodes
  BY <1>0, <1>2, <1>5, IdentityType
<1>8. Identity(target).ino = dir[target] /\ Identity(target).ctime = node[dir[target]].ctime
  BY DEF Identity
<1>9. node[dir[target]].ctime \in Nat
  BY <1>0, <1>7 DEF TypeOK
<1> QED BY <1>1, <1>2, <1>6, <1>7, <1>8, <1>9 DEF VouchesFor

LEMMA ClonesNext ==
    ASSUME ReportInv, IInv', LedgerOK, CloneOK, ClonesOK, [Next]_vars
    PROVE  ClonesOK'
<1>0. /\ IInv /\ Progress /\ plan \in Seq(Action) /\ results \in Seq(Outcome)
      /\ clones \in [Paths -> Ids \cup {None}]
  BY PlansOK DEF ReportInv, TrustInv, IInv, TypeOK
<1> SUFFICES ASSUME ~Rewinds, NEW i \in DOMAIN results', plan'[i].kind = "Reflink",
                    results'[i].res = "Removed"
             PROVE  VouchesFor(clones[plan[i].target], plan[i].target)'
  BY DEF ClonesOK
<1>1. plan' = plan
  BY <1>0, StepKinds, WorkerTouches DEF batchVars
<1>2. ASSUME i \in DOMAIN results, results'[i] = results[i],
             clones'[plan[i].target] = clones[plan[i].target], plan[i].target \in Paths
      PROVE  VouchesFor(clones[plan[i].target], plan[i].target)'
  <2>1. PICK v, p : v = clones[plan[i].target] /\ p = plan[i].target
    OBVIOUS
  <2>2. VouchesFor(v, p)
    BY <1>1, <1>2, <2>1 DEF ClonesOK
  <2>3. VouchesFor(v, p)'
    BY <1>0, <1>2, <2>1, <2>2, VouchStays
  <2> QED BY <1>1, <1>2, <2>1, <2>3
<1>3. \A j \in DOMAIN plan : plan[j].target \in Paths
  <2> SUFFICES ASSUME NEW j \in DOMAIN plan PROVE plan[j].target \in Paths
    OBVIOUS
  <2>1. plan[j] \in Action
    BY <1>0
  <2> QED BY <2>1 DEF Action
<1>4. DOMAIN results \subseteq DOMAIN plan
  <2>1. Len(results) <= Len(plan)
    BY <1>0 DEF ReportInv, TrustInv, Progress, IInv, StepOK, TypeOK, Opening, ActionSteps, Steps
  <2> QED BY <1>0, <2>1
<1>5. CASE results' = results /\ clones' = clones
  BY <1>2, <1>3, <1>4, <1>5
<1>6. CASE Worker /\ pc \in ActionSteps
  <2>0. cur = Len(results) + 1 /\ cur \in DOMAIN plan
    BY <1>0, <1>6 DEF Progress, IInv, StepOK
  <2>1. CASE \E res : res # "Removed" /\ Tell(res) /\ clones' = clones
    <3>1. PICK out \in Outcome : results' = Append(results, out) /\ out.res # "Removed"
      BY <2>1 DEF Tell
    <3>2. i \in DOMAIN results /\ results'[i] = results[i]
      BY <1>0, <3>1
    <3> QED BY <1>2, <1>3, <1>4, <2>1, <3>2
  <2>2. CASE Tell("Removed") /\ Removal
    <3>1. PICK out \in Outcome : results' = Append(results, out)
      BY <2>2 DEF Tell
    <3>2. CASE i \in DOMAIN results
      <4>1. results'[i] = results[i]
        BY <1>0, <3>1, <3>2
      <4>2. i \in DOMAIN plan /\ plan[i].target # act.target
        <5>1. i # cur /\ i \in DOMAIN plan
          BY <1>0, <1>4, <2>0, <3>2
        <5> QED BY <1>0, <2>0, <5>1, TargetsApart DEF act
      <4>3. clones'[plan[i].target] = clones[plan[i].target]
        BY <1>0, <1>3, <2>2, <4>2 DEF Removal
      <4> QED BY <1>2, <1>3, <3>2, <4>1, <4>2, <4>3
    <3>3. CASE i \notin DOMAIN results
      <4>1. i = cur
        BY <1>0, <2>0, <3>1, <3>3
      <4>2. act.kind = "Reflink" /\ act.target \in Paths /\ act.target = plan[i].target
        BY <1>1, <1>3, <2>0, <4>1 DEF act
      <4>3. /\ clones' = [clones EXCEPT ![act.target] = Identity(target)]
            /\ VouchesFor(Identity(target), act.target)
        BY <1>6, <2>2, <4>2, CloneEntered
      <4>4. PICK v, p : v = Identity(target) /\ p = act.target
        OBVIOUS
      <4>5. VouchesFor(v, p)'
        BY <1>0, <4>2, <4>3, <4>4, VouchStays
      <4>6. clones'[p] = v
        BY <1>0, <4>2, <4>3, <4>4
      <4> QED BY <1>1, <4>2, <4>4, <4>5, <4>6
    <3> QED BY <3>2, <3>3
  <2> QED BY <1>0, <1>5, <1>6, <2>1, <2>2, OutcomeSteps DEF Outcomes
<1>7. CASE ~(Worker /\ pc \in ActionSteps)
  <2>1. results' = results /\ clones' = clones
    BY <1>0, <1>7, StepKinds, OpeningSteps, BoundarySteps DEF batchVars
  <2> QED BY <1>5, <2>1
<1> QED BY <1>6, <1>7

LedgerInv == ReportInv /\ PlainOK /\ LedgerOK /\ CloneOK /\ ClonesOK

LEMMA LedgerInvInit == Init => LedgerInv
<1>1. Init => LedgerOK /\ CloneOK /\ ClonesOK
  BY DEF Init, LedgerOK, Acting, ActionSteps, CloneOK, ClonesOK
<1>2. Init => ReportInv
  BY TrustInit, StoppedInit, WhereInit, KeptInit DEF ReportInv
<1> QED BY <1>1, <1>2, PlainInit DEF LedgerInv

LEMMA LedgerInvNext == ASSUME LedgerInv, [Next]_vars PROVE LedgerInv'
<1>1. ReportInv' /\ IInv'
  BY ReportNext DEF LedgerInv, ReportInv, TrustInv
<1>2. IInv /\ GateHolds /\ Progress /\ StageOK
  BY DEF LedgerInv, ReportInv, TrustInv
<1> QED BY <1>1, <1>2, PlainNext, LedgerNext, CloneNext, ClonesNext DEF LedgerInv

-----------------------------------------------------------------------------
(***************************************************************************)
(* What is counted as freed.                                               *)
(***************************************************************************)
\* The allocations nobody else has changed and no action keeps.
Lone == Objects \ (touched \cup KeeperObjects)

\* Such an allocation has the outside links the scan counted, and, of the names the batch makes,
\* only its own in quarantine.
NamesOK ==
    \A o \in Lone :
        /\ node[o].outside = Outside[o]
        /\ \A l \in Locs : dir[l] = o => l \in Homes \cup Quars /\ l[2] \in Members(o)

\* Once its target's name is reported as removed, or given up by the running action, that name
\* no longer leads to it.
GoneOK ==
    /\ pc \in ActionSteps /\ moved # None /\ pub # "RolledBack" /\ targetObject \in Lone
         => dir[target] # targetObject
    /\ \A i \in DOMAIN results :
        LET p == plan[i].target IN
        results[i].res = "Removed" /\ InodeOf[p] \in Lone => dir[Home(p)] # InodeOf[p]

\* It loses the ledger's trust only with an action on it that removed nothing.
TrustOK ==
    \A o \in Objects \ KeeperObjects :
        Acting /\ ~ledger[o].settled =>
            \/ \E i \in DOMAIN results :
                   InodeOf[plan[i].target] = o /\ results[i].res # "Removed"
            \/ pc = "settleKeeper" /\ pub # "Published" /\ o = targetObject

LEMMA LoneOnes ==
    ASSUME IInv, [Next]_vars, NEW o \in Lone'
    PROVE  o \in Lone /\ o \in Inodes /\ o # None /\ o \in Objects
<1>1. touched \subseteq touched' /\ plan' = plan
  BY StepKinds, WorkerTouches, OthersTouch DEF batchVars
<1>2. o \in Inodes /\ o # None
  BY ConstantsOK DEF Lone, Objects
<1> QED BY <1>1, <1>2 DEF Lone, KeeperObjects

LEMMA NamesInit == Init => NamesOK
<1> SUFFICES ASSUME Init, NEW o \in Lone
             PROVE  /\ node[o].outside = Outside[o]
                    /\ \A l \in Locs : dir[l] = o => l \in Homes /\ l[2] \in Members(o)
  BY DEF NamesOK
<1>1. AsScanned(o)
  BY IntactInit, ConstantsOK DEF Lone, Objects, Intact, Init
<1>2. ASSUME NEW l \in Locs, dir[l] = o PROVE l \in Homes /\ l[2] \in Members(o)
  <2>1. PICK p \in Members(o) : l = Home(p)
    BY <1>1, <1>2 DEF AsScanned
  <2> QED BY <2>1, NamesApart DEF Homes, Members
<1> QED BY <1>1, <1>2 DEF AsScanned

LEMMA NamesNext ==
    ASSUME IInv, GateHolds, StageOK, KeptOK, NamesOK, [Next]_vars
    PROVE  NamesOK'
<1> SUFFICES ASSUME NEW o \in Lone'
             PROVE  /\ node'[o].outside = Outside[o]
                    /\ \A l \in Locs : dir'[l] = o => l \in Homes \cup Quars /\ l[2] \in Members(o)
  BY DEF NamesOK
<1>1. o \in Lone /\ o \in Inodes /\ o # None /\ o \in Objects
  BY LoneOnes
<1>2. /\ node[o].outside = Outside[o]
      /\ \A l \in Locs : dir[l] = o => l \in Homes \cup Quars /\ l[2] \in Members(o)
  BY <1>1 DEF NamesOK
<1>3. CASE ~Worker
  <2>1. o \notin touched'
    BY DEF Lone
  <2>2. node'[o] = node[o] /\ \A l \in Locs : dir'[l] = o => dir[l] = o
    BY <1>1, <1>3, <2>1, OthersTouch
  <2> QED BY <1>2, <2>2
<1>4. CASE Worker
  <2>1. Linked(o)
    <3>1. Held(o)
      BY <1>1 DEF KeptOK, Lone
    <3> QED BY <3>1 DEF Held, Linked, Locs
  <2>2. node'[o].outside = node[o].outside
    <3>1. CASE UNCHANGED treeVars
      BY <3>1 DEF treeVars
    <3>2. CASE Build \/ QuarantineMove \/ Publish \/ RemoveTemp \/ PutBack
      <4>0. /\ TypeOK /\ target \in Locs /\ keeper \in Locs /\ temp \in Locs
            /\ PutBack => moved \in Locs
            /\ dir \in [Locs -> Inodes \cup {None}]
        BY <3>2, TreeStepType DEF TypeOK
      <4>1. CASE Build /\ BuildClone
        <5>1. PICK j \in Inodes :
                /\ ~Linked(j)
                /\ node' = [node EXCEPT ![j] = [data |-> node[dir[keeper]].data,
                        mtime |-> seen.mtime, ctime |-> @.ctime + 1, outside |-> 0]]
          BY <4>1 DEF BuildClone
        <5>2. o # j
          BY <2>1, <5>1
        <5> QED BY <1>1, <4>0, <5>1, <5>2 DEF TypeOK
      <4>2. CASE ~(Build /\ BuildClone)
        <5>1. node' = node \/ \E j \in Inodes : node' = Bump(j)
          BY <3>2, <4>0, <4>2 DEF Build, BuildLink, QuarantineMove, Publish, RemoveTemp, PutBack,
                                  RenameOK, Rename, treeVars
        <5> QED BY <1>1, <4>0, <5>1, BumpAges
      <4> QED BY <4>1, <4>2
    <3> QED BY <1>4, <3>1, <3>2, TreeSteps
  <2>3. ASSUME NEW l \in Locs, dir'[l] = o, dir[l] # o
        PROVE  l \in Homes \cup Quars /\ l[2] \in Members(o)
    <3>0. TypeOK /\ cur \in DOMAIN plan /\ pc \in ActionSteps
      <4>1. pc \in ActionSteps
        BY <1>4, <2>3, OwnNames
      <4> QED BY <4>1 DEF IInv, StepOK
    <3>1. /\ act.target \in Paths /\ target \in Locs /\ keeper \in Locs /\ temp \in Locs
          /\ target[2] = act.target /\ keeper[2] = act.keeper
          /\ \A q \in QuarsOf(act.target) : q[2] = act.target /\ q \in Quars /\ q \in Locs
          /\ temp \notin Homes \cup Quars /\ target \in Homes
      <4>1. act.target \in Paths
        BY <3>0, ActionFiles
      <4> QED BY <3>0, <4>1, ActionType, NamesApart
              DEF target, keeper, temp, QuarsOf, Quars, Homes, Locs
    <3>2. CASE Build /\ act.kind = "Hardlink" /\ l = temp /\ dir'[l] = dir[keeper]
      <4>1. act.keeper \in Members(o)
        BY <1>2, <2>3, <3>1, <3>2
      <4>2. o \in KeeperObjects
        BY <3>0, <4>1 DEF KeeperObjects, Members, act
      <4> QED BY <1>1, <4>2 DEF Lone
    <3>3. CASE ~Linked(dir'[l])
      BY <2>1, <2>3, <3>3
    <3>4. CASE l \in QuarsOf(act.target) /\ dir'[l] = dir[target]
      BY <1>2, <2>3, <3>1, <3>4
    <3>5. CASE l = target /\ dir'[l] = dir[temp]
      BY <1>2, <2>3, <3>1, <3>5
    <3>6. CASE l = target /\ dir'[l] = dir[moved] /\ moved \in QuarsOf(act.target)
      BY <1>2, <2>3, <3>1, <3>6
    <3> QED BY <1>1, <1>4, <2>3, <3>2, <3>3, <3>4, <3>5, <3>6, Gives
  <2> QED BY <1>2, <2>2, <2>3
<1> QED BY <1>3, <1>4

\* A name that does not lead to such an allocation is given to it only by putting it back.
LEMMA NotGiven ==
    ASSUME IInv, GateHolds, StageOK, KeptOK, NamesOK, [Next]_vars, NEW o \in Lone',
           NEW p \in Paths, dir[Home(p)] # o, ~(Worker /\ PutBack /\ p = act.target)
    PROVE  dir'[Home(p)] # o
<1> SUFFICES ASSUME dir'[Home(p)] = o PROVE FALSE
  OBVIOUS
<1>1. o \in Lone /\ o \in Inodes /\ o # None /\ o \in Objects /\ o \notin touched'
  BY LoneOnes DEF Lone
<1>2. Home(p) \in Locs
  BY NamesAreLocs
<1>3. Worker
  BY <1>1, <1>2, OthersTouch
<1>4. Linked(o)
  <2>1. Held(o)
    BY <1>1 DEF KeptOK, Lone
  <2> QED BY <2>1 DEF Held, Linked, Locs
<1>5. Home(p) # temp /\ Home(p) \notin QuarsOf(act.target)
  BY NamesApart DEF temp, QuarsOf
<1>6. dir[temp] # o
  <2>1. pc \in ActionSteps
    BY <1>2, <1>3, OwnNames
  <2>2. temp \in Locs
    BY <2>1, ActionType DEF IInv, StepOK
  <2>3. temp \notin Homes \cup Quars
    BY NamesApart DEF temp, Homes, Quars
  <2> QED BY <1>1, <2>2, <2>3 DEF NamesOK
<1>7. Home(p) = target => p = act.target
  BY NamesApart DEF target
<1> QED BY <1>1, <1>2, <1>3, <1>4, <1>5, <1>6, <1>7, Gives

LEMMA GoneNext ==
    ASSUME ReportInv, NamesOK, GoneOK, [Next]_vars
    PROVE  GoneOK'
<1>0. /\ IInv /\ GateHolds /\ StageOK /\ KeptOK /\ Progress
      /\ plan \in Seq(Action) /\ results \in Seq(Outcome)
  BY PlansOK DEF ReportInv, TrustInv, IInv, TypeOK
<1>a. plan' = plan /\ touched \subseteq touched'
  BY <1>0, StepKinds, WorkerTouches, OthersTouch DEF batchVars
<1>b. \A j \in DOMAIN plan : plan[j].target \in Paths
  <2> SUFFICES ASSUME NEW j \in DOMAIN plan PROVE plan[j].target \in Paths
    OBVIOUS
  <2>1. plan[j] \in Action
    BY <1>0
  <2> QED BY <2>1 DEF Action
<1>c. ASSUME NEW p \in Paths, InodeOf[p] \in Lone', dir[Home(p)] # InodeOf[p],
             ~(Worker /\ PutBack /\ p = act.target)
      PROVE  dir'[Home(p)] # InodeOf[p]
  BY <1>0, <1>c, NotGiven
<1>d. DOMAIN results \subseteq DOMAIN plan
  <2>1. Len(results) <= Len(plan)
    BY <1>0 DEF Progress, IInv, StepOK, TypeOK, Opening, ActionSteps, Steps
  <2> QED BY <1>0, <2>1
<1>1. ASSUME pc' \in ActionSteps, moved' # None, pub' # "RolledBack", targetObject' \in Lone'
      PROVE  (dir[target] # targetObject)'
  <2>1. CASE UNCHANGED batchVars /\ ~Worker
    <3>1. UNCHANGED <<plan, cur, pc, moved, pub>> /\ act' = act
      BY <2>1 DEF batchVars, act
    <3>2. act.target \in Paths /\ act'.target = act.target
      BY <1>0, <1>1, <3>1, ActionFiles DEF IInv, StepOK
    <3>3. InodeOf[act.target] \in Lone' /\ InodeOf[act.target] \in Lone
      BY <1>0, <1>1, <3>2, LoneOnes DEF targetObject
    <3>4. dir[Home(act.target)] # InodeOf[act.target]
      BY <1>1, <3>1, <3>3 DEF GoneOK, target, targetObject
    <3>5. dir'[Home(act.target)] # InodeOf[act.target]
      BY <1>c, <2>1, <3>2, <3>3, <3>4
    <3> QED BY <3>2, <3>5 DEF target, targetObject
  <2>2. CASE Worker /\ pc \in Opening
    BY <1>0, <1>1, <2>2, OpeningSteps DEF Opening, ActionSteps
  <2>3. CASE Worker /\ pc \in ActionSteps
    <3>1. act' = act /\ act.target \in Paths /\ cur \in DOMAIN plan
      BY <1>0, <2>3, ActionReports, ActionFiles DEF act, IInv, StepOK
    <3>2. InodeOf[act.target] \in Lone' /\ InodeOf[act.target] \in Lone
      BY <1>0, <1>1, <3>1, LoneOnes DEF targetObject
    <3>3. CASE QuarantineMove
      <4>1. PICK n \in 0..MaxSuffix : Rename(target, Quar(act.target, n))
        BY <3>3 DEF QuarantineMove
      <4>2. dir'[target] = None
        BY <1>0, <3>1, <4>1, ActionType DEF Rename, IInv, TypeOK
      <4>3. InodeOf[act.target] # None
        BY <3>1, ConstantsOK
      <4> QED BY <3>1, <4>2, <4>3 DEF target, targetObject
    <3>4. CASE ~QuarantineMove
      <4>1. moved' = moved
        BY <2>3, <3>4, ActionKinds DEF ApplyOne, StatTarget, HashTarget, StatKeeper, HashKeeper,
         Stat, Hash, ReadMeta, Build, BuildFails, QuarantineLook, QuarantineFails, Publish,
         PublishFails, RemoveTemp, PutBack, PutBackFails, SettleTarget, SettleKeeper
      <4>2. ~PutBack
        BY <1>1 DEF PutBack
      <4>3. pub # "RolledBack"
        <5> SUFFICES ASSUME pub = "RolledBack" PROVE FALSE
          OBVIOUS
        <5>1. pc \in {"settleTarget", "settleKeeper"}
          BY <1>0, <2>3 DEF StageOK, GateHolds, ActionSteps, Steps
        <5>2. SettleTarget \/ SettleKeeper
          BY <2>3, <5>1, ActionKinds DEF ApplyOne, StatTarget, HashTarget, StatKeeper,
           HashKeeper, ReadMeta, Build, BuildFails, QuarantineLook, QuarantineFails, Publish,
           PublishFails, RemoveTemp, PutBack, PutBackFails, QuarantineMove
        <5> QED BY <1>1, <5>2 DEF SettleTarget, SettleKeeper
      <4>4. dir[Home(act.target)] # InodeOf[act.target]
        BY <1>1, <2>3, <3>2, <4>1, <4>3 DEF GoneOK, target, targetObject
      <4>5. dir'[Home(act.target)] # InodeOf[act.target]
        BY <1>c, <3>1, <3>2, <4>2, <4>4
      <4> QED BY <3>1, <4>5 DEF target, targetObject
    <3> QED BY <3>3, <3>4
  <2>4. CASE Worker /\ pc = "boundary"
    BY <1>0, <1>1, <2>4, BoundarySteps DEF ActionSteps
  <2> QED BY <1>0, <2>1, <2>2, <2>3, <2>4, StepKinds
<1>2. ASSUME NEW i \in DOMAIN results', results'[i].res = "Removed",
             InodeOf[plan[i].target] \in Lone'
      PROVE  dir'[Home(plan[i].target)] # InodeOf[plan[i].target]
  <2>1. InodeOf[plan[i].target] \in Lone
    BY <1>0, <1>2, LoneOnes
  <2>2. ASSUME i \in DOMAIN results, results'[i] = results[i],
               ~(Worker /\ PutBack /\ plan[i].target = act.target)
        PROVE  dir'[Home(plan[i].target)] # InodeOf[plan[i].target]
    <3>1. dir[Home(plan[i].target)] # InodeOf[plan[i].target]
      BY <1>2, <2>1, <2>2 DEF GoneOK
    <3> QED BY <1>2, <1>b, <1>c, <1>d, <2>2, <3>1
  <2>3. CASE results' = results /\ ~(Worker /\ pc \in ActionSteps)
    <3>1. ~(Worker /\ PutBack)
      BY <2>3 DEF PutBack, ActionSteps, Steps
    <3> QED BY <1>2, <2>2, <2>3, <3>1
  <2>4. CASE Worker /\ pc \in ActionSteps
    <3>0. cur = Len(results) + 1 /\ cur \in DOMAIN plan
      BY <1>0, <2>4 DEF Progress, IInv, StepOK
    <3>1. CASE i \in DOMAIN results
      <4>1. results'[i] = results[i]
        <5>1. results' = results \/ \E out \in Outcome : results' = Append(results, out)
          BY <1>0, <2>4, OutcomeSteps DEF Outcomes, Tell
        <5> QED BY <1>0, <3>1, <5>1
      <4>2. i # cur /\ i \in DOMAIN plan
        BY <1>0, <1>d, <3>0, <3>1
      <4>3. plan[i].target # act.target
        BY <1>0, <3>0, <4>2, TargetsApart DEF act
      <4> QED BY <2>2, <3>1, <4>1, <4>3
    <3>2. CASE i \notin DOMAIN results
      <4>1. PICK res : Tell(res) /\ (res = "Removed" => Removal)
        BY <1>0, <1>2, <2>4, <3>2, OutcomeSteps DEF Outcomes
      <4>2. PICK out \in Outcome : results' = Append(results, out) /\ out.res = res
        BY <4>1 DEF Tell
      <4>3. i = cur /\ results'[i] = out
        BY <1>0, <3>0, <3>2, <4>2
      <4>4. Removal /\ pub = "Published" /\ dir' = dir
        BY <1>2, <4>1, <4>2, <4>3 DEF Removal, treeVars
      <4>5. moved # None
        <5>1. moved \in Locs
          BY <1>0, <4>4 DEF Removal, IInv, StepOK
        <5> QED BY <5>1, ConstantsOK
      <4>6. dir[target] # targetObject
        BY <2>1, <2>4, <4>3, <4>4, <4>5 DEF GoneOK, targetObject, act
      <4> QED BY <4>3, <4>4, <4>6 DEF target, targetObject, act
    <3> QED BY <3>1, <3>2
  <2> QED BY <1>0, <2>3, <2>4, StepKinds, OpeningSteps, BoundarySteps DEF batchVars
<1> QED BY <1>1, <1>2, <1>a DEF GoneOK

\* An allocation that is no keeper loses the ledger's trust only where its action did not succeed.
LEMMA SettledSteps ==
    ASSUME IInv, Worker, pc \in ActionSteps, NEW o \in Objects, o \notin KeeperObjects
    PROVE  \/ ledger'[o].settled = ledger[o].settled
           \/ o = targetObject /\ \E res : res # "Removed" /\ Tell(res)
           \/ o = targetObject /\ pc' = "settleKeeper" /\ pub' # "Published"
<1>0. /\ o \in Inodes /\ ledger \in [Inodes -> Entry] /\ cur \in DOMAIN plan
      /\ targetObject \in Inodes /\ keeperObject \in Inodes /\ moved \in Locs \cup {None}
  BY ConstantsOK, ActionType DEF Objects, IInv, TypeOK, StepOK
<1>1. ASSUME NEW S, o \notin S PROVE Poisoned(ledger, S)[o].settled = ledger[o].settled
  BY <1>0, <1>1 DEF Poisoned
<1>2. o # keeperObject
  BY <1>0 DEF KeeperObjects, keeperObject, act
<1>3. Unsettle => (o = targetObject /\ Tell("Unsettled")) \/ ledger'[o].settled = ledger[o].settled
  <2>1. Unsettle => Tell("Unsettled") /\ ledger' = Poisoned(ledger, {targetObject, keeperObject})
    BY <1>0, Telling DEF Unsettle
  <2> QED BY <1>1, <1>2, <2>1
<1>4. CASE SettleTarget
  <2> DEFINE where == IF pub \in {"Published", "Stranded"} THEN moved ELSE target
             v == Identity(where)
  <2>1. \/ Unsettle
        \/ /\ ledger' = Poisoned(ledger, {targetObject})
           /\ pc' = "settleKeeper" /\ pub' = pub /\ pub # "Published"
        \/ ledger' = Settled(targetObject, where)
        \/ ledger' = Adopt(targetObject, target, where)
    BY <1>4 DEF SettleTarget, Goto
  <2>2. CASE ledger' = Poisoned(ledger, {targetObject})
             /\ pc' = "settleKeeper" /\ pub' = pub /\ pub # "Published"
    BY <1>1, <2>2
  <2>3. CASE ledger' = Settled(targetObject, where) \/ ledger' = Adopt(targetObject, target, where)
    <3> HIDE DEF where
    <3>1. \/ ledger' = [ledger EXCEPT ![targetObject].id = v]
          \/ ledger' = [ledger EXCEPT ![targetObject].id = v,
                                      ![targetObject].paths = (@ \ {target}) \cup {where}]
      BY <2>3 DEF Settled, Adopt
    <3> HIDE DEF v
    <3> QED BY <1>0, <3>1, EntryUpdates
  <2> QED BY <1>3, <2>1, <2>2, <2>3
<1>5. CASE SettleKeeper
  <2> DEFINE v == Identity(keeper)
  <2>1. \/ Unsettle
        \/ ledger' = Poisoned(ledger, {keeperObject})
        \/ ledger' = ledger
        \/ ledger' = [ledger EXCEPT ![keeperObject].id = v]
        \/ ledger' = [ledger EXCEPT ![keeperObject].id = v,
                                    ![keeperObject].paths = @ \cup {target}]
    BY <1>5 DEF SettleKeeper, SettlePublished, SettleFailed, Settled
  <2> HIDE DEF v
  <2>2. ledger' = [ledger EXCEPT ![keeperObject].id = v] \/
        ledger' = [ledger EXCEPT ![keeperObject].id = v, ![keeperObject].paths = @ \cup {target}]
          => ledger'[o].settled = ledger[o].settled
    BY <1>0, EntryUpdates
  <2>3. ledger' = Poisoned(ledger, {keeperObject}) => ledger'[o].settled = ledger[o].settled
    BY <1>1, <1>2
  <2> QED BY <1>3, <2>1, <2>2, <2>3
<1>6. CASE ~(SettleTarget \/ SettleKeeper)
  <2>1. ledger' = ledger
    BY <1>6, ActionKinds DEF ApplyOne, StatTarget, HashTarget, StatKeeper, HashKeeper, Stat, Hash,
       ReadMeta, Build, BuildFails, QuarantineLook, QuarantineMove, QuarantineFails, Publish,
       PublishFails, RemoveTemp, PutBack, PutBackFails
  <2> QED BY <2>1
<1> QED BY <1>4, <1>5, <1>6

LEMMA SettledNext ==
    ASSUME ReportInv, TrustOK, [Next]_vars
    PROVE  TrustOK'
<1>0. /\ IInv /\ Progress /\ Intact /\ plan \in Seq(Action) /\ results \in Seq(Outcome)
  BY PlansOK DEF ReportInv, TrustInv, IInv, TypeOK
<1>1. plan' = plan
  BY <1>0, StepKinds, WorkerTouches DEF batchVars
<1> SUFFICES ASSUME NEW o \in Objects, o \notin KeeperObjects, Acting', ~ledger'[o].settled
             PROVE  \/ \E i \in DOMAIN results' :
                           InodeOf[plan[i].target] = o /\ results'[i].res # "Removed"
                    \/ pc' = "settleKeeper" /\ pub' # "Published" /\ o = targetObject'
  BY <1>1 DEF TrustOK, KeeperObjects
<1>2. CASE UNCHANGED batchVars
  BY <1>2 DEF TrustOK, batchVars, Acting, targetObject, act
<1>3. CASE Worker /\ pc \in Opening
  BY <1>0, <1>3, LedgerOpens
<1>4. CASE Worker /\ pc \in ActionSteps
  <2>0. /\ cur = Len(results) + 1 /\ cur \in DOMAIN plan /\ cur' = cur
        /\ targetObject' = targetObject /\ Acting
    BY <1>0, <1>4, ActionReports DEF Progress, IInv, StepOK, targetObject, act, Acting
  <2>1. ASSUME o = targetObject, NEW res, res # "Removed", Tell(res)
        PROVE  \E i \in DOMAIN results' :
                   InodeOf[plan[i].target] = o /\ results'[i].res # "Removed"
    <3>1. PICK out \in Outcome : results' = Append(results, out) /\ out.res = res
      BY <2>1 DEF Tell
    <3>2. cur \in DOMAIN results' /\ results'[cur] = out
      BY <1>0, <2>0, <3>1
    <3> QED BY <2>1, <3>1, <3>2 DEF targetObject, act
  <2>2. CASE ledger'[o].settled = ledger[o].settled
    <3>1. CASE \E i \in DOMAIN results :
                   InodeOf[plan[i].target] = o /\ results[i].res # "Removed"
      <4>1. results' = results \/ \E out \in Outcome : results' = Append(results, out)
        BY <1>0, <1>4, OutcomeSteps DEF Outcomes, Tell
      <4>2. \A i \in DOMAIN results : i \in DOMAIN results' /\ results'[i] = results[i]
        BY <1>0, <4>1
      <4> QED BY <3>1, <4>2
    <3>2. CASE pc = "settleKeeper" /\ pub # "Published" /\ o = targetObject
      <4>1. pc' = "boundary"
        BY <1>0, <1>4, <3>2, KeeperSettles
      <4>2. PICK res : res # "Removed" /\ Tell(res)
        BY <1>0, <1>4, <3>2, <4>1, OutcomeSteps DEF Outcomes, Removal, ActionSteps
      <4> QED BY <2>1, <3>2, <4>2
    <3> QED BY <2>0, <2>2, <3>1, <3>2 DEF TrustOK
  <2>3. CASE o = targetObject /\ \E res : res # "Removed" /\ Tell(res)
    BY <2>1, <2>3
  <2>4. CASE o = targetObject /\ pc' = "settleKeeper" /\ pub' # "Published"
    BY <2>0, <2>4
  <2> QED BY <1>0, <1>4, <2>2, <2>3, <2>4, SettledSteps
<1>5. CASE Worker /\ pc = "boundary"
  <2>1. ledger' = ledger /\ results' = results /\ Acting
    BY <1>0, <1>5, BoundarySteps DEF Acting
  <2> QED BY <1>5, <2>1 DEF TrustOK
<1> QED BY <1>0, <1>2, <1>3, <1>4, <1>5, StepKinds

\* As many actions on an allocation as it has pathnames are one for each of them, and then none
\* of them is a keeper's.
LEMMA AllTargets ==
    ASSUME IInv, NEW o \in Objects, Cardinality(Members(o)) = Cardinality(Covered(o))
    PROVE  /\ \A p \in Members(o) : \E i \in Covered(o) : plan[i].target = p
           /\ o \notin KeeperObjects
<1> DEFINE f == [i \in Covered(o) |-> plan[i].target]
<1>1. plan \in Seq(Action) /\ Executable(plan, GroupOf, InodeOf, DatasetOf)
  BY PlansOK DEF IInv, TypeOK
<1>2. \A i \in DOMAIN plan : plan[i].target \in Paths /\ plan[i].keeper \in Paths
  <2> SUFFICES ASSUME NEW i \in DOMAIN plan PROVE plan[i].target \in Paths /\ plan[i].keeper \in Paths
    OBVIOUS
  <2>1. plan[i] \in Action
    BY <1>1
  <2> QED BY <2>1 DEF Action
<1>3. IsFiniteSet(Members(o))
  BY ConstantsOK, FS_Subset DEF Members
<1>4. f \in Injection(Covered(o), Members(o))
  <2>1. f \in [Covered(o) -> Members(o)]
    BY <1>2 DEF Covered, Members
  <2>2. \A i, j \in Covered(o) : f[i] = f[j] => i = j
    BY TargetsApart DEF Covered
  <2> HIDE DEF f
  <2> QED BY <2>1, <2>2 DEF Injection, IsInjective
<1>5. f \in Surjection(Covered(o), Members(o))
  <2> HIDE DEF f
  <2> QED BY <1>3, <1>4, FS_Injection
<1>6. \A p \in Members(o) : \E i \in Covered(o) : plan[i].target = p
  BY <1>5 DEF Surjection
<1>7. ASSUME NEW j \in DOMAIN plan, InodeOf[plan[j].keeper] = o PROVE FALSE
  <2>1. plan[j].keeper \in Members(o)
    BY <1>2, <1>7 DEF Members
  <2>2. PICK i \in DOMAIN plan : plan[i].target = plan[j].keeper
    BY <1>6, <2>1 DEF Covered
  <2> QED BY <1>1, <2>2 DEF Executable
<1> QED BY <1>6, <1>7 DEF KeeperObjects

FreedInv == LedgerInv /\ NamesOK /\ GoneOK /\ TrustOK

LEMMA FreedInvInit == Init => FreedInv
<1>1. Init => GoneOK
  BY DEF Init, GoneOK, ActionSteps
<1>2. Init => TrustOK
  BY DEF Init, TrustOK, Acting, ActionSteps
<1> QED BY <1>1, <1>2, LedgerInvInit, NamesInit DEF FreedInv

LEMMA FreedInvNext == ASSUME FreedInv, [Next]_vars PROVE FreedInv'
<1>1. ReportInv /\ IInv /\ GateHolds /\ StageOK /\ KeptOK
  BY DEF FreedInv, LedgerInv, ReportInv, TrustInv
<1> QED BY <1>1, LedgerInvNext, NamesNext, GoneNext, SettledNext DEF FreedInv

LEMMA DigestHolds == ASSUME FreedInv PROVE ReplacementIsDigest
<1>0. /\ IInv /\ LedgerOK /\ ClonesOK /\ Progress
      /\ plan \in Seq(Action) /\ Executable(plan, GroupOf, InodeOf, DatasetOf)
  BY PlansOK DEF FreedInv, LedgerInv, ReportInv, TrustInv, IInv, TypeOK
<1> SUFFICES ASSUME ~Rewinds, NEW i \in DOMAIN results, results[i].res = "Removed",
                    dir[Home(plan[i].target)] # None
             PROVE  /\ (/\ plan[i].kind = "Hardlink"
                        /\ Identity(Home(plan[i].target)) = ledger[InodeOf[plan[i].keeper]].id)
                         => node[dir[Home(plan[i].target)]].data = GroupOf[plan[i].target]
                    /\ (/\ plan[i].kind = "Reflink"
                        /\ Identity(Home(plan[i].target)) = clones[plan[i].target])
                         => node[dir[Home(plan[i].target)]].data = GroupOf[plan[i].target]
  BY DEF ReplacementIsDigest
<1>1. i \in DOMAIN plan
  <2>1. Len(results) <= Len(plan) /\ results \in Seq(Outcome)
    BY <1>0 DEF Progress, IInv, StepOK, TypeOK, Opening, ActionSteps, Steps
  <2> QED BY <1>0, <2>1
<1>2. plan[i].target \in Paths /\ plan[i].keeper \in Paths
  <2>1. plan[i] \in Action
    BY <1>0, <1>1
  <2> QED BY <2>1 DEF Action
<1>3. Acting
  <2>1. results # <<>>
    OBVIOUS
  <2> QED BY <1>0, <2>1 DEF Progress, Acting, IInv, TypeOK, Opening, ActionSteps, Steps
<1>4. /\ Identity(Home(plan[i].target)).ino = dir[Home(plan[i].target)]
      /\ Identity(Home(plan[i].target)).ctime = node[dir[Home(plan[i].target)]].ctime
  BY DEF Identity
<1>5. ASSUME Identity(Home(plan[i].target)) = ledger[InodeOf[plan[i].keeper]].id
      PROVE  node[dir[Home(plan[i].target)]].data = GroupOf[plan[i].target]
  <2> DEFINE o == InodeOf[plan[i].keeper]
  <2>1. Tells(ledger[o].id, o)
    BY <1>0, <1>2, <1>3 DEF LedgerOK, Objects
  <2>2. dir[Home(plan[i].target)] = o /\ Right(o)
    BY <1>4, <1>5, <2>1 DEF Tells
  <2>3. node[o].data = GroupOf[plan[i].keeper]
    BY <1>2, <2>2 DEF Right, Members
  <2>4. GroupOf[plan[i].keeper] = GroupOf[plan[i].target]
    BY <1>0, <1>1 DEF Executable
  <2> QED BY <2>2, <2>3, <2>4
<1>6. ASSUME plan[i].kind = "Reflink", Identity(Home(plan[i].target)) = clones[plan[i].target]
      PROVE  node[dir[Home(plan[i].target)]].data = GroupOf[plan[i].target]
  <2>1. VouchesFor(clones[plan[i].target], plan[i].target)
    BY <1>0, <1>6 DEF ClonesOK
  <2> QED BY <1>4, <1>6, <2>1 DEF VouchesFor
<1> QED BY <1>5, <1>6

LEMMA FreedHolds == ASSUME FreedInv PROVE CompletedIsFreed
<1>0. IInv /\ LedgerOK /\ NamesOK /\ GoneOK /\ TrustOK /\ Progress
  BY DEF FreedInv, LedgerInv, ReportInv, TrustInv
<1> SUFFICES ASSUME ending = "Finished", NEW o \in Objects, Covered(o) # {},
                    Realization(o) = "Completed"
             PROVE  /\ ledger[o].settled
                    /\ node[o].ctime = ledger[o].id.ctime => Nlink(o) = Links(o)
                    /\ o \notin touched =>
                         node[o].outside = 0 /\ \A l \in Locs : dir[l] = o => l \in Quars
  BY DEF CompletedIsFreed
<1>1. /\ Covered(o) \subseteq DOMAIN results /\ ResultsOf(o) = {"Removed"}
      /\ Cardinality(Members(o)) = Cardinality(Covered(o))
      /\ Links(o) = Cardinality(Members(o))
  BY DEF Realization
<1>2. (\A p \in Members(o) : \E i \in Covered(o) : plan[i].target = p) /\ o \notin KeeperObjects
  BY <1>0, <1>1, AllTargets
<1>3. Acting /\ pc = "done"
  <2>1. pc = "done"
    BY <1>0 DEF Progress, IInv, TypeOK, Opening, ActionSteps, Steps
  <2> QED BY <2>1 DEF Acting
<1>4. \A i \in Covered(o) : i \in DOMAIN results /\ results[i].res = "Removed"
  BY <1>1 DEF ResultsOf
<1>5. ledger[o].settled
  <2>1. \A i \in DOMAIN results : InodeOf[plan[i].target] = o => results[i].res = "Removed"
    <3> SUFFICES ASSUME NEW i \in DOMAIN results, InodeOf[plan[i].target] = o
                 PROVE  i \in DOMAIN plan
      BY <1>4 DEF Covered
    <3>1. Len(results) <= Len(plan) /\ results \in Seq(Outcome) /\ plan \in Seq(Action)
      BY <1>0, PlansOK DEF Progress, IInv, StepOK, TypeOK, Opening, ActionSteps, Steps
    <3> QED BY <3>1
  <2> QED BY <1>0, <1>2, <1>3, <2>1 DEF TrustOK
<1>6. node[o].ctime = ledger[o].id.ctime => Nlink(o) = Links(o)
  BY <1>0, <1>2, <1>3 DEF LedgerOK, Tells
<1>7. ASSUME o \notin touched PROVE node[o].outside = 0 /\ \A l \in Locs : dir[l] = o => l \in Quars
  <2>1. o \in Lone
    BY <1>2, <1>7 DEF Lone
  <2>2. node[o].outside = 0
    <3>1. IsFiniteSet(Members(o)) /\ Outside[o] \in Nat
      BY ConstantsOK, FS_Subset DEF Members, Objects
    <3>2. Cardinality(Members(o)) \in Nat
      BY <3>1, FS_CardinalityType
    <3>3. Outside[o] = 0
      BY <1>1, <3>1, <3>2 DEF Links
    <3> QED BY <1>0, <2>1, <3>3 DEF NamesOK
  <2>3. ASSUME NEW l \in Locs, dir[l] = o PROVE l \in Quars
    <3>1. l \in Homes \cup Quars /\ l[2] \in Members(o)
      BY <1>0, <2>1, <2>3 DEF NamesOK
    <3>2. CASE l \in Homes
      <4>1. l = Home(l[2])
        BY <3>2, NamesApart DEF Homes
      <4>2. PICK i \in Covered(o) : plan[i].target = l[2]
        BY <1>2, <3>1
      <4>3. results[i].res = "Removed" /\ i \in DOMAIN results /\ InodeOf[plan[i].target] = o
        BY <1>4, <4>2 DEF Covered
      <4>4. dir[Home(plan[i].target)] # InodeOf[plan[i].target]
        BY <1>0, <2>1, <4>3 DEF GoneOK
      <4> QED BY <2>3, <4>1, <4>2, <4>3, <4>4
    <3> QED BY <3>1, <3>2
  <2> QED BY <2>2, <2>3
<1> QED BY <1>5, <1>6, <1>7

\* What a finished report says of freed space: in a tree where nobody puts an mtime back, the
\* file that stands where a target was replaced, and that the runtime ledger or the clone's
\* ctime still recognizes (verify_target, RuntimeLedger), has the digest the target had; and
\* an object object_realization calls Completed is settled in the ledger, which counts its
\* names rightly while its ctime stands, and has no name left but the quarantined ones.
THEOREM LedgerKeepsItsWord == Spec => [](ReplacementIsDigest /\ CompletedIsFreed)
<1>1. Init => FreedInv
  BY FreedInvInit
<1>2. FreedInv /\ [Next]_vars => FreedInv'
  BY FreedInvNext
<1>3. FreedInv => ReplacementIsDigest /\ CompletedIsFreed
  BY DigestHolds, FreedHolds
<1> QED BY <1>1, <1>2, <1>3, PTL DEF Spec

-----------------------------------------------------------------------------
(***************************************************************************)
(* The batch is never in its own way: while nobody else moves, the ledger  *)
(* mirrors the file tree, and every action that fails has used up a fault. *)
(***************************************************************************)
\* Nobody else has moved yet.
Untouched == outsider <= MaxOutsider[plan] /\ (outsider = MaxOutsider[plan] => touched = {})

\* A staging name exists only from the step that makes it.
Unbuilt(i) ==
    \/ i > cur
    \/ i = cur /\ \/ plan[i].kind = "Delete"
                  \/ pc \in {"check", "statTarget", "hashTarget", "statKeeper", "hashKeeper",
                             "meta", "build"}
TempsOK ==
    /\ \A i \in DOMAIN plan : Unbuilt(i) => dir[Temp(plan[i].target)] = None
    /\ pc \in {"look", "move", "publish"} /\ act.kind # "Delete" => dir[temp] # None

\* A delete builds, publishes and puts back nothing.
KindOK ==
    pc \in {"meta", "build", "publish", "removeTemp", "putBack", "settleKeeper"}
      \/ (pc = "settleTarget" /\ pub # "Published") => act.kind # "Delete"

\* What stands in an action's way was found before the snapshots.
Cleared ==
    /\ pc \notin {"lease", "preflight", "obstacles"} /\ ending \notin {"Refused", "Failed"} =>
         \A i \in Runnable : Place(plan[i])
    /\ pc = "preflight2" \/ Acting => \A i \in Runnable : snap[DatasetOf[plan[i].target]] # None

\* Nobody else has moved, and the only staging name there may be is the running action's.
Quiet ==
    /\ outsider = MaxOutsider[plan]
    /\ \A p \in Paths : dir[Temp(p)] # None =>
         pc \in {"look", "move", "publish", "removeTemp"} /\ p = act.target

\* The running action's original is in quarantine, and the ledger does not know it yet; its
\* replacement is under the staging name; its replacement is in place.
Away == pc \in ActionSteps \ {"settleKeeper"} /\ whereabouts # None
Staged == pc \in {"look", "move", "publish", "removeTemp"} /\ dir[temp] # None
Put == pc \in {"settleTarget", "settleKeeper"} /\ pub = "Published" /\ act.kind # "Delete"

\* The names an allocation has, by the ledger and the running action.
Expected(o, l) ==
    \/ l \in ledger[o].paths /\ ~(Away /\ o = targetObject /\ l = target)
    \/ Away /\ o = targetObject /\ l = moved
    \/ Staged /\ act.kind = "Hardlink" /\ o = keeperObject /\ l = temp
    \/ Put /\ act.kind = "Hardlink" /\ o = keeperObject /\ l = target

\* The entry of an allocation: trusted, and right in all but the ctime.
EntryOK(o) ==
    /\ ledger[o].settled /\ ledger[o].paths # {} /\ ledger[o].paths \subseteq Homes \cup Quars
    /\ ledger[o].id \in Ids /\ ledger[o].id.ino = o /\ ledger[o].id.mtime = node[o].mtime
    /\ ledger[o].id.nlink = Cardinality(ledger[o].paths) + node[o].outside
    /\ Right(o)

\* Its ctime is right too, but for the running action's own marks.
Late == {"look", "move", "publish", "removeTemp", "putBack", "settleTarget", "settleKeeper"}
Marked(o) ==
    \/ pc \in ActionSteps \ {"settleKeeper"} /\ moved # None /\ o = targetObject
    \/ pc \in Late /\ act.kind = "Hardlink" /\ o = keeperObject

CloneAt(l) ==
    /\ dir[l] \in Inodes \ Objects
    /\ node[dir[l]].data # "symlink" /\ node[dir[l]].outside = 0
    /\ node[dir[l]].mtime = node[targetObject].mtime
    /\ \A k \in Locs : dir[k] = dir[l] => k = l

Mirrored ==
    /\ \A o \in Objects :
        /\ EntryOK(o)
        /\ \A l \in Locs : dir[l] = o <=> Expected(o, l)
        /\ ~Marked(o) => ledger[o].id.ctime = node[o].ctime
    /\ Away => target \in ledger[targetObject].paths /\ moved \notin ledger[targetObject].paths
    /\ Away /\ ~Put => dir[target] = None
    /\ Put /\ act.kind = "Hardlink" => target \notin ledger[keeperObject].paths
    /\ pc \in ActionSteps /\ act.kind = "Reflink" =>
        /\ pc = "build" => seen.mtime = node[targetObject].mtime
        /\ Staged => CloneAt(temp)
        /\ Put => CloneAt(target)
    /\ \A i \in DOMAIN plan : i > cur \/ (i = cur /\ pc \in ActionSteps /\ moved = None) =>
        \A q \in QuarsOf(plan[i].target) : dir[q] = None

MirrorOK == Quiet /\ Acting => Mirrored

\* Every action that failed has used up a fault.
Lost == {i \in DOMAIN results : i \notin obstacles /\ results[i].res # "Removed"}
Failing == pc \in ActionSteps /\ pub \in {"NotMoved", "Failed", "RolledBack", "Stranded"}
CountOK == Quiet => Cardinality(Lost) + (IF Failing THEN 1 ELSE 0) + faults <= MaxFaults[plan]

OwnInv == ReportInv /\ Untouched /\ TempsOK /\ KindOK /\ Cleared
          /\ MirrorOK /\ CountOK

\* The plan is given once.
LEMMA PlanStays == ASSUME IInv, [Next]_vars PROVE plan' = plan
<1>1. CASE Worker
  BY <1>1, StepKinds, OpeningSteps, ActionReports, BoundarySteps
<1>2. CASE OutsiderMoves
  BY <1>2 DEF OutsiderMoves, OutsiderWrites, OutsiderPuts, OutsiderRemoves, OutsiderLinks,
              Rest, batchVars
<1>3. CASE ~Worker /\ ~OutsiderMoves
  BY <1>3 DEF Next, Cancel, Done, vars, batchVars
<1> QED BY <1>1, <1>2, <1>3

LEMMA UntouchedNext == ASSUME IInv, Untouched, [Next]_vars PROVE Untouched'
<1>p. plan' = plan
  BY PlanStays
<1>0. outsider \in Nat /\ MaxOutsider[plan] \in Nat
  BY ConstantsOK DEF IInv, TypeOK
<1>1. CASE Worker
  <2>1. UNCHANGED <<touched, outsider>>
    BY <1>1, StepKinds, OpeningSteps, ActionReports, BoundarySteps
  <2> QED BY <1>p, <2>1 DEF Untouched
<1>2. CASE OutsiderMoves
  <2>1. outsider' = outsider - 1 /\ outsider > 0
    BY <1>2 DEF OutsiderMoves, OutsiderWrites, OutsiderPuts, OutsiderRemoves, OutsiderLinks, Outsider
  <2> QED BY <1>0, <1>p, <2>1 DEF Untouched
<1>3. CASE ~Worker /\ ~OutsiderMoves
  BY <1>3, <1>p DEF Next, Cancel, Done, vars, Untouched
<1> QED BY <1>1, <1>2, <1>3

\* Outside acts leave the staging names alone.
LEMMA TempsStay ==
    ASSUME IInv, [Next]_vars, ~Worker
    PROVE  UNCHANGED batchVars /\ \A p \in Paths : dir'[Temp(p)] = dir[Temp(p)]
<1>1. UNCHANGED batchVars
  BY StepKinds
<1>2. ASSUME NEW p \in Paths PROVE dir'[Temp(p)] = dir[Temp(p)]
  <2>1. CASE OutsiderMoves
    <3>1. PICK l \in Homes \cup Quars :
            OutsiderWrites(l) \/ OutsiderPuts(l) \/ OutsiderRemoves(l) \/ OutsiderLinks(l)
      BY <2>1 DEF OutsiderMoves
    <3>a. Temp(p) # l
      BY NamesApart DEF Homes, Quars
    <3>2. Temp(p) # l /\ Temp(p) \in Locs /\ dir \in [Locs -> Inodes \cup {None}]
      BY <3>a, NamesAreLocs DEF IInv, TypeOK
    <3>3. CASE OutsiderWrites(l) \/ OutsiderLinks(l)
      BY <3>3 DEF OutsiderWrites, OutsiderLinks
    <3>4. CASE OutsiderRemoves(l)
      BY <3>2, <3>4 DEF OutsiderRemoves
    <3>5. CASE OutsiderPuts(l)
      <4>1. PICK i \in Inodes : dir' = [dir EXCEPT ![l] = i]
        BY <3>5 DEF OutsiderPuts
      <4> QED BY <3>2, <4>1
    <3> QED BY <3>1, <3>3, <3>4, <3>5
  <2>2. CASE ~OutsiderMoves
    BY <2>2 DEF Next, Cancel, Done, vars, treeVars
  <2> QED BY <2>1, <2>2
<1> QED BY <1>1, <1>2

LEMMA TempsInit == Init => TempsOK /\ Untouched /\ Cleared
<1> SUFFICES ASSUME Init PROVE TempsOK /\ Untouched /\ Cleared
  OBVIOUS
<1>0. pc = "lease" /\ plan \in Seq(Action)
  BY PlansOK DEF Init
<1>1. \A i \in DOMAIN plan : dir[Temp(plan[i].target)] = None
  <2> SUFFICES ASSUME NEW i \in DOMAIN plan PROVE dir[Temp(plan[i].target)] = None
    OBVIOUS
  <2>1. plan[i] \in Action
    BY <1>0
  <2>2. Temp(plan[i].target) \in Locs /\ Temp(plan[i].target) \notin Homes
    BY <2>1, NamesAreLocs, NamesApart DEF Action, Homes
  <2> QED BY <2>2 DEF Init
<1>2. Untouched
  BY ConstantsOK DEF Init, Untouched
<1> QED BY <1>0, <1>1, <1>2 DEF TempsOK, Cleared, Acting, ActionSteps

\* The keeper's half is the last step of an action.
LEMMA KeeperReports == ASSUME IInv, SettleKeeper PROVE pc' = "boundary"
<1> USE DEF Report, Goto
<1>1. pub \in {"NotMoved", "RolledBack", "Stranded", "Published"}
  BY DEF SettleKeeper, IInv, StepOK
<1>2. CASE SettlePublished
  BY <1>2 DEF SettlePublished, Unsettle
<1>3. CASE SettleFailed
  <2>1. CASE pub = "NotMoved"
    BY <1>3, <2>1 DEF SettleFailed
  <2>2. CASE pub = "RolledBack"
    BY <1>3, <2>2 DEF SettleFailed
  <2>3. CASE pub = "Stranded"
    BY <1>3, <2>3 DEF SettleFailed
  <2> QED BY <1>1, <1>3, <2>1, <2>2, <2>3 DEF SettleFailed
<1> QED BY <1>2, <1>3 DEF SettleKeeper

\* The steps of an action make the staging name once, and never for a delete.
LEMMA TempsNext ==
    ASSUME IInv, GateHolds, Progress, TempsOK, [Next]_vars
    PROVE  TempsOK'
<1>0. /\ plan \in Seq(Action) /\ cur \in 0..Len(plan) /\ dir \in [Locs -> Inodes \cup {None}]
      /\ \A i \in DOMAIN plan : plan[i].target \in Paths /\ Temp(plan[i].target) \in Locs
  BY PlansOK, TargetsApart, NamesAreLocs DEF IInv, TypeOK
<1>1. CASE ~Worker
  <2>1. UNCHANGED <<plan, pc, cur>> /\ \A p \in Paths : dir'[Temp(p)] = dir[Temp(p)]
    BY <1>1, TempsStay DEF batchVars
  <2>2. pc \in {"look", "move", "publish"} => act.target \in Paths
    BY ActionFiles DEF IInv, StepOK, ActionSteps, Steps
  <2>3. act' = act /\ temp' = temp
    BY <2>1 DEF act, temp
  <2>4. pc \in {"look", "move", "publish"} => dir'[temp] = dir[temp]
    BY <2>1, <2>2 DEF temp
  <2> QED BY <1>0, <2>1, <2>3, <2>4 DEF TempsOK, Unbuilt
<1>2. CASE Worker /\ pc \in Opening
  BY <1>2, OpeningSteps DEF TempsOK, Unbuilt, Opening, treeVars
<1>3. CASE Worker /\ pc = "boundary"
  <2>1. UNCHANGED <<dir, plan>> /\ pc' \in {"done", "check"} /\ cur' \in {cur, cur + 1}
        /\ (pc' = "done" => cur' = cur) /\ (pc' = "check" => cur' = cur + 1)
    BY <1>3, BoundarySteps DEF treeVars
  <2> QED BY <1>0, <2>1 DEF TempsOK, Unbuilt
<1>4. CASE Worker /\ pc \in ActionSteps
  <2>0. cur \in DOMAIN plan /\ act = plan[cur] /\ act.kind \in Kinds /\ UNCHANGED <<plan, cur>>
    BY <1>4, ActionFiles, ActionReports DEF act, IInv, StepOK
  <2>1. \A i \in DOMAIN plan : i # cur => dir'[Temp(plan[i].target)] = dir[Temp(plan[i].target)]
    BY <1>0, <1>4, <2>0, OwnNames, TargetsApart, NamesApart
  <2>2. /\ Unbuilt(cur)' => dir'[temp] = None
        /\ pc' \in {"look", "move", "publish"} /\ act.kind # "Delete" => dir'[temp] # None
    <3> DEFINE Early == {"check", "statTarget", "hashTarget", "statKeeper", "hashKeeper", "meta",
                         "build"}
    <3>1. Unbuilt(cur) <=> act.kind = "Delete" \/ pc \in Early
      BY <1>0, <2>0 DEF Unbuilt
    <3>2. Unbuilt(cur)' <=> act.kind = "Delete" \/ pc' \in Early
      BY <1>0, <2>0 DEF Unbuilt
    <3>3. CASE Build
      <4>1. act.kind # "Delete" /\ pc' = "look" /\ dir'[temp] # None
        <5>1. temp \in Locs
          BY <1>0, <2>0 DEF temp
        <5>2. act.kind # "Delete" /\ pc' = "look"
          BY <3>3 DEF Build, BuildLink, BuildClone, Goto
        <5>3. dir'[temp] # None
          BY <1>0, <3>3, <5>1, ConstantsOK DEF Build, BuildLink, BuildClone
        <5> QED BY <5>2, <5>3
      <4> QED BY <3>2, <4>1
    <3>4. CASE QuarantineMove
      <4>1. /\ dir'[temp] = dir[temp] /\ pc = "move"
            /\ pc' = "settleTarget" \/ (pc' = "publish" /\ act.kind # "Delete")
        <5>1. PICK n \in 0..MaxSuffix : Rename(target, Quar(act.target, n))
          BY <3>4 DEF QuarantineMove
        <5>a. temp # target /\ temp # Quar(act.target, n)
          BY NamesApart DEF temp, target
        <5>2. temp \in Locs /\ temp # target /\ temp # Quar(act.target, n)
          BY <1>0, <2>0, <5>a DEF temp
        <5>3. dir'[temp] = dir[temp]
          BY <1>0, <5>1, <5>2 DEF Rename
        <5> QED BY <3>4, <5>3 DEF QuarantineMove, Goto
      <4> QED BY <2>0, <3>1, <3>2, <4>1 DEF TempsOK, temp
    <3>5. CASE Publish \/ RemoveTemp
      <4>1. /\ pc' \in {"settleTarget", "putBack"}
            /\ dir[temp] = None => dir'[temp] = None
        <5>1. temp \in Locs /\ temp # target
          BY <1>0, <2>0, NamesApart DEF temp, target
        <5> QED BY <1>0, <3>5, <5>1 DEF Publish, RemoveTemp, RenameOK, Goto, treeVars
      <4> QED BY <2>0, <3>1, <3>2, <4>1 DEF TempsOK, temp
    <3>6. CASE PutBack
      <4>1. pc' = "settleTarget" /\ dir'[temp] = dir[temp]
        <5>1. temp \in Locs /\ temp # target /\ temp # moved
          BY <1>0, <2>0, <3>6, NamesApart DEF temp, target, PutBack, GateHolds
        <5> QED BY <1>0, <3>6, <5>1 DEF PutBack, Rename, Goto
      <4> QED BY <2>0, <3>1, <3>2, <4>1 DEF TempsOK, temp
    <3>7. CASE ~(Build \/ QuarantineMove \/ Publish \/ RemoveTemp \/ PutBack)
      <4>1. dir' = dir
        BY <1>4, <3>7, TreeSteps DEF treeVars
      <4>2. \/ pc' \notin Early \cup {"look", "move", "publish"}
            \/ pc \in Early /\ (pc' \in Early \/ (pc' = "look" /\ act.kind = "Delete"))
            \/ pc = "look" /\ pc' = "move"
        <5>1. FirstStep = "look" => act.kind = "Delete"
          BY <2>0 DEF FirstStep, Kinds
        <5>2. FirstStep \in {"look", "build", "meta"}
          BY <2>0 DEF FirstStep, Kinds
        <5> USE DEF Goto, Report
        <5>3. CASE ApplyOne \/ ReadMeta \/ BuildFails
          BY <5>3 DEF ApplyOne, ReadMeta, BuildFails
        <5>4. CASE StatTarget \/ HashTarget
          BY <5>4 DEF StatTarget, HashTarget, Stat, Hash
        <5>5. CASE StatKeeper \/ HashKeeper
          BY <5>1, <5>2, <5>5 DEF StatKeeper, HashKeeper, Stat, Hash
        <5>6. CASE QuarantineLook \/ QuarantineFails \/ PublishFails \/ PutBackFails
          BY <5>6 DEF QuarantineLook, QuarantineFails, NotMoved, PublishFails, PutBackFails
        <5>7. CASE SettleTarget
          BY <5>7 DEF SettleTarget, Unsettle
        <5>8. CASE SettleKeeper
          <6>1. pc' = "boundary"
            BY <5>8, KeeperReports
          <6> QED BY <6>1
        <5> QED BY <1>4, <3>7, <5>3, <5>4, <5>5, <5>6, <5>7, <5>8, ActionKinds
      <4> QED BY <2>0, <3>1, <3>2, <4>1, <4>2 DEF TempsOK, temp
    <3> QED BY <3>3, <3>4, <3>5, <3>6, <3>7
  <2>3. act' = act /\ temp' = temp
    BY <2>0 DEF act, temp
  <2>4. ASSUME NEW i \in DOMAIN plan, Unbuilt(i)' PROVE dir'[Temp(plan[i].target)] = None
    <3>1. CASE i = cur
      BY <2>0, <2>2, <2>4, <3>1 DEF temp
    <3>2. CASE i # cur
      <4>1. Unbuilt(i)
        BY <1>0, <2>0, <2>4, <3>2 DEF Unbuilt
      <4> QED BY <2>1, <3>2, <4>1 DEF TempsOK
    <3> QED BY <3>1, <3>2
  <2> QED BY <2>0, <2>2, <2>3, <2>4 DEF TempsOK
<1> QED BY <1>1, <1>2, <1>3, <1>4, StepKinds

LEMMA KindNext == ASSUME IInv, KindOK, [Next]_vars PROVE KindOK'
<1>1. CASE ~Worker
  <2>1. UNCHANGED batchVars
    BY <1>1, StepKinds
  <2> QED BY <2>1 DEF batchVars, KindOK, act
<1>2. CASE Worker /\ pc \in Opening \cup {"boundary"}
  <2>1. pc' \in Opening \cup {"done", "boundary", "check"}
    BY <1>2, OpeningSteps, BoundarySteps
  <2> QED BY <2>1 DEF KindOK, Opening
<1>3. CASE Worker /\ pc \in ActionSteps
  <2>0. act' = act /\ act.kind \in Kinds
    BY <1>3, ActionReports, ActionFiles DEF act, IInv, StepOK
  <2>1. FirstStep \in {"build", "meta"} => act.kind # "Delete"
    BY <2>0 DEF FirstStep, Kinds
  <2>2. FirstStep \in {"look", "build", "meta"}
    BY <2>0 DEF FirstStep, Kinds
  <2> USE <2>0 DEF KindOK, Report, Goto
  <2>3. CASE ApplyOne \/ ReadMeta \/ Build \/ BuildFails
    BY <2>3 DEF ApplyOne, ReadMeta, Build, BuildFails
  <2>4. CASE StatTarget \/ HashTarget
    BY <2>4 DEF StatTarget, HashTarget, Stat, Hash
  <2>5. CASE StatKeeper \/ HashKeeper
    BY <2>1, <2>2, <2>5 DEF StatKeeper, HashKeeper, Stat, Hash
  <2>6. CASE QuarantineLook \/ QuarantineMove \/ QuarantineFails
    BY <2>6 DEF QuarantineLook, QuarantineMove, QuarantineFails, NotMoved
  <2>7. CASE Publish \/ PublishFails \/ RemoveTemp \/ PutBack \/ PutBackFails
    BY <2>7 DEF Publish, PublishFails, RemoveTemp, PutBack, PutBackFails
  <2>8. CASE SettleTarget
    BY <2>8 DEF SettleTarget, Unsettle
  <2>9. CASE SettleKeeper
    <3>1. pc' = "boundary"
      BY <2>9, KeeperReports
    <3> QED BY <3>1
  <2> QED BY <1>3, <2>3, <2>4, <2>5, <2>6, <2>7, <2>8, <2>9, ActionKinds
<1> QED BY <1>1, <1>2, <1>3, StepKinds

LEMMA ClearedNext == ASSUME IInv, Progress, StoppedOK, Cleared, [Next]_vars PROVE Cleared'
<1>1. CASE ~Worker
  <2>1. UNCHANGED batchVars
    BY <1>1, StepKinds
  <2> QED BY <2>1 DEF batchVars, Cleared, Runnable, Acting, Place
<1>2. CASE Worker /\ pc \in Opening
  <2>0. LeaseRefused \/ LeaseTaken \/ PreflightFirst \/ FindObstacles \/ CreateSnapshot
          \/ SnapshotFails \/ SnapshotsMade \/ PreflightSecond
    BY <1>2 DEF Worker, Opening, Boundary, ApplyOne, StatTarget,
       HashTarget, StatKeeper, HashKeeper, Stat, Hash, ReadMeta, BuildFails, Build,
       QuarantineLook, QuarantineMove, QuarantineFails, Publish, PublishFails, PutBack,
       PutBackFails, RemoveTemp, SettleTarget, SettleKeeper
  <2>1. plan' = plan /\ ending = "running"
    BY <1>2, OpeningSteps DEF Progress
  <2>2. \A a : Place(a)' <=> Place(a)
    BY DEF Place
  <2> USE <2>1 DEF Cleared, Runnable, Acting, ActionSteps, Steps, Goto, End
  <2>3. CASE LeaseRefused \/ LeaseTaken
    BY <2>3 DEF LeaseRefused, LeaseTaken
  <2>4. CASE PreflightFirst
    BY <2>4 DEF PreflightFirst
  <2>5. CASE FindObstacles
    <3>1. PICK found \in MayFind : obstacles' = found \cup setAside
      BY <2>5 DEF FindObstacles
    <3>2. \A i \in DOMAIN plan : i \notin obstacles' => Place(plan[i])
      BY <3>1 DEF MayFind
    <3>3. pc' \in {"done", "snapshots"} /\ (pc' = "done" => ending' = "Refused")
      BY <2>5 DEF FindObstacles
    <3> QED BY <2>2, <3>2, <3>3
  <2>6. CASE CreateSnapshot
    BY <2>2, <2>6 DEF CreateSnapshot
  <2>7. CASE SnapshotFails
    <3>1. UNCHANGED <<obstacles, snap>> /\ pc = "snapshots" /\ pc' = "done"
          /\ ending' \in {"Failed", "Aborted"}
      BY <2>7 DEF SnapshotFails, FailedSnapshot
    <3> QED BY <2>2, <3>1
  <2>8. CASE SnapshotsMade
    <3>1. /\ UNCHANGED <<obstacles, snap, ending>> /\ pc = "snapshots" /\ pc' = "preflight2"
          /\ ~\E d \in Datasets : NextAffected(d)
      BY <2>8 DEF SnapshotsMade
    <3>2. \A i \in DOMAIN plan \ obstacles : snap[DatasetOf[plan[i].target]] # None
      BY <3>1, AllSnapped DEF StoppedOK
    <3> QED BY <2>2, <3>1, <3>2
  <2>9. CASE PreflightSecond
    <3>1. /\ UNCHANGED <<obstacles, snap>> /\ pc = "preflight2"
          /\ \/ pc' = "boundary" /\ ending' = ending
             \/ pc' = "done" /\ ending' = "Aborted"
      BY <2>9 DEF PreflightSecond
    <3> QED BY <2>2, <3>1
  <2> QED BY <2>0, <2>3, <2>4, <2>5, <2>6, <2>7, <2>8, <2>9
<1>3. CASE Worker /\ pc \in ActionSteps \cup {"boundary"}
  <2>1. UNCHANGED <<plan, obstacles, snap>>
    BY <1>3, ActionReports, BoundarySteps
  <2>2. Acting /\ pc \notin {"lease", "preflight", "obstacles", "preflight2"} /\ ending = "running"
    BY <1>3 DEF Acting, ActionSteps, Steps, Progress
  <2> QED BY <2>1, <2>2 DEF Cleared, Runnable, Place
<1> QED BY <1>1, <1>2, <1>3, StepKinds

\* A quiet state is reached from a quiet one, and by the batch.
LEMMA QuietBack ==
    ASSUME IInv, GateHolds, Progress, StageOK, Untouched, TempsOK, [Next]_vars, Quiet'
    PROVE  Quiet /\ (Worker \/ UNCHANGED <<treeVars, batchVars, touched, faults, outsider>>)
<1>0. outsider \in Nat /\ MaxOutsider[plan] \in Nat /\ dir \in [Locs -> Inodes \cup {None}]
  BY ConstantsOK DEF IInv, TypeOK
<1>p. plan' = plan
  BY PlanStays
<1>1. ~OutsiderMoves
  <2> SUFFICES ASSUME OutsiderMoves PROVE FALSE
    OBVIOUS
  <2>1. outsider' = outsider - 1 /\ outsider > 0
    BY DEF OutsiderMoves, OutsiderWrites, OutsiderPuts, OutsiderRemoves, OutsiderLinks, Outsider
  <2> QED BY <1>0, <1>p, <2>1 DEF Quiet, Untouched
<1>2. CASE ~Worker
  <2>1. UNCHANGED <<treeVars, batchVars, touched, faults, outsider>>
    BY <1>1, <1>2 DEF Next, Cancel, Done, vars
  <2> QED BY <2>1 DEF Quiet, treeVars, batchVars, act
<1>3. CASE Worker
  <2>0. outsider = MaxOutsider[plan]
    <3>1. outsider' = outsider
      BY <1>3, StepKinds, OpeningSteps, ActionReports, BoundarySteps
    <3> QED BY <1>p, <3>1 DEF Quiet
  <2>1. SUFFICES ASSUME NEW p \in Paths, dir[Temp(p)] # None
                 PROVE  pc \in {"look", "move", "publish", "removeTemp"} /\ p = act.target
    BY <1>3, <2>0 DEF Quiet
  <2>2. CASE pc \in Opening
    <3>1. dir' = dir /\ pc' \in Opening \cup {"done", "boundary"}
      BY <1>3, <2>2, OpeningSteps DEF treeVars
    <3> QED BY <2>1, <3>1 DEF Quiet, Opening
  <2>3. CASE pc = "boundary"
    <3>1. dir' = dir /\ pc' \in {"done", "check"}
      BY <1>3, <2>3, BoundarySteps DEF treeVars
    <3> QED BY <2>1, <3>1 DEF Quiet
  <2>4. CASE pc \in ActionSteps
    <3>0. /\ cur \in DOMAIN plan /\ act.target \in Paths /\ act' = act /\ plan[cur] = act
          /\ act.kind \in Kinds
      BY <1>3, <2>4, ActionFiles, ActionReports DEF act, IInv, StepOK
    <3>1. CASE p # act.target
      <4>1. dir'[Temp(p)] = dir[Temp(p)]
        BY <1>3, <3>1, OwnNames, NamesApart, NamesAreLocs
      <4> QED BY <2>1, <3>0, <3>1, <4>1 DEF Quiet
    <3>2. CASE p = act.target
      <4>0. ~Unbuilt(cur) /\ temp = Temp(p) /\ temp \in Locs
        BY <2>1, <3>0, <3>2, NamesAreLocs DEF TempsOK, temp
      <4>1. pc \in {"look", "move", "publish", "removeTemp", "putBack", "settleTarget",
                    "settleKeeper"}
        BY <2>4, <3>0, <4>0 DEF Unbuilt, ActionSteps, Steps
      <4>2. CASE pc \in {"putBack", "settleTarget", "settleKeeper"}
        <5>1. dir'[temp] = dir[temp]
          <6>1. CASE PutBack
            <7>1. temp # moved /\ temp # target
              BY <6>1, NamesApart DEF PutBack, GateHolds, temp, target
            <7> QED BY <1>0, <4>0, <6>1, <7>1 DEF PutBack, Rename
          <6>2. CASE ~PutBack
            <7>1. ~(Build \/ QuarantineMove \/ Publish \/ RemoveTemp)
              BY <4>2 DEF Build, QuarantineMove, Publish, RemoveTemp
            <7> QED BY <1>3, <6>2, <7>1, TreeSteps DEF treeVars
          <6> QED BY <6>1, <6>2
        <5>2. pc' \notin {"look", "move", "publish", "removeTemp"}
          <6>1. SettleTarget \/ SettleKeeper \/ PutBack \/ PutBackFails
            BY <1>3, <2>4, <4>2, ActionKinds DEF ApplyOne, StatTarget, HashTarget, StatKeeper,
               HashKeeper, ReadMeta, Build, BuildFails, QuarantineLook, QuarantineMove,
               QuarantineFails, Publish, PublishFails, RemoveTemp
          <6>2. StageOK'
            BY <1>3, <2>4, StageSteps
          <6>3. CASE PutBack \/ PutBackFails
            BY <6>3 DEF PutBack, PutBackFails, Goto
          <6>4. CASE SettleTarget
            BY <6>4 DEF SettleTarget, Unsettle, Report, Goto
          <6>5. CASE SettleKeeper
            BY <6>5, KeeperReports
          <6> QED BY <6>1, <6>3, <6>4, <6>5
        <5> QED BY <2>1, <3>0, <4>0, <5>1, <5>2 DEF Quiet
      <4> QED BY <3>2, <4>1, <4>2
    <3> QED BY <3>1, <3>2
  <2> QED BY <1>3, <2>2, <2>3, <2>4, StepKinds
<1> QED BY <1>2, <1>3

-----------------------------------------------------------------------------
\* Two identities with the same fields are the same.
LEMMA SameFields ==
    ASSUME NEW v \in Ids, NEW w \in Ids, w.ino = v.ino, w.mtime = v.mtime
    PROVE  /\ w.nlink = v.nlink => w = [v EXCEPT !.ctime = w.ctime]
           /\ w.nlink = v.nlink + 1 => w = [v EXCEPT !.ctime = w.ctime, !.nlink = @ + 1]
           /\ w.nlink = v.nlink /\ w.ctime = v.ctime => w = v
<1>1. /\ v = [ino |-> v.ino, mtime |-> v.mtime, ctime |-> v.ctime, nlink |-> v.nlink]
      /\ w = [ino |-> w.ino, mtime |-> w.mtime, ctime |-> w.ctime, nlink |-> w.nlink]
  BY DEF Ids
<1>2. \A c : [v EXCEPT !.ctime = c]
                = [ino |-> v.ino, mtime |-> v.mtime, ctime |-> c, nlink |-> v.nlink]
  BY DEF Ids
<1>3. ASSUME NEW c \in Nat
      PROVE  [v EXCEPT !.ctime = c, !.nlink = @ + 1]
                = [ino |-> v.ino, mtime |-> v.mtime, ctime |-> c, nlink |-> v.nlink + 1]
  <2>1. PICK u \in Ids : u = [v EXCEPT !.ctime = c]
    BY DEF Ids
  <2>2. u = [ino |-> v.ino, mtime |-> v.mtime, ctime |-> c, nlink |-> v.nlink]
    BY <2>1 DEF Ids
  <2>3. PICK d \in Nat : d = v.nlink + 1
    BY DEF Ids
  <2>4. [u EXCEPT !.nlink = d]
          = [ino |-> v.ino, mtime |-> v.mtime, ctime |-> c, nlink |-> d]
    BY <2>2 DEF Ids
  <2>5. [v EXCEPT !.ctime = c, !.nlink = d] = [u EXCEPT !.nlink = d]
    BY <2>1
  <2>6. [v EXCEPT !.ctime = c, !.nlink = @ + 1] = [v EXCEPT !.ctime = c, !.nlink = v.nlink + 1]
    BY DEF Ids
  <2> QED BY <2>3, <2>4, <2>5, <2>6
<1>4. w.nlink = v.nlink => w = [v EXCEPT !.ctime = w.ctime]
  BY <1>1, <1>2
<1>5. w.nlink = v.nlink + 1 => w = [v EXCEPT !.ctime = w.ctime, !.nlink = @ + 1]
  <2>1. w.ctime \in Nat
    BY DEF Ids
  <2> QED BY <1>1, <1>3, <2>1
<1> QED BY <1>1, <1>4, <1>5

\* What a stat reads of an allocation with the names P.
LEMMA StatReads ==
    ASSUME IInv, NEW o \in Objects, EntryOK(o), NEW l \in Locs, dir[l] = o,
           NEW P \in SUBSET Locs, \A k \in Locs : dir[k] = o <=> k \in P
    PROVE  /\ Live(l) /\ Identity(l) \in Ids /\ Nlink(o) = Cardinality(P) + node[o].outside
           /\ Identity(l).ino = o /\ Identity(l).mtime = ledger[o].id.mtime
           /\ Identity(l).ctime = node[o].ctime
           /\ Identity(l).nlink = Cardinality(P) + node[o].outside
<1>1. o \in Inodes /\ o # None
  BY ConstantsOK DEF Objects
<1>2. Nlink(o) = Cardinality(P) + node[o].outside
  <2>1. {k \in Locs : dir[k] = o} = P
    OBVIOUS
  <2> QED BY <2>1 DEF Nlink
<1>3. Live(l)
  <2>1. PICK p \in Members(o) : TRUE
    BY DEF Objects, Members
  <2>2. node[o].data = GroupOf[p] /\ GroupOf[p] \in Groups
    BY <2>1, ConstantsOK DEF EntryOK, Right, Members
  <2> QED BY <1>1, <2>2, ConstantsOK DEF Live
<1>4. Identity(l) \in Ids
  BY <1>1, IdentityType DEF IInv
<1> QED BY <1>2, <1>3, <1>4 DEF Identity, EntryOK

\* With as many names as the ledger counts, a stat differs from its entry in the ctime alone;
\* with one more, in that too.
LEMMA StatAgrees ==
    ASSUME IInv, NEW o \in Objects, EntryOK(o), NEW l \in Locs, dir[l] = o,
           NEW P \in SUBSET Locs, \A k \in Locs : dir[k] = o <=> k \in P
    PROVE  /\ Cardinality(P) = Cardinality(ledger[o].paths) =>
                /\ SameButCtime(o, l)
                /\ ledger[o].id.ctime = node[o].ctime => Live(l) /\ Identity(l) = ledger[o].id
           /\ Cardinality(P) = Cardinality(ledger[o].paths) + 1 =>
                /\ Live(l) /\ ledger[o].id # None
                /\ Identity(l) = [ledger[o].id EXCEPT !.ctime = node[dir[l]].ctime, !.nlink = @ + 1]
<1>1. PICK v \in Ids : v = ledger[o].id
  BY DEF EntryOK
<1>a. /\ Live(l) /\ Identity(l) \in Ids
      /\ Identity(l).ino = o /\ Identity(l).mtime = ledger[o].id.mtime
      /\ Identity(l).ctime = node[o].ctime
      /\ Identity(l).nlink = Cardinality(P) + node[o].outside
  BY StatReads
<1>2. PICK w \in Ids : w = Identity(l)
  BY <1>a
<1>b. /\ ledger[o].id.ino = o
      /\ ledger[o].id.nlink = Cardinality(ledger[o].paths) + node[o].outside
  BY DEF EntryOK
<1>3. /\ Live(l) /\ w.ino = v.ino /\ w.mtime = v.mtime /\ w.ctime = node[dir[l]].ctime
      /\ w.nlink = Cardinality(P) + node[o].outside
      /\ v.nlink = Cardinality(ledger[o].paths) + node[o].outside
  BY <1>1, <1>2, <1>a, <1>b
<1>4. v # None
  BY ConstantsOK DEF Ids
<1>5. Cardinality(P) \in Nat /\ Cardinality(ledger[o].paths) \in Nat /\ node[o].outside \in Nat
  <2>1. P \in SUBSET Locs /\ ledger[o].paths \in SUBSET Locs
    BY DEF EntryOK, Locs
  <2>2. IsFiniteSet(P) /\ IsFiniteSet(ledger[o].paths)
    BY <2>1, LocsFinite, FS_Subset
  <2>3. o \in Inodes
    BY ConstantsOK DEF Objects
  <2> QED BY <2>2, <2>3, FS_CardinalityType DEF IInv, TypeOK
<1>6. CASE Cardinality(P) = Cardinality(ledger[o].paths)
  <2>1. w.nlink = v.nlink
    BY <1>3, <1>6
  <2>2. w = [v EXCEPT !.ctime = w.ctime] /\ (w.ctime = v.ctime => w = v)
    BY <1>3, <2>1, SameFields
  <2>3. SameButCtime(o, l)
    BY <1>1, <1>2, <1>3, <1>4, <2>2 DEF SameButCtime
  <2> QED BY <1>1, <1>2, <1>3, <1>5, <1>6, <2>2, <2>3
<1>7. CASE Cardinality(P) = Cardinality(ledger[o].paths) + 1
  <2>1. w.nlink = v.nlink + 1
    BY <1>3, <1>5, <1>7
  <2>2. w = [v EXCEPT !.ctime = w.ctime, !.nlink = @ + 1]
    BY <1>3, <2>1, SameFields
  <2> QED BY <1>1, <1>2, <1>3, <1>4, <1>5, <1>7, <2>2
<1> QED BY <1>5, <1>6, <1>7

\* Where an undisturbed batch finds its files.
LEMMA QuietFiles ==
    ASSUME IInv, WhereOK, Untouched, Quiet, pc \in ActionSteps
    PROVE  /\ dir[At(act.target, whereabouts)] = targetObject
           /\ dir[keeper] = keeperObject
           /\ targetObject \in Objects /\ keeperObject \in Objects /\ targetObject # keeperObject
           /\ cur \in DOMAIN plan
<1>0. cur \in DOMAIN plan
  BY DEF IInv, StepOK
<1>1. touched = {}
  BY DEF Untouched, Quiet
<1>2. dir[At(act.target, whereabouts)] = targetObject
  BY <1>1 DEF WhereOK, Lies, targetObject
<1>3. /\ act.keeper \in Paths /\ act.target \in Paths
      /\ \A i \in DOMAIN plan : plan[i].target # act.keeper
      /\ targetObject # keeperObject
  <2>1. plan \in Seq(Action) /\ Executable(plan, GroupOf, InodeOf, DatasetOf)
    BY PlansOK DEF IInv, TypeOK
  <2>2. plan[cur] \in Action
    BY <1>0, <2>1
  <2> QED BY <1>0, <2>1, <2>2 DEF Action, Executable, act, targetObject, keeperObject
<1>4. dir[keeper] = keeperObject
  <2>1. 1..cur \subseteq DOMAIN plan
    BY <1>0, PlansOK DEF IInv, TypeOK
  <2>2. Lies(dir, touched, act.keeper, None)
    BY <1>3, <2>1 DEF WhereOK
  <2> QED BY <1>1, <2>2 DEF Lies, At, keeper, keeperObject
<1> QED BY <1>0, <1>2, <1>3, <1>4 DEF Objects, targetObject, keeperObject

\* What the lemmas below start from: a step of an action of an undisturbed batch.
LEMMA Undisturbed ==
    ASSUME OwnInv, Quiet, pc \in ActionSteps
    PROVE  /\ IInv /\ TypeOK /\ GateHolds /\ Progress /\ StageOK /\ WhereOK /\ Untouched /\ TempsOK
           /\ Mirrored /\ Acting
           /\ dir[At(act.target, whereabouts)] = targetObject /\ dir[keeper] = keeperObject
           /\ targetObject \in Objects /\ keeperObject \in Objects /\ targetObject # keeperObject
           /\ targetObject \in Inodes /\ keeperObject \in Inodes
           /\ EntryOK(targetObject) /\ EntryOK(keeperObject)
           /\ \A o \in Objects, l \in Locs : dir[l] = o <=> Expected(o, l)
           /\ cur \in DOMAIN plan /\ act \in Action /\ act = plan[cur] /\ act.target \in Paths
           /\ target \in Locs /\ keeper \in Locs /\ temp \in Locs
           /\ target # temp /\ temp \notin Homes \cup Quars /\ target \notin Quars
           /\ \A n \in 0..MaxSuffix : Quar(act.target, n) \in Locs \cap Quars
<1>1. IInv /\ TypeOK /\ GateHolds /\ Progress /\ StageOK /\ WhereOK /\ Untouched /\ TempsOK
  BY DEF OwnInv, ReportInv, TrustInv, IInv
<1>2. Mirrored /\ Acting
  BY DEF OwnInv, MirrorOK, Acting
<1>3. /\ dir[At(act.target, whereabouts)] = targetObject /\ dir[keeper] = keeperObject
      /\ targetObject \in Objects /\ keeperObject \in Objects /\ targetObject # keeperObject
      /\ cur \in DOMAIN plan
  BY <1>1, QuietFiles
<1>4. /\ act \in Action /\ act = plan[cur] /\ act.target \in Paths
      /\ target \in Locs /\ keeper \in Locs /\ temp \in Locs
      /\ targetObject \in Inodes /\ keeperObject \in Inodes
  BY <1>1, <1>3, ActionType DEF act, Action
<1>5. target # temp /\ temp \notin Homes \cup Quars /\ target \notin Quars
  BY NamesApart DEF target, temp, Homes, Quars
<1>6. \A n \in 0..MaxSuffix : Quar(act.target, n) \in Locs \cap Quars
  BY <1>4 DEF Quars, Locs
<1>7. /\ EntryOK(targetObject) /\ EntryOK(keeperObject)
      /\ \A o \in Objects, l \in Locs : dir[l] = o <=> Expected(o, l)
  BY <1>2, <1>3 DEF Mirrored
<1> QED BY <1>1, <1>2, <1>3, <1>4, <1>5, <1>6, <1>7

LEMMA FilesLive ==
    ASSUME OwnInv, Quiet, pc \in ActionSteps
    PROVE  /\ Live(keeper) /\ dir[keeper] # None /\ node[dir[keeper]].data = digest
           /\ whereabouts = None => Live(target) /\ dir[target] = targetObject
                                    /\ dir[target] # None /\ node[dir[target]].data = digest
<1>1. ASSUME NEW o \in Objects, EntryOK(o), NEW p \in Paths, InodeOf[p] = o, GroupOf[p] = digest,
             NEW l \in Locs, dir[l] = o
      PROVE  Live(l) /\ dir[l] # None /\ node[dir[l]].data = digest
  <2>1. node[o].data = digest
    BY <1>1 DEF EntryOK, Right, Members
  <2>2. o # None /\ digest # "symlink"
    BY <1>1, ConstantsOK DEF Objects
  <2> QED BY <1>1, <2>1, <2>2 DEF Live
<1>2. act.keeper \in Paths /\ GroupOf[act.keeper] = digest /\ GroupOf[act.target] = digest
  BY Undisturbed, ActionFiles
<1>3. Live(keeper) /\ dir[keeper] # None /\ node[dir[keeper]].data = digest
  BY <1>1, <1>2, Undisturbed DEF keeperObject
<1>4. ASSUME whereabouts = None
      PROVE  Live(target) /\ dir[target] = targetObject /\ dir[target] # None
               /\ node[dir[target]].data = digest
  <2>1. dir[target] = targetObject
    BY <1>4, Undisturbed DEF At, target
  <2> QED BY <1>1, <1>2, <2>1, Undisturbed DEF targetObject
<1> QED BY <1>3, <1>4

\* No check of an undisturbed batch refuses an action nothing stood in the way of.
LEMMA ChecksPass ==
    ASSUME OwnInv, Quiet, pc = "check", cur \notin obstacles
    PROVE  Guarded /\ Check(targetObject) /\ Check(keeperObject)
<1>0. pc \in ActionSteps
  BY DEF ActionSteps, Steps
<1>1. Guarded
  <2>1. cur \in Runnable /\ plan[cur] = act /\ Acting /\ ending = "running"
    BY <1>0, Undisturbed DEF Runnable, Progress
  <2> QED BY <2>1 DEF Cleared, OwnInv, Guarded
<1>2. ASSUME NEW o \in Objects PROVE Check(o)
  <2>1. EntryOK(o) /\ Mirrored /\ IInv /\ StageOK
    BY <1>0, Undisturbed DEF Mirrored
  <2>2. moved = None /\ ~Away /\ ~Staged /\ ~Put /\ ~Marked(o)
    BY <1>0, <2>1 DEF StageOK, ActionSteps, Steps, Away, whereabouts, Staged, Put, Marked, Late
  <2>3. \A l \in Locs : dir[l] = o <=> l \in ledger[o].paths
    BY <2>1, <2>2 DEF Mirrored, Expected
  <2>4. ledger[o].id.ctime = node[o].ctime /\ ledger[o].settled
    BY <2>1, <2>2 DEF Mirrored, EntryOK
  <2>5. ledger[o].paths \in SUBSET Locs
    BY <2>1 DEF EntryOK, Locs
  <2>6. ASSUME NEW l \in ledger[o].paths PROVE Live(l) /\ Identity(l) = ledger[o].id
    <3>1. l \in Locs /\ dir[l] = o
      BY <2>3, <2>5
    <3> QED BY <2>1, <2>3, <2>4, <2>5, <3>1, StatAgrees
  <2> QED BY <2>4, <2>6 DEF Check
<1> QED BY <1>0, <1>1, <1>2, Undisturbed

\* Every rename of an undisturbed batch finds its names as it needs them.
LEMMA RenamesPass ==
    ASSUME OwnInv, Quiet, pc \in ActionSteps
    PROVE  /\ pc = "move" => FreeName(0) /\ 0 \in 0..MaxSuffix
           /\ pc = "publish" => RenameOK(temp, target)
           /\ pc = "putBack" => RenameOK(moved, target)
<1>1. ASSUME pc = "move" PROVE FreeName(0) /\ 0 \in 0..MaxSuffix
  <2>1. moved = None
    BY <1>1, Undisturbed DEF StageOK, ActionSteps, Steps
  <2>2. 0 \in 0..MaxSuffix /\ \A m \in 0..MaxSuffix : ~(m < 0)
    BY ConstantsOK
  <2>3. Quar(act.target, 0) \in QuarsOf(act.target)
    BY <2>2 DEF QuarsOf
  <2>4. dir[Quar(act.target, 0)] = None
    BY <1>1, <2>1, <2>3, Undisturbed DEF Mirrored
  <2> QED BY <2>2, <2>4 DEF FreeName
<1>2. ASSUME pc \in {"publish", "putBack"} PROVE Away /\ ~Put /\ moved # None /\ whereabouts = moved
  <2>1. moved \in QuarsOf(act.target) /\ pub # "RolledBack"
    BY <1>2, Undisturbed DEF GateHolds, StageOK, QuarsOf
  <2>2. moved # None
    BY <2>1, Undisturbed, ConstantsOK DEF QuarsOf
  <2> QED BY <1>2, <2>1, <2>2 DEF Away, Put, whereabouts
<1>3. ASSUME pc = "publish" PROVE RenameOK(temp, target)
  <2>1. dir[target] = None
    BY <1>2, <1>3, Undisturbed DEF Mirrored
  <2>2. act.kind # "Delete"
    BY <1>3 DEF OwnInv, KindOK
  <2>3. dir[temp] # None
    BY <1>3, <2>2, Undisturbed DEF TempsOK
  <2> QED BY <2>1, <2>3 DEF RenameOK
<1>4. ASSUME pc = "putBack" PROVE RenameOK(moved, target)
  <2>1. dir[target] = None
    BY <1>2, <1>4, Undisturbed DEF Mirrored
  <2>2. dir[moved] = targetObject
    BY <1>2, <1>4, Undisturbed DEF At
  <2>3. targetObject # None
    BY Undisturbed, ConstantsOK
  <2> QED BY <2>1, <2>2, <2>3 DEF RenameOK
<1> QED BY <1>1, <1>3, <1>4

\* The target's half of the settling adds up.
TargetNames == IF pub \in {"Published", "Stranded"} THEN (ledger[targetObject].paths \ {target}) \cup {moved}
                                                    ELSE ledger[targetObject].paths
Where == IF pub \in {"Published", "Stranded"} THEN moved ELSE target

LEMMA TargetSettles ==
    ASSUME OwnInv, Quiet, pc = "settleTarget"
    PROVE  /\ SameButCtime(targetObject, Where) /\ Where \in Locs /\ dir[Where] = targetObject
           /\ Where # target <=> pub \in {"Published", "Stranded"}
           /\ \A l \in Locs : dir[l] = targetObject <=> l \in TargetNames
           /\ TargetNames # {} /\ TargetNames \subseteq Homes \cup Quars
           /\ Cardinality(TargetNames) = Cardinality(ledger[targetObject].paths)
<1>0. pc \in ActionSteps
  BY DEF ActionSteps, Steps
<1>1. pub \in {"NotMoved", "RolledBack", "Stranded", "Published"}
        /\ (pub \in {"Stranded", "Published"} => moved \in Locs)
  BY <1>0, Undisturbed DEF IInv, StepOK
<1>2. whereabouts = (IF pub \in {"Published", "Stranded"} THEN moved ELSE None)
        /\ (pub \in {"Published", "Stranded"} => moved # None)
  <2>1. pub = "NotMoved" => moved = None
    BY <1>0, Undisturbed DEF StageOK
  <2>2. pub \in {"Stranded", "Published"} => moved # None
    BY <1>1, ConstantsOK
  <2> QED BY <1>1, <2>1, <2>2 DEF whereabouts
<1>3. Where \in Locs /\ dir[Where] = targetObject
  BY <1>0, <1>1, <1>2, Undisturbed DEF Where, At, target
<1>4. Away <=> pub \in {"Published", "Stranded"}
  BY <1>0, <1>2 DEF Away
<1>5. pub \in {"Published", "Stranded"} =>
        /\ moved \in Quars /\ moved # target
        /\ target \in ledger[targetObject].paths /\ moved \notin ledger[targetObject].paths
  <2> SUFFICES ASSUME pub \in {"Published", "Stranded"}
               PROVE  /\ moved \in Quars /\ moved # target
                      /\ target \in ledger[targetObject].paths
                      /\ moved \notin ledger[targetObject].paths
    OBVIOUS
  <2>1. moved \in QuarsOf(act.target)
    BY <1>0, <1>2, Undisturbed DEF WhereOK, Lies
  <2>2. moved \in Quars /\ moved # target
    BY <1>0, <2>1, Undisturbed DEF QuarsOf
  <2>3. target \in ledger[targetObject].paths /\ moved \notin ledger[targetObject].paths
    BY <1>0, <1>4, Undisturbed DEF Mirrored
  <2> QED BY <2>2, <2>3
<1>6. \A l \in Locs : dir[l] = targetObject <=> l \in TargetNames
  <2>1. ~Staged /\ targetObject # keeperObject
    BY <1>0, Undisturbed DEF Staged
  <2> QED BY <1>0, <1>4, <1>5, <2>1, Undisturbed DEF Expected, TargetNames
<1>7. TargetNames # {} /\ TargetNames \subseteq Homes \cup Quars /\ IsFiniteSet(ledger[targetObject].paths)
  <2>1. ledger[targetObject].paths # {} /\ ledger[targetObject].paths \subseteq Homes \cup Quars
    BY <1>0, Undisturbed DEF EntryOK
  <2>2. IsFiniteSet(ledger[targetObject].paths)
    BY <2>1, LocsFinite, FS_Subset DEF Locs
  <2> QED BY <1>5, <2>1, <2>2 DEF TargetNames
<1>8. Cardinality(TargetNames) = Cardinality(ledger[targetObject].paths)
  <2> DEFINE P == ledger[targetObject].paths
  <2>1. CASE pub \in {"Published", "Stranded"}
    <3>1. IsFiniteSet(P) /\ target \in P /\ moved \notin P \ {target}
      BY <1>5, <1>7, <2>1
    <3>2. IsFiniteSet(P \ {target}) /\ Cardinality(P \ {target}) = Cardinality(P) - 1
      BY <3>1, FS_RemoveElement
    <3>3. Cardinality((P \ {target}) \cup {moved}) = Cardinality(P \ {target}) + 1
      BY <3>1, <3>2, FS_AddElement
    <3>4. Cardinality(P) \in Nat
      BY <3>1, FS_CardinalityType
    <3> QED BY <2>1, <3>2, <3>3, <3>4 DEF TargetNames
  <2>2. CASE pub \notin {"Published", "Stranded"}
    BY <2>2 DEF TargetNames
  <2> QED BY <2>1, <2>2
<1>9. SameButCtime(targetObject, Where)
  <2>1. TargetNames \in SUBSET Locs
    BY <1>7 DEF Locs
  <2> QED BY <1>0, <1>3, <1>6, <1>8, <2>1, StatAgrees, Undisturbed
<1>10. Where # target <=> pub \in {"Published", "Stranded"}
  BY <1>5 DEF Where
<1> QED BY <1>3, <1>6, <1>7, <1>8, <1>9, <1>10

\* And so does the keeper's.
KeeperNames == IF pub = "Published" /\ act.kind = "Hardlink"
                 THEN ledger[keeperObject].paths \cup {target} ELSE ledger[keeperObject].paths

LEMMA KeeperAddsUp ==
    ASSUME OwnInv, Quiet, pc = "settleKeeper"
    PROVE  /\ pub = "Published" =>
                \/ act.kind = "Hardlink" /\ LinkedOnce(keeperObject, keeper, target)
                \/ act.kind = "Reflink" /\ ClonedOnce(keeperObject, targetObject, keeper, target)
           /\ pub # "Published" => SameButCtime(keeperObject, keeper)
           /\ \A l \in Locs : dir[l] = keeperObject <=> l \in KeeperNames
           /\ KeeperNames # {} /\ KeeperNames \subseteq Homes \cup Quars
<1>0. pc \in ActionSteps
  BY DEF ActionSteps, Steps
<1>1. ~Away /\ ~Staged /\ act.kind \in {"Hardlink", "Reflink"}
  <2>1. act.kind \in Kinds /\ act.kind # "Delete"
    BY <1>0, Undisturbed DEF OwnInv, KindOK, Action
  <2> QED BY <2>1 DEF Away, Staged, Kinds
<1>2. Put <=> pub = "Published"
  BY <1>1 DEF Put
<1>3. \A l \in Locs : dir[l] = keeperObject <=> l \in KeeperNames
  BY <1>0, <1>1, <1>2, Undisturbed DEF Expected, KeeperNames
<1>4. /\ ledger[keeperObject].paths # {} /\ ledger[keeperObject].paths \subseteq Homes \cup Quars
      /\ target \in Homes
  <2>1. target \in Homes
    BY <1>0, Undisturbed DEF target, Homes
  <2> QED BY <1>0, <2>1, Undisturbed DEF EntryOK
<1>5. KeeperNames # {} /\ KeeperNames \subseteq Homes \cup Quars /\ KeeperNames \in SUBSET Locs
  BY <1>4 DEF KeeperNames, Locs
<1>6. IsFiniteSet(ledger[keeperObject].paths)
  BY <1>4, LocsFinite, FS_Subset DEF Locs
<1>7. ASSUME pub # "Published" PROVE SameButCtime(keeperObject, keeper)
  <2>1. KeeperNames = ledger[keeperObject].paths
    BY <1>7 DEF KeeperNames
  <2> QED BY <1>0, <1>3, <1>5, <2>1, StatAgrees, Undisturbed
<1>8. ASSUME pub = "Published", act.kind = "Hardlink"
      PROVE  LinkedOnce(keeperObject, keeper, target)
  <2>1. target \notin ledger[keeperObject].paths
    BY <1>0, <1>2, <1>8, Undisturbed DEF Mirrored
  <2>2. Cardinality(KeeperNames) = Cardinality(ledger[keeperObject].paths) + 1
    BY <1>6, <1>8, <2>1, FS_AddElement DEF KeeperNames
  <2>3. /\ Live(keeper) /\ ledger[keeperObject].id # None
        /\ Identity(keeper) = [ledger[keeperObject].id EXCEPT !.ctime = node[dir[keeper]].ctime,
                                                             !.nlink = @ + 1]
    BY <1>0, <1>3, <1>5, <2>2, StatAgrees, Undisturbed
  <2>4. dir[target] = keeperObject
    BY <1>0, <1>3, <1>8, Undisturbed DEF KeeperNames
  <2>5. Live(target) /\ Identity(target) = Identity(keeper)
    BY <1>0, <2>3, <2>4, Undisturbed, ConstantsOK DEF Live, Identity
  <2> QED BY <2>3, <2>5 DEF LinkedOnce
<1>9. ASSUME pub = "Published", act.kind = "Reflink"
      PROVE  ClonedOnce(keeperObject, targetObject, keeper, target)
  <2>1. ledger[keeperObject].id.ctime = node[keeperObject].ctime
    BY <1>0, <1>9, Undisturbed DEF Mirrored, Marked
  <2>2. KeeperNames = ledger[keeperObject].paths
    BY <1>9 DEF KeeperNames
  <2>3. Live(keeper) /\ Identity(keeper) = ledger[keeperObject].id
    BY <1>0, <1>3, <1>5, <2>1, <2>2, StatAgrees, Undisturbed
  <2>4. CloneAt(target)
    BY <1>0, <1>2, <1>9, Undisturbed DEF Mirrored
  <2>5. /\ ledger[keeperObject].id.ino = keeperObject /\ ledger[targetObject].id.ino = targetObject
        /\ ledger[targetObject].id.mtime = node[targetObject].mtime
        /\ ledger[targetObject].id # None
    BY <1>0, Undisturbed, ConstantsOK DEF EntryOK, Ids
  <2>6. Live(target)
    BY <2>4, ConstantsOK DEF CloneAt, Live
  <2>7. dir[target] \notin {keeperObject, targetObject}
    BY <1>0, <2>4, Undisturbed DEF CloneAt
  <2>8. Nlink(dir[target]) = 1
    <3>1. {k \in Locs : dir[k] = dir[target]} = {target}
      BY <1>0, <2>4, Undisturbed DEF CloneAt
    <3>2. node[dir[target]].outside = 0
      BY <2>4 DEF CloneAt
    <3>3. Cardinality({target}) = 1
      BY FS_Singleton
    <3> QED BY <3>1, <3>2, <3>3 DEF Nlink
  <2>9. node[dir[target]].mtime = ledger[targetObject].id.mtime
    BY <2>4, <2>5 DEF CloneAt
  <2> QED BY <2>3, <2>5, <2>6, <2>7, <2>8, <2>9 DEF ClonedOnce
<1> QED BY <1>1, <1>3, <1>5, <1>7, <1>8, <1>9

-----------------------------------------------------------------------------
\* A step that changes neither the tree nor the ledger, nor where the names are expected.
LEMMA StillMirrored ==
    ASSUME Mirrored, UNCHANGED <<treeVars, ledger, plan, cur, moved>>,
           Away' <=> Away, Staged' <=> Staged, Put' <=> Put,
           \A o \in Objects : Marked(o) => Marked(o)',
           pc' \in ActionSteps => pc \in ActionSteps,
           pc' = "build" /\ act.kind = "Reflink" => seen'.mtime = node[targetObject].mtime
    PROVE  Mirrored'
<1>0. UNCHANGED <<dir, node, ledger, plan, cur, moved, act>>
  BY DEF treeVars, act
<1>1. UNCHANGED <<target, keeper, temp, targetObject, keeperObject>>
  BY <1>0 DEF target, keeper, temp, targetObject, keeperObject
<1>2. ASSUME NEW o \in Objects
      PROVE  /\ EntryOK(o)'
             /\ \A l \in Locs : dir'[l] = o <=> Expected(o, l)'
             /\ ~Marked(o)' => ledger'[o].id.ctime = node'[o].ctime
  <2>1. EntryOK(o)'
    BY <1>0 DEF Mirrored, EntryOK, Right
  <2>2. \A l \in Locs : dir'[l] = o <=> Expected(o, l)'
    BY <1>0, <1>1 DEF Mirrored, Expected
  <2> QED BY <1>0, <2>1, <2>2 DEF Mirrored
<1>3. \A l : CloneAt(l)' <=> CloneAt(l)
  BY <1>0, <1>1 DEF CloneAt
<1> QED BY <1>0, <1>1, <1>2, <1>3 DEF Mirrored

\* The steps that change neither.
LEMMA MirrorChecks ==
    ASSUME OwnInv, Quiet, pc \in ActionSteps, Worker,
           ~(Build \/ QuarantineMove \/ Publish \/ RemoveTemp \/ PutBack
               \/ SettleTarget \/ SettleKeeper)
    PROVE  Mirrored'
<1>1. UNCHANGED <<treeVars, plan, cur, moved, ledger, act>>
  <2>1. UNCHANGED <<treeVars, plan, cur>>
    BY Undisturbed, TreeSteps, ActionReports
  <2>2. UNCHANGED <<moved, ledger>>
    BY ActionKinds DEF ApplyOne, StatTarget, HashTarget, StatKeeper, HashKeeper, Stat, Hash,
       ReadMeta, BuildFails, QuarantineLook, QuarantineFails, PublishFails, PutBackFails
  <2> QED BY <2>1, <2>2 DEF act
<1>2. ~(pc = "settleTarget" \/ pc = "settleKeeper")
  BY ActionKinds DEF ApplyOne, StatTarget, HashTarget, StatKeeper, HashKeeper, Stat, Hash,
     ReadMeta, BuildFails, QuarantineLook, QuarantineFails, PublishFails, PutBackFails
<1>3. act.kind \in Kinds /\ (Unbuilt(cur) \/ act.kind = "Delete" => dir[temp] = None)
  <2>1. act.kind = "Delete" => Unbuilt(cur)
    BY Undisturbed DEF Unbuilt
  <2> QED BY <2>1, Undisturbed DEF Action, TempsOK, temp
<1>4. FirstStep \in {"look", "build", "meta"} /\ (FirstStep = "look" => act.kind = "Delete")
        /\ (FirstStep = "build" => act.kind = "Hardlink")
  BY Undisturbed DEF Action, FirstStep, Kinds
<1> DEFINE Still == /\ Away' <=> Away
                    /\ Staged' <=> Staged
                    /\ Put' <=> Put
                    /\ \A o \in Objects : Marked(o) => Marked(o)'
                    /\ pc' = "build" /\ act.kind = "Reflink" => seen'.mtime = node[targetObject].mtime
<1>5. /\ temp' = temp /\ keeperObject' = keeperObject /\ targetObject' = targetObject /\ act' = act
      /\ dir' = dir
  BY <1>1 DEF temp, keeperObject, targetObject, treeVars
<1>a. StageOK /\ GateHolds /\ Mirrored
  BY Undisturbed
<1>b. whereabouts = None => dir[target] = targetObject
  BY FilesLive
<1> USE DEF Goto, Report
<1>6. ASSUME ApplyOne \/ StatTarget \/ HashTarget \/ StatKeeper \/ HashKeeper PROVE Still
  <2>1. /\ pc \in {"check", "statTarget", "hashTarget", "statKeeper", "hashKeeper"} /\ pub' = pub
        /\ pc' \in {"boundary", "statTarget", "hashTarget", "statKeeper", "hashKeeper", FirstStep}
    BY <1>6 DEF ApplyOne, StatTarget, HashTarget, StatKeeper, HashKeeper, Stat, Hash
  <2>2. moved = None /\ pub = "none" /\ Unbuilt(cur)
    BY <2>1, <1>a DEF StageOK, Unbuilt
  <2>3. act.kind = "Delete" => dir[temp] = None
    BY <1>3, <2>2
  <2> QED BY <1>1, <1>4, <1>5, <2>1, <2>2, <2>3
     DEF Away, Staged, Put, Marked, Late, whereabouts, ActionSteps, Steps
<1>7. ASSUME ReadMeta PROVE Still
  <2>1. moved = None /\ pub = "none"
    BY <1>7, <1>a DEF StageOK, ReadMeta
  <2>2. pc = "meta" /\ pc' \in {"build", "settleTarget"} /\ pub' \in {pub, "NotMoved"}
    BY <1>7 DEF ReadMeta
  <2>3. pc' = "build" => seen'.mtime = node[targetObject].mtime
    <3>1. dir[target] = targetObject
      BY <1>b, <2>1 DEF whereabouts
    <3> QED BY <1>7, <3>1 DEF ReadMeta, FileIdentity
  <2> QED BY <1>1, <1>5, <2>1, <2>2, <2>3
     DEF Away, Staged, Put, Marked, Late, whereabouts, ActionSteps, Steps
<1>8. ASSUME BuildFails PROVE Still
  <2>1. moved = None /\ pub = "none" /\ Unbuilt(cur)
    BY <1>8, <1>a DEF StageOK, BuildFails, Unbuilt
  <2>2. pc = "build" /\ pc' = "removeTemp" /\ pub' = "NotMoved"
    BY <1>8 DEF BuildFails
  <2>3. dir[temp] = None
    BY <1>3, <2>1
  <2> QED BY <1>1, <1>5, <2>1, <2>2, <2>3
     DEF Away, Staged, Put, Marked, Late, whereabouts, ActionSteps, Steps
<1>9. ASSUME QuarantineLook \/ QuarantineFails PROVE Still
  <2>1. pc \in {"look", "move"}
    BY <1>9 DEF QuarantineLook, QuarantineFails
  <2>2. moved = None /\ pub = "none"
    BY <2>1, <1>a DEF StageOK
  <2>3. \/ pc' = "move" /\ pub' = pub
        \/ pc' = "removeTemp" /\ pub' = "NotMoved"
        \/ pc' = "boundary" /\ pub' = pub /\ act.kind = "Delete"
    BY <1>9 DEF QuarantineLook, QuarantineFails, NotMoved
  <2>4. act.kind = "Delete" => dir[temp] = None
    BY <1>3
  <2> QED BY <1>1, <1>5, <2>1, <2>2, <2>3, <2>4
     DEF Away, Staged, Put, Marked, Late, whereabouts, ActionSteps, Steps
<1>10. ASSUME PublishFails PROVE Still
  <2>1. pc = "publish" /\ pc' = "removeTemp" /\ pub' = "Failed" /\ pub = "none"
    BY <1>10, <1>a DEF PublishFails, StageOK
  <2> QED BY <1>1, <1>5, <2>1
     DEF Away, Staged, Put, Marked, Late, whereabouts, ActionSteps, Steps
<1>11. ASSUME PutBackFails PROVE Still
  <2>1. pc = "putBack" /\ pc' = "settleTarget" /\ pub' = "Stranded" /\ pub = "Failed"
    BY <1>11, <1>a DEF PutBackFails, GateHolds
  <2> QED BY <1>1, <1>5, <2>1
     DEF Away, Staged, Put, Marked, Late, whereabouts, ActionSteps, Steps
<1>12. Still
  BY <1>6, <1>7, <1>8, <1>9, <1>10, <1>11, ActionKinds
<1>13. pc' \in ActionSteps => pc \in ActionSteps
  OBVIOUS
<1> QED BY <1>1, <1>a, <1>12, <1>13, StillMirrored


-----------------------------------------------------------------------------
\* What a step that changes the tree, and not the ledger, has to show.
LEMMA MirrorTree ==
    ASSUME OwnInv, Quiet, pc \in ActionSteps, Worker, UNCHANGED ledger, pc' \in ActionSteps,
           moved' = None => moved = None /\ \A q \in QuarsOf(act.target) : dir'[q] = dir[q],
           \A o \in Objects :
              /\ node'[o].data = node[o].data /\ node'[o].mtime = node[o].mtime
              /\ node'[o].outside = node[o].outside
              /\ Marked(o)' \/ (~Marked(o) /\ node'[o].ctime = node[o].ctime)
              /\ \A l \in Locs : dir'[l] = o <=> Expected(o, l)',
           Away' => target \in ledger[targetObject].paths
                      /\ moved' \notin ledger[targetObject].paths,
           Away' /\ ~Put' => dir'[target] = None,
           Put' /\ act.kind = "Hardlink" => target \notin ledger[keeperObject].paths,
           act.kind = "Reflink" =>
              pc' # "build" /\ (Staged' => CloneAt(temp)') /\ (Put' => CloneAt(target)')
    PROVE  Mirrored'
<1>1. UNCHANGED <<plan, cur>> /\ Mirrored
  BY Undisturbed, ActionReports
<1>2. UNCHANGED <<act, target, keeper, temp, targetObject, keeperObject>>
  BY <1>1 DEF act, target, keeper, temp, targetObject, keeperObject
<1>3. ASSUME NEW o \in Objects
      PROVE  /\ EntryOK(o)'
             /\ \A l \in Locs : dir'[l] = o <=> Expected(o, l)'
             /\ ~Marked(o)' => ledger'[o].id.ctime = node'[o].ctime
  <2>1. EntryOK(o) /\ (~Marked(o) => ledger[o].id.ctime = node[o].ctime)
    BY <1>1 DEF Mirrored
  <2>2. EntryOK(o)'
    BY <2>1 DEF EntryOK, Right
  <2> QED BY <2>1, <2>2
<1>4. ASSUME NEW i \in DOMAIN plan, i > cur \/ (i = cur /\ moved' = None),
             NEW q \in QuarsOf(plan[i].target)
      PROVE  dir'[q] = None
  <2>1. plan[i].target \in Paths /\ q \in Locs /\ q[2] = plan[i].target
    BY Undisturbed, TargetsApart, NamesAreLocs, NamesApart DEF QuarsOf
  <2>a. ~(cur > cur)
    <3>1. cur \in Nat
      BY Undisturbed, PlansOK DEF TypeOK
    <3> QED BY <3>1
  <2>2. CASE i = cur
    <3>1. act = plan[i] /\ moved = None
      BY <1>4, <2>2, <2>a, Undisturbed
    <3>2. q \in QuarsOf(act.target) /\ dir[q] = None
      BY <1>1, <1>4, <2>2, <3>1 DEF Mirrored
    <3> QED BY <1>4, <2>2, <2>a, <3>2
  <2>3. CASE i # cur
    <3>1. dir[q] = None
      BY <1>1, <1>4, <2>3 DEF Mirrored
    <3>2. plan[i].target # act.target
      BY <2>3, Undisturbed, TargetsApart
    <3> QED BY <2>1, <3>1, <3>2, Undisturbed, OwnNames
  <2> QED BY <2>2, <2>3
<1>5. Put' /\ act.kind = "Hardlink" => target \notin ledger'[keeperObject].paths
  OBVIOUS
<1> QED BY <1>1, <1>2, <1>3, <1>4, <1>5 DEF Mirrored

\* Of the scanned allocations only the keeper's can have a staging name.
LEMMA TempIs ==
    ASSUME OwnInv, Quiet, pc \in ActionSteps, NEW o \in Objects, dir[temp] = o
    PROVE  Staged /\ act.kind = "Hardlink" /\ o = keeperObject
<1>1. Expected(o, temp) /\ temp \notin ledger[o].paths
  BY Undisturbed DEF Mirrored, EntryOK
<1>2. Away => temp # moved
  <2>1. whereabouts # None => moved \in Quars
    BY Undisturbed DEF WhereOK, Lies, QuarsOf, Quars, whereabouts
  <2> QED BY <2>1, Undisturbed DEF Away
<1> QED BY <1>1, <1>2, Undisturbed DEF Expected

LEMMA MirrorBuild ==
    ASSUME OwnInv, Quiet, Build
    PROVE  Mirrored'
<1>0. Worker /\ pc \in ActionSteps
  BY DEF Worker, Build, ActionSteps, Steps
<1>1. /\ pc = "build" /\ pc' = "look" /\ UNCHANGED <<ledger, plan, cur, moved, pub>>
      /\ dir[temp] = None /\ (BuildLink \/ BuildClone)
  BY DEF Build, Goto, Same
<1>2. moved = None /\ pub = "none" /\ dir \in [Locs -> Inodes \cup {None}]
      /\ node \in [Inodes -> [data : Data, mtime : Nat, ctime : Nat, outside : Nat]]
  BY <1>0, <1>1, Undisturbed DEF StageOK, TypeOK
<1>3. UNCHANGED <<act, target, temp, targetObject, keeperObject>>
  BY <1>1 DEF act, target, temp, targetObject, keeperObject
<1>4. ~Away /\ ~Staged /\ ~Put /\ ~Away' /\ ~Put' /\ pc' \in ActionSteps
  BY <1>1, <1>2 DEF Away, Staged, Put, whereabouts, ActionSteps, Steps
<1>5. \A o \in Objects : ~Marked(o) /\ o \in Inodes
  BY <1>1, <1>2, ConstantsOK DEF Marked, Late, Objects
<1>6. \A o \in Objects, l \in Locs : (dir[l] = o <=> l \in ledger[o].paths) /\ temp \notin ledger[o].paths
  BY <1>0, <1>4, Undisturbed DEF Mirrored, EntryOK, Expected
<1>7. \A l \in Locs : l # temp => dir'[l] = dir[l]
  BY <1>1, <1>2 DEF BuildLink, BuildClone
<1>8. moved' = None => moved = None /\ \A q \in QuarsOf(act.target) : dir'[q] = dir[q]
  <2>1. \A q \in QuarsOf(act.target) : q \in Locs /\ q # temp
    BY <1>0, Undisturbed DEF QuarsOf
  <2> QED BY <1>2, <1>7, <2>1
<1>9. CASE BuildLink
  <2>1. act.kind = "Hardlink" /\ dir'[temp] = keeperObject /\ node' = Bump(keeperObject)
    BY <1>0, <1>2, <1>9, Undisturbed DEF BuildLink
  <2>2. ASSUME NEW o \in Objects
        PROVE  /\ node'[o].data = node[o].data /\ node'[o].mtime = node[o].mtime
               /\ node'[o].outside = node[o].outside
               /\ Marked(o)' \/ (~Marked(o) /\ node'[o].ctime = node[o].ctime)
               /\ \A l \in Locs : dir'[l] = o <=> Expected(o, l)'
    <3>1. /\ node'[o].data = node[o].data /\ node'[o].mtime = node[o].mtime
          /\ node'[o].outside = node[o].outside
          /\ o # keeperObject => node'[o] = node[o]
      BY <1>0, <1>5, <2>1, Undisturbed, BumpAges
    <3>2. o = keeperObject => Marked(o)'
      BY <1>1, <1>3, <2>1 DEF Marked, Late
    <3>3. ASSUME NEW l \in Locs PROVE dir'[l] = o <=> Expected(o, l)'
      <4>1. Staged'
        BY <1>0, <1>1, <1>3, <2>1, Undisturbed, ConstantsOK DEF Staged
      <4> QED BY <1>1, <1>3, <1>4, <1>6, <1>7, <2>1, <4>1 DEF Expected
    <3> QED BY <1>5, <3>1, <3>2, <3>3
  <2> QED BY <1>0, <1>1, <1>4, <1>8, <2>1, <2>2, MirrorTree
<1>10. CASE BuildClone
  <2>1. PICK i \in Inodes :
          /\ ~Linked(i)
          /\ dir' = [dir EXCEPT ![temp] = i]
          /\ node' = [node EXCEPT ![i] = [data |-> node[dir[keeper]].data, mtime |-> seen.mtime,
                                          ctime |-> @.ctime + 1, outside |-> 0]]
    BY <1>10 DEF BuildClone
  <2>2. act.kind = "Reflink" /\ dir'[temp] = i /\ node[dir[keeper]].data # "symlink"
    BY <1>0, <1>2, <1>10, <2>1, Undisturbed DEF BuildClone, Live
  <2>3. \A l \in Locs : dir[l] # i
    BY <2>1 DEF Linked
  <2>4. i \notin Objects
    <3> SUFFICES ASSUME i \in Objects PROVE FALSE
      OBVIOUS
    <3>1. EntryOK(i)
      BY <1>0, Undisturbed DEF Mirrored
    <3>2. PICK l \in ledger[i].paths : l \in Locs
      BY <3>1 DEF EntryOK, Locs
    <3> QED BY <1>6, <2>3, <3>2
  <2>5. \A o \in Objects : node'[o] = node[o]
    BY <1>2, <1>5, <2>1, <2>4
  <2>6. ASSUME NEW o \in Objects, NEW l \in Locs PROVE dir'[l] = o <=> Expected(o, l)'
    BY <1>1, <1>3, <1>4, <1>6, <1>7, <2>2, <2>4 DEF Expected
  <2>7. CloneAt(temp)'
    <3>1. node'[i] = [data |-> node[dir[keeper]].data, mtime |-> seen.mtime,
                      ctime |-> node[i].ctime + 1, outside |-> 0]
      BY <1>2, <2>1
    <3>2. seen.mtime = node[targetObject].mtime
      BY <1>0, <1>1, <2>2, Undisturbed DEF Mirrored
    <3>3. node'[targetObject] = node[targetObject]
      BY <1>0, <2>5, Undisturbed
    <3>4. \A k \in Locs : dir'[k] = i => k = temp
      BY <1>7, <2>3
    <3> QED BY <1>3, <2>2, <2>4, <3>1, <3>2, <3>3, <3>4 DEF CloneAt
  <2> QED BY <1>0, <1>1, <1>3, <1>4, <1>5, <1>8, <2>2, <2>5, <2>6, <2>7, MirrorTree
<1> QED BY <1>1, <1>9, <1>10


\* A rename of one name takes its allocation along, and ages that one alone.
LEMMA RenameMoves ==
    ASSUME TypeOK, NEW from \in Locs, NEW to \in Locs, from # to, RenameOK(from, to),
           Rename(from, to)
    PROVE  /\ dir'[to] = dir[from] /\ dir'[from] = None /\ dir[to] = None
           /\ \A l \in Locs : l \notin {from, to} => dir'[l] = dir[l]
           /\ \A i \in Inodes :
                /\ node'[i].data = node[i].data /\ node'[i].mtime = node[i].mtime
                /\ node'[i].outside = node[i].outside
                /\ i # dir[from] => node'[i] = node[i]
<1>1. dir[from] \in Inodes
  BY DEF TypeOK, RenameOK
<1>2. \A i \in Inodes :
         /\ node'[i].data = node[i].data /\ node'[i].mtime = node[i].mtime
         /\ node'[i].outside = node[i].outside
         /\ i # dir[from] => node'[i] = node[i]
  BY <1>1, BumpAges DEF Rename
<1> QED BY <1>2 DEF TypeOK, Rename, RenameOK

LEMMA MirrorMove ==
    ASSUME OwnInv, Quiet, QuarantineMove
    PROVE  Mirrored'
<1>0. Worker /\ pc \in ActionSteps
  BY DEF Worker, QuarantineMove, ActionSteps, Steps
<1>1. /\ pc = "move" /\ UNCHANGED <<ledger, plan, cur>>
      /\ \/ act.kind = "Delete" /\ pub' = "Published" /\ pc' = "settleTarget"
         \/ act.kind # "Delete" /\ pub' = pub /\ pc' = "publish"
  BY DEF QuarantineMove, Goto, Same
<1>2. PICK n \in 0..MaxSuffix :
         /\ RenameOK(target, Quar(act.target, n)) /\ Rename(target, Quar(act.target, n))
         /\ moved' = Quar(act.target, n)
  BY DEF QuarantineMove
<1> DEFINE q == Quar(act.target, n)
<1>3. q \in Locs /\ q \in Quars /\ q # target /\ q # temp /\ q # None
  BY <1>0, Undisturbed, ConstantsOK DEF Locs
<1>4. moved = None /\ pub = "none" /\ whereabouts = None
  BY <1>0, <1>1, Undisturbed DEF StageOK, whereabouts
<1>5. dir[target] = targetObject
  BY <1>0, <1>4, FilesLive
<1>6. UNCHANGED <<act, target, temp, targetObject, keeperObject>>
  BY <1>1 DEF act, target, temp, targetObject, keeperObject
<1>7. ~Away /\ ~Put /\ ~Put' /\ Away' /\ pc' \in ActionSteps /\ pc' # "build"
  BY <1>1, <1>2, <1>3, <1>4, <1>6 DEF Away, Put, whereabouts, ActionSteps, Steps
<1>8. /\ dir'[q] = targetObject /\ dir'[target] = None /\ dir[q] = None
      /\ \A l \in Locs : l \notin {target, q} => dir'[l] = dir[l]
      /\ \A i \in Inodes :
            /\ node'[i].data = node[i].data /\ node'[i].mtime = node[i].mtime
            /\ node'[i].outside = node[i].outside
            /\ i # targetObject => node'[i] = node[i]
  BY <1>0, <1>2, <1>3, <1>5, Undisturbed, RenameMoves
<1> HIDE DEF q
<1>9. act.kind # "Delete" => (Staged' <=> Staged)
  BY <1>0, <1>1, <1>3, <1>6, <1>8, Undisturbed DEF Staged
<1>10. \A o \in Objects : o \in Inodes
  BY ConstantsOK DEF Objects
<1>11. ASSUME NEW o \in Objects
       PROVE  /\ node'[o].data = node[o].data /\ node'[o].mtime = node[o].mtime
              /\ node'[o].outside = node[o].outside
              /\ Marked(o)' \/ (~Marked(o) /\ node'[o].ctime = node[o].ctime)
              /\ \A l \in Locs : dir'[l] = o <=> Expected(o, l)'
  <2>1. o = targetObject => Marked(o)'
    BY <1>1, <1>2, <1>3, <1>6, <1>7 DEF Marked, q
  <2>2. o # targetObject /\ Marked(o) => Marked(o)'
    BY <1>1, <1>6 DEF Marked, Late
  <2>3. temp \notin ledger[o].paths
    BY <1>0, Undisturbed DEF Mirrored, EntryOK
  <2>4. ASSUME NEW l \in Locs PROVE dir'[l] = o <=> Expected(o, l)'
    <3>1. dir[l] = o <=> l \in ledger[o].paths \/ (Staged /\ act.kind = "Hardlink" /\ o = keeperObject /\ l = temp)
      BY <1>0, <1>7, Undisturbed DEF Expected
    <3>2. Expected(o, l)' <=>
            \/ l \in ledger[o].paths /\ ~(o = targetObject /\ l = target)
            \/ o = targetObject /\ l = q
            \/ Staged /\ act.kind = "Hardlink" /\ o = keeperObject /\ l = temp
      BY <1>1, <1>2, <1>6, <1>7, <1>9 DEF Expected, q
    <3>3. o # None
      BY ConstantsOK, <1>10
    <3>4. CASE l = target
      <4>1. o # targetObject => l \notin ledger[o].paths
        BY <1>5, <3>1, <3>4
      <4> QED BY <1>0, <1>3, <1>8, <3>2, <3>3, <3>4, <4>1, Undisturbed
    <3>5. CASE l = q
      <4>1. l \notin ledger[o].paths
        BY <1>8, <3>1, <3>3, <3>5
      <4> QED BY <1>3, <1>8, <3>2, <3>5, <4>1
    <3>6. CASE l \notin {target, q}
      BY <1>8, <3>1, <3>2, <3>6
    <3> QED BY <3>4, <3>5, <3>6
  <2> QED BY <1>8, <1>10, <2>1, <2>2, <2>4
<1>12. target \in ledger[targetObject].paths /\ moved' \notin ledger[targetObject].paths
  <2>1. targetObject # None
    BY <1>0, Undisturbed, ConstantsOK
  <2> QED BY <1>0, <1>2, <1>3, <1>5, <1>7, <1>8, <2>1, Undisturbed DEF Expected, q
<1>13. act.kind = "Reflink" /\ Staged' => CloneAt(temp)'
  <2> SUFFICES ASSUME act.kind = "Reflink", Staged' PROVE CloneAt(temp)'
    OBVIOUS
  <2>1. CloneAt(temp)
    BY <1>0, <1>9, Undisturbed DEF Mirrored
  <2>2. dir'[temp] = dir[temp]
    BY <1>0, <1>3, <1>8, Undisturbed
  <2>3. \A j \in Locs : dir'[j] = dir[temp] => j = temp
    <3>1. dir[temp] # targetObject /\ dir[temp] # None
      BY <1>0, <2>1, Undisturbed, ConstantsOK DEF CloneAt
    <3>2. \A j \in Locs : dir[j] = dir[temp] => j = temp
      BY <2>1 DEF CloneAt
    <3> QED BY <1>8, <3>1, <3>2
  <2> QED BY <1>0, <1>6, <1>8, <2>1, <2>2, <2>3, Undisturbed DEF CloneAt
<1>14. moved' # None
  BY <1>2, <1>3 DEF q
<1> QED BY <1>0, <1>1, <1>7, <1>8, <1>11, <1>12, <1>13, <1>14, MirrorTree


LEMMA MirrorPublish ==
    ASSUME OwnInv, Quiet, Publish
    PROVE  Mirrored'
<1>0. Worker /\ pc \in ActionSteps
  BY DEF Worker, Publish, ActionSteps, Steps
<1>1. /\ pc = "publish" /\ pc' = "settleTarget" /\ UNCHANGED <<ledger, plan, cur, moved>>
      /\ pub' = "Published" /\ RenameOK(temp, target) /\ Rename(temp, target)
  BY DEF Publish, Goto, Same
<1>2. moved \in Quars /\ moved \in Locs /\ moved # None /\ pub = "none" /\ whereabouts = moved
  <2>1. moved \in QuarsOf(act.target) /\ pub = "none"
    BY <1>0, <1>1, Undisturbed DEF GateHolds, StageOK, QuarsOf
  <2>2. moved \in Quars /\ moved \in Locs
    BY <1>0, <2>1, Undisturbed DEF QuarsOf
  <2> QED BY <2>1, <2>2, ConstantsOK DEF whereabouts
<1>3. UNCHANGED <<act, target, temp, targetObject, keeperObject>>
  BY <1>1 DEF act, target, temp, targetObject, keeperObject
<1>4. act.kind # "Delete" /\ dir[temp] # None /\ dir[target] = None
  BY <1>1 DEF OwnInv, KindOK, RenameOK
<1>5. Away /\ Away' /\ Staged /\ ~Staged' /\ ~Put /\ Put' /\ pc' \in ActionSteps /\ pc' # "build"
  BY <1>1, <1>2, <1>3, <1>4 DEF Away, Staged, Put, whereabouts, ActionSteps, Steps
<1>6. /\ dir'[target] = dir[temp] /\ dir'[temp] = None
      /\ \A l \in Locs : l \notin {target, temp} => dir'[l] = dir[l]
      /\ \A i \in Inodes :
            /\ node'[i].data = node[i].data /\ node'[i].mtime = node[i].mtime
            /\ node'[i].outside = node[i].outside
            /\ i # dir[temp] => node'[i] = node[i]
  BY <1>0, <1>1, Undisturbed, RenameMoves
<1>7. \A o \in Objects : o \in Inodes /\ o # None
  BY ConstantsOK DEF Objects
<1>8. ASSUME NEW o \in Objects
      PROVE  /\ node'[o].data = node[o].data /\ node'[o].mtime = node[o].mtime
             /\ node'[o].outside = node[o].outside
             /\ Marked(o)' \/ (~Marked(o) /\ node'[o].ctime = node[o].ctime)
             /\ \A l \in Locs : dir'[l] = o <=> Expected(o, l)'
  <2>1. Marked(o) => Marked(o)'
    BY <1>1, <1>3, <1>5 DEF Marked, Late
  <2>2. o = dir[temp] => Marked(o)'
    <3>1. o = dir[temp] => act.kind = "Hardlink" /\ o = keeperObject
      BY <1>0, TempIs
    <3> QED BY <1>1, <1>3, <3>1 DEF Marked, Late
  <2>3. temp \notin ledger[o].paths /\ temp # moved /\ target # moved
    BY <1>0, <1>2, Undisturbed DEF Mirrored, EntryOK
  <2>4. dir[temp] = o <=> act.kind = "Hardlink" /\ o = keeperObject
    BY <1>0, <1>5, <2>3, Undisturbed DEF Expected
  <2>5. o # targetObject => target \notin ledger[o].paths
    BY <1>0, <1>4, <1>7, Undisturbed DEF Expected
  <2>6. ASSUME NEW l \in Locs PROVE dir'[l] = o <=> Expected(o, l)'
    <3>1. dir[l] = o <=>
            \/ l \in ledger[o].paths /\ ~(o = targetObject /\ l = target)
            \/ o = targetObject /\ l = moved
            \/ act.kind = "Hardlink" /\ o = keeperObject /\ l = temp
      BY <1>0, <1>5, Undisturbed DEF Expected
    <3>2. Expected(o, l)' <=>
            \/ l \in ledger[o].paths /\ ~(o = targetObject /\ l = target)
            \/ o = targetObject /\ l = moved
            \/ act.kind = "Hardlink" /\ o = keeperObject /\ l = target
      BY <1>1, <1>3, <1>5 DEF Expected
    <3>3. CASE l = temp
      BY <1>0, <1>6, <1>7, <2>3, <3>2, <3>3, Undisturbed
    <3>4. CASE l = target
      BY <1>6, <2>3, <2>4, <2>5, <3>2, <3>4
    <3>5. CASE l \notin {temp, target}
      BY <1>6, <3>1, <3>2, <3>5
    <3> QED BY <3>3, <3>4, <3>5
  <2> QED BY <1>6, <1>7, <2>1, <2>2, <2>6
<1>9. /\ target \in ledger[targetObject].paths /\ moved' \notin ledger[targetObject].paths
      /\ target \notin ledger[keeperObject].paths
  <2>1. target \in ledger[targetObject].paths /\ moved' \notin ledger[targetObject].paths
    BY <1>0, <1>1, <1>5, Undisturbed DEF Mirrored
  <2>2. target \notin ledger[keeperObject].paths
    BY <1>0, <1>4, <1>7, Undisturbed DEF Expected
  <2> QED BY <2>1, <2>2
<1>10. act.kind = "Reflink" => CloneAt(target)'
  <2> SUFFICES ASSUME act.kind = "Reflink" PROVE CloneAt(target)'
    OBVIOUS
  <2>1. CloneAt(temp)
    BY <1>0, <1>5, Undisturbed DEF Mirrored
  <2>2. \A j \in Locs : dir'[j] = dir[temp] => j = target
    BY <1>4, <1>6, <2>1 DEF CloneAt
  <2> QED BY <1>0, <1>3, <1>6, <2>1, <2>2, Undisturbed DEF CloneAt
<1> QED BY <1>0, <1>1, <1>2, <1>5, <1>8, <1>9, <1>10, MirrorTree

LEMMA MirrorRemove ==
    ASSUME OwnInv, Quiet, RemoveTemp, Quiet'
    PROVE  Mirrored'
<1>0. Worker /\ pc \in ActionSteps
  BY DEF Worker, RemoveTemp, ActionSteps, Steps
<1>1. /\ pc = "removeTemp" /\ pc' \in {"putBack", "settleTarget"}
      /\ UNCHANGED <<ledger, plan, cur, moved, pub>>
  BY DEF RemoveTemp, Goto, Same
<1>2. UNCHANGED <<act, target, temp, targetObject, keeperObject>>
  BY <1>1 DEF act, target, temp, targetObject, keeperObject
<1>3. pub \in {"NotMoved", "Failed"}
  BY <1>0, <1>1, Undisturbed DEF StageOK
<1>4. dir' = [dir EXCEPT ![temp] = None]
        /\ node' = IF dir[temp] = None THEN node ELSE Bump(dir[temp])
  <2> SUFFICES ASSUME dir[temp] # None, UNCHANGED treeVars PROVE FALSE
    BY DEF RemoveTemp
  <2>1. dir'[Temp(act.target)] # None /\ pc' \notin {"look", "move", "publish", "removeTemp"}
    BY <1>1 DEF treeVars, temp
  <2> QED BY <1>0, <2>1, Undisturbed DEF Quiet
<1>5. /\ dir'[temp] = None
      /\ \A l \in Locs : l # temp => dir'[l] = dir[l]
      /\ \A i \in Inodes :
            /\ node'[i].data = node[i].data /\ node'[i].mtime = node[i].mtime
            /\ node'[i].outside = node[i].outside
            /\ i # dir[temp] => node'[i] = node[i]
  <2>1. dir'[temp] = None /\ \A l \in Locs : l # temp => dir'[l] = dir[l]
    BY <1>0, <1>4, Undisturbed DEF TypeOK
  <2>2. CASE dir[temp] = None
    BY <1>4, <2>1, <2>2
  <2>3. CASE dir[temp] # None
    <3>1. dir[temp] \in Inodes /\ TypeOK /\ node' = Bump(dir[temp])
      BY SMTT(30), <1>0, <1>4, <2>3, Undisturbed DEF TypeOK
    <3> QED BY <2>1, <3>1, BumpAges
  <2> QED BY <2>2, <2>3
<1>6. (Away' <=> Away) /\ ~Staged' /\ ~Put /\ ~Put' /\ pc' \in ActionSteps /\ pc' # "build"
  BY <1>1, <1>3 DEF Away, Staged, Put, whereabouts, ActionSteps, Steps
<1>7. \A o \in Objects : o \in Inodes /\ o # None
  BY ConstantsOK DEF Objects
<1>8. Away => moved \in Quars
  <2>1. Away => moved \in QuarsOf(act.target)
    BY <1>0, Undisturbed DEF Away, whereabouts, WhereOK, Lies
  <2> QED BY <1>0, <2>1, Undisturbed DEF QuarsOf
<1>9. ASSUME NEW o \in Objects
      PROVE  /\ node'[o].data = node[o].data /\ node'[o].mtime = node[o].mtime
             /\ node'[o].outside = node[o].outside
             /\ Marked(o)' \/ (~Marked(o) /\ node'[o].ctime = node[o].ctime)
             /\ \A l \in Locs : dir'[l] = o <=> Expected(o, l)'
  <2>1. Marked(o) => Marked(o)'
    BY <1>1, <1>2, <1>6 DEF Marked, Late
  <2>2. o = dir[temp] => Marked(o)'
    <3>1. o = dir[temp] => act.kind = "Hardlink" /\ o = keeperObject
      BY <1>0, TempIs
    <3> QED BY <1>1, <1>2, <3>1 DEF Marked, Late
  <2>3. temp \notin ledger[o].paths /\ (Away => temp # moved)
    BY <1>0, <1>8, Undisturbed DEF Mirrored, EntryOK
  <2>4. ASSUME NEW l \in Locs PROVE dir'[l] = o <=> Expected(o, l)'
    <3>1. dir[l] = o <=>
            \/ l \in ledger[o].paths /\ ~(Away /\ o = targetObject /\ l = target)
            \/ Away /\ o = targetObject /\ l = moved
            \/ Staged /\ act.kind = "Hardlink" /\ o = keeperObject /\ l = temp
      BY <1>0, <1>6, Undisturbed DEF Expected
    <3>2. Expected(o, l)' <=>
            \/ l \in ledger[o].paths /\ ~(Away /\ o = targetObject /\ l = target)
            \/ Away /\ o = targetObject /\ l = moved
      BY <1>1, <1>2, <1>6 DEF Expected
    <3>3. CASE l = temp
      BY <1>5, <1>7, <2>3, <3>2, <3>3
    <3>4. CASE l # temp
      BY <1>5, <3>1, <3>2, <3>4
    <3> QED BY <3>3, <3>4
  <2> QED BY <1>5, <1>7, <2>1, <2>2, <2>4
<1>10. moved' = None => moved = None /\ \A q \in QuarsOf(act.target) : dir'[q] = dir[q]
  <2>1. \A q \in QuarsOf(act.target) : q \in Locs /\ q # temp
    BY <1>0, Undisturbed DEF QuarsOf
  <2> QED BY <1>1, <1>5, <2>1
<1>11. Away' => /\ target \in ledger[targetObject].paths /\ moved' \notin ledger[targetObject].paths
                /\ dir'[target] = None
  BY <1>0, <1>1, <1>5, <1>6, Undisturbed DEF Mirrored
<1> QED BY <1>0, <1>1, <1>6, <1>9, <1>10, <1>11, MirrorTree

LEMMA MirrorPutBack ==
    ASSUME OwnInv, Quiet, PutBack
    PROVE  Mirrored'
<1>0. Worker /\ pc \in ActionSteps
  BY DEF Worker, PutBack, ActionSteps, Steps
<1>1. /\ pc = "putBack" /\ pc' = "settleTarget" /\ UNCHANGED <<ledger, plan, cur, moved>>
      /\ pub' = "RolledBack" /\ RenameOK(moved, target) /\ Rename(moved, target)
  BY DEF PutBack, Goto, Same
<1>2. /\ moved \in Quars /\ moved \in Locs /\ moved # None /\ pub = "Failed"
      /\ whereabouts = moved /\ moved # target
  <2>1. moved \in QuarsOf(act.target) /\ pub = "Failed"
    BY <1>0, <1>1, Undisturbed DEF GateHolds, StageOK, QuarsOf
  <2>2. moved \in Quars /\ moved \in Locs
    BY <1>0, <2>1, Undisturbed DEF QuarsOf
  <2> QED BY <1>0, <2>1, <2>2, Undisturbed, ConstantsOK DEF whereabouts
<1>3. UNCHANGED <<act, target, temp, targetObject, keeperObject>>
  BY <1>1 DEF act, target, temp, targetObject, keeperObject
<1>4. dir[target] = None /\ dir[moved] = targetObject
  BY <1>0, <1>1, <1>2, Undisturbed DEF At, RenameOK
<1>5. Away /\ ~Away' /\ ~Staged /\ ~Staged' /\ ~Put /\ ~Put' /\ pc' \in ActionSteps /\ pc' # "build"
  BY <1>1, <1>2 DEF Away, Staged, Put, whereabouts, ActionSteps, Steps
<1>6. /\ dir'[target] = targetObject /\ dir'[moved] = None
      /\ \A l \in Locs : l \notin {target, moved} => dir'[l] = dir[l]
      /\ \A i \in Inodes :
            /\ node'[i].data = node[i].data /\ node'[i].mtime = node[i].mtime
            /\ node'[i].outside = node[i].outside
            /\ i # targetObject => node'[i] = node[i]
  BY <1>0, <1>1, <1>2, <1>4, Undisturbed, RenameMoves
<1>7. \A o \in Objects : o \in Inodes /\ o # None
  BY ConstantsOK DEF Objects
<1>8. target \in ledger[targetObject].paths /\ moved \notin ledger[targetObject].paths
  BY <1>0, <1>5, Undisturbed DEF Mirrored
<1>9. ASSUME NEW o \in Objects
      PROVE  /\ node'[o].data = node[o].data /\ node'[o].mtime = node[o].mtime
             /\ node'[o].outside = node[o].outside
             /\ Marked(o)' \/ (~Marked(o) /\ node'[o].ctime = node[o].ctime)
             /\ \A l \in Locs : dir'[l] = o <=> Expected(o, l)'
  <2>1. Marked(o) => Marked(o)'
    BY <1>1, <1>3, <1>5 DEF Marked, Late
  <2>2. o = targetObject => Marked(o)'
    BY <1>1, <1>2, <1>3, <1>5 DEF Marked
  <2>3. ASSUME NEW l \in Locs PROVE dir'[l] = o <=> Expected(o, l)'
    <3>1. dir[l] = o <=>
            \/ l \in ledger[o].paths /\ ~(o = targetObject /\ l = target)
            \/ o = targetObject /\ l = moved
      BY <1>0, <1>5, Undisturbed DEF Expected
    <3>2. Expected(o, l)' <=> l \in ledger[o].paths
      BY <1>1, <1>3, <1>5 DEF Expected
    <3>3. CASE l = target
      BY <1>2, <1>4, <1>6, <1>7, <1>8, <3>1, <3>2, <3>3
    <3>4. CASE l = moved
      BY <1>2, <1>4, <1>6, <1>7, <1>8, <3>1, <3>2, <3>4
    <3>5. CASE l \notin {target, moved}
      BY <1>6, <3>1, <3>2, <3>5
    <3> QED BY <3>3, <3>4, <3>5
  <2> QED BY <1>6, <1>7, <2>1, <2>2, <2>3
<1> QED BY <1>0, <1>1, <1>2, <1>5, <1>9, MirrorTree


-----------------------------------------------------------------------------
\* The names an entry has after a transition.
LEMMA EntryNames ==
    ASSUME NEW L \in [Inodes -> Entry], NEW t \in Inodes, NEW v, NEW a, NEW b
    PROVE  /\ [L EXCEPT ![t].id = v][t].paths = L[t].paths
           /\ [L EXCEPT ![t].id = v, ![t].paths = (@ \ {a}) \cup {b}][t].paths
                = (L[t].paths \ {a}) \cup {b}
           /\ [L EXCEPT ![t].id = v, ![t].paths = @ \cup {b}][t].paths = L[t].paths \cup {b}
           /\ \A o \in Inodes \ {t} :
                /\ [L EXCEPT ![t].id = v][o] = L[o]
                /\ [L EXCEPT ![t].id = v, ![t].paths = (@ \ {a}) \cup {b}][o] = L[o]
                /\ [L EXCEPT ![t].id = v, ![t].paths = @ \cup {b}][o] = L[o]
<1>1. ASSUME NEW e \in Entry, NEW Q
      PROVE  /\ [e EXCEPT !.id = v].paths = e.paths
             /\ [e EXCEPT !.id = v, !.paths = Q].paths = Q
  BY DEF Entry
<1>2. L[t] \in Entry
  OBVIOUS
<1> DEFINE e1 == [L[t] EXCEPT !.id = v]
           e2 == [L[t] EXCEPT !.id = v, !.paths = (@ \ {a}) \cup {b}]
           e3 == [L[t] EXCEPT !.id = v, !.paths = @ \cup {b}]
<1>3. [L EXCEPT ![t].id = v] = [L EXCEPT ![t] = e1]
  OBVIOUS
<1>4. [L EXCEPT ![t].id = v, ![t].paths = (@ \ {a}) \cup {b}] = [L EXCEPT ![t] = e2]
  OBVIOUS
<1>5. [L EXCEPT ![t].id = v, ![t].paths = @ \cup {b}] = [L EXCEPT ![t] = e3]
  OBVIOUS
<1>6. e1.paths = L[t].paths
  BY <1>1, <1>2
<1>7. e2.paths = (L[t].paths \ {a}) \cup {b}
  <2>1. e2 = [L[t] EXCEPT !.id = v, !.paths = (L[t].paths \ {a}) \cup {b}]
    BY <1>2 DEF Entry
  <2> HIDE DEF e2
  <2> QED BY <1>1, <1>2, <2>1
<1>8. e3.paths = L[t].paths \cup {b}
  <2>1. e3 = [L[t] EXCEPT !.id = v, !.paths = L[t].paths \cup {b}]
    BY <1>2 DEF Entry
  <2> HIDE DEF e3
  <2> QED BY <1>1, <1>2, <2>1
<1>9. ASSUME NEW e
      PROVE  /\ [L EXCEPT ![t] = e][t] = e
             /\ \A o \in Inodes \ {t} : [L EXCEPT ![t] = e][o] = L[o]
  OBVIOUS
<1> HIDE DEF e1, e2, e3
<1>10. /\ [L EXCEPT ![t] = e1][t] = e1 /\ [L EXCEPT ![t] = e2][t] = e2
       /\ [L EXCEPT ![t] = e3][t] = e3
       /\ \A o \in Inodes \ {t} : /\ [L EXCEPT ![t] = e1][o] = L[o]
                                  /\ [L EXCEPT ![t] = e2][o] = L[o]
                                  /\ [L EXCEPT ![t] = e3][o] = L[o]
  BY <1>9
<1> QED BY <1>3, <1>4, <1>5, <1>6, <1>7, <1>8, <1>10

\* An entry that takes the identity a stat reads, and the names the tree has, is right.
LEMMA Adopted ==
    ASSUME IInv, NEW o \in Objects, EntryOK(o), NEW l \in Locs, dir[l] = o,
           NEW P \in SUBSET Locs, \A k \in Locs : dir[k] = o <=> k \in P,
           P # {}, P \subseteq Homes \cup Quars, UNCHANGED treeVars,
           ledger'[o].id = Identity(l), ledger'[o].paths = P,
           ledger'[o].settled = ledger[o].settled
    PROVE  EntryOK(o)' /\ ledger'[o].id.ctime = node'[o].ctime
<1>1. /\ Identity(l) \in Ids /\ Identity(l).ino = o /\ Identity(l).mtime = ledger[o].id.mtime
      /\ Identity(l).ctime = node[o].ctime
      /\ Identity(l).nlink = Cardinality(P) + node[o].outside
  BY StatReads
<1>2. PICK v \in Ids : v = Identity(l)
  BY <1>1
<1>3. /\ ledger'[o].id = v /\ v.ino = o /\ v.mtime = node[o].mtime /\ v.ctime = node[o].ctime
      /\ v.nlink = Cardinality(P) + node[o].outside /\ ledger'[o].settled /\ Right(o)
  BY <1>1, <1>2 DEF EntryOK
<1>4. node' = node /\ dir' = dir
  BY DEF treeVars
<1>5. Right(o)'
  BY <1>3, <1>4 DEF Right
<1> QED BY <1>3, <1>4, <1>5 DEF EntryOK

LEMMA MirrorSettlesTarget ==
    ASSUME OwnInv, Quiet, SettleTarget
    PROVE  /\ Mirrored'
           /\ \/ pub = "Published" /\ act.kind = "Delete" /\ Report("Removed", moved)
              \/ ~(pub = "Published" /\ act.kind = "Delete") /\ pc' = "settleKeeper"
                   /\ results' = results
<1>0. pc = "settleTarget" /\ pc \in ActionSteps
  BY DEF SettleTarget, ActionSteps, Steps
<1>1. /\ UNCHANGED <<treeVars, plan, cur, moved, pub>> /\ dir' = dir /\ node' = node
      /\ SameButCtime(targetObject, Where)
      /\ ledger' = IF Where = target THEN Settled(targetObject, target)
                                     ELSE Adopt(targetObject, target, Where)
      /\ \/ pub = "Published" /\ act.kind = "Delete" /\ Report("Removed", moved)
         \/ ~(pub = "Published" /\ act.kind = "Delete") /\ pc' = "settleKeeper"
                   /\ results' = results
  <2>1. SameButCtime(targetObject, Where)
    BY <1>0, TargetSettles
  <2> QED BY <2>1 DEF SettleTarget, Where, Same, Goto, treeVars
<1>2. UNCHANGED <<act, target, temp, targetObject, keeperObject>>
  BY <1>1 DEF act, target, temp, targetObject, keeperObject
<1>3. /\ ledger'[targetObject].id = Identity(Where)
      /\ ledger'[targetObject].paths = TargetNames
      /\ ledger'[targetObject].settled = ledger[targetObject].settled
      /\ \A o \in Inodes \ {targetObject} : ledger'[o] = ledger[o]
  <2>0. ledger \in [Inodes -> Entry] /\ targetObject \in Inodes
    BY <1>0, Undisturbed DEF TypeOK
  <2>1. Where # target <=> pub \in {"Published", "Stranded"}
    BY <1>0, TargetSettles
  <2>2. CASE Where = target
    <3>1. ledger' = [ledger EXCEPT ![targetObject].id = Identity(Where)]
      BY <1>1, <2>2 DEF Settled
    <3>2. TargetNames = ledger[targetObject].paths
      BY <2>1, <2>2 DEF TargetNames
    <3> QED BY <2>0, <3>1, <3>2, EntryNames, EntryUpdates
  <2>3. CASE Where # target
    <3>1. ledger' = [ledger EXCEPT ![targetObject].id = Identity(Where),
                                   ![targetObject].paths = (@ \ {target}) \cup {Where}]
      BY <1>1, <2>3 DEF Adopt
    <3>2. TargetNames = (ledger[targetObject].paths \ {target}) \cup {Where}
      BY <2>1, <2>3 DEF TargetNames, Where
    <3> QED BY <2>0, <3>1, <3>2, EntryNames, EntryUpdates
  <2> QED BY <2>2, <2>3
<1>4. ~Away' /\ ~Staged /\ ~Staged' /\ (Put' <=> Put) /\ pc' # "build"
  BY <1>0, <1>1, <1>2 DEF Away, Staged, Put, Report, Goto, ActionSteps, Steps
<1>5. \A o \in Objects : o \in Inodes
  BY ConstantsOK DEF Objects
<1>6. ASSUME NEW o \in Objects
      PROVE  /\ EntryOK(o)'
             /\ \A l \in Locs : dir'[l] = o <=> Expected(o, l)'
             /\ ~Marked(o)' => ledger'[o].id.ctime = node'[o].ctime
  <2>0. EntryOK(o) /\ (~Marked(o) => ledger[o].id.ctime = node[o].ctime)
    BY <1>0, Undisturbed DEF Mirrored
  <2>1. CASE o = targetObject
    <3>1. /\ Where \in Locs /\ dir[Where] = o /\ TargetNames \in SUBSET Locs
          /\ \A k \in Locs : dir[k] = o <=> k \in TargetNames
          /\ TargetNames # {} /\ TargetNames \subseteq Homes \cup Quars
      <4>1. TargetNames \subseteq Homes \cup Quars
        BY <1>0, TargetSettles
      <4>2. TargetNames \in SUBSET Locs
        BY <4>1 DEF Locs
      <4> QED BY <1>0, <2>1, <4>1, <4>2, TargetSettles
    <3>2. EntryOK(o)' /\ ledger'[o].id.ctime = node'[o].ctime
      BY <1>0, <1>1, <1>3, <2>0, <2>1, <3>1, Adopted, Undisturbed
    <3>3. \A l \in Locs : Expected(o, l)' <=> l \in TargetNames
      BY <1>0, <1>2, <1>3, <1>4, <2>1, Undisturbed DEF Expected
    <3> QED BY <1>1, <3>1, <3>2, <3>3
  <2>2. CASE o # targetObject
    <3>1. ledger'[o] = ledger[o]
      BY <1>3, <1>5, <2>2
    <3>2. EntryOK(o)'
      BY <1>1, <2>0, <3>1 DEF EntryOK, Right
    <3>3. \A l \in Locs : Expected(o, l)' <=> Expected(o, l)
      BY <1>2, <1>4, <2>2, <3>1 DEF Expected
    <3>4. Marked(o) => Marked(o)'
      BY <1>0, <1>1, <1>2, <2>2 DEF Marked, Late, Report, Goto, OwnInv, KindOK
    <3> QED BY <1>0, <1>1, <2>0, <3>1, <3>2, <3>3, <3>4, Undisturbed
  <2> QED BY <2>1, <2>2
<1>7. Put' /\ act.kind = "Hardlink" => target \notin ledger'[keeperObject].paths
  BY <1>0, <1>3, <1>4, Undisturbed DEF Mirrored
<1>8. act.kind = "Reflink" /\ Put' => CloneAt(target)'
  BY <1>0, <1>1, <1>2, <1>4, Undisturbed DEF Mirrored, CloneAt
<1>9. \A i \in DOMAIN plan : i > cur \/ (i = cur /\ moved = None) =>
         \A q \in QuarsOf(plan[i].target) : dir[q] = None
  BY <1>0, Undisturbed DEF Mirrored
<1>10. Mirrored'
  BY <1>1, <1>2, <1>4, <1>6, <1>7, <1>8, <1>9 DEF Mirrored
<1> QED BY <1>1, <1>10


LEMMA MirrorSettlesKeeper ==
    ASSUME OwnInv, Quiet, SettleKeeper
    PROVE  /\ Mirrored'
           /\ \/ pub = "Published" /\ Report("Removed", moved)
              \/ pub # "Published" /\ pc' = "boundary" /\ \E out \in Outcome : results' = Append(results, out)
<1>0. pc = "settleKeeper" /\ pc \in ActionSteps /\ Worker
  BY DEF SettleKeeper, ActionSteps, Steps, Worker
<1>1. UNCHANGED <<treeVars, plan, cur, moved, pub>> /\ dir' = dir /\ node' = node
  BY DEF SettleKeeper, Same, treeVars
<1>2. UNCHANGED <<act, target, temp, targetObject, keeperObject>>
  BY <1>1 DEF act, target, temp, targetObject, keeperObject
<1>3. pc' = "boundary"
  BY <1>0, KeeperReports, Undisturbed
<1>4. \/ /\ pub = "Published" /\ act.kind = "Hardlink" /\ Report("Removed", moved)
         /\ ledger' = [ledger EXCEPT ![keeperObject].id = Identity(keeper),
                                     ![keeperObject].paths = @ \cup {target}]
      \/ /\ pub = "Published" /\ act.kind = "Reflink" /\ Report("Removed", moved)
         /\ ledger' = ledger
      \/ /\ pub # "Published" /\ ledger' = [ledger EXCEPT ![keeperObject].id = Identity(keeper)]
  BY <1>0, KeeperAddsUp DEF SettleKeeper, SettlePublished, SettleFailed, Settled
<1>5. pub # "Published" => \E out \in Outcome : results' = Append(results, out)
  BY <1>0, <1>1, <1>3, ReportTells, Undisturbed, ActionReports DEF Told, ActionSteps
<1>6. /\ ledger'[keeperObject].paths = KeeperNames
      /\ ledger'[keeperObject].settled = ledger[keeperObject].settled
      /\ ledger'[keeperObject].id = Identity(keeper)
           \/ (act.kind = "Reflink" /\ ledger'[keeperObject] = ledger[keeperObject])
      /\ \A o \in Inodes \ {keeperObject} : ledger'[o] = ledger[o]
  <2>0. ledger \in [Inodes -> Entry] /\ keeperObject \in Inodes
    BY <1>0, Undisturbed DEF TypeOK
  <2>1. CASE pub = "Published" /\ act.kind = "Hardlink"
    <3>1. ledger' = [ledger EXCEPT ![keeperObject].id = Identity(keeper),
                                   ![keeperObject].paths = @ \cup {target}]
      BY <1>4, <2>1
    <3>2. KeeperNames = ledger[keeperObject].paths \cup {target}
      BY <2>1 DEF KeeperNames
    <3> QED BY <2>0, <3>1, <3>2, EntryNames, EntryUpdates
  <2>2. CASE pub = "Published" /\ act.kind = "Reflink"
    BY <1>4, <2>2 DEF KeeperNames
  <2>3. CASE pub # "Published"
    <3>1. ledger' = [ledger EXCEPT ![keeperObject].id = Identity(keeper)]
      BY <1>4, <2>3
    <3>2. KeeperNames = ledger[keeperObject].paths
      BY <2>3 DEF KeeperNames
    <3> QED BY <2>0, <3>1, <3>2, EntryNames, EntryUpdates
  <2> QED BY <1>4, <2>1, <2>2, <2>3
<1>7. ~Away /\ ~Staged /\ ~Away' /\ ~Staged' /\ ~Put'
  BY <1>0, <1>3 DEF Away, Staged, Put, ActionSteps, Steps
<1>8. \A o \in Objects : o \in Inodes
  BY ConstantsOK DEF Objects
<1>9. ASSUME NEW o \in Objects
      PROVE  /\ EntryOK(o)'
             /\ \A l \in Locs : dir'[l] = o <=> Expected(o, l)'
             /\ ledger'[o].id.ctime = node'[o].ctime
  <2>0. EntryOK(o) /\ (~Marked(o) => ledger[o].id.ctime = node[o].ctime)
    BY <1>0, Undisturbed DEF Mirrored
  <2>a. \A l \in Locs : Expected(o, l)' <=> l \in ledger'[o].paths
    BY <1>7 DEF Expected
  <2>1. CASE o = keeperObject
    <3>1. /\ keeper \in Locs /\ dir[keeper] = o /\ KeeperNames \in SUBSET Locs
          /\ \A k \in Locs : dir[k] = o <=> k \in KeeperNames
          /\ KeeperNames # {} /\ KeeperNames \subseteq Homes \cup Quars
      <4>1. KeeperNames \subseteq Homes \cup Quars
        BY <1>0, KeeperAddsUp
      <4>2. KeeperNames \in SUBSET Locs
        BY <4>1 DEF Locs
      <4> QED BY <1>0, <2>1, <4>1, <4>2, KeeperAddsUp, Undisturbed
    <3>2. EntryOK(o)' /\ ledger'[o].id.ctime = node'[o].ctime
      <4>1. CASE ledger'[keeperObject].id = Identity(keeper)
        BY <1>0, <1>1, <1>6, <2>0, <2>1, <3>1, <4>1, Adopted, Undisturbed
      <4>2. CASE act.kind = "Reflink" /\ ledger'[keeperObject] = ledger[keeperObject]
        <5>1. ~Marked(o)
          BY <1>0, <2>1, <4>2, Undisturbed DEF Marked
        <5> QED BY <1>1, <2>0, <2>1, <4>2, <5>1 DEF EntryOK, Right
      <4> QED BY <1>6, <4>1, <4>2
    <3> QED BY <1>1, <1>6, <2>1, <2>a, <3>1, <3>2
  <2>2. CASE o # keeperObject
    <3>1. ledger'[o] = ledger[o]
      BY <1>6, <1>8, <2>2
    <3>2. EntryOK(o)'
      BY <1>1, <2>0, <3>1 DEF EntryOK, Right
    <3>3. \A l \in Locs : Expected(o, l) <=> l \in ledger[o].paths
      BY <1>7, <2>2 DEF Expected
    <3>4. ~Marked(o)
      BY <1>0, <2>2 DEF Marked, ActionSteps, Steps
    <3> QED BY <1>0, <1>1, <2>0, <2>a, <3>1, <3>2, <3>3, <3>4, Undisturbed
  <2> QED BY <2>1, <2>2
<1>10. \A i \in DOMAIN plan : i > cur => \A q \in QuarsOf(plan[i].target) : dir[q] = None
  BY <1>0, Undisturbed DEF Mirrored
<1>11. pc' \notin ActionSteps
  BY <1>3 DEF ActionSteps
<1>12. Mirrored'
  BY <1>1, <1>7, <1>9, <1>10, <1>11 DEF Mirrored
<1> QED BY <1>3, <1>4, <1>5, <1>12

\* The next action, or the end.
LEMMA MirrorBoundary ==
    ASSUME OwnInv, Quiet, Worker, pc = "boundary"
    PROVE  Mirrored'
<1>1. /\ UNCHANGED <<treeVars, plan, ledger>> /\ dir' = dir /\ node' = node
      /\ \/ pc' = "done" /\ cur' = cur /\ moved' = moved
         \/ pc' = "check" /\ cur' = cur + 1 /\ moved' = None /\ pub' = "none"
  BY BoundarySteps DEF treeVars, OwnInv, ReportInv, TrustInv
<1>2. Mirrored /\ cur \in Nat
  BY PlansOK DEF OwnInv, MirrorOK, Acting, ReportInv, TrustInv, IInv, TypeOK
<1>3. ~Away /\ ~Staged /\ ~Put /\ \A o \in Objects : ~Marked(o)
  BY DEF Away, Staged, Put, Marked, Late, ActionSteps
<1>4. ~Away' /\ ~Staged' /\ ~Put' /\ pc' # "build"
  BY <1>1 DEF Away, Staged, Put, whereabouts, ActionSteps
<1>5. ASSUME NEW o \in Objects
      PROVE  /\ EntryOK(o)'
             /\ \A l \in Locs : dir'[l] = o <=> Expected(o, l)'
             /\ ledger'[o].id.ctime = node'[o].ctime
  <2>1. /\ EntryOK(o) /\ ledger[o].id.ctime = node[o].ctime
        /\ \A l \in Locs : dir[l] = o <=> Expected(o, l)
    BY <1>2, <1>3 DEF Mirrored
  <2>2. EntryOK(o)'
    BY <1>1, <2>1 DEF EntryOK, Right
  <2>3. \A l \in Locs : (Expected(o, l) <=> l \in ledger[o].paths)
                           /\ (Expected(o, l)' <=> l \in ledger[o].paths)
    BY <1>1, <1>3, <1>4 DEF Expected
  <2> QED BY <1>1, <2>1, <2>2, <2>3
<1>6. \A i \in DOMAIN plan : i > cur' \/ (i = cur' /\ pc' \in ActionSteps) =>
         \A q \in QuarsOf(plan[i].target) : dir[q] = None
  <2>1. \A i \in DOMAIN plan : i > cur => \A q \in QuarsOf(plan[i].target) : dir[q] = None
    BY <1>2 DEF Mirrored
  <2>2. \A i \in DOMAIN plan : i \in Nat
    BY PlansOK DEF OwnInv, ReportInv, TrustInv, IInv, TypeOK
  <2> QED BY <1>1, <1>2, <2>1, <2>2 DEF ActionSteps
<1> QED BY <1>1, <1>4, <1>5, <1>6 DEF Mirrored


\* The ledger opens as the tree is: nobody has changed a name since the scan.
LEMMA MirrorOpens ==
    ASSUME OwnInv, Quiet, Worker, pc \in Opening, Acting'
    PROVE  Mirrored'
<1>0. IInv /\ TypeOK /\ Progress /\ Intact /\ StoppedOK /\ Untouched
  BY DEF OwnInv, ReportInv, TrustInv, IInv
<1>1. /\ pc = "preflight2" /\ pc' = "boundary" /\ Preflight /\ cur = 0
      /\ UNCHANGED <<treeVars, plan, cur>> /\ dir' = dir /\ node' = node
  BY <1>0, OpeningSteps DEF Acting, Opening, ActionSteps, Progress, treeVars
<1>2. PreflightSecond
  BY <1>1 DEF Worker, LeaseRefused, LeaseTaken, PreflightFirst, FindObstacles,
       CreateSnapshot, SnapshotFails, SnapshotsMade, Boundary, ApplyOne, StatTarget, HashTarget,
       StatKeeper, HashKeeper, ReadMeta, Build, BuildFails, QuarantineLook, QuarantineMove,
       QuarantineFails, Publish, PublishFails, RemoveTemp, PutBack, PutBackFails, SettleTarget,
       SettleKeeper
<1>3. ~Away' /\ ~Staged' /\ ~Put' /\ pc' \notin ActionSteps
  BY <1>1 DEF Away, Staged, Put, ActionSteps
<1>4. ASSUME NEW o \in Objects
      PROVE  /\ EntryOK(o)'
             /\ \A l \in Locs : dir'[l] = o <=> Expected(o, l)'
             /\ ledger'[o].id.ctime = node'[o].ctime
  <2>1. /\ o \in Inodes /\ node[o].mtime \in Nat /\ node[o].ctime \in Nat /\ Nlink(o) \in Nat
    BY SMTT(30), <1>0, ConstantsOK, NlinkType DEF Objects, TypeOK
  <2>2. PICK p \in Paths : InodeOf[p] = o
    BY DEF Objects
  <2>3. AsScanned(o)
    BY <1>0, <1>1, <2>2, PreflightSees DEF Intact
  <2>4. ledger'[o] = [id |-> [ino |-> o, mtime |-> node[o].mtime, ctime |-> node[o].ctime,
                              nlink |-> Nlink(o)],
                      paths |-> {Home(q) : q \in Members(o)}, settled |-> TRUE]
    BY <1>1, <1>2, <2>1 DEF PreflightSecond
  <2>5. PICK P : P = {Home(q) : q \in Members(o)}
    OBVIOUS
  <2>6. PICK v : v = [ino |-> o, mtime |-> node[o].mtime, ctime |-> node[o].ctime,
                      nlink |-> Nlink(o)]
    OBVIOUS
  <2>7. /\ ledger'[o].id = v /\ ledger'[o].paths = P /\ ledger'[o].settled
        /\ v \in Ids /\ v.ino = o /\ v.mtime = node[o].mtime /\ v.ctime = node[o].ctime
        /\ v.nlink = Nlink(o)
    BY <2>1, <2>4, <2>5, <2>6 DEF Ids
  <2>8. P # {} /\ P \subseteq Homes /\ \A l \in Locs : dir[l] = o <=> l \in P
    <3>1. Home(p) \in P
      BY <2>2, <2>5 DEF Members
    <3>2. P \subseteq Homes
      BY <2>5 DEF Members, Homes
    <3> QED BY <2>3, <2>5, <3>1, <3>2 DEF AsScanned
  <2>9. Nlink(o) = Cardinality(P) + node[o].outside
    <3>1. {l \in Locs : dir[l] = o} = P
      BY <2>8 DEF Locs
    <3> QED BY <3>1 DEF Nlink
  <2>10. Right(o)'
    BY <1>1, <2>3 DEF AsScanned, Right
  <2>11. EntryOK(o)'
    BY <1>1, <2>7, <2>8, <2>9, <2>10 DEF EntryOK
  <2>12. \A l \in Locs : Expected(o, l)' <=> l \in P
    BY <1>3, <2>7 DEF Expected
  <2> QED BY <1>1, <2>7, <2>8, <2>11, <2>12
<1>5. ASSUME NEW i \in DOMAIN plan, NEW q \in QuarsOf(plan[i].target) PROVE dir[q] = None
  <2>1. q \in Locs /\ q \notin Homes
    BY <1>0, TargetsApart, NamesAreLocs, NamesApart DEF QuarsOf, Homes
  <2>2. touched = {} /\ pc \in Opening
    BY <1>0 DEF Untouched, Quiet
  <2> QED BY <1>0, <2>1, <2>2 DEF StoppedOK, Initially
<1> QED BY <1>1, <1>3, <1>4, <1>5 DEF Mirrored

LEMMA MirrorNext == ASSUME OwnInv, [Next]_vars PROVE MirrorOK'
<1> SUFFICES ASSUME Quiet', Acting' PROVE Mirrored'
  BY DEF MirrorOK
<1>0. IInv /\ GateHolds /\ Progress /\ StageOK /\ Untouched /\ TempsOK
  BY DEF OwnInv, ReportInv, TrustInv
<1>1. Quiet /\ (Worker \/ UNCHANGED <<treeVars, batchVars, touched, faults, outsider>>)
  BY <1>0, QuietBack
<1>2. CASE ~Worker
  <2>1. /\ UNCHANGED <<dir, node, plan, ledger, pc, cur, moved, pub, seen, ending>>
    BY <1>1, <1>2 DEF treeVars, batchVars
  <2>2. UNCHANGED <<act, target, keeper, temp, targetObject, keeperObject>>
    BY <2>1 DEF act, target, keeper, temp, targetObject, keeperObject
  <2>3. Mirrored
    BY <1>1, <2>1 DEF Acting, OwnInv, MirrorOK
  <2>4. (Away' <=> Away) /\ (Staged' <=> Staged) /\ (Put' <=> Put)
    BY <2>1, <2>2 DEF Away, Staged, Put, whereabouts
  <2>5. ASSUME NEW o \in Objects
        PROVE  /\ EntryOK(o)'
               /\ \A l \in Locs : dir'[l] = o <=> Expected(o, l)'
               /\ ~Marked(o)' => ledger'[o].id.ctime = node'[o].ctime
    <3>1. /\ EntryOK(o) /\ (~Marked(o) => ledger[o].id.ctime = node[o].ctime)
          /\ \A l \in Locs : dir[l] = o <=> Expected(o, l)
      BY <2>3 DEF Mirrored
    <3>2. EntryOK(o)'
      BY <2>1, <3>1 DEF EntryOK, Right
    <3>3. Marked(o)' <=> Marked(o)
      BY <2>1, <2>2 DEF Marked
    <3>4. \A l \in Locs : Expected(o, l)' <=> Expected(o, l)
      BY <2>1, <2>2, <2>4 DEF Expected
    <3> QED BY <2>1, <3>1, <3>2, <3>3, <3>4
  <2>6. \A l : CloneAt(l)' <=> CloneAt(l)
    BY <2>1, <2>2 DEF CloneAt
  <2> QED BY <2>1, <2>2, <2>3, <2>4, <2>5, <2>6 DEF Mirrored
<1>3. CASE Worker /\ pc \in Opening
  BY <1>1, <1>3, MirrorOpens
<1>4. CASE Worker /\ pc = "boundary"
  BY <1>1, <1>4, MirrorBoundary
<1>5. CASE Worker /\ pc \in ActionSteps
  BY <1>1, <1>5, MirrorChecks, MirrorBuild, MirrorMove, MirrorPublish, MirrorRemove,
     MirrorPutBack, MirrorSettlesTarget, MirrorSettlesKeeper
<1> QED BY <1>0, <1>1, <1>2, <1>3, <1>4, <1>5, StepKinds


-----------------------------------------------------------------------------
\* What a step of an undisturbed action costs: it goes on, and is failing only after a fault; or
\* it is told, as carried out, as refused before the snapshots, or after a fault.
Goes == results' = results /\ (Failing' => Failing \/ faults' # faults)
Tolls == /\ pc' = "boundary"
         /\ \E out \in Outcome :
              /\ results' = Append(results, out)
              /\ out.res = "Removed" \/ cur \in obstacles \/ Failing \/ faults' # faults

LEMMA Tolling ==
    ASSUME OwnInv, NEW res \in {"Removed", "Refused", "RolledBack", "Stranded", "Unsettled"},
           NEW q \in Locs \cup {None}, Report(res, q),
           res = "Removed" \/ cur \in obstacles \/ Failing \/ faults' # faults
    PROVE  Tolls
<1>1. PICK out : out = [res |-> res, quarantine |-> q]
  OBVIOUS
<1>2. out \in Outcome /\ out.res = res
  BY <1>1 DEF Outcome
<1> QED BY <1>1, <1>2 DEF Report, Goto, Tolls

LEMMA Costs ==
    ASSUME OwnInv, Quiet, Worker, pc \in ActionSteps
    PROVE  /\ faults' = faults \/ (faults > 0 /\ faults' = faults - 1)
           /\ Goes \/ Tolls
<1>0. /\ IInv /\ TypeOK /\ GateHolds /\ StageOK /\ faults \in Nat
      /\ moved \in Locs \cup {None}
  BY Undisturbed DEF TypeOK
<1>1. FirstStep \in {"look", "build", "meta"}
  BY Undisturbed DEF Action, FirstStep, Kinds
<1>2. pub = "none" => ~Failing
  BY DEF Failing
<1>3. ASSUME results' = results, pub' = "none" PROVE Goes
  BY <1>3 DEF Goes, Failing
<1>4. faults > 0 /\ faults' = faults - 1 => faults' # faults
  BY <1>0
<1>5. moved = None => Live(target) /\ dir[target] # None /\ node[dir[target]].data = digest
  BY FilesLive DEF whereabouts
<1>6. Live(keeper) /\ dir[keeper] # None /\ node[dir[keeper]].data = digest
  BY FilesLive
<1>7. pc \in {"check", "statTarget", "hashTarget", "statKeeper", "hashKeeper", "meta", "build",
              "look", "move"} => moved = None /\ pub = "none"
  BY <1>0 DEF StageOK, ActionSteps, Steps
<1>8. CASE ApplyOne
  <2>1. pc = "check" /\ pub' = pub /\ faults' = faults /\ pub = "none"
    BY <1>7, <1>8 DEF ApplyOne
  <2>2. CASE cur \in obstacles
    <3>1. Report("Refused", None)
      BY <1>8, <2>2 DEF ApplyOne
    <3> QED BY <2>1, <2>2, <3>1, Tolling
  <2>3. CASE cur \notin obstacles
    <3>1. results' = results
      BY <1>8, <2>1, <2>3, ChecksPass DEF ApplyOne
    <3> QED BY <1>3, <2>1, <3>1
  <2> QED BY <2>2, <2>3
<1>9. CASE StatTarget \/ HashTarget
  <2>1. moved = None /\ pub = "none"
    BY <1>7, <1>9 DEF StatTarget, HashTarget
  <2>2. results' = results /\ pub' = pub /\ faults' = faults
    BY <1>5, <1>9, <2>1 DEF StatTarget, HashTarget, Stat, Hash, target
  <2> QED BY <1>3, <2>1, <2>2
<1>10. CASE StatKeeper \/ HashKeeper
  <2>1. moved = None /\ pub = "none"
    BY <1>7, <1>10 DEF StatKeeper, HashKeeper
  <2>2. results' = results /\ pub' = pub /\ faults' = faults
    BY <1>6, <1>10 DEF StatKeeper, HashKeeper, Stat, Hash, keeper
  <2> QED BY <1>3, <2>1, <2>2
<1>11. CASE ReadMeta
  <2>1. moved = None /\ pub = "none"
    BY <1>7, <1>11 DEF ReadMeta
  <2>2. results' = results /\ ((pub' = pub /\ faults' = faults) \/ (faults > 0 /\ faults' = faults - 1))
    BY <1>5, <1>11, <2>1 DEF ReadMeta, Fault, NoFault
  <2> QED BY <1>3, <1>4, <2>1, <2>2 DEF Goes
<1>12. CASE Build \/ BuildFails
  <2>1. pub = "none"
    BY <1>7, <1>12 DEF Build, BuildFails
  <2>2. results' = results /\ ((pub' = pub /\ faults' = faults) \/ (faults > 0 /\ faults' = faults - 1))
    BY <1>6, <1>12 DEF Build, BuildFails, Fault, NoFault
  <2> QED BY <1>3, <1>4, <2>1, <2>2 DEF Goes
<1>13. CASE QuarantineLook
  <2>1. moved = None /\ pub = "none"
    BY <1>7, <1>13 DEF QuarantineLook
  <2>2. results' = results /\ pub' = pub /\ faults' = faults
    BY <1>5, <1>13, <2>1 DEF QuarantineLook
  <2> QED BY <1>3, <2>1, <2>2
<1>14. CASE QuarantineMove
  <2>1. pub = "none" /\ results' = results /\ faults' = faults /\ pub' \in {"none", "Published"}
    BY <1>7, <1>14 DEF QuarantineMove, NoFault
  <2> QED BY <2>1 DEF Goes, Failing
<1>15. CASE QuarantineFails
  <2>1. moved = None /\ pub = "none" /\ pc = "move"
    BY <1>7, <1>15 DEF QuarantineFails
  <2>2. faults > 0 /\ faults' = faults - 1
    <3>1. dir[target] # None /\ \E n \in 0..MaxSuffix : FreeName(n)
      BY <1>5, <2>1, RenamesPass
    <3> QED BY <1>15, <3>1 DEF QuarantineFails, Fault
  <2>3. results' = results \/ Report("Refused", None)
    BY <1>15 DEF QuarantineFails, NotMoved
  <2>4. CASE Report("Refused", None)
    BY <1>4, <2>2, <2>4, Tolling
  <2> QED BY <1>4, <2>2, <2>3, <2>4 DEF Goes
<1>16. CASE Publish
  <2>1. results' = results /\ faults' = faults /\ pub' = "Published"
    BY <1>16 DEF Publish, NoFault
  <2> QED BY <2>1 DEF Goes, Failing
<1>17. CASE PublishFails
  <2>1. RenameOK(temp, target)
    BY <1>17, RenamesPass DEF PublishFails
  <2>2. results' = results /\ faults > 0 /\ faults' = faults - 1
    BY <1>17, <2>1 DEF PublishFails, Fault
  <2> QED BY <1>4, <2>2 DEF Goes
<1>18. CASE RemoveTemp \/ PutBack \/ PutBackFails
  <2>1. pub \in {"NotMoved", "Failed"}
    BY <1>0, <1>18 DEF RemoveTemp, PutBack, PutBackFails, StageOK, GateHolds
  <2>2. Failing /\ results' = results
    BY <1>18, <2>1 DEF Failing, RemoveTemp, PutBack, PutBackFails
  <2>3. faults' = faults \/ (faults > 0 /\ faults' = faults - 1)
    BY <1>18 DEF RemoveTemp, PutBack, PutBackFails, Fault, NoFault
  <2> QED BY <2>2, <2>3 DEF Goes
<1>19. CASE SettleTarget
  <2>1. UNCHANGED <<pub, faults>>
    BY <1>19 DEF SettleTarget
  <2>2. CASE Report("Removed", moved)
    BY <1>0, <2>1, <2>2, Tolling
  <2>3. CASE results' = results
    BY <2>1, <2>3 DEF Goes, Failing
  <2> QED BY <1>19, <2>1, <2>2, <2>3, MirrorSettlesTarget
<1>20. CASE SettleKeeper
  <2>1. UNCHANGED <<pub, faults>>
    BY <1>20 DEF SettleKeeper
  <2>2. CASE Report("Removed", moved)
    BY <1>0, <2>1, <2>2, Tolling
  <2>3. CASE pub # "Published" /\ pc' = "boundary" /\ \E out \in Outcome : results' = Append(results, out)
    <3>1. pub \in {"NotMoved", "RolledBack", "Stranded"}
      BY <1>0, <1>20, <2>3 DEF SettleKeeper, IInv, StepOK
    <3>2. Failing
      BY <3>1 DEF Failing
    <3> QED BY <2>1, <2>3, <3>2 DEF Tolls
  <2> QED BY <1>20, <2>1, <2>2, <2>3, MirrorSettlesKeeper
<1> QED BY <1>8, <1>9, <1>10, <1>11, <1>12, <1>13, <1>14, <1>15, <1>16, <1>17, <1>18, <1>19,
           <1>20, ActionKinds

\* One more outcome is at most one more action lost, and none when it was carried out or refused
\* before the snapshots.
LEMMA LostGrows ==
    ASSUME TypeOK, NEW out \in Outcome, results' = Append(results, out), obstacles' = obstacles,
           cur = Len(results) + 1
    PROVE  /\ Cardinality(Lost) \in Nat /\ Cardinality(Lost') \in Nat
           /\ Cardinality(Lost') <= Cardinality(Lost) + 1
           /\ out.res = "Removed" \/ cur \in obstacles => Lost' = Lost
<1>1. /\ results \in Seq(Outcome) /\ Len(results) \in Nat /\ DOMAIN results = 1..Len(results)
      /\ DOMAIN results' = DOMAIN results \cup {cur} /\ cur \notin DOMAIN results
      /\ results'[cur] = out /\ \A i \in DOMAIN results : results'[i] = results[i]
  BY DEF TypeOK
<1>2. Lost \subseteq DOMAIN results /\ IsFiniteSet(DOMAIN results)
  BY <1>1, FS_Interval DEF Lost
<1>3. IsFiniteSet(Lost) /\ Cardinality(Lost) \in Nat
  BY <1>2, FS_Subset, FS_CardinalityType
<1>4. Lost' = IF cur \notin obstacles /\ out.res # "Removed" THEN Lost \cup {cur} ELSE Lost
  BY <1>1 DEF Lost
<1>5. Cardinality(Lost \cup {cur}) = Cardinality(Lost) + 1
  BY <1>1, <1>2, <1>3, FS_AddElement
<1> QED BY <1>3, <1>4, <1>5

LEMMA CountNext == ASSUME OwnInv, [Next]_vars PROVE CountOK'
<1>p. plan' = plan
  BY PlanStays DEF OwnInv, ReportInv, TrustInv, IInv
<1> SUFFICES ASSUME Quiet'
             PROVE  Cardinality(Lost') + (IF Failing' THEN 1 ELSE 0) + faults' <= MaxFaults[plan]
  BY <1>p DEF CountOK
<1>0. IInv /\ TypeOK /\ GateHolds /\ Progress /\ StageOK /\ Untouched /\ TempsOK
  BY DEF OwnInv, ReportInv, TrustInv, IInv
<1>1. Quiet /\ (Worker \/ UNCHANGED <<treeVars, batchVars, touched, faults, outsider>>)
  BY <1>0, QuietBack
<1>2. /\ faults \in Nat /\ MaxFaults[plan] \in Nat /\ IsFiniteSet(DOMAIN results)
      /\ Cardinality(Lost) \in Nat
      /\ Cardinality(Lost) + (IF Failing THEN 1 ELSE 0) + faults <= MaxFaults[plan]
  <2>1. IsFiniteSet(DOMAIN results)
    <3>1. Len(results) \in Nat /\ DOMAIN results = 1..Len(results)
      BY <1>0 DEF TypeOK
    <3> QED BY <3>1, FS_Interval
  <2>2. Cardinality(Lost) \in Nat
    <3>1. Lost \subseteq DOMAIN results
      BY DEF Lost
    <3> QED BY <2>1, <3>1, FS_Subset, FS_CardinalityType
  <2> QED BY <1>0, <1>1, <2>1, <2>2, ConstantsOK DEF TypeOK, OwnInv, CountOK
<1>3. CASE ~Worker
  <2>1. UNCHANGED <<results, obstacles, pc, pub, faults>>
    BY <1>1, <1>3 DEF batchVars
  <2>2. Lost' = Lost /\ Failing' = Failing
    BY <2>1 DEF Lost, Failing
  <2> QED BY <1>2, <2>1, <2>2
<1>4. CASE Worker /\ pc \in Opening
  <2>1. results = <<>> /\ results' = results /\ pc' \notin ActionSteps
    BY <1>0, <1>4, OpeningSteps DEF Progress, Opening, ActionSteps
  <2>2. Lost = {} /\ Lost' = {} /\ ~Failing'
    BY <2>1 DEF Lost, Failing
  <2>3. faults' = faults \/ faults' = faults - 1
    <3>1. LeaseRefused \/ LeaseTaken \/ PreflightFirst \/ FindObstacles \/ CreateSnapshot
            \/ SnapshotFails \/ SnapshotsMade \/ PreflightSecond
      BY <1>4 DEF Worker, Opening, Boundary, ApplyOne, StatTarget,
         HashTarget, StatKeeper, HashKeeper, Stat, Hash, ReadMeta, BuildFails, Build,
         QuarantineLook, QuarantineMove, QuarantineFails, Publish, PublishFails, PutBack,
         PutBackFails, RemoveTemp, SettleTarget, SettleKeeper
    <3> QED BY <3>1 DEF LeaseRefused, LeaseTaken, PreflightFirst, FindObstacles, CreateSnapshot,
               SnapshotFails, SnapshotsMade, PreflightSecond, Fault
  <2> QED BY <1>2, <2>2, <2>3
<1>5. CASE Worker /\ pc = "boundary"
  <2>1. /\ UNCHANGED <<results, obstacles, faults>>
        /\ pc' = "done" \/ (pc' = "check" /\ pub' = "none")
    <3>1. Boundary
      BY <1>5 DEF Worker, LeaseRefused, LeaseTaken, PreflightFirst, FindObstacles,
         CreateSnapshot, SnapshotFails, SnapshotsMade, PreflightSecond, ApplyOne, StatTarget,
         HashTarget, StatKeeper, HashKeeper, Stat, Hash, ReadMeta, BuildFails, Build,
         QuarantineLook, QuarantineMove, QuarantineFails, Publish, PublishFails, PutBack,
         PutBackFails, RemoveTemp, SettleTarget, SettleKeeper
    <3> QED BY <3>1 DEF Boundary, Goto, End
  <2>2. Lost' = Lost /\ ~Failing'
    BY <2>1 DEF Lost, Failing, ActionSteps
  <2> QED BY <1>2, <2>1, <2>2
<1>6. CASE Worker /\ pc \in ActionSteps
  <2>1. /\ faults' = faults \/ (faults > 0 /\ faults' = faults - 1)
        /\ Goes \/ Tolls
    BY <1>1, <1>6, Costs
  <2>2. obstacles' = obstacles /\ cur = Len(results) + 1
    BY <1>0, <1>6, ActionReports DEF Progress
  <2>3. CASE Goes
    <3>1. Lost' = Lost /\ (Failing' => Failing \/ faults' # faults)
      BY <2>2, <2>3 DEF Goes, Lost
    <3> QED BY <1>2, <2>1, <3>1
  <2>4. CASE Tolls
    <3>1. PICK out \in Outcome :
            /\ results' = Append(results, out)
            /\ out.res = "Removed" \/ cur \in obstacles \/ Failing \/ faults' # faults
      BY <2>4 DEF Tolls
    <3>2. ~Failing'
      BY <2>4 DEF Tolls, Failing, ActionSteps
    <3>3. /\ Cardinality(Lost') \in Nat
          /\ Cardinality(Lost') <= Cardinality(Lost) + 1
          /\ out.res = "Removed" \/ cur \in obstacles => Lost' = Lost
      BY <1>0, <2>2, <3>1, LostGrows
    <3> QED BY <1>2, <2>1, <3>1, <3>2, <3>3
  <2> QED BY <2>1, <2>3, <2>4
<1> QED BY <1>0, <1>3, <1>4, <1>5, <1>6, StepKinds


LEMMA OwnInvInit == Init => OwnInv
<1> SUFFICES ASSUME Init PROVE OwnInv
  OBVIOUS
<1>1. ReportInv
  BY TrustInit, StoppedInit, WhereInit, KeptInit DEF ReportInv
<1>2. pc = "lease" /\ results = <<>> /\ faults = MaxFaults[plan] /\ MaxFaults[plan] \in Nat
  BY ConstantsOK DEF Init
<1>3. Lost = {} /\ ~Failing /\ ~Acting
  BY <1>2 DEF Lost, Failing, ActionSteps, Acting
<1>4. CountOK
  BY <1>2, <1>3, FS_EmptySet DEF CountOK
<1>5. KindOK
  BY <1>2 DEF KindOK
<1> QED BY <1>1, <1>3, <1>4, <1>5, TempsInit DEF OwnInv, MirrorOK

LEMMA OwnInvNext == ASSUME OwnInv, [Next]_vars PROVE OwnInv'
<1>1. IInv /\ GateHolds /\ Progress /\ StoppedOK
  BY DEF OwnInv, ReportInv, TrustInv
<1>2. ReportInv'
  BY ReportNext DEF OwnInv
<1>3. Untouched' /\ TempsOK' /\ KindOK' /\ Cleared'
  BY <1>1, UntouchedNext, TempsNext, KindNext, ClearedNext DEF OwnInv
<1> QED BY <1>2, <1>3, MirrorNext, CountNext DEF OwnInv

LEMMA OwnHolds == ASSUME OwnInv PROVE OwnMarksNeverRefuse
<1> SUFFICES ASSUME pc \in {"boundary", "done"}, outsider = MaxOutsider[plan],
                    \A l \in Temps : dir[l] = None
             PROVE  Cardinality(Lost) <= MaxFaults[plan] - faults
  BY DEF OwnMarksNeverRefuse, Lost
<1>1. Quiet /\ ~Failing
  BY DEF Quiet, Failing, Temps, ActionSteps
<1>2. TypeOK /\ IsFiniteSet(DOMAIN results) /\ Lost \subseteq DOMAIN results
  <2>1. TypeOK
    BY DEF OwnInv, ReportInv, TrustInv, IInv
  <2>2. Len(results) \in Nat /\ DOMAIN results = 1..Len(results)
    BY <2>1 DEF TypeOK
  <2> QED BY <2>1, <2>2, FS_Interval DEF Lost
<1>3. Cardinality(Lost) \in Nat /\ faults \in Nat /\ MaxFaults[plan] \in Nat
  BY <1>2, FS_Subset, FS_CardinalityType, ConstantsOK DEF TypeOK
<1> QED BY <1>1, <1>3 DEF OwnInv, CountOK

\* The batch is never in its own way, for every plan, however many actions it has and whatever
\* its files share: with nobody else at work, and every staging link removed, each action that
\* was neither carried out nor refused before the snapshots has used up a failed call, because
\* the batch adopts the ctimes, link counts and names its own renames and links make
\* (RuntimeLedger: quarantined, settled, linked, cloned).
THEOREM NeverInItsOwnWay == Spec => []OwnMarksNeverRefuse
<1>1. Spec => []OwnInv
  BY OwnInvInit, OwnInvNext, PTL DEF Spec
<1>2. OwnInv => OwnMarksNeverRefuse
  BY OwnHolds
<1> QED BY <1>1, <1>2, PTL

\* With two names of one allocation in the plan, what the runtime ledger keeps lets every action
\* find its own file, publishes only the scanned contents and counts only what is free: its three
\* promises at once (RuntimeLedger, ActionPlan::realize).
THEOREM LedgerTells == Spec => []LedgerIsRight
<1>1. Spec => [](ReplacementIsDigest /\ CompletedIsFreed)
  BY LedgerKeepsItsWord
<1>2. ReplacementIsDigest /\ CompletedIsFreed /\ OwnMarksNeverRefuse => LedgerIsRight
  BY DEF LedgerIsRight
<1> QED BY <1>1, <1>2, NeverInItsOwnWay, PTL
=============================================================================
