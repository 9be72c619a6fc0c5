-------------------------- MODULE MoveBatchProofs --------------------------
(***************************************************************************)
(* Proofs about MoveBatch, for every file system, number of batches and    *)
(* way they, their undo and others come between each other.                *)
(***************************************************************************)
EXTENDS MoveBatch, SequenceTheorems, FiniteSetTheorems, TLAPS

-----------------------------------------------------------------------------
(* Paths                                                                   *)

LEMMA PathIs ==
    ASSUME NEW p \in Paths
    PROVE  /\ Len(p) \in Nat /\ DOMAIN p = 1..Len(p) /\ \A i \in 1..Len(p) : p[i] \in Names
           /\ p = <<>> <=> Len(p) = 0
  BY LenProperties, ElementOfSeq, EmptySeq DEF Paths

LEMMA SamePath ==
    ASSUME NEW p \in Paths, NEW q \in Paths, Len(p) = Len(q), \A i \in 1..Len(p) : p[i] = q[i]
    PROVE  p = q
  BY SeqEqual DEF Paths

LEMMA Upto ==
    ASSUME NEW p \in Paths, NEW n \in 0..Len(p)
    PROVE  /\ SubSeq(p, 1, n) \in Paths /\ Len(SubSeq(p, 1, n)) = n
           /\ \A i \in 1..n : SubSeq(p, 1, n)[i] = p[i]
<1>1. n \in Int /\ \A i \in 1..n : p[i] \in Names
  BY PathIs
<1> QED
  BY <1>1, SubSeqProperties, PathIs DEF Paths

\* A path is above another if the other begins with its names.
LEMMA AboveIs ==
    ASSUME NEW q \in Paths, NEW p \in Paths
    PROVE  /\ Above(q, p) <=> Len(q) <= Len(p) /\ \A i \in 1..Len(q) : q[i] = p[i]
           /\ Above(q, p) => q = SubSeq(p, 1, Len(q))
<1>1. Len(q) \in Nat /\ Len(p) \in Nat /\ SubSeq(q, 1, Len(q)) = q
  BY PathIs, SubSeqFull DEF Paths
<1>2. ASSUME Len(q) <= Len(p), \A i \in 1..Len(q) : q[i] = p[i]
      PROVE  q = SubSeq(p, 1, Len(q))
  BY <1>1, <1>2, Upto, SamePath
<1>3. ASSUME Len(q) <= Len(p), q = SubSeq(p, 1, Len(q))
      PROVE  \A i \in 1..Len(q) : q[i] = p[i]
  BY <1>1, <1>3, Upto
<1> QED
  BY <1>1, <1>2, <1>3 DEF Above, IsPrefix

LEMMA AboveOrder ==
    ASSUME NEW p \in Paths, NEW q \in Paths, NEW r \in Paths
    PROVE  /\ Above(p, p)
           /\ Above(p, q) /\ Above(q, r) => Above(p, r)
           /\ Above(p, q) /\ Len(p) = Len(q) => p = q
           /\ Above(p, r) /\ Above(q, r) /\ Len(p) <= Len(q) => Above(p, q)
<1>1. Len(p) \in Nat /\ Len(q) \in Nat /\ Len(r) \in Nat
  BY PathIs
<1> QED
  BY <1>1, AboveIs, SamePath

LEMMA ParentIs ==
    ASSUME NEW p \in Paths, p # <<>>
    PROVE  /\ Parent(p) \in Paths /\ Len(Parent(p)) = Len(p) - 1 /\ Parent(p) = SubSeq(p, 1, Len(p) - 1)
           /\ Name(p) \in Names /\ Above(Parent(p), p)
           /\ p = Join(Parent(p), Name(p))
           /\ \A q \in Paths : Above(q, p) => q = p \/ Above(q, Parent(p))
<1>1. Len(p) \in Nat \ {0} /\ Len(p) - 1 \in 0..Len(p)
  BY PathIs
<1>2. /\ Parent(p) \in Paths /\ Len(Parent(p)) = Len(p) - 1 /\ Parent(p) = SubSeq(p, 1, Len(p) - 1)
      /\ \A i \in 1..Len(p) - 1 : Parent(p)[i] = p[i]
  BY <1>1, Upto DEF Parent, Front
<1>3. Name(p) \in Names /\ Name(p) = p[Len(p)]
  BY <1>1, PathIs DEF Name, Last
<1>4. Above(Parent(p), p)
  <2>1. Len(Parent(p)) <= Len(p) /\ \A i \in 1..Len(Parent(p)) : Parent(p)[i] = p[i]
    BY <1>1, <1>2
  <2> QED
    BY <1>2, <2>1, AboveIs
<1>5. p = Join(Parent(p), Name(p))
  <2>1. Join(Parent(p), Name(p)) \in Paths /\ Len(Join(Parent(p), Name(p))) = Len(p)
        /\ \A i \in 1..Len(p) : Join(Parent(p), Name(p))[i] = p[i]
    BY <1>1, <1>2, <1>3, AppendProperties DEF Paths, Join
  <2> QED
    BY <2>1, SamePath
<1>6. ASSUME NEW q \in Paths, Above(q, p), q # p PROVE Above(q, Parent(p))
  <2>1. Len(q) <= Len(p) /\ Len(q) \in Nat /\ (\A i \in 1..Len(q) : q[i] = p[i]) /\ Len(q) # Len(p)
    BY <1>6, AboveIs, AboveOrder, PathIs
  <2>2. Len(q) <= Len(Parent(p)) /\ \A i \in 1..Len(q) : q[i] = Parent(p)[i]
    BY <1>1, <1>2, <2>1
  <2> QED
    BY <1>2, <2>2, AboveIs
<1> QED
  BY <1>1, <1>2, <1>3, <1>4, <1>5, <1>6

LEMMA JoinIs ==
    ASSUME NEW d \in Paths, NEW n \in Names
    PROVE  /\ Join(d, n) \in Paths \ {<<>>} /\ Len(Join(d, n)) = Len(d) + 1
           /\ Parent(Join(d, n)) = d /\ Name(Join(d, n)) = n
<1>1. /\ Join(d, n) \in Paths /\ Join(d, n) # <<>> /\ Len(Join(d, n)) = Len(d) + 1 /\ Len(d) \in Nat
      /\ \A i \in 1..Len(d) : Join(d, n)[i] = d[i]
      /\ Join(d, n)[Len(d) + 1] = n
  BY AppendProperties, PathIs DEF Join, Paths
<1>2. Parent(Join(d, n)) = d
  <2> DEFINE p == Join(d, n)
  <2> HIDE DEF p
  <2>1. p \in Paths /\ p # <<>> /\ Len(p) = Len(d) + 1 /\ \A i \in 1..Len(d) : p[i] = d[i]
    BY <1>1 DEF p
  <2>2. Parent(p) \in Paths /\ Len(Parent(p)) = Len(d) /\ Parent(p) = SubSeq(p, 1, Len(d)) /\ Len(d) \in 0..Len(p)
    <3>1. Len(p) - 1 = Len(d) /\ Len(d) \in 0..Len(p)
      BY <1>1, <2>1
    <3>2. Parent(p) \in Paths /\ Len(Parent(p)) = Len(p) - 1 /\ Parent(p) = SubSeq(p, 1, Len(p) - 1)
      BY <2>1, ParentIs
    <3> QED
      BY <3>1, <3>2
  <2>3. \A i \in 1..Len(d) : Parent(p)[i] = d[i]
    BY <2>1, <2>2, Upto
  <2> QED
    BY <2>2, <2>3, SamePath DEF p
<1> QED
  BY <1>1, <1>2 DEF Name, Last

\* What lies below src is carried to below dst, and back.
LEMMA CarriedIs ==
    ASSUME NEW src \in Paths, NEW dst \in Paths, NEW p \in Paths, Above(src, p)
    PROVE  /\ Carried(p, src, dst) \in Paths
           /\ Len(Carried(p, src, dst)) = Len(dst) + (Len(p) - Len(src))
           /\ Above(dst, Carried(p, src, dst))
           /\ \A i \in 1..Len(p) - Len(src) : Carried(p, src, dst)[Len(dst) + i] = p[Len(src) + i]
           /\ Carried(Carried(p, src, dst), dst, src) = p
<1> DEFINE q == Carried(p, src, dst)
<1>1. Len(src) \in Nat /\ Len(dst) \in Nat /\ Len(p) \in Nat /\ Len(src) <= Len(p)
  BY PathIs, AboveIs
<1>2. ASSUME NEW a \in Paths, NEW b \in Paths, NEW x \in Paths, Above(a, x)
      PROVE  /\ Carried(x, a, b) \in Paths
             /\ Len(Carried(x, a, b)) = Len(b) + (Len(x) - Len(a))
             /\ \A i \in 1..Len(b) : Carried(x, a, b)[i] = b[i]
             /\ \A i \in 1..Len(x) - Len(a) : Carried(x, a, b)[Len(b) + i] = x[Len(a) + i]
  <2> DEFINE t == SubSeq(x, Len(a) + 1, Len(x))
  <2>1. Len(a) \in Nat /\ Len(b) \in Nat /\ Len(x) \in Nat /\ Len(a) <= Len(x)
    BY <1>2, PathIs, AboveIs
  <2>2. \A i \in Len(a) + 1..Len(x) : x[i] \in Names
    BY <2>1, PathIs
  <2>3. /\ t \in Paths /\ Len(t) = Len(x) - Len(a)
        /\ \A i \in 1..Len(x) - Len(a) : t[i] = x[Len(a) + i]
    BY <2>1, <2>2, SubSeqProperties DEF Paths
  <2>4. Carried(x, a, b) = b \o t
    BY DEF Carried
  <2> HIDE DEF t
  <2>5. /\ b \o t \in Paths /\ Len(b \o t) = Len(b) + Len(t)
        /\ \A i \in 1..Len(b) + Len(t) : (b \o t)[i] = IF i <= Len(b) THEN b[i] ELSE t[i - Len(b)]
    BY <2>3, ConcatProperties DEF Paths
  <2> QED
    BY <2>1, <2>3, <2>4, <2>5
<1>3. /\ q \in Paths /\ Len(q) = Len(dst) + (Len(p) - Len(src)) /\ \A i \in 1..Len(dst) : q[i] = dst[i]
      /\ \A i \in 1..Len(p) - Len(src) : q[Len(dst) + i] = p[Len(src) + i]
  BY <1>2
<1>4. Above(dst, q)
  BY <1>1, <1>3, AboveIs
<1> HIDE DEF q
<1>5. Carried(q, dst, src) = p
  <2>1. /\ Carried(q, dst, src) \in Paths /\ Len(Carried(q, dst, src)) = Len(p)
        /\ \A i \in 1..Len(src) : Carried(q, dst, src)[i] = src[i]
        /\ \A i \in 1..Len(p) - Len(src) : Carried(q, dst, src)[Len(src) + i] = q[Len(dst) + i]
    <3>1. q \in Paths /\ Above(dst, q)
      BY <1>3, <1>4
    <3>2. /\ Carried(q, dst, src) \in Paths
          /\ Len(Carried(q, dst, src)) = Len(src) + (Len(q) - Len(dst))
          /\ \A i \in 1..Len(src) : Carried(q, dst, src)[i] = src[i]
          /\ \A i \in 1..Len(q) - Len(dst) : Carried(q, dst, src)[Len(src) + i] = q[Len(dst) + i]
      BY <1>2, <3>1
    <3>3. Len(q) - Len(dst) = Len(p) - Len(src) /\ Len(src) + (Len(q) - Len(dst)) = Len(p)
      BY <1>1, <1>3
    <3> QED
      BY <3>2, <3>3
  <2>2. ASSUME NEW i \in 1..Len(p) PROVE Carried(q, dst, src)[i] = p[i]
    <3>1. CASE i <= Len(src)
      BY <1>1, <2>1, <3>1, AboveIs
    <3>2. CASE i > Len(src)
      <4>1. i - Len(src) \in 1..Len(p) - Len(src) /\ Len(src) + (i - Len(src)) = i
        BY <1>1, <3>2
      <4> QED
        BY <1>3, <2>1, <4>1
    <3> QED
      BY <1>1, <3>1, <3>2
  <2> QED
    BY <2>1, <2>2, SamePath
<1> QED
  BY <1>3, <1>4, <1>5 DEF q

-----------------------------------------------------------------------------
(* The first name that is free                                             *)

LEMMA SmallestIs ==
    ASSUME NEW T, T \subseteq Nat, T # {}
    PROVE  \E n \in T : \A m \in T : n <= m
<1>1. PICK n \in T : \A m \in T : ~(<<m, n>> \in OpToRel(<, Nat))
  BY NatLessThanWellFounded, WFMin
<1>2. \A m \in T : m \in Nat /\ n \in Nat /\ ~(m < n)
  BY <1>1 DEF OpToRel
<1>3. \A m \in T : n <= m
  BY <1>2
<1> QED
  BY <1>3

\* Different names for different numbers: one of the numbers up to the size of a finite set has
\* a name that is not in the set.
LEMMA OneIsFree ==
    ASSUME NEW D, IsFiniteSet(D), NEW low \in {0, 1}, NEW name,
           \A m, n \in low..Cardinality(D) + low : name[m] = name[n] => m = n,
           DOMAIN name = low..Cardinality(D) + low
    PROVE  \E n \in low..Cardinality(D) + low :
              /\ name[n] \notin D
              /\ \A m \in low..Cardinality(D) + low : name[m] \notin D => n <= m
<1> DEFINE N == Cardinality(D)
           I == low..N + low
           open == {n \in I : name[n] \notin D}
<1>1. N \in Nat
  BY FS_CardinalityType
<1>2. open # {}
  <2> SUFFICES ASSUME open = {} PROVE FALSE
    OBVIOUS
  <2>1. [n \in I |-> name[n]] \in [I -> D]
    OBVIOUS
  <2>2. IsFiniteSet(I) /\ Cardinality(I) = N + 1
    BY <1>1, FS_Interval
  <2> DEFINE f == [k \in I |-> name[k]]
  <2>3. f \in [I -> D] /\ \A k \in I : f[k] = name[k]
    BY <2>1
  <2> HIDE DEF f, I
  <2>4. Cardinality(D) < Cardinality(I)
    BY <1>1, <2>2
  <2>5. PICK m \in I, n \in I : m # n /\ f[m] = f[n]
    BY <2>2, <2>3, <2>4, FS_PigeonHole
  <2> QED
    BY <2>3, <2>5 DEF I
<1>3. open \subseteq Nat
  BY <1>1
<1> QED
  BY <1>2, <1>3, SmallestIs

LEMMA SuffixedIs ==
    ASSUME NEW p \in Paths, p # <<>>, NEW n \in Nat
    PROVE  /\ suffixed(p, n) \in Paths \ {<<>>} /\ Len(suffixed(p, n)) = Len(p)
           /\ Parent(suffixed(p, n)) = Parent(p)
           /\ Name(suffixed(p, n)) = IF n = 0 THEN Name(p) ELSE Append(Name(p), n)
<1>1. Parent(p) \in Paths /\ Len(Parent(p)) = Len(p) - 1 /\ Name(p) \in Names /\ Len(p) \in Nat
  BY ParentIs, PathIs
<1>2. Append(Name(p), n) \in Names
  BY <1>1, AppendProperties DEF Names
<1> QED
  BY <1>1, <1>2, JoinIs DEF suffixed

LEMMA FirstFreeIs ==
    ASSUME IsFiniteSet(DOMAIN fs), NEW p \in Paths, p # <<>>
    PROVE  /\ FirstFree(p) \in Paths \ {<<>>} /\ FirstFree(p) \notin DOMAIN fs
           /\ Parent(FirstFree(p)) = Parent(p) /\ Len(FirstFree(p)) = Len(p)
           /\ Len(Name(p)) <= Len(Name(FirstFree(p)))
<1> DEFINE N == Cardinality(DOMAIN fs)
           name == [n \in 0..N |-> suffixed(p, n)]
           free == {n \in 0..N : suffixed(p, n) \notin DOMAIN fs}
<1>1. N \in Nat
  BY FS_CardinalityType
<1>2. ASSUME NEW m \in 0..N, NEW n \in 0..N, name[m] = name[n] PROVE m = n
  <2>1. m \in Nat /\ n \in Nat /\ suffixed(p, m) = suffixed(p, n)
    BY <1>1, <1>2
  <2>2. (IF m = 0 THEN Name(p) ELSE Append(Name(p), m)) = (IF n = 0 THEN Name(p) ELSE Append(Name(p), n))
    BY <2>1, SuffixedIs
  <2>3. Name(p) \in Seq(Nat)
    BY ParentIs DEF Names
  <2>4. \A k \in Nat : /\ Len(Append(Name(p), k)) = Len(Name(p)) + 1 /\ Len(Name(p)) \in Nat
                       /\ Append(Name(p), k)[Len(Name(p)) + 1] = k
    BY <2>3, AppendProperties, LenProperties
  <2>5. \A k \in Nat : Append(Name(p), k) # Name(p)
    BY <2>4
  <2> QED
    BY <2>1, <2>2, <2>4, <2>5
<1>3. \E n \in 0..N : name[n] \notin DOMAIN fs /\ \A m \in 0..N : name[m] \notin DOMAIN fs => n <= m
  <2> HIDE DEF name
  <2>1. DOMAIN name = 0..N + 0 /\ 0..N + 0 = 0..N
    BY <1>1 DEF name
  <2> QED
    BY <1>2, <2>1, OneIsFree
<1>4. \E n \in free : \A m \in free : n <= m
  BY <1>3
<1>5. PICK n \in free : FirstFree(p) = suffixed(p, n)
  BY <1>4 DEF FirstFree
<1>6. Len(Name(p)) <= Len(Name(suffixed(p, n)))
  <2> DEFINE name0 == Name(p)
  <2>1. name0 \in Seq(Nat) /\ n \in Nat
    BY <1>1, ParentIs DEF Names
  <2>2. Name(suffixed(p, n)) = IF n = 0 THEN name0 ELSE Append(name0, n)
    BY <2>1, SuffixedIs
  <2> HIDE DEF name0
  <2>3. Len(name0) \in Nat /\ Len(Append(name0, n)) = Len(name0) + 1
    BY <2>1, AppendProperties, LenProperties
  <2>4. Len(name0) <= Len(Name(suffixed(p, n)))
    BY <2>2, <2>3
  <2> QED
    BY <2>4 DEF name0
<1> QED
  BY <1>1, <1>5, <1>6, SuffixedIs

LEMMA InsertedIs ==
    ASSUME NEW a \in Seq(Nat), NEW b \in Seq(Nat), NEW x \in Nat
    PROVE  /\ a \o <<x>> \o b \in Seq(Nat) /\ a \o <<x>> \o b # <<>>
           /\ (a \o <<x>> \o b)[Len(a) + 1] = x
           /\ Len(a \o <<x>> \o b) = Len(a) + 1 + Len(b)
<1>1. a \o <<x>> = Append(a, x)
  BY AppendIsConcat
<1> DEFINE c == Append(a, x)
<1>2. c \in Seq(Nat) /\ Len(c) = Len(a) + 1 /\ c[Len(a) + 1] = x /\ Len(a) \in Nat
  BY AppendProperties, LenProperties
<1> HIDE DEF c
<1>3. Len(b) \in Nat
  BY LenProperties
<1>4. /\ c \o b \in Seq(Nat) /\ Len(c \o b) = Len(c) + Len(b)
      /\ \A i \in 1..Len(c) + Len(b) : (c \o b)[i] = IF i <= Len(c) THEN c[i] ELSE b[i - Len(c)]
  BY <1>2, ConcatProperties
<1>5. (c \o b)[Len(a) + 1] = x
  BY <1>2, <1>3, <1>4
<1>6. c \o b # <<>>
  BY <1>2, <1>3, <1>4, EmptySeq
<1>7. Len(c \o b) = Len(a) + 1 + Len(b)
  BY <1>2, <1>4
<1> QED
  BY <1>1, <1>4, <1>5, <1>6, <1>7 DEF c

LEMMA MarkedIs ==
    ASSUME NEW n \in Names, NEW k \in Nat
    PROVE  /\ WithMarker(n, k) \in Names /\ Len(n) < Len(WithMarker(n, k))
           /\ \A j \in Nat : WithMarker(n, j) = WithMarker(n, k) => j = k
<1>1. n \in Seq(Nat) /\ Len(n) \in Nat \ {0} /\ \A i \in 1..Len(n) : n[i] \in Nat
  BY LenProperties, ElementOfSeq, EmptySeq DEF Names
<1>2. CASE Len(n) = 1
  <2>1. ASSUME NEW j \in Nat
        PROVE  WithMarker(n, j) \in Names /\ WithMarker(n, j)[2] = 50 + j /\ Len(n) < Len(WithMarker(n, j))
    <3>1. 50 + j \in Nat
      OBVIOUS
    <3>2. Append(n, 50 + j) \in Seq(Nat) /\ Append(n, 50 + j) # <<>> /\ Append(n, 50 + j)[Len(n) + 1] = 50 + j
         /\ Len(Append(n, 50 + j)) = Len(n) + 1
      BY <1>1, <3>1, AppendProperties
    <3> QED
      BY <1>2, <3>2 DEF WithMarker, Names
  <2>2. \A j \in Nat : 50 + j = 50 + k => j = k
    OBVIOUS
  <2> QED
    BY <2>1, <2>2
<1>3. CASE Len(n) > 1
  <2> DEFINE a == SubSeq(n, 1, Len(n) - 1)
             b == SubSeq(n, Len(n), Len(n))
  <2>1. a \in Seq(Nat) /\ Len(a) = Len(n) - 1 /\ b \in Seq(Nat) /\ Len(b) = 1
    BY <1>1, <1>3, SubSeqProperties
  <2>2. \A j \in Nat : WithMarker(n, j) = a \o <<50 + j>> \o b
    BY <1>3 DEF WithMarker, InsertAt
  <2> HIDE DEF a, b
  <2>3. ASSUME NEW j \in Nat
        PROVE  WithMarker(n, j) \in Names /\ WithMarker(n, j)[Len(n)] = 50 + j /\ Len(n) < Len(WithMarker(n, j))
    <3>1. 50 + j \in Nat /\ Len(a) + 1 = Len(n)
      BY <1>1, <2>1
    <3>2. /\ a \o <<50 + j>> \o b \in Seq(Nat) /\ a \o <<50 + j>> \o b # <<>>
          /\ (a \o <<50 + j>> \o b)[Len(a) + 1] = 50 + j
          /\ Len(a \o <<50 + j>> \o b) = Len(a) + 1 + Len(b)
      BY <2>1, <3>1, InsertedIs
    <3> DEFINE w == a \o <<50 + j>> \o b
               l == Len(n)
    <3>3. Len(a) + 1 + Len(b) = l + 1 /\ l \in Nat
      BY <1>1, <2>1, <3>1
    <3>4. w \in Names /\ w[l] = 50 + j /\ Len(w) = l + 1 /\ WithMarker(n, j) = w
      BY <2>2, <3>1, <3>2, <3>3 DEF Names
    <3> HIDE DEF w, l
    <3>5. l < Len(w)
      BY <3>3, <3>4
    <3>6. w \in Names /\ w[l] = 50 + j /\ l < Len(w)
      BY <3>4, <3>5
    <3> QED
      BY <3>4, <3>6 DEF l
  <2>4. \A j \in Nat : 50 + j = 50 + k => j = k
    OBVIOUS
  <2> QED
    BY <2>3, <2>4
<1>4. Len(n) = 1 \/ Len(n) > 1
  <2> DEFINE l == Len(n)
  <2>1. l \in Nat \ {0}
    BY <1>1
  <2> HIDE DEF l
  <2>2. l = 1 \/ l > 1
    BY <2>1
  <2> QED
    BY <2>2 DEF l
<1> QED
  BY <1>2, <1>3, <1>4

LEMMA NameLength ==
    ASSUME NEW p \in Paths, p # <<>>
    PROVE  Len(Name(p)) \in Nat
  BY ParentIs, LenProperties DEF Names

\* p has the longer name.
Longer(p, q) == Len(Name(q)) < Len(Name(p))

LEMMA dup_destIs ==
    ASSUME IsFiniteSet(DOMAIN fs), NEW dir \in Paths, NEW src \in Paths, src # <<>>
    PROVE  /\ dup_dest(dir, src) \in Paths \ {<<>>} /\ Parent(dup_dest(dir, src)) = dir
           /\ Longer(dup_dest(dir, src), src)
<1> DEFINE N == Cardinality(DOMAIN fs)
           name == [k \in 1..N + 1 |-> Join(dir, WithMarker(Name(src), k))]
           free == {k \in 1..N + 1 : Join(dir, WithMarker(Name(src), k)) \notin DOMAIN fs}
<1>1. N \in Nat /\ Name(src) \in Names
  BY FS_CardinalityType, ParentIs
<1>2. ASSUME NEW m \in 1..N + 1, NEW n \in 1..N + 1, name[m] = name[n] PROVE m = n
  <2>1. m \in Nat /\ n \in Nat /\ Join(dir, WithMarker(Name(src), m)) = Join(dir, WithMarker(Name(src), n))
    BY <1>1, <1>2
  <2>2. WithMarker(Name(src), m) = WithMarker(Name(src), n)
    BY <1>1, <2>1, MarkedIs, JoinIs
  <2> QED
    BY <1>1, <2>1, <2>2, MarkedIs
<1>3. \E n \in 1..N + 1 : name[n] \notin DOMAIN fs /\ \A m \in 1..N + 1 : name[m] \notin DOMAIN fs => n <= m
  <2> HIDE DEF name
  <2>1. DOMAIN name = 1..N + 1
    BY DEF name
  <2> QED
    BY <1>2, <2>1, OneIsFree
<1>4. \E n \in free : \A m \in free : n <= m
  BY <1>3
<1>5. PICK n \in free : dup_dest(dir, src) = Join(dir, WithMarker(Name(src), n))
  BY <1>4 DEF dup_dest
<1> QED
  BY <1>1, <1>5, MarkedIs, JoinIs DEF Longer

-----------------------------------------------------------------------------
(* Trees                                                                   *)

LEMMA ImageIsFinite ==
    ASSUME NEW S, IsFiniteSet(S), NEW f, DOMAIN f = S
    PROVE  IsFiniteSet({f[x] : x \in S})
<1> DEFINE T == {f[x] : x \in S}
           g == [x \in S |-> f[x]]
<1>1. g \in Surjection(S, T)
  BY DEF Surjection
<1> HIDE DEF g, T
<1>2. IsFiniteSet(T)
  BY <1>1, FS_Surjection
<1> QED
  BY <1>2 DEF T

\* A directory that is made is a plain one.
LEMMA PlainIs == Dir \in Directories /\ Dir \notin Files /\ Dir \notin Datasets
  BY FilesAssumption DEF Directories

\* What is above a path of the tree is a directory of it.
LEMMA TreeUp ==
    ASSUME Tree(fs), NEW p \in DOMAIN fs, NEW q \in Paths, q # <<>>, Above(q, p)
    PROVE  q \in DOMAIN fs /\ (q # p => fs[q] \in Directories)
<1>1. p \in Paths
  BY DEF Tree
<1>2. q = SubSeq(p, 1, Len(q)) /\ Len(q) <= Len(p) /\ Len(q) \in Nat \ {0} /\ Len(p) \in Nat
  BY <1>1, AboveIs, PathIs
<1>3. CASE Len(q) = Len(p)
  BY <1>1, <1>3, AboveOrder
<1>4. CASE Len(q) # Len(p)
  <2>1. Len(q) \in 1..Len(p) - 1
    BY <1>2, <1>4
  <2>2. SubSeq(p, 1, Len(q)) \in DOMAIN fs /\ fs[SubSeq(p, 1, Len(q))] \in Directories
    BY <2>1 DEF Tree
  <2> QED
    BY <1>2, <2>2
<1> QED
  BY <1>3, <1>4

\* A rename to a free name of a directory that does not lie below what is renamed.
LEMMA RenamedIs ==
    ASSUME Tree(fs), NEW src \in DOMAIN fs, NEW to \in Paths \ {<<>>}, to \notin DOMAIN fs,
           Parent(to) \in DOMAIN fs, fs[Parent(to)] \in Directories, ~Above(src, Parent(to))
    PROVE  /\ Tree(Renamed(src, to))
           /\ Range(Renamed(src, to)) = Range(fs)
           /\ \A q \in DOMAIN fs \ Below(src) : q \in DOMAIN Renamed(src, to) /\ Renamed(src, to)[q] = fs[q]
           /\ to \in DOMAIN Renamed(src, to) /\ Renamed(src, to)[to] = fs[src]
<1> DEFINE B == Below(src)
           C == [p \in B |-> Carried(p, src, to)]
           L == {Carried(p, src, to) : p \in B}
           R == Renamed(src, to)
<1>1. src \in Paths /\ src # <<>> /\ to \in Paths /\ to # <<>> /\ B \subseteq DOMAIN fs
  BY DEF Tree, Below
<1>2. ASSUME NEW p \in B
      PROVE  /\ p \in Paths /\ p # <<>> /\ Above(src, p)
             /\ Carried(p, src, to) \in Paths /\ Carried(p, src, to) # <<>> /\ Above(to, Carried(p, src, to))
             /\ Carried(Carried(p, src, to), to, src) = p
  <2>1. p \in Paths /\ p # <<>> /\ Above(src, p)
    BY <1>2 DEF Tree, Below
  <2>2. /\ Carried(p, src, to) \in Paths /\ Above(to, Carried(p, src, to))
        /\ Carried(Carried(p, src, to), to, src) = p
    BY <1>1, <2>1, CarriedIs
  <2>3. Carried(p, src, to) # <<>>
    BY <1>1, <2>2, AboveIs, PathIs
  <2> QED
    BY <2>1, <2>2, <2>3
<1>3. \A q \in DOMAIN fs : ~Above(to, q)
  BY <1>1, TreeUp
<1>4. L \cap DOMAIN fs = {}
  BY <1>2, <1>3
<1>5. DOMAIN R = (DOMAIN fs \ B) \cup L
  BY DEF Renamed
<1>6. \A q \in DOMAIN fs \ B : q \in DOMAIN R /\ R[q] = fs[q]
  BY <1>4 DEF Renamed
<1>7. \A p \in B : Carried(p, src, to) \in DOMAIN R /\ R[Carried(p, src, to)] = fs[p]
  BY <1>2 DEF Renamed
<1>8. src \in B /\ Carried(src, src, to) = to
  <2>1. src \in B
    BY <1>1, AboveOrder DEF Below
  <2>2. /\ Carried(src, src, to) \in Paths /\ Above(to, Carried(src, src, to))
        /\ Len(Carried(src, src, to)) = Len(to) + (Len(src) - Len(src))
    BY <1>1, <1>2, <2>1, CarriedIs
  <2>3. Len(Carried(src, src, to)) = Len(to)
    BY <1>1, <2>2, PathIs
  <2> QED
    BY <1>1, <2>1, <2>2, <2>3, AboveOrder
<1> HIDE DEF B, R
<1>9. Range(R) = Range(fs)
  <2>1. ASSUME NEW q \in DOMAIN R PROVE R[q] \in Range(fs)
    BY <1>1, <1>5, <1>6, <1>7 DEF Range
  <2>2. ASSUME NEW p \in DOMAIN fs PROVE fs[p] \in Range(R)
    BY <1>6, <1>7 DEF Range
  <2> QED
    BY <2>1, <2>2 DEF Range
<1>10. IsFiniteSet(DOMAIN R)
  <2>1. IsFiniteSet(DOMAIN fs)
    BY DEF Tree
  <2>2. IsFiniteSet(B) /\ IsFiniteSet(DOMAIN fs \ B)
    BY <1>1, <2>1, FS_Subset
  <2>3. DOMAIN C = B /\ {C[p] : p \in B} = L
    OBVIOUS
  <2> HIDE DEF C
  <2>4. IsFiniteSet({C[p] : p \in B})
    BY <2>2, <2>3, ImageIsFinite
  <2>5. IsFiniteSet(L)
    BY <2>3, <2>4
  <2> HIDE DEF L
  <2>6. IsFiniteSet((DOMAIN fs \ B) \cup L)
    BY <2>2, <2>5, FS_Union
  <2> QED
    BY <1>5, <2>6
<1>11. DOMAIN R \subseteq Paths \ {<<>>}
  BY <1>2, <1>5 DEF Tree
<1>12. \A q \in DOMAIN R : R[q] \in Files \cup Directories \cup {Link}
  BY <1>1, <1>5, <1>6, <1>7 DEF Tree
<1>13. ASSUME NEW x \in Paths, x # <<>>, NEW q \in DOMAIN fs \ B, Above(x, q), x # q
       PROVE  x \in DOMAIN R /\ R[x] \in Directories
  <2>1. q \in Paths /\ x \in DOMAIN fs /\ fs[x] \in Directories
    BY <1>13, TreeUp DEF Tree
  <2>2. x \notin B
    BY <1>1, <1>2, <1>13, <2>1, AboveOrder DEF B, Below
  <2> QED
    BY <1>6, <2>1, <2>2
<1>14. ASSUME NEW q \in DOMAIN R, NEW n \in 1..Len(q) - 1
       PROVE  SubSeq(q, 1, n) \in DOMAIN R /\ R[SubSeq(q, 1, n)] \in Directories
  <2> DEFINE x == SubSeq(q, 1, n)
  <2>1. q \in Paths /\ Len(q) \in Nat /\ n \in 0..Len(q) /\ n # 0
    BY <1>11, PathIs
  <2>2. x \in Paths /\ Len(x) = n /\ \A i \in 1..n : x[i] = q[i]
    BY <2>1, Upto
  <2> HIDE DEF x
  <2>3. Above(x, q) /\ x # q /\ x # <<>>
    BY <2>1, <2>2, AboveIs, PathIs
  <2>4. CASE q \in DOMAIN fs \ B
    BY <1>13, <2>2, <2>3, <2>4 DEF x
  <2>5. CASE q \in L
    <3>1. PICK p \in B : q = Carried(p, src, to)
      BY <2>5
    <3>2. /\ Len(q) = Len(to) + (Len(p) - Len(src)) /\ Above(to, q) /\ Above(src, p)
          /\ \A i \in 1..Len(p) - Len(src) : q[Len(to) + i] = p[Len(src) + i]
          /\ p \in Paths /\ p \in DOMAIN fs
      <4>1. p \in Paths /\ Above(src, p) /\ p \in DOMAIN fs
        BY <1>1, <1>2
      <4>2. /\ Len(Carried(p, src, to)) = Len(to) + (Len(p) - Len(src)) /\ Above(to, Carried(p, src, to))
            /\ \A i \in 1..Len(p) - Len(src) : Carried(p, src, to)[Len(to) + i] = p[Len(src) + i]
        BY <1>1, <4>1, CarriedIs
      <4> QED
        BY <3>1, <4>1, <4>2
    <3>3. Len(p) \in Nat /\ Len(src) \in Nat \ {0} /\ Len(to) \in Nat \ {0} /\ Len(src) <= Len(p)
      BY <1>1, <3>2, PathIs, AboveIs
    <3>4. CASE n < Len(to)
      <4>1. Above(x, to) /\ x # to
        BY <1>1, <2>1, <2>2, <2>3, <3>2, <3>3, <3>4, AboveOrder
      <4>2. Parent(to) \in Paths /\ Above(x, Parent(to))
        BY <1>1, <2>2, <4>1, ParentIs
      <4>3. Parent(to) \notin B
        BY DEF B, Below
      <4>4. CASE x = Parent(to)
        BY <1>6, <4>3, <4>4 DEF x
      <4>5. CASE x # Parent(to)
        BY <1>13, <2>2, <2>3, <4>2, <4>3, <4>5 DEF x
      <4> QED
        BY <4>4, <4>5
    <3>5. CASE n >= Len(to)
      <4> DEFINE k == n - Len(to)
                 y == SubSeq(p, 1, Len(src) + k)
      <4>1. k \in 0..Len(p) - Len(src) /\ Len(src) + k < Len(p) /\ Len(src) + k \in 0..Len(p) /\ Len(to) + k = n
        BY <2>1, <3>2, <3>3, <3>5
      <4> HIDE DEF k
      <4>2. y \in Paths /\ Len(y) = Len(src) + k /\ \A i \in 1..Len(src) + k : y[i] = p[i]
        BY <3>2, <4>1, Upto
      <4> HIDE DEF y
      <4>3. Above(y, p) /\ y # p /\ y # <<>>
        BY SMTT(30), <3>2, <3>3, <4>1, <4>2, AboveIs, PathIs
      <4>4. y \in DOMAIN fs /\ fs[y] \in Directories
        BY <3>2, <4>2, <4>3, TreeUp
      <4>5. Above(src, y) /\ y \in B
        <5>1. Len(src) <= Len(y)
          BY <3>3, <4>1, <4>2
        <5>2. Above(src, y)
          BY <1>1, <3>2, <4>2, <4>3, <5>1, AboveOrder
        <5> QED
          BY <4>4, <5>2 DEF B, Below
      <4>6. /\ Carried(y, src, to) \in Paths /\ Len(Carried(y, src, to)) = Len(to) + (Len(y) - Len(src))
            /\ Above(to, Carried(y, src, to))
            /\ \A i \in 1..Len(y) - Len(src) : Carried(y, src, to)[Len(to) + i] = y[Len(src) + i]
        BY <1>1, <4>2, <4>5, CarriedIs
      <4>7. Len(y) - Len(src) = k /\ Len(Carried(y, src, to)) = n
        BY <3>3, <4>1, <4>2, <4>6
      <4>8. ASSUME NEW i \in 1..n PROVE Carried(y, src, to)[i] = x[i]
        <5>1. CASE i <= Len(to)
          <6>1. Carried(y, src, to)[i] = to[i] /\ q[i] = to[i]
            BY <1>1, <2>1, <3>2, <3>3, <4>6, <5>1, AboveIs
          <6> QED
            BY <2>2, <6>1
        <5>2. CASE i > Len(to)
          <6> DEFINE j == i - Len(to)
          <6>1. j \in 1..k /\ Len(to) + j = i /\ j \in 1..Len(p) - Len(src) /\ Len(src) + j \in 1..Len(src) + k
            BY <3>3, <4>1, <5>2
          <6> HIDE DEF j
          <6>2. Carried(y, src, to)[Len(to) + j] = y[Len(src) + j]
            BY <4>6, <4>7, <6>1
          <6>3. q[Len(to) + j] = p[Len(src) + j] /\ y[Len(src) + j] = p[Len(src) + j]
            BY <3>2, <4>2, <6>1
          <6> QED
            BY <2>2, <6>1, <6>2, <6>3
        <5> QED
          BY <3>3, <5>1, <5>2
      <4>9. Carried(y, src, to) = x
        BY <2>2, <4>6, <4>7, <4>8, SamePath
      <4> QED
        BY <1>7, <4>4, <4>5, <4>9 DEF x
    <3> QED
      BY <2>1, <3>3, <3>4, <3>5
  <2> QED
    BY <1>5, <2>4, <2>5
<1>15. ASSUME NEW p \in DOMAIN R, NEW q \in DOMAIN R, R[p] = R[q], R[p] \in Files PROVE p = q
  <2>1. \A a, b \in DOMAIN fs : fs[a] = fs[b] /\ fs[a] \in Files => a = b
    BY DEF Tree
  <2>2. CASE p \in L /\ q \in L
    <3>1. PICK a \in B : p = Carried(a, src, to)
      BY <2>2
    <3>2. PICK b \in B : q = Carried(b, src, to)
      BY <2>2
    <3> QED
      BY <1>1, <1>7, <1>15, <2>1, <3>1, <3>2
  <2>3. CASE p \notin L /\ q \notin L
    BY <1>5, <1>6, <1>15, <2>1, <2>3
  <2>4. CASE p \in L /\ q \notin L
    BY <1>1, <1>5, <1>6, <1>7, <1>15, <2>1, <2>4
  <2>5. CASE p \notin L /\ q \in L
    BY <1>1, <1>5, <1>6, <1>7, <1>15, <2>1, <2>5
  <2> QED
    BY <2>2, <2>3, <2>4, <2>5
<1>16. Tree(R)
  BY <1>10, <1>11, <1>12, <1>14, <1>15 DEF Tree
<1> QED
  BY <1>6, <1>7, <1>8, <1>9, <1>16 DEF B, R

-----------------------------------------------------------------------------
(* The invariant                                                           *)

Listed(s) == s \in Seq(Range(s))

\* The state directory's files are there. No step changes that.
Stands(files) == Range(StateFiles) \subseteq files

\* What a batch may be asked to move: it lies below what a panel shows, and if a file of the state
\* directory lies below it, so does the database or the lock file.
Source(p, shown, stands) ==
    /\ p \in Paths \ {<<>>}
    /\ \E d \in Range(shown) : Above(d, p) /\ Len(d) < Len(p)
    /\ stands => \A x \in DOMAIN StateFiles : Above(p, x) =>
          \E q \in DOMAIN StateFiles : StateFiles[q] \in {Database, LockFile} /\ Above(p, q)

\* What was moved went to where no file of the state directory lies.
Moves(items, stands) ==
    /\ items \in Seq(MovedItems)
    /\ \A i \in DOMAIN items : stands => \A x \in DOMAIN StateFiles : ~Above(items[i].to, x)

RequestOK(r, shown, stands) ==
    /\ r.sources \in Seq(Paths) /\ r.dir \in Paths
    /\ \A j \in DOMAIN r.sources : Source(r.sources[j], shown, stands)

StackOK(stack, shown, stands) ==
    /\ stack \in Seq(Frames)
    /\ \A i \in DOMAIN stack : /\ Source(stack[i].src, shown, stands)
                               /\ i > 1 => stack[i].do \in {"item", "remove"}

WorkOK(w, shown, stands) ==
    /\ w \in [sources : {w.sources}, stack : {w.stack}, moved : {w.moved}, failed : Nat, dups : Nat,
              quiet : BOOLEAN, was : {w.was}, began : {w.began}]
    /\ StackOK(w.stack, shown, stands)
    /\ Moves(w.moved, stands) /\ w.dups <= Len(w.moved)

UndoOK(u, stands) ==
    /\ u \in [todo : {u.todo}, made : {u.made}, failed : {u.failed}, was : {u.was}]
    /\ Moves(u.todo, stands)

\* As long as nothing disturbs it, a question the worker has asked of the directory still has
\* the answer it got.
AnswerStands ==
    work # None /\ work.stack # <<>> /\ work.quiet =>
        /\ Top.do = "compare" => /\ IsFile(Top.src)
                                 /\ Top.candidates = same_size_files(Top.dir, Size[fs[Top.src]])
        /\ Top.do = "land" =>
              (Top.dup <=> \E p \in Kids(Parent(Top.dst)) : fs[p] # Database /\ Twin(Top.src, p))

StateLies(tree, files) ==
    /\ Stands(files) => \A p \in DOMAIN StateFiles : p \in DOMAIN tree /\ tree[p] = StateFiles[p]
    /\ ~Stands(files) => Range(StateFiles) \cap files = {}

ReportsOK ==
    /\ Listed(queue) /\ \A i \in DOMAIN queue : RequestOK(queue[i], panels, Stands(alive))
    /\ Listed(done) /\ \A i \in DOMAIN done : Moves(done[i].moved, Stands(alive))
    /\ Listed(log) /\ \A i \in DOMAIN log : Moves(log[i].items, Stands(alive))
    /\ undo # None => UndoOK(undo, Stands(alive))

PendingOK == pending \in Nat /\ pending >= Len(queue) + Len(done) + (IF work = None THEN 0 ELSE 1)

IInv ==
    /\ Tree(fs) /\ Range(fs) \cap Files = alive /\ StateLies(fs, alive)
    /\ \E scene \in Scenes : panels = scene.panels
    /\ left \in [Kinds -> Nat] /\ calm \in BOOLEAN
    /\ ReportsOK /\ PendingOK
    /\ work # None => WorkOK(work, panels, Stands(alive))
    /\ AnswerStands

-----------------------------------------------------------------------------
(* Sequences                                                               *)

LEMMA ListedIs ==
    ASSUME NEW s, Listed(s)
    PROVE  /\ Len(s) \in Nat /\ DOMAIN s = 1..Len(s)
           /\ s # <<>> => 1 \in DOMAIN s /\ Len(s) \in DOMAIN s /\ Len(s) > 0
  BY LenProperties, EmptySeq DEF Listed

LEMMA AppendedIs ==
    ASSUME NEW s, Listed(s), NEW e
    PROVE  /\ Listed(Append(s, e)) /\ Len(Append(s, e)) = Len(s) + 1
           /\ \A i \in DOMAIN Append(s, e) : Append(s, e)[i] = e \/ (i \in DOMAIN s /\ Append(s, e)[i] = s[i])
<1> DEFINE S == Range(s) \cup {e}
           t == Append(s, e)
<1>1. s \in Seq(S) /\ e \in S
  <2>1. Len(s) \in Nat /\ \A i \in 1..Len(s) : s[i] \in S
    BY LenProperties, ElementOfSeq DEF Listed
  <2>2. s = [i \in 1..Len(s) |-> s[i]]
    BY LenProperties DEF Listed
  <2>3. [i \in 1..Len(s) |-> s[i]] \in Seq(S)
    BY <2>1, IsASeq
  <2> QED
    BY <2>2, <2>3
<1>2. /\ t \in Seq(S) /\ Len(t) = Len(s) + 1 /\ Len(s) \in Nat /\ DOMAIN t = 1..Len(s) + 1 /\ DOMAIN s = 1..Len(s)
      /\ \A i \in 1..Len(s) : t[i] = s[i]
      /\ t[Len(s) + 1] = e
  BY <1>1, AppendProperties, LenProperties
<1> HIDE DEF t
<1>3. ASSUME NEW i \in DOMAIN t PROVE t[i] = e \/ (i \in DOMAIN s /\ t[i] = s[i])
  <2> DEFINE n == Len(s)
  <2>1. n \in Nat /\ i \in 1..n + 1 /\ DOMAIN s = 1..n /\ t[n + 1] = e /\ \A k \in 1..n : t[k] = s[k]
    BY <1>2
  <2> HIDE DEF n
  <2>2. i = n + 1 \/ i \in 1..n
    BY <2>1
  <2>3. CASE i = n + 1
    <3>1. t[i] = e
      BY <2>1, <2>3
    <3> QED
      BY <3>1
  <2>4. CASE i \in 1..n
    <3>1. i \in DOMAIN s /\ t[i] = s[i]
      BY <2>1, <2>4
    <3> QED
      BY <3>1
  <2> QED
    BY <2>2, <2>3, <2>4
<1>4. t \in Seq(Range(t))
  <2>1. \A i \in 1..Len(t) : t[i] \in Range(t)
    BY <1>2 DEF Range
  <2>2. t = [i \in 1..Len(t) |-> t[i]]
    BY <1>2
  <2>3. [i \in 1..Len(t) |-> t[i]] \in Seq(Range(t))
    BY <1>2, <2>1, IsASeq
  <2> QED
    BY <2>2, <2>3
<1> QED
  BY <1>2, <1>3, <1>4 DEF t, Listed

LEMMA TailIs ==
    ASSUME NEW S, NEW s \in Seq(S), s # <<>>
    PROVE  /\ Tail(s) \in Seq(S) /\ Len(Tail(s)) = Len(s) - 1 /\ Len(s) \in Nat \ {0}
           /\ Head(s) = s[1] /\ 1 \in DOMAIN s /\ Head(s) \in S
           /\ \A i \in DOMAIN Tail(s) : i \in Nat \ {0} /\ i + 1 \in DOMAIN s /\ Tail(s)[i] = s[i + 1]
<1>1. Len(s) \in Nat \ {0} /\ DOMAIN s = 1..Len(s)
  BY LenProperties, EmptySeq
<1>2. /\ Tail(s) \in Seq(S) /\ Len(Tail(s)) = Len(s) - 1
      /\ \A i \in 1..Len(Tail(s)) : Tail(s)[i] = s[i + 1]
  BY <1>1, HeadTailProperties
<1>3. DOMAIN Tail(s) = 1..Len(s) - 1
  BY <1>2, LenProperties
<1>4. Head(s) = s[1] /\ Head(s) \in S
  BY <1>1, HeadTailProperties, ElementOfSeq
<1> QED
  BY <1>1, <1>2, <1>3, <1>4

LEMMA FrontIs ==
    ASSUME NEW S, NEW s \in Seq(S), s # <<>>
    PROVE  /\ Front(s) \in Seq(S) /\ Len(Front(s)) = Len(s) - 1
           /\ Last(s) = s[Len(s)] /\ Len(s) \in DOMAIN s
           /\ \A i \in DOMAIN Front(s) : i \in DOMAIN s /\ Front(s)[i] = s[i]
<1>1. Len(s) \in Nat \ {0} /\ DOMAIN s = 1..Len(s)
  BY LenProperties, EmptySeq
<1>2. \A i \in 1..Len(s) - 1 : s[i] \in S
  BY <1>1, ElementOfSeq
<1>3. /\ Front(s) \in Seq(S) /\ Len(Front(s)) = Len(s) - 1
      /\ \A i \in 1..Len(s) - 1 : Front(s)[i] = s[i]
  BY <1>1, <1>2, SubSeqProperties DEF Front
<1>4. DOMAIN Front(s) = 1..Len(s) - 1
  BY <1>3, LenProperties
<1> QED
  BY <1>1, <1>3, <1>4 DEF Last

\* What is left of a list is one.
LEMMA PartIsListed ==
    ASSUME NEW S, NEW t \in Seq(S)
    PROVE  Listed(t)
<1>1. Len(t) \in Nat /\ DOMAIN t = 1..Len(t)
  BY LenProperties
<1>2. \A i \in 1..Len(t) : t[i] \in Range(t)
  BY <1>1 DEF Range
<1>3. t = [i \in 1..Len(t) |-> t[i]]
  BY <1>1, LenProperties
<1>4. [i \in 1..Len(t) |-> t[i]] \in Seq(Range(t))
  BY <1>1, <1>2, IsASeq
<1> QED
  BY <1>3, <1>4 DEF Listed

\* The order in which the members of a set are taken names each of them once.
LEMMA OrderIs ==
    ASSUME NEW S, IsFiniteSet(S), NEW s \in SetToSeqs(S)
    PROVE  s \in Seq(S) /\ \A i \in DOMAIN s : s[i] \in S
<1> DEFINE n == Cardinality(S)
<1>1. s \in [1..n -> S]
  BY DEF SetToSeqs
<1>2. n \in Nat
  BY FS_CardinalityType
<1> HIDE DEF n
<1>3. s = [i \in 1..n |-> s[i]] /\ \A i \in 1..n : s[i] \in S
  BY <1>1
<1>4. [i \in 1..n |-> s[i]] \in Seq(S)
  BY <1>2, <1>3, IsASeq
<1> QED
  BY <1>1, <1>3, <1>4

-----------------------------------------------------------------------------
(* What the parts of the invariant keep                                    *)

LEMMA MovesAppended ==
    ASSUME NEW stands, NEW items, Moves(items, stands), NEW e \in MovedItems,
           stands => \A x \in DOMAIN StateFiles : ~Above(e.to, x)
    PROVE  Moves(Append(items, e), stands) /\ Len(Append(items, e)) = Len(items) + 1
<1> DEFINE t == Append(items, e)
<1>1. items \in Seq(MovedItems)
  BY DEF Moves
<1>2. /\ t \in Seq(MovedItems) /\ Len(t) = Len(items) + 1 /\ Len(items) \in Nat
      /\ DOMAIN t = 1..Len(items) + 1 /\ DOMAIN items = 1..Len(items)
      /\ \A i \in 1..Len(items) : t[i] = items[i]
      /\ t[Len(items) + 1] = e
  BY <1>1, AppendProperties, LenProperties
<1> HIDE DEF t
<1>3. ASSUME NEW i \in DOMAIN t
      PROVE  stands => \A x \in DOMAIN StateFiles : ~Above(t[i].to, x)
  <2> DEFINE n == Len(items)
  <2>1. n \in Nat /\ i \in 1..n + 1 /\ DOMAIN items = 1..n /\ t[n + 1] = e /\ \A k \in 1..n : t[k] = items[k]
    BY <1>2
  <2> HIDE DEF n
  <2>2. i = n + 1 \/ i \in 1..n
    BY <2>1
  <2>3. CASE i = n + 1
    BY <2>1, <2>3
  <2>4. CASE i \in 1..n
    BY <2>1, <2>4 DEF Moves
  <2> QED
    BY <2>2, <2>3, <2>4
<1> QED
  BY <1>2, <1>3 DEF t, Moves

LEMMA MovesTail ==
    ASSUME NEW stands, NEW items, Moves(items, stands), items # <<>>
    PROVE  /\ Moves(Tail(items), stands) /\ Head(items) \in MovedItems
           /\ stands => \A x \in DOMAIN StateFiles : ~Above(Head(items).to, x)
<1>1. /\ Tail(items) \in Seq(MovedItems)
      /\ Head(items) = items[1] /\ 1 \in DOMAIN items /\ Head(items) \in MovedItems
      /\ \A i \in DOMAIN Tail(items) : i \in Nat \ {0} /\ i + 1 \in DOMAIN items /\ Tail(items)[i] = items[i + 1]
  BY TailIs DEF Moves
<1> QED
  BY <1>1 DEF Moves

LEMMA MovesReversed ==
    ASSUME NEW stands, NEW items, Moves(items, stands)
    PROVE  Moves(Reverse(items), stands)
<1> DEFINE n == Len(items)
           t == [i \in 1..n |-> items[n - i + 1]]
<1>1. n \in Nat /\ items \in Seq(MovedItems) /\ DOMAIN items = 1..n /\ \A i \in 1..n : items[i] \in MovedItems
  BY LenProperties, ElementOfSeq DEF Moves
<1>2. Reverse(items) = t
  BY DEF Reverse
<1> HIDE DEF n
<1>3. \A i \in 1..n : n - i + 1 \in 1..n /\ items[n - i + 1] \in MovedItems
  BY <1>1
<1>4. t \in Seq(MovedItems)
  BY <1>1, <1>3, IsASeq
<1>5. \A i \in DOMAIN t : n - i + 1 \in DOMAIN items /\ t[i] = items[n - i + 1]
  BY <1>1, <1>3
<1> HIDE DEF t
<1> QED
  BY <1>2, <1>4, <1>5 DEF Moves

LEMMA Pushed ==
    ASSUME NEW shown, NEW stands, NEW stack, StackOK(stack, shown, stands), stack # <<>>,
           NEW new \in Seq(Frames),
           \A i \in DOMAIN new : /\ Source(new[i].src, shown, stands)
                                 /\ i > 1 => new[i].do \in {"item", "remove"}
    PROVE  StackOK(new \o Tail(stack), shown, stands)
<1> DEFINE t == new \o Tail(stack)
           l == Tail(stack)
<1>1. /\ l \in Seq(Frames)
      /\ \A i \in DOMAIN l : i \in Nat \ {0} /\ i + 1 \in DOMAIN stack /\ l[i] = stack[i + 1]
  BY TailIs DEF StackOK
<1>2. /\ t \in Seq(Frames) /\ Len(new) \in Nat /\ Len(l) \in Nat
      /\ DOMAIN new = 1..Len(new) /\ DOMAIN l = 1..Len(l) /\ DOMAIN t = 1..Len(new) + Len(l)
      /\ \A i \in 1..Len(new) + Len(l) : t[i] = IF i <= Len(new) THEN new[i] ELSE l[i - Len(new)]
  <2> HIDE DEF l
  <2>1. /\ new \o l \in Seq(Frames) /\ Len(new \o l) = Len(new) + Len(l)
        /\ \A i \in 1..Len(new) + Len(l) : (new \o l)[i] = IF i <= Len(new) THEN new[i] ELSE l[i - Len(new)]
    BY <1>1, ConcatProperties
  <2>2. Len(new) \in Nat /\ Len(l) \in Nat /\ DOMAIN new = 1..Len(new) /\ DOMAIN l = 1..Len(l)
        /\ DOMAIN (new \o l) = 1..Len(new \o l)
    BY <1>1, <2>1, LenProperties
  <2> QED
    BY <2>1, <2>2 DEF l
<1> HIDE DEF l, t
<1>3. ASSUME NEW i \in DOMAIN t
      PROVE  Source(t[i].src, shown, stands) /\ (i > 1 => t[i].do \in {"item", "remove"})
  <2>1. CASE i <= Len(new)
    <3>1. i \in DOMAIN new /\ t[i] = new[i]
      BY <1>2, <2>1
    <3> QED
      BY <3>1
  <2>2. CASE i > Len(new)
    <3> DEFINE k == i - Len(new)
    <3>1. k \in DOMAIN l /\ t[i] = l[k]
      BY <1>2, <2>2
    <3> HIDE DEF k
    <3>2. k + 1 \in DOMAIN stack /\ k + 1 > 1 /\ t[i] = stack[k + 1]
      BY <1>1, <3>1
    <3> QED
      BY <3>2 DEF StackOK
  <2> QED
    BY <1>2, <2>1, <2>2
<1> QED
  BY <1>2, <1>3 DEF t, StackOK

-----------------------------------------------------------------------------
(* What may be moved                                                       *)

LEMMA KidIs ==
    ASSUME Tree(fs), NEW d \in Paths, NEW c \in Kids(d)
    PROVE  c \in DOMAIN fs /\ c \in Paths \ {<<>>} /\ Parent(c) = d /\ Len(c) = Len(d) + 1 /\ Above(d, c)
<1>1. c \in DOMAIN fs /\ Len(c) = Len(d) + 1 /\ Parent(c) = d /\ c \in Paths \ {<<>>}
  BY DEF Kids, Tree
<1> QED
  BY <1>1, ParentIs

\* What panels show are paths, and no panel shows the top.
LEMMA ShownAre == \A scene \in Scenes : Range(scene.panels) \subseteq Paths \ {<<>>}
<1> SUFFICES ASSUME NEW scene \in Scenes, NEW k \in DOMAIN scene.panels
             PROVE  scene.panels[k] \in Paths \ {<<>>}
  BY DEF Range
<1>1. scene.panels \in Seq(Paths \ {<<>>})
  BY ScenesAssumption
<1> QED
  BY <1>1, ElementOfSeq, LenProperties

\* What a panel shows is a source.
LEMMA ShownIsSource ==
    ASSUME Tree(fs), NEW scene \in Scenes, NEW d \in Range(scene.panels), NEW c \in Kids(d), NEW stands
    PROVE  Source(c, scene.panels, stands)
<1>1. d \in Paths
  BY ShownAre
<1>2. c \in Paths \ {<<>>} /\ Parent(c) = d /\ Len(c) = Len(d) + 1 /\ Above(d, c) /\ Len(d) \in Nat
  BY <1>1, KidIs, PathIs
<1>3. ASSUME NEW x \in DOMAIN StateFiles, Above(c, x)
      PROVE  \E q \in DOMAIN StateFiles : StateFiles[q] \in {Database, LockFile} /\ Above(c, q)
  <2>1. x \in Paths
    BY ScenesAssumption
  <2>2. c = SubSeq(x, 1, Len(d) + 1) /\ Above(d, x)
    BY <1>1, <1>2, <1>3, <2>1, AboveIs, AboveOrder
  <2>3. \E q \in DOMAIN StateFiles : /\ StateFiles[q] \in {Database, LockFile}
                                      /\ Above(SubSeq(x, 1, Len(d) + 1), q)
    BY <2>2, ScenesAssumption
  <2> QED
    BY <2>2, <2>3
<1> QED
  BY <1>2, <1>3 DEF Source

\* A source that is not refused has no file of the state directory below it.
LEMMA NotRefused ==
    ASSUME Tree(fs), StateLies(fs, alive), NEW src, NEW shown, Source(src, shown, Stands(alive)),
           ~refused_at_once(src), Stands(alive), NEW x \in DOMAIN StateFiles
    PROVE  ~Above(src, x)
<1> SUFFICES ASSUME Above(src, x) PROVE FALSE
  OBVIOUS
<1>1. PICK q \in DOMAIN StateFiles : StateFiles[q] \in {Database, LockFile} /\ Above(src, q)
  BY DEF Source
<1>2. q \in DOMAIN fs /\ fs[q] = StateFiles[q]
  BY DEF StateLies
<1> QED
  BY <1>1, <1>2 DEF refused_at_once, Below

LEMMA ChildIsSource ==
    ASSUME Tree(fs), StateLies(fs, alive), NEW src, NEW scene \in Scenes,
           Source(src, scene.panels, Stands(alive)), ~refused_at_once(src), NEW c \in Kids(src)
    PROVE  Source(c, scene.panels, Stands(alive))
<1>1. src \in Paths \ {<<>>}
  BY DEF Source
<1>2. PICK d \in Range(scene.panels) : Above(d, src) /\ Len(d) < Len(src)
  BY DEF Source
<1>3. d \in Paths /\ Len(d) \in Nat /\ Len(src) \in Nat
  BY <1>1, PathIs, ShownAre
<1>4. c \in Paths \ {<<>>} /\ Parent(c) = src /\ Len(c) = Len(src) + 1 /\ Above(src, c)
  BY <1>1, KidIs
<1>5. Above(d, c) /\ Len(d) < Len(c)
  BY <1>1, <1>2, <1>3, <1>4, AboveOrder
<1>7. ASSUME Stands(alive), NEW x \in DOMAIN StateFiles, Above(c, x) PROVE FALSE
  <2>1. x \in Paths
    BY ScenesAssumption
  <2>2. Above(src, x)
    BY <1>1, <1>4, <1>7, <2>1, AboveOrder
  <2> QED
    BY <1>7, <2>2, NotRefused
<1> QED
  BY <1>1, <1>4, <1>5, <1>7 DEF Source

-----------------------------------------------------------------------------
(* What happens to the file system                                         *)

\* Where a move goes is free, in a directory that is not below what is moved.
LEMMA TargetIs ==
    ASSUME Tree(fs), NEW src \in Paths \ {<<>>}, NEW dst \in Paths \ {<<>>}, NEW to,
           \/ to = move_to(src, dst) \/ to = move_dir_to(src, dst), to # None
    PROVE  /\ src \in DOMAIN fs /\ to \in Paths \ {<<>>} /\ to \notin DOMAIN fs
           /\ Parent(to) \in DOMAIN fs /\ fs[Parent(to)] \in Directories /\ ~Above(src, Parent(to))
           /\ ~refused_at_once(src)
<1>1. IsFiniteSet(DOMAIN fs)
  BY DEF Tree
<1>2. /\ FirstFree(dst) \in Paths \ {<<>>} /\ FirstFree(dst) \notin DOMAIN fs
      /\ Parent(FirstFree(dst)) = Parent(dst)
  BY <1>1, FirstFreeIs
<1>3. Parent(dst) \in Paths /\ Above(Parent(dst), dst)
  BY ParentIs
<1>4. CASE to = move_to(src, dst)
  <2>1. IsFile(src) /\ IsDir(Parent(dst)) /\ ~refused_at_once(src) /\ to = FirstFree(dst)
    BY <1>4 DEF move_to
  <2>2. ~Above(src, Parent(dst))
    BY <1>3, <2>1, TreeUp, FilesAssumption DEF IsFile, IsDir
  <2> QED
    BY <1>2, <2>1, <2>2 DEF IsFile, IsDir
<1>5. CASE to = move_dir_to(src, dst)
  <2>1. IsDir(src) /\ IsDir(Parent(dst)) /\ ~Above(src, dst) /\ ~refused_at_once(src) /\ to = FirstFree(dst)
    BY <1>5 DEF move_dir_to
  <2>2. ~Above(src, Parent(dst))
    BY <1>3, <2>1, AboveOrder
  <2> QED
    BY <1>2, <2>1, <2>2 DEF IsDir
<1> QED
  BY <1>4, <1>5

\* A rename of what has no file of the state directory below it.
LEMMA RenameKeeps ==
    ASSUME Tree(fs), Range(fs) \cap Files = alive, StateLies(fs, alive),
           NEW src, NEW to, src \in Paths \ {<<>>}, src \in DOMAIN fs, to \in Paths \ {<<>>}, to \notin DOMAIN fs,
           Parent(to) \in DOMAIN fs, fs[Parent(to)] \in Directories, ~Above(src, Parent(to)),
           Stands(alive) => \A x \in DOMAIN StateFiles : ~Above(src, x)
    PROVE  /\ Tree(Renamed(src, to)) /\ Range(Renamed(src, to)) \cap Files = alive
           /\ StateLies(Renamed(src, to), alive)
           /\ Stands(alive) => \A x \in DOMAIN StateFiles : ~Above(to, x)
<1>1. /\ Tree(Renamed(src, to))
      /\ Range(Renamed(src, to)) = Range(fs)
      /\ \A q \in DOMAIN fs \ Below(src) : q \in DOMAIN Renamed(src, to) /\ Renamed(src, to)[q] = fs[q]
  BY RenamedIs
<1>2. StateLies(Renamed(src, to), alive)
  <2>1. ASSUME Stands(alive), NEW p \in DOMAIN StateFiles
        PROVE  p \in DOMAIN Renamed(src, to) /\ Renamed(src, to)[p] = StateFiles[p]
    <3>1. p \in DOMAIN fs /\ fs[p] = StateFiles[p] /\ ~Above(src, p)
      BY <2>1 DEF StateLies
    <3> QED
      BY <1>1, <3>1 DEF Below
  <2> QED
    BY <2>1 DEF StateLies
<1>3. ASSUME Stands(alive), NEW x \in DOMAIN StateFiles, Above(to, x) PROVE FALSE
  <2>1. x \in DOMAIN fs
    BY <1>3 DEF StateLies
  <2> QED
    BY <1>3, <2>1, TreeUp
<1> QED
  BY <1>1, <1>2, <1>3

\* create_dir_all makes directories where nothing was, from the top down.
LEMMA WithDirsKeeps ==
    ASSUME Tree(fs), Range(fs) \cap Files = alive, StateLies(fs, alive), NEW p \in Paths
    PROVE  /\ Tree(WithDirs(p)) /\ Range(WithDirs(p)) \cap Files = alive /\ StateLies(WithDirs(p), alive)
<1> DEFINE way == {SubSeq(p, 1, n) : n \in 1..Len(p)}
           stopped == \E n \in 1..Len(p) : SubSeq(p, 1, n) \in DOMAIN fs /\ ~IsDir(SubSeq(p, 1, n))
           made == IF stopped THEN {} ELSE way \ DOMAIN fs
           T == WithDirs(p)
<1>1. Len(p) \in Nat
  BY PathIs
<1>2. ASSUME NEW n \in 1..Len(p)
      PROVE  /\ SubSeq(p, 1, n) \in Paths \ {<<>>} /\ Len(SubSeq(p, 1, n)) = n
             /\ \A i \in 1..n : SubSeq(p, 1, n)[i] = p[i]
  <2>1. n \in 0..Len(p) /\ n # 0
    BY <1>1
  <2> QED
    BY <2>1, Upto, PathIs
<1>3. /\ DOMAIN T = DOMAIN fs \cup made
      /\ \A q \in DOMAIN fs : T[q] = fs[q]
      /\ \A q \in made : T[q] = Dir
  BY DEF WithDirs
<1>4. IsFiniteSet(way)
  <2> DEFINE g == [n \in 1..Len(p) |-> SubSeq(p, 1, n)]
  <2>1. DOMAIN g = 1..Len(p) /\ {g[n] : n \in 1..Len(p)} = way
    OBVIOUS
  <2> HIDE DEF g, way
  <2>2. IsFiniteSet(1..Len(p))
    BY <1>1, FS_Interval
  <2>3. IsFiniteSet({g[n] : n \in 1..Len(p)})
    BY <2>1, <2>2, ImageIsFinite
  <2> QED
    BY <2>1, <2>3
<1>5. made \subseteq way /\ (stopped => made = {})
  OBVIOUS
<1>6. ~stopped => \A n \in 1..Len(p) : SubSeq(p, 1, n) \in DOMAIN T /\ T[SubSeq(p, 1, n)] \in Directories
  <2> SUFFICES ASSUME ~stopped, NEW n \in 1..Len(p)
               PROVE  SubSeq(p, 1, n) \in DOMAIN T /\ T[SubSeq(p, 1, n)] \in Directories
    OBVIOUS
  <2>1. CASE SubSeq(p, 1, n) \in DOMAIN fs
    <3>1. IsDir(SubSeq(p, 1, n))
      BY <2>1
    <3> HIDE DEF made, stopped, T, way
    <3> QED
      BY <1>3, <2>1, <3>1 DEF IsDir
  <2>2. CASE SubSeq(p, 1, n) \notin DOMAIN fs
    <3>1. SubSeq(p, 1, n) \in made
      BY <2>2
    <3> HIDE DEF made, stopped, T, way
    <3> QED
      BY <1>3, <2>2, <3>1, PlainIs
  <2> QED
    BY <2>1, <2>2
<1>7. \A q \in way : \E n \in 1..Len(p) : q = SubSeq(p, 1, n)
  OBVIOUS
<1> HIDE DEF made, stopped, T, way
<1>8. IsFiniteSet(DOMAIN T)
  <2>1. IsFiniteSet(made) /\ IsFiniteSet(DOMAIN fs)
    BY <1>4, <1>5, FS_Subset DEF Tree
  <2> QED
    BY <1>3, <2>1, FS_Union
<1>9. DOMAIN T \subseteq Paths \ {<<>>}
  <2>1. ASSUME NEW q \in way PROVE q \in Paths \ {<<>>}
    <3>1. PICK n \in 1..Len(p) : q = SubSeq(p, 1, n)
      BY <1>7
    <3> QED
      BY <1>2, <3>1
  <2>2. DOMAIN fs \subseteq Paths \ {<<>>}
    BY DEF Tree
  <2> QED
    BY <1>3, <1>5, <2>1, <2>2
<1>10. \A q \in DOMAIN T : T[q] \in Files \cup Directories \cup {Link}
  BY <1>3, PlainIs DEF Tree
<1>11. ASSUME NEW q \in DOMAIN T, NEW k \in 1..Len(q) - 1
       PROVE  SubSeq(q, 1, k) \in DOMAIN T /\ T[SubSeq(q, 1, k)] \in Directories
  <2>1. CASE q \in DOMAIN fs
    <3>1. SubSeq(q, 1, k) \in DOMAIN fs /\ fs[SubSeq(q, 1, k)] \in Directories
      BY <2>1, <1>11 DEF Tree
    <3> QED
      BY <1>3, <3>1
  <2>2. CASE q \in made
    <3>1. PICK n \in 1..Len(p) : q = SubSeq(p, 1, n)
      BY <1>5, <1>7, <2>2
    <3>2. ~stopped
      BY <1>5, <2>2
    <3>3. Len(q) = n /\ q \in Paths /\ \A i \in 1..n : q[i] = p[i]
      BY <1>2, <3>1
    <3>4. k \in 1..Len(p) /\ k \in 0..Len(q) /\ k \in 0..Len(p) /\ k < n
      BY <1>1, <3>3
    <3>5. /\ SubSeq(q, 1, k) \in Paths /\ Len(SubSeq(q, 1, k)) = k /\ \A i \in 1..k : SubSeq(q, 1, k)[i] = q[i]
          /\ SubSeq(p, 1, k) \in Paths /\ Len(SubSeq(p, 1, k)) = k /\ \A i \in 1..k : SubSeq(p, 1, k)[i] = p[i]
      BY <3>3, <3>4, Upto
    <3>6. SubSeq(q, 1, k) = SubSeq(p, 1, k)
      BY <3>3, <3>4, <3>5, SamePath
    <3> QED
      BY <1>6, <3>2, <3>4, <3>6
  <2> QED
    BY <1>3, <2>1, <2>2
<1>12. ASSUME NEW a \in DOMAIN T, NEW b \in DOMAIN T, T[a] = T[b], T[a] \in Files PROVE a = b
  <2>1. a \in DOMAIN fs /\ b \in DOMAIN fs
    BY <1>3, <1>12, PlainIs
  <2> QED
    BY <1>3, <1>12, <2>1 DEF Tree
<1>13. Range(T) \cap Files = alive
  <2>1. ASSUME NEW q \in DOMAIN T, T[q] \in Files PROVE T[q] \in Range(fs)
    BY <1>3, <2>1, PlainIs DEF Range
  <2>2. ASSUME NEW q \in DOMAIN fs PROVE fs[q] \in Range(T)
    BY <1>3 DEF Range
  <2>3. Range(T) \cap Files \subseteq Range(fs)
    BY <2>1 DEF Range
  <2>4. Range(fs) \subseteq Range(T)
    BY <2>2 DEF Range
  <2> QED
    BY <2>3, <2>4
<1>14. StateLies(T, alive)
  BY <1>3 DEF StateLies
<1> QED
  BY <1>8, <1>9, <1>10, <1>11, <1>12, <1>13, <1>14 DEF Tree, T

\* An empty directory is removed.
LEMMA RemovalKeeps ==
    ASSUME Tree(fs), Range(fs) \cap Files = alive, StateLies(fs, alive),
           NEW src, src \in Paths \ {<<>>}, IsDir(src), Kids(src) = {},
           NEW tree, tree = [p \in DOMAIN fs \ {src} |-> fs[p]]
    PROVE  Tree(tree) /\ Range(tree) \cap Files = alive /\ StateLies(tree, alive)
<1>1. DOMAIN tree = DOMAIN fs \ {src} /\ (\A p \in DOMAIN tree : tree[p] = fs[p]) /\ fs[src] \in Directories
  BY DEF IsDir
<1>2. IsFiniteSet(DOMAIN tree)
  BY <1>1, FS_RemoveElement, FS_Subset DEF Tree
<1>3. ASSUME NEW q \in DOMAIN tree, NEW n \in 1..Len(q) - 1
      PROVE  SubSeq(q, 1, n) \in DOMAIN tree /\ tree[SubSeq(q, 1, n)] \in Directories
  <2> DEFINE x == SubSeq(q, 1, n)
  <2>1. q \in DOMAIN fs /\ q \in Paths \ {<<>>} /\ Len(q) \in Nat
    BY <1>1, PathIs DEF Tree
  <2>2. x \in DOMAIN fs /\ fs[x] \in Directories
    BY <2>1 DEF Tree
  <2>3. n \in 0..Len(q) /\ n + 1 \in 0..Len(q) /\ n \in Nat
    BY <2>1
  <2>4. /\ x \in Paths /\ Len(x) = n /\ \A i \in 1..n : x[i] = q[i]
        /\ SubSeq(q, 1, n + 1) \in Paths /\ Len(SubSeq(q, 1, n + 1)) = n + 1
        /\ \A i \in 1..n + 1 : SubSeq(q, 1, n + 1)[i] = q[i]
    BY <2>1, <2>3, Upto
  <2>5. x # src
    <3> SUFFICES ASSUME x = src PROVE FALSE
      OBVIOUS
    <3> DEFINE y == SubSeq(q, 1, n + 1)
    <3>1. y \in DOMAIN fs
      <4>1. CASE n + 1 = Len(q)
        <5>1. y = q
          BY <2>1, <2>4, <4>1, SamePath
        <5> QED
          BY <2>1, <5>1
      <4>2. CASE n + 1 # Len(q)
        <5>1. n + 1 \in 1..Len(q) - 1
          BY <2>1, <2>3, <4>2
        <5> QED
          BY <2>1, <5>1 DEF Tree
      <4> QED
        BY <4>1, <4>2
    <3>2. y \in Paths /\ y # <<>> /\ Len(y) = n + 1 /\ \A i \in 1..n : y[i] = x[i]
      <4>1. y \in Paths /\ Len(y) = n + 1
        BY <2>4
      <4>2. \A i \in 1..n : i \in 1..n + 1
        BY <2>3
      <4>3. \A i \in 1..n : y[i] = q[i] /\ x[i] = q[i]
        BY <2>4, <4>2
      <4>4. y # <<>>
        BY <2>3, <4>1, PathIs
      <4> QED BY <4>1, <4>3, <4>4
    <3> HIDE DEF x, y
    <3>3. Parent(y) = x
      <4>1. Parent(y) \in Paths /\ Len(Parent(y)) = n /\ Parent(y) = SubSeq(y, 1, n)
        <5>1. Parent(y) \in Paths /\ Len(Parent(y)) = Len(y) - 1 /\ Parent(y) = SubSeq(y, 1, Len(y) - 1)
          BY <3>2, ParentIs
        <5>2. Len(y) - 1 = n
          BY <2>3, <3>2
        <5> QED
          BY <5>1, <5>2
      <4>2. \A i \in 1..n : Parent(y)[i] = y[i]
        <5>1. n \in 0..Len(y)
          BY <2>3, <3>2
        <5> QED
          BY <3>2, <4>1, <5>1, Upto
      <4> QED
        BY <2>4, <3>2, <4>1, <4>2, SamePath DEF x
    <3> QED
      BY <2>4, <3>1, <3>2, <3>3 DEF Kids, x
  <2> QED
    BY <1>1, <2>2, <2>5
<1>4. Tree(tree)
  BY <1>1, <1>2, <1>3 DEF Tree
<1>5. Range(tree) \cap Files = alive
  <2>1. ASSUME NEW q \in DOMAIN fs, fs[q] \in Files PROVE q \in DOMAIN tree
    BY <1>1, <2>1, FilesAssumption
  <2>2. \A q \in DOMAIN fs : fs[q] \in Files => fs[q] \in Range(tree)
    BY <1>1, <2>1 DEF Range
  <2>3. Range(tree) \subseteq Range(fs)
    BY <1>1 DEF Range
  <2>4. Range(fs) \cap Files \subseteq Range(tree)
    BY <2>2 DEF Range
  <2> QED
    BY <2>3, <2>4
<1>6. StateLies(tree, alive)
  <2>1. ASSUME Stands(alive), NEW p \in DOMAIN StateFiles PROVE p \in DOMAIN tree /\ tree[p] = StateFiles[p]
    <3>1. p \in DOMAIN fs /\ fs[p] = StateFiles[p]
      BY <2>1 DEF StateLies
    <3>2. StateFiles[p] \in Files
      BY FilesAssumption DEF Range
    <3>3. p # src
      BY <1>1, <3>1, <3>2, FilesAssumption
    <3> QED
      BY <1>1, <3>1, <3>3
  <2> QED
    BY <2>1 DEF StateLies
<1> QED
  BY <1>4, <1>5, <1>6

LEMMA CreateKeeps ==
    ASSUME Tree(fs), Range(fs) \cap Files = alive, StateLies(fs, alive), NEW d, IsDir(d), NEW n \in StrangeNames,
           NEW i \in Strangers \ alive, Join(d, n) \notin DOMAIN fs,
           NEW tree, tree = [p \in DOMAIN fs \cup {Join(d, n)} |-> IF p \in DOMAIN fs THEN fs[p] ELSE i]
    PROVE  /\ Tree(tree) /\ Range(tree) \cap Files = alive \cup {i} /\ StateLies(tree, alive \cup {i})
           /\ Stands(alive \cup {i}) <=> Stands(alive)
<1> DEFINE new == Join(d, n)
<1>1. d \in DOMAIN fs /\ fs[d] \in Directories /\ d \in Paths /\ n \in Names /\ i \in Files /\ i \notin Range(StateFiles)
  BY FilesAssumption DEF IsDir, Tree
<1>2. new \in Paths \ {<<>>} /\ Len(new) = Len(d) + 1 /\ Parent(new) = d
  BY <1>1, JoinIs
<1>3. DOMAIN tree = DOMAIN fs \cup {new} /\ (\A p \in DOMAIN fs : tree[p] = fs[p]) /\ tree[new] = i /\ new \notin DOMAIN fs
  OBVIOUS
<1> HIDE DEF new
<1>4. IsFiniteSet(DOMAIN tree)
  BY <1>3, FS_AddElement DEF Tree
<1>5. ASSUME NEW q \in DOMAIN tree, NEW k \in 1..Len(q) - 1
      PROVE  SubSeq(q, 1, k) \in DOMAIN tree /\ tree[SubSeq(q, 1, k)] \in Directories
  <2>1. CASE q \in DOMAIN fs
    <3>1. SubSeq(q, 1, k) \in DOMAIN fs /\ fs[SubSeq(q, 1, k)] \in Directories
      BY <1>5, <2>1 DEF Tree
    <3> QED
      BY <1>3, <3>1
  <2>2. CASE q = new
    <3>1. Len(q) \in Nat /\ k \in 0..Len(q) /\ k # 0 /\ Len(d) \in Nat /\ k < Len(q)
      BY <1>1, <1>2, <2>2, PathIs
    <3> DEFINE x == SubSeq(q, 1, k)
    <3>2. x \in Paths /\ Len(x) = k /\ \A j \in 1..k : x[j] = q[j]
      BY <1>2, <2>2, <3>1, Upto
    <3> HIDE DEF x
    <3>3. x # <<>> /\ Above(x, q) /\ x # q
      BY <1>2, <2>2, <3>1, <3>2, AboveIs, PathIs
    <3>4. Above(x, d)
      BY <1>2, <2>2, <3>2, <3>3, ParentIs
    <3>5. x \in DOMAIN fs /\ fs[x] \in Directories
      BY <1>1, <3>2, <3>3, <3>4, TreeUp
    <3> QED
      BY <1>3, <3>5 DEF x
  <2> QED
    BY <1>3, <2>1, <2>2
<1>6. \A p \in DOMAIN fs : fs[p] # i
  BY <1>1 DEF Range
<1>7. ASSUME NEW p \in DOMAIN tree, NEW q \in DOMAIN tree, tree[p] = tree[q], tree[p] \in Files PROVE p = q
  BY <1>3, <1>6, <1>7 DEF Tree
<1>8. Tree(tree)
  <2>1. DOMAIN tree \subseteq Paths \ {<<>>} /\ \A p \in DOMAIN tree : tree[p] \in Files \cup Directories \cup {Link}
    BY <1>1, <1>2, <1>3 DEF Tree
  <2> QED
    BY <1>4, <1>5, <1>7, <2>1 DEF Tree
<1>9. Range(tree) = Range(fs) \cup {i}
  BY <1>3 DEF Range
<1>10. Stands(alive \cup {i}) <=> Stands(alive)
  BY <1>1 DEF Stands
<1>11. StateLies(tree, alive \cup {i})
  BY <1>1, <1>3, <1>10 DEF StateLies
<1> QED
  BY <1>1, <1>8, <1>9, <1>10, <1>11

LEMMA UnlinkKeeps ==
    ASSUME Tree(fs), Range(fs) \cap Files = alive, StateLies(fs, alive), NEW p, IsFile(p), p \notin DOMAIN StateFiles,
           NEW tree, tree = [q \in DOMAIN fs \ {p} |-> fs[q]]
    PROVE  /\ Tree(tree) /\ Range(tree) \cap Files = alive \ {fs[p]} /\ StateLies(tree, alive \ {fs[p]})
           /\ Stands(alive \ {fs[p]}) <=> Stands(alive)
<1>1. p \in DOMAIN fs /\ fs[p] \in Files /\ fs[p] \notin Directories
  BY FilesAssumption DEF IsFile
<1>2. DOMAIN tree = DOMAIN fs \ {p} /\ \A q \in DOMAIN tree : tree[q] = fs[q]
  OBVIOUS
<1>3. IsFiniteSet(DOMAIN tree)
  BY <1>2, FS_Subset DEF Tree
<1>4. ASSUME NEW q \in DOMAIN tree, NEW k \in 1..Len(q) - 1
      PROVE  SubSeq(q, 1, k) \in DOMAIN tree /\ tree[SubSeq(q, 1, k)] \in Directories
  <2>1. SubSeq(q, 1, k) \in DOMAIN fs /\ fs[SubSeq(q, 1, k)] \in Directories
    BY <1>2, <1>4 DEF Tree
  <2> QED
    BY <1>1, <1>2, <2>1
<1>5. Tree(tree)
  BY <1>2, <1>3, <1>4 DEF Tree
<1>6. Range(tree) \cap Files = alive \ {fs[p]}
  <2>1. ASSUME NEW q \in DOMAIN tree, tree[q] \in Files PROVE tree[q] \in alive \ {fs[p]}
    <3>1. q \in DOMAIN fs /\ q # p /\ tree[q] = fs[q]
      BY <1>2, <2>1
    <3>2. fs[q] # fs[p]
      BY <1>1, <2>1, <3>1 DEF Tree
    <3>3. fs[q] \in Range(fs)
      BY <3>1 DEF Range
    <3> QED
      BY <2>1, <3>1, <3>2, <3>3
  <2>2. ASSUME NEW i \in alive \ {fs[p]} PROVE i \in Range(tree) \cap Files
    <3>1. PICK q \in DOMAIN fs : fs[q] = i
      BY DEF Range
    <3>2. q \in DOMAIN tree /\ tree[q] = i
      BY <1>2, <2>2, <3>1
    <3> QED
      BY <2>2, <3>2 DEF Range
  <2>3. Range(tree) \cap Files \subseteq alive \ {fs[p]}
    BY <2>1 DEF Range
  <2> QED
    BY <2>2, <2>3
<1>7. fs[p] \notin Range(StateFiles)
  <2> SUFFICES ASSUME NEW x \in DOMAIN StateFiles, StateFiles[x] = fs[p] PROVE FALSE
    BY DEF Range
  <2>1. StateFiles[x] \in alive /\ StateFiles[x] \in Range(StateFiles)
    BY <1>1 DEF Range
  <2>2. x \in DOMAIN fs /\ fs[x] = StateFiles[x]
    BY <2>1 DEF StateLies
  <2> QED
    BY <1>1, <2>2 DEF Tree
<1>8. Stands(alive \ {fs[p]}) <=> Stands(alive)
  BY <1>7 DEF Stands
<1>9. StateLies(tree, alive \ {fs[p]})
  BY <1>2, <1>8 DEF StateLies
<1> QED
  BY <1>5, <1>6, <1>8, <1>9

-----------------------------------------------------------------------------
(* What the worker does to its batch                                       *)

LEMMA Went ==
    ASSUME NEW shown, NEW stands, WorkOK(work, shown, stands), work.stack # <<>>,
           NEW frames, StackOK(frames \o Tail(work.stack), shown, stands), NEW failures \in Nat, Go(frames, failures)
    PROVE  /\ WorkOK(work', shown, stands)
           /\ work'.stack = frames \o Tail(work.stack) /\ work'.moved = work.moved /\ work'.dups = work.dups
           /\ work'.quiet <=> work.quiet \/ Top.do = "item"
<1> DEFINE stack2 == frames \o Tail(work.stack)
           quiet2 == work.quiet \/ Top.do = "item"
           failed2 == work.failed + failures
<1>1. /\ work \in [sources : {work.sources}, stack : {work.stack}, moved : {work.moved}, failed : Nat, dups : Nat,
                   quiet : BOOLEAN, was : {work.was}, began : {work.began}]
      /\ Moves(work.moved, stands) /\ work.dups <= Len(work.moved)
  BY DEF WorkOK
<1>2. work' = [work EXCEPT !.stack = stack2, !.failed = failed2, !.quiet = quiet2]
  BY DEF Go
<1>3. quiet2 \in BOOLEAN /\ (quiet2 <=> work.quiet \/ Top.do = "item") /\ StackOK(stack2, shown, stands)
      /\ failed2 \in Nat
  BY <1>1
<1> HIDE DEF stack2, quiet2, failed2
<1>4. /\ work'.stack = stack2 /\ work'.moved = work.moved /\ work'.dups = work.dups /\ work'.quiet = quiet2
      /\ work' \in [sources : {work'.sources}, stack : {work'.stack}, moved : {work'.moved}, failed : Nat, dups : Nat,
                    quiet : BOOLEAN, was : {work'.was}, began : {work'.began}]
  BY <1>1, <1>2, <1>3
<1>5. WorkOK(work', shown, stands)
  BY <1>1, <1>3, <1>4 DEF WorkOK
<1> QED
  BY <1>3, <1>4, <1>5 DEF stack2

LEMMA WentOn ==
    ASSUME NEW shown, NEW stands, WorkOK(work, shown, stands), work.stack # <<>>
    PROVE  /\ Top \in Frames /\ Source(Top.src, shown, stands) /\ Tail(work.stack) \in Seq(Frames)
           /\ Tail(work.stack) # <<>> => Head(Tail(work.stack)).do \in {"item", "remove"}
           /\ \A frames, failures :
                 /\ frames \in Seq(Frames) /\ failures \in Nat /\ Go(frames, failures)
                 /\ \A i \in DOMAIN frames : /\ Source(frames[i].src, shown, stands)
                                             /\ i > 1 => frames[i].do \in {"item", "remove"}
                 => /\ WorkOK(work', shown, stands)
                    /\ work'.stack = frames \o Tail(work.stack) /\ work'.moved = work.moved
                    /\ work'.quiet <=> work.quiet \/ Top.do = "item"
<1>1. StackOK(work.stack, shown, stands)
  BY DEF WorkOK
<1>2. /\ Tail(work.stack) \in Seq(Frames) /\ Len(Tail(work.stack)) = Len(work.stack) - 1
      /\ Head(work.stack) = work.stack[1] /\ 1 \in DOMAIN work.stack /\ Head(work.stack) \in Frames
      /\ \A i \in DOMAIN Tail(work.stack) : i \in Nat \ {0} /\ i + 1 \in DOMAIN work.stack
                                            /\ Tail(work.stack)[i] = work.stack[i + 1]
  BY <1>1, TailIs DEF StackOK
<1>3. Source(Top.src, shown, stands)
  BY <1>1, <1>2 DEF StackOK, Top
<1>4. Tail(work.stack) # <<>> => Head(Tail(work.stack)).do \in {"item", "remove"}
  <2> SUFFICES ASSUME Tail(work.stack) # <<>> PROVE Head(Tail(work.stack)).do \in {"item", "remove"}
    OBVIOUS
  <2> DEFINE t == Tail(work.stack)
  <2>1. Head(t) = t[1] /\ 1 \in DOMAIN t
    BY <1>2, TailIs
  <2>2. Head(t) = work.stack[2] /\ 2 \in DOMAIN work.stack
    BY <1>2, <2>1
  <2> QED
    BY <1>1, <2>2 DEF StackOK
<1>5. ASSUME NEW frames, NEW failures, frames \in Seq(Frames), failures \in Nat, Go(frames, failures),
             \A i \in DOMAIN frames : /\ Source(frames[i].src, shown, stands)
                                      /\ i > 1 => frames[i].do \in {"item", "remove"}
      PROVE  /\ WorkOK(work', shown, stands)
             /\ work'.stack = frames \o Tail(work.stack) /\ work'.moved = work.moved
             /\ work'.quiet <=> work.quiet \/ Top.do = "item"
  <2>1. StackOK(frames \o Tail(work.stack), shown, stands)
    BY <1>1, <1>5, Pushed
  <2> QED
    BY <1>5, <2>1, Went
<1> QED
  BY <1>2, <1>3, <1>4, <1>5 DEF Top

LEMMA Disturbed ==
    ASSUME NEW shown, NEW stands, work # None => WorkOK(work, shown, stands),
           NEW gone, NEW new, Disturb(gone, new)
    PROVE  /\ work' # None => work # None /\ WorkOK(work', shown, stands) /\ ~work'.quiet
                              /\ work'.moved = work.moved
           /\ work = None => work' = None
<1>1. CASE work = None
  BY <1>1 DEF Disturb
<1>2. CASE work # None
  <2> DEFINE began2 == [i \in (DOMAIN work.began \ gone) \cup DOMAIN new |->
                           IF i \in DOMAIN new THEN new[i] ELSE work.began[i]]
  <2>1. /\ work \in [sources : {work.sources}, stack : {work.stack}, moved : {work.moved}, failed : Nat, dups : Nat,
                     quiet : BOOLEAN, was : {work.was}, began : {work.began}]
        /\ StackOK(work.stack, shown, stands)
        /\ Moves(work.moved, stands) /\ work.dups <= Len(work.moved)
    BY <1>2 DEF WorkOK
  <2>2. work' = [work EXCEPT !.quiet = FALSE, !.began = began2]
    BY <1>2 DEF Disturb
  <2> HIDE DEF began2
  <2>3. /\ work'.stack = work.stack /\ work'.moved = work.moved /\ work'.dups = work.dups /\ work'.quiet = FALSE
        /\ work' \in [sources : {work'.sources}, stack : {work'.stack}, moved : {work'.moved}, failed : Nat, dups : Nat,
                      quiet : BOOLEAN, was : {work'.was}, began : {work'.began}]
    BY <2>1, <2>2
  <2> QED
    BY <1>2, <2>1, <2>3 DEF WorkOK
<1> QED
  BY <1>1, <1>2

LEMMA OneFrameIs ==
    ASSUME NEW S, NEW f \in S, NEW t \in Seq(S)
    PROVE  /\ <<f>> \in Seq(S) /\ DOMAIN <<f>> = {1} /\ <<f>>[1] = f
           /\ <<f>> \o t # <<>> /\ Head(<<f>> \o t) = f
           /\ <<>> \in Seq(S) /\ DOMAIN <<>> = {} /\ <<>> \o t = t
<1>1. <<f>> \in Seq(S) /\ DOMAIN <<f>> = {1} /\ <<f>>[1] = f /\ Len(<<f>>) = 1
  OBVIOUS
<1>2. <<>> \in Seq(S) /\ DOMAIN <<>> = {} /\ <<>> \o t = t
  BY EmptySeq, ConcatEmptySeq
<1> DEFINE g == <<f>>
<1>3. g \in Seq(S) /\ Len(g) = 1 /\ g[1] = f
  BY <1>1
<1> HIDE DEF g
<1>4. /\ g \o t \in Seq(S) /\ Len(g \o t) = 1 + Len(t) /\ Len(t) \in Nat
      /\ \A i \in 1..Len(g) + Len(t) : (g \o t)[i] = IF i <= Len(g) THEN g[i] ELSE t[i - Len(g)]
  <2>1. /\ g \o t \in Seq(S) /\ Len(g \o t) = Len(g) + Len(t)
        /\ \A i \in 1..Len(g) + Len(t) : (g \o t)[i] = IF i <= Len(g) THEN g[i] ELSE t[i - Len(g)]
    BY ZenonT(30), <1>3, ConcatProperties
  <2>2. Len(t) \in Nat
    BY LenProperties
  <2> QED BY <1>3, <2>1, <2>2
<1>5. (g \o t)[1] = f
  BY <1>3, <1>4
<1>6. g \o t # <<>>
  BY <1>4, EmptySeq
<1>7. Head(g \o t) = f
  BY <1>4, <1>5, <1>6, HeadTailProperties
<1> QED
  BY <1>1, <1>2, <1>6, <1>7 DEF g

LEMMA PushNone ==
    ASSUME NEW shown, NEW stands, WorkOK(work, shown, stands), work.stack # <<>>,
           NEW failures \in Nat, Go(<<>>, failures)
    PROVE  /\ WorkOK(work', shown, stands) /\ work'.moved = work.moved
           /\ work'.stack # <<>> => Head(work'.stack).do \in {"item", "remove"}
<1>1. /\ Top \in Frames /\ Tail(work.stack) \in Seq(Frames)
      /\ Tail(work.stack) # <<>> => Head(Tail(work.stack)).do \in {"item", "remove"}
  BY WentOn
<1>2. <<>> \in Seq(Frames) /\ DOMAIN <<>> = {} /\ <<>> \o Tail(work.stack) = Tail(work.stack)
  BY <1>1, OneFrameIs
<1>3. /\ WorkOK(work', shown, stands)
      /\ work'.stack = <<>> \o Tail(work.stack) /\ work'.moved = work.moved
  <2> DEFINE none == <<>>
  <2>1. none \in Seq(Frames) /\ DOMAIN none = {} /\ Go(none, failures)
    BY <1>2
  <2> HIDE DEF none
  <2>2. /\ WorkOK(work', shown, stands)
        /\ work'.stack = none \o Tail(work.stack) /\ work'.moved = work.moved
    BY <2>1, WentOn
  <2> QED
    BY <2>2 DEF none
<1> QED
  BY <1>1, <1>2, <1>3

LEMMA PushOne ==
    ASSUME NEW shown, NEW stands, WorkOK(work, shown, stands), work.stack # <<>>,
           NEW f, f \in Frames, Source(f.src, shown, stands), NEW failures \in Nat, Go(<<f>>, failures)
    PROVE  /\ WorkOK(work', shown, stands) /\ work'.moved = work.moved
           /\ Head(work'.stack) = f
           /\ work'.quiet <=> work.quiet \/ Top.do = "item"
<1>1. Tail(work.stack) \in Seq(Frames)
  BY WentOn
<1>2. /\ <<f>> \in Seq(Frames) /\ DOMAIN <<f>> = {1} /\ <<f>>[1] = f
      /\ Head(<<f>> \o Tail(work.stack)) = f
  BY <1>1, OneFrameIs
<1> DEFINE fs1 == <<f>>
<1>3. /\ fs1 \in Seq(Frames) /\ Go(fs1, failures)
      /\ \A i \in DOMAIN fs1 : Source(fs1[i].src, shown, stands) /\ (i > 1 => fs1[i].do \in {"item", "remove"})
  BY <1>2
<1> HIDE DEF fs1
<1>4. /\ WorkOK(work', shown, stands)
      /\ work'.stack = fs1 \o Tail(work.stack) /\ work'.moved = work.moved
      /\ work'.quiet <=> work.quiet \/ Top.do = "item"
  BY <1>3, WentOn
<1> QED
  BY <1>2, <1>4 DEF fs1

\* The items of a batch, or of a directory to merge and its removal, wait below the top.
LEMMA ItemsAre ==
    ASSUME NEW paths \in Seq(Paths), NEW dir \in Paths
    PROVE  /\ Items(paths, dir) \in Seq(Frames) /\ DOMAIN Items(paths, dir) = DOMAIN paths
           /\ \A i \in DOMAIN paths : Items(paths, dir)[i].src = paths[i] /\ Items(paths, dir)[i].do = "item"
<1>1. Len(paths) \in Nat /\ DOMAIN paths = 1..Len(paths) /\ \A i \in 1..Len(paths) : paths[i] \in Paths
  BY LenProperties, ElementOfSeq
<1>2. Items(paths, dir) = [i \in 1..Len(paths) |-> Item(paths[i], dir)]
  BY <1>1 DEF Items
<1>3. \A i \in 1..Len(paths) : Item(paths[i], dir) \in Frames
  BY <1>1 DEF Item, Frames
<1>4. [i \in 1..Len(paths) |-> Item(paths[i], dir)] \in Seq(Frames)
  BY <1>1, <1>3, IsASeq
<1> QED
  BY <1>1, <1>2, <1>4 DEF Item

LEMMA PushMerge ==
    ASSUME NEW shown, NEW stands, WorkOK(work, shown, stands), work.stack # <<>>,
           NEW children \in Seq(Paths), \A i \in DOMAIN children : Source(children[i], shown, stands),
           NEW target \in Paths, NEW before \in Nat, NEW failures \in Nat,
           Go(Append(Items(children, target), Removal(Top.src, before)), failures)
    PROVE  /\ WorkOK(work', shown, stands) /\ work'.moved = work.moved
           /\ Head(work'.stack).do \in {"item", "remove"}
<1> DEFINE first == Items(children, target)
           last == Removal(Top.src, before)
           new == Append(first, last)
<1>1. Top \in Frames /\ Source(Top.src, shown, stands) /\ Tail(work.stack) \in Seq(Frames)
  BY WentOn
<1>2. last \in Frames /\ last.src = Top.src /\ last.do = "remove"
  BY <1>1 DEF Removal, Frames, Source
<1>3. /\ first \in Seq(Frames) /\ DOMAIN first = DOMAIN children
      /\ \A i \in DOMAIN first : first[i].src = children[i] /\ first[i].do = "item"
  BY ItemsAre
<1> HIDE DEF first, last
<1>4. /\ new \in Seq(Frames) /\ Len(new) = Len(first) + 1 /\ Len(first) \in Nat
      /\ DOMAIN new = 1..Len(first) + 1 /\ DOMAIN first = 1..Len(first)
      /\ \A i \in 1..Len(first) : new[i] = first[i]
      /\ new[Len(first) + 1] = last
  BY <1>2, <1>3, AppendProperties, LenProperties
<1>5. Go(new, failures)
  BY DEF first, last
<1> HIDE DEF new
<1>6. ASSUME NEW i \in DOMAIN new
      PROVE  Source(new[i].src, shown, stands) /\ new[i].do \in {"item", "remove"}
  <2> DEFINE n == Len(first)
  <2>1. n \in Nat /\ i \in 1..n + 1 /\ DOMAIN first = 1..n /\ new[n + 1] = last /\ \A k \in 1..n : new[k] = first[k]
    BY <1>4
  <2> HIDE DEF n
  <2>2. i = n + 1 \/ i \in 1..n
    BY <2>1
  <2>3. CASE i = n + 1
    BY <1>1, <1>2, <2>1, <2>3
  <2>4. CASE i \in 1..n
    BY <1>3, <2>1, <2>4
  <2> QED
    BY <2>2, <2>3, <2>4
<1>7. /\ WorkOK(work', shown, stands)
      /\ work'.stack = new \o Tail(work.stack) /\ work'.moved = work.moved
  BY <1>4, <1>5, <1>6, WentOn
<1>8. Head(work'.stack) = new[1] /\ 1 \in DOMAIN new
  <2> DEFINE t == Tail(work.stack)
  <2>1. t \in Seq(Frames) /\ Len(t) \in Nat
    BY <1>1, LenProperties
  <2> HIDE DEF t
  <2>2. /\ new \o t \in Seq(Frames) /\ Len(new \o t) = Len(new) + Len(t)
        /\ \A i \in 1..Len(new) + Len(t) : (new \o t)[i] = IF i <= Len(new) THEN new[i] ELSE t[i - Len(new)]
    BY <1>4, <2>1, ConcatProperties
  <2>3. (new \o t)[1] = new[1] /\ 1 \in DOMAIN new
    BY <1>4, <2>1, <2>2
  <2>4. new \o t # <<>>
    BY <1>4, <2>1, <2>2, EmptySeq
  <2>5. Head(new \o t) = (new \o t)[1]
    BY <2>2, <2>4, HeadTailProperties
  <2> QED
    BY <1>7, <2>3, <2>5 DEF t
<1> QED
  BY <1>6, <1>7, <1>8

-----------------------------------------------------------------------------
(* The worker's steps                                                      *)

LEMMA Spent ==
    ASSUME left \in [Kinds -> Nat], NEW k \in Kinds, May(k), Spend(k)
    PROVE  left' \in [Kinds -> Nat]
<1>1. left[k] \in Nat /\ left[k] > 0
  BY DEF May
<1>2. left[k] - 1 \in Nat
  BY <1>1
<1> QED
  BY <1>2 DEF Spend

\* A step of the worker leaves the reports and the requests alone.
LEMMA WorkerKeeps ==
    ASSUME IInv, work # None, WorkerOnly, left' \in [Kinds -> Nat],
           Tree(fs)', Range(fs') \cap Files = alive, StateLies(fs', alive),
           WorkOK(work', panels, Stands(alive)), AnswerStands'
    PROVE  IInv'
<1>1. ReportsOK'
  BY DEF IInv, ReportsOK, WorkerOnly
<1>2. PendingOK'
  <2>1. pending \in Nat /\ pending >= Len(queue) + Len(done) + 1
    BY DEF IInv, PendingOK
  <2>2. Len(queue) \in Nat /\ Len(done) \in Nat
    BY ListedIs DEF IInv, ReportsOK
  <2>3. pending' \in Nat /\ pending' >= Len(queue') + Len(done') + (IF work' = None THEN 0 ELSE 1)
    BY <2>1, <2>2 DEF WorkerOnly
  <2> QED
    BY <2>3 DEF PendingOK
<1>3. (work # None => WorkOK(work, panels, Stands(alive)))'
  BY DEF WorkerOnly
<1> QED
  BY <1>1, <1>2, <1>3 DEF IInv, WorkerOnly

\* The worker drops the top and leaves the file system alone.
LEMMA DropKeeps ==
    ASSUME IInv, work # None, work.stack # <<>>, WorkerOnly, UNCHANGED fs, left' \in [Kinds -> Nat],
           NEW failures \in Nat, Go(<<>>, failures)
    PROVE  IInv' /\ WorkOK(work', panels, Stands(alive)) /\ work'.moved = work.moved
<1>1. WorkOK(work, panels, Stands(alive))
  BY DEF IInv
<1>2. /\ WorkOK(work', panels, Stands(alive)) /\ work'.moved = work.moved
      /\ work'.stack # <<>> => Head(work'.stack).do \in {"item", "remove"}
  BY <1>1, PushNone
<1>3. AnswerStands'
  BY <1>2 DEF AnswerStands, Top
<1>4. Tree(fs)' /\ Range(fs') \cap Files = alive /\ StateLies(fs', alive)
  BY DEF IInv
<1> QED
  BY <1>2, <1>3, <1>4, WorkerKeeps

LEMMA FaultKeeps ==
    ASSUME IInv, work # None, work.stack # <<>>, WorkerOnly, Fault
    PROVE  IInv' /\ WorkOK(work', panels, Stands(alive)) /\ work'.moved = work.moved
<1>1. left' \in [Kinds -> Nat]
  BY Spent DEF Fault, IInv, Kinds
<1> QED
  BY <1>1, DropKeeps DEF Fault

\* The worker puts a frame in the place of the top and leaves the file system alone.
LEMMA PushKeeps ==
    ASSUME IInv, work # None, work.stack # <<>>, WorkerOnly, UNCHANGED fs, left' \in [Kinds -> Nat],
           NEW f \in Frames, f.src = Top.src, NEW failures \in Nat, Go(<<f>>, failures),
           work.quiet \/ Top.do = "item" =>
              /\ f.do = "compare" => IsFile(f.src) /\ f.candidates = same_size_files(f.dir, Size[fs[f.src]])
              /\ f.do = "land" => (f.dup <=> \E p \in Kids(Parent(f.dst)) : fs[p] # Database /\ Twin(f.src, p))
    PROVE  IInv' /\ WorkOK(work', panels, Stands(alive)) /\ work'.moved = work.moved
<1>1. WorkOK(work, panels, Stands(alive))
  BY DEF IInv
<1>2. Source(f.src, panels, Stands(alive))
  BY <1>1, WentOn
<1>3. /\ WorkOK(work', panels, Stands(alive)) /\ work'.moved = work.moved
      /\ Head(work'.stack) = f
      /\ work'.quiet <=> work.quiet \/ Top.do = "item"
  BY <1>1, <1>2, PushOne
<1>4. AnswerStands'
  <2> SUFFICES ASSUME work'.quiet
               PROVE  /\ f.do = "compare" => /\ IsFile(f.src)'
                                             /\ f.candidates = same_size_files(f.dir, Size[fs[f.src]])'
                      /\ f.do = "land" =>
                            (f.dup <=> (\E p \in Kids(Parent(f.dst)) : fs[p] # Database /\ Twin(f.src, p))')
    BY <1>3 DEF AnswerStands, Top
  <2>1. work.quiet \/ Top.do = "item"
    BY <1>3
  <2> QED
    BY <2>1 DEF IsFile, same_size_files, Kids, Twin
<1>5. Tree(fs)' /\ Range(fs') \cap Files = alive /\ StateLies(fs', alive)
  BY DEF IInv
<1> QED
  BY <1>3, <1>4, <1>5, WorkerKeeps

\* A twin has the size of the file it is a twin of: it is among the candidates.
LEMMA TwinsAreCandidates ==
    ASSUME NEW src, IsFile(src), NEW dir, NEW p \in Kids(dir), fs[p] # Database, Twin(src, p)
    PROVE  p \in same_size_files(dir, Size[fs[src]])
  BY FilesAssumption DEF IsFile, Twin, same_size_files

LEMMA LookAtFileKeeps ==
    ASSUME IInv, At("item"), WorkerOnly, UNCHANGED <<fs, left>>, IsFile(Top.src), LookAtFile
    PROVE  IInv' /\ WorkOK(work', panels, Stands(alive)) /\ work'.moved = work.moved
<1> DEFINE candidates == same_size_files(Top.dir, Size[fs[Top.src]])
           name == Join(Top.dir, Name(Top.src))
<1>1. /\ work # None /\ work.stack # <<>> /\ Top.do = "item" /\ left' \in [Kinds -> Nat]
      /\ WorkOK(work, panels, Stands(alive))
  BY DEF IInv, At, Top
<1>2. Top \in Frames /\ Source(Top.src, panels, Stands(alive))
  BY <1>1, WentOn
<1>3. Top.src \in Paths \ {<<>>} /\ Top.dir \in Paths
  BY <1>1, <1>2 DEF Frames, Source
<1>4. Name(Top.src) \in Names
  BY <1>3, ParentIs
<1>5. name \in Paths \ {<<>>} /\ Parent(name) = Top.dir
  BY <1>3, <1>4, JoinIs
<1>6. CASE ~IsDir(Top.dir)
  <2>1. Go(<<>>, 1)
    BY <1>6 DEF LookAtFile
  <2> QED
    BY <1>1, <2>1, DropKeeps
<1>7. CASE IsDir(Top.dir) /\ candidates = {}
  <2> DEFINE f == Land(Top.src, name, FALSE)
  <2>1. Go(<<f>>, 0)
    BY <1>7 DEF LookAtFile
  <2> HIDE DEF name, candidates
  <2>2. f \in Frames /\ f.src = Top.src /\ f.do = "land" /\ f.dst = name /\ f.dup = FALSE
    BY <1>3, <1>5 DEF Land, Frames
  <2>3. ~\E p \in Kids(Parent(name)) : fs[p] # Database /\ Twin(Top.src, p)
    BY <1>5, <1>7, TwinsAreCandidates DEF candidates
  <2> HIDE DEF f
  <2>4. f.do = "land" => (f.dup <=> \E p \in Kids(Parent(f.dst)) : fs[p] # Database /\ Twin(f.src, p))
    BY <2>2, <2>3
  <2>5. f.do # "compare"
    BY <2>2
  <2> QED
    BY <1>1, <2>1, <2>2, <2>4, <2>5, PushKeeps
<1>8. CASE IsDir(Top.dir) /\ candidates # {}
  <2> DEFINE f == Compare(Top.src, Top.dir, candidates)
  <2>1. Go(<<f>>, 0)
    BY <1>8 DEF LookAtFile
  <2>2. candidates \subseteq Paths
    <3>1. candidates \subseteq DOMAIN fs
      BY DEF same_size_files, Kids
    <3> QED
      BY <3>1 DEF IInv, Tree
  <2> HIDE DEF candidates
  <2>3. /\ f \in Frames /\ f.src = Top.src /\ f.do = "compare" /\ f.dir = Top.dir
        /\ f.candidates = candidates
    BY <1>3, <2>2 DEF Compare, Frames
  <2> HIDE DEF f
  <2>4. f.do = "compare" => IsFile(f.src) /\ f.candidates = same_size_files(f.dir, Size[fs[f.src]])
    BY <2>3 DEF candidates
  <2>5. f.do # "land"
    BY <2>3
  <2> QED
    BY <1>1, <2>1, <2>3, <2>4, <2>5, PushKeeps
<1> QED
  BY <1>6, <1>7, <1>8

LEMMA MergeKeeps ==
    ASSUME IInv, At("item"), WorkerOnly, UNCHANGED fs, left' \in [Kinds -> Nat], ~Refused,
           NEW some \in SUBSET Kids(Top.src), NEW failures \in Nat,
           \E sorted \in Sorted(some) :
              Go(Append(Items(sorted, Join(Top.dir, Name(Top.src))), Removal(Top.src, work.failed)), failures)
    PROVE  IInv' /\ WorkOK(work', panels, Stands(alive)) /\ work'.moved = work.moved
<1> DEFINE target == Join(Top.dir, Name(Top.src))
<1>1. PICK sorted \in Sorted(some) :
         Go(Append(Items(sorted, target), Removal(Top.src, work.failed)), failures)
  OBVIOUS
<1>2. /\ work # None /\ work.stack # <<>> /\ Top.do = "item"
      /\ WorkOK(work, panels, Stands(alive)) /\ work.failed \in Nat
  BY DEF IInv, At, Top, WorkOK
<1>3. Top \in Frames /\ Source(Top.src, panels, Stands(alive))
  BY <1>2, WentOn
<1>4. Top.src \in Paths \ {<<>>} /\ Top.dir \in Paths
  BY <1>2, <1>3 DEF Frames, Source
<1>5. target \in Paths
  BY <1>4, ParentIs, JoinIs
<1>6. Tree(fs) /\ StateLies(fs, alive) /\ IsFiniteSet(some) /\ some \subseteq Paths
  <2>1. some \subseteq DOMAIN fs
    BY DEF Kids
  <2> QED
    BY <2>1, FS_Subset DEF IInv, Tree
<1>7. PICK scene \in Scenes : panels = scene.panels
  BY DEF IInv
<1>8. ~refused_at_once(Top.src)
  BY DEF Refused
<1>9. \A c \in some : Source(c, panels, Stands(alive))
  BY <1>3, <1>6, <1>7, <1>8, ChildIsSource
<1>10. sorted \in Seq(some) /\ \A i \in DOMAIN sorted : sorted[i] \in some
  BY <1>6, OrderIs DEF Sorted
<1>11. sorted \in Seq(Paths)
  <2>1. Len(sorted) \in Nat /\ DOMAIN sorted = 1..Len(sorted) /\ sorted = [i \in 1..Len(sorted) |-> sorted[i]]
    BY <1>10, LenProperties
  <2>2. \A i \in 1..Len(sorted) : sorted[i] \in Paths
    BY <1>6, <1>10, <2>1
  <2>3. [i \in 1..Len(sorted) |-> sorted[i]] \in Seq(Paths)
    BY <2>1, <2>2, IsASeq
  <2> QED
    BY <2>1, <2>3
<1> HIDE DEF target
<1>12. \A i \in DOMAIN sorted : Source(sorted[i], panels, Stands(alive))
  BY <1>9, <1>10
<1>13. /\ WorkOK(work', panels, Stands(alive)) /\ work'.moved = work.moved
       /\ Head(work'.stack).do \in {"item", "remove"}
  BY <1>1, <1>2, <1>5, <1>11, <1>12, PushMerge
<1>14. AnswerStands'
  BY <1>13 DEF AnswerStands, Top
<1>15. Tree(fs)' /\ Range(fs') \cap Files = alive /\ StateLies(fs', alive)
  BY DEF IInv
<1> QED
  BY <1>2, <1>13, <1>14, <1>15, WorkerKeeps

LEMMA LookAtDirKeeps ==
    ASSUME IInv, At("item"), WorkerOnly, UNCHANGED fs, ~Refused, LookAtDir
    PROVE  IInv' /\ WorkOK(work', panels, Stands(alive)) /\ work'.moved = work.moved
<1> DEFINE target == Join(Top.dir, Name(Top.src))
           Merge(children, failures) == \E sorted \in Sorted(children) :
              Go(Append(Items(sorted, target), Removal(Top.src, work.failed)), failures)
<1>1. /\ work # None /\ work.stack # <<>> /\ Top.do = "item" /\ left \in [Kinds -> Nat]
      /\ WorkOK(work, panels, Stands(alive))
  BY DEF IInv, At, Top
<1>2. Top \in Frames /\ Source(Top.src, panels, Stands(alive))
  BY <1>1, WentOn
<1>3. Top.src \in Paths \ {<<>>} /\ Top.dir \in Paths
  BY <1>1, <1>2 DEF Frames, Source
<1>4. CASE Go(<<Whole(Top.src, target)>>, 0) /\ UNCHANGED left
  <2> DEFINE f == Whole(Top.src, target)
  <2>1. target \in Paths \ {<<>>}
    BY <1>3, ParentIs, JoinIs
  <2> HIDE DEF target
  <2>2. f \in Frames /\ f.src = Top.src /\ f.do = "whole"
    BY <1>3, <2>1 DEF Whole, Frames
  <2>3. Go(<<f>>, 0) /\ left' \in [Kinds -> Nat]
    BY <1>1, <1>4
  <2> HIDE DEF f
  <2>4. f.do # "compare" /\ f.do # "land"
    BY <2>2
  <2> QED
    BY <1>1, <2>2, <2>3, <2>4, PushKeeps
<1>5. CASE Merge(Kids(Top.src), 0) /\ UNCHANGED left
  <2>1. Kids(Top.src) \in SUBSET Kids(Top.src) /\ left' \in [Kinds -> Nat]
    BY <1>1, <1>5
  <2> QED
    BY <1>5, <2>1, MergeKeeps
<1>6. CASE May("fault") /\ Spend("fault") /\ \E some \in SUBSET Kids(Top.src) : Merge(some, 1)
  <2>1. PICK some \in SUBSET Kids(Top.src) : Merge(some, 1)
    BY <1>6
  <2>2. left' \in [Kinds -> Nat]
    BY <1>1, <1>6, Spent DEF Kinds
  <2> QED
    BY <2>1, <2>2, MergeKeeps
<1> QED
  BY <1>4, <1>5, <1>6 DEF LookAtDir

LEMMA LookKeeps ==
    ASSUME IInv, Look
    PROVE  IInv' /\ WorkOK(work', panels, Stands(alive)) /\ work'.moved = work.moved
<1>1. At("item") /\ UNCHANGED fs /\ WorkerOnly /\ work # None /\ work.stack # <<>> /\ left \in [Kinds -> Nat]
  BY DEF Look, At, IInv
<1>2. CASE Refused /\ Go(<<>>, 1) /\ UNCHANGED left
  BY <1>1, <1>2, DropKeeps
<1>3. CASE ~Refused /\ Fault
  BY <1>1, <1>3, FaultKeeps
<1>4. CASE ~Refused /\ IsFile(Top.src) /\ LookAtFile /\ UNCHANGED left
  BY <1>1, <1>4, LookAtFileKeeps
<1>5. CASE ~Refused /\ IsDir(Top.src) /\ LookAtDir
  BY <1>1, <1>5, LookAtDirKeeps
<1> QED
  BY <1>2, <1>3, <1>4, <1>5 DEF Look

LEMMA JudgeKeeps ==
    ASSUME IInv, At("compare"), WorkerOnly, UNCHANGED fs, left' \in [Kinds -> Nat], IsFile(Top.src),
           NEW unreadable \in SUBSET Top.candidates, Judge(unreadable)
    PROVE  IInv' /\ WorkOK(work', panels, Stands(alive)) /\ work'.moved = work.moved
<1> DEFINE unread == unreadable \cup {p \in Top.candidates : p \in DOMAIN fs /\ ~IsFile(p)}
           twins == {p \in Top.candidates \ unread : Twin(Top.src, p)}
           name == Join(Top.dir, Name(Top.src))
           other == dup_dest(Top.dir, Top.src)
<1>1. /\ work # None /\ work.stack # <<>> /\ Top.do = "compare"
      /\ WorkOK(work, panels, Stands(alive)) /\ IsFiniteSet(DOMAIN fs)
  BY DEF IInv, At, Top, Tree
<1>2. Top \in Frames /\ Source(Top.src, panels, Stands(alive))
  BY <1>1, WentOn
<1>3. Top.src \in Paths \ {<<>>} /\ Top.dir \in Paths
  BY <1>1, <1>2 DEF Frames, Source
<1>4. name \in Paths \ {<<>>} /\ Parent(name) = Top.dir
  BY <1>3, ParentIs, JoinIs
<1>5. other \in Paths \ {<<>>} /\ Parent(other) = Top.dir
  BY <1>1, <1>3, dup_destIs
<1>6. work.quiet => Top.candidates = same_size_files(Top.dir, Size[fs[Top.src]])
  BY <1>1 DEF IInv, AnswerStands
<1>7. CASE Undetermined(unread, twins)
  <2>1. Go(<<>>, 1)
    BY <1>7 DEF Judge
  <2> QED
    BY <1>1, <2>1, DropKeeps
<1>8. CASE ~Undetermined(unread, twins) /\ twins = {}
  <2> DEFINE f == Land(Top.src, name, FALSE)
  <2>1. Go(<<f>>, 0)
    BY <1>8 DEF Judge
  <2>2. unread = {}
    BY <1>8 DEF Undetermined
  <2>3. \A p \in Top.candidates : ~Twin(Top.src, p)
    BY <1>8, <2>2
  <2>4. work.quiet => ~\E p \in Kids(Top.dir) : fs[p] # Database /\ Twin(Top.src, p)
    BY <1>6, <2>3, TwinsAreCandidates
  <2> HIDE DEF name, unread, twins
  <2>5. f \in Frames /\ f.src = Top.src /\ f.do = "land" /\ f.dst = name /\ f.dup = FALSE
    BY <1>3, <1>4 DEF Land, Frames
  <2> HIDE DEF f
  <2>6. work.quiet => (f.dup <=> \E p \in Kids(Parent(f.dst)) : fs[p] # Database /\ Twin(f.src, p))
    BY <1>4, <2>4, <2>5
  <2>7. f.do # "compare" /\ Top.do # "item"
    BY <1>1, <2>5
  <2> QED
    BY <1>1, <2>1, <2>5, <2>6, <2>7, PushKeeps
<1>9. CASE ~Undetermined(unread, twins) /\ twins # {}
  <2> DEFINE f == Land(Top.src, other, TRUE)
  <2>1. Go(<<f>>, 0)
    BY <1>9 DEF Judge
  <2>2. work.quiet => \E p \in Kids(Top.dir) : fs[p] # Database /\ Twin(Top.src, p)
    <3>1. PICK p \in Top.candidates : Twin(Top.src, p)
      BY <1>9
    <3> QED
      BY <1>6, <3>1 DEF same_size_files
  <2> HIDE DEF other, unread, twins
  <2>3. f \in Frames /\ f.src = Top.src /\ f.do = "land" /\ f.dst = other /\ f.dup = TRUE
    BY <1>3, <1>5 DEF Land, Frames
  <2> HIDE DEF f
  <2>4. work.quiet => (f.dup <=> \E p \in Kids(Parent(f.dst)) : fs[p] # Database /\ Twin(f.src, p))
    BY <1>5, <2>2, <2>3
  <2>5. f.do # "compare" /\ Top.do # "item"
    BY <1>1, <2>3
  <2> QED
    BY <1>1, <2>1, <2>3, <2>4, <2>5, PushKeeps
<1> QED
  BY <1>7, <1>8, <1>9

LEMMA HashAndCompareKeeps ==
    ASSUME IInv, HashAndCompare
    PROVE  IInv' /\ WorkOK(work', panels, Stands(alive)) /\ work'.moved = work.moved
<1>1. At("compare") /\ UNCHANGED fs /\ WorkerOnly /\ work # None /\ work.stack # <<>> /\ left \in [Kinds -> Nat]
  BY DEF HashAndCompare, At, IInv
<1>2. CASE ~IsFile(Top.src) /\ Go(<<>>, 1) /\ UNCHANGED left
  BY <1>1, <1>2, DropKeeps
<1>3. CASE IsFile(Top.src) /\ Fault
  BY <1>1, <1>3, FaultKeeps
<1>4. CASE IsFile(Top.src) /\ Judge({}) /\ UNCHANGED left
  <2>1. {} \in SUBSET Top.candidates /\ left' \in [Kinds -> Nat]
    BY <1>1, <1>4
  <2> QED
    BY <1>1, <1>4, <2>1, JudgeKeeps
<1>5. CASE /\ IsFile(Top.src) /\ May("fault") /\ Spend("fault")
           /\ \E unreadable \in SUBSET Top.candidates \ {{}} : Judge(unreadable)
  <2>1. PICK unreadable \in SUBSET Top.candidates : Judge(unreadable)
    BY <1>5
  <2>2. left' \in [Kinds -> Nat]
    BY <1>1, <1>5, Spent DEF Kinds
  <2> QED
    BY <1>1, <1>5, <2>1, <2>2, JudgeKeeps
<1> QED
  BY <1>2, <1>3, <1>4, <1>5 DEF HashAndCompare

\* A rename of the worker's: what it reports is enough to put it back.
LEMMA MovedKeeps ==
    ASSUME IInv, work # None, work.stack # <<>>, WorkerOnly, UNCHANGED left,
           NEW dst \in Paths \ {<<>>}, NEW to, to = move_to(Top.src, dst) \/ to = move_dir_to(Top.src, dst), to # None,
           NEW dup \in BOOLEAN, Moved(to, dup)
    PROVE  IInv' /\ WorkOK(work', panels, Stands(alive)) /\ (work'.dups > work.dups <=> dup)
<1> DEFINE stack2 == Tail(work.stack)
           e == [from |-> Top.src, to |-> to]
           moved2 == Append(work.moved, e)
           dups2 == IF dup THEN work.dups + 1 ELSE work.dups
<1>1. WorkOK(work, panels, Stands(alive)) /\ Tree(fs) /\ Range(fs) \cap Files = alive /\ StateLies(fs, alive)
  BY DEF IInv
<1>2. /\ Source(Top.src, panels, Stands(alive)) /\ Top.src \in Paths \ {<<>>}
      /\ stack2 \in Seq(Frames) /\ (stack2 # <<>> => Head(stack2).do \in {"item", "remove"})
  BY <1>1, WentOn DEF Source
<1>3. /\ Top.src \in DOMAIN fs /\ to \in Paths \ {<<>>} /\ to \notin DOMAIN fs
      /\ Parent(to) \in DOMAIN fs /\ fs[Parent(to)] \in Directories /\ ~Above(Top.src, Parent(to))
      /\ ~refused_at_once(Top.src)
  BY <1>1, <1>2, TargetIs
<1>4. Stands(alive) => \A x \in DOMAIN StateFiles : ~Above(Top.src, x)
  BY <1>1, <1>2, <1>3, NotRefused
<1>5. /\ Tree(Renamed(Top.src, to)) /\ Range(Renamed(Top.src, to)) \cap Files = alive
      /\ StateLies(Renamed(Top.src, to), alive)
      /\ Stands(alive) => \A x \in DOMAIN StateFiles : ~Above(to, x)
  BY <1>1, <1>2, <1>3, <1>4, RenameKeeps
<1>6. fs' = Renamed(Top.src, to)
  BY DEF Moved
<1>7. e \in MovedItems /\ e.from = Top.src /\ e.to = to
  BY <1>2, <1>3 DEF MovedItems
<1>8. /\ work \in [sources : {work.sources}, stack : {work.stack}, moved : {work.moved}, failed : Nat, dups : Nat,
                   quiet : BOOLEAN, was : {work.was}, began : {work.began}]
      /\ StackOK(work.stack, panels, Stands(alive))
      /\ Moves(work.moved, Stands(alive)) /\ work.dups <= Len(work.moved) /\ Len(work.moved) \in Nat
  BY <1>1, LenProperties DEF WorkOK, Moves
<1>9. Moves(moved2, Stands(alive)) /\ Len(moved2) = Len(work.moved) + 1
  <2> HIDE DEF e
  <2> QED
    BY <1>5, <1>7, <1>8, MovesAppended
<1>10. dups2 \in Nat /\ dups2 <= Len(moved2) /\ (dups2 > work.dups <=> dup)
  BY <1>8, <1>9
<1>11. StackOK(stack2, panels, Stands(alive))
  <2> DEFINE none == <<>>
  <2>1. none \in Seq(Frames) /\ DOMAIN none = {} /\ none \o stack2 = stack2
    <3> HIDE DEF stack2
    <3> QED
      BY <1>2, EmptySeq, ConcatEmptySeq
  <2>2. \A i \in DOMAIN none : /\ Source(none[i].src, panels, Stands(alive))
                               /\ i > 1 => none[i].do \in {"item", "remove"}
    BY <2>1
  <2> HIDE DEF none
  <2>3. StackOK(none \o Tail(work.stack), panels, Stands(alive))
    BY <1>8, <2>1, <2>2, Pushed
  <2> QED
    BY <2>1, <2>3
<1>12. work' = [work EXCEPT !.stack = stack2, !.moved = moved2, !.dups = dups2]
  BY DEF Moved
<1> HIDE DEF stack2, moved2, dups2, e
<1>13. /\ work'.stack = stack2 /\ work'.moved = moved2 /\ work'.dups = dups2
       /\ work' \in [sources : {work'.sources}, stack : {work'.stack}, moved : {work'.moved}, failed : Nat, dups : Nat,
                     quiet : BOOLEAN, was : {work'.was}, began : {work'.began}]
  BY <1>8, <1>10, <1>12
<1>14. WorkOK(work', panels, Stands(alive))
  BY <1>9, <1>10, <1>11, <1>13 DEF WorkOK
<1>15. AnswerStands'
  BY <1>2, <1>13 DEF AnswerStands, Top
<1>16. Tree(fs)' /\ Range(fs') \cap Files = alive /\ StateLies(fs', alive) /\ left' \in [Kinds -> Nat]
  BY <1>5, <1>6 DEF IInv, Tree
<1>17. IInv'
  BY <1>14, <1>15, <1>16, WorkerKeeps
<1> QED
  BY <1>10, <1>13, <1>14, <1>17

LEMMA LandFileKeeps ==
    ASSUME IInv, LandFile
    PROVE  /\ IInv' /\ WorkOK(work', panels, Stands(alive))
           /\ work'.moved # work.moved => (work'.dups > work.dups <=> Top.dup)
<1> DEFINE to == move_to(Top.src, Top.dst)
<1>1. /\ WorkerOnly /\ work # None /\ work.stack # <<>> /\ left \in [Kinds -> Nat] /\ Top.do = "land"
      /\ WorkOK(work, panels, Stands(alive))
  BY DEF LandFile, At, IInv, Top
<1>2. Top.dst \in Paths \ {<<>>} /\ Top.dup \in BOOLEAN
  <2>1. Top \in Frames
    BY <1>1, WentOn
  <2> QED
    BY <1>1, <2>1 DEF Frames
<1>3. CASE to # None /\ Moved(to, Top.dup) /\ UNCHANGED left
  <2> DEFINE t == to
             dup == Top.dup
  <2>1. t = move_to(Top.src, Top.dst) /\ t # None /\ Moved(t, dup) /\ dup \in BOOLEAN
    BY <1>2, <1>3
  <2> HIDE DEF t, dup
  <2>2. IInv' /\ WorkOK(work', panels, Stands(alive)) /\ (work'.dups > work.dups <=> dup)
    BY <1>1, <1>2, <1>3, <2>1, MovedKeeps
  <2> QED
    BY <2>2 DEF dup
<1>4. CASE Fault
  BY <1>1, <1>4, FaultKeeps
<1>5. CASE Go(<<>>, 1) /\ UNCHANGED <<fs, left>>
  BY <1>1, <1>5, DropKeeps
<1> QED
  BY <1>3, <1>4, <1>5 DEF LandFile

LEMMA MoveWholeKeeps ==
    ASSUME IInv, MoveWhole
    PROVE  IInv' /\ WorkOK(work', panels, Stands(alive))
<1> DEFINE to == move_dir_to(Top.src, Top.dst)
<1>1. /\ WorkerOnly /\ work # None /\ work.stack # <<>> /\ left \in [Kinds -> Nat] /\ Top.do = "whole"
      /\ WorkOK(work, panels, Stands(alive))
  BY DEF MoveWhole, At, IInv, Top
<1>2. Top.dst \in Paths \ {<<>>}
  <2>1. Top \in Frames
    BY <1>1, WentOn
  <2> QED
    BY <1>1, <2>1 DEF Frames
<1>3. CASE to # None /\ Moved(to, FALSE) /\ UNCHANGED left
  <2> DEFINE t == to
  <2>1. t = move_dir_to(Top.src, Top.dst) /\ t # None /\ Moved(t, FALSE)
    BY <1>3
  <2> HIDE DEF t
  <2> QED
    BY <1>1, <1>2, <1>3, <2>1, MovedKeeps
<1>4. CASE Fault
  BY <1>1, <1>4, FaultKeeps
<1>5. CASE Go(<<>>, 1) /\ UNCHANGED <<fs, left>>
  BY <1>1, <1>5, DropKeeps
<1> QED
  BY <1>3, <1>4, <1>5 DEF MoveWhole

LEMMA RemoveMergedKeeps ==
    ASSUME IInv, RemoveMerged
    PROVE  IInv' /\ WorkOK(work', panels, Stands(alive)) /\ work'.moved = work.moved
<1>1. /\ WorkerOnly /\ work # None /\ work.stack # <<>> /\ left \in [Kinds -> Nat]
      /\ WorkOK(work, panels, Stands(alive)) /\ RemovalFailure \in Nat
  BY DEF RemoveMerged, At, IInv, RemovalFailure
<1>2. CASE /\ IsDir(Top.src) /\ Kids(Top.src) = {} /\ ~IsMount(Top.src)
           /\ fs' = [p \in DOMAIN fs \ {Top.src} |-> fs[p]]
           /\ Go(<<>>, 0) /\ UNCHANGED left
  <2>1. Top.src \in Paths \ {<<>>}
    BY <1>1, WentOn DEF Source
  <2>2. Tree(fs') /\ Range(fs') \cap Files = alive /\ StateLies(fs', alive)
    <3>1. Tree(fs) /\ Range(fs) \cap Files = alive /\ StateLies(fs, alive)
      BY DEF IInv
    <3> DEFINE tree == [p \in DOMAIN fs \ {Top.src} |-> fs[p]]
    <3>2. Tree(tree) /\ Range(tree) \cap Files = alive /\ StateLies(tree, alive)
      BY <1>2, <2>1, <3>1, RemovalKeeps
    <3> HIDE DEF tree
    <3>3. fs' = tree
      BY <1>2 DEF tree
    <3> QED
      BY <3>2, <3>3
  <2>3. /\ WorkOK(work', panels, Stands(alive)) /\ work'.moved = work.moved
        /\ work'.stack # <<>> => Head(work'.stack).do \in {"item", "remove"}
    BY <1>1, <1>2, PushNone
  <2>4. AnswerStands'
    BY <2>3 DEF AnswerStands, Top
  <2>5. Tree(fs)'
    BY <2>2 DEF Tree
  <2> QED
    BY <1>1, <1>2, <2>2, <2>3, <2>4, <2>5, WorkerKeeps
<1>3. CASE Go(<<>>, RemovalFailure) /\ UNCHANGED <<fs, left>>
  BY <1>1, <1>3, DropKeeps
<1>4. CASE May("fault") /\ Spend("fault") /\ Go(<<>>, RemovalFailure) /\ UNCHANGED fs
  <2>1. left' \in [Kinds -> Nat]
    BY <1>1, <1>4, Spent DEF Kinds
  <2> QED
    BY <1>1, <1>4, <2>1, DropKeeps
<1> QED
  BY <1>2, <1>3, <1>4 DEF RemoveMerged

\* A request is taken as it was made.
LEMMA TakeKeeps ==
    ASSUME IInv, Take
    PROVE  IInv' /\ WorkOK(work', panels, Stands(alive))
<1> DEFINE request == Head(queue)
           rest == Tail(queue)
           items == Items(request.sources, request.dir)
<1>1. /\ work = None /\ queue # <<>> /\ queue' = rest
      /\ UNCHANGED <<fs, panels, done, pending, log, undo, snapped, left, alive, calm>>
  BY DEF Take
<1>2. /\ queue \in Seq(Range(queue)) /\ \A i \in DOMAIN queue : RequestOK(queue[i], panels, Stands(alive))
  BY DEF IInv, ReportsOK, Listed
<1>3. /\ rest \in Seq(Range(queue)) /\ Len(rest) = Len(queue) - 1 /\ Len(queue) \in Nat \ {0}
      /\ request = queue[1] /\ 1 \in DOMAIN queue
      /\ \A i \in DOMAIN rest : i \in Nat \ {0} /\ i + 1 \in DOMAIN queue /\ rest[i] = queue[i + 1]
  BY <1>1, <1>2, TailIs
<1>4. RequestOK(request, panels, Stands(alive))
  BY <1>2, <1>3
<1>5. /\ items \in Seq(Frames) /\ DOMAIN items = DOMAIN request.sources
      /\ \A i \in DOMAIN items : items[i].src = request.sources[i] /\ items[i].do = "item"
  BY <1>4, ItemsAre DEF RequestOK
<1>6. \A i \in DOMAIN items : items[i].do = "item" /\ Source(items[i].src, panels, Stands(alive))
  BY <1>4, <1>5 DEF RequestOK
<1>7. /\ work'.stack = items /\ work'.moved = <<>> /\ work'.dups = 0
      /\ work' \in [sources : {work'.sources}, stack : {work'.stack}, moved : {work'.moved}, failed : Nat, dups : Nat,
                    quiet : BOOLEAN, was : {work'.was}, began : {work'.began}]
  <2> DEFINE ids == UNION {IdsBelow(s) : s \in Range(request.sources)}
             was == [i \in ids |-> CHOOSE p \in DOMAIN fs : fs[p] = i]
             sources == request.sources
  <2>1. work' = [sources |-> sources, stack |-> items, moved |-> <<>>, failed |-> 0, dups |-> 0, quiet |-> TRUE,
                 was |-> was, began |-> was]
    BY DEF Take
  <2> HIDE DEF was, items, sources
  <2> QED
    BY <2>1
<1> HIDE DEF items, request, rest
<1>8. WorkOK(work', panels, Stands(alive))
  <2>1. Moves(<<>>, Stands(alive))
    BY EmptySeq DEF Moves
  <2>2. Len(<<>>) = 0
    BY EmptySeq
  <2>3. StackOK(items, panels, Stands(alive))
    BY <1>5, <1>6 DEF StackOK
  <2> QED
    BY <1>7, <2>1, <2>2, <2>3 DEF WorkOK
<1>9. AnswerStands'
  <2> SUFFICES ASSUME work'.stack # <<>> PROVE Head(work'.stack).do = "item"
    BY DEF AnswerStands, Top
  <2> QED
    BY <1>5, <1>6, <1>7, TailIs
<1>10. ReportsOK'
  <2>1. Listed(rest) /\ \A i \in DOMAIN rest : RequestOK(rest[i], panels, Stands(alive))
    BY <1>2, <1>3, PartIsListed
  <2> QED
    BY <1>1, <2>1 DEF IInv, ReportsOK
<1>11. PendingOK'
  <2>1. pending \in Nat /\ pending >= Len(queue) + Len(done) /\ Len(done) \in Nat
    BY <1>1, <1>3, ListedIs DEF IInv, ReportsOK, PendingOK
  <2>2. pending' \in Nat /\ pending' >= Len(queue') + Len(done') + 1 /\ Len(queue') \in Nat /\ Len(done') \in Nat
    BY <1>1, <1>3, <2>1
  <2> QED
    BY <2>2 DEF PendingOK
<1> QED
  BY <1>1, <1>8, <1>9, <1>10, <1>11 DEF IInv

\* The end of a batch, also one that panicked: what it reports as moved was moved.
LEMMA ReportedKeeps ==
    ASSUME IInv, work # None, NEW r, Moves(r.moved, Stands(alive)), done' = Append(done, r), work' = None,
           calm' \in BOOLEAN, left' \in [Kinds -> Nat], UNCHANGED <<fs, panels, queue, pending, log, undo, snapped, alive>>
    PROVE  IInv'
<1>1. Listed(done) /\ (\A i \in DOMAIN done : Moves(done[i].moved, Stands(alive))) /\ Listed(queue)
  BY DEF IInv, ReportsOK
<1>2. /\ Listed(done') /\ Len(done') = Len(done) + 1
      /\ \A i \in DOMAIN done' : done'[i] = r \/ (i \in DOMAIN done /\ done'[i] = done[i])
  BY <1>1, AppendedIs
<1>3. \A i \in DOMAIN done' : Moves(done'[i].moved, Stands(alive))
  BY <1>1, <1>2
<1>4. ReportsOK'
  BY <1>2, <1>3 DEF IInv, ReportsOK
<1>5. PendingOK'
  <2>1. pending \in Nat /\ pending >= Len(queue) + Len(done) + 1 /\ Len(done) \in Nat /\ Len(queue) \in Nat
    BY <1>1, ListedIs DEF IInv, PendingOK
  <2>2. pending' \in Nat /\ pending' >= Len(queue') + Len(done') + 0
    BY <1>2, <2>1
  <2> QED
    BY <2>2 DEF PendingOK
<1>6. AnswerStands'
  BY DEF AnswerStands
<1> QED
  BY <1>4, <1>5, <1>6 DEF IInv

LEMMA FinishKeeps ==
    ASSUME IInv, Finish
    PROVE  IInv'
<1> DEFINE r == Report(work.moved, work.failed, work.was, {i \in DOMAIN work.began : Lies(i, work.began[i])})
<1>1. work # None /\ done' = Append(done, r) /\ work' = None
      /\ UNCHANGED <<fs, panels, queue, pending, log, undo, snapped, left, alive, calm>>
  BY DEF Finish
<1>2. r.moved = work.moved
  BY DEF Report
<1>3. Moves(work.moved, Stands(alive))
  BY <1>1 DEF IInv, WorkOK
<1> HIDE DEF r
<1>4. Moves(r.moved, Stands(alive)) /\ calm' \in BOOLEAN /\ left' \in [Kinds -> Nat]
  BY <1>1, <1>2, <1>3 DEF IInv
<1> QED
  BY <1>1, <1>4, ReportedKeeps

LEMMA PanicKeeps ==
    ASSUME IInv, Panic
    PROVE  IInv'
<1> DEFINE r == Report(<<>>, Len(work.sources), <<>>, {})
<1>1. /\ work # None /\ May("panic") /\ Spend("panic") /\ done' = done \o <<r>> /\ work' = None /\ calm' = FALSE
      /\ UNCHANGED <<fs, panels, queue, pending, log, undo, snapped, alive>>
  BY DEF Panic, PanicReported
<1>2. Moves(r.moved, Stands(alive))
  BY EmptySeq DEF Report, Moves
<1>3. done' = Append(done, r)
  <2> HIDE DEF r
  <2>1. done \in Seq(Range(done) \cup {r}) /\ r \in Range(done) \cup {r}
    <3>1. done \in Seq(Range(done))
      BY DEF IInv, ReportsOK, Listed
    <3>2. Len(done) \in Nat /\ done = [i \in 1..Len(done) |-> done[i]]
          /\ \A i \in 1..Len(done) : done[i] \in Range(done) \cup {r}
      BY <3>1, LenProperties, ElementOfSeq
    <3>3. [i \in 1..Len(done) |-> done[i]] \in Seq(Range(done) \cup {r})
      BY <3>2, IsASeq
    <3> QED
      BY <3>2, <3>3
  <2>2. Append(done, r) = done \o <<r>>
    BY <2>1, AppendIsConcat
  <2> QED
    BY <1>1, <2>2
<1>4. left' \in [Kinds -> Nat] /\ calm' \in BOOLEAN
  BY <1>1, Spent DEF IInv, Kinds
<1> HIDE DEF r
<1> QED
  BY <1>1, <1>2, <1>3, <1>4, ReportedKeeps

-----------------------------------------------------------------------------
(* The interface's steps                                                   *)

LEMMA AnswerKept ==
    ASSUME AnswerStands, UNCHANGED <<fs, work>>
    PROVE  AnswerStands'
  BY DEF AnswerStands, Top, IsFile, same_size_files, Kids, Twin

LEMMA SendKeeps ==
    ASSUME IInv, Send
    PROVE  IInv'
<1>1. /\ undo = None /\ May("send") /\ UNCHANGED <<fs, panels, work, done, log, undo, alive, calm>>
      /\ left \in [Kinds -> Nat] /\ left["send"] \in Nat /\ left["send"] > 0
  BY DEF Send, May, IInv, Kinds
<1> DEFINE Sent(sources, to) ==
              \/ snapped' = snapped \cup Targets(sources) /\ spawn_move(sources, to) /\ Spend("send")
              \/ /\ May("fault") /\ left' = [left EXCEPT !.send = @ - 1, !.fault = @ - 1]
                 /\ OnSnapshotFailure(sources, to)
<1>0. \E from, to \in Range(panels) : \E sources \in Batches(from) : Sent(sources, to)
  <2>1. PICK i \in DOMAIN panels, k \in DOMAIN panels : \E sources \in Batches(panels[i]) : Sent(sources, panels[k])
    BY DEF Send
  <2>2. panels[i] \in Range(panels) /\ panels[k] \in Range(panels)
    BY DEF Range
  <2> HIDE DEF Sent
  <2> QED
    BY <2>1, <2>2
<1>10. PICK from \in Range(panels), to \in Range(panels) : \E sources \in Batches(from) : Sent(sources, to)
  BY <1>0
<1>2. PICK sources \in Batches(from) : Sent(sources, to)
  BY <1>10
<1>3. PICK scene \in Scenes : panels = scene.panels
  BY DEF IInv
<1>4. left' \in [Kinds -> Nat]
  <2>1. CASE snapped' = snapped \cup Targets(sources) /\ Spend("send")
    BY <1>1, <2>1, Spent DEF Kinds
  <2>2. CASE /\ May("fault") /\ left' = [left EXCEPT !.send = @ - 1, !.fault = @ - 1]
             /\ OnSnapshotFailure(sources, to)
    <3>1. left["fault"] \in Nat /\ left["fault"] > 0
      BY <1>1, <2>2 DEF May, Kinds
    <3>2. left["fault"] - 1 \in Nat /\ left["send"] - 1 \in Nat
      BY <1>1, <3>1
    <3>3. left' \in [Kinds -> Nat]
      BY <1>1, <2>2, <3>2 DEF Kinds
    <3> QED
      BY <3>3
  <2> QED
    BY <1>2, <2>1, <2>2
<1> DEFINE r == [sources |-> sources, dir |-> to]
<1>5. \A i \in DOMAIN queue : RequestOK(queue[i], panels, Stands(alive))
  BY DEF IInv, ReportsOK
<1>6. Len(queue) \in Nat /\ Len(done) \in Nat /\ Listed(queue)
      /\ pending \in Nat /\ pending >= Len(queue) + Len(done) + (IF work = None THEN 0 ELSE 1)
  BY ListedIs DEF IInv, ReportsOK, PendingOK
<1>7. /\ Listed(queue') /\ \A i \in DOMAIN queue' : RequestOK(queue'[i], panels, Stands(alive))
      /\ PendingOK'
  <2>1. CASE UNCHANGED <<queue, pending>>
    <3>1. PendingOK'
      BY <1>1, <1>6, <2>1 DEF PendingOK
    <3> QED
      BY <1>5, <1>6, <2>1, <3>1
  <2>2. CASE queue' = Append(queue, r) /\ pending' = pending + 1
    <3>1. PICK some \in SUBSET Kids(from) : sources \in SetToSeqs(some)
      BY DEF Batches
    <3>2. Tree(fs) /\ from \in Paths /\ to \in Paths /\ IsFiniteSet(some) /\ some \subseteq Paths
      <4>1. Tree(fs) /\ some \subseteq DOMAIN fs
        BY <3>1 DEF IInv, Kids
      <4> QED
        BY <1>3, <4>1, FS_Subset, ShownAre DEF Tree
    <3>3. sources \in Seq(some) /\ \A i \in DOMAIN sources : sources[i] \in some
      BY <3>1, <3>2, OrderIs
    <3>4. sources \in Seq(Paths)
      <4>1. Len(sources) \in Nat /\ DOMAIN sources = 1..Len(sources)
            /\ sources = [i \in 1..Len(sources) |-> sources[i]]
        BY <3>3, LenProperties
      <4>2. \A i \in 1..Len(sources) : sources[i] \in Paths
        BY <3>2, <3>3, <4>1
      <4>3. [i \in 1..Len(sources) |-> sources[i]] \in Seq(Paths)
        BY <4>1, <4>2, IsASeq
      <4> QED
        BY <4>1, <4>3
    <3>6. \A i \in DOMAIN sources : Source(sources[i], panels, Stands(alive))
      <4> SUFFICES ASSUME NEW i \in DOMAIN sources PROVE Source(sources[i], panels, Stands(alive))
        OBVIOUS
      <4> DEFINE c == sources[i]
                 stands == Stands(alive)
      <4>1. c \in Kids(from) /\ from \in Range(scene.panels)
        BY <1>3, <3>3
      <4> HIDE DEF c, stands
      <4>2. Source(c, scene.panels, stands)
        BY <3>2, <4>1, ShownIsSource
      <4> QED
        BY <1>3, <4>2 DEF c, stands
    <3>7. RequestOK(r, panels, Stands(alive))
      BY <3>2, <3>4, <3>6 DEF RequestOK
    <3> HIDE DEF r
    <3>8. /\ Listed(queue') /\ Len(queue') = Len(queue) + 1
          /\ \A i \in DOMAIN queue' : queue'[i] = r \/ (i \in DOMAIN queue /\ queue'[i] = queue[i])
      BY <1>6, <2>2, AppendedIs
    <3>9. \A i \in DOMAIN queue' : RequestOK(queue'[i], panels, Stands(alive))
      BY <1>5, <3>7, <3>8
    <3>10. pending' \in Nat /\ pending' >= Len(queue') + Len(done') + (IF work' = None THEN 0 ELSE 1)
      BY <1>1, <1>6, <2>2, <3>8
    <3> QED
      BY <3>8, <3>9, <3>10 DEF PendingOK
  <2> QED
    BY <1>2, <2>1, <2>2 DEF OnSnapshotFailure, spawn_move
<1>8. /\ Listed(done) /\ \A i \in DOMAIN done : Moves(done[i].moved, Stands(alive))
      /\ Listed(log) /\ \A i \in DOMAIN log : Moves(log[i].items, Stands(alive))
      /\ work # None => WorkOK(work, panels, Stands(alive))
  BY DEF IInv, ReportsOK
<1>9. ReportsOK'
  BY <1>1, <1>7, <1>8 DEF ReportsOK
<1>11. AnswerStands'
  BY <1>1, AnswerKept DEF IInv
<1> QED
  BY <1>1, <1>3, <1>4, <1>7, <1>8, <1>9, <1>11 DEF IInv

LEMMA apply_move_outcomeKeeps ==
    ASSUME IInv, apply_move_outcome
    PROVE  IInv'
<1> DEFINE r == Head(done)
           rest == Tail(done)
           e == [items |-> r.moved, was |-> r.was]
<1>1. /\ done # <<>> /\ pending' = pending - 1 /\ done' = rest
      /\ log' = log \/ log' = Append(log, e)
      /\ UNCHANGED <<fs, panels, queue, work, undo, snapped, left, alive, calm>>
  BY DEF apply_move_outcome
<1>2. /\ done \in Seq(Range(done)) /\ \A i \in DOMAIN done : Moves(done[i].moved, Stands(alive))
      /\ Listed(log) /\ \A i \in DOMAIN log : Moves(log[i].items, Stands(alive))
  BY DEF IInv, ReportsOK, Listed
<1>3. /\ rest \in Seq(Range(done)) /\ Len(rest) = Len(done) - 1 /\ Len(done) \in Nat \ {0}
      /\ r = done[1] /\ 1 \in DOMAIN done
      /\ \A i \in DOMAIN rest : i \in Nat \ {0} /\ i + 1 \in DOMAIN done /\ rest[i] = done[i + 1]
  BY <1>1, <1>2, TailIs
<1>4. Moves(e.items, Stands(alive))
  BY <1>2, <1>3
<1> HIDE DEF r, rest, e
<1>5. Listed(rest) /\ \A i \in DOMAIN rest : Moves(rest[i].moved, Stands(alive))
  BY <1>2, <1>3, PartIsListed
<1>6. Listed(log') /\ \A i \in DOMAIN log' : Moves(log'[i].items, Stands(alive))
  <2>1. CASE log' = log
    BY <1>2, <2>1
  <2>2. CASE log' = Append(log, e)
    <3>1. /\ Listed(log')
          /\ \A i \in DOMAIN log' : log'[i] = e \/ (i \in DOMAIN log /\ log'[i] = log[i])
      BY <1>2, <2>2, AppendedIs
    <3> QED
      BY <1>2, <1>4, <3>1
  <2> QED
    BY <1>1, <2>1, <2>2
<1>7. ReportsOK'
  BY <1>1, <1>5, <1>6 DEF IInv, ReportsOK
<1>8. PendingOK'
  <2>1. pending \in Nat /\ pending >= Len(queue) + Len(done) + (IF work = None THEN 0 ELSE 1) /\ Len(queue) \in Nat
    BY ListedIs DEF IInv, ReportsOK, PendingOK
  <2>2. pending' \in Nat /\ pending' >= Len(queue') + Len(done') + (IF work' = None THEN 0 ELSE 1)
    BY <1>1, <1>3, <2>1
  <2> QED
    BY <2>2 DEF PendingOK
<1>9. AnswerStands'
  BY <1>1, AnswerKept DEF IInv
<1> QED
  BY <1>1, <1>7, <1>8, <1>9 DEF IInv

LEMMA undo_last_moveKeeps ==
    ASSUME IInv, undo_last_move
    PROVE  IInv'
<1> DEFINE l == Last(log)
           f == Front(log)
           todo == UndoOrder(l.items)
<1>1. /\ undo = None /\ log # <<>> /\ May("undo") /\ Spend("undo")
      /\ undo' = [todo |-> todo, made |-> FALSE, failed |-> 0, was |-> l.was]
      /\ log' = f /\ calm' \in BOOLEAN
      /\ UNCHANGED <<fs, panels, queue, work, done, pending, snapped, alive>>
  BY DEF undo_last_move
<1>2. log \in Seq(Range(log)) /\ \A i \in DOMAIN log : Moves(log[i].items, Stands(alive))
  BY DEF IInv, ReportsOK, Listed
<1>3. /\ f \in Seq(Range(log)) /\ l = log[Len(log)] /\ Len(log) \in DOMAIN log
      /\ \A i \in DOMAIN f : i \in DOMAIN log /\ f[i] = log[i]
  BY <1>1, <1>2, FrontIs
<1>4. Moves(l.items, Stands(alive))
  BY <1>2, <1>3
<1> HIDE DEF f, l
<1>5. Moves(todo, Stands(alive))
  BY <1>4, MovesReversed DEF UndoOrder
<1> HIDE DEF todo
<1>6. UndoOK(undo', Stands(alive))
  BY <1>1, <1>5 DEF UndoOK
<1>7. Listed(f) /\ \A i \in DOMAIN f : Moves(f[i].items, Stands(alive))
  BY <1>2, <1>3, PartIsListed
<1>8. ReportsOK'
  BY <1>1, <1>6, <1>7 DEF IInv, ReportsOK
<1>9. left' \in [Kinds -> Nat]
  BY <1>1, Spent DEF IInv, Kinds
<1>10. AnswerStands'
  BY <1>1, AnswerKept DEF IInv
<1>11. PendingOK'
  BY <1>1 DEF IInv, PendingOK
<1> QED
  BY <1>1, <1>8, <1>9, <1>10, <1>11 DEF IInv

\* Somebody else than the worker changes the file system: the worker's answers are no longer quiet.
LEMMA OthersKeep ==
    ASSUME IInv, NEW gone, NEW new, Disturb(gone, new),
           Tree(fs)', Range(fs') \cap Files = alive', StateLies(fs', alive'), Stands(alive') <=> Stands(alive),
           left' \in [Kinds -> Nat], calm' \in BOOLEAN, UNCHANGED <<panels, queue, done, pending, log, snapped>>,
           undo' # None => UndoOK(undo', Stands(alive))
    PROVE  IInv' /\ (work' # None => work'.moved = work.moved)
<1>1. work # None => WorkOK(work, panels, Stands(alive))
  BY DEF IInv
<1>2. /\ work' # None => work # None /\ WorkOK(work', panels, Stands(alive)) /\ ~work'.quiet
                         /\ work'.moved = work.moved
      /\ work = None => work' = None
  BY <1>1, Disturbed
<1>3. AnswerStands'
  BY <1>2 DEF AnswerStands
<1>4. PendingOK'
  <2>1. pending \in Nat /\ pending >= Len(queue) + Len(done) + (IF work = None THEN 0 ELSE 1)
        /\ Len(queue) \in Nat /\ Len(done) \in Nat
    BY ListedIs DEF IInv, ReportsOK, PendingOK
  <2>2. pending' \in Nat /\ pending' >= Len(queue') + Len(done') + (IF work' = None THEN 0 ELSE 1)
    BY <1>2, <2>1
  <2> QED
    BY <2>2 DEF PendingOK
<1> DEFINE st == Stands(alive)
           st2 == Stands(alive')
<1>5. st2 = st
  BY DEF Stands
<1>6. ReportsOK'
  <2>1. /\ Listed(queue) /\ \A i \in DOMAIN queue : RequestOK(queue[i], panels, st)
        /\ Listed(done) /\ \A i \in DOMAIN done : Moves(done[i].moved, st)
        /\ Listed(log) /\ \A i \in DOMAIN log : Moves(log[i].items, st)
        /\ undo' # None => UndoOK(undo', st)
    BY DEF IInv, ReportsOK
  <2>2. ReportsOK' <=>
        /\ Listed(queue') /\ \A i \in DOMAIN queue' : RequestOK(queue'[i], panels', st2)
        /\ Listed(done') /\ \A i \in DOMAIN done' : Moves(done'[i].moved, st2)
        /\ Listed(log') /\ \A i \in DOMAIN log' : Moves(log'[i].items, st2)
        /\ undo' # None => UndoOK(undo', st2)
    BY DEF ReportsOK
  <2> HIDE DEF st, st2
  <2> QED
    BY <1>5, <2>1, <2>2
<1>7. (work # None => WorkOK(work, panels, Stands(alive)))'
  <2>1. work' # None => WorkOK(work', panels, st)
    BY <1>2
  <2> HIDE DEF st, st2
  <2>2. work' # None => WorkOK(work', panels', st2)
    BY <1>5, <2>1
  <2> QED
    BY <2>2 DEF st2
<1> QED
  BY <1>2, <1>3, <1>4, <1>6, <1>7 DEF IInv

LEMMA UndoIs ==
    ASSUME IInv, undo # None, undo.todo # <<>>
    PROVE  /\ UndoOK(undo, Stands(alive)) /\ Moves(Tail(undo.todo), Stands(alive))
           /\ Back.from \in Paths \ {<<>>} /\ Back.to \in Paths \ {<<>>}
           /\ Stands(alive) => \A x \in DOMAIN StateFiles : ~Above(Back.to, x)
           /\ Tree(fs) /\ Range(fs) \cap Files = alive /\ StateLies(fs, alive)
<1>1. UndoOK(undo, Stands(alive)) /\ Moves(undo.todo, Stands(alive))
  BY DEF IInv, ReportsOK, UndoOK
<1> DEFINE st == Stands(alive)
<1>2. Moves(undo.todo, st)
  BY <1>1
<1> HIDE DEF st
<1>3. /\ Moves(Tail(undo.todo), st) /\ Head(undo.todo) \in MovedItems
      /\ st => \A x \in DOMAIN StateFiles : ~Above(Head(undo.todo).to, x)
  BY <1>2, MovesTail
<1> QED
  BY <1>1, <1>3 DEF st, Back, MovedItems, IInv

LEMMA MakeParentKeeps ==
    ASSUME IInv, MakeParent
    PROVE  IInv' /\ (work' # None => work'.moved = work.moved)
<1>1. /\ undo # None /\ undo.todo # <<>> /\ fs' = WithDirs(Parent(Back.from)) /\ undo' = [undo EXCEPT !.made = TRUE]
      /\ Disturb({}, <<>>) /\ UNCHANGED <<panels, queue, done, pending, log, snapped, left, alive, calm>>
  BY DEF MakeParent
<1>2. /\ UndoOK(undo, Stands(alive)) /\ Back.from \in Paths \ {<<>>}
      /\ Tree(fs) /\ Range(fs) \cap Files = alive /\ StateLies(fs, alive)
  BY <1>1, UndoIs
<1>3. Parent(Back.from) \in Paths
  BY <1>2, ParentIs
<1>4. Tree(fs') /\ Range(fs') \cap Files = alive' /\ StateLies(fs', alive')
  <2> DEFINE p == Parent(Back.from)
  <2>1. p \in Paths /\ fs' = WithDirs(p)
    BY <1>1, <1>3
  <2> HIDE DEF p
  <2>2. Tree(WithDirs(p)) /\ Range(WithDirs(p)) \cap Files = alive /\ StateLies(WithDirs(p), alive)
    BY <1>2, <2>1, WithDirsKeeps
  <2> QED
    BY <1>1, <2>1, <2>2
<1>5. Tree(fs)'
  BY <1>4 DEF Tree
<1>6. UndoOK(undo', Stands(alive))
  <2>1. /\ undo \in [todo : {undo.todo}, made : {undo.made}, failed : {undo.failed}, was : {undo.was}]
        /\ Moves(undo.todo, Stands(alive))
    BY <1>2 DEF UndoOK
  <2>2. /\ undo' \in [todo : {undo'.todo}, made : {undo'.made}, failed : {undo'.failed}, was : {undo'.was}]
        /\ undo'.todo = undo.todo
    BY <1>1, <2>1
  <2> QED
    BY <2>1, <2>2 DEF UndoOK
<1>7. left' \in [Kinds -> Nat] /\ calm' \in BOOLEAN /\ (Stands(alive') <=> Stands(alive))
  BY <1>1 DEF IInv
<1> QED
  BY <1>1, <1>4, <1>5, <1>6, <1>7, OthersKeep

\* The next item is taken back, whether the last one could be or not.
LEMMA NextItemIs ==
    ASSUME NEW stands, UndoOK(undo, stands), Moves(Tail(undo.todo), stands),
           NEW failures, NextItem(failures)
    PROVE  UndoOK(undo', stands)
<1> DEFINE todo == Tail(undo.todo)
           failed == undo.failed + failures
<1>1. undo \in [todo : {undo.todo}, made : {undo.made}, failed : {undo.failed}, was : {undo.was}]
  BY DEF UndoOK
<1>2. undo' = [undo EXCEPT !.todo = todo, !.made = FALSE, !.failed = failed]
  BY DEF NextItem
<1>3. Moves(todo, stands)
  OBVIOUS
<1> HIDE DEF todo, failed
<1>4. /\ undo' \in [todo : {undo'.todo}, made : {undo'.made}, failed : {undo'.failed}, was : {undo'.was}]
      /\ undo'.todo = todo
  BY <1>1, <1>2
<1> QED
  BY <1>3, <1>4 DEF UndoOK

\* Nothing but the undo and what may still happen has changed.
LEMMA UndoneKeeps ==
    ASSUME IInv, undo' # None => UndoOK(undo', Stands(alive)), left' \in [Kinds -> Nat], calm' \in BOOLEAN,
           UNCHANGED <<fs, panels, queue, work, done, pending, log, snapped, alive>>
    PROVE  IInv'
<1>1. ReportsOK'
  BY DEF IInv, ReportsOK
<1>2. PendingOK'
  BY DEF IInv, PendingOK
<1>3. AnswerStands'
  BY AnswerKept DEF IInv
<1> QED
  BY <1>1, <1>2, <1>3 DEF IInv

LEMMA restore_oneKeeps ==
    ASSUME IInv, restore_one
    PROVE  IInv' /\ (work' # None => work'.moved = work.moved)
<1> DEFINE to == Restored
<1>1. undo # None /\ undo.todo # <<>> /\ UNCHANGED <<panels, queue, done, pending, log, snapped, alive>>
      /\ left \in [Kinds -> Nat] /\ calm \in BOOLEAN
  BY DEF restore_one, IInv
<1>2. /\ UndoOK(undo, Stands(alive)) /\ Moves(Tail(undo.todo), Stands(alive))
      /\ Back.from \in Paths \ {<<>>} /\ Back.to \in Paths \ {<<>>}
      /\ Stands(alive) => \A x \in DOMAIN StateFiles : ~Above(Back.to, x)
      /\ Tree(fs) /\ Range(fs) \cap Files = alive /\ StateLies(fs, alive)
  BY <1>1, UndoIs
<1>3. ASSUME NEW failures, NextItem(failures) PROVE UndoOK(undo', Stands(alive))
  <2> DEFINE st == Stands(alive)
  <2>1. UndoOK(undo, st) /\ Moves(Tail(undo.todo), st)
    BY <1>2
  <2> HIDE DEF st
  <2>2. UndoOK(undo', st)
    BY <1>3, <2>1, NextItemIs
  <2> QED
    BY <2>2 DEF st
<1>4. CASE /\ to # None /\ fs' = Renamed(Back.to, to) /\ Disturb(IdsBelow(Back.to), <<>>)
           /\ NextItem(0) /\ UNCHANGED <<left, calm>>
  <2> DEFINE src == Back.to
             t == to
             gone == IdsBelow(Back.to)
  <2>1. /\ t = move_to(src, Back.from) \/ t = move_dir_to(src, Back.from)
        /\ t # None /\ src \in Paths \ {<<>>}
        /\ Stands(alive) => \A x \in DOMAIN StateFiles : ~Above(src, x)
        /\ fs' = Renamed(src, t) /\ Disturb(gone, <<>>)
    BY <1>2, <1>4 DEF Restored
  <2> HIDE DEF src, t, gone
  <2>2. /\ src \in DOMAIN fs /\ t \in Paths \ {<<>>} /\ t \notin DOMAIN fs
        /\ Parent(t) \in DOMAIN fs /\ fs[Parent(t)] \in Directories /\ ~Above(src, Parent(t))
    BY <1>2, <2>1, TargetIs
  <2>3. /\ Tree(Renamed(src, t)) /\ Range(Renamed(src, t)) \cap Files = alive
        /\ StateLies(Renamed(src, t), alive)
    BY <1>2, <2>1, <2>2, RenameKeeps
  <2>4. Tree(fs') /\ Range(fs') \cap Files = alive' /\ StateLies(fs', alive')
    BY <1>1, <2>1, <2>3
  <2>5. Tree(fs)'
    BY <2>4 DEF Tree
  <2>6. left' \in [Kinds -> Nat] /\ calm' \in BOOLEAN /\ (Stands(alive') <=> Stands(alive))
    BY <1>1, <1>4
  <2> QED
    BY <1>1, <1>3, <1>4, <2>1, <2>4, <2>5, <2>6, OthersKeep
<1>5. CASE NextItem(1) /\ UNCHANGED <<fs, work, left, calm>>
  BY <1>1, <1>3, <1>5, UndoneKeeps
<1>6. CASE May("fault") /\ Spend("fault") /\ NextItem(1) /\ calm' = FALSE /\ UNCHANGED <<fs, work>>
  <2>1. left' \in [Kinds -> Nat]
    BY <1>1, <1>6, Spent DEF Kinds
  <2> QED
    BY <1>1, <1>3, <1>6, <2>1, UndoneKeeps
<1> QED
  BY <1>4, <1>5, <1>6 DEF restore_one

LEMMA UndoEndsKeeps ==
    ASSUME IInv, UndoEnds
    PROVE  IInv'
<1>1. left' \in [Kinds -> Nat] /\ calm' \in BOOLEAN
  BY DEF UndoEnds, IInv
<1> QED
  BY <1>1, UndoneKeeps DEF UndoEnds

-----------------------------------------------------------------------------
(* Everybody else's steps                                                  *)

LEMMA CreateStepKeeps ==
    ASSUME IInv, Create
    PROVE  IInv' /\ (work' # None => work'.moved = work.moved)
<1>1. May("create") /\ Spend("create") /\ calm' = FALSE /\ UNCHANGED <<panels, queue, done, pending, log, undo, snapped>>
  BY DEF Create
<1>2. PICK d \in {p \in DOMAIN fs : IsDir(p)}, n \in StrangeNames, i \in Strangers \ alive :
         /\ Join(d, n) \notin DOMAIN fs
         /\ fs' = [p \in DOMAIN fs \cup {Join(d, n)} |-> IF p \in DOMAIN fs THEN fs[p] ELSE i]
         /\ alive' = alive \cup {i}
         /\ Disturb({}, [j \in LateFor(d, i) |-> Join(d, n)])
  BY DEF Create
<1> DEFINE new == [j \in LateFor(d, i) |-> Join(d, n)]
<1>3. /\ Tree(fs') /\ Range(fs') \cap Files = alive \cup {i} /\ StateLies(fs', alive \cup {i})
      /\ Stands(alive \cup {i}) <=> Stands(alive)
  <2> DEFINE tree == [p \in DOMAIN fs \cup {Join(d, n)} |-> IF p \in DOMAIN fs THEN fs[p] ELSE i]
  <2>1. Tree(fs) /\ Range(fs) \cap Files = alive /\ StateLies(fs, alive) /\ IsDir(d)
    BY DEF IInv
  <2>2. /\ Tree(tree) /\ Range(tree) \cap Files = alive \cup {i} /\ StateLies(tree, alive \cup {i})
        /\ Stands(alive \cup {i}) <=> Stands(alive)
    BY <1>2, <2>1, CreateKeeps
  <2> HIDE DEF tree
  <2>3. fs' = tree
    BY <1>2 DEF tree
  <2> QED
    BY <2>2, <2>3
<1>4. Tree(fs)' /\ Range(fs') \cap Files = alive' /\ StateLies(fs', alive') /\ (Stands(alive') <=> Stands(alive))
  BY <1>2, <1>3 DEF Tree
<1>5. left' \in [Kinds -> Nat] /\ calm' \in BOOLEAN /\ (undo' # None => UndoOK(undo', Stands(alive)))
  BY <1>1, Spent DEF IInv, Kinds, ReportsOK
<1>6. Disturb({}, new)
  BY <1>2
<1> HIDE DEF new
<1> QED
  BY <1>1, <1>4, <1>5, <1>6, OthersKeep

LEMMA UnlinkStepKeeps ==
    ASSUME IInv, Unlink
    PROVE  IInv' /\ (work' # None => work'.moved = work.moved)
<1>1. May("unlink") /\ Spend("unlink") /\ calm' = FALSE /\ UNCHANGED <<panels, queue, done, pending, log, undo, snapped>>
  BY DEF Unlink
<1>2. PICK p \in {q \in DOMAIN fs : IsFile(q)} \ DOMAIN StateFiles :
         /\ fs' = [q \in DOMAIN fs \ {p} |-> fs[q]]
         /\ alive' = alive \ {fs[p]}
         /\ Disturb({fs[p]}, <<>>)
  BY DEF Unlink
<1>3. /\ Tree(fs') /\ Range(fs') \cap Files = alive \ {fs[p]} /\ StateLies(fs', alive \ {fs[p]})
      /\ Stands(alive \ {fs[p]}) <=> Stands(alive)
  <2> DEFINE tree == [q \in DOMAIN fs \ {p} |-> fs[q]]
  <2>1. Tree(fs) /\ Range(fs) \cap Files = alive /\ StateLies(fs, alive) /\ IsFile(p)
    BY DEF IInv
  <2>2. /\ Tree(tree) /\ Range(tree) \cap Files = alive \ {fs[p]} /\ StateLies(tree, alive \ {fs[p]})
        /\ Stands(alive \ {fs[p]}) <=> Stands(alive)
    BY <1>2, <2>1, UnlinkKeeps
  <2> HIDE DEF tree
  <2>3. fs' = tree
    BY <1>2 DEF tree
  <2> QED
    BY <2>2, <2>3
<1>4. Tree(fs)' /\ Range(fs') \cap Files = alive' /\ StateLies(fs', alive') /\ (Stands(alive') <=> Stands(alive))
  BY <1>2, <1>3 DEF Tree
<1>5. left' \in [Kinds -> Nat] /\ calm' \in BOOLEAN /\ (undo' # None => UndoOK(undo', Stands(alive)))
  BY <1>1, Spent DEF IInv, Kinds, ReportsOK
<1> DEFINE gone == {fs[p]}
<1>6. Disturb(gone, <<>>)
  BY <1>2
<1> HIDE DEF gone
<1> QED
  BY <1>1, <1>4, <1>5, <1>6, OthersKeep

-----------------------------------------------------------------------------
(* The theorems                                                            *)

LEMMA Initially ==
    ASSUME Init
    PROVE  IInv
<1>1. PICK scene \in Scenes : fs = scene.fs /\ panels = scene.panels /\ left \in scene.budgets
  BY DEF Init
<1>2. /\ queue = <<>> /\ work = None /\ done = <<>> /\ pending = 0 /\ log = <<>> /\ undo = None
      /\ alive = Range(fs) \cap Files /\ calm = TRUE
  BY DEF Init
<1>3. Tree(fs) /\ left \in [Kinds -> Nat]
  BY <1>1, ScenesAssumption
<1>4. StateLies(fs, alive)
  <2>1. \A p \in DOMAIN StateFiles : StateFiles[p] \in Files /\ StateFiles[p] \in Range(StateFiles)
    BY FilesAssumption DEF Range
  <2>2. CASE \A p \in DOMAIN StateFiles : p \in DOMAIN fs /\ fs[p] = StateFiles[p]
    <3>1. \A p \in DOMAIN StateFiles : StateFiles[p] \in alive
      BY <1>2, <2>1, <2>2 DEF Range
    <3>2. Stands(alive)
      BY <3>1 DEF Stands, Range
    <3> QED
      BY <2>2, <3>2 DEF StateLies
  <2>3. CASE Range(fs) \cap Range(StateFiles) = {} /\ DOMAIN StateFiles # {}
    <3>1. ~Stands(alive) /\ Range(StateFiles) \cap alive = {}
      BY <1>2, <2>1, <2>3 DEF Stands
    <3> QED
      BY <3>1 DEF StateLies
  <2>4. CASE DOMAIN StateFiles = {}
    BY <2>2, <2>4
  <2>5. \/ \A p \in DOMAIN StateFiles : p \in DOMAIN fs /\ fs[p] = StateFiles[p]
        \/ Range(fs) \cap Range(StateFiles) = {}
    BY <1>1, ScenesAssumption
  <2> QED
    BY <2>2, <2>3, <2>4, <2>5
<1>5. Listed(<<>>) /\ Len(<<>>) = 0 /\ DOMAIN <<>> = {}
  BY EmptySeq DEF Listed
<1>6. ReportsOK
  BY <1>2, <1>5 DEF ReportsOK
<1>7. PendingOK
  BY <1>2, <1>5 DEF PendingOK
<1>8. AnswerStands
  BY <1>2 DEF AnswerStands
<1> QED
  BY <1>1, <1>2, <1>3, <1>4, <1>6, <1>7, <1>8 DEF IInv

LEMMA Stutters ==
    ASSUME IInv, UNCHANGED vars
    PROVE  IInv'
<1>1. UNCHANGED <<fs, panels, queue, work, done, pending, log, undo, snapped, left, alive, calm>>
  BY DEF vars
<1>2. (undo' # None => UndoOK(undo', Stands(alive))) /\ left' \in [Kinds -> Nat] /\ calm' \in BOOLEAN
  BY <1>1 DEF IInv, ReportsOK
<1> QED
  BY <1>1, <1>2, UndoneKeeps

LEMMA Inductive ==
    Spec => []IInv
<1>1. Init => IInv
  BY Initially
<1>2. IInv /\ [Next]_vars => IInv'
  <2> SUFFICES ASSUME IInv, [Next]_vars PROVE IInv'
    OBVIOUS
  <2>1. CASE Take
    BY <2>1, TakeKeeps
  <2>2. CASE Look
    BY <2>2, LookKeeps
  <2>3. CASE HashAndCompare
    BY <2>3, HashAndCompareKeeps
  <2>4. CASE LandFile
    BY <2>4, LandFileKeeps
  <2>5. CASE MoveWhole
    BY <2>5, MoveWholeKeeps
  <2>6. CASE RemoveMerged
    BY <2>6, RemoveMergedKeeps
  <2>7. CASE Finish
    BY <2>7, FinishKeeps
  <2>8. CASE Panic
    BY <2>8, PanicKeeps
  <2>9. CASE Send
    BY <2>9, SendKeeps
  <2>10. CASE undo_last_move
    BY <2>10, undo_last_moveKeeps
  <2>11. CASE apply_move_outcome
    BY <2>11, apply_move_outcomeKeeps
  <2>12. CASE MakeParent
    BY <2>12, MakeParentKeeps
  <2>13. CASE restore_one
    BY <2>13, restore_oneKeeps
  <2>14. CASE UndoEnds
    BY <2>14, UndoEndsKeeps
  <2>15. CASE Create
    BY <2>15, CreateStepKeeps
  <2>16. CASE Unlink
    BY <2>16, UnlinkStepKeeps
  <2>17. CASE Rest \/ UNCHANGED vars
    BY <2>17, Stutters DEF Rest
  <2> QED
    BY <2>1, <2>2, <2>3, <2>4, <2>5, <2>6, <2>7, <2>8, <2>9, <2>10, <2>11, <2>12, <2>13, <2>14, <2>15, <2>16, <2>17
       DEF Next, Worker, Interface
<1> QED
  BY <1>1, <1>2, PTL DEF Spec

\* Whatever is renamed, merged, removed, created or taken back, what is at a path lies in a
\* directory, and the reports that are awaited are no fewer than those that will come.
THEOREM TypeCorrect == Spec => []TypeOK
<1>1. IInv => TypeOK
  <2> SUFFICES ASSUME IInv PROVE TypeOK
    OBVIOUS
  <2>1. ASSUME NEW p \in DOMAIN fs PROVE fs[p] \in Files \cup Directories \cup {Link} /\ (Len(p) > 1 => IsDir(Parent(p)))
    <3>1. Tree(fs) /\ p \in Paths \ {<<>>} /\ Len(p) \in Nat
      BY PathIs DEF IInv, Tree
    <3>2. Parent(p) \in Paths /\ Len(Parent(p)) = Len(p) - 1 /\ Above(Parent(p), p)
      BY <3>1, ParentIs
    <3>3. Len(p) > 1 => Parent(p) # <<>> /\ Parent(p) # p
      BY <3>1, <3>2, PathIs
    <3>4. Len(p) > 1 => IsDir(Parent(p))
      BY <3>1, <3>2, <3>3, TreeUp DEF IsDir
    <3> QED
      BY <3>1, <3>4 DEF Tree
  <2>2. work # None => work.failed \in Nat /\ work.dups <= Len(work.moved)
    BY DEF IInv, WorkOK
  <2>3. pending \in Nat /\ alive \subseteq Files /\ left \in [Kinds -> Nat] /\ calm \in BOOLEAN
    BY DEF IInv, PendingOK
  <2> QED
    BY <2>1, <2>2, <2>3 DEF TypeOK
<1> QED
  BY <1>1, Inductive, PTL

\* move_to, move_dir_to, merge_dir and restore_one: whatever batches, their undo and others do at the
\* same time, each file is at one path until somebody unlinks it, and the state directory's files
\* stay where they are.
THEOREM FilesAreKept == Spec => []FilesStand
<1>1. IInv => FilesStand
  <2> SUFFICES ASSUME IInv PROVE FilesStand
    OBVIOUS
  <2>1. EveryFileOnce
    BY DEF IInv, Tree, EveryFileOnce
  <2>2. StateStays
    <3> SUFFICES ASSUME NEW p \in DOMAIN StateFiles, StateFiles[p] \in alive PROVE Lies(StateFiles[p], p)
      BY DEF StateStays
    <3>1. StateFiles[p] \in Range(StateFiles)
      BY DEF Range
    <3> QED
      BY <3>1 DEF IInv, StateLies, Lies
  <2> QED
    BY <2>1, <2>2 DEF FilesStand
<1> QED
  BY <1>1, Inductive, PTL

\* move_file_item: in another directory that nobody else changes, a file takes a duplicate's name
\* exactly if its twin lies there, whichever candidates could not be read.
THEOREM TwinsAreNamed == Spec => TwinNamed
<1> DEFINE Named == At("land") /\ work.quiet /\ work' # None /\ work'.moved # work.moved
                   /\ Parent(Top.src) # Parent(Top.dst)
                       => (work'.dups > work.dups
                           <=> \E p \in Kids(Parent(Top.dst)) : fs[p] # Database /\ Twin(Top.src, p))
<1>1. IInv /\ [Next]_vars => [Named]_vars
  <2> SUFFICES ASSUME IInv, [Next]_vars, At("land"), work.quiet, work' # None, work'.moved # work.moved
               PROVE  work'.dups > work.dups
                        <=> \E p \in Kids(Parent(Top.dst)) : fs[p] # Database /\ Twin(Top.src, p)
    OBVIOUS
  <2>1. work # None /\ work.stack # <<>> /\ Top.do = "land"
    BY DEF At, Top
  <2>2. Top.dup <=> \E p \in Kids(Parent(Top.dst)) : fs[p] # Database /\ Twin(Top.src, p)
    BY <2>1 DEF IInv, AnswerStands
  <2>3. CASE LandFile
    BY <2>2, <2>3, LandFileKeeps
  <2>4. CASE Take \/ Look \/ HashAndCompare \/ MoveWhole \/ RemoveMerged \/ Finish
    BY <2>1, <2>4 DEF Take, Look, HashAndCompare, MoveWhole, RemoveMerged, Finish, At, Top
  <2>5. CASE Panic
    BY <2>5 DEF Panic
  <2>6. CASE Send \/ undo_last_move \/ apply_move_outcome \/ UndoEnds \/ Rest \/ UNCHANGED vars
    BY <2>6 DEF Send, undo_last_move, apply_move_outcome, UndoEnds, Rest, vars
  <2>7. CASE MakeParent
    BY <2>7, MakeParentKeeps
  <2>8. CASE restore_one
    BY <2>8, restore_oneKeeps
  <2>9. CASE Create
    BY <2>9, CreateStepKeeps
  <2>10. CASE Unlink
    BY <2>10, UnlinkStepKeeps
  <2> QED
    BY <2>3, <2>4, <2>5, <2>6, <2>7, <2>8, <2>9, <2>10 DEF Next, Worker, Interface
<1> QED
  BY <1>1, Inductive, PTL DEF Spec, TwinNamed

-----------------------------------------------------------------------------
(***************************************************************************)
(* A batch that reports no error has left nothing behind. Whatever of what *)
(* it found is still there has a frame above it, that of a merged          *)
(* directory's removal at least, which fails if anything is left; and no   *)
(* file comes back to where the batch found it, because each step takes    *)
(* what it moves equally far from the depth it was at, or, between panels  *)
(* of one depth, below the panel it was sent to. If both panels show one   *)
(* directory, files are all that moves, and their names get longer.        *)
(***************************************************************************)
\* What a frame works on lies below what its batch was sent from, what it makes of it below what
\* the batch was sent to, equally deep; in its very directory if the two are one.
Stays(f) ==
    /\ f.do # "whole"
    /\ f.do \in {"item", "compare"} => f.dir = Parent(f.src)
    /\ f.do = "land" => Parent(f.dst) = Parent(f.src) /\ (f.dst = f.src \/ Longer(f.dst, f.src))

Fits(f, from, to) ==
    /\ f.src \in Paths /\ Above(from, f.src)
    /\ f.do \in {"item", "compare"} =>
          f.dir \in Paths /\ Above(to, f.dir) /\ Len(f.dir) + 1 + Len(from) = Len(f.src) + Len(to)
    /\ f.do \in {"land", "whole"} =>
          f.dst \in Paths /\ Above(to, Parent(f.dst)) /\ Len(f.dst) + Len(from) = Len(f.src) + Len(to)
    /\ from = to => Stays(f)

\* What was found at b has been taken to p, maybe in several steps.
Off(b, p, from, to) ==
    \/ Len(from) < Len(to) /\ Len(b) < Len(p)
    \/ Len(to) < Len(from) /\ Len(p) < Len(b)
    \/ Len(from) = Len(to) /\ from # to /\ Above(to, p)
    \/ from = to /\ b # <<>> /\ Parent(p) = Parent(b) /\ Longer(p, b)

Routed(w, tree, from, to) ==
    /\ \A f \in Range(w.stack) : Fits(f, from, to)
    /\ \A i \in DOMAIN w.began :
          /\ w.began[i] \in Paths /\ Above(from, w.began[i])
          /\ \A p \in DOMAIN tree : tree[p] = i => p = w.began[i] \/ Off(w.began[i], p, from, to)

Covered(w, tree) ==
    w.failed = 0 => \A i \in DOMAIN w.began :
        w.began[i] \in DOMAIN tree /\ tree[w.began[i]] = i =>
            \E f \in Range(w.stack) : Above(f.src, w.began[i])

\* A failure that was there when a merge began is there when it ends.
Counted(w) == \A f \in Range(w.stack) : f.do = "remove" => f.before <= w.failed

BatchOK(w, tree, files) ==
    /\ DOMAIN w.began \subseteq files /\ Covered(w, tree) /\ Counted(w)
    /\ \E from, to \in Paths : Routed(w, tree, from, to)

QueueOK ==
    \A j \in DOMAIN queue : \E from \in Paths :
        \A s \in Range(queue[j].sources) : Above(from, s) /\ Parent(s) = from /\ Len(s) = Len(from) + 1

CleanInv == QueueOK /\ (work # None => BatchOK(work, fs, alive)) /\ CleanMeansMoved

LEMMA RangeJoined ==
    ASSUME NEW S, NEW a \in Seq(S), NEW b \in Seq(S)
    PROVE  Range(a \o b) = Range(a) \cup Range(b)
<1>1. /\ Len(a) \in Nat /\ Len(b) \in Nat /\ DOMAIN a = 1..Len(a) /\ DOMAIN b = 1..Len(b)
      /\ DOMAIN (a \o b) = 1..Len(a) + Len(b)
      /\ \A k \in 1..Len(a) + Len(b) : (a \o b)[k] = IF k <= Len(a) THEN a[k] ELSE b[k - Len(a)]
  OBVIOUS
<1> DEFINE c == a \o b
<1>2. /\ DOMAIN c = 1..Len(a) + Len(b)
      /\ \A k \in 1..Len(a) + Len(b) : c[k] = IF k <= Len(a) THEN a[k] ELSE b[k - Len(a)]
  BY <1>1
<1> HIDE DEF c
<1>3. ASSUME NEW k \in DOMAIN c PROVE c[k] \in Range(a) \cup Range(b)
  <2>1. CASE k <= Len(a)
    <3>1. k \in DOMAIN a /\ c[k] = a[k]
      BY <1>1, <1>2, <1>3, <2>1
    <3> QED
      BY <3>1 DEF Range
  <2>2. CASE k > Len(a)
    <3>1. k - Len(a) \in DOMAIN b /\ c[k] = b[k - Len(a)]
      BY <1>1, <1>2, <1>3, <2>2
    <3> QED
      BY <3>1 DEF Range
  <2> QED
    BY <1>1, <1>2, <1>3, <2>1, <2>2
<1>4. ASSUME NEW k \in DOMAIN a PROVE a[k] \in Range(c)
  <2>1. k \in DOMAIN c /\ c[k] = a[k]
    BY <1>1, <1>2, <1>4
  <2> QED
    BY <2>1 DEF Range
<1>5. ASSUME NEW k \in DOMAIN b PROVE b[k] \in Range(c)
  <2>1. Len(a) + k \in DOMAIN c /\ c[Len(a) + k] = b[Len(a) + k - Len(a)] /\ Len(a) + k - Len(a) = k
    BY <1>1, <1>2, <1>5
  <2> QED
    BY <2>1 DEF Range
<1>6. Range(c) = Range(a) \cup Range(b)
  BY <1>3, <1>4, <1>5 DEF Range
<1> QED
  BY <1>6 DEF c

LEMMA RangeSplit ==
    ASSUME NEW S, NEW s \in Seq(S), s # <<>>
    PROVE  /\ Range(s) = {Head(s)} \cup Range(Tail(s)) /\ Tail(s) \in Seq(S) /\ Head(s) \in S
<1>1. s = <<Head(s)>> \o Tail(s) /\ <<Head(s)>> \in Seq(S) /\ Tail(s) \in Seq(S) /\ Head(s) \in S
  BY HeadTailProperties, TailIs
<1>2. Range(<<Head(s)>>) = {Head(s)}
  BY DEF Range
<1> DEFINE h == <<Head(s)>>
           t == Tail(s)
<1>3. h \in Seq(S) /\ t \in Seq(S) /\ s = h \o t /\ Range(h) = {Head(s)}
  BY <1>1, <1>2
<1> HIDE DEF h, t
<1>4. Range(h \o t) = Range(h) \cup Range(t)
  BY <1>3, RangeJoined
<1>5. Range(s) = {Head(s)} \cup Range(t)
  BY <1>3, <1>4
<1> QED
  BY <1>1, <1>5 DEF t

\* What a step makes of the batch when it replaces the top.
LEMMA Replaced ==
    ASSUME IInv, work # None, work.stack # <<>>, NEW frames \in Seq(Frames), NEW failures \in Nat, Go(frames, failures)
    PROVE  /\ work.failed \in Nat /\ work'.failed = work.failed + failures /\ work'.began = work.began
           /\ Range(work'.stack) = Range(frames) \cup Range(Tail(work.stack))
           /\ Range(work.stack) = {Top} \cup Range(Tail(work.stack))
           /\ Top \in Frames /\ Top.src \in Paths \ {<<>>}
<1>1. /\ work \in [sources : {work.sources}, stack : {work.stack}, moved : {work.moved}, failed : Nat, dups : Nat,
                   quiet : BOOLEAN, was : {work.was}, began : {work.began}]
      /\ work.stack \in Seq(Frames) /\ WorkOK(work, panels, Stands(alive))
  BY DEF IInv, WorkOK, StackOK
<1> DEFINE stack2 == frames \o Tail(work.stack)
           failed2 == work.failed + failures
           quiet2 == work.quiet \/ Top.do = "item"
<1>2. work' = [work EXCEPT !.stack = stack2, !.failed = failed2, !.quiet = quiet2]
  BY DEF Go
<1> HIDE DEF stack2, failed2, quiet2
<1>3. work'.stack = stack2 /\ work'.failed = failed2 /\ work'.began = work.began
  BY <1>1, <1>2
<1>4. Range(work.stack) = {Top} \cup Range(Tail(work.stack)) /\ Tail(work.stack) \in Seq(Frames) /\ Top \in Frames
  BY <1>1, RangeSplit DEF Top
<1>5. Top.src \in Paths \ {<<>>}
  BY <1>1, WentOn DEF Source
<1>6. Range(frames \o Tail(work.stack)) = Range(frames) \cup Range(Tail(work.stack))
  <2> DEFINE t == Tail(work.stack)
             S == Frames
  <2>1. t \in Seq(S) /\ frames \in Seq(S)
    BY <1>4
  <2> HIDE DEF t, S
  <2>2. Range(frames \o t) = Range(frames) \cup Range(t)
    BY <2>1, RangeJoined
  <2> QED
    BY <2>2 DEF t
<1>7. work.failed \in Nat
  BY <1>1
<1>8. Range(work'.stack) = Range(frames) \cup Range(Tail(work.stack))
  BY <1>3, <1>6 DEF stack2
<1>9. work'.failed = work.failed + failures
  BY <1>3 DEF failed2
<1> QED
  BY <1>3, <1>4, <1>5, <1>7, <1>8, <1>9

\* Such a step keeps the batch in order if its frames go on from the top, and lie above what files
\* there are below it, or it counts a failure.
LEMMA BatchGoesOn ==
    ASSUME IInv, work # None, work.stack # <<>>, BatchOK(work, fs, alive),
           \A p \in DOMAIN fs' : fs'[p] \in Files => p \in DOMAIN fs /\ fs[p] = fs'[p],
           NEW frames \in Seq(Frames), NEW failures \in Nat, Go(frames, failures),
           \A f \in Range(frames) :
              /\ \A from, to \in Paths : Fits(Top, from, to) => Fits(f, from, to)
              /\ f.do = "remove" => f.before <= work.failed,
           work.failed = 0 /\ failures = 0 => \A p \in DOMAIN fs' :
              fs'[p] \in Files /\ Above(Top.src, p) => \E f \in Range(frames) : Above(f.src, p)
    PROVE  BatchOK(work', fs', alive)
<1>1. /\ work.failed \in Nat /\ work'.failed = work.failed + failures /\ work'.began = work.began
      /\ Range(work'.stack) = Range(frames) \cup Range(Tail(work.stack))
      /\ Range(work.stack) = {Top} \cup Range(Tail(work.stack))
  BY Replaced
<1>2. PICK from, to \in Paths : Routed(work, fs, from, to)
  BY DEF BatchOK
<1>6. DOMAIN work'.began \subseteq alive /\ alive \subseteq Files
  BY <1>1 DEF BatchOK, IInv
<1>3. Routed(work', fs', from, to)
  <2>1. \A f \in Range(work'.stack) : Fits(f, from, to)
    BY <1>1, <1>2 DEF Routed
  <2>2. ASSUME NEW i \in DOMAIN work'.began
        PROVE  /\ work'.began[i] \in Paths /\ Above(from, work'.began[i])
               /\ \A p \in DOMAIN fs' : fs'[p] = i => p = work'.began[i] \/ Off(work'.began[i], p, from, to)
    <3>1. i \in DOMAIN work.began /\ i \in Files /\ work'.began[i] = work.began[i]
      BY <1>1, <1>6
    <3>2. \A p \in DOMAIN fs' : fs'[p] = i => p \in DOMAIN fs /\ fs[p] = i
      BY <3>1
    <3> QED
      BY <1>2, <3>1, <3>2 DEF Routed
  <2> QED
    BY <2>1, <2>2 DEF Routed
<1>4. Counted(work')
  <2> SUFFICES ASSUME NEW f \in Range(work'.stack), f.do = "remove" PROVE f.before <= work'.failed
    BY DEF Counted
  <2>1. f.before <= work.failed
    BY <1>1 DEF BatchOK, Counted
  <2>2. f \in Frames
    <3>1. work.stack \in Seq(Frames)
      BY DEF IInv, WorkOK, StackOK
    <3>2. \A s \in Seq(Frames) : Range(s) \subseteq Frames
      BY DEF Range
    <3>3. Tail(work.stack) \in Seq(Frames)
      BY <3>1, RangeSplit
    <3> QED
      BY <1>1, <3>2, <3>3
  <2>3. f.before \in Nat
    BY <2>2 DEF Frames
  <2> QED
    BY <1>1, <2>1, <2>3
<1>5. Covered(work', fs')
  <2> SUFFICES ASSUME work'.failed = 0, NEW i \in DOMAIN work'.began,
                      work'.began[i] \in DOMAIN fs' /\ fs'[work'.began[i]] = i
               PROVE  \E f \in Range(work'.stack) : Above(f.src, work'.began[i])
    BY DEF Covered
  <2>1. work.failed = 0 /\ failures = 0 /\ Covered(work, fs)
    BY <1>1 DEF BatchOK
  <2>4. i \in Files /\ \A p \in DOMAIN fs' : fs'[p] \in Files => p \in DOMAIN fs /\ fs[p] = fs'[p]
    BY <1>6
  <2>2. i \in DOMAIN work.began /\ work.began[i] \in DOMAIN fs /\ fs[work.began[i]] = i
    BY <1>1, <2>4
  <2>3. PICK f \in Range(work.stack) : Above(f.src, work.began[i])
    BY <2>1, <2>2 DEF Covered
  <2>5. CASE f = Top
    <3>1. \E g \in Range(frames) : Above(g.src, work.began[i])
      BY <1>1, <2>1, <2>2, <2>3, <2>4, <2>5
    <3> QED
      BY <1>1, <3>1
  <2>6. CASE f \in Range(Tail(work.stack))
    BY <1>1, <2>3, <2>6
  <2> QED
    BY <1>1, <2>3, <2>5, <2>6
<1> QED
  BY <1>2, <1>3, <1>4, <1>5, <1>6 DEF BatchOK

\* An item that fails, whatever it is.
LEMMA BatchDrops ==
    ASSUME IInv, work # None, work.stack # <<>>, BatchOK(work, fs, alive), UNCHANGED fs, Go(<<>>, 1)
    PROVE  BatchOK(work', fs', alive)
<1> DEFINE frames == <<>>
<1>1. frames \in Seq(Frames) /\ Range(frames) = {} /\ 1 \in Nat /\ 1 # 0 /\ Go(frames, 1)
  BY DEF Range
<1>2. \A p \in DOMAIN fs' : fs'[p] \in Files => p \in DOMAIN fs /\ fs[p] = fs'[p]
  OBVIOUS
<1> HIDE DEF frames
<1> QED
  BY <1>1, <1>2, BatchGoesOn

\* A frame that goes on with the same source.
LEMMA BatchGoesOnWith ==
    ASSUME IInv, work # None, work.stack # <<>>, BatchOK(work, fs, alive), UNCHANGED fs,
           NEW f \in Frames, f.src = Top.src, f.do # "remove", Go(<<f>>, 0),
           \A from, to \in Paths : Fits(Top, from, to) => Fits(f, from, to)
    PROVE  BatchOK(work', fs', alive)
<1> DEFINE frames == <<f>>
<1>1. frames \in Seq(Frames) /\ Range(frames) = {f} /\ Go(frames, 0)
  BY DEF Range
<1>2. \A p \in DOMAIN fs' : fs'[p] \in Files => p \in DOMAIN fs /\ fs[p] = fs'[p]
  OBVIOUS
<1> HIDE DEF frames
<1> QED
  BY <1>1, <1>2, BatchGoesOn

LEMMA KidsFit ==
    ASSUME NEW f, f.do = "item", f.src \in Paths \ {<<>>}, NEW from \in Paths, NEW to \in Paths, Fits(f, from, to)
    PROVE  LET target == Join(f.dir, Name(f.src))
           IN  /\ target \in Paths \ {<<>>} /\ Parent(target) = f.dir /\ Above(to, f.dir) /\ Above(to, target)
               /\ Len(target) + Len(from) = Len(f.src) + Len(to)
               /\ from = to => target = f.src /\ f.dir = Parent(f.src)
<1> DEFINE target == Join(f.dir, Name(f.src))
<1>1. f.dir \in Paths /\ Above(to, f.dir) /\ Len(f.dir) + 1 + Len(from) = Len(f.src) + Len(to)
  BY DEF Fits
<1>2. Name(f.src) \in Names
  BY ParentIs
<1>3. target \in Paths \ {<<>>} /\ Parent(target) = f.dir /\ Len(target) = Len(f.dir) + 1
  BY <1>1, <1>2, JoinIs
<1>4. Above(f.dir, target)
  BY <1>3, ParentIs
<1>5. Above(to, target)
  BY <1>1, <1>3, <1>4, AboveOrder
<1>6. from = to => target = f.src /\ f.dir = Parent(f.src)
  BY ParentIs DEF Fits, Stays
<1> QED
  BY <1>1, <1>3, <1>5, <1>6

LEMMA BatchLooks ==
    ASSUME IInv, Look, BatchOK(work, fs, alive)
    PROVE  BatchOK(work', fs', alive)
<1>1. At("item") /\ UNCHANGED fs /\ WorkerOnly /\ work # None /\ work.stack # <<>> /\ Top.do = "item"
  BY DEF Look, At, Top
<1>2. Top \in Frames /\ Top.src \in Paths \ {<<>>} /\ Top.dir \in Paths
  <2>1. WorkOK(work, panels, Stands(alive))
    BY <1>1 DEF IInv
  <2>2. Top \in Frames /\ Top.src \in Paths \ {<<>>}
    BY <1>1, <2>1, WentOn DEF Source
  <2> QED
    BY <1>1, <2>2 DEF Frames
<1> DEFINE target == Join(Top.dir, Name(Top.src))
<1>3. target \in Paths \ {<<>>}
  BY <1>2, ParentIs, JoinIs
<1>4. \A from, to \in Paths : Fits(Top, from, to) =>
         /\ Parent(target) = Top.dir /\ Above(to, Top.dir) /\ Above(to, target) /\ Above(from, Top.src)
         /\ Len(target) + Len(from) = Len(Top.src) + Len(to)
         /\ from = to => target = Top.src /\ Top.dir = Parent(Top.src)
  <2> SUFFICES ASSUME NEW from \in Paths, NEW to \in Paths, Fits(Top, from, to)
               PROVE  /\ Parent(target) = Top.dir /\ Above(to, Top.dir) /\ Above(to, target) /\ Above(from, Top.src)
                      /\ Len(target) + Len(from) = Len(Top.src) + Len(to)
                      /\ from = to => target = Top.src /\ Top.dir = Parent(Top.src)
    OBVIOUS
  <2>1. Above(from, Top.src)
    BY DEF Fits
  <2> QED
    BY <1>1, <1>2, <2>1, KidsFit
<1> HIDE DEF target
<1>5. CASE Go(<<>>, 1)
  BY <1>1, <1>5, BatchDrops
<1>6. CASE Go(<<Land(Top.src, target, FALSE)>>, 0) \/ (Go(<<Whole(Top.src, target)>>, 0) /\ target # Top.src)
  <2>1. ASSUME NEW f \in {Land(Top.src, target, FALSE), Whole(Top.src, target)}, Go(<<f>>, 0),
               f.do = "whole" => target # Top.src
        PROVE  BatchOK(work', fs', alive)
    <3>1. f \in Frames /\ f.src = Top.src /\ f.dst = target /\ (f.do = "land" \/ (f.do = "whole" /\ target # Top.src))
      <4> DEFINE a == Land(Top.src, target, FALSE)
                 b == Whole(Top.src, target)
      <4>1. a \in Frames /\ a.src = Top.src /\ a.dst = target /\ a.do = "land"
        BY <1>2, <1>3 DEF Land, Frames
      <4>2. b \in Frames /\ b.src = Top.src /\ b.dst = target /\ b.do = "whole"
        BY <1>2, <1>3 DEF Whole, Frames
      <4>3. f = a \/ f = b
        BY <2>1
      <4> HIDE DEF a, b
      <4> QED
        BY <2>1, <4>1, <4>2, <4>3
    <3>2. \A from, to \in Paths : Fits(Top, from, to) => Fits(f, from, to)
      BY <1>2, <1>3, <1>4, <3>1 DEF Fits, Stays
    <3> QED
      BY <1>1, <2>1, <3>1, <3>2, BatchGoesOnWith
  <2>2. Land(Top.src, target, FALSE).do = "land"
    BY DEF Land
  <2> QED
    BY <1>6, <2>1, <2>2
<1>7. ASSUME NEW candidates \in SUBSET Paths, Go(<<Compare(Top.src, Top.dir, candidates)>>, 0)
      PROVE  BatchOK(work', fs', alive)
  <2> DEFINE f == Compare(Top.src, Top.dir, candidates)
  <2>1. f \in Frames /\ f.src = Top.src /\ f.dir = Top.dir /\ f.do = "compare"
    BY <1>2 DEF Compare, Frames
  <2> HIDE DEF f
  <2>2. \A from, to \in Paths : Fits(Top, from, to) => Fits(f, from, to)
    BY <1>1, <1>2, <2>1 DEF Fits, Stays
  <2> QED
    BY <1>1, <1>7, <2>1, <2>2, BatchGoesOnWith DEF f
<1>8. ASSUME NEW some \in SUBSET Kids(Top.src), NEW sorted \in Sorted(some), NEW failures \in Nat,
             Go(Append(Items(sorted, target), Removal(Top.src, work.failed)), failures)
      PROVE  BatchOK(work', fs', alive)
  <2> DEFINE items == Items(sorted, target)
             last == Removal(Top.src, work.failed)
             frames == Append(items, last)
  <2>1. Tree(fs) /\ IsFiniteSet(some) /\ some \subseteq Paths
    <3>1. some \subseteq DOMAIN fs
      BY DEF Kids
    <3> QED
      BY <3>1, FS_Subset DEF IInv, Tree
  <2>2. sorted \in Seq(some) /\ sorted \in Seq(Paths) /\ \A k \in DOMAIN sorted : sorted[k] \in some
    <3>1. sorted \in Seq(some) /\ \A k \in DOMAIN sorted : sorted[k] \in some
      BY <2>1, OrderIs DEF Sorted
    <3>2. sorted \in Seq(Paths)
      BY <2>1, <3>1
    <3> QED
      BY <3>1, <3>2
  <2>3. /\ items \in Seq(Frames) /\ DOMAIN items = DOMAIN sorted
        /\ \A k \in DOMAIN sorted : items[k] = Item(sorted[k], target)
    BY <1>3, <2>2, ItemsAre DEF Items
  <2>4. last \in Frames /\ last.src = Top.src /\ last.do = "remove" /\ last.before = work.failed /\ work.failed \in Nat
    <3>1. work.failed \in Nat
      BY <1>1 DEF IInv, WorkOK
    <3> QED
      BY <1>2, <3>1 DEF Removal, Frames
  <2> HIDE DEF items, last
  <2>5. frames \in Seq(Frames) /\ frames = items \o <<last>>
    BY <2>3, <2>4
  <2>6. Range(frames) = Range(items) \cup {last}
    <3>1. <<last>> \in Seq(Frames) /\ Range(<<last>>) = {last}
      BY <2>4 DEF Range
    <3> DEFINE S == Frames
               b == <<last>>
    <3>2. items \in Seq(S) /\ b \in Seq(S)
      BY <2>3, <3>1
    <3> HIDE DEF S, b
    <3>3. Range(items \o b) = Range(items) \cup Range(b)
      BY <3>2, RangeJoined
    <3> QED
      BY <2>5, <3>1, <3>3 DEF b
  <2> HIDE DEF frames
  <2>7. ASSUME NEW f \in Range(frames)
        PROVE  /\ \A from, to \in Paths : Fits(Top, from, to) => Fits(f, from, to)
               /\ f.do = "remove" => f.before <= work.failed
    <3>1. CASE f = last
      BY <1>2, <1>4, <2>4, <3>1 DEF Fits, Stays
    <3>2. CASE f \in Range(items)
      <4>1. PICK k \in DOMAIN sorted : f = Item(sorted[k], target)
        BY <2>3, <3>2 DEF Range
      <4>2. sorted[k] \in Kids(Top.src)
        BY <2>2
      <4>3. sorted[k] \in Paths /\ Len(sorted[k]) = Len(Top.src) + 1 /\ Above(Top.src, sorted[k])
        BY <1>2, <2>1, <4>2, KidIs
      <4>6. Parent(sorted[k]) = Top.src
        BY <4>2 DEF Kids
      <4>4. f.src = sorted[k] /\ f.dir = target /\ f.do = "item"
        BY <4>1 DEF Item
      <4>5. ASSUME NEW from \in Paths, NEW to \in Paths, Fits(Top, from, to) PROVE Fits(f, from, to)
        <5>1. Above(from, f.src)
          BY <1>2, <1>4, <4>3, <4>4, <4>5, AboveOrder
        <5>2. Len(f.dir) + 1 + Len(from) = Len(f.src) + Len(to)
          <6>1. Len(target) \in Nat /\ Len(from) \in Nat /\ Len(to) \in Nat /\ Len(Top.src) \in Nat
            BY <1>2, <1>3, PathIs
          <6> QED
            BY <1>4, <4>3, <4>4, <4>5, <6>1
        <5>3. from = to => Stays(f)
          BY <1>4, <4>4, <4>5, <4>6 DEF Stays
        <5> QED
          BY <1>3, <1>4, <4>3, <4>4, <4>5, <5>1, <5>2, <5>3 DEF Fits
      <4> QED
        BY <4>4, <4>5
    <3> QED
      BY <2>6, <3>1, <3>2
  <2>8. \A p \in DOMAIN fs' : fs'[p] \in Files /\ Above(Top.src, p) => \E f \in Range(frames) : Above(f.src, p)
    BY <2>4, <2>6
  <2> QED
    BY <1>1, <1>8, <2>5, <2>7, <2>8, BatchGoesOn DEF frames, items, last
<1>9. CASE IsFile(Top.src) /\ LookAtFile
  <2> DEFINE candidates == same_size_files(Top.dir, Size[fs[Top.src]])
  <2>1. candidates \in SUBSET Paths
    BY DEF same_size_files, Kids, IInv, Tree
  <2> QED
    BY <1>5, <1>6, <1>7, <1>9, <2>1 DEF LookAtFile, target
<1>10. CASE IsDir(Top.src) /\ LookAtDir
  BY <1>6, <1>8, <1>10 DEF LookAtDir, target
<1> QED
  BY <1>5, <1>9, <1>10 DEF Look, Fault

LEMMA BatchJudges ==
    ASSUME IInv, HashAndCompare, BatchOK(work, fs, alive)
    PROVE  BatchOK(work', fs', alive)
<1>1. UNCHANGED fs /\ work # None /\ work.stack # <<>> /\ Top.do = "compare"
  BY DEF HashAndCompare, At, Top
<1>2. Top \in Frames /\ Top.src \in Paths \ {<<>>} /\ Top.dir \in Paths /\ IsFiniteSet(DOMAIN fs)
  <2>1. WorkOK(work, panels, Stands(alive)) /\ IsFiniteSet(DOMAIN fs)
    BY <1>1 DEF IInv, Tree
  <2>2. Top \in Frames /\ Top.src \in Paths \ {<<>>}
    BY <1>1, <2>1, WentOn DEF Source
  <2> QED
    BY <1>1, <2>1, <2>2 DEF Frames
<1>3. CASE Go(<<>>, 1)
  BY <1>1, <1>3, BatchDrops
<1>4. ASSUME NEW dst \in Paths \ {<<>>}, Parent(dst) = Top.dir, NEW dup \in BOOLEAN, Go(<<Land(Top.src, dst, dup)>>, 0),
             Top.dir = Parent(Top.src) => dst = Top.src \/ Longer(dst, Top.src)
      PROVE  BatchOK(work', fs', alive)
  <2> DEFINE f == Land(Top.src, dst, dup)
  <2>1. f \in Frames /\ f.src = Top.src /\ f.dst = dst /\ f.do = "land"
    BY <1>2 DEF Land, Frames
  <2> HIDE DEF f
  <2>2. Len(dst) = Len(Top.dir) + 1
    <3>1. Len(dst) \in Nat /\ Len(Parent(dst)) = Len(dst) - 1
      BY ParentIs, PathIs
    <3> QED
      BY <1>4, <3>1
  <2>3. \A from, to \in Paths : Fits(Top, from, to) => Fits(f, from, to)
    BY <1>1, <1>2, <1>4, <2>1, <2>2 DEF Fits, Stays
  <2> QED
    BY <1>1, <1>4, <2>1, <2>3, BatchGoesOnWith DEF f
<1>5. ASSUME NEW unreadable, Judge(unreadable)
      PROVE  BatchOK(work', fs', alive)
  <2> DEFINE name == Join(Top.dir, Name(Top.src))
             aside == dup_dest(Top.dir, Top.src)
  <2>1. name \in Paths \ {<<>>} /\ Parent(name) = Top.dir /\ (Top.dir = Parent(Top.src) => name = Top.src)
    BY <1>2, ParentIs, JoinIs
  <2>2. aside \in Paths \ {<<>>} /\ Parent(aside) = Top.dir /\ Longer(aside, Top.src)
    BY <1>2, dup_destIs
  <2>3. Go(<<>>, 1) \/ Go(<<Land(Top.src, name, FALSE)>>, 0) \/ Go(<<Land(Top.src, aside, TRUE)>>, 0)
    BY <1>5 DEF Judge
  <2> HIDE DEF name, aside
  <2> QED
    BY <1>3, <1>4, <2>1, <2>2, <2>3
<1> QED
  BY <1>3, <1>5 DEF HashAndCompare, Fault

\* Nothing lies below a file.
LEMMA FileAlone ==
    ASSUME Tree(fs), NEW src \in Paths \ {<<>>}, IsFile(src), NEW q \in DOMAIN fs, Above(src, q)
    PROVE  q = src
<1>1. q \in Paths /\ Len(src) \in Nat /\ Len(q) \in Nat /\ Len(src) # 0
  BY PathIs DEF Tree
<1>2. Len(src) <= Len(q) /\ src = SubSeq(q, 1, Len(src))
  BY <1>1, AboveIs
<1>3. CASE Len(src) = Len(q)
  BY <1>1, <1>3, AboveOrder
<1>4. CASE Len(src) < Len(q)
  <2> DEFINE n == Len(src)
  <2>1. n \in 1..Len(q) - 1 /\ SubSeq(q, 1, n) = src
    BY <1>1, <1>2, <1>4
  <2> HIDE DEF n
  <2>2. fs[src] \in Directories
    BY <2>1 DEF Tree
  <2> QED
    BY <2>2, FilesAssumption DEF IsFile
<1> QED
  BY <1>1, <1>2, <1>3, <1>4

\* A rename takes what lay below its source along, and leaves the rest.
LEMMA RenamedPoint ==
    ASSUME Tree(fs), NEW src \in Paths, NEW to \in Paths, NEW p \in DOMAIN Renamed(src, to)
    PROVE  \/ p \in DOMAIN fs \ Below(src) /\ Renamed(src, to)[p] = fs[p]
           \/ \E q \in Below(src) : p = Carried(q, src, to) /\ Renamed(src, to)[p] = fs[q]
<1> DEFINE landed == {Carried(q, src, to) : q \in Below(src)}
           value(q) == IF q \in landed THEN fs[Carried(q, to, src)] ELSE fs[q]
           new == (DOMAIN fs \ Below(src)) \cup landed
<1>1. Renamed(src, to) = [q \in new |-> value(q)]
  BY DEF Renamed
<1> HIDE DEF value, new
<1>2. p \in new /\ Renamed(src, to)[p] = value(p)
  BY <1>1
<1>3. CASE p \in landed
  <2>1. PICK q \in Below(src) : p = Carried(q, src, to)
    BY <1>3
  <2>2. q \in Paths /\ Above(src, q)
    BY <2>1 DEF Below, Tree
  <2>3. Carried(p, to, src) = q
    BY <2>1, <2>2, CarriedIs
  <2>4. value(p) = fs[q]
    BY <1>3, <2>3 DEF value
  <2> QED
    BY <1>2, <2>1, <2>4
<1>4. CASE p \notin landed
  BY <1>2, <1>4 DEF value, new
<1> QED
  BY <1>3, <1>4

LEMMA BatchMoves ==
    ASSUME IInv, work # None, work.stack # <<>>, BatchOK(work, fs, alive), Top.do \in {"land", "whole"},
           NEW to, to = IF Top.do = "land" THEN move_to(Top.src, Top.dst) ELSE move_dir_to(Top.src, Top.dst), to # None,
           NEW dup, Moved(to, dup)
    PROVE  BatchOK(work', fs', alive)
<1>1. WorkOK(work, panels, Stands(alive)) /\ Tree(fs) /\ Range(fs) \cap Files = alive
  BY DEF IInv
<1>2. Top \in Frames /\ Top.src \in Paths \ {<<>>} /\ Top.dst \in Paths \ {<<>>}
  <2>1. Top \in Frames /\ Top.src \in Paths \ {<<>>}
    BY <1>1, WentOn DEF Source
  <2> QED
    BY <2>1 DEF Frames
<1> DEFINE src == Top.src
           dst == Top.dst
<1>3. /\ to \in Paths \ {<<>>} /\ Parent(to) = Parent(dst) /\ Len(to) = Len(dst)
      /\ Len(Name(dst)) <= Len(Name(to)) /\ src # dst /\ (to = move_to(src, dst) => IsFile(src))
  <2>1. to = FirstFree(dst)
    BY DEF move_to, move_dir_to
  <2>2. to = move_to(src, dst) => src # dst /\ IsFile(src)
    BY DEF move_to
  <2>3. to = move_dir_to(src, dst) => src # dst
    BY <1>2, AboveOrder DEF move_dir_to
  <2> QED
    BY <1>1, <1>2, <2>1, <2>2, <2>3, FirstFreeIs DEF Tree
<1>4. /\ work \in [sources : {work.sources}, stack : {work.stack}, moved : {work.moved}, failed : Nat, dups : {work.dups},
                   quiet : {work.quiet}, was : {work.was}, began : {work.began}]
      /\ work.stack \in Seq(Frames)
  BY <1>1 DEF WorkOK, StackOK
<1> DEFINE stack2 == Tail(work.stack)
           moved2 == Append(work.moved, [from |-> Top.src, to |-> to])
           dups2 == IF dup THEN work.dups + 1 ELSE work.dups
<1>5. work' = [work EXCEPT !.stack = stack2, !.moved = moved2, !.dups = dups2] /\ fs' = Renamed(src, to)
  BY DEF Moved
<1> HIDE DEF stack2, moved2, dups2
<1>6. work'.stack = stack2 /\ work'.failed = work.failed /\ work'.began = work.began
  BY <1>4, <1>5
<1>7. Range(work.stack) = {Top} \cup Range(stack2)
  BY <1>4, RangeSplit DEF stack2, Top
<1>8. \A p \in DOMAIN fs' : \/ p \in DOMAIN fs \ Below(src) /\ fs'[p] = fs[p]
                            \/ \E q \in Below(src) : p = Carried(q, src, to) /\ fs'[p] = fs[q]
  BY <1>1, <1>2, <1>3, <1>5, RenamedPoint
<1>9. PICK from, goal \in Paths : Routed(work, fs, from, goal)
  BY DEF BatchOK
<1>10. /\ Above(from, src) /\ Above(goal, Parent(to)) /\ Len(to) + Len(from) = Len(src) + Len(goal)
       /\ Len(from) \in Nat /\ Len(goal) \in Nat /\ Len(src) \in Nat /\ Len(to) \in Nat
  <2>1. Fits(Top, from, goal)
    BY <1>7, <1>9 DEF Routed
  <2>2. Len(from) \in Nat /\ Len(goal) \in Nat /\ Len(src) \in Nat /\ Len(to) \in Nat
    BY <1>2, <1>3, PathIs
  <2> QED
    BY <1>3, <2>1, <2>2 DEF Fits
\* What was carried off has left the place the batch found it at, and does not come back to it.
<1>11. ASSUME NEW i \in DOMAIN work.began, NEW q \in Below(src), fs[q] = i
       PROVE  Off(work.began[i], Carried(q, src, to), from, goal) /\ Carried(q, src, to) # work.began[i]
  <2> DEFINE b == work.began[i]
             p == Carried(q, src, to)
  <2>1. b \in Paths /\ Above(from, b) /\ (q = b \/ Off(b, q, from, goal))
    BY <1>9, <1>11 DEF Routed, Below
  <2>2. q \in Paths /\ Above(src, q) /\ Len(q) \in Nat /\ Len(b) \in Nat
    BY <1>1, <2>1, PathIs DEF Below, Tree
  <2>3. p \in Paths /\ Len(p) = Len(to) + (Len(q) - Len(src)) /\ Above(to, p) /\ Len(p) \in Nat
    <3>1. p \in Paths /\ Len(p) = Len(to) + (Len(q) - Len(src)) /\ Above(to, p)
      <4>1. src \in Paths /\ to \in Paths /\ q \in Paths /\ Above(src, q)
        BY <1>2, <1>3, <2>2
      <4> HIDE DEF src
      <4> QED
        BY <4>1, CarriedIs
    <3> QED
      BY <3>1, PathIs
  <2> DEFINE lb == Len(b)
             lp == Len(p)
             lq == Len(q)
             ls == Len(src)
             lt == Len(to)
             lf == Len(from)
             lg == Len(goal)
  <2>10. /\ lb \in Nat /\ lp \in Nat /\ lq \in Nat /\ ls \in Nat /\ lt \in Nat /\ lf \in Nat /\ lg \in Nat
         /\ lp = lt + (lq - ls) /\ lt + lf = ls + lg
    BY <1>10, <2>2, <2>3
  <2>5. Above(goal, p)
    <3>1. Above(Parent(to), to) /\ Parent(to) \in Paths
      BY <1>3, ParentIs
    <3> QED
      BY <1>3, <1>10, <2>3, <3>1, AboveOrder
  <2>7. lq = lb \/ (lf < lg /\ lb < lq) \/ (lg < lf /\ lq < lb) \/ lf = lg
    BY <2>1 DEF Off
  <2>4. (lf < lg => lb < lp /\ lb # lp) /\ (lg < lf => lp < lb /\ lb # lp)
    <3> HIDE DEF lb, lp, lq, ls, lt, lf, lg
    <3> QED
      BY <2>7, <2>10
  <2> HIDE DEF p, b
  <2>11. CASE from = goal
    <3>1. Fits(Top, from, goal)
      BY <1>7, <1>9 DEF Routed
    <3>2. Top.do = "land" /\ Parent(dst) = Parent(src) /\ Longer(dst, src)
      BY <1>3, <2>11, <3>1 DEF Fits, Stays
    <3>3. IsFile(src)
      BY <1>3, <3>2
    <3>4. q = src
      BY <1>1, <1>2, <2>2, <3>3, FileAlone DEF Below
    <3>5. p = to
      BY <1>2, <1>3, <2>3, <3>4, AboveOrder DEF p
    <3>6. Len(Name(src)) \in Nat /\ Len(Name(dst)) \in Nat /\ Len(Name(to)) \in Nat
      BY <1>2, <1>3, NameLength
    <3>7. Longer(to, src)
      BY <1>3, <3>2, <3>6 DEF Longer
    <3>8. b # <<>> /\ Parent(to) = Parent(b) /\ Longer(to, b)
      <4>1. CASE q = b
        BY <1>2, <1>3, <3>2, <3>4, <3>7, <4>1
      <4>2. CASE Off(b, q, from, goal)
        <5>1. b # <<>> /\ Parent(q) = Parent(b) /\ Longer(q, b)
          BY <1>10, <2>11, <4>2 DEF Off
        <5>2. Len(Name(b)) < Len(Name(src)) /\ Len(Name(src)) < Len(Name(to))
          BY <3>4, <3>7, <5>1 DEF Longer
        <5>3. Len(Name(b)) \in Nat
          BY <2>1, <5>1, NameLength
        <5> QED
          BY <1>3, <3>2, <3>4, <3>6, <5>1, <5>2, <5>3 DEF Longer
      <4> QED
        BY <2>1, <4>1, <4>2
    <3>9. to # b
      <4>1. Len(Name(b)) < Len(Name(to))
        BY <3>8 DEF Longer
      <4> QED
        BY <3>6, <4>1
    <3>10. Off(b, p, from, goal) /\ p # b
      BY <2>11, <3>5, <3>8, <3>9 DEF Off
    <3> QED
      BY <3>10 DEF p, b
  <2>6. CASE Len(from) = Len(goal) /\ from # goal
    <3>1. Off(b, p, from, goal)
      BY <2>5, <2>6 DEF Off
    <3>2. ASSUME p = b PROVE FALSE
      <4>1. Above(goal, from)
        BY <1>10, <2>1, <2>5, <2>6, <3>2, AboveOrder
      <4> QED
        BY <2>6, <4>1, AboveOrder
    <3> QED
      BY <3>1, <3>2 DEF p, b
  <2>8. CASE Len(from) < Len(goal)
    <3>1. Len(b) < Len(p)
      BY <2>4, <2>8
    <3>2. Off(b, p, from, goal)
      BY <2>8, <3>1 DEF Off
    <3>3. p # b
      <4>1. Len(b) # Len(p)
        BY <2>4, <2>8
      <4> QED
        BY <4>1
    <3> QED
      BY <3>2, <3>3 DEF p, b
  <2>9. CASE Len(goal) < Len(from)
    <3>1. Len(p) < Len(b)
      BY <2>4, <2>9
    <3>2. Off(b, p, from, goal)
      BY <2>9, <3>1 DEF Off
    <3>3. p # b
      <4>1. Len(b) # Len(p)
        BY <2>4, <2>9
      <4> QED
        BY <4>1
    <3> QED
      BY <3>2, <3>3 DEF p, b
  <2> QED
    BY <1>10, <2>6, <2>8, <2>9, <2>11
<1>12. Routed(work', fs', from, goal)
  <2>1. \A f \in Range(work'.stack) : Fits(f, from, goal)
    BY <1>6, <1>7, <1>9 DEF Routed
  <2>2. ASSUME NEW i \in DOMAIN work'.began, NEW p \in DOMAIN fs', fs'[p] = i
        PROVE  p = work'.began[i] \/ Off(work'.began[i], p, from, goal)
    <3>1. i \in DOMAIN work.began /\ work'.began[i] = work.began[i]
      BY <1>6
    <3>2. CASE p \in DOMAIN fs /\ fs[p] = i
      BY <1>9, <3>1, <3>2 DEF Routed
    <3>3. CASE \E q \in Below(src) : p = Carried(q, src, to) /\ fs[q] = i
      BY <1>11, <3>1, <3>3
    <3> QED
      BY <1>8, <2>2, <3>2, <3>3
  <2>3. \A i \in DOMAIN work'.began : work'.began[i] \in Paths /\ Above(from, work'.began[i])
    BY <1>6, <1>9 DEF Routed
  <2> QED
    BY <2>1, <2>2, <2>3 DEF Routed
<1>13. Covered(work', fs')
  <2> SUFFICES ASSUME work'.failed = 0, NEW i \in DOMAIN work'.began,
                      work'.began[i] \in DOMAIN fs' /\ fs'[work'.began[i]] = i
               PROVE  \E f \in Range(work'.stack) : Above(f.src, work'.began[i])
    BY DEF Covered
  <2>1. i \in DOMAIN work.began /\ work'.began[i] = work.began[i] /\ work.failed = 0 /\ Covered(work, fs)
    BY <1>6 DEF BatchOK
  <2>2. work.began[i] \in DOMAIN fs \ Below(src) /\ fs[work.began[i]] = i
    <3> DEFINE p == work.began[i]
    <3>1. p \in DOMAIN fs' /\ fs'[p] = i
      BY <2>1
    <3>2. ASSUME NEW q \in Below(src), p = Carried(q, src, to), fs[q] = i PROVE FALSE
      BY <1>11, <2>1, <3>2
    <3> QED
      BY <1>8, <3>1, <3>2
  <2>3. PICK f \in Range(work.stack) : Above(f.src, work.began[i])
    BY <2>1, <2>2 DEF Covered
  <2>4. f # Top
    BY <2>2, <2>3 DEF Below
  <2> QED
    BY <1>6, <1>7, <2>1, <2>3, <2>4
<1>14. Counted(work')
  BY <1>6, <1>7 DEF BatchOK, Counted
<1>15. DOMAIN work'.began \subseteq alive
  BY <1>6 DEF BatchOK
<1> QED
  BY <1>9, <1>12, <1>13, <1>14, <1>15 DEF BatchOK

LEMMA BatchLands ==
    ASSUME IInv, LandFile \/ MoveWhole, BatchOK(work, fs, alive)
    PROVE  BatchOK(work', fs', alive)
<1>1. work # None /\ work.stack # <<>> /\ Top.do \in {"land", "whole"}
  BY DEF LandFile, MoveWhole, At, Top
<1>2. CASE Go(<<>>, 1) /\ UNCHANGED fs
  BY <1>1, <1>2, BatchDrops
<1>3. ASSUME NEW to, to = IF Top.do = "land" THEN move_to(Top.src, Top.dst) ELSE move_dir_to(Top.src, Top.dst), to # None,
             NEW dup, Moved(to, dup)
      PROVE  BatchOK(work', fs', alive)
  BY <1>1, <1>3, BatchMoves
<1>4. CASE LandFile
  BY <1>2, <1>3, <1>4 DEF LandFile, Fault, At, Top
<1>5. CASE MoveWhole
  BY <1>2, <1>3, <1>5 DEF MoveWhole, Fault, At, Top
<1> QED
  BY <1>4, <1>5

LEMMA BatchRemoves ==
    ASSUME IInv, RemoveMerged, BatchOK(work, fs, alive)
    PROVE  BatchOK(work', fs', alive)
<1>1. work # None /\ work.stack # <<>> /\ Top.do = "remove"
  BY DEF RemoveMerged, At, Top
<1>2. /\ WorkOK(work, panels, Stands(alive)) /\ Tree(fs) /\ Top \in Frames /\ Top.src \in Paths \ {<<>>}
      /\ work.failed \in Nat /\ Top.before \in Nat
  <2>1. WorkOK(work, panels, Stands(alive)) /\ Tree(fs)
    BY <1>1 DEF IInv
  <2>2. Top \in Frames /\ Top.src \in Paths \ {<<>>} /\ work.failed \in Nat
    BY <1>1, <2>1, WentOn DEF Source, WorkOK
  <2> QED
    BY <1>1, <2>1, <2>2 DEF Frames
<1> DEFINE frames == <<>>
<1>3. frames \in Seq(Frames) /\ Range(frames) = {}
  BY DEF Range
<1>4. Top.before <= work.failed
  <2>1. Top \in Range(work.stack)
    BY <1>1, <1>2, RangeSplit DEF WorkOK, StackOK, Top
  <2> QED
    BY <1>1, <2>1 DEF BatchOK, Counted
<1>5. RemovalFailure \in Nat /\ (work.failed = 0 => RemovalFailure # 0)
  BY <1>2, <1>4 DEF RemovalFailure
<1> HIDE DEF frames
<1>6. CASE UNCHANGED fs /\ Go(<<>>, RemovalFailure)
  <2>1. \A p \in DOMAIN fs' : fs'[p] \in Files => p \in DOMAIN fs /\ fs[p] = fs'[p]
    BY <1>6
  <2>2. Go(frames, RemovalFailure)
    BY <1>6 DEF frames
  <2> HIDE DEF RemovalFailure
  <2> QED
    BY <1>1, <1>3, <1>5, <2>1, <2>2, BatchGoesOn
<1>7. CASE Kids(Top.src) = {} /\ fs' = [p \in DOMAIN fs \ {Top.src} |-> fs[p]] /\ Go(<<>>, 0)
  <2>1. \A p \in DOMAIN fs' : p \in DOMAIN fs /\ fs[p] = fs'[p] /\ p # Top.src
    BY <1>7
  <2>2. ASSUME NEW p \in DOMAIN fs', Above(Top.src, p) PROVE FALSE
    <3> DEFINE n == Len(Top.src) + 1
               c == SubSeq(p, 1, n)
    <3>1. p \in DOMAIN fs /\ p \in Paths /\ p # Top.src
      BY <1>2, <2>1 DEF Tree
    <3>2. Len(Top.src) \in Nat /\ Len(p) \in Nat /\ Len(Top.src) < Len(p)
      BY <1>2, <2>2, <3>1, AboveIs, AboveOrder, PathIs
    <3>8. n \in 0..Len(p) /\ n \in Nat /\ n > Len(Top.src) /\ n <= Len(p)
      BY <3>2
    <3> HIDE DEF n
    <3>3. c \in Paths /\ Len(c) = n /\ \A i \in 1..n : c[i] = p[i]
      BY <3>1, <3>8, Upto
    <3> HIDE DEF c
    <3>9. c # <<>>
      BY <3>2, <3>3, <3>8, PathIs
    <3>4. Above(c, p)
      BY <3>1, <3>3, <3>8, AboveIs
    <3>5. c \in DOMAIN fs
      BY <1>2, <3>1, <3>3, <3>4, <3>9, TreeUp
    <3>6. Above(Top.src, c)
      <4>1. Len(Top.src) <= Len(c)
        BY <3>2, <3>3, <3>8
      <4> QED
        BY <1>2, <2>2, <3>1, <3>3, <3>4, <4>1, AboveOrder
    <3>7. Parent(c) = Top.src
      <4>1. Parent(c) \in Paths /\ Len(Parent(c)) = Len(c) - 1 /\ (Top.src = c \/ Above(Top.src, Parent(c)))
        BY <1>2, <3>3, <3>6, <3>9, ParentIs
      <4>2. Len(Parent(c)) = Len(Top.src) /\ Top.src # c
        BY <3>2, <3>3, <3>8, <4>1 DEF n
      <4> QED
        BY <1>2, <4>1, <4>2, AboveOrder
    <3> QED
      BY <1>7, <3>3, <3>5, <3>7 DEF Kids, n
  <2>3. Go(frames, 0)
    BY <1>7 DEF frames
  <2> QED
    BY <1>1, <1>3, <2>1, <2>2, <2>3, BatchGoesOn
<1> QED
  BY <1>6, <1>7 DEF RemoveMerged

LEMMA BatchTaken ==
    ASSUME IInv, Take, QueueOK
    PROVE  BatchOK(work', fs', alive')
<1> DEFINE request == Head(queue)
           sources == request.sources
           items == Items(sources, request.dir)
           ids == UNION {IdsBelow(s) : s \in Range(sources)}
           was == [i \in ids |-> CHOOSE p \in DOMAIN fs : fs[p] = i]
<1>1. queue # <<>> /\ UNCHANGED <<fs, alive>> /\ Tree(fs) /\ Range(fs) \cap Files = alive
  BY DEF Take, IInv
<1>2. request = queue[1] /\ 1 \in DOMAIN queue
  BY <1>1, TailIs DEF IInv, ReportsOK, Listed
<1>3. sources \in Seq(Paths) /\ request.dir \in Paths
  BY <1>2 DEF IInv, ReportsOK, RequestOK
<1>4. PICK from \in Paths : \A s \in Range(sources) : Above(from, s) /\ Parent(s) = from /\ Len(s) = Len(from) + 1
  BY <1>2 DEF QueueOK
<1>5. work'.stack = items /\ work'.failed = 0 /\ work'.began = was
  <2>1. work' = [sources |-> sources, stack |-> items, moved |-> <<>>, failed |-> 0, dups |-> 0, quiet |-> TRUE,
                 was |-> was, began |-> was]
    BY DEF Take
  <2> HIDE DEF was, items, sources
  <2> QED
    BY <2>1
<1>6. /\ items \in Seq(Frames) /\ DOMAIN items = DOMAIN sources
      /\ \A k \in DOMAIN items : items[k] = Item(sources[k], request.dir)
  BY <1>3, ItemsAre DEF Items
<1>7. ASSUME NEW i \in ids
      PROVE  i \in alive /\ \E s \in Range(sources) : was[i] \in DOMAIN fs /\ Above(s, was[i]) /\ fs[was[i]] = i
  <2>1. PICK s \in Range(sources) : i \in IdsBelow(s)
    BY <1>7
  <2>2. PICK q \in DOMAIN fs : Above(s, q) /\ fs[q] = i /\ i \in Files
    BY <2>1 DEF IdsBelow, Below
  <2>3. was[i] \in DOMAIN fs /\ fs[was[i]] = i
    BY <1>7, <2>2
  <2> HIDE DEF was, ids
  <2>4. was[i] = q
    BY <1>1, <2>2, <2>3 DEF Tree
  <2>5. i \in alive
    BY <1>1, <2>2 DEF Range
  <2> QED
    BY <2>1, <2>2, <2>4, <2>5
<1>8. DOMAIN was = ids
  OBVIOUS
<1> HIDE DEF was, ids, items, request
<1>9. ASSUME NEW f \in Range(work'.stack)
      PROVE  \E s \in Range(sources) : f = Item(s, request.dir)
  BY <1>5, <1>6, <1>9 DEF Range
<1>10. ASSUME NEW s \in Range(sources)
       PROVE  \E f \in Range(work'.stack) : f.src = s
  <2>1. PICK k \in DOMAIN items : sources[k] = s
    BY <1>6, <1>10 DEF Range
  <2>2. items[k] = Item(s, request.dir) /\ items[k] \in Range(items)
    BY <1>6, <2>1 DEF Range
  <2>3. items[k].src = s
    BY <2>2 DEF Item
  <2> QED
    BY <1>5, <2>2, <2>3
<1>11. \A s \in Range(sources) : s \in Paths
  BY <1>3 DEF Range
<1>12. Routed(work', fs', from, request.dir)
  <2>1. ASSUME NEW f \in Range(work'.stack) PROVE Fits(f, from, request.dir)
    <3>1. PICK s \in Range(sources) : f = Item(s, request.dir)
      BY <1>9, <2>1
    <3>2. f.do = "item" /\ f.src = s /\ f.dir = request.dir
      BY <3>1 DEF Item
    <3> DEFINE d == request.dir
               a == Len(from)
               b == Len(d)
               c == Len(s)
    <3>3. a \in Nat /\ b \in Nat /\ c = a + 1 /\ Above(d, d) /\ Above(from, s) /\ s \in Paths
      BY <1>3, <1>4, <1>11, AboveOrder, PathIs
    <3>4. b + 1 + a = c + b
      <4> HIDE DEF a, b, c
      <4> QED
        BY <3>3
    <3>5. from = d => Stays(f)
      BY <1>4, <3>1, <3>2 DEF Stays
    <3> QED
      BY <1>3, <3>2, <3>3, <3>4, <3>5 DEF Fits
  <2>2. ASSUME NEW i \in DOMAIN work'.began
        PROVE  /\ work'.began[i] \in Paths /\ Above(from, work'.began[i])
               /\ \A p \in DOMAIN fs' : fs'[p] = i => p = work'.began[i] \/ Off(work'.began[i], p, from, request.dir)
    <3> DEFINE b == was[i]
    <3>1. i \in ids /\ work'.began[i] = b
      BY <1>5, <1>8
    <3>2. PICK s \in Range(sources) : b \in DOMAIN fs /\ Above(s, b) /\ fs[b] = i /\ i \in alive
      BY <1>7, <3>1
    <3>3. b \in Paths /\ s \in Paths /\ Above(from, s)
      BY <1>1, <1>4, <1>11, <3>2 DEF Tree
    <3>4. Above(from, b)
      BY <3>2, <3>3, AboveOrder
    <3>5. \A p \in DOMAIN fs : fs[p] = i => p = b
      BY <1>1, <3>2 DEF Tree
    <3> QED
      BY <1>1, <3>1, <3>3, <3>4, <3>5
  <2> QED
    BY <2>1, <2>2 DEF Routed
<1>13. Covered(work', fs')
  <2> SUFFICES ASSUME NEW i \in DOMAIN work'.began
               PROVE  \E f \in Range(work'.stack) : Above(f.src, work'.began[i])
    BY DEF Covered
  <2>1. PICK s \in Range(sources) : Above(s, work'.began[i])
    BY <1>5, <1>7, <1>8
  <2> QED
    BY <1>10, <2>1
<1>14. Counted(work')
  <2>1. ASSUME NEW f \in Range(work'.stack) PROVE f.do # "remove"
    BY <1>9, <2>1 DEF Item
  <2> QED
    BY <2>1 DEF Counted
<1>15. DOMAIN work'.began \subseteq alive'
  BY <1>1, <1>5, <1>7, <1>8
<1> QED
  BY <1>3, <1>4, <1>12, <1>13, <1>14, <1>15 DEF BatchOK

\* The batch answers for a file that others left alone as before, and for one that they put below
\* what it has yet to deal with.
LEMMA BatchDisturbed ==
    ASSUME IInv, work # None, BatchOK(work, fs, alive), NEW gone, NEW new, Disturb(gone, new),
           (DOMAIN work.began \ gone) \cup DOMAIN new \subseteq alive',
           \A i \in DOMAIN work.began \ gone : \A p \in DOMAIN fs' : fs'[p] = i => p \in DOMAIN fs /\ fs[p] = i,
           \A i \in DOMAIN new : /\ new[i] \in Paths /\ \E f \in Range(work.stack) : Above(f.src, new[i])
                                 /\ \A p \in DOMAIN fs' : fs'[p] = i => p = new[i],
           DOMAIN new \cap DOMAIN work.began = {}
    PROVE  BatchOK(work', fs', alive')
<1> DEFINE began2 == [i \in (DOMAIN work.began \ gone) \cup DOMAIN new |-> IF i \in DOMAIN new THEN new[i] ELSE work.began[i]]
<1>1. work \in [sources : {work.sources}, stack : {work.stack}, moved : {work.moved}, failed : Nat, dups : Nat,
                quiet : BOOLEAN, was : {work.was}, began : {work.began}]
  BY DEF IInv, WorkOK
<1>2. work' = [work EXCEPT !.quiet = FALSE, !.began = began2]
  BY DEF Disturb
<1>3. /\ DOMAIN began2 = (DOMAIN work.began \ gone) \cup DOMAIN new
      /\ \A i \in DOMAIN new : began2[i] = new[i]
      /\ \A i \in DOMAIN work.began \ gone : began2[i] = work.began[i]
  OBVIOUS
<1> HIDE DEF began2
<1>4. work'.stack = work.stack /\ work'.failed = work.failed /\ work'.began = began2
  BY <1>1, <1>2
<1>5. PICK from, to \in Paths : Routed(work, fs, from, to)
  BY DEF BatchOK
<1>6. Routed(work', fs', from, to)
  <2>1. \A f \in Range(work'.stack) : Fits(f, from, to)
    BY <1>4, <1>5 DEF Routed
  <2>2. ASSUME NEW i \in DOMAIN began2
        PROVE  /\ began2[i] \in Paths /\ Above(from, began2[i])
               /\ \A p \in DOMAIN fs' : fs'[p] = i => p = began2[i] \/ Off(began2[i], p, from, to)
    <3>1. CASE i \in DOMAIN new
      <4>1. PICK f \in Range(work.stack) : Above(f.src, new[i])
        BY <3>1
      <4>2. f.src \in Paths /\ Above(from, f.src) /\ new[i] \in Paths
        BY <1>5, <3>1 DEF Routed, Fits
      <4>3. Above(from, new[i])
        BY <4>1, <4>2, AboveOrder
      <4> QED
        BY <1>3, <3>1, <4>2, <4>3
    <3>2. CASE i \in DOMAIN work.began \ gone
      BY <1>3, <1>5, <3>2 DEF Routed
    <3> QED
      BY <1>3, <3>1, <3>2
  <2> QED
    BY <1>4, <2>1, <2>2 DEF Routed
<1>7. Covered(work', fs')
  <2> SUFFICES ASSUME work'.failed = 0, NEW i \in DOMAIN began2, began2[i] \in DOMAIN fs' /\ fs'[began2[i]] = i
               PROVE  \E f \in Range(work.stack) : Above(f.src, began2[i])
    BY <1>4 DEF Covered
  <2>1. CASE i \in DOMAIN new
    BY <1>3, <2>1
  <2>2. CASE i \in DOMAIN work.began \ gone
    <3>1. began2[i] = work.began[i] /\ Covered(work, fs) /\ work.failed = 0
      BY <1>3, <1>4, <2>2 DEF BatchOK
    <3> QED
      BY <2>2, <3>1 DEF Covered
  <2> QED
    BY <1>3, <2>1, <2>2
<1>8. Counted(work')
  BY <1>4 DEF BatchOK, Counted
<1> QED
  BY <1>3, <1>4, <1>5, <1>6, <1>7, <1>8 DEF BatchOK

LEMMA BatchUndisturbed ==
    ASSUME IInv, work # None, BatchOK(work, fs, alive), NEW gone, Disturb(gone, <<>>),
           DOMAIN work.began \ gone \subseteq alive',
           \A i \in DOMAIN work.began \ gone : \A p \in DOMAIN fs' : fs'[p] = i => p \in DOMAIN fs /\ fs[p] = i
    PROVE  BatchOK(work', fs', alive')
<1> DEFINE new == <<>>
<1>1. DOMAIN new = {} /\ Disturb(gone, new)
  OBVIOUS
<1> HIDE DEF new
<1> QED
  BY <1>1, BatchDisturbed

LEMMA BatchBesideMakeParent ==
    ASSUME IInv, MakeParent, work # None, BatchOK(work, fs, alive)
    PROVE  BatchOK(work', fs', alive')
<1>1. /\ fs' = WithDirs(Parent(Back.from)) /\ Disturb({}, <<>>) /\ UNCHANGED alive
      /\ DOMAIN work.began \subseteq alive /\ alive \subseteq Files
  BY DEF MakeParent, BatchOK, IInv
<1>2. ASSUME NEW p \in DOMAIN fs', fs'[p] \in Files PROVE p \in DOMAIN fs /\ fs[p] = fs'[p]
  <2>1. Dir \notin Files
    BY PlainIs
  <2> DEFINE d == Parent(Back.from)
             new == {SubSeq(d, 1, n) : n \in 1..Len(d)} \ DOMAIN fs
  <2>2. PICK D : fs' = [q \in D |-> IF q \in new THEN Dir ELSE fs[q]] /\ D \subseteq DOMAIN fs \cup new
    BY <1>1 DEF WithDirs
  <2> HIDE DEF new
  <2> QED
    BY <1>2, <2>1, <2>2
<1> QED
  BY <1>1, <1>2, BatchUndisturbed

LEMMA BatchBesideUndo ==
    ASSUME IInv, restore_one, work # None, BatchOK(work, fs, alive)
    PROVE  BatchOK(work', fs', alive')
<1>1. UNCHANGED alive /\ undo # None /\ undo.todo # <<>> /\ DOMAIN work.began \subseteq alive /\ alive \subseteq Files
  BY DEF restore_one, BatchOK, IInv
<1>2. CASE UNCHANGED <<fs, work>>
  BY <1>1, <1>2
<1>3. CASE Restored # None /\ fs' = Renamed(Back.to, Restored) /\ Disturb(IdsBelow(Back.to), <<>>)
  <2> DEFINE src == Back.to
             to == Restored
             gone == IdsBelow(src)
  <2>1. Tree(fs) /\ src \in Paths \ {<<>>} /\ to \in Paths
    <3>1. Tree(fs) /\ Back.to \in Paths \ {<<>>} /\ Back.from \in Paths \ {<<>>}
      BY <1>1, UndoIs
    <3> QED
      BY <1>3, <3>1, TargetIs DEF Restored
  <2>2. fs' = Renamed(src, to) /\ Disturb(gone, <<>>)
    BY <1>3
  <2>3. ASSUME NEW i \in DOMAIN work.began \ gone, NEW p \in DOMAIN fs', fs'[p] = i
        PROVE  p \in DOMAIN fs /\ fs[p] = i
    <3>1. i \in Files /\ ~\E q \in Below(src) : fs[q] = i
      BY <1>1, <2>3 DEF IdsBelow
    <3> HIDE DEF src, to
    <3>2. \/ p \in DOMAIN fs \ Below(src) /\ fs'[p] = fs[p]
          \/ \E q \in Below(src) : p = Carried(q, src, to) /\ fs'[p] = fs[q]
      BY <2>1, <2>2, RenamedPoint
    <3> QED
      BY <2>3, <3>1, <3>2
  <2> HIDE DEF src, to, gone
  <2> QED
    BY <1>1, <2>2, <2>3, BatchUndisturbed
<1> QED
  BY <1>2, <1>3 DEF restore_one

LEMMA BatchBesideCreate ==
    ASSUME IInv, Create, work # None, BatchOK(work, fs, alive)
    PROVE  BatchOK(work', fs', alive')
<1>1. PICK d \in {p \in DOMAIN fs : IsDir(p)}, n \in StrangeNames, i \in Strangers \ alive :
         /\ Join(d, n) \notin DOMAIN fs
         /\ fs' = [p \in DOMAIN fs \cup {Join(d, n)} |-> IF p \in DOMAIN fs THEN fs[p] ELSE i]
         /\ alive' = alive \cup {i}
         /\ Disturb({}, [j \in LateFor(d, i) |-> Join(d, n)])
  BY DEF Create
<1> DEFINE q == Join(d, n)
           late == LateFor(d, i)
           new == [j \in late |-> q]
<1>2. /\ Tree(fs) /\ Range(fs) \cap Files = alive /\ DOMAIN work.began \subseteq alive
      /\ WorkOK(work, panels, Stands(alive))
  BY DEF IInv, BatchOK
<1>3. d \in Paths /\ n \in Names /\ i \in Files
  BY <1>2, FilesAssumption DEF Tree
<1>4. q \in Paths \ {<<>>} /\ Above(d, q)
  <2>1. q \in Paths \ {<<>>} /\ Parent(q) = d
    BY <1>3, JoinIs
  <2> QED
    BY <2>1, ParentIs
<1>5. /\ DOMAIN fs' = DOMAIN fs \cup {q} /\ \A p \in DOMAIN fs : fs'[p] = fs[p]
      /\ \A p \in DOMAIN fs : fs[p] # i
  <2>1. ASSUME NEW p \in DOMAIN fs, fs[p] = i PROVE FALSE
    BY <1>2, <1>3, <2>1 DEF Range
  <2> QED
    BY <1>1, <2>1
<1>6. fs'[q] = i
  BY <1>1
<1>7. late \subseteq {i} /\ (late # {} => \E f \in Range(work.stack) : Above(f.src, d))
  BY DEF LateFor
<1>8. DOMAIN new = late /\ \A j \in late : new[j] = q
  OBVIOUS
<1>9. Disturb({}, new)
  BY <1>1
<1> HIDE DEF new, late, q
<1>10. ASSUME NEW j \in DOMAIN new
       PROVE  /\ new[j] \in Paths /\ \E f \in Range(work.stack) : Above(f.src, new[j])
              /\ \A p \in DOMAIN fs' : fs'[p] = j => p = new[j]
  <2>1. j = i /\ new[j] = q
    BY <1>7, <1>8
  <2>2. PICK f \in Range(work.stack) : Above(f.src, d)
    BY <1>7, <1>8
  <2>3. f.src \in Paths
    BY <2>2 DEF BatchOK, Routed, Fits
  <2>4. Above(f.src, q)
    BY <1>3, <1>4, <2>2, <2>3, AboveOrder
  <2>5. \A p \in DOMAIN fs' : fs'[p] = i => p = q
    BY <1>5
  <2> QED
    BY <1>4, <2>1, <2>2, <2>4, <2>5
<1>11. ASSUME NEW j \in DOMAIN work.began, NEW p \in DOMAIN fs', fs'[p] = j PROVE p \in DOMAIN fs /\ fs[p] = j
  <2>1. j # i
    BY <1>2
  <2> QED
    BY <1>5, <1>6, <1>11, <2>1
<1>12. (DOMAIN work.began \ {}) \cup DOMAIN new \subseteq alive' /\ DOMAIN new \cap DOMAIN work.began = {}
  BY <1>1, <1>2, <1>7, <1>8
<1> QED
  BY <1>9, <1>10, <1>11, <1>12, BatchDisturbed

LEMMA BatchBesideUnlink ==
    ASSUME IInv, Unlink, work # None, BatchOK(work, fs, alive)
    PROVE  BatchOK(work', fs', alive')
<1>1. PICK p \in {q \in DOMAIN fs : IsFile(q)} \ DOMAIN StateFiles :
         fs' = [q \in DOMAIN fs \ {p} |-> fs[q]] /\ alive' = alive \ {fs[p]} /\ Disturb({fs[p]}, <<>>)
  BY DEF Unlink
<1>2. DOMAIN work.began \ {fs[p]} \subseteq alive'
  BY <1>1 DEF BatchOK
<1>3. \A q \in DOMAIN fs' : q \in DOMAIN fs /\ fs'[q] = fs[q]
  BY <1>1
<1> QED
  BY <1>1, <1>2, <1>3, BatchUndisturbed

\* A batch that is sent goes from one panel to another.
LEMMA QueueKeeps ==
    ASSUME IInv, QueueOK, [Next]_vars
    PROVE  QueueOK'
<1>1. queue \in Seq(Range(queue)) /\ Listed(queue)
  BY DEF IInv, ReportsOK, Listed
<1>2. CASE Take
  <2>1. queue' = Tail(queue) /\ queue # <<>>
    BY <1>2 DEF Take
  <2>2. \A k \in DOMAIN queue' : \E j \in DOMAIN queue : queue'[k] = queue[j]
    BY <1>1, <2>1, TailIs
  <2> QED
    BY <2>2 DEF QueueOK
<1>3. CASE Send
  <2> DEFINE Sent(sources, dir) == queue' = Append(queue, [sources |-> sources, dir |-> dir]) \/ UNCHANGED queue
  <2>1. PICK from \in Range(panels), to \in Range(panels) : \E sources \in Batches(from) : Sent(sources, to)
    BY <1>3 DEF Send, spawn_move, OnSnapshotFailure, Range
  <2>2. PICK sources \in Batches(from) : Sent(sources, to)
    BY <2>1
  <2> DEFINE r == [sources |-> sources, dir |-> to]
  <2>3. queue' = Append(queue, r) \/ UNCHANGED queue
    BY <2>2
  <2>4. \A k \in DOMAIN queue' : queue'[k] = r \/ \E j \in DOMAIN queue : queue'[k] = queue[j]
    <3> HIDE DEF r
    <3>1. CASE UNCHANGED queue
      BY <3>1
    <3>2. CASE queue' = Append(queue, r)
      <4>1. \A k \in DOMAIN queue' : queue'[k] = r \/ (k \in DOMAIN queue /\ queue'[k] = queue[k])
        BY <1>1, <3>2, AppendedIs
      <4> QED
        BY <4>1
    <3> QED
      BY <2>3, <3>1, <3>2
  <2>5. from \in Paths /\ Tree(fs)
    BY ShownAre DEF IInv
  <2>6. \A s \in Range(sources) : Above(from, s) /\ Parent(s) = from /\ Len(s) = Len(from) + 1
    <3>1. PICK some \in SUBSET Kids(from) : sources \in SetToSeqs(some)
      BY DEF Batches
    <3>2. IsFiniteSet(some)
      <4>1. some \subseteq DOMAIN fs
        BY <3>1 DEF Kids
      <4> QED
        BY <2>5, <4>1, FS_Subset DEF Tree
    <3>3. \A k \in DOMAIN sources : sources[k] \in Kids(from)
      BY <3>1, <3>2, OrderIs
    <3>4. \A c \in Kids(from) : Above(from, c) /\ Parent(c) = from /\ Len(c) = Len(from) + 1
      BY <2>5, KidIs DEF Kids
    <3> QED
      BY <3>3, <3>4 DEF Range
  <2>7. r.dir = to /\ r.sources = sources
    OBVIOUS
  <2> HIDE DEF r
  <2> QED
    BY <2>1, <2>4, <2>5, <2>6, <2>7 DEF QueueOK
<1>4. CASE UNCHANGED queue
  BY <1>4 DEF QueueOK
<1> QED
  BY <1>2, <1>3, <1>4
     DEF Next, Worker, Interface, Look, HashAndCompare, LandFile, MoveWhole, RemoveMerged, WorkerOnly, Finish, Panic,
         undo_last_move, apply_move_outcome, MakeParent, restore_one, UndoEnds, Create, Unlink, Rest, vars

LEMMA BatchKeeps ==
    ASSUME IInv, QueueOK, work # None => BatchOK(work, fs, alive), [Next]_vars
    PROVE  (work # None => BatchOK(work, fs, alive))'
<1> SUFFICES ASSUME work' # None PROVE BatchOK(work', fs', alive')
  BY DEF BatchOK, Routed, Covered
<1>1. CASE Take
  BY <1>1, BatchTaken
<1>2. CASE Look
  <2>1. work # None /\ UNCHANGED alive
    BY <1>2 DEF Look, At, WorkerOnly
  <2> QED
    BY <1>2, <2>1, BatchLooks
<1>3. CASE HashAndCompare
  <2>1. work # None /\ UNCHANGED alive
    BY <1>3 DEF HashAndCompare, At, WorkerOnly
  <2> QED
    BY <1>3, <2>1, BatchJudges
<1>4. CASE LandFile \/ MoveWhole
  <2>1. work # None /\ UNCHANGED alive
    BY <1>4 DEF LandFile, MoveWhole, At, WorkerOnly
  <2> QED
    BY <1>4, <2>1, BatchLands
<1>5. CASE RemoveMerged
  <2>1. work # None /\ UNCHANGED alive
    BY <1>5 DEF RemoveMerged, At, WorkerOnly
  <2> QED
    BY <1>5, <2>1, BatchRemoves
<1>6. CASE MakeParent \/ restore_one \/ Create \/ Unlink
  <2>1. work # None
    <3>1. CASE restore_one
      BY <3>1 DEF restore_one, Disturb
    <3>2. CASE MakeParent \/ Create \/ Unlink
      BY <3>2 DEF MakeParent, Create, Unlink, Disturb
    <3> QED
      BY <1>6, <3>1, <3>2
  <2> QED
    BY <1>6, <2>1, BatchBesideMakeParent, BatchBesideUndo, BatchBesideCreate, BatchBesideUnlink
<1>7. CASE UNCHANGED <<fs, work, alive>>
  BY <1>7
<1>8. CASE Finish \/ Panic
  BY <1>8 DEF Finish, Panic
<1> QED
  BY <1>1, <1>2, <1>3, <1>4, <1>5, <1>6, <1>7, <1>8
     DEF Next, Worker, Interface, Send, undo_last_move, apply_move_outcome, UndoEnds, Rest, vars

\* With nothing left to do there is no frame above what was not moved.
LEMMA ReportsKeep ==
    ASSUME IInv, CleanInv, [Next]_vars
    PROVE  CleanMeansMoved'
<1>1. Listed(done) /\ done \in Seq(Range(done))
  BY DEF IInv, ReportsOK, Listed
<1>2. ASSUME NEW r, done' = Append(done, r), r.failed = 0 => r.stayed = {}
      PROVE  CleanMeansMoved'
  <2>1. \A i \in DOMAIN done' : done'[i] = r \/ (i \in DOMAIN done /\ done'[i] = done[i])
    BY <1>1, <1>2, AppendedIs
  <2> QED
    BY <1>2, <2>1 DEF CleanInv, CleanMeansMoved
<1>3. CASE Finish
  <2> DEFINE stayed == {i \in DOMAIN work.began : Lies(i, work.began[i])}
             r == Report(work.moved, work.failed, work.was, stayed)
  <2>1. work # None /\ work.stack = <<>> /\ done' = Append(done, r)
    BY <1>3 DEF Finish
  <2>2. Covered(work, fs) /\ Range(work.stack) = {}
    BY <2>1 DEF CleanInv, BatchOK, Range
  <2>3. work.failed = 0 => stayed = {}
    BY <2>2 DEF Covered, Lies
  <2>4. r.failed = work.failed /\ r.stayed = stayed
    BY DEF Report
  <2> HIDE DEF r, stayed
  <2> QED
    BY <1>2, <2>1, <2>3, <2>4
<1>4. CASE Panic
  <2> DEFINE r == Report(<<>>, Len(work.sources), <<>>, {})
  <2>1. done' = done \o <<r>> /\ r.stayed = {}
    BY <1>4 DEF Panic, PanicReported, Report
  <2> HIDE DEF r
  <2>2. done' = Append(done, r)
    <3>1. Len(done) \in Nat /\ done = [i \in 1..Len(done) |-> done[i]]
          /\ \A i \in 1..Len(done) : done[i] \in Range(done) \cup {r}
      BY <1>1, LenProperties, ElementOfSeq
    <3>2. [i \in 1..Len(done) |-> done[i]] \in Seq(Range(done) \cup {r})
      BY <3>1, IsASeq
    <3>3. done \in Seq(Range(done) \cup {r}) /\ r \in Range(done) \cup {r}
      BY <3>1, <3>2
    <3>4. Append(done, r) = done \o <<r>>
      BY <3>3, AppendIsConcat
    <3> QED
      BY <2>1, <3>4
  <2> QED
    BY <1>2, <2>1, <2>2
<1>5. CASE apply_move_outcome
  <2>1. done # <<>> /\ done' = Tail(done)
    BY <1>5 DEF apply_move_outcome
  <2>2. \A k \in DOMAIN done' : \E j \in DOMAIN done : done'[k] = done[j]
    BY <1>1, <2>1, TailIs
  <2> QED
    BY <2>2 DEF CleanInv, CleanMeansMoved
<1>6. CASE UNCHANGED done
  BY <1>6 DEF CleanInv, CleanMeansMoved
<1> QED
  BY <1>3, <1>4, <1>5, <1>6
     DEF Next, Worker, Interface, Take, Look, HashAndCompare, LandFile, MoveWhole, RemoveMerged, WorkerOnly, Send,
         undo_last_move, MakeParent, restore_one, UndoEnds, Create, Unlink, Rest, vars

\* MoveOutcome.failed: a batch whose report counts no error has left nothing of what it found, and
\* nothing that was put there before it was through, where it lay, whatever merge was interrupted,
\* removal refused or file moved back meanwhile.
THEOREM CleanBatchesAreMoved == Spec => []CleanMeansMoved
<1>1. Init => CleanInv
  <2> SUFFICES ASSUME Init PROVE CleanInv
    OBVIOUS
  <2>1. queue = <<>> /\ done = <<>> /\ work = None
    BY DEF Init
  <2> QED
    BY <2>1 DEF CleanInv, QueueOK, CleanMeansMoved
<1>2. IInv /\ CleanInv /\ [Next]_vars => CleanInv'
  <2> SUFFICES ASSUME IInv, CleanInv, [Next]_vars PROVE CleanInv'
    OBVIOUS
  <2>1. QueueOK /\ (work # None => BatchOK(work, fs, alive))
    BY DEF CleanInv
  <2>2. QueueOK' /\ (work # None => BatchOK(work, fs, alive))' /\ CleanMeansMoved'
    BY <2>1, QueueKeeps, BatchKeeps, ReportsKeep
  <2> QED
    BY <2>2 DEF CleanInv
<1>3. CleanInv => CleanMeansMoved
  BY DEF CleanInv
<1>4. Spec => []IInv
  BY Inductive
<1> QED
  BY <1>1, <1>2, <1>3, <1>4, PTL DEF Spec

-----------------------------------------------------------------------------
(***************************************************************************)
(* Taking back what was moved.                                             *)
(*                                                                         *)
(* A move is taken back from a tree that may have lost some of the empty   *)
(* directories the move left: a merge removed them. So each tree of the    *)
(* history only lies within the one it was made from, and so does what is  *)
(* left when a move has been taken back.                                   *)
(***************************************************************************)
\* What is at a path of a tree is there in the other, which has more directories at most.
Within(tree, wider) ==
    /\ DOMAIN tree \subseteq DOMAIN wider
    /\ \A p \in DOMAIN tree : tree[p] = wider[p]
    /\ \A p \in DOMAIN wider \ DOMAIN tree : wider[p] = Dir

\* The one tree is the other with all that was above src under dst instead.
Renames(tree, src, dst, new) ==
    /\ \A p \in DOMAIN tree : ~Above(src, p) => p \in DOMAIN new /\ new[p] = tree[p]
    /\ \A p \in DOMAIN tree : Above(src, p) =>
          Carried(p, src, dst) \in DOMAIN new /\ new[Carried(p, src, dst)] = tree[p]
    /\ \A p \in DOMAIN new : \/ p \in DOMAIN tree /\ ~Above(src, p)
                             \/ \E q \in DOMAIN tree : Above(src, q) /\ p = Carried(q, src, dst)

\* The datasets mounted on the way to a path.
MountedOver(tree, p) == {tree[q] : q \in {x \in DOMAIN tree : Above(x, p)}} \cap Datasets

\* A move of an item of a tree, as move_to and move_dir_to make it.
Takes(tree, e, new) ==
    /\ Tree(tree) /\ e \in MovedItems /\ e.from \in DOMAIN tree /\ e.to \notin DOMAIN tree
    /\ tree[e.from] \in Files \cup {Dir} /\ Parent(e.from) # <<>>
    /\ \A q \in DOMAIN tree : Above(e.from, q) => tree[q] \notin {Database, LockFile}
    /\ ~Above(e.from, Parent(e.to)) /\ MountedOver(tree, Parent(e.from)) = MountedOver(tree, Parent(e.to))
    /\ Renames(tree, e.from, e.to, new)

LEMMA WithinOrder ==
    ASSUME NEW t, NEW u, NEW v, Within(t, u), Within(u, v)
    PROVE  Within(t, v)
<1>1. DOMAIN t \subseteq DOMAIN v /\ \A p \in DOMAIN t : t[p] = v[p]
  BY DEF Within
<1>2. ASSUME NEW p \in DOMAIN v \ DOMAIN t PROVE v[p] = Dir
  <2>1. CASE p \in DOMAIN u
    <3>1. u[p] = v[p] /\ u[p] = Dir
      BY <1>2, <2>1 DEF Within
    <3> QED BY <3>1
  <2>2. CASE p \notin DOMAIN u
    BY <1>2, <2>2 DEF Within
  <2> QED BY <2>1, <2>2
<1> QED BY <1>1, <1>2 DEF Within

LEMMA WithinItself == ASSUME NEW t PROVE Within(t, t)
  BY DEF Within

\* What is above a path of any tree is a directory of it.
LEMMA UpIn ==
    ASSUME NEW t, Tree(t), NEW p \in DOMAIN t, NEW q \in Paths, q # <<>>, Above(q, p)
    PROVE  q \in DOMAIN t /\ (q # p => t[q] \in Directories)
<1>1. p \in Paths
  BY DEF Tree
<1>2. q = SubSeq(p, 1, Len(q)) /\ Len(q) <= Len(p) /\ Len(q) \in Nat \ {0} /\ Len(p) \in Nat
  BY <1>1, AboveIs, PathIs
<1>3. CASE Len(q) = Len(p)
  BY <1>1, <1>3, AboveOrder
<1>4. CASE Len(q) # Len(p)
  <2>1. Len(q) \in 1..Len(p) - 1
    BY <1>2, <1>4
  <2>2. SubSeq(p, 1, Len(q)) \in DOMAIN t /\ t[SubSeq(p, 1, Len(q))] \in Directories
    BY <2>1 DEF Tree
  <2> QED BY <1>2, <2>2
<1> QED BY <1>3, <1>4

\* A rename of the file system's.
LEMMA RenamedRenames ==
    ASSUME Tree(fs), NEW src \in DOMAIN fs, NEW to \in Paths \ {<<>>}, to \notin DOMAIN fs,
           Parent(to) \in DOMAIN fs, fs[Parent(to)] \in Directories, ~Above(src, Parent(to))
    PROVE  Renames(fs, src, to, Renamed(src, to))
<1> DEFINE R == Renamed(src, to)
<1>1. src \in Paths /\ to \in Paths
  BY DEF Tree
<1>2. \A p \in DOMAIN fs \ Below(src) : p \in DOMAIN R /\ R[p] = fs[p]
  BY RenamedIs
<1>3. ASSUME NEW p \in DOMAIN fs, Above(src, p)
      PROVE  Carried(p, src, to) \in DOMAIN R /\ R[Carried(p, src, to)] = fs[p]
  <2>1. p \in Paths /\ p \in Below(src)
    BY <1>3 DEF Tree, Below
  <2>2. Carried(Carried(p, src, to), to, src) = p
    BY <1>1, <1>3, <2>1, CarriedIs
  <2> QED BY <2>1, <2>2 DEF Renamed
<1>4. ASSUME NEW p \in DOMAIN R
      PROVE  \/ p \in DOMAIN fs /\ ~Above(src, p)
             \/ \E q \in DOMAIN fs : Above(src, q) /\ p = Carried(q, src, to)
  BY <1>1, <1>4, RenamedPoint DEF Below
<1> HIDE DEF R
<1>5. Renames(fs, src, to, R)
  BY <1>2, <1>3, <1>4 DEF Renames, Below
<1> QED BY <1>5 DEF R

\* What there is in the tree a move was made from, and in the one it made.
LEMMA TakesIs ==
    ASSUME NEW t, NEW e, NEW new, Takes(t, e, new)
    PROVE  /\ e.from \in Paths \ {<<>>} /\ e.to \in Paths \ {<<>>} /\ DOMAIN t \subseteq Paths \ {<<>>}
           /\ DOMAIN new \subseteq Paths
           /\ \A p \in DOMAIN t : ~Above(e.to, p)
           /\ ~Above(e.to, e.from)
           /\ \A p \in DOMAIN new : ~Above(e.to, p) => p \in DOMAIN t /\ ~Above(e.from, p) /\ new[p] = t[p]
           /\ \A p \in DOMAIN new : Above(e.to, p) =>
                 \E q \in DOMAIN t : /\ Above(e.from, q) /\ p = Carried(q, e.from, e.to) /\ new[p] = t[q]
                                     /\ Carried(p, e.to, e.from) = q
<1>1. e.from \in Paths \ {<<>>} /\ e.to \in Paths \ {<<>>} /\ DOMAIN t \subseteq Paths \ {<<>>}
  BY DEF Takes, MovedItems, Tree
<1>2. \A p \in DOMAIN t : ~Above(e.to, p)
  BY <1>1, UpIn DEF Takes
<1>3. Renames(t, e.from, e.to, new) /\ e.from \in DOMAIN t
  BY DEF Takes
<1>4. \A q \in DOMAIN t : Above(e.from, q) =>
         /\ Carried(q, e.from, e.to) \in Paths /\ Above(e.to, Carried(q, e.from, e.to))
         /\ Carried(Carried(q, e.from, e.to), e.to, e.from) = q
  BY <1>1, CarriedIs
<1>5. \A p \in DOMAIN new : ~Above(e.to, p) => p \in DOMAIN t /\ ~Above(e.from, p) /\ new[p] = t[p]
  BY <1>3, <1>4 DEF Renames
<1>6. ASSUME NEW p \in DOMAIN new, Above(e.to, p)
      PROVE  \E q \in DOMAIN t : /\ Above(e.from, q) /\ p = Carried(q, e.from, e.to) /\ new[p] = t[q]
                                 /\ Carried(p, e.to, e.from) = q
  <2>1. PICK q \in DOMAIN t : Above(e.from, q) /\ p = Carried(q, e.from, e.to)
    BY <1>2, <1>3, <1>6 DEF Renames
  <2>2. new[p] = t[q]
    BY <1>3, <2>1 DEF Renames
  <2> QED BY <1>4, <2>1, <2>2
<1>7. DOMAIN new \subseteq Paths
  BY <1>1, <1>3, <1>4 DEF Renames
<1> QED BY <1>1, <1>2, <1>3, <1>5, <1>6, <1>7

\* What was moved is taken back from a tree that has lost no more than directories.
LEMMA TakenBack ==
    ASSUME NEW t, NEW e, NEW new, Takes(t, e, new), NEW c, Within(c, new), NEW back, Renames(c, e.to, e.from, back)
    PROVE  Within(back, t)
<1>1. /\ e.from \in Paths \ {<<>>} /\ e.to \in Paths \ {<<>>} /\ DOMAIN t \subseteq Paths \ {<<>>}
      /\ \A p \in DOMAIN t : ~Above(e.to, p)
      /\ \A p \in DOMAIN new : ~Above(e.to, p) => p \in DOMAIN t /\ ~Above(e.from, p) /\ new[p] = t[p]
      /\ \A p \in DOMAIN new : Above(e.to, p) =>
            \E q \in DOMAIN t : /\ Above(e.from, q) /\ p = Carried(q, e.from, e.to) /\ new[p] = t[q]
                                /\ Carried(p, e.to, e.from) = q
  BY TakesIs
<1>2. \A p \in DOMAIN c : p \in DOMAIN new /\ c[p] = new[p]
  BY DEF Within
<1>3. ASSUME NEW p \in DOMAIN back PROVE p \in DOMAIN t /\ back[p] = t[p]
  <2>1. CASE p \in DOMAIN c /\ ~Above(e.to, p)
    <3>1. back[p] = c[p]
      BY <2>1 DEF Renames
    <3> QED BY <1>1, <1>2, <2>1, <3>1
  <2>2. CASE \E q \in DOMAIN c : Above(e.to, q) /\ p = Carried(q, e.to, e.from)
    <3>1. PICK q \in DOMAIN c : Above(e.to, q) /\ p = Carried(q, e.to, e.from)
      BY <2>2
    <3>2. back[p] = c[q]
      BY <3>1 DEF Renames
    <3> QED BY <1>1, <1>2, <3>1, <3>2
  <2> QED BY <2>1, <2>2 DEF Renames
<1>4. ASSUME NEW p \in DOMAIN t, t[p] # Dir PROVE p \in DOMAIN back
  <2>0. Renames(t, e.from, e.to, new)
    BY DEF Takes
  <2>1. CASE ~Above(e.from, p)
    <3>1. p \in DOMAIN new /\ new[p] # Dir
      BY <1>4, <2>0, <2>1 DEF Renames
    <3>2. p \in DOMAIN c /\ ~Above(e.to, p)
      BY <1>1, <3>1 DEF Within
    <3> QED BY <3>2 DEF Renames
  <2>2. CASE Above(e.from, p)
    <3> DEFINE q == Carried(p, e.from, e.to)
    <3>1. q \in DOMAIN new /\ new[q] # Dir
      BY <1>4, <2>0, <2>2 DEF Renames
    <3>2. Above(e.to, q) /\ Carried(q, e.to, e.from) = p
      <4>1. e.from \in Paths /\ e.to \in Paths /\ p \in Paths
        BY <1>1
      <4> QED BY <2>2, <4>1, CarriedIs
    <3> HIDE DEF q
    <3>3. q \in DOMAIN c
      BY <3>1 DEF Within
    <3> QED BY <3>2, <3>3 DEF Renames
  <2> QED BY <2>1, <2>2
<1> QED BY <1>3, <1>4 DEF Within

\* A move and what was lost since leave the datasets over other places as they were.
LEMMA MountsStay ==
    ASSUME NEW t, NEW e, NEW new, Takes(t, e, new), NEW c, Within(c, new), NEW x \in Paths,
           ~Above(e.from, x), ~Above(e.to, x)
    PROVE  MountedOver(c, x) = MountedOver(t, x)
<1>1. /\ e.from \in Paths \ {<<>>} /\ e.to \in Paths \ {<<>>} /\ DOMAIN t \subseteq Paths \ {<<>>}
      /\ DOMAIN new \subseteq Paths
      /\ \A p \in DOMAIN new : ~Above(e.to, p) => p \in DOMAIN t /\ ~Above(e.from, p) /\ new[p] = t[p]
  BY TakesIs
<1>2. \A p \in DOMAIN c : p \in DOMAIN new /\ c[p] = new[p]
  BY DEF Within
<1>3. ASSUME NEW p \in DOMAIN t, Above(p, x), t[p] \in Datasets PROVE p \in DOMAIN c /\ c[p] = t[p]
  <2>1. ~Above(e.from, p)
    BY <1>1, <1>3, AboveOrder
  <2>2. p \in DOMAIN new /\ new[p] = t[p]
    BY <2>1 DEF Takes, Renames
  <2>3. p \in DOMAIN c
    BY <1>3, <2>2, PlainIs DEF Within
  <2> QED
    BY <1>2, <2>2, <2>3
<1>4. ASSUME NEW p \in DOMAIN c, Above(p, x) PROVE p \in DOMAIN t /\ c[p] = t[p]
  <2>1. p \in DOMAIN new /\ c[p] = new[p] /\ p \in Paths
    BY <1>1, <1>2
  <2>2. ~Above(e.to, p)
    BY <1>1, <1>4, <2>1, AboveOrder
  <2> QED
    BY <1>1, <2>1, <2>2
<1> QED
  BY <1>3, <1>4 DEF MountedOver

\* A name that is free is the first that is.
LEMMA FreeIsFirst ==
    ASSUME IsFiniteSet(DOMAIN fs), NEW p, p \notin DOMAIN fs
    PROVE  FirstFree(p) = p
<1> DEFINE N == Cardinality(DOMAIN fs)
           free == {n \in 0..N : suffixed(p, n) \notin DOMAIN fs}
           first == CHOOSE n \in free : \A m \in free : n <= m
<1>1. N \in Nat
  BY FS_CardinalityType
<1>2. suffixed(p, 0) = p
  BY DEF suffixed
<1>3. FirstFree(p) = suffixed(p, first)
  BY DEF FirstFree
<1> HIDE DEF N
<1>4. 0 \in free /\ \A m \in free : m \in Nat /\ 0 <= m
  BY <1>1, <1>2
<1> HIDE DEF free
<1>5. first \in free /\ \A m \in free : first <= m
  <2>1. \E n \in free : \A m \in free : n <= m
    BY <1>4
  <2> QED BY <2>1
<1> HIDE DEF first
<1>6. first = 0
  BY <1>4, <1>5
<1> QED BY <1>2, <1>3, <1>6

\* A source lies below a panel.
LEMMA SourceIs ==
    ASSUME NEW scene \in Scenes, NEW src, NEW stands, Source(src, scene.panels, stands)
    PROVE  src \in Paths \ {<<>>} /\ Parent(src) \in Paths \ {<<>>}
<1>1. PICK d \in Range(scene.panels) : Above(d, src) /\ Len(d) < Len(src)
  BY DEF Source
<1>2. d \in Paths \ {<<>>} /\ src \in Paths \ {<<>>}
  BY ShownAre DEF Source
<1>3. Len(d) \in Nat \ {0} /\ Len(src) \in Nat
  BY <1>2, PathIs
<1>4. Parent(src) \in Paths /\ Len(Parent(src)) = Len(src) - 1
  BY <1>2, ParentIs
<1>5. Parent(src) # <<>>
  BY <1>1, <1>3, <1>4, PathIs
<1> QED BY <1>2, <1>4, <1>5

\* move_to and move_dir_to move what a batch may move.
LEMMA MoveTakes ==
    ASSUME Tree(fs), NEW scene \in Scenes, NEW src, NEW stands,
           Source(src, scene.panels, stands), NEW dst \in Paths \ {<<>>}, NEW to,
           to = move_to(src, dst) \/ to = move_dir_to(src, dst), to # None
    PROVE  Takes(fs, [from |-> src, to |-> to], Renamed(src, to))
<1> DEFINE e == [from |-> src, to |-> to]
<1>1. src \in Paths \ {<<>>} /\ Parent(src) \in Paths \ {<<>>}
  BY SourceIs
<1>2. /\ src \in DOMAIN fs /\ to \in Paths \ {<<>>} /\ to \notin DOMAIN fs
      /\ Parent(to) \in DOMAIN fs /\ fs[Parent(to)] \in Directories /\ ~Above(src, Parent(to))
      /\ ~refused_at_once(src)
  BY <1>1, TargetIs
<1>3. to = FirstFree(dst) /\ OneDataset(src, dst) /\ fs[src] \in Files \cup {Dir}
  BY <1>2 DEF move_to, move_dir_to, IsFile, IsDir, OneDataset, IsMount, Directories
<1>4. Parent(to) = Parent(dst)
  BY <1>3, FirstFreeIs DEF Tree
<1>5. MountedOver(fs, Parent(src)) = MountedOver(fs, Parent(to))
  BY <1>3, <1>4 DEF OneDataset, Dataset, MountedOver
<1>8. Renames(fs, src, to, Renamed(src, to))
  BY <1>2, RenamedRenames
<1>9. \A q \in DOMAIN fs : Above(src, q) => fs[q] \notin {Database, LockFile}
  BY <1>2 DEF refused_at_once, Below
<1>10. e \in MovedItems /\ e.from = src /\ e.to = to
  BY <1>1, <1>2 DEF MovedItems
<1> HIDE DEF e
<1>11. Takes(fs, e, Renamed(src, to))
  BY <1>1, <1>2, <1>3, <1>5, <1>8, <1>9, <1>10 DEF Takes
<1> QED BY <1>11 DEF e

\* restore_one makes the directories that were there when the item was moved.
LEMMA ParentsMade ==
    ASSUME Tree(fs), NEW t, NEW e, NEW new, Takes(t, e, new), Within(fs, new)
    PROVE  LET u == WithDirs(Parent(e.from))
           IN  /\ Within(u, new)
               /\ Parent(e.from) \in DOMAIN u /\ u[Parent(e.from)] \in Directories
               /\ \A p \in DOMAIN fs : p \in DOMAIN u /\ u[p] = fs[p]
<1> DEFINE p == Parent(e.from)
           way == {SubSeq(p, 1, n) : n \in 1..Len(p)}
           stopped == \E n \in 1..Len(p) : SubSeq(p, 1, n) \in DOMAIN fs /\ ~IsDir(SubSeq(p, 1, n))
           u == WithDirs(p)
<1>1. /\ e.from \in Paths \ {<<>>} /\ e.to \in Paths \ {<<>>} /\ ~Above(e.to, e.from)
      /\ Tree(t) /\ e.from \in DOMAIN t /\ p # <<>> /\ Renames(t, e.from, e.to, new)
  BY TakesIs DEF Takes
<1>2. p \in Paths /\ Len(p) = Len(e.from) - 1 /\ Above(p, e.from) /\ Len(p) \in Nat \ {0} /\ Len(e.from) \in Nat
  BY <1>1, ParentIs, PathIs
<1>3. ASSUME NEW n \in 1..Len(p)
      PROVE  SubSeq(p, 1, n) \in DOMAIN new /\ new[SubSeq(p, 1, n)] \in Directories
  <2> DEFINE q == SubSeq(p, 1, n)
  <2>0. n \in 0..Len(p) /\ n # 0
    BY <1>2
  <2>1. q \in Paths /\ Len(q) = n /\ \A i \in 1..n : q[i] = p[i]
    BY <1>2, <2>0, Upto
  <2>2. q # <<>>
    BY <2>0, <2>1, PathIs
  <2> HIDE DEF q
  <2>3. Above(q, p)
    BY <1>2, <2>0, <2>1, AboveIs
  <2>4. Above(q, e.from) /\ q # e.from
    BY <1>1, <1>2, <2>0, <2>1, <2>3, AboveOrder
  <2>5. q \in DOMAIN t /\ t[q] \in Directories
    BY <1>1, <2>1, <2>2, <2>4, UpIn
  <2>6. ~Above(e.from, q)
    BY <1>1, <1>2, <2>0, <2>1, AboveIs
  <2>7. q \in DOMAIN new /\ new[q] \in Directories
    BY <1>1, <2>5, <2>6 DEF Renames
  <2> QED BY <2>7 DEF q
<1>4. ~stopped
  BY <1>3 DEF Within, IsDir
<1>5. /\ DOMAIN u = DOMAIN fs \cup way
      /\ \A q \in DOMAIN fs : u[q] = fs[q]
      /\ \A q \in way \ DOMAIN fs : u[q] = Dir
  BY <1>4 DEF WithDirs
<1>6. p \in way
  <2>0. p \in Paths /\ Len(p) \in Nat \ {0}
    BY <1>2
  <2> HIDE DEF p
  <2>1. SubSeq(p, 1, Len(p)) = p
    BY <2>0, SubSeqFull DEF Paths
  <2>2. Len(p) \in 1..Len(p)
    BY <2>0
  <2> QED BY <2>1, <2>2 DEF way
<1>7. \A q \in way : q \in DOMAIN new /\ new[q] \in Directories
  BY <1>3
<1> HIDE DEF way, u, p
<1>8. Within(u, new)
  BY <1>5, <1>7 DEF Within
<1>9. p \in DOMAIN u /\ u[p] \in Directories
  BY <1>5, <1>6, <1>7 DEF Within
<1> QED BY <1>5, <1>8, <1>9 DEF u, p

\* restore_one puts an item that is still there at its very path.
LEMMA RestoredIs ==
    ASSUME Tree(fs), NEW t, NEW e, NEW new, Takes(t, e, new), Within(fs, new), IsDir(Parent(e.from)),
           e.to \in DOMAIN fs
    PROVE  /\ (IF IsDir(e.to) THEN move_dir_to(e.to, e.from) ELSE move_to(e.to, e.from)) = e.from
           /\ e.from \notin DOMAIN fs
<1>1. /\ e.from \in Paths \ {<<>>} /\ e.to \in Paths \ {<<>>} /\ DOMAIN t \subseteq Paths \ {<<>>}
      /\ DOMAIN new \subseteq Paths
      /\ \A p \in DOMAIN t : ~Above(e.to, p)
      /\ ~Above(e.to, e.from)
      /\ \A p \in DOMAIN new : ~Above(e.to, p) => p \in DOMAIN t /\ ~Above(e.from, p) /\ new[p] = t[p]
      /\ \A p \in DOMAIN new : Above(e.to, p) =>
            \E q \in DOMAIN t : /\ Above(e.from, q) /\ p = Carried(q, e.from, e.to) /\ new[p] = t[q]
                                /\ Carried(p, e.to, e.from) = q
  BY TakesIs
<1>2. e.from \notin DOMAIN fs
  BY <1>1, AboveOrder DEF Within
<1>3. FirstFree(e.from) = e.from
  BY <1>2, FreeIsFirst DEF Tree
<1>4. ASSUME NEW q \in DOMAIN fs, Above(e.to, q)
      PROVE  \E r \in DOMAIN t : Above(e.from, r) /\ q = Carried(r, e.from, e.to) /\ fs[q] = t[r]
                                 /\ Carried(q, e.to, e.from) = r
  BY <1>1, <1>4 DEF Within
<1>5. ~refused_at_once(e.to)
  BY <1>4 DEF refused_at_once, Below, Takes
<1>6. fs[e.to] = t[e.from]
  <2>1. Above(e.to, e.to) /\ Above(e.from, e.from)
    BY <1>1, AboveOrder
  <2>2. e.from \in DOMAIN t /\ Renames(t, e.from, e.to, new)
    BY DEF Takes
  <2>3. /\ Carried(e.from, e.from, e.to) \in Paths
        /\ Len(Carried(e.from, e.from, e.to)) = Len(e.to) + (Len(e.from) - Len(e.from))
        /\ Above(e.to, Carried(e.from, e.from, e.to))
    BY <1>1, <2>1, CarriedIs
  <2>4. Len(e.to) \in Nat /\ Len(e.from) \in Nat
    BY <1>1, PathIs
  <2>5. Carried(e.from, e.from, e.to) = e.to
    BY <1>1, <2>3, <2>4, AboveOrder
  <2>6. new[e.to] = t[e.from]
    BY <2>1, <2>2, <2>5 DEF Renames
  <2> QED BY <2>6 DEF Within
<1>7. fs[e.to] \in Files \cup {Dir} /\ OneDataset(e.to, e.from) /\ e.to # e.from
  <2>1. fs[e.to] \in Files \cup {Dir}
    BY <1>6 DEF Takes
  <2>2. ~IsMount(e.to)
    BY <2>1, FilesAssumption DEF IsMount, Directories
  <2>3. /\ Parent(e.from) \in Paths /\ Above(Parent(e.from), e.from) /\ Len(Parent(e.from)) = Len(e.from) - 1
        /\ Parent(e.to) \in Paths /\ Above(Parent(e.to), e.to) /\ Len(Parent(e.to)) = Len(e.to) - 1
        /\ Len(e.from) \in Nat /\ Len(e.to) \in Nat
    BY <1>1, ParentIs, PathIs
  <2>4. ~Above(e.from, Parent(e.from)) /\ ~Above(e.to, Parent(e.from))
    <3>1. ~(Len(e.from) <= Len(Parent(e.from)))
      BY <2>3
    <3> QED
      BY <1>1, <2>3, <3>1, AboveIs, AboveOrder
  <2>5. ~Above(e.from, Parent(e.to)) /\ ~Above(e.to, Parent(e.to))
    <3>1. ~(Len(e.to) <= Len(Parent(e.to)))
      BY <2>3
    <3> QED
      BY <1>1, <2>3, <3>1, AboveIs DEF Takes
  <2>6. MountedOver(fs, Parent(e.from)) = MountedOver(t, Parent(e.from))
    BY <2>3, <2>4, MountsStay
  <2>7. MountedOver(fs, Parent(e.to)) = MountedOver(t, Parent(e.to))
    BY <2>3, <2>5, MountsStay
  <2>8. Dataset(Parent(e.from)) = Dataset(Parent(e.to))
    BY <2>6, <2>7 DEF Takes, Dataset, MountedOver
  <2> QED
    BY <1>1, <1>2, <2>1, <2>2, <2>8 DEF OneDataset
<1>8. CASE IsDir(e.to)
  BY <1>1, <1>3, <1>5, <1>7, <1>8, <1>2 DEF move_dir_to
<1>9. CASE ~IsDir(e.to)
  <2>1. IsFile(e.to)
    BY <1>7, <1>9, PlainIs DEF IsDir, IsFile
  <2> QED BY <1>2, <1>3, <1>5, <1>7, <1>9, <2>1 DEF move_to
<1> QED BY <1>8, <1>9

\* What a merge removes was an empty directory.
LEMMA RemovedWithin ==
    ASSUME NEW src, src \in DOMAIN fs, fs[src] = Dir
    PROVE  Within([p \in DOMAIN fs \ {src} |-> fs[p]], fs)
  BY DEF Within

\* Where the items lead: each is moved from within the tree the one before left, and c lies within
\* what the last one left.
Leads(items, g, c) ==
    \E T : /\ DOMAIN T = 0..Len(items) /\ T[0] = g
           /\ \A j \in 1..Len(items) : \E b : Within(b, T[j - 1]) /\ Takes(b, items[j], T[j])
           /\ Within(c, T[Len(items)])

\* The files of a batch lay where its record says.
Lay(was, tree) ==
    was \in Places /\ \A i \in DOMAIN was : i \in Files /\ was[i] \in DOMAIN tree /\ tree[was[i]] = i

\* Where the batches of the records lead, one after the other.
Tells(records, g, c) ==
    \E S : /\ DOMAIN S = 0..Len(records) /\ S[0] = g
           /\ \A k \in 1..Len(records) : Leads(records[k].items, S[k - 1], S[k]) /\ Lay(records[k].was, S[k - 1])
           /\ Within(c, S[Len(records)])

LEMMA LayMore ==
    ASSUME NEW was, NEW t, NEW u, Lay(was, t), Within(t, u)
    PROVE  Lay(was, u)
  BY DEF Lay, Within

LEMMA LayLess ==
    ASSUME NEW was, NEW t, NEW u, Lay(was, u), Within(t, u)
    PROVE  Lay(was, t)
  BY PlainIs DEF Lay, Within

LEMMA LeadsLess ==
    ASSUME NEW items, NEW g, NEW c, NEW d, Leads(items, g, c), Within(d, c)
    PROVE  Leads(items, g, d)
<1>1. PICK T : /\ DOMAIN T = 0..Len(items) /\ T[0] = g
               /\ \A j \in 1..Len(items) : \E b : Within(b, T[j - 1]) /\ Takes(b, items[j], T[j])
               /\ Within(c, T[Len(items)])
  BY DEF Leads
<1>2. Within(d, T[Len(items)])
  BY <1>1, WithinOrder
<1> QED BY <1>1, <1>2 DEF Leads

LEMMA LeadsNone ==
    ASSUME NEW items, Len(items) = 0, NEW g, NEW c
    PROVE  Leads(items, g, c) <=> Within(c, g)
<1>1. ASSUME Leads(items, g, c) PROVE Within(c, g)
  BY <1>1 DEF Leads
<1>2. ASSUME Within(c, g) PROVE Leads(items, g, c)
  <2> DEFINE T == [j \in 0..Len(items) |-> g]
  <2>1. DOMAIN T = 0..Len(items) /\ T[0] = g /\ T[Len(items)] = g
    OBVIOUS
  <2>2. \A j \in 1..Len(items) : \E b : Within(b, T[j - 1]) /\ Takes(b, items[j], T[j])
    OBVIOUS
  <2> HIDE DEF T
  <2>3. Within(c, T[Len(items)])
    BY <1>2, <2>1
  <2> QED BY <2>1, <2>2, <2>3 DEF Leads
<1> QED BY <1>1, <1>2

\* They may start from a tree with more directories.
LEMMA LeadsMore ==
    ASSUME NEW items, Len(items) \in Nat, NEW g, NEW h, NEW c, Leads(items, g, c), Within(g, h)
    PROVE  Leads(items, h, c)
<1> DEFINE n == Len(items)
<1>1. PICK T : /\ DOMAIN T = 0..n /\ T[0] = g
               /\ \A j \in 1..n : \E b : Within(b, T[j - 1]) /\ Takes(b, items[j], T[j])
               /\ Within(c, T[n])
  BY DEF Leads
<1> DEFINE U == [j \in 0..n |-> IF j = 0 THEN h ELSE T[j]]
<1>2. DOMAIN U = 0..n /\ U[0] = h /\ (\A j \in 1..n : U[j] = T[j]) /\ n \in Nat
  OBVIOUS
<1> HIDE DEF U, n
<1>3. ASSUME NEW j \in 0..n PROVE Within(T[j], U[j])
  <2>1. CASE j = 0
    BY <1>1, <1>2, <2>1
  <2>2. CASE j # 0
    <3>1. U[j] = T[j]
      BY <1>2, <2>2
    <3> QED BY <3>1, WithinItself
  <2> QED BY <2>1, <2>2
<1>4. ASSUME NEW j \in 1..n PROVE \E b : Within(b, U[j - 1]) /\ Takes(b, items[j], U[j])
  <2>1. PICK b : Within(b, T[j - 1]) /\ Takes(b, items[j], T[j])
    BY <1>1
  <2>2. j - 1 \in 0..n
    BY <1>2
  <2>3. Within(b, U[j - 1])
    BY <1>3, <2>1, <2>2, WithinOrder
  <2> QED BY <1>2, <2>1, <2>3
<1>5. Within(c, U[n])
  BY <1>1, <1>2, <1>3, WithinOrder
<1> QED BY <1>2, <1>4, <1>5 DEF Leads, n

\* A sequence with one more element.
LEMMA OneMore ==
    ASSUME NEW s, Listed(s), NEW e
    PROVE  /\ Listed(Append(s, e)) /\ Len(s) \in Nat /\ Len(Append(s, e)) = Len(s) + 1
           /\ \A i \in 1..Len(s) : Append(s, e)[i] = s[i]
           /\ Append(s, e)[Len(s) + 1] = e
<1> DEFINE S == Range(s) \cup {e}
<1>1. s \in Seq(S) /\ e \in S /\ Len(s) \in Nat
  <2>1. Len(s) \in Nat /\ \A i \in 1..Len(s) : s[i] \in S
    BY LenProperties, ElementOfSeq DEF Listed
  <2>2. s = [i \in 1..Len(s) |-> s[i]]
    BY LenProperties DEF Listed
  <2>3. [i \in 1..Len(s) |-> s[i]] \in Seq(S)
    BY <2>1, IsASeq
  <2> QED BY <2>1, <2>2, <2>3
<1> HIDE DEF S
<1>2. /\ Len(Append(s, e)) = Len(s) + 1
      /\ \A i \in 1..Len(s) : Append(s, e)[i] = s[i]
      /\ Append(s, e)[Len(s) + 1] = e
  BY <1>1, AppendProperties
<1>3. Listed(Append(s, e))
  BY AppendedIs
<1> QED BY <1>1, <1>2, <1>3

\* One more item is moved.
LEMMA LeadsOn ==
    ASSUME NEW items, Listed(items), NEW g, NEW c, Leads(items, g, c), NEW e, NEW d, Takes(c, e, d)
    PROVE  Leads(Append(items, e), g, d)
<1> DEFINE n == Len(items)
           more == Append(items, e)
<1>1. PICK T : /\ DOMAIN T = 0..n /\ T[0] = g
               /\ \A j \in 1..n : \E b : Within(b, T[j - 1]) /\ Takes(b, items[j], T[j])
               /\ Within(c, T[n])
  BY DEF Leads
<1>2. n \in Nat /\ Len(more) = n + 1 /\ (\A i \in 1..n : more[i] = items[i]) /\ more[n + 1] = e
  BY OneMore
<1> DEFINE U == [j \in 0..n + 1 |-> IF j = n + 1 THEN d ELSE T[j]]
<1>3. DOMAIN U = 0..n + 1 /\ U[n + 1] = d /\ (\A j \in 0..n : U[j] = T[j])
  BY <1>2
<1> HIDE DEF U, n, more
<1>4. ASSUME NEW j \in 1..n + 1 PROVE \E b : Within(b, U[j - 1]) /\ Takes(b, more[j], U[j])
  <2>1. CASE j \in 1..n
    <3>1. j \in 0..n /\ j - 1 \in 0..n
      BY <1>2, <2>1
    <3> QED BY <1>1, <1>2, <1>3, <2>1, <3>1
  <2>2. CASE j = n + 1
    <3>1. j - 1 = n /\ n \in 0..n
      BY <1>2, <2>2
    <3> QED BY <1>1, <1>2, <1>3, <2>2, <3>1
  <2> QED BY <1>2, <2>1, <2>2
<1>5. U[0] = g /\ Within(d, U[n + 1])
  BY <1>1, <1>2, <1>3, WithinItself
<1>6. Len(more) = n + 1 /\ DOMAIN U = 0..Len(more) /\ Within(d, U[Len(more)])
      /\ \A j \in 1..Len(more) : \E b : Within(b, U[j - 1]) /\ Takes(b, more[j], U[j])
  BY <1>2, <1>3, <1>4, <1>5
<1>7. Leads(more, g, d)
  BY <1>5, <1>6 DEF Leads
<1> QED BY <1>7 DEF more

\* The last item was moved from where the others led.
LEMMA LeadsLast ==
    ASSUME NEW S, NEW items \in Seq(S), items # <<>>, NEW g, NEW c, Leads(items, g, c)
    PROVE  \E b, h : /\ Leads(Front(items), g, b) /\ Takes(b, Last(items), h) /\ Within(c, h)
                     /\ \A d : Within(d, h) => Leads(items, g, d)
<1> DEFINE n == Len(items)
           less == Front(items)
<1>1. PICK T : /\ DOMAIN T = 0..n /\ T[0] = g
               /\ \A j \in 1..n : \E b : Within(b, T[j - 1]) /\ Takes(b, items[j], T[j])
               /\ Within(c, T[n])
  BY DEF Leads
<1>2. n \in Nat \ {0} /\ Len(less) = n - 1 /\ Last(items) = items[n] /\ \A i \in 1..n - 1 : less[i] = items[i]
  <2>1. /\ less \in Seq(S) /\ Len(less) = n - 1 /\ Last(items) = items[n] /\ n \in DOMAIN items
        /\ \A i \in DOMAIN less : less[i] = items[i]
    BY FrontIs
  <2>2. n \in Nat /\ DOMAIN items = 1..n /\ DOMAIN less = 1..Len(less)
    BY <2>1, LenProperties
  <2> HIDE DEF less, n
  <2> QED BY <2>1, <2>2
<1> HIDE DEF n, less
<1>3. PICK b : Within(b, T[n - 1]) /\ Takes(b, items[n], T[n])
  BY <1>1, <1>2
<1> DEFINE U == [j \in 0..n - 1 |-> T[j]]
<1>4. DOMAIN U = 0..n - 1 /\ \A j \in 0..n - 1 : U[j] = T[j]
  OBVIOUS
<1> HIDE DEF U
<1>5. ASSUME NEW j \in 1..n - 1 PROVE \E x : Within(x, U[j - 1]) /\ Takes(x, less[j], U[j])
  <2>1. j \in 1..n /\ j \in 0..n - 1 /\ j - 1 \in 0..n - 1
    BY <1>2
  <2>2. PICK x : Within(x, T[j - 1]) /\ Takes(x, items[j], T[j])
    BY <1>1, <2>1
  <2> QED BY <1>2, <1>4, <2>1, <2>2
<1>6. U[0] = g /\ Within(b, U[n - 1])
  <2>1. 0 \in 0..n - 1 /\ n - 1 \in 0..n - 1
    BY <1>2
  <2> QED BY <1>1, <1>3, <1>4, <2>1
<1>7. Leads(less, g, b)
  BY <1>2, <1>4, <1>5, <1>6 DEF Leads
<1>8. ASSUME NEW d, Within(d, T[n]) PROVE Leads(items, g, d)
  BY <1>1, <1>8 DEF Leads, n
<1>9. Takes(b, Last(items), T[n]) /\ Within(c, T[n])
  BY <1>1, <1>2, <1>3
<1> QED BY <1>7, <1>8, <1>9 DEF less

LEMMA TellsLess ==
    ASSUME NEW records, NEW g, NEW c, NEW d, Tells(records, g, c), Within(d, c)
    PROVE  Tells(records, g, d)
<1>1. PICK S : /\ DOMAIN S = 0..Len(records) /\ S[0] = g
               /\ \A k \in 1..Len(records) : Leads(records[k].items, S[k - 1], S[k]) /\ Lay(records[k].was, S[k - 1])
               /\ Within(c, S[Len(records)])
  BY DEF Tells
<1>2. Within(d, S[Len(records)])
  BY <1>1, WithinOrder
<1> QED BY <1>1, <1>2 DEF Tells

LEMMA TellsNone ==
    ASSUME NEW records, Len(records) = 0, NEW g, NEW c
    PROVE  Tells(records, g, c) <=> Within(c, g)
<1>1. ASSUME Tells(records, g, c) PROVE Within(c, g)
  BY <1>1 DEF Tells
<1>2. ASSUME Within(c, g) PROVE Tells(records, g, c)
  <2> DEFINE S == [k \in 0..Len(records) |-> g]
  <2>1. DOMAIN S = 0..Len(records) /\ S[0] = g /\ S[Len(records)] = g
    OBVIOUS
  <2>2. \A k \in 1..Len(records) : Leads(records[k].items, S[k - 1], S[k]) /\ Lay(records[k].was, S[k - 1])
    OBVIOUS
  <2> HIDE DEF S
  <2>3. Within(c, S[Len(records)])
    BY <1>2, <2>1
  <2> QED BY <2>1, <2>2, <2>3 DEF Tells
<1> QED BY <1>1, <1>2

\* One more batch is recorded.
LEMMA TellsOn ==
    ASSUME NEW records, Listed(records), NEW g, NEW c, Tells(records, g, c), NEW r, Len(r.items) \in Nat,
           NEW d, Leads(r.items, c, d), Lay(r.was, c)
    PROVE  Tells(Append(records, r), g, d)
<1> DEFINE n == Len(records)
           more == Append(records, r)
<1>1. PICK S : /\ DOMAIN S = 0..n /\ S[0] = g
               /\ \A k \in 1..n : Leads(records[k].items, S[k - 1], S[k]) /\ Lay(records[k].was, S[k - 1])
               /\ Within(c, S[n])
  BY DEF Tells
<1>2. n \in Nat /\ Len(more) = n + 1 /\ (\A i \in 1..n : more[i] = records[i]) /\ more[n + 1] = r
  BY OneMore
<1> DEFINE U == [k \in 0..n + 1 |-> IF k = n + 1 THEN d ELSE S[k]]
<1>3. DOMAIN U = 0..n + 1 /\ U[n + 1] = d /\ (\A k \in 0..n : U[k] = S[k])
  BY <1>2
<1> HIDE DEF U, n, more
<1>4. Leads(r.items, S[n], d) /\ Lay(r.was, S[n])
  BY <1>1, LeadsMore, LayMore
<1>5. ASSUME NEW k \in 1..n + 1 PROVE Leads(more[k].items, U[k - 1], U[k]) /\ Lay(more[k].was, U[k - 1])
  <2>1. CASE k \in 1..n
    <3>1. k \in 0..n /\ k - 1 \in 0..n
      BY <1>2, <2>1
    <3> QED BY <1>1, <1>2, <1>3, <2>1, <3>1
  <2>2. CASE k = n + 1
    <3>1. k - 1 = n /\ n \in 0..n
      BY <1>2, <2>2
    <3> QED BY <1>2, <1>3, <1>4, <2>2, <3>1
  <2> QED BY <1>2, <2>1, <2>2
<1>6. U[0] = g /\ Within(d, U[n + 1])
  BY <1>1, <1>2, <1>3, WithinItself
<1>7. Len(more) = n + 1 /\ DOMAIN U = 0..Len(more) /\ Within(d, U[Len(more)])
      /\ \A k \in 1..Len(more) : Leads(more[k].items, U[k - 1], U[k]) /\ Lay(more[k].was, U[k - 1])
  BY <1>2, <1>3, <1>5, <1>6
<1>8. Tells(more, g, d)
  BY <1>6, <1>7 DEF Tells
<1> QED BY <1>8 DEF more

\* The last batch began where the others led.
LEMMA TellsLast ==
    ASSUME NEW X, NEW records \in Seq(X), records # <<>>, NEW g, NEW c, Tells(records, g, c)
    PROVE  \E b : Tells(Front(records), g, b) /\ Leads(Last(records).items, b, c) /\ Lay(Last(records).was, b)
<1> DEFINE n == Len(records)
           less == Front(records)
<1>1. PICK S : /\ DOMAIN S = 0..n /\ S[0] = g
               /\ \A k \in 1..n : Leads(records[k].items, S[k - 1], S[k]) /\ Lay(records[k].was, S[k - 1])
               /\ Within(c, S[n])
  BY DEF Tells
<1>2. n \in Nat \ {0} /\ Len(less) = n - 1 /\ Last(records) = records[n] /\ \A i \in 1..n - 1 : less[i] = records[i]
  <2>1. /\ less \in Seq(X) /\ Len(less) = n - 1 /\ Last(records) = records[n] /\ n \in DOMAIN records
        /\ \A i \in DOMAIN less : less[i] = records[i]
    BY FrontIs
  <2>2. n \in Nat /\ DOMAIN records = 1..n /\ DOMAIN less = 1..Len(less)
    BY <2>1, LenProperties
  <2> HIDE DEF less, n
  <2> QED BY <2>1, <2>2
<1> HIDE DEF n, less
<1>3. Leads(records[n].items, S[n - 1], S[n]) /\ Lay(records[n].was, S[n - 1])
  BY <1>1, <1>2
<1>4. Leads(records[n].items, S[n - 1], c)
  BY <1>1, <1>3, LeadsLess
<1> DEFINE U == [k \in 0..n - 1 |-> S[k]]
<1>5. DOMAIN U = 0..n - 1 /\ \A k \in 0..n - 1 : U[k] = S[k]
  OBVIOUS
<1> HIDE DEF U
<1>6. ASSUME NEW k \in 1..n - 1 PROVE Leads(less[k].items, U[k - 1], U[k]) /\ Lay(less[k].was, U[k - 1])
  <2>1. k \in 1..n /\ k \in 0..n - 1 /\ k - 1 \in 0..n - 1
    BY <1>2
  <2> QED BY <1>1, <1>2, <1>5, <2>1
<1>7. U[0] = g /\ U[n - 1] = S[n - 1]
  <2>1. 0 \in 0..n - 1 /\ n - 1 \in 0..n - 1
    BY <1>2
  <2> QED BY <1>1, <1>5, <2>1
<1>8. Within(S[n - 1], U[n - 1])
  BY <1>7, WithinItself
<1>9. Tells(less, g, S[n - 1])
  BY <1>2, <1>5, <1>6, <1>7, <1>8 DEF Tells
<1> QED BY <1>2, <1>3, <1>4, <1>9 DEF less

\* The others began where the first batch led.
LEMMA TellsHead ==
    ASSUME NEW X, NEW records \in Seq(X), records # <<>>, NEW g, NEW c, Tells(records, g, c)
    PROVE  \E b : Leads(Head(records).items, g, b) /\ Lay(Head(records).was, g) /\ Tells(Tail(records), b, c)
<1> DEFINE n == Len(records)
           less == Tail(records)
<1>1. PICK S : /\ DOMAIN S = 0..n /\ S[0] = g
               /\ \A k \in 1..n : Leads(records[k].items, S[k - 1], S[k]) /\ Lay(records[k].was, S[k - 1])
               /\ Within(c, S[n])
  BY DEF Tells
<1>2. n \in Nat \ {0} /\ Len(less) = n - 1 /\ Head(records) = records[1] /\ \A i \in 1..n - 1 : less[i] = records[i + 1]
  <2>1. /\ less \in Seq(X) /\ Len(less) = n - 1 /\ n \in Nat \ {0} /\ Head(records) = records[1]
        /\ \A i \in DOMAIN less : less[i] = records[i + 1]
    BY TailIs
  <2>2. DOMAIN less = 1..Len(less)
    BY <2>1, LenProperties
  <2> HIDE DEF less, n
  <2> QED BY <2>1, <2>2
<1> HIDE DEF n, less
<1>3. Leads(records[1].items, g, S[1]) /\ Lay(records[1].was, g)
  <2>1. 1 \in 1..n /\ 1 - 1 = 0
    BY <1>2
  <2> QED BY <1>1, <2>1
<1> DEFINE U == [k \in 0..n - 1 |-> S[k + 1]]
<1>4. DOMAIN U = 0..n - 1 /\ \A k \in 0..n - 1 : U[k] = S[k + 1]
  OBVIOUS
<1> HIDE DEF U
<1>5. ASSUME NEW k \in 1..n - 1 PROVE Leads(less[k].items, U[k - 1], U[k]) /\ Lay(less[k].was, U[k - 1])
  <2>1. k + 1 \in 1..n /\ k \in 0..n - 1 /\ k - 1 \in 0..n - 1 /\ (k - 1) + 1 = k /\ (k + 1) - 1 = k
    BY <1>2
  <2>2. U[k] = S[k + 1] /\ U[k - 1] = S[k]
    BY <1>4, <2>1
  <2>3. less[k] = records[k + 1]
    BY <1>2
  <2>4. Leads(records[k + 1].items, S[(k + 1) - 1], S[k + 1]) /\ Lay(records[k + 1].was, S[(k + 1) - 1])
    BY <1>1, <2>1
  <2> QED BY <2>1, <2>2, <2>3, <2>4
<1>6. U[0] = S[1] /\ U[n - 1] = S[n]
  <2>1. 0 \in 0..n - 1 /\ n - 1 \in 0..n - 1 /\ 0 + 1 = 1 /\ (n - 1) + 1 = n
    BY <1>2
  <2> QED BY <1>4, <2>1
<1>7. Tells(less, S[1], c)
  BY <1>1, <1>2, <1>4, <1>5, <1>6 DEF Tells
<1> QED BY <1>2, <1>3, <1>7 DEF less

\* The records the reports will leave.
Records(reports) == [k \in DOMAIN reports |-> [items |-> reports[k].moved, was |-> reports[k].was]]

LEMMA RecordsAre ==
    ASSUME NEW reports, Listed(reports)
    PROVE  /\ Listed(Records(reports)) /\ Len(Records(reports)) = Len(reports) /\ Len(reports) \in Nat
           /\ \A k \in 1..Len(reports) : /\ Records(reports)[k].items = reports[k].moved
                                         /\ Records(reports)[k].was = reports[k].was
<1> DEFINE n == Len(reports)
           R == Records(reports)
<1>1. n \in Nat /\ DOMAIN reports = 1..n
  BY LenProperties DEF Listed
<1>2. R = [k \in 1..n |-> [items |-> reports[k].moved, was |-> reports[k].was]]
  BY <1>1 DEF Records
<1> HIDE DEF n, R
<1>3. DOMAIN R = 1..n /\ \A k \in 1..n : R[k] \in Range(R)
  BY <1>2 DEF Range
<1>4. R = [k \in 1..n |-> R[k]]
  BY <1>2
<1>5. [k \in 1..n |-> R[k]] \in Seq(Range(R))
  BY <1>1, <1>3, IsASeq
<1>6. R \in Seq(Range(R))
  BY <1>4, <1>5
<1>7. Len(R) = n
  <2>1. DOMAIN R = 1..Len(R) /\ Len(R) \in Nat
    BY <1>6, LenProperties
  <2> QED BY <1>1, <1>3, <2>1
<1>8. \A k \in 1..n : R[k].items = reports[k].moved /\ R[k].was = reports[k].was
  BY <1>2
<1> QED BY <1>1, <1>6, <1>7, <1>8 DEF n, R, Listed

\* A report is added, and the first one is taken.
LEMMA RecordsAppended ==
    ASSUME NEW reports, Listed(reports), NEW r
    PROVE  Records(Append(reports, r)) = Append(Records(reports), [items |-> r.moved, was |-> r.was])
<1> DEFINE n == Len(reports)
           e == [items |-> r.moved, was |-> r.was]
           more == Append(reports, r)
           R == Records(reports)
           A == Append(R, e)
<1>1. n \in Nat /\ Len(more) = n + 1 /\ (\A i \in 1..n : more[i] = reports[i]) /\ more[n + 1] = r /\ Listed(more)
  BY OneMore
<1>2. Listed(R) /\ Len(R) = n
  BY RecordsAre
<1>3. Listed(A) /\ Len(A) = n + 1 /\ (\A i \in 1..n : A[i] = R[i]) /\ A[n + 1] = e
  BY <1>2, OneMore
<1>4. DOMAIN reports = 1..n /\ DOMAIN more = 1..n + 1 /\ DOMAIN A = 1..n + 1
  <2>1. DOMAIN reports = 1..n
    BY LenProperties DEF Listed
  <2>2. DOMAIN more = 1..Len(more)
    BY <1>1, LenProperties DEF Listed
  <2>3. DOMAIN A = 1..Len(A)
    BY <1>3, LenProperties DEF Listed
  <2> QED BY <1>1, <1>3, <2>1, <2>2, <2>3
<1>5. A = [i \in 1..n + 1 |-> A[i]]
  BY <1>3, <1>4, LenProperties DEF Listed
<1>6. Records(more) = [k \in 1..n + 1 |-> [items |-> more[k].moved, was |-> more[k].was]]
  BY <1>4 DEF Records
<1>7. \A k \in 1..n : R[k] = [items |-> reports[k].moved, was |-> reports[k].was]
  BY <1>4 DEF Records
<1>8. ASSUME NEW k \in 1..n + 1 PROVE A[k] = [items |-> more[k].moved, was |-> more[k].was]
  <2> HIDE DEF n, A, R, more
  <2>1. CASE k \in 1..n
    BY <1>1, <1>3, <1>7, <2>1
  <2>2. CASE k = n + 1
    BY <1>1, <1>3, <2>2
  <2> QED BY <1>1, <2>1, <2>2
<1> HIDE DEF A, n, R, more, e
<1>9. A = Records(more)
  BY <1>5, <1>6, <1>8
<1> QED BY <1>9 DEF A, R, more, e

LEMMA RecordsTail ==
    ASSUME NEW reports, Listed(reports), reports # <<>>
    PROVE  /\ Records(Tail(reports)) = Tail(Records(reports)) /\ Records(reports) # <<>>
           /\ Head(Records(reports)) = [items |-> Head(reports).moved, was |-> Head(reports).was]
<1> DEFINE n == Len(reports)
           less == Tail(reports)
           R == Records(reports)
           T == Tail(R)
<1>1. /\ less \in Seq(Range(reports)) /\ Len(less) = n - 1 /\ n \in Nat \ {0} /\ Head(reports) = reports[1]
      /\ \A i \in DOMAIN less : less[i] = reports[i + 1]
  BY TailIs DEF Listed
<1>2. R \in Seq(Range(R)) /\ Len(R) = n
  BY RecordsAre DEF Listed
<1>3. R # <<>>
  BY <1>1, <1>2, EmptySeq
<1>4. /\ T \in Seq(Range(R)) /\ Len(T) = n - 1 /\ Head(R) = R[1]
      /\ \A i \in DOMAIN T : T[i] = R[i + 1]
  BY <1>2, <1>3, TailIs
<1>5. DOMAIN reports = 1..n /\ DOMAIN less = 1..n - 1 /\ DOMAIN T = 1..n - 1
  <2>1. DOMAIN reports = 1..n
    BY LenProperties DEF Listed
  <2>2. DOMAIN less = 1..Len(less)
    BY <1>1, LenProperties
  <2>3. DOMAIN T = 1..Len(T)
    BY <1>4, LenProperties
  <2> QED BY <1>1, <1>4, <2>1, <2>2, <2>3
<1>6. T = [i \in 1..n - 1 |-> T[i]]
  BY <1>4, <1>5, LenProperties
<1>7. Records(less) = [k \in 1..n - 1 |-> [items |-> less[k].moved, was |-> less[k].was]]
  BY <1>5 DEF Records
<1>8. \A k \in 1..n : R[k] = [items |-> reports[k].moved, was |-> reports[k].was]
  BY <1>5 DEF Records
<1>9. ASSUME NEW k \in 1..n - 1 PROVE T[k] = [items |-> less[k].moved, was |-> less[k].was]
  <2> HIDE DEF n, T, R, less
  <2>1. k + 1 \in 1..n
    BY <1>1
  <2> QED BY <1>1, <1>4, <1>5, <1>8, <2>1
<1>10. Head(R) = [items |-> Head(reports).moved, was |-> Head(reports).was]
  <2> HIDE DEF n, T, R, less
  <2>1. 1 \in 1..n
    BY <1>1
  <2> QED BY <1>1, <1>4, <1>8, <2>1
<1> HIDE DEF T, n, R, less
<1>11. T = Records(less)
  BY <1>6, <1>7, <1>9
<1> QED BY <1>3, <1>10, <1>11 DEF T, R, less

\* The last item moved is the first to be taken back.
LEMMA ReversedIs ==
    ASSUME NEW S, NEW s \in Seq(S)
    PROVE  /\ Reverse(s) \in Seq(S) /\ Len(Reverse(s)) = Len(s) /\ Len(s) \in Nat
           /\ \A i \in 1..Len(s) : Reverse(s)[i] = s[Len(s) - i + 1]
<1> DEFINE n == Len(s)
           t == [i \in 1..n |-> s[n - i + 1]]
<1>1. n \in Nat /\ \A i \in 1..n : s[i] \in S
  BY LenProperties, ElementOfSeq
<1>2. Reverse(s) = t
  BY DEF Reverse
<1> HIDE DEF n
<1>3. \A i \in 1..n : n - i + 1 \in 1..n /\ s[n - i + 1] \in S
  BY <1>1
<1>4. t \in Seq(S) /\ DOMAIN t = 1..n /\ \A i \in 1..n : t[i] = s[n - i + 1]
  BY <1>1, <1>3, IsASeq
<1> HIDE DEF t
<1>5. Len(t) = n
  <2>1. Len(t) \in Nat /\ DOMAIN t = 1..Len(t)
    BY <1>4, LenProperties
  <2> QED
    BY <1>1, <1>4, <2>1
<1> QED
  BY <1>1, <1>2, <1>4, <1>5 DEF n

LEMMA ReversedTwice ==
    ASSUME NEW S, NEW s \in Seq(S)
    PROVE  Reverse(Reverse(s)) = s
<1> DEFINE n == Len(s)
           r == Reverse(s)
           t == Reverse(r)
<1>1. r \in Seq(S) /\ Len(r) = n /\ n \in Nat /\ \A i \in 1..n : r[i] = s[n - i + 1]
  BY ReversedIs
<1> HIDE DEF r
<1>2. t \in Seq(S) /\ Len(t) = n /\ \A i \in 1..n : t[i] = r[n - i + 1]
  BY <1>1, ReversedIs
<1> HIDE DEF t
<1>3. ASSUME NEW i \in 1..n PROVE t[i] = s[i]
  <2>1. n - i + 1 \in 1..n /\ n - (n - i + 1) + 1 = i
    BY <1>1
  <2> QED
    BY <1>1, <1>2, <2>1
<1>4. t = s
  BY <1>1, <1>2, <1>3, SeqEqual DEF n
<1> QED
  BY <1>4 DEF t, r

LEMMA ReversedFirst ==
    ASSUME NEW S, NEW s \in Seq(S), s # <<>>
    PROVE  /\ Reverse(s) \in Seq(S) /\ Reverse(s) # <<>> /\ Last(Reverse(s)) = Head(s)
           /\ Front(Reverse(s)) = Reverse(Tail(s)) /\ Tail(s) \in Seq(S)
<1> DEFINE n == Len(s)
           l == Tail(s)
           r == Reverse(s)
           f == Front(r)
           t == Reverse(l)
<1>1. /\ l \in Seq(S) /\ Len(l) = n - 1 /\ n \in Nat \ {0} /\ Head(s) = s[1]
      /\ \A i \in 1..n - 1 : l[i] = s[i + 1]
  <2>1. /\ l \in Seq(S) /\ Len(l) = n - 1 /\ n \in Nat \ {0} /\ Head(s) = s[1]
        /\ \A i \in DOMAIN l : l[i] = s[i + 1]
    BY TailIs
  <2>2. DOMAIN l = 1..Len(l)
    BY <2>1, LenProperties
  <2> QED
    BY <2>1, <2>2
<1>2. r \in Seq(S) /\ Len(r) = n /\ \A i \in 1..n : r[i] = s[n - i + 1]
  BY ReversedIs
<1> HIDE DEF r, l
<1>3. r # <<>>
  BY <1>1, <1>2, EmptySeq
<1>4. /\ f \in Seq(S) /\ Len(f) = n - 1 /\ Last(r) = r[n] /\ \A i \in 1..n - 1 : f[i] = r[i]
  <2>1. /\ f \in Seq(S) /\ Len(f) = n - 1 /\ Last(r) = r[n] /\ \A i \in DOMAIN f : f[i] = r[i]
    BY <1>2, <1>3, FrontIs
  <2>2. DOMAIN f = 1..Len(f)
    BY <2>1, LenProperties
  <2> QED
    BY <2>1, <2>2
<1>5. t \in Seq(S) /\ Len(t) = n - 1 /\ \A i \in 1..n - 1 : t[i] = l[(n - 1) - i + 1]
  BY <1>1, ReversedIs
<1> HIDE DEF f, t, n
<1>6. ASSUME NEW i \in 1..n - 1 PROVE f[i] = t[i]
  <2> DEFINE k == (n - 1) - i + 1
  <2>1. k \in 1..n - 1 /\ k + 1 = n - i + 1 /\ i \in 1..n
    BY <1>1
  <2>2. f[i] = s[n - i + 1]
    BY <1>2, <1>4, <2>1
  <2>3. t[i] = l[k]
    BY <1>5
  <2> HIDE DEF k
  <2>4. l[k] = s[k + 1]
    BY <1>1, <2>1
  <2> QED
    BY <2>1, <2>2, <2>3, <2>4
<1>7. f = t
  BY <1>4, <1>5, <1>6, SeqEqual
<1>8. Last(r) = s[1]
  <2>1. n \in 1..n /\ n - n + 1 = 1
    BY <1>1
  <2> QED
    BY <1>2, <1>4, <2>1
<1> QED
  BY <1>1, <1>2, <1>3, <1>7, <1>8 DEF r, f, t, l

\* The batches that can be undone were carried out one after the other, then those that are still to
\* be reported to the interface, then the one that is under way or being undone, and that led to tree.
Story(records, reports, items, was, tree) ==
    \E g, d, w : /\ Tells(records, g, d) /\ Tells(Records(reports), d, w)
                 /\ Lay(was, w) /\ Leads(items, w, tree)

LEMMA LayNone == ASSUME NEW tree PROVE Lay(<<>>, tree)
<1>1. DOMAIN <<>> = {}
  OBVIOUS
<1>2. <<>> \in [{} -> Paths]
  <2>1. <<>> \in Seq(Paths) /\ Len(<<>>) = 0
    BY EmptySeq
  <2>2. <<>> \in [1..Len(<<>>) -> Paths]
    BY <2>1, LenProperties
  <2>3. 1..Len(<<>>) = {}
    BY <2>1
  <2> QED
    BY <2>2, <2>3
<1>3. <<>> \in Places
  BY <1>2 DEF Places
<1> QED
  BY <1>1, <1>3 DEF Lay

LEMMA StoryLess ==
    ASSUME NEW records, NEW reports, NEW items, NEW was, NEW t, NEW u,
           Story(records, reports, items, was, t), Within(u, t)
    PROVE  Story(records, reports, items, was, u)
<1>1. PICK g, d, w : /\ Tells(records, g, d) /\ Tells(Records(reports), d, w)
                     /\ Lay(was, w) /\ Leads(items, w, t)
  BY DEF Story
<1>2. Leads(items, w, u)
  BY <1>1, LeadsLess
<1> QED
  BY <1>1, <1>2 DEF Story

\* The batch moves one more item.
LEMMA StoryOn ==
    ASSUME NEW records, NEW reports, NEW items, Listed(items), NEW was, NEW t, NEW e, NEW u,
           Story(records, reports, items, was, t), Takes(t, e, u)
    PROVE  Story(records, reports, Append(items, e), was, u)
<1>1. PICK g, d, w : /\ Tells(records, g, d) /\ Tells(Records(reports), d, w)
                     /\ Lay(was, w) /\ Leads(items, w, t)
  BY DEF Story
<1>2. Leads(Append(items, e), w, u)
  BY <1>1, LeadsOn
<1> QED
  BY <1>1, <1>2 DEF Story

\* A batch begins.
LEMMA StoryTaken ==
    ASSUME NEW records, NEW reports, NEW none, NEW t, NEW was, Lay(was, t),
           Story(records, reports, <<>>, none, t)
    PROVE  Story(records, reports, <<>>, was, t)
<1>1. PICK g, d, w : /\ Tells(records, g, d) /\ Tells(Records(reports), d, w)
                     /\ Leads(<<>>, w, t)
  BY DEF Story
<1>2. Within(t, w)
  BY <1>1, LeadsNone, EmptySeq
<1>3. Lay(was, w)
  BY <1>2, LayMore
<1> QED
  BY <1>1, <1>3 DEF Story

\* A batch is reported.
LEMMA StoryReported ==
    ASSUME NEW records, NEW reports, Listed(reports), NEW r, Len(r.moved) \in Nat, NEW t,
           Story(records, reports, r.moved, r.was, t)
    PROVE  Story(records, Append(reports, r), <<>>, <<>>, t)
<1>1. PICK g, d, w : /\ Tells(records, g, d) /\ Tells(Records(reports), d, w)
                     /\ Lay(r.was, w) /\ Leads(r.moved, w, t)
  BY DEF Story
<1> DEFINE e == [items |-> r.moved, was |-> r.was]
           R == Records(reports)
<1>2. e.items = r.moved /\ e.was = r.was
  OBVIOUS
<1>3. Listed(R) /\ Records(Append(reports, r)) = Append(R, e)
  BY RecordsAre, RecordsAppended
<1> HIDE DEF e, R
<1>4. Tells(R, d, w) /\ Len(e.items) \in Nat /\ Leads(e.items, w, t) /\ Lay(e.was, w)
  BY <1>1, <1>2 DEF R
<1>5. Tells(Append(R, e), d, t)
  BY <1>3, <1>4, TellsOn
<1>6. Leads(<<>>, t, t)
  BY LeadsNone, EmptySeq, WithinItself
<1> QED
  BY <1>1, <1>3, <1>5, <1>6, LayNone DEF Story

\* The interface takes the first report: what moved nothing is not recorded.
LEMMA StoryLogged ==
    ASSUME NEW records, Listed(records), NEW reports, Listed(reports), reports # <<>>, NEW r, r = Head(reports),
           Len(r.moved) \in Nat, NEW items, NEW was, NEW t, Story(records, reports, items, was, t)
    PROVE  /\ Story(Append(records, [items |-> r.moved, was |-> r.was]), Tail(reports), items, was, t)
           /\ r.moved = <<>> => Story(records, Tail(reports), items, was, t)
<1>1. PICK g, d, w : /\ Tells(records, g, d) /\ Tells(Records(reports), d, w)
                     /\ Lay(was, w) /\ Leads(items, w, t)
  BY DEF Story
<1> DEFINE e == [items |-> r.moved, was |-> r.was]
           R == Records(reports)
           T == Tail(R)
<1>2. e.items = r.moved /\ e.was = r.was
  OBVIOUS
<1>3. R \in Seq(Range(R)) /\ R # <<>> /\ Records(Tail(reports)) = T /\ Head(R) = e
  BY RecordsAre, RecordsTail DEF Listed
<1> HIDE DEF e, R
<1>4. PICK b : Leads(Head(R).items, d, b) /\ Lay(Head(R).was, d) /\ Tells(T, b, w)
  <2>1. Tells(R, d, w)
    BY <1>1 DEF R
  <2> QED
    BY <1>3, <2>1, TellsHead
<1> HIDE DEF T
<1>5. Leads(e.items, d, b) /\ Lay(e.was, d) /\ Len(e.items) \in Nat
  BY <1>2, <1>3, <1>4
<1>6. Tells(Append(records, e), g, b)
  BY <1>1, <1>5, TellsOn
<1>7. ASSUME r.moved = <<>> PROVE Tells(records, g, b)
  <2>1. Len(e.items) = 0
    BY <1>2, <1>7, EmptySeq
  <2>2. Within(b, d)
    BY <1>5, <2>1, LeadsNone
  <2> QED
    BY <1>1, <2>2, TellsLess
<1>8. Story(Append(records, e), Tail(reports), items, was, t)
  BY <1>1, <1>3, <1>4, <1>6 DEF Story
<1>9. r.moved = <<>> => Story(records, Tail(reports), items, was, t)
  BY <1>1, <1>3, <1>4, <1>7 DEF Story
<1> QED
  BY <1>8, <1>9 DEF e

\* With no report to come and no batch under way, the last batch recorded led to where things are.
LEMMA StoryUndone ==
    ASSUME NEW X, NEW records \in Seq(X), records # <<>>, NEW was, NEW t,
           Len(Last(records).items) \in Nat, Story(records, <<>>, <<>>, was, t)
    PROVE  Story(Front(records), <<>>, Last(records).items, Last(records).was, t)
<1> DEFINE R == Records(<<>>)
           l == Last(records)
           f == Front(records)
<1>1. PICK g, d, w : Tells(records, g, d) /\ Tells(R, d, w) /\ Leads(<<>>, w, t)
  BY DEF Story
<1>2. Len(R) = 0
  <2>1. Listed(<<>>)
    BY EmptySeq DEF Listed
  <2> QED
    BY <2>1, RecordsAre, EmptySeq
<1>3. PICK b : Tells(f, g, b) /\ Leads(l.items, b, d) /\ Lay(l.was, b)
  BY <1>1, TellsLast
<1> HIDE DEF R, l, f
<1>4. Within(w, d) /\ Within(t, w)
  BY <1>1, <1>2, TellsNone, LeadsNone, EmptySeq
<1>5. Leads(l.items, b, t)
  BY <1>3, <1>4, WithinOrder, LeadsLess
<1>6. Tells(R, b, b)
  BY <1>2, TellsNone, WithinItself
<1>7. Story(f, <<>>, l.items, l.was, t)
  BY <1>3, <1>5, <1>6 DEF Story, R
<1> QED
  BY <1>7 DEF l, f

\* What the last item was moved in.
LEMMA StoryLast ==
    ASSUME NEW S, NEW items \in Seq(S), items # <<>>, NEW records, NEW reports, NEW was, NEW t,
           Story(records, reports, items, was, t)
    PROVE  \E b, h : /\ Takes(b, Last(items), h) /\ Within(t, h)
                     /\ \A u : Within(u, h) => Story(records, reports, items, was, u)
                     /\ \A u : Within(u, b) => Story(records, reports, Front(items), was, u)
<1>1. PICK g, d, w : /\ Tells(records, g, d) /\ Tells(Records(reports), d, w)
                     /\ Lay(was, w) /\ Leads(items, w, t)
  BY DEF Story
<1> DEFINE f == Front(items)
           e == Last(items)
<1>2. PICK b, h : /\ Leads(f, w, b) /\ Takes(b, e, h) /\ Within(t, h)
                  /\ \A u : Within(u, h) => Leads(items, w, u)
  BY <1>1, LeadsLast
<1> HIDE DEF f, e
<1>3. ASSUME NEW u, Within(u, h) PROVE Story(records, reports, items, was, u)
  BY <1>1, <1>2, <1>3 DEF Story
<1>4. ASSUME NEW u, Within(u, b) PROVE Story(records, reports, f, was, u)
  <2>1. Leads(f, w, u)
    BY <1>2, <1>4, LeadsLess
  <2> QED
    BY <1>1, <2>1 DEF Story
<1> QED
  BY <1>2, <1>3, <1>4 DEF f, e

\* With nothing left to take back, the files of the batch lie where they lay.
LEMMA StoryOver ==
    ASSUME NEW records, NEW reports, NEW items, Len(items) = 0, NEW was, NEW t,
           Story(records, reports, items, was, t)
    PROVE  Lay(was, t)
<1>1. PICK w : Lay(was, w) /\ Leads(items, w, t)
  BY DEF Story
<1>2. Within(t, w)
  BY <1>1, LeadsNone
<1> QED
  BY <1>1, <1>2, LayLess

\* What the batch or the undo under way has moved and not put back, and where its files lay.
Out(u, w) == IF u # None THEN Reverse(u.todo) ELSE IF w # None THEN w.moved ELSE <<>>
Lain(u, w) == IF u # None THEN u.was ELSE IF w # None THEN w.was ELSE <<>>

\* As long as nothing comes between the batches and their undo, the records tell how things came to
\* be where they are, an undo has them for itself, and it has made the directories it needs next.
UndoInv ==
    calm =>
        /\ Story(log, done, Out(undo, work), Lain(undo, work), fs)
        /\ work # None => work.sources \in Seq(Paths) /\ work.began \in Places
        /\ undo # None =>
              /\ pending = 0 /\ undo.made \in BOOLEAN /\ undo.failed \in Nat
              /\ undo.made => undo.todo # <<>> /\ IsDir(Parent(Head(undo.todo).from))

LEMMA BatchIs ==
    ASSUME NEW w, NEW shown, NEW stands, WorkOK(w, shown, stands),
           w.sources \in Seq(Paths), w.was \in Places, w.began \in Places
    PROVE  w # None
<1>1. /\ w \in [sources : {w.sources}, stack : {w.stack}, moved : {w.moved}, failed : Nat, dups : Nat,
                quiet : BOOLEAN, was : {w.was}, began : {w.began}]
      /\ w.stack \in Seq(Frames) /\ w.moved \in Seq(MovedItems)
  BY DEF WorkOK, StackOK, Moves
<1>2. w \in [sources : Seq(Paths), stack : Seq(Frames), moved : Seq(MovedItems), failed : Nat, dups : Nat,
             quiet : BOOLEAN, was : Places, began : Places]
  BY <1>1
<1> QED
  BY <1>2, NoneAssumption DEF Work

LEMMA UndoIsNotNone ==
    ASSUME NEW u, NEW stands, UndoOK(u, stands), u.was \in Places, u.made \in BOOLEAN, u.failed \in Nat
    PROVE  u # None
<1>1. /\ u \in [todo : {u.todo}, made : {u.made}, failed : {u.failed}, was : {u.was}]
      /\ u.todo \in Seq(MovedItems)
  BY DEF UndoOK, Moves
<1>2. u \in [todo : Seq(MovedItems), made : BOOLEAN, failed : Nat, was : Places]
  BY <1>1
<1> QED
  BY <1>2, NoneAssumption DEF Undo

LEMMA StoryPlaces ==
    ASSUME NEW records, NEW reports, NEW items, NEW was, NEW t, Story(records, reports, items, was, t)
    PROVE  was \in Places
  BY DEF Story, Lay

\* Nothing is asked of the worker, and nothing reported.
LEMMA Alone ==
    ASSUME IInv, pending = 0
    PROVE  work = None /\ done = <<>> /\ queue = <<>>
<1>1. /\ Listed(queue) /\ Listed(done) /\ Len(queue) \in Nat /\ Len(done) \in Nat
      /\ 0 >= Len(queue) + Len(done) + (IF work = None THEN 0 ELSE 1)
  BY ListedIs DEF IInv, ReportsOK, PendingOK
<1>2. work = None
  BY <1>1
<1>3. Len(queue) = 0 /\ Len(done) = 0
  BY <1>1, <1>2
<1> QED
  BY <1>1, <1>2, <1>3, ListedIs

LEMMA WorkNow ==
    ASSUME IInv, UndoInv, calm, work # None
    PROVE  /\ undo = None /\ Story(log, done, work.moved, work.was, fs)
           /\ work.sources \in Seq(Paths) /\ work.began \in Places
           /\ WorkOK(work, panels, Stands(alive)) /\ Tree(fs)
           /\ \E scene \in Scenes : panels = scene.panels
<1>1. undo = None
  BY Alone DEF UndoInv
<1>2. Out(undo, work) = work.moved /\ Lain(undo, work) = work.was
  BY <1>1 DEF Out, Lain
<1> QED
  BY <1>1, <1>2 DEF UndoInv, IInv

\* The worker goes on.
LEMMA WorkerTells ==
    ASSUME IInv, UndoInv, calm, work # None, WorkerOnly, WorkOK(work', panels, Stands(alive)),
           work'.sources = work.sources, work'.was = work.was, work'.began = work.began,
           Story(log, done, work'.moved, work.was, fs')
    PROVE  UndoInv'
<1>1. undo = None /\ work.sources \in Seq(Paths) /\ work.began \in Places
  BY WorkNow
<1>2. work'.was \in Places
  BY StoryPlaces
<1>3. work' # None
  BY <1>1, <1>2, BatchIs
<1>4. undo' = None /\ log' = log /\ done' = done
  BY <1>1 DEF WorkerOnly
<1>5. Out(undo', work') = work'.moved /\ Lain(undo', work') = work.was
  BY <1>3, <1>4 DEF Out, Lain
<1> QED
  BY <1>1, <1>4, <1>5 DEF UndoInv

LEMMA GoKept ==
    ASSUME NEW shown, NEW stands, WorkOK(work, shown, stands), NEW frames, NEW failures,
           Go(frames, failures)
    PROVE  /\ work'.sources = work.sources /\ work'.was = work.was /\ work'.began = work.began
           /\ work'.moved = work.moved
<1> DEFINE stack2 == frames \o Tail(work.stack)
           quiet2 == work.quiet \/ Top.do = "item"
           failed2 == work.failed + failures
<1>1. /\ work \in [sources : {work.sources}, stack : {work.stack}, moved : {work.moved}, failed : Nat, dups : Nat,
                   quiet : BOOLEAN, was : {work.was}, began : {work.began}]
  BY DEF WorkOK
<1>2. work' = [work EXCEPT !.stack = stack2, !.failed = failed2, !.quiet = quiet2]
  BY DEF Go
<1> HIDE DEF stack2, quiet2, failed2
<1> QED
  BY <1>1, <1>2

\* It moves nothing.
LEMMA GoTells ==
    ASSUME IInv, UndoInv, calm, work # None, WorkerOnly, UNCHANGED fs,
           WorkOK(work', panels, Stands(alive)), work'.moved = work.moved,
           NEW frames, NEW failures, Go(frames, failures)
    PROVE  UndoInv'
<1>1. Story(log, done, work.moved, work.was, fs) /\ WorkOK(work, panels, Stands(alive))
  BY WorkNow
<1>2. work'.sources = work.sources /\ work'.was = work.was /\ work'.began = work.began
  BY <1>1, GoKept
<1>3. Story(log, done, work'.moved, work.was, fs')
  BY <1>1
<1> QED
  BY <1>2, <1>3, WorkerTells

LEMMA LookGoes ==
    ASSUME Look
    PROVE  \E frames, failures : Go(frames, failures)
<1>1. CASE Go(<<>>, 1)
  BY <1>1
<1>2. CASE Fault
  BY <1>2 DEF Fault
<1>3. CASE LookAtFile
  BY <1>3 DEF LookAtFile
<1>4. CASE LookAtDir
  <2> DEFINE target == Join(Top.dir, Name(Top.src))
             frames(sorted) == Append(Items(sorted, target), Removal(Top.src, work.failed))
  <2>1. \/ Go(<<Whole(Top.src, target)>>, 0)
        \/ \E sorted \in Sorted(Kids(Top.src)) : Go(frames(sorted), 0)
        \/ \E some \in SUBSET Kids(Top.src) : \E sorted \in Sorted(some) : Go(frames(sorted), 1)
    BY <1>4 DEF LookAtDir
  <2> QED
    BY <2>1
<1> QED
  BY <1>1, <1>2, <1>3, <1>4 DEF Look

LEMMA HashGoes ==
    ASSUME HashAndCompare
    PROVE  \E frames, failures : Go(frames, failures)
<1>1. ASSUME NEW unreadable, Judge(unreadable) PROVE \E frames, failures : Go(frames, failures)
  BY <1>1 DEF Judge
<1>2. CASE Go(<<>>, 1)
  BY <1>2
<1>3. CASE Fault
  BY <1>3 DEF Fault
<1> QED
  BY <1>1, <1>2, <1>3 DEF HashAndCompare

LEMMA LookTells ==
    ASSUME IInv, UndoInv, calm, Look \/ HashAndCompare
    PROVE  UndoInv'
<1>1. work # None /\ WorkerOnly /\ UNCHANGED fs
  BY DEF Look, HashAndCompare, At
<1>2. WorkOK(work', panels, Stands(alive)) /\ work'.moved = work.moved
  BY LookKeeps, HashAndCompareKeeps
<1>3. PICK frames, failures : Go(frames, failures)
  BY LookGoes, HashGoes
<1> QED
  BY <1>1, <1>2, <1>3, GoTells

\* It moves an item.
LEMMA MovedTells ==
    ASSUME IInv, UndoInv, calm, work # None, work.stack # <<>>, WorkerOnly,
           WorkOK(work', panels, Stands(alive)),
           NEW dst \in Paths \ {<<>>}, NEW to, to = move_to(Top.src, dst) \/ to = move_dir_to(Top.src, dst), to # None,
           NEW dup, Moved(to, dup)
    PROVE  UndoInv'
<1> DEFINE src == Top.src
           stack2 == Tail(work.stack)
           e == [from |-> Top.src, to |-> to]
           moved2 == Append(work.moved, e)
           dups2 == IF dup THEN work.dups + 1 ELSE work.dups
<1>1. /\ Story(log, done, work.moved, work.was, fs) /\ WorkOK(work, panels, Stands(alive))
      /\ Tree(fs) /\ \E scene \in Scenes : panels = scene.panels
  BY WorkNow
<1>2. Source(src, panels, Stands(alive))
  BY <1>1, WentOn
<1>3. to = move_to(src, dst) \/ to = move_dir_to(src, dst)
  OBVIOUS
<1>4. fs' = Renamed(src, to) /\ work' = [work EXCEPT !.stack = stack2, !.moved = moved2, !.dups = dups2]
  BY DEF Moved
<1>5. /\ work \in [sources : {work.sources}, stack : {work.stack}, moved : {work.moved}, failed : Nat, dups : Nat,
                   quiet : BOOLEAN, was : {work.was}, began : {work.began}]
      /\ Listed(work.moved)
  BY <1>1, PartIsListed DEF WorkOK, Moves
<1>6. e = [from |-> src, to |-> to]
  OBVIOUS
<1> HIDE DEF src, stack2, dups2, e
<1>7. Takes(fs, e, Renamed(src, to))
  <2>1. PICK scene \in Scenes : panels = scene.panels
    BY <1>1
  <2>2. Source(src, scene.panels, Stands(alive))
    BY <1>2, <2>1
  <2> QED
    BY <1>1, <1>3, <1>6, <2>2, MoveTakes
<1>8. Story(log, done, moved2, work.was, fs')
  <2>1. Takes(fs, e, fs')
    BY <1>4, <1>7
  <2> QED
    BY <1>1, <1>5, <2>1, StoryOn
<1> HIDE DEF moved2
<1>9. /\ work'.sources = work.sources /\ work'.was = work.was /\ work'.began = work.began
      /\ work'.moved = moved2
  BY <1>4, <1>5
<1> QED
  BY <1>4, <1>7, <1>8, <1>9, WorkerTells

LEMMA LandTells ==
    ASSUME IInv, UndoInv, calm, LandFile \/ MoveWhole
    PROVE  UndoInv'
<1>1. /\ work # None /\ work.stack # <<>> /\ WorkerOnly
      /\ WorkOK(work, panels, Stands(alive))
  BY DEF LandFile, MoveWhole, At, IInv
<1>2. WorkOK(work', panels, Stands(alive))
  BY LandFileKeeps, MoveWholeKeeps
<1>3. Top.dst \in Paths \ {<<>>}
  <2>1. Top \in Frames /\ (Top.do = "land" \/ Top.do = "whole")
    BY <1>1, WentOn DEF LandFile, MoveWhole, At, Top
  <2> QED
    BY <2>1 DEF Frames
<1>4. ASSUME NEW to, to = move_to(Top.src, Top.dst) \/ to = move_dir_to(Top.src, Top.dst), to # None,
             NEW dup, Moved(to, dup)
      PROVE  UndoInv'
  <2> DEFINE dst == Top.dst
  <2>1. dst \in Paths \ {<<>>} /\ (to = move_to(Top.src, dst) \/ to = move_dir_to(Top.src, dst))
    BY <1>3, <1>4
  <2> HIDE DEF dst
  <2> QED
    BY <1>1, <1>2, <1>4, <2>1, MovedTells
<1>5. ASSUME NEW frames, NEW failures, Go(frames, failures), UNCHANGED fs
      PROVE  UndoInv'
  <2>1. work'.moved = work.moved
    BY <1>1, <1>5, GoKept
  <2> QED
    BY <1>1, <1>2, <1>5, <2>1, GoTells
<1>6. \/ \E to : /\ to = move_to(Top.src, Top.dst) \/ to = move_dir_to(Top.src, Top.dst)
                 /\ to # None /\ \E dup : Moved(to, dup)
      \/ UNCHANGED fs /\ \E frames, failures : Go(frames, failures)
  BY DEF LandFile, MoveWhole, Fault
<1> QED
  BY <1>4, <1>5, <1>6

LEMMA RemoveTells ==
    ASSUME IInv, UndoInv, calm, RemoveMerged
    PROVE  UndoInv'
<1> DEFINE src == Top.src
           u == [p \in DOMAIN fs \ {src} |-> fs[p]]
<1>1. work # None /\ WorkerOnly
  BY DEF RemoveMerged, At
<1>2. /\ Story(log, done, work.moved, work.was, fs) /\ WorkOK(work, panels, Stands(alive))
  BY <1>1, WorkNow
<1>3. WorkOK(work', panels, Stands(alive)) /\ work'.moved = work.moved
  BY RemoveMergedKeeps
<1>4. PICK frames, failures : Go(frames, failures)
  BY DEF RemoveMerged
<1>5. CASE UNCHANGED fs
  BY <1>1, <1>3, <1>4, <1>5, GoTells
<1>6. CASE IsDir(src) /\ ~IsMount(src) /\ fs' = u
  <2> HIDE DEF src
  <2>1. Within(u, fs)
    BY <1>6, RemovedWithin DEF IsDir, IsMount, Directories
  <2> HIDE DEF u
  <2>3. Story(log, done, work.moved, work.was, u)
    BY <1>2, <2>1, StoryLess
  <2>4. work'.sources = work.sources /\ work'.was = work.was /\ work'.began = work.began
    BY <1>2, <1>4, GoKept
  <2> QED
    BY <1>1, <1>3, <1>6, <2>3, <2>4, WorkerTells
<1> QED
  BY <1>5, <1>6 DEF RemoveMerged

\* A batch begins with the files where they are.
LEMMA TakeTells ==
    ASSUME IInv, UndoInv, calm, Take
    PROVE  UndoInv'
<1> DEFINE request == Head(queue)
           sources == request.sources
           items == Items(sources, request.dir)
           ids == UNION {IdsBelow(s) : s \in Range(sources)}
           was == [i \in ids |-> CHOOSE p \in DOMAIN fs : fs[p] = i]
<1>1. /\ work = None /\ queue # <<>>
      /\ UNCHANGED <<fs, panels, done, pending, log, undo, snapped, left, alive, calm>>
  BY DEF Take
<1>2. undo = None
  BY <1>1, Alone DEF UndoInv
<1>3. Tree(fs) /\ DOMAIN fs \subseteq Paths
  BY DEF IInv, Tree
<1>4. sources \in Seq(Paths)
  <2>1. request = queue[1] /\ 1 \in DOMAIN queue
    BY <1>1, TailIs DEF IInv, ReportsOK, Listed
  <2> QED
    BY <2>1 DEF IInv, ReportsOK, RequestOK
<1>5. work' = [sources |-> sources, stack |-> items, moved |-> <<>>, failed |-> 0, dups |-> 0, quiet |-> TRUE,
               was |-> was, began |-> was]
  BY DEF Take
<1>6. WorkOK(work', panels, Stands(alive))
  BY TakeKeeps
<1>7. ASSUME NEW i \in ids
      PROVE  i \in Files /\ was[i] \in DOMAIN fs /\ fs[was[i]] = i
  <2>1. PICK s \in Range(sources) : i \in IdsBelow(s)
    BY <1>7
  <2>2. PICK q \in DOMAIN fs : fs[q] = i /\ i \in Files
    BY <2>1 DEF IdsBelow, Below
  <2> QED
    BY <1>7, <2>2
<1>8. DOMAIN was = ids /\ was = [i \in ids |-> was[i]]
  OBVIOUS
<1> HIDE DEF was, items, sources, ids
<1>9. ids \subseteq Files
  BY <1>7
<1>10. was \in [ids -> Paths]
  BY <1>3, <1>7, <1>8
<1>11. was \in Places
  BY <1>9, <1>10 DEF Places
<1>12. Lay(was, fs)
  BY <1>7, <1>8, <1>11 DEF Lay
<1>13. work'.sources = sources /\ work'.was = was /\ work'.began = was /\ work'.moved = <<>>
  BY <1>5
<1>14. work' # None
  BY <1>4, <1>6, <1>11, <1>13, BatchIs
<1>15. Out(undo, work) = <<>> /\ Lain(undo, work) = <<>>
  BY <1>1, <1>2 DEF Out, Lain
<1>16. Story(log, done, <<>>, was, fs)
  BY <1>12, <1>15, StoryTaken DEF UndoInv
<1>17. Out(undo', work') = <<>> /\ Lain(undo', work') = was
  BY <1>1, <1>2, <1>13, <1>14 DEF Out, Lain
<1> QED
  BY <1>1, <1>2, <1>4, <1>11, <1>13, <1>16, <1>17 DEF UndoInv

LEMMA FinishTells ==
    ASSUME IInv, UndoInv, calm, Finish
    PROVE  UndoInv'
<1> DEFINE r == Report(work.moved, work.failed, work.was, {i \in DOMAIN work.began : Lies(i, work.began[i])})
<1>1. /\ work # None /\ done' = Append(done, r) /\ work' = None
      /\ UNCHANGED <<fs, panels, queue, pending, log, undo, snapped, left, alive, calm>>
  BY DEF Finish
<1>2. /\ undo = None /\ Story(log, done, work.moved, work.was, fs)
      /\ WorkOK(work, panels, Stands(alive))
  BY <1>1, WorkNow
<1>3. r.moved = work.moved /\ r.was = work.was
  BY DEF Report
<1>4. Len(work.moved) \in Nat
  BY <1>2, LenProperties DEF WorkOK, Moves
<1>5. Listed(done)
  BY DEF IInv, ReportsOK
<1> HIDE DEF r
<1>6. Story(log, done', <<>>, <<>>, fs)
  <2>1. Story(log, done, r.moved, r.was, fs) /\ Len(r.moved) \in Nat
    BY <1>2, <1>3, <1>4
  <2> QED
    BY <1>1, <1>5, <2>1, StoryReported
<1>7. Out(undo', work') = <<>> /\ Lain(undo', work') = <<>>
  BY <1>1, <1>2 DEF Out, Lain
<1> QED
  BY <1>1, <1>2, <1>6, <1>7 DEF UndoInv

LEMMA apply_move_outcomeTells ==
    ASSUME IInv, UndoInv, calm, apply_move_outcome
    PROVE  UndoInv'
<1> DEFINE r == Head(done)
           e == [items |-> r.moved, was |-> r.was]
           items == Out(undo, work)
           was == Lain(undo, work)
<1>1. /\ undo = None /\ done # <<>> /\ done' = Tail(done)
      /\ log' = IF r.moved = <<>> THEN log ELSE Append(log, e)
      /\ UNCHANGED <<fs, panels, queue, work, undo, snapped, left, alive, calm>>
  BY DEF apply_move_outcome
<1>2. Listed(done) /\ Listed(log) /\ \A i \in DOMAIN done : Moves(done[i].moved, Stands(alive))
  BY DEF IInv, ReportsOK
<1>3. r = done[1] /\ 1 \in DOMAIN done
  BY <1>1, <1>2, TailIs DEF Listed
<1>4. Len(r.moved) \in Nat
  BY <1>2, <1>3, LenProperties DEF Moves
<1>5. Story(log, done, items, was, fs)
  BY DEF UndoInv
<1>6. Out(undo', work') = items /\ Lain(undo', work') = was
  BY <1>1
<1> HIDE DEF items, was
<1>7. /\ Story(Append(log, [items |-> r.moved, was |-> r.was]), Tail(done), items, was, fs)
      /\ r.moved = <<>> => Story(log, Tail(done), items, was, fs)
  <2> DEFINE h == Head(done)
  <2>1. h = Head(done) /\ Len(h.moved) \in Nat
    BY <1>4
  <2> HIDE DEF h
  <2>2. /\ Story(Append(log, [items |-> h.moved, was |-> h.was]), Tail(done), items, was, fs)
        /\ h.moved = <<>> => Story(log, Tail(done), items, was, fs)
    BY <1>1, <1>2, <1>5, <2>1, StoryLogged
  <2> QED
    BY <2>2 DEF h
<1> HIDE DEF r
<1>8. Story(log', done', items, was, fs')
  <2>1. CASE r.moved = <<>>
    BY <1>1, <1>7, <2>1
  <2>2. CASE r.moved # <<>>
    BY <1>1, <1>7, <2>2
  <2> QED
    BY <2>1, <2>2
<1> QED
  BY <1>1, <1>6, <1>8 DEF UndoInv

\* The undo of the last batch begins.
LEMMA undo_last_moveTells ==
    ASSUME IInv, UndoInv, calm', undo_last_move
    PROVE  UndoInv'
<1> DEFINE l == Last(log)
           f == Front(log)
           todo == UndoOrder(l.items)
<1>1. /\ undo = None /\ log # <<>>
      /\ undo' = [todo |-> todo, made |-> FALSE, failed |-> 0, was |-> l.was]
      /\ log' = f /\ calm /\ pending = 0
      /\ UNCHANGED <<fs, panels, queue, work, done, pending, snapped, alive>>
  BY DEF undo_last_move
<1>2. work = None /\ done = <<>>
  BY <1>1, Alone
<1>3. log \in Seq(Range(log)) /\ \A i \in DOMAIN log : Moves(log[i].items, Stands(alive))
  BY DEF IInv, ReportsOK, Listed
<1>4. l = log[Len(log)] /\ Len(log) \in DOMAIN log
  BY <1>1, <1>3, FrontIs
<1>5. l.items \in Seq(MovedItems) /\ Len(l.items) \in Nat
  BY <1>3, <1>4, LenProperties DEF Moves
<1>6. Story(f, <<>>, l.items, l.was, fs)
  <2>1. Out(undo, work) = <<>> /\ Lain(undo, work) = <<>>
    BY <1>1, <1>2 DEF Out, Lain
  <2>2. Story(log, <<>>, <<>>, <<>>, fs)
    BY <1>1, <1>2, <2>1 DEF UndoInv
  <2> QED
    BY <1>1, <1>3, <1>5, <2>2, StoryUndone
<1>7. l.was \in Places
  BY <1>6, StoryPlaces
<1>8. Reverse(todo) = l.items
  BY <1>5, ReversedTwice DEF UndoOrder
<1>9. IInv'
  BY undo_last_moveKeeps
<1> HIDE DEF l, f, todo
<1>10. undo'.todo = todo /\ undo'.made = FALSE /\ undo'.failed = 0 /\ undo'.was = l.was
  BY <1>1
<1>11. undo' # None
  <2>1. todo \in Seq(MovedItems)
    BY <1>5, ReversedIs DEF UndoOrder, todo
  <2>2. undo' \in [todo : Seq(MovedItems), made : BOOLEAN, failed : Nat, was : Places]
    BY <1>1, <1>7, <2>1
  <2> QED
    BY <2>2, NoneAssumption DEF Undo
<1>12. Out(undo', work') = l.items /\ Lain(undo', work') = l.was
  BY <1>8, <1>10, <1>11 DEF Out, Lain
<1>13. Story(log', done', Out(undo', work'), Lain(undo', work'), fs')
  BY <1>1, <1>2, <1>6, <1>12
<1>15. work' = None
  BY <1>1, <1>2
<1> QED
  BY <1>1, <1>10, <1>13, <1>15 DEF UndoInv

\* An undo that nothing came between has the worker and its reports out of the way.
LEMMA UndoNow ==
    ASSUME IInv, UndoInv, calm, undo # None
    PROVE  /\ work = None /\ done = <<>> /\ pending = 0 /\ undo.made \in BOOLEAN /\ undo.failed \in Nat
           /\ undo.was \in Places /\ undo.todo \in Seq(MovedItems) /\ Tree(fs)
           /\ Reverse(undo.todo) \in Seq(MovedItems)
           /\ Story(log, done, Reverse(undo.todo), undo.was, fs)
           /\ undo \in [todo : {undo.todo}, made : {undo.made}, failed : {undo.failed}, was : {undo.was}]
<1>1. pending = 0 /\ undo.made \in BOOLEAN /\ undo.failed \in Nat
  BY DEF UndoInv
<1>2. work = None /\ done = <<>>
  BY <1>1, Alone
<1>3. UndoOK(undo, Stands(alive)) /\ Tree(fs)
  BY DEF IInv, ReportsOK
<1>4. /\ undo \in [todo : {undo.todo}, made : {undo.made}, failed : {undo.failed}, was : {undo.was}]
      /\ undo.todo \in Seq(MovedItems)
  BY <1>3 DEF UndoOK, Moves
<1>5. Reverse(undo.todo) \in Seq(MovedItems)
  BY <1>4, ReversedIs
<1>6. Story(log, done, Reverse(undo.todo), undo.was, fs)
  BY DEF UndoInv, Out, Lain
<1>7. undo.was \in Places
  BY <1>6, StoryPlaces
<1> QED
  BY <1>1, <1>2, <1>3, <1>4, <1>5, <1>6, <1>7

\* What the next item to be taken back was moved in.
LEMMA BackIs ==
    ASSUME IInv, UndoInv, calm, undo # None, undo.todo # <<>>
    PROVE  \E t, new : /\ Takes(t, Back, new) /\ Within(fs, new)
                       /\ \A u : Within(u, new) => Story(log, done, Reverse(undo.todo), undo.was, u)
                       /\ \A u : Within(u, t) => Story(log, done, Reverse(Tail(undo.todo)), undo.was, u)
<1> DEFINE todo == undo.todo
           items == Reverse(todo)
<1>1. todo \in Seq(MovedItems) /\ Story(log, done, items, undo.was, fs)
  BY UndoNow
<1>2. /\ items \in Seq(MovedItems) /\ items # <<>> /\ Last(items) = Head(todo)
      /\ Front(items) = Reverse(Tail(todo))
  BY <1>1, ReversedFirst
<1> HIDE DEF items
<1>3. \E b, h : /\ Takes(b, Last(items), h) /\ Within(fs, h)
                /\ \A u : Within(u, h) => Story(log, done, items, undo.was, u)
                /\ \A u : Within(u, b) => Story(log, done, Front(items), undo.was, u)
  BY <1>1, <1>2, StoryLast
<1> QED
  BY <1>2, <1>3 DEF items, Back

LEMMA MakeParentTells ==
    ASSUME IInv, UndoInv, calm, MakeParent
    PROVE  UndoInv'
<1> DEFINE todo == undo.todo
           was == undo.was
           e == Back
           p == Parent(e.from)
           u == WithDirs(p)
<1>1. /\ undo # None /\ todo # <<>> /\ fs' = u /\ undo' = [undo EXCEPT !.made = TRUE]
      /\ Disturb({}, <<>>) /\ UNCHANGED <<panels, queue, done, pending, log, snapped, left, alive, calm>>
  BY DEF MakeParent
<1>2. /\ work = None /\ pending = 0 /\ undo.failed \in Nat /\ was \in Places /\ todo \in Seq(MovedItems)
      /\ Tree(fs)
      /\ undo \in [todo : {undo.todo}, made : {undo.made}, failed : {undo.failed}, was : {undo.was}]
  BY <1>1, UndoNow
<1>3. PICK t, new : /\ Takes(t, e, new) /\ Within(fs, new)
                    /\ \A v : Within(v, new) => Story(log, done, Reverse(todo), was, v)
  BY <1>1, BackIs
<1> HIDE DEF e
<1>4. /\ Within(u, new) /\ p \in DOMAIN u /\ u[p] \in Directories
      /\ \A q \in DOMAIN fs : q \in DOMAIN u /\ u[q] = fs[q]
  BY <1>2, <1>3, ParentsMade
<1> HIDE DEF u
<1>6. undo'.todo = todo /\ undo'.was = was /\ undo'.made = TRUE /\ undo'.failed = undo.failed
  BY <1>1, <1>2
<1>7. undo' # None
  <2>1. undo \in [todo : Seq(MovedItems), made : {undo.made}, failed : Nat, was : Places]
    BY <1>2
  <2>2. undo' \in [todo : Seq(MovedItems), made : BOOLEAN, failed : Nat, was : Places]
    BY <1>1, <2>1
  <2> QED
    BY <2>2, NoneAssumption DEF Undo
<1>8. work' = None
  BY <1>1, <1>2 DEF Disturb
<1>9. p \in DOMAIN fs' /\ fs'[p] \in Directories /\ p = Parent(Head(undo'.todo).from)
  BY <1>1, <1>4, <1>6 DEF e, Back
<1>10. Story(log', done', Out(undo', work'), Lain(undo', work'), fs')
  <2>1. Out(undo', work') = Reverse(todo) /\ Lain(undo', work') = was
    BY <1>6, <1>7 DEF Out, Lain
  <2> HIDE DEF todo, was
  <2> QED
    BY <1>1, <1>3, <1>4, <2>1
<1> HIDE DEF p
<1>11. /\ undo'.made \in BOOLEAN /\ undo'.failed \in Nat /\ undo'.todo # <<>> /\ pending' = 0
  BY <1>1, <1>2, <1>6
<1> HIDE DEF todo, was
<1> QED
  BY <1>8, <1>9, <1>10, <1>11 DEF UndoInv, IsDir

\* The next item's turn.
LEMMA NextItemTells ==
    ASSUME IInv, UndoInv, calm, undo # None, undo.todo # <<>>, NEW failures \in Nat, NextItem(failures), work' = None,
           UNCHANGED <<done, pending, log>>, Story(log, done, Reverse(Tail(undo.todo)), undo.was, fs')
    PROVE  UndoInv'
<1> DEFINE todo == Tail(undo.todo)
           was == undo.was
           failed == undo.failed + failures
<1>1. /\ pending = 0 /\ undo.failed \in Nat /\ was \in Places /\ undo.todo \in Seq(MovedItems)
      /\ undo \in [todo : {undo.todo}, made : {undo.made}, failed : {undo.failed}, was : {undo.was}]
  BY UndoNow
<1>2. todo \in Seq(MovedItems)
  BY <1>1, TailIs
<1>3. undo' = [undo EXCEPT !.todo = todo, !.made = FALSE, !.failed = failed]
  BY DEF NextItem
<1>4. failed \in Nat
  BY <1>1
<1>5. Story(log, done, Reverse(todo), was, fs')
  OBVIOUS
<1> HIDE DEF todo, failed
<1>6. undo'.todo = todo /\ undo'.was = was /\ undo'.made = FALSE /\ undo'.failed = failed
  BY <1>1, <1>3
<1>7. undo' # None
  <2>1. undo \in [todo : {undo.todo}, made : {undo.made}, failed : {undo.failed}, was : Places]
    BY <1>1
  <2>2. undo' \in [todo : Seq(MovedItems), made : BOOLEAN, failed : Nat, was : Places]
    BY <1>2, <1>3, <1>4, <2>1
  <2> QED
    BY <2>2, NoneAssumption DEF Undo
<1>8. Out(undo', work') = Reverse(todo) /\ Lain(undo', work') = was
  BY <1>6, <1>7 DEF Out, Lain
<1> HIDE DEF was
<1>9. Story(log', done', Out(undo', work'), Lain(undo', work'), fs')
  BY <1>5, <1>8
<1> QED
  BY <1>1, <1>4, <1>6, <1>9 DEF UndoInv

\* An item that is still there is put at its very path, and one that is not was an empty directory.
LEMMA BackGoes ==
    ASSUME IInv, UndoInv, calm, undo # None, undo.todo # <<>>, undo.made
    PROVE  /\ Back.to \in DOMAIN fs => Restored = Back.from /\ Restored # None
           /\ Restored # None => Back.to \in DOMAIN fs
<1> DEFINE e == Back
<1>1. PICK t, new : Takes(t, e, new) /\ Within(fs, new)
  BY BackIs
<1>2. IsDir(Parent(e.from)) /\ Tree(fs)
  BY UndoNow DEF UndoInv, Back
<1>3. e.from \in Paths \ {<<>>} /\ e.to \in Paths \ {<<>>}
  BY UndoIs
<1>4. Restored = IF IsDir(e.to) THEN move_dir_to(e.to, e.from) ELSE move_to(e.to, e.from)
  BY DEF Restored
<1> DEFINE r == Restored
<1>5. r = IF IsDir(e.to) THEN move_dir_to(e.to, e.from) ELSE move_to(e.to, e.from)
  BY <1>4
<1> HIDE DEF e, r
<1>6. ASSUME e.to \in DOMAIN fs PROVE r = e.from /\ r # None
  <2>1. r = e.from
    BY <1>1, <1>2, <1>5, <1>6, RestoredIs
  <2> QED
    BY <1>3, <2>1, NoneAssumption
<1>7. ASSUME r # None PROVE e.to \in DOMAIN fs
  <2> DEFINE src == e.to
             dst == e.from
  <2>1. src \in Paths \ {<<>>} /\ dst \in Paths \ {<<>>} /\ (r = move_to(src, dst) \/ r = move_dir_to(src, dst))
    BY <1>3, <1>5
  <2> HIDE DEF src, dst
  <2>2. src \in DOMAIN fs
    BY <1>2, <1>7, <2>1, TargetIs
  <2> QED
    BY <2>2 DEF src
<1> QED
  BY <1>6, <1>7 DEF e, r

LEMMA restore_oneTells ==
    ASSUME IInv, UndoInv, calm, calm', restore_one
    PROVE  UndoInv'
<1> DEFINE todo == undo.todo
           was == undo.was
           e == Back
           R == Renamed(e.to, e.from)
<1>1. undo # None /\ todo # <<>> /\ undo.made /\ UNCHANGED <<done, pending, log>>
  BY DEF restore_one
<1>2. work = None /\ Tree(fs)
  BY <1>1, UndoNow
<1>3. PICK t, new : /\ Takes(t, e, new) /\ Within(fs, new)
                    /\ \A v : Within(v, t) => Story(log, done, Reverse(Tail(todo)), was, v)
  BY <1>1, BackIs
<1>4. /\ e.to \in DOMAIN fs => Restored = e.from /\ Restored # None
      /\ Restored # None => e.to \in DOMAIN fs
  BY <1>1, BackGoes
<1>5. e.from \in Paths \ {<<>>} /\ e.to \in Paths \ {<<>>} /\ IsDir(Parent(e.from))
  BY <1>1, UndoIs DEF UndoInv, Back
<1>6. CASE /\ Restored # None /\ fs' = Renamed(Back.to, Restored) /\ Disturb(IdsBelow(Back.to), <<>>)
           /\ NextItem(0)
  <2>1. e.to \in DOMAIN fs /\ fs' = R
    BY <1>4, <1>6
  <2>2. work' = None /\ NextItem(0) /\ 0 \in Nat
    BY <1>2, <1>6 DEF Disturb
  <2> HIDE DEF e
  <2>3. e.from \notin DOMAIN fs
    BY <1>2, <1>3, <1>5, <2>1, RestoredIs
  <2>4. Renames(fs, e.to, e.from, R)
    <3> DEFINE src == e.to
               dst == e.from
    <3>1. src \in DOMAIN fs /\ dst \in Paths \ {<<>>} /\ dst \notin DOMAIN fs
      BY <1>5, <2>1, <2>3
    <3>2. Parent(dst) \in DOMAIN fs /\ fs[Parent(dst)] \in Directories
      BY <1>5 DEF IsDir
    <3>3. ~Above(src, Parent(dst))
      <4>1. Takes(t, e, new) /\ src \in Paths /\ Parent(dst) \in Paths /\ Above(Parent(dst), dst) /\ dst \in Paths
        BY <1>3, <1>5, ParentIs
      <4>2. ~Above(e.to, e.from)
        BY <1>3, TakesIs
      <4> QED
        BY <4>1, <4>2, AboveOrder
    <3> HIDE DEF src, dst
    <3>4. Renames(fs, src, dst, Renamed(src, dst))
      BY <1>2, <3>1, <3>2, <3>3, RenamedRenames
    <3> QED
      BY <3>4 DEF src, dst
  <2> HIDE DEF R
  <2>5. Within(R, t)
    BY <1>3, <2>4, TakenBack
  <2>6. Story(log, done, Reverse(Tail(todo)), was, fs')
    BY <1>3, <2>1, <2>5
  <2> QED
    BY <1>1, <2>2, <2>6, NextItemTells
<1>7. CASE Restored = None /\ NextItem(1) /\ UNCHANGED <<fs, work>>
  <2> HIDE DEF e
  <2>1. e.to \notin DOMAIN fs
    BY <1>4, <1>7
  <2>2. \A p \in DOMAIN fs : ~Above(e.to, p)
    BY <1>2, <1>5, <2>1, UpIn
  <2>3. Renames(fs, e.to, e.from, fs)
    BY <2>2 DEF Renames
  <2>4. Within(fs, t)
    BY <1>3, <2>3, TakenBack
  <2>5. Story(log, done, Reverse(Tail(todo)), was, fs') /\ work' = None /\ 1 \in Nat
    BY <1>2, <1>3, <1>7, <2>4
  <2> QED
    BY <1>1, <1>7, <2>5, NextItemTells
<1> QED
  BY <1>6, <1>7 DEF restore_one

LEMMA UndoEndsTells ==
    ASSUME IInv, UndoInv, calm, UndoEnds
    PROVE  UndoInv'
<1>1. undo # None /\ undo.todo = <<>> /\ undo' = None
      /\ UNCHANGED <<fs, panels, queue, work, done, pending, log, snapped, left, alive, calm>>
  BY DEF UndoEnds
<1>2. work = None /\ Story(log, done, Reverse(undo.todo), undo.was, fs) /\ undo.todo \in Seq(MovedItems)
  BY <1>1, UndoNow
<1>3. Len(Reverse(undo.todo)) = 0
  BY <1>1, <1>2, ReversedIs, EmptySeq
<1>4. Story(log, done, <<>>, <<>>, fs)
  <2> DEFINE items == Reverse(undo.todo)
  <2> HIDE DEF items
  <2>1. PICK g, d, w : /\ Tells(log, g, d) /\ Tells(Records(done), d, w) /\ Leads(items, w, fs)
    BY <1>2 DEF Story, items
  <2>2. Within(fs, w)
    BY <1>3, <2>1, LeadsNone DEF items
  <2>3. Leads(<<>>, w, fs)
    BY <2>2, LeadsNone, EmptySeq
  <2> QED
    BY <2>1, <2>3, LayNone DEF Story
<1>5. Out(undo', work') = <<>> /\ Lain(undo', work') = <<>>
  BY <1>1, <1>2 DEF Out, Lain
<1> QED
  BY <1>1, <1>2, <1>4, <1>5 DEF UndoInv

LEMMA SendTells ==
    ASSUME UndoInv, calm, Send
    PROVE  UndoInv'
<1>1. undo = None /\ UNCHANGED <<fs, panels, work, done, log, undo, alive, calm>>
  BY DEF Send
<1> QED
  BY <1>1 DEF UndoInv

LEMMA TellsAtFirst ==
    ASSUME Init
    PROVE  UndoInv
<1>2. work = None /\ done = <<>> /\ log = <<>> /\ undo = None
  BY DEF Init
<1>4. Out(undo, work) = <<>> /\ Lain(undo, work) = <<>>
  BY <1>2 DEF Out, Lain
<1>5. Len(Records(<<>>)) = 0
  <2>1. Listed(<<>>)
    BY EmptySeq DEF Listed
  <2> QED
    BY <2>1, RecordsAre, EmptySeq
<1>6. Tells(<<>>, fs, fs) /\ Leads(<<>>, fs, fs)
  BY TellsNone, LeadsNone, WithinItself, EmptySeq
<1>7. Tells(Records(<<>>), fs, fs)
  BY <1>5, TellsNone, WithinItself
<1>8. Story(<<>>, <<>>, <<>>, <<>>, fs)
  BY <1>6, <1>7, LayNone DEF Story
<1> QED
  BY <1>2, <1>4, <1>8 DEF UndoInv

\* The batch that is undone has its files where they lay in the end, and each item on its way goes to
\* its very path.
LEMMA UndoneIsRestored ==
    ASSUME IInv, UndoInv
    PROVE  UndoRestores
<1> SUFFICES ASSUME undo # None, calm
             PROVE  /\ undo.todo = <<>> => \A i \in DOMAIN undo.was : Lies(i, undo.was[i])
                    /\ undo.todo # <<>> /\ undo.made /\ Back.to \in DOMAIN fs => Restored = Back.from
  BY DEF UndoRestores
<1>1. ASSUME undo.todo = <<>> PROVE \A i \in DOMAIN undo.was : Lies(i, undo.was[i])
  <2>1. undo.todo \in Seq(MovedItems) /\ Story(log, done, Reverse(undo.todo), undo.was, fs)
    BY UndoNow
  <2>2. Len(Reverse(undo.todo)) = 0
    BY <1>1, <2>1, ReversedIs, EmptySeq
  <2>3. Lay(undo.was, fs)
    BY <2>1, <2>2, StoryOver
  <2> QED
    BY <2>3 DEF Lay, Lies
<1>2. ASSUME undo.todo # <<>>, undo.made, Back.to \in DOMAIN fs PROVE Restored = Back.from
  BY <1>2, BackGoes
<1> QED
  BY <1>1, <1>2

LEMMA UndoTold ==
    Spec => []UndoInv
<1>1. Init => UndoInv
  BY TellsAtFirst
<1>2. IInv /\ UndoInv /\ [Next]_vars => UndoInv'
  <2> SUFFICES ASSUME IInv, UndoInv, [Next]_vars, calm' PROVE UndoInv'
    BY DEF UndoInv
  <2>1. calm /\ ~Panic /\ ~Create /\ ~Unlink
    BY DEF Next, Worker, Interface, Take, Look, HashAndCompare, LandFile, MoveWhole, RemoveMerged, WorkerOnly,
           Finish, Panic, Send, undo_last_move, apply_move_outcome, MakeParent, restore_one, UndoEnds, Create, Unlink,
           Rest, vars
  <2>2. CASE Take
    BY <2>1, <2>2, TakeTells
  <2>3. CASE Look \/ HashAndCompare
    BY <2>1, <2>3, LookTells
  <2>4. CASE LandFile \/ MoveWhole
    BY <2>1, <2>4, LandTells
  <2>5. CASE RemoveMerged
    BY <2>1, <2>5, RemoveTells
  <2>6. CASE Finish
    BY <2>1, <2>6, FinishTells
  <2>7. CASE Send
    BY <2>1, <2>7, SendTells
  <2>8. CASE undo_last_move
    BY <2>1, <2>8, undo_last_moveTells
  <2>9. CASE apply_move_outcome
    BY <2>1, <2>9, apply_move_outcomeTells
  <2>10. CASE MakeParent
    BY <2>1, <2>10, MakeParentTells
  <2>11. CASE restore_one
    BY <2>1, <2>11, restore_oneTells
  <2>12. CASE UndoEnds
    BY <2>1, <2>12, UndoEndsTells
  <2>13. CASE UNCHANGED vars
    BY <2>13 DEF UndoInv, vars, IsDir
  <2> QED
    BY <2>1, <2>2, <2>3, <2>4, <2>5, <2>6, <2>7, <2>8, <2>9, <2>10, <2>11, <2>12, <2>13
       DEF Next, Worker, Interface, Rest
<1> QED
  BY <1>1, <1>2, Inductive, PTL DEF Spec

\* undo_last_move and restore_one: whatever batches were sent one after the other, however they merged
\* and wherever something failed, an undo that nobody and no fault came between puts every file of its
\* batch back where it lay, and a batch that reports no failure has left nothing behind.
THEOREM RecordsAreTrue == Spec => []RecordIsTrue
<1>1. IInv /\ UndoInv => UndoRestores
  BY UndoneIsRestored
<1>2. CleanMeansMoved /\ UndoRestores => RecordIsTrue
  BY DEF RecordIsTrue
<1> QED
  BY <1>1, <1>2, Inductive, UndoTold, CleanBatchesAreMoved, PTL

=============================================================================
