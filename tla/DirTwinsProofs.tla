--------------------------- MODULE DirTwinsProofs ---------------------------
(***************************************************************************)
(* A walk accounts for what it leaves out, and directories are put         *)
(* together by what they hold, for any disk, roots, bounds and moment of   *)
(* cancellation.  First paths and the order of a walk (the order is convex:*)
(* what comes between two items of a folder is of the folder), then the    *)
(* walk (WalkInv: the account is of what was met and left out, Account),   *)
(* then the grouping (GroupInv: the stack is a chain of ancestors, Chain,  *)
(* a closed directory is written exactly if it is whole, Written, and      *)
(* signatures pair what whole subtrees pair, Paired).                      *)
(***************************************************************************)
EXTENDS DirTwins, FiniteSetTheorems, SequenceTheorems, WellFoundedInduction, TLAPS

\* A path is a sequence of numbers (WalkAccount).
Paths == Seq(Nat)

\* A prefix of a path, component by component.
LEMMA CutIs ==
    ASSUME NEW p \in Paths, NEW n \in 0..Len(p)
    PROVE  /\ SubSeq(p, 1, n) \in Paths
           /\ Len(SubSeq(p, 1, n)) = n
           /\ \A i \in 1..n : SubSeq(p, 1, n)[i] = p[i]
<1>1. 1 \in 1..(Len(p) + 1) /\ n \in (1 - 1)..Len(p)
  BY DEF Paths
<1>2. QED
  BY <1>1, SubSeqProperties DEF Paths

\* The components of a path are numbers.
LEMMA PathAt ==
    ASSUME NEW p \in Paths, NEW i \in 1..Len(p)
    PROVE  p[i] \in Nat
BY ElementOfSeq DEF Paths

\* Paths of one length with the same components are one path.
LEMMA SamePath ==
    ASSUME NEW p \in Paths, NEW q \in Paths, Len(p) = Len(q),
           \A i \in 1..Len(p) : p[i] = q[i]
    PROVE  p = q
BY SeqEqual DEF Paths

\* The root of the file system is its own parent, as Path::parent falls back to it.
LEMMA NoParent == Parent(<<>>) = <<>>
BY DEF Parent

\* A parent is a path, one component shorter but for the root of the file system.
LEMMA ParentIs ==
    ASSUME NEW p \in Paths
    PROVE  /\ Parent(p) \in Paths
           /\ p # <<>> => Len(p) - 1 \in 0..Len(p) /\ Len(Parent(p)) = Len(p) - 1
<1>1. Len(p) \in Nat /\ (Len(p) = 0 <=> p = <<>>)
  BY EmptySeq DEF Paths
<1>2. CASE p = <<>>
  BY <1>2, NoParent
<1>3. CASE p # <<>>
  <2>1. Len(p) - 1 \in 0..Len(p)
    BY <1>1, <1>3
  <2>2. QED
    BY <2>1, CutIs DEF Parent
<1>4. QED
  BY <1>2, <1>3

\* At or under a directory, component by component (PathKey::is_at_or_under).
LEMMA UnderIs ==
    ASSUME NEW p \in Paths, NEW d \in Paths
    PROVE  Under(p, d) <=> Len(d) <= Len(p) /\ \A i \in 1..Len(d) : p[i] = d[i]
<1>1. Len(p) \in Nat /\ Len(d) \in Nat
  BY DEF Paths
<1>2. CASE Len(d) <= Len(p)
  <2> DEFINE c == SubSeq(p, 1, Len(d))
  <2>1. Len(d) \in 0..Len(p)
    BY <1>1, <1>2
  <2>2. c \in Paths /\ Len(c) = Len(d) /\ \A i \in 1..Len(d) : c[i] = p[i]
    BY <2>1, CutIs
  <2> HIDE DEF c
  <2>3. c = d <=> \A i \in 1..Len(d) : p[i] = d[i]
    BY <2>2, SamePath
  <2>4. QED
    BY <1>2, <2>3 DEF Under, c
<1>3. QED
  BY <1>1, <1>2 DEF Under

\* A set of numbers that is not empty has a least one.
LEMMA Least ==
    ASSUME NEW S \in SUBSET Nat, S # {}
    PROVE  \E n \in S : \A m \in S : n <= m
<1> DEFINE T == {0..n : n \in S}
<1>1. IsWellFoundedOn(StrictSubsetOrdering(Nat), FiniteSubsetsOf(Nat))
  BY FS_StrictSubsetOrderingWellFounded
<1>2. T \subseteq FiniteSubsetsOf(Nat)
  <2>1. \A n \in S : IsFiniteSet(0..n) /\ 0..n \in SUBSET Nat
    BY FS_Interval
  <2>2. QED
    BY <2>1 DEF FiniteSubsetsOf
<1>3. T # {}
  OBVIOUS
<1> HIDE DEF T
<1>4. \E x \in T : \A y \in T : ~(<<y, x>> \in StrictSubsetOrdering(Nat))
  BY <1>1, <1>2, <1>3, WFMin
<1>5. PICK n \in S : \A m \in S : <<0..m, 0..n>> \notin StrictSubsetOrdering(Nat)
  BY <1>4 DEF T
<1>6. ASSUME NEW m \in S, m < n
      PROVE  FALSE
  <2>1. 0..m \in SUBSET Nat /\ 0..n \in SUBSET Nat /\ 0..m \subseteq 0..n /\ n \in 0..n /\ n \notin 0..m
    BY <1>6
  <2>2. QED
    BY <1>5, <1>6, <2>1 DEF StrictSubsetOrdering
<1>7. QED
  BY <1>6

\* One event more in one cell, and in no other (Collector::record).
LEMMA Bagged ==
    ASSUME NEW S, NEW B \in [S -> Nat], NEW x, NEW y
    PROVE  /\ OneMore(B, x) \in [S \cup {x} -> Nat]
           /\ DOMAIN OneMore(B, x) = DOMAIN B \cup {x}
           /\ CountOf(y, OneMore(B, x)) = IF y = x THEN CountOf(y, B) + 1 ELSE CountOf(y, B)
BY DEF OneMore, CountOf

-----------------------------------------------------------------------------
(* The order of the walk                                                   *)

\* A path is at itself.
LEMMA UnderSelf ==
    ASSUME NEW p \in Paths
    PROVE  Under(p, p)
BY UnderIs DEF Paths

\* What lies under a directory lies under what that one lies under.
LEMMA UnderTrans ==
    ASSUME NEW p \in Paths, NEW q \in Paths, NEW d \in Paths, Under(p, q), Under(q, d)
    PROVE  Under(p, d)
<1>1. Len(p) \in Nat /\ Len(q) \in Nat /\ Len(d) \in Nat
  BY DEF Paths
<1>2. QED
  BY <1>1, UnderIs

\* Of two directories over one path the longer lies under the shorter.
LEMMA UnderBoth ==
    ASSUME NEW p \in Paths, NEW a \in Paths, NEW b \in Paths,
           Under(p, a), Under(p, b), Len(a) <= Len(b)
    PROVE  Under(b, a)
<1>1. Len(p) \in Nat /\ Len(a) \in Nat /\ Len(b) \in Nat
  BY DEF Paths
<1>2. QED
  BY <1>1, UnderIs

\* Two paths under each other are one.
LEMMA UnderAnti ==
    ASSUME NEW a \in Paths, NEW b \in Paths, Under(a, b), Under(b, a)
    PROVE  a = b
<1>1. Len(a) \in Nat /\ Len(b) \in Nat
  BY DEF Paths
<1>2. QED
  BY <1>1, UnderIs, SamePath

\* A path lies under its prefixes.
LEMMA UnderCut ==
    ASSUME NEW p \in Paths, NEW n \in 0..Len(p)
    PROVE  Under(p, SubSeq(p, 1, n))
<1> DEFINE c == SubSeq(p, 1, n)
<1>1. Len(p) \in Nat
  BY DEF Paths
<1>2. c \in Paths /\ Len(c) = n /\ \A i \in 1..n : c[i] = p[i]
  BY CutIs
<1> HIDE DEF c
<1>3. Under(p, c)
  BY <1>1, <1>2, UnderIs
<1>4. QED
  BY <1>3 DEF c

\* A prefix lies under a directory above the path exactly if it is not shorter.
LEMMA CutUnder ==
    ASSUME NEW p \in Paths, NEW d \in Paths, NEW n \in 0..Len(p), Under(p, d)
    PROVE  Under(SubSeq(p, 1, n), d) <=> Len(d) <= n
<1> DEFINE c == SubSeq(p, 1, n)
<1>1. Len(p) \in Nat /\ Len(d) \in Nat
  BY DEF Paths
<1>2. c \in Paths /\ Len(c) = n /\ \A i \in 1..n : c[i] = p[i]
  BY CutIs
<1> HIDE DEF c
<1>3. Under(c, d) <=> Len(d) <= n
  BY <1>1, <1>2, UnderIs
<1>4. QED
  BY <1>3 DEF c

\* What an iterator could hand over, of any path.
AnyItem == [kind : {"ok", "err", "listing"}, path : Paths]

\* Depth first: what comes between two items of one folder is an item of that folder.
LEMMA Convex ==
    ASSUME NEW x \in AnyItem, NEW y \in AnyItem, NEW z \in AnyItem, NEW d \in Paths,
           Before(x, y), Before(y, z), Under(x.path, d), Under(z.path, d),
           x.kind = "err" => x.path # d
    PROVE  Under(y.path, d)
<1> DEFINE X == x.path
           Y == y.path
           Z == z.path
           k == Len(d)
<1>1. X \in Paths /\ Y \in Paths /\ Z \in Paths
  BY DEF AnyItem
<1>2. Len(X) \in Nat /\ Len(Y) \in Nat /\ Len(Z) \in Nat /\ k \in Nat
  BY <1>1 DEF Paths
<1>3. k <= Len(X) /\ k <= Len(Z) /\ \A i \in 1..k : X[i] = d[i] /\ Z[i] = d[i]
  BY <1>1, UnderIs
<1> SUFFICES ASSUME ~Under(Y, d)
             PROVE  FALSE
  OBVIOUS
<1>4. PICK n \in 1..Len(X) :
          /\ n <= Len(Y)
          /\ \A m \in 1..(n - 1) : X[m] = Y[m]
          /\ X[n] # Y[n]
          /\ \/ Rank(x, n) < Rank(y, n)
             \/ Rank(x, n) = Rank(y, n) /\ X[n] < Y[n]
  <2>1. ~Under(Y, X) /\ X # Y
    BY <1>1, UnderTrans
  <2>2. QED
    BY <2>1 DEF Before
<1>5. n <= k
  BY <1>1, <1>2, <1>3, <1>4, UnderIs
<1>6. PICK j \in 1..Len(Y) :
          /\ j <= Len(Z)
          /\ \A m \in 1..(j - 1) : Y[m] = Z[m]
          /\ Y[j] # Z[j]
          /\ \/ Rank(y, j) < Rank(z, j)
             \/ Rank(y, j) = Rank(z, j) /\ Y[j] < Z[j]
  <2>1. ~Under(Z, Y) /\ Z # Y
    BY <1>1, <1>2, <1>3, <1>4, <1>5, UnderIs
  <2>2. QED
    BY <2>1 DEF Before
<1>7. j = n
  BY <1>2, <1>3, <1>4, <1>5, <1>6
<1>8. X[n] = d[n] /\ Z[n] = d[n] /\ X[n] \in Nat /\ Y[n] \in Nat
  BY <1>1, <1>2, <1>3, <1>4, <1>5, PathAt
<1>9. Rank(x, n) \in {0, 1} /\ Rank(y, n) \in {0, 1} /\ Rank(z, n) \in {0, 1}
  BY DEF Rank
<1>10. Rank(x, n) = 0
  BY <1>4, <1>6, <1>7, <1>8, <1>9
<1>11. x.kind = "err" /\ Len(X) = k
  BY <1>10, <1>5, <1>3, <1>2 DEF Rank
<1>12. X = d
  BY <1>1, <1>3, <1>11, SamePath
<1>13. QED
  BY <1>11, <1>12

\* The failure to list a folder comes right after the folder.
LEMMA NothingBetween ==
    ASSUME NEW x \in AnyItem, NEW d \in Paths, x.kind = "err" => x.path # d,
           Before([kind |-> "ok", path |-> d], x), Before(x, [kind |-> "listing", path |-> d])
    PROVE  FALSE
<1> DEFINE X == x.path
<1>1. X \in Paths
  BY DEF AnyItem
<1>2. Len(X) \in Nat /\ Len(d) \in Nat
  BY <1>1 DEF Paths
<1>3. X # d
  BY DEF Before, AnyItem, Paths
<1>4. CASE Under(d, X)
  <2>1. Len(X) <= Len(d) /\ \A i \in 1..Len(X) : X[i] = d[i]
    BY <1>1, <1>4, UnderIs
  <2>2. ~Under(X, d)
    BY <1>1, <1>3, <1>4, UnderAnti
  <2>3. QED
    BY <1>2, <1>3, <2>1, <2>2 DEF Before
<1>5. CASE ~Under(d, X)
  <2>1. PICK j \in 1..Len(X) :
            /\ j <= Len(d)
            /\ \A m \in 1..(j - 1) : X[m] = d[m]
            /\ X[j] # d[j]
            /\ \/ Rank(x, j) < 1
               \/ Rank(x, j) = 1 /\ X[j] < d[j]
    BY <1>3, <1>5 DEF Before, Rank
  <2>2. ~Under(X, d)
    BY <1>1, <1>2, <2>1, UnderIs
  <2>3. PICK n \in 1..Len(d) :
            /\ n <= Len(X)
            /\ \A m \in 1..(n - 1) : d[m] = X[m]
            /\ d[n] # X[n]
            /\ \/ 1 < Rank(x, n)
               \/ 1 = Rank(x, n) /\ d[n] < X[n]
    BY <1>3, <2>2 DEF Before, Rank
  <2>4. n = j
    BY <1>2, <2>1, <2>3
  <2>5. Rank(x, n) \in {0, 1} /\ X[n] \in Nat /\ d[n] \in Nat
    BY <1>1, <1>2, <2>3 DEF Rank, Paths
  <2>6. QED
    BY <2>1, <2>3, <2>4, <2>5
<1>6. QED
  BY <1>4, <1>5

\* Nothing of a folder comes before the folder.
LEMMA FolderFirst ==
    ASSUME NEW x \in AnyItem, NEW y \in AnyItem, Under(x.path, y.path), x.path # y.path
    PROVE  ~Before(x, y)
<1> DEFINE X == x.path
           Y == y.path
<1>1. X \in Paths /\ Y \in Paths
  BY DEF AnyItem
<1>2. Len(X) \in Nat /\ Len(Y) \in Nat
  BY <1>1 DEF Paths
<1>3. ~Under(Y, X)
  BY <1>1, UnderAnti
<1>4. \A i \in 1..Len(Y) : X[i] = Y[i]
  BY <1>1, UnderIs
<1>5. QED
  BY <1>2, <1>3, <1>4 DEF Before

-----------------------------------------------------------------------------
(* The disk                                                                *)

\* A root is a path.
LEMMA RootAt ==
    ASSUME NEW i \in DOMAIN Roots
    PROVE  Roots[i] \in Paths /\ Len(Roots[i]) \in Nat
<1>1. Roots[i] \in Seq(Nat)
  <2>1. i \in 1..Len(Roots)
    BY RootsAssumption
  <2>2. QED
    BY <2>1, RootsAssumption, ElementOfSeq
<1>2. QED
  BY <1>1, EmptySeq DEF Paths

\* The roots are numbered from one.
LEMMA RootSpan == DOMAIN Roots = 1..Len(Roots) /\ Len(Roots) \in Nat
BY RootsAssumption

\* Entries are paths.
LEMMA EntryPaths == Entries \subseteq Paths /\ Folders \subseteq Paths /\ Files \subseteq Paths
BY DiskAssumption DEF Files, Paths

\* No path lies under two roots.
LEMMA OneRoot ==
    ASSUME NEW p \in Paths, NEW i \in DOMAIN Roots, NEW j \in DOMAIN Roots,
           Under(p, Roots[i]), Under(p, Roots[j])
    PROVE  i = j
<1>1. Roots[i] \in Paths /\ Roots[j] \in Paths
  BY RootAt
<1>2. Len(Roots[i]) <= Len(Roots[j]) \/ Len(Roots[j]) <= Len(Roots[i])
  BY RootAt
<1>3. Under(Roots[i], Roots[j]) \/ Under(Roots[j], Roots[i])
  BY <1>1, <1>2, UnderBoth
<1>4. QED
  BY <1>3, RootsAssumption

\* The root a path lies under is its owning root (CompletenessSnapshot::owning_root).
LEMMA OwnRoot ==
    ASSUME NEW p \in Paths, NEW i \in DOMAIN Roots, Under(p, Roots[i])
    PROVE  OwningRoot(p) = i
BY OneRoot DEF OwningRoot

\* Every entry has an owning root.
LEMMA EntryRoot ==
    ASSUME NEW p \in Entries
    PROVE  /\ OwningRoot(p) \in DOMAIN Roots
           /\ Under(p, Roots[OwningRoot(p)])
           /\ HasOwningRoot(p)
BY DiskAssumption DEF OwningRoot, HasOwningRoot

\* What an entry lies in, below its root, is a folder.
LEMMA FoldersAbove ==
    ASSUME NEW p \in Entries, NEW d \in Paths, NEW i \in DOMAIN Roots,
           Under(p, d), p # d, Under(d, Roots[i])
    PROVE  d \in Folders
<1>1. p \in Paths /\ Roots[i] \in Paths
  BY EntryPaths, RootAt
<1>2. Under(p, Roots[i])
  BY <1>1, UnderTrans
<1>3. \A n \in Len(Roots[i])..(Len(p) - 1) : SubSeq(p, 1, n) \in Folders
  BY <1>1, <1>2, DiskAssumption, OneRoot
<1>4. Len(Roots[i]) <= Len(d) /\ Len(d) <= Len(p)
  BY DEF Under
<1>5. Len(d) # Len(p)
  BY <1>1, UnderIs, SamePath
<1>6. Len(d) \in Len(Roots[i])..(Len(p) - 1)
  BY <1>1, <1>4, <1>5 DEF Paths
<1>7. QED
  BY <1>3, <1>6 DEF Under

\* Nothing lies under a file.
LEMMA FileEnds ==
    ASSUME NEW p \in Files, NEW q \in Entries, Under(q, p)
    PROVE  q = p
<1> SUFFICES ASSUME q # p
             PROVE  FALSE
  OBVIOUS
<1>1. p \in Entries /\ p \notin Folders /\ p \in Paths /\ q \in Paths
  BY EntryPaths DEF Files
<1>2. PICK i \in DOMAIN Roots : Under(p, Roots[i])
  BY <1>1, EntryRoot
<1>3. QED
  BY <1>1, <1>2, FoldersAbove

-----------------------------------------------------------------------------
(* The walk                                                                *)

\* What it could hand over of the entries.
Item == [kind : {"ok", "err", "listing"}, path : Entries]

Ok(p) == [kind |-> "ok", path |-> p]
Err(p) == [kind |-> "err", path |-> p]
Lst(p) == [kind |-> "listing", path |-> p]

\* Where an event may be counted: in a folder of a root, or by its reason alone.
Cells == Reasons \cup ({Roots[i] : i \in DOMAIN Roots} \X Paths \X Reasons)

\* An account.
CellMaps == UNION {[S -> Nat] : S \in SUBSET Cells}

\* The states of a walk.
WalkStates ==
    [root : 0..Len(Roots), todo : SUBSET Item, entries : Nat,
     files : SUBSET Files, dirs : SUBSET Folders, cells : CellMaps,
     failure : Failures \cup {None}, unverified : Folders \cup {None}, outcome : Ends \cup {None}]

\* The items of a walk's roots that it has taken.
Met(w, x) == x \notin w.todo /\ \E i \in 1..w.root : Given(x, Roots[i])

\* What the walk has met and left out, but for the folder u that still waits.
LostAs(w, u) ==
    {p \in Entries :
        \/ world.fate[p] \in {"nometa", "filtered", "nonutf8", "special"} /\ Met(w, Ok(p))
        \/ Met(w, Err(p))
        \/ Met(w, Lst(p))
        \/ world.fate[p] = "blind" /\ Met(w, Ok(p)) /\ u # p}

\* The account counts exactly the entries of L, unless it holds a failure.
Account(w, L) ==
    w.failure = None =>
        /\ DOMAIN w.cells = {LostCell(p) : p \in L}
        /\ \A c \in DOMAIN w.cells : w.cells[c] = Cardinality({q \in L : LostCell(q) = c})

\* Neither ended early nor failed.
Live(w) == w.outcome \in {None, "Publishable", "Roots"}

\* What is to come is of the active root, and comes after all that was met.
Ordered(w) ==
    /\ \A x \in w.todo : w.root > 0 /\ Given(x, Roots[w.root])
    /\ \A x \in Item, y \in w.todo : Met(w, x) /\ Given(x, Roots[w.root]) => Before(x, y)

\* The files and folders the walk has met, and no folder of them twice.
Manifest(w) ==
    /\ w.files = {p \in Files : world.fate[p] = "kept" /\ Met(w, Ok(p))}
    /\ w.dirs = {p \in Folders : world.fate[p] \in {"listed", "shut", "alias"} /\ Met(w, Ok(p))}
    /\ \A a, b \in w.dirs : a # b => Identity(a) # Identity(b)

\* The folder that waits was met, has no identity, and its listing failure is still to come.
Waiting(w) ==
    w.unverified # None =>
        /\ Met(w, Ok(w.unverified))
        /\ world.fate[w.unverified] \in {"blind", "blindshut"}
        /\ keyable => Under(w.unverified, Roots[w.root])
        /\ world.fate[w.unverified] = "blindshut" => Lst(w.unverified) \in w.todo

\* Of a folder without an identity nothing was met, nor will be unless it still waits.
NotEntered(w) ==
    \A e \in Folders, q \in Entries :
        world.fate[e] = "blind" /\ Met(w, Ok(e)) /\ Under(q, e) /\ q # e =>
            ~Met(w, Ok(q)) /\ (w.unverified # e => Ok(q) \notin w.todo)

\* A published walk is through with every root, and all is settled.
Over(w) ==
    w.outcome \in {"Publishable", "Roots"} =>
        /\ w.todo = {}
        /\ w.root = Len(Roots)
        /\ w.failure = None
        /\ w.unverified = None
        /\ w.outcome = "Publishable" <=> keyable

\* The invariant of the walk.
WalkInv(w) ==
    /\ w \in WalkStates
    /\ Ordered(w)
    /\ Over(w)
    /\ Live(w) => /\ Manifest(w)
                  /\ Account(w, LostAs(w, w.unverified))
                  /\ Waiting(w)
                  /\ NotEntered(w)

-----------------------------------------------------------------------------
(* The account                                                             *)

\* What an account is: a count for each of its cells.
LEMMA CellMapsAre ==
    ASSUME NEW c
    PROVE  c \in CellMaps <=> DOMAIN c \in SUBSET Cells /\ c \in [DOMAIN c -> Nat]
BY DEF CellMaps

\* None is no failure, no end of a walk and no folder.
LEMMA Strings ==
    /\ "CountOverflow" \in Failures /\ "ObservedOverflow" \in Failures /\ "CountNotStorable" \in Failures
    /\ \A f \in Failures : f # None
    /\ None \notin {"Cancelled", "Unverifiable", "Aliased", "Publishable", "Roots", "Failed"}
    /\ Ends = {"Cancelled", "Unverifiable", "Aliased", "Publishable", "Roots", "Failed"}
    /\ \A f \in Folders : f # None
BY NoneAssumption DEF Failures, Ends

\* An account with one event more is an account.
LEMMA OneMoreCells ==
    ASSUME NEW c \in CellMaps, NEW x \in Cells
    PROVE  OneMore(c, x) \in CellMaps
<1>1. DOMAIN c \in SUBSET Cells /\ c \in [DOMAIN c -> Nat]
  BY CellMapsAre
<1>2. OneMore(c, x) \in [DOMAIN c \cup {x} -> Nat]
  BY <1>1, Bagged
<1>3. QED
  BY <1>1, <1>2 DEF CellMaps

\* v is w with one event in the cell, or w holding a failure.
Recorded(w, v, cell) ==
    /\ v = [w EXCEPT !.cells = v.cells, !.failure = v.failure]
    /\ v.failure = None => w.failure = None /\ v.cells = OneMore(w.cells, cell)

\* Collector::record counts one event or holds a failure.
LEMMA Collects ==
    ASSUME NEW w \in WalkStates, NEW dir, NEW reason, <<ActiveRoot, dir, reason>> \in Cells
    PROVE  /\ CollectorRecord(w, dir, reason) \in WalkStates
           /\ Recorded(w, CollectorRecord(w, dir, reason), <<ActiveRoot, dir, reason>>)
<1> DEFINE cell == <<ActiveRoot, dir, reason>>
           v == CollectorRecord(w, dir, reason)
<1>1. w.cells \in CellMaps /\ OneMore(w.cells, cell) \in CellMaps
  BY OneMoreCells DEF WalkStates
<1>2. \/ w.failure # None /\ v = w
      \/ w.failure = None /\ v = [w EXCEPT !.failure = "CountOverflow"]
      \/ w.failure = None /\ v = [w EXCEPT !.cells = OneMore(@, cell)]
  BY DEF CollectorRecord
<1> HIDE DEF v, cell
<1>3. CASE w.failure # None /\ v = w
  BY <1>3 DEF Recorded, WalkStates, v
<1>4. CASE w.failure = None /\ v = [w EXCEPT !.failure = "CountOverflow"]
  <2>1. "CountOverflow" \in Failures /\ "CountOverflow" # None
    BY Strings
  <2>2. v \in WalkStates
    BY <1>4, <2>1 DEF WalkStates
  <2>3. Recorded(w, v, cell)
    BY <1>4, <2>1 DEF Recorded, WalkStates
  <2>4. QED
    BY <2>2, <2>3 DEF v, cell
<1>5. CASE w.failure = None /\ v = [w EXCEPT !.cells = OneMore(@, cell)]
  <2>2. v \in WalkStates
    BY <1>1, <1>5 DEF WalkStates
  <2>3. Recorded(w, v, cell)
    BY <1>5 DEF Recorded, WalkStates
  <2>4. QED
    BY <2>2, <2>3 DEF v, cell
<1>6. QED
  BY <1>2, <1>3, <1>4, <1>5

\* ObservedTally::record counts one event or holds a failure.
LEMMA Tallies ==
    ASSUME NEW w \in WalkStates, NEW reason \in Reasons
    PROVE  /\ TallyRecord(w, reason) \in WalkStates
           /\ Recorded(w, TallyRecord(w, reason), reason)
<1> DEFINE v == TallyRecord(w, reason)
<1>1. w.cells \in CellMaps /\ OneMore(w.cells, reason) \in CellMaps
  BY OneMoreCells DEF WalkStates, Cells
<1>2. \/ w.failure # None /\ v = w
      \/ w.failure = None /\ v = [w EXCEPT !.failure = "ObservedOverflow"]
      \/ w.failure = None /\ v = [w EXCEPT !.cells = OneMore(@, reason)]
  BY DEF TallyRecord
<1> HIDE DEF v
<1>3. CASE w.failure # None /\ v = w
  BY <1>3 DEF Recorded, WalkStates, v
<1>4. CASE w.failure = None /\ v = [w EXCEPT !.failure = "ObservedOverflow"]
  <2>1. "ObservedOverflow" \in Failures /\ "ObservedOverflow" # None
    BY Strings
  <2>2. v \in WalkStates
    BY <1>4, <2>1 DEF WalkStates
  <2>3. Recorded(w, v, reason)
    BY <1>4, <2>1 DEF Recorded, WalkStates
  <2>4. QED
    BY <2>2, <2>3 DEF v
<1>5. CASE w.failure = None /\ v = [w EXCEPT !.cells = OneMore(@, reason)]
  <2>2. v \in WalkStates
    BY <1>1, <1>5 DEF WalkStates
  <2>3. Recorded(w, v, reason)
    BY <1>5 DEF Recorded, WalkStates
  <2>4. QED
    BY <2>2, <2>3 DEF v
<1>6. QED
  BY <1>2, <1>3, <1>4, <1>5

\* An entry of the active root.
AtRoot(p) == walk.root \in DOMAIN Roots /\ Under(p, ActiveRoot)

\* Sink::record_error counts the event where a lost entry of its kind belongs.
LEMMA ErrorRecorded ==
    ASSUME NEW w \in WalkStates, NEW p \in Entries, keyable => AtRoot(p),
           world.fate[p] \in {"error", "shut", "blindshut", "blind"}
    PROVE  /\ RecordError(w, p) \in WalkStates
           /\ Recorded(w, RecordError(w, p), LostCell(p))
<1>1. LostReason(p) = "WalkError" /\ "WalkError" \in Reasons
  BY DEF LostReason, Reasons
<1>2. LostAt(p) = p
  BY <1>1 DEF LostAt
<1>3. CASE keyable
  <2>1. p \in Paths /\ walk.root \in DOMAIN Roots /\ Under(p, Roots[walk.root])
    BY <1>3, EntryPaths DEF AtRoot, ActiveRoot
  <2>2. OwningRoot(p) = walk.root
    BY <2>1, OwnRoot
  <2>3. LostCell(p) = <<ActiveRoot, p, "WalkError">> /\ ErrorCell(p) = p
    BY <1>1, <1>2, <1>3, <2>1, <2>2 DEF LostCell, ActiveRoot, ErrorCell
  <2>4. <<ActiveRoot, p, "WalkError">> \in Cells
    BY <1>1, <2>1 DEF Cells, ActiveRoot
  <2>5. RecordError(w, p) = CollectorRecord(w, p, "WalkError")
    BY <1>3, <2>3 DEF RecordError
  <2>6. QED
    BY <2>3, <2>4, <2>5, Collects
<1>4. CASE ~keyable
  <2>1. LostCell(p) = "WalkError" /\ RecordError(w, p) = TallyRecord(w, "WalkError")
    BY <1>1, <1>4 DEF LostCell, RecordError
  <2>2. QED
    BY <1>1, <2>1, Tallies
<1>5. QED
  BY <1>3, <1>4

\* Sink::record_child counts the event where a lost entry of its kind belongs.
LEMMA ChildRecorded ==
    ASSUME NEW w \in WalkStates, NEW p \in Entries, keyable => AtRoot(p),
           world.fate[p] \in {"nometa", "filtered", "nonutf8", "special"}
    PROVE  /\ RecordChild(w, p, ReasonOf(world.fate[p])) \in WalkStates
           /\ Recorded(w, RecordChild(w, p, ReasonOf(world.fate[p])), LostCell(p))
<1> DEFINE reason == ReasonOf(world.fate[p])
<1>1. LostReason(p) = reason /\ reason \in Reasons /\ reason # "WalkError"
  BY DEF LostReason, Reasons, ReasonOf
<1> HIDE DEF reason
<1>3. CASE keyable
  <2>1. p \in Paths /\ walk.root \in DOMAIN Roots /\ Under(p, Roots[walk.root])
    BY <1>3, EntryPaths DEF AtRoot, ActiveRoot
  <2> DEFINE R == Roots[walk.root]
  <2>2. OwningRoot(p) = walk.root
    BY <2>1, OwnRoot
  <2>3. R \in Paths /\ Len(R) \in Nat /\ Len(R) <= Len(p) /\ Len(p) \in Nat
    BY <2>1, RootAt DEF Paths, Under
  <2>4. p = R <=> Len(p) = Len(R)
    BY <2>1, <2>3, UnderIs, SamePath
  <2>5. ASSUME Len(p) = 0
        PROVE  LostAt(p) = AttributeChild(p)
    <3>1. p = <<>> /\ R = <<>>
      BY <2>1, <2>3, <2>4, <2>5, EmptySeq DEF Paths
    <3>2. Parent(p) = <<>>
      BY <3>1, NoParent
    <3>3. QED
      BY <1>1, <2>2, <3>1, <3>2, <2>1 DEF LostAt, AttributeChild, ActiveRoot
  <2>6. ASSUME Len(p) # 0
        PROVE  LostAt(p) = AttributeChild(p)
    <3>1. Len(p) - 1 \in 0..Len(p)
      BY <2>3, <2>6
    <3>2. Under(Parent(p), R) <=> Len(R) <= Len(p) - 1
      BY <2>1, <2>3, <3>1, CutUnder DEF Parent
    <3>3. p = R <=> ~(Len(R) <= Len(p) - 1)
      BY <2>3, <2>4
    <3>4. QED
      BY <1>1, <2>2, <3>2, <3>3 DEF LostAt, AttributeChild, ActiveRoot
  <2>7. Parent(p) \in Paths
    BY <2>1, ParentIs
  <2>8. LostAt(p) = AttributeChild(p)
    BY <2>5, <2>6
  <2>9. AttributeChild(p) \in Paths
    BY <2>3, <2>7 DEF AttributeChild, ActiveRoot
  <2>10. <<ActiveRoot, AttributeChild(p), reason>> \in Cells
    BY <1>1, <2>1, <2>9 DEF Cells, ActiveRoot
  <2>11. LostCell(p) = <<ActiveRoot, AttributeChild(p), reason>>
    BY <1>1, <1>3, <2>2, <2>8 DEF LostCell, ActiveRoot
  <2>12. RecordChild(w, p, reason) = CollectorRecord(w, AttributeChild(p), reason)
    BY <1>3 DEF RecordChild
  <2>13. QED
    BY <2>10, <2>11, <2>12, Collects DEF reason
<1>4. CASE ~keyable
  <2>1. LostCell(p) = reason /\ RecordChild(w, p, reason) = TallyRecord(w, reason)
    BY <1>1, <1>4 DEF LostCell, RecordChild
  <2>2. QED
    BY <1>1, <2>1, Tallies DEF reason
<1>5. QED
  BY <1>3, <1>4

\* One event for one more lost entry keeps the account exact.
LEMMA OneLost ==
    ASSUME NEW w \in WalkStates, NEW v \in WalkStates, NEW p \in Entries, NEW L \in SUBSET Entries,
           p \notin L, Account(w, L), Recorded(w, v, LostCell(p))
    PROVE  Account(v, L \cup {p})
<1> SUFFICES ASSUME v.failure = None
             PROVE  /\ DOMAIN v.cells = {LostCell(q) : q \in L \cup {p}}
                    /\ \A c \in DOMAIN v.cells :
                          v.cells[c] = Cardinality({q \in L \cup {p} : LostCell(q) = c})
  BY DEF Account
<1> DEFINE Of(c) == {q \in L : LostCell(q) = c}
           OfNow(c) == {q \in L \cup {p} : LostCell(q) = c}
<1>1. v.cells = OneMore(w.cells, LostCell(p)) /\ w.failure = None
  BY DEF Recorded
<1>2. /\ DOMAIN w.cells = {LostCell(q) : q \in L}
      /\ \A c \in DOMAIN w.cells : w.cells[c] = Cardinality(Of(c))
  BY <1>1 DEF Account
<1>3. DOMAIN v.cells = DOMAIN w.cells \cup {LostCell(p)}
  BY <1>1 DEF OneMore
<1>4. ASSUME NEW c
      PROVE  /\ IsFiniteSet(Of(c))
             /\ Cardinality(Of(c)) \in Nat
             /\ c \notin DOMAIN w.cells => Cardinality(Of(c)) = 0
             /\ Cardinality(OfNow(c)) = Cardinality(Of(c)) + IF c = LostCell(p) THEN 1 ELSE 0
  <2>1. IsFiniteSet(Of(c))
    BY DiskAssumption, FS_Subset
  <2>2. Cardinality(Of(c)) \in Nat
    BY <2>1, FS_CardinalityType
  <2>3. c \notin DOMAIN w.cells => Of(c) = {}
    BY <1>2
  <2>a. p \notin Of(c) /\ OfNow(c) = IF c = LostCell(p) THEN Of(c) \cup {p} ELSE Of(c)
    OBVIOUS
  <2> HIDE DEF Of, OfNow
  <2>b. c \notin DOMAIN w.cells => Cardinality(Of(c)) = 0
    BY <2>3, FS_EmptySet
  <2>4. CASE c = LostCell(p)
    <3>1. OfNow(c) = Of(c) \cup {p} /\ p \notin Of(c)
      BY <2>4, <2>a
    <3>2. QED
      BY <2>1, <2>2, <2>b, <2>4, <3>1, FS_AddElement
  <2>5. CASE c # LostCell(p)
    <3>1. OfNow(c) = Of(c)
      BY <2>5, <2>a
    <3>2. QED
      BY <2>1, <2>2, <2>b, <2>5, <3>1
  <2>6. QED
    BY <2>1, <2>2, <2>b, <2>4, <2>5
<1>5. ASSUME NEW c \in DOMAIN v.cells
      PROVE  v.cells[c] = Cardinality(OfNow(c))
  <2>1. v.cells[c] = CountOf(c, w.cells) + IF c = LostCell(p) THEN 1 ELSE 0
    BY <1>1, <1>3 DEF OneMore
  <2>2. CountOf(c, w.cells) = Cardinality(Of(c))
    BY <1>2, <1>4 DEF CountOf
  <2>3. QED
    BY <1>4, <2>1, <2>2
<1>6. QED
  BY <1>2, <1>3, <1>5

-----------------------------------------------------------------------------
(* One item                                                                *)

\* The disk, the keys and the flag.
Env == world \in Worlds /\ keyable \in BOOLEAN /\ cancel \in BOOLEAN

\* Files have the fates of files and folders those of folders.
LEMMA Fates ==
    ASSUME Env
    PROVE  /\ \A p \in Folders : world.fate[p] \in FolderFates
           /\ \A p \in Files : world.fate[p] \in FileFates
           /\ \A p \in Entries : p \in Files <=> p \notin Folders
BY WorldsAssumption DEF Env, Files

\* What the iterator can hand over of an entry, by the kind of the item.
LEMMA GivenIs ==
    ASSUME Env, NEW x \in Item, NEW i \in DOMAIN Roots, Given(x, Roots[i])
    PROVE  /\ x.path \in Entries /\ x.path \in Paths
           /\ Under(x.path, Roots[i])
           /\ x \in {Ok(x.path), Err(x.path), Lst(x.path)} /\ x \in AnyItem
           /\ x.kind = "ok" => world.fate[x.path] \notin {"error", "excluded"}
           /\ x.kind = "err" => world.fate[x.path] = "error" /\ x.path \in Files
           /\ x.kind = "listing" =>
                world.fate[x.path] \in {"shut", "blindshut"} /\ x.path \in Folders /\ Given(Ok(x.path), Roots[i])
<1>1. x.path \in Entries /\ x.kind \in {"ok", "err", "listing"}
  BY DEF Item
<1>2. x \in {Ok(x.path), Err(x.path), Lst(x.path)} /\ x \in AnyItem
  BY <1>1, EntryPaths DEF Item, AnyItem, Ok, Err, Lst
<1>3. /\ Reached(x.path, Roots[i])
      /\ x.kind = "ok" => world.fate[x.path] \notin {"error", "excluded"}
      /\ x.kind = "err" => world.fate[x.path] = "error"
      /\ x.kind = "listing" => world.fate[x.path] \in {"shut", "blindshut"}
  BY <1>1 DEF Given
<1>4. x.kind = "err" => x.path \in Files
  BY <1>1, <1>3, Fates DEF FolderFates
<1>5. x.kind = "listing" => x.path \in Folders /\ Given(Ok(x.path), Roots[i])
  BY <1>1, <1>3, Fates DEF FileFates, Given, Ok
<1>6. QED
  BY <1>1, <1>2, <1>3, <1>4, <1>5, EntryPaths DEF Reached

\* A walk with one item less to come.
Takes(v, x) == v \in WalkStates /\ v.root = walk.root /\ v.todo = walk.todo \ {x}

\* An item still to come is of the active root, was not met before and comes after all that was.
LEMMA Taken ==
    ASSUME Env, WalkInv(walk), NEW x \in walk.todo
    PROVE  /\ x \in Item /\ walk.root \in DOMAIN Roots /\ Given(x, Roots[walk.root])
           /\ ~Met(walk, x) /\ AtRoot(x.path)
           /\ \A y \in Item : Met(walk, y) /\ Given(y, Roots[walk.root]) => Before(y, x)
<1>1. x \in Item /\ walk.root \in 0..Len(Roots)
  BY DEF WalkInv, WalkStates
<1>2. walk.root > 0 /\ Given(x, Roots[walk.root])
  BY DEF WalkInv, Ordered
<1>3. walk.root \in DOMAIN Roots
  BY <1>1, <1>2, RootSpan
<1>4. AtRoot(x.path)
  BY <1>1, <1>2, <1>3, GivenIs DEF AtRoot, ActiveRoot
<1>5. QED
  BY <1>1, <1>2, <1>3, <1>4 DEF Met, WalkInv, Ordered

\* Taking the first item keeps what is to come in order and meets just that item.
LEMMA TakesOne ==
    ASSUME Env, WalkInv(walk), NEW x \in walk.todo, IsFirst(x, walk.todo), NEW v, Takes(v, x)
    PROVE  /\ Ordered(v)
           /\ \A y \in Item : Met(v, y) <=> Met(walk, y) \/ y = x
<1>1. x \in Item /\ walk.root \in DOMAIN Roots /\ Given(x, Roots[walk.root])
  BY Taken
<1>2. walk.root \in 1..walk.root
  BY <1>1, RootSpan
<1>3. \A y \in Item : Met(v, y) <=> Met(walk, y) \/ y = x
  BY <1>1, <1>2 DEF Met, Takes
<1>4. \A y \in v.todo : v.root > 0 /\ Given(y, Roots[v.root])
  BY DEF Takes, WalkInv, Ordered
<1>5. ASSUME NEW a \in Item, NEW y \in v.todo, Met(v, a), Given(a, Roots[v.root])
      PROVE  Before(a, y)
  <2>1. y \in walk.todo /\ y # x
    BY DEF Takes
  <2>2. CASE a = x
    BY <2>1, <2>2 DEF IsFirst
  <2>3. CASE Met(walk, a)
    BY <2>1, <2>3, <1>5, Taken DEF Takes
  <2>4. QED
    BY <1>3, <1>5, <2>2, <2>3
<1>6. QED
  BY <1>3, <1>4, <1>5 DEF Ordered

\* What SettledBy leaves, as long as the walk can go on.
Settled(s, x) ==
    /\ s.outcome = None
    /\ s.unverified \in {walk.unverified, None}
    /\ Account(s, LostAs(walk, s.unverified))
    /\ s.unverified # None => x.kind # "ok" /\ x.path # s.unverified
    /\ walk.unverified # None /\ s.unverified = None =>
        \/ world.fate[walk.unverified] = "blind" /\ x.kind = "ok" /\ ~Under(x.path, walk.unverified)
        \/ world.fate[walk.unverified] = "blindshut" /\ x = Lst(walk.unverified)

\* Sink::settle_unverified counts the folder that waited as one walk error.
LEMMA SettleWaiting ==
    ASSUME Env, NEW w \in WalkStates, NEW L \in SUBSET Entries, Account(w, L),
           w.unverified # None, w.unverified \notin L, keyable => AtRoot(w.unverified),
           world.fate[w.unverified] \in {"blind", "blindshut"}
    PROVE  /\ SettleUnverified(w) \in WalkStates
           /\ SettleUnverified(w) = [w EXCEPT !.unverified = None, !.cells = SettleUnverified(w).cells,
                                              !.failure = SettleUnverified(w).failure]
           /\ Account(SettleUnverified(w), L \cup {w.unverified})
<1> DEFINE d == w.unverified
           r == RecordError(w, d)
           s == SettleUnverified(w)
<1>1. d \in Entries
  BY DiskAssumption DEF WalkStates
<1>2. r \in WalkStates /\ Recorded(w, r, LostCell(d))
  BY <1>1, ErrorRecorded
<1>3. Account(r, L \cup {d})
  BY <1>1, <1>2, OneLost
<1>4. s = [r EXCEPT !.unverified = None]
  BY DEF SettleUnverified
<1> HIDE DEF r, s
<1>5. s \in WalkStates /\ s.cells = r.cells /\ s.failure = r.failure
  BY <1>2, <1>4 DEF WalkStates
<1>6. s = [w EXCEPT !.unverified = None, !.cells = s.cells, !.failure = s.failure]
  BY <1>2, <1>4, <1>5 DEF Recorded, WalkStates
<1>7. Account(s, L \cup {d})
  BY <1>3, <1>5 DEF Account
<1>8. QED
  BY <1>5, <1>6, <1>7 DEF s

\* The walk without the item, before anything is made of it.
Lighter(x) == [walk EXCEPT !.todo = @ \ {x}, !.entries = @ + 1]

\* The walk with its waiting folder settled by the item.
Relieved(x) == SettledBy(Lighter(x), x)

\* What the next item makes of the folder that waits: the scan's end, its own event, or one walk error.
LEMMA Settles ==
    ASSUME Env, WalkInv(walk), walk.outcome = None, NEW x \in walk.todo, IsFirst(x, walk.todo)
    PROVE  /\ Takes(Relieved(x), x)
           /\ Relieved(x).files = walk.files /\ Relieved(x).dirs = walk.dirs
           /\ Relieved(x).outcome = "Unverifiable" \/ Settled(Relieved(x), x)
<1> DEFINE t == Lighter(x)
           s == Relieved(x)
           d == walk.unverified
<1>1. walk \in WalkStates /\ x \in Item
  BY DEF WalkInv, WalkStates
<1>b. t \in WalkStates
  <2>1. walk.todo \ {x} \in SUBSET Item /\ walk.entries + 1 \in Nat
    BY <1>1 DEF WalkStates
  <2>2. QED
    BY <1>1, <2>1 DEF WalkStates, Lighter
<1>2. /\ t \in WalkStates /\ t.root = walk.root /\ t.todo = walk.todo \ {x}
      /\ t.files = walk.files /\ t.dirs = walk.dirs /\ t.unverified = d /\ t.outcome = None
      /\ t.cells = walk.cells /\ t.failure = walk.failure
  BY <1>1, <1>b DEF WalkStates, Lighter
<1>3. Live(walk) /\ Account(walk, LostAs(walk, d)) /\ Waiting(walk)
  BY DEF WalkInv, Live
<1>4. Account(t, LostAs(walk, d))
  BY <1>2, <1>3 DEF Account
<1>5. \/ d = None /\ s = t
      \/ d # None /\ x.kind = "ok" /\ Under(x.path, d) /\ s = [t EXCEPT !.outcome = "Unverifiable"]
      \/ d # None /\ x.kind = "listing" /\ x.path = d /\ s = [t EXCEPT !.unverified = None]
      \/ d # None /\ x.kind # "ok" /\ x.path # d /\ s = t
      \/ /\ d # None
         /\ \/ x.kind = "ok" /\ ~Under(x.path, d)
            \/ x.kind # "ok" /\ x.kind # "listing" /\ x.path = d
         /\ s = SettleUnverified(t)
  BY <1>2 DEF SettledBy, Relieved
<1>a. \A p \in Entries : world.fate[p] = "blind" => p # None
  BY Fates, Strings DEF FileFates
<1>6. CASE d = None /\ s = t
  BY <1>2, <1>4, <1>6 DEF Takes, Settled
<1>7. CASE d # None /\ x.kind = "ok" /\ Under(x.path, d) /\ s = [t EXCEPT !.outcome = "Unverifiable"]
  BY <1>2, <1>7, Strings DEF Takes, WalkStates
<1>8. CASE d # None /\ x.kind = "listing" /\ x.path = d /\ s = [t EXCEPT !.unverified = None]
  <2>1. /\ s \in WalkStates /\ s.root = t.root /\ s.todo = t.todo /\ s.files = t.files /\ s.dirs = t.dirs
        /\ s.outcome = None /\ s.cells = t.cells /\ s.failure = t.failure /\ s.unverified = None
    BY <1>2, <1>8 DEF WalkStates
  <2>2. x = Lst(d) /\ world.fate[d] = "blindshut"
    <3>1. world.fate[x.path] \in {"shut", "blindshut"} /\ x \in {Ok(x.path), Err(x.path), Lst(x.path)}
      BY <1>1, <1>8, Taken, GivenIs
    <3>2. QED
      BY <1>3, <1>8, <3>1 DEF Waiting, Ok, Err, Lst
  <2>3. LostAs(walk, None) = LostAs(walk, d)
    BY <1>8, <1>a, <2>2 DEF LostAs
  <2>4. Account(s, LostAs(walk, None))
    BY <1>4, <2>1, <2>3 DEF Account
  <2>5. QED
    BY <1>2, <2>1, <2>2, <2>4 DEF Takes, Settled
<1>9. CASE d # None /\ x.kind # "ok" /\ x.path # d /\ s = t
  BY <1>2, <1>4, <1>9 DEF Takes, Settled
<1>10. CASE /\ d # None
            /\ \/ x.kind = "ok" /\ ~Under(x.path, d)
               \/ x.kind # "ok" /\ x.kind # "listing" /\ x.path = d
            /\ s = SettleUnverified(t)
  <2>1. d \in Folders /\ d \in Entries /\ d \in Paths
    BY <1>1, <1>10, EntryPaths, DiskAssumption DEF WalkStates
  <2>2. x.kind = "ok" /\ ~Under(x.path, d)
    <3>1. x.kind = "err" => x.path \in Files
      BY <1>1, Taken, GivenIs
    <3>2. QED
      BY <1>1, <1>10, <2>1, <3>1, Fates DEF Item
  <2>3. world.fate[d] = "blind"
    <3> SUFFICES ASSUME world.fate[d] = "blindshut"
                 PROVE  FALSE
      BY <1>3, <1>10 DEF Waiting
    <3>1. Lst(d) \in walk.todo /\ Met(walk, Ok(d))
      BY <1>3, <1>10 DEF Waiting
    <3>2. Given(Lst(d), Roots[walk.root]) /\ walk.root \in DOMAIN Roots /\ Lst(d) \in Item
      BY <3>1, Taken
    <3>3. Given(Ok(d), Roots[walk.root]) /\ Ok(d) \in Item
      BY <2>1, <3>2, GivenIs DEF Item, Ok, Lst
    <3>4. Before(Ok(d), x)
      BY <3>1, <3>3, Taken
    <3>5. Before(x, Lst(d))
      BY <2>2, <3>1 DEF IsFirst, Lst
    <3>6. x \in AnyItem
      BY <1>1, EntryPaths DEF Item, AnyItem
    <3>7. QED
      BY <2>1, <2>2, <3>4, <3>5, <3>6, NothingBetween DEF Ok, Lst
  <2>4. d \notin LostAs(walk, d)
    BY <2>3 DEF LostAs, Met, Given, Err, Lst
  <2>5. LostAs(walk, None) = LostAs(walk, d) \cup {d}
    BY <1>3, <1>10, <1>a, <2>1, <2>3 DEF LostAs, Waiting
  <2>6. keyable => AtRoot(d)
    BY <1>3, <1>10, Taken DEF Waiting, AtRoot, ActiveRoot
  <2>7. /\ s \in WalkStates
        /\ s = [t EXCEPT !.unverified = None, !.cells = s.cells, !.failure = s.failure]
        /\ Account(s, LostAs(walk, d) \cup {d})
    <3>1. LostAs(walk, d) \in SUBSET Entries
      BY DEF LostAs
    <3>2. QED
      BY <1>2, <1>4, <1>10, <2>3, <2>4, <2>6, <3>1, SettleWaiting
  <2>8. /\ s.root = t.root /\ s.todo = t.todo /\ s.files = t.files /\ s.dirs = t.dirs
        /\ s.outcome = None /\ s.unverified = None
    BY <1>2, <2>7 DEF WalkStates
  <2>9. QED
    BY <1>2, <1>10, <2>2, <2>3, <2>5, <2>7, <2>8 DEF Takes, Settled
<1>11. QED
  BY <1>5, <1>6, <1>7, <1>8, <1>9, <1>10

\* The walk after an item.
Absorbed(x) == AbsorbItem(Relieved(x), x)

\* A folder without an identity, taken now.
NowWaits(x) == x.kind = "ok" /\ x.path \in Folders /\ world.fate[x.path] \in {"blind", "blindshut"}

\* Items of different kinds or paths differ.
LEMMA OkOf ==
    ASSUME NEW p, NEW q
    PROVE  /\ Ok(p) = Ok(q) <=> p = q
           /\ Err(p) = Err(q) <=> p = q
           /\ Lst(p) = Lst(q) <=> p = q
           /\ Ok(p) # Err(q) /\ Ok(p) # Lst(q) /\ Err(p) # Lst(q)
           /\ Ok(p).path = p /\ Err(p).path = p /\ Lst(p).path = p
           /\ Ok(p).kind = "ok" /\ Err(p).kind = "err" /\ Lst(p).kind = "listing"
BY DEF Ok, Err, Lst

\* The items of an entry.
LEMMA ItemsOf ==
    ASSUME NEW p \in Entries
    PROVE  /\ Ok(p) \in Item /\ Err(p) \in Item /\ Lst(p) \in Item
           /\ Ok(p) \in AnyItem /\ Err(p) \in AnyItem /\ Lst(p) \in AnyItem
BY EntryPaths DEF Ok, Err, Lst, Item, AnyItem

\* A folder and what lies under it are met from the same root.
LEMMA MetBelow ==
    ASSUME Env, WalkInv(walk), NEW e \in Folders, NEW q \in Entries, Under(q, e), Met(walk, Ok(e)),
           NEW i \in DOMAIN Roots, Given(Ok(q), Roots[i])
    PROVE  Given(Ok(e), Roots[i])
<1>1. e \in Entries /\ e \in Paths /\ q \in Paths /\ Ok(e) \in Item /\ Ok(q) \in Item
  BY EntryPaths, ItemsOf, DiskAssumption
<1>2. PICK j \in 1..walk.root : Given(Ok(e), Roots[j])
  BY DEF Met
<1>3. j \in DOMAIN Roots
  BY <1>2, RootSpan DEF WalkInv, WalkStates
<1>4. Under(e, Roots[j]) /\ Under(q, Roots[i])
  BY <1>1, <1>2, <1>3, GivenIs, OkOf
<1>5. Under(q, Roots[j])
  BY <1>1, <1>3, <1>4, RootAt, UnderTrans
<1>6. i = j
  BY <1>1, <1>3, <1>4, <1>5, OneRoot
<1>7. QED
  BY <1>2, <1>6

\* A folder without an identity was not gone into, or the scan has ended.
LEMMA AbsorbEnters ==
    ASSUME Env, WalkInv(walk), walk.outcome = None, NEW x \in walk.todo, IsFirst(x, walk.todo),
           Settled(Relieved(x), x), NEW v, Takes(v, x),
           v.unverified = IF NowWaits(x) THEN x.path ELSE Relieved(x).unverified
    PROVE  NotEntered(v)
<1> DEFINE u == Relieved(x).unverified
           d == walk.unverified
<1>1. x \in Item /\ walk.root \in DOMAIN Roots /\ Given(x, Roots[walk.root]) /\ ~Met(walk, x)
  BY Taken
<1>2. /\ x.path \in Entries /\ x.path \in Paths /\ Under(x.path, Roots[walk.root])
      /\ x \in {Ok(x.path), Err(x.path), Lst(x.path)} /\ x \in AnyItem
  BY <1>1, GivenIs
<1>3. \A y \in Item : Met(v, y) <=> Met(walk, y) \/ y = x
  BY TakesOne
<1>4. NotEntered(walk) /\ Waiting(walk)
  BY DEF WalkInv, Live
<1>5. SUFFICES ASSUME NEW e \in Folders, NEW q \in Entries,
                      world.fate[e] = "blind", Met(v, Ok(e)), Under(q, e), q # e
               PROVE  ~Met(v, Ok(q)) /\ (v.unverified # e => Ok(q) \notin v.todo)
  BY DEF NotEntered
<1>6. e \in Entries /\ e \in Paths /\ q \in Paths /\ Ok(e) \in Item /\ Ok(q) \in Item /\ Ok(q) \in AnyItem
  BY EntryPaths, ItemsOf, DiskAssumption
<1>7. CASE x = Ok(e)
  <2>1. v.unverified = e
    BY <1>5, <1>7, OkOf DEF NowWaits
  <2>2. Ok(q) # x
    BY <1>5, <1>7, OkOf
  <2>3. ~Met(walk, Ok(q))
    <3> SUFFICES ASSUME Met(walk, Ok(q))
                 PROVE  FALSE
      OBVIOUS
    <3>1. PICK i \in 1..walk.root : Given(Ok(q), Roots[i])
      BY DEF Met
    <3>2. i \in DOMAIN Roots
      BY <3>1, RootSpan DEF WalkInv, WalkStates
    <3>3. Under(q, Roots[i])
      BY <1>6, <3>1, <3>2, GivenIs, OkOf
    <3>4. Under(q, Roots[walk.root])
      BY <1>1, <1>2, <1>5, <1>6, <1>7, OkOf, RootAt, UnderTrans
    <3>5. i = walk.root
      BY <1>1, <1>6, <3>2, <3>3, <3>4, OneRoot
    <3>6. Before(Ok(q), x)
      BY <1>6, <3>1, <3>5, Taken
    <3>7. QED
      BY <1>2, <1>5, <1>6, <1>7, <3>6, FolderFirst, OkOf
  <2>4. QED
    BY <1>3, <1>6, <2>1, <2>2, <2>3
<1>8. CASE x # Ok(e)
  <2>1. Met(walk, Ok(e))
    BY <1>3, <1>5, <1>6, <1>8
  <2>2. ~Met(walk, Ok(q)) /\ (d # e => Ok(q) \notin walk.todo)
    BY <1>4, <1>5, <2>1 DEF NotEntered
  <2>3. CASE d # e
    <3>1. Ok(q) # x
      BY <2>2, <2>3
    <3>2. QED
      BY <1>3, <1>6, <2>2, <2>3, <3>1 DEF Takes
  <2>4. CASE d = e /\ x.kind = "ok"
    <3>1. u = None /\ ~Under(x.path, e)
      BY <1>5, <2>4, Strings DEF Settled
    <3>2. Ok(q) # x
      BY <1>5, <3>1, OkOf
    <3>3. Ok(q) \notin v.todo
      <4> SUFFICES ASSUME Ok(q) \in v.todo
                   PROVE  FALSE
        OBVIOUS
      <4>1. Ok(q) \in walk.todo
        BY DEF Takes
      <4>2. Given(Ok(q), Roots[walk.root])
        BY <4>1, Taken
      <4>3. Given(Ok(e), Roots[walk.root])
        BY <1>1, <1>5, <2>1, <4>2, MetBelow
      <4>4. Before(Ok(e), x)
        BY <1>6, <2>1, <4>3, Taken
      <4>5. Before(x, Ok(q))
        BY <3>2, <4>1 DEF IsFirst
      <4>6. Ok(e) \in AnyItem /\ Under(e, e)
        BY <1>6, ItemsOf, UnderSelf
      <4>7. QED
        BY <1>2, <1>5, <1>6, <3>1, <4>4, <4>5, <4>6, Convex, OkOf
    <3>4. QED
      BY <1>3, <1>6, <2>2, <3>2, <3>3
  <2>5. CASE d = e /\ x.kind # "ok"
    <3>1. Ok(q) # x
      BY <2>5, OkOf
    <3>2. u = e
      BY <1>5, <2>5, Strings DEF Settled
    <3>3. v.unverified = e
      BY <2>5, <3>2 DEF NowWaits
    <3>4. QED
      BY <1>3, <1>6, <2>2, <3>1, <3>3
  <2>6. QED
    BY <2>3, <2>4, <2>5
<1>9. QED
  BY <1>7, <1>8

\* An item that is one omission.
LostNow(x) ==
    x.kind # "ok" \/ world.fate[x.path] \in {"nometa", "filtered", "nonutf8", "special"}

\* What is lost once an item is taken: what was lost before, and the entry of the item if it is left out.
LEMMA LostGrows ==
    ASSUME Env, WalkInv(walk), walk.outcome = None, NEW x \in walk.todo, IsFirst(x, walk.todo),
           Settled(Relieved(x), x), NEW v, Takes(v, x),
           v.unverified = IF NowWaits(x) THEN x.path ELSE Relieved(x).unverified
    PROVE  /\ LostNow(x) => x.path \notin LostAs(walk, Relieved(x).unverified)
           /\ LostAs(v, v.unverified) =
                LostAs(walk, Relieved(x).unverified) \cup IF LostNow(x) THEN {x.path} ELSE {}
<1> DEFINE u == Relieved(x).unverified
           P == x.path
           L == LostAs(walk, u)
           M == LostAs(v, v.unverified)
<1>1. x \in Item /\ walk.root \in DOMAIN Roots /\ Given(x, Roots[walk.root]) /\ ~Met(walk, x)
  BY Taken
<1>2. /\ P \in Entries
      /\ \/ x = Ok(P) /\ world.fate[P] \notin {"error", "excluded"}
         \/ x = Err(P) /\ world.fate[P] = "error" /\ P \in Files
         \/ x = Lst(P) /\ world.fate[P] \in {"shut", "blindshut"} /\ P \in Folders
  BY <1>1, GivenIs, OkOf
<1>3. \A p \in Entries : /\ Met(v, Ok(p)) <=> Met(walk, Ok(p)) \/ x = Ok(p)
                         /\ Met(v, Err(p)) <=> Met(walk, Err(p)) \/ x = Err(p)
                         /\ Met(v, Lst(p)) <=> Met(walk, Lst(p)) \/ x = Lst(p)
  BY TakesOne, ItemsOf
<1>4. \A p \in Entries : Met(walk, Err(p)) => world.fate[p] = "error"
  <2>1. \A p, r : Given(Err(p), r) => world.fate[p] = "error"
    BY DEF Given, Err
  <2>2. QED
    BY <2>1 DEF Met
<1>5. \A p \in Entries : Met(walk, Lst(p)) => world.fate[p] \in {"shut", "blindshut"}
  BY OkOf DEF Met, Given
<1>6. \A p \in Entries : world.fate[p] = "blind" => p \in Folders
  BY Fates DEF FileFates
<1>7. LostNow(x) => P \notin L
  <2>1. CASE x = Ok(P)
    BY <1>1, <1>2, <1>4, <1>5, <2>1, OkOf DEF LostNow, LostAs
  <2>2. CASE x = Err(P)
    BY <1>1, <1>2, <1>4, <1>5, <2>2, OkOf DEF LostNow, LostAs
  <2>3. CASE x = Lst(P)
    BY <1>1, <1>2, <1>4, <1>5, <2>3, OkOf DEF LostNow, LostAs
  <2>4. QED
    BY <1>2, <2>1, <2>2, <2>3
<1>8. ASSUME NEW p \in Entries, p # P
      PROVE  p \in M <=> p \in L
  <2>1. /\ Met(v, Ok(p)) <=> Met(walk, Ok(p))
        /\ Met(v, Err(p)) <=> Met(walk, Err(p))
        /\ Met(v, Lst(p)) <=> Met(walk, Lst(p))
    BY <1>2, <1>3, <1>8, OkOf
  <2>2. world.fate[p] = "blind" => (v.unverified # p <=> u # p)
    <3>1. NowWaits(x) => u = None
      BY DEF NowWaits, Settled
    <3>2. world.fate[p] = "blind" => p # None
      BY <1>6, Strings
    <3>3. QED
      BY <1>8, <3>1, <3>2
  <2>3. QED
    BY <2>1, <2>2 DEF LostAs
<1>9. P \in M <=> P \in L \/ LostNow(x)
  <2>1. CASE x = Ok(P) /\ world.fate[P] = "blind"
    <3>1. NowWaits(x) /\ ~LostNow(x)
      BY <1>2, <1>6, <2>1, OkOf DEF NowWaits, LostNow
    <3>2. ~Met(walk, Ok(P))
      BY <1>1, <2>1
    <3>3. QED
      BY <1>2, <1>3, <1>4, <1>5, <2>1, <3>1, <3>2, OkOf DEF LostAs
  <2>2. CASE x = Ok(P) /\ world.fate[P] # "blind"
    <3>1. /\ Met(v, Err(P)) <=> Met(walk, Err(P))
          /\ Met(v, Lst(P)) <=> Met(walk, Lst(P))
          /\ Met(v, Ok(P))
          /\ ~Met(walk, Ok(P))
      BY <1>1, <1>2, <1>3, <2>2, OkOf
    <3>2. LostNow(x) <=> world.fate[P] \in {"nometa", "filtered", "nonutf8", "special"}
      BY <2>2, OkOf DEF LostNow
    <3>3. QED
      BY <1>2, <2>2, <3>1, <3>2 DEF LostAs
  <2>3. CASE x = Err(P) \/ x = Lst(P)
    BY <1>2, <1>3, <2>3, OkOf DEF LostAs, LostNow
  <2>4. QED
    BY <1>2, <2>1, <2>2, <2>3
<1>10. L \subseteq Entries /\ M \subseteq Entries
  BY DEF LostAs
<1>11. QED
  BY <1>2, <1>7, <1>8, <1>9, <1>10

\* The folder that waits after an item is the one just met, or the one that waited before.
LEMMA AbsorbWaits ==
    ASSUME Env, WalkInv(walk), walk.outcome = None, NEW x \in walk.todo, IsFirst(x, walk.todo),
           Settled(Relieved(x), x), NEW v, Takes(v, x),
           v.unverified = IF NowWaits(x) THEN x.path ELSE Relieved(x).unverified
    PROVE  Waiting(v)
<1> DEFINE u == Relieved(x).unverified
           P == x.path
<1>1. /\ x \in Item /\ walk.root \in DOMAIN Roots /\ Given(x, Roots[walk.root]) /\ ~Met(walk, x)
      /\ \A y \in Item : Met(walk, y) /\ Given(y, Roots[walk.root]) => Before(y, x)
  BY Taken
<1>2. /\ P \in Entries /\ P \in Paths /\ Under(P, Roots[walk.root])
      /\ x \in {Ok(P), Err(P), Lst(P)}
  BY <1>1, GivenIs
<1>3. \A y \in Item : Met(v, y) <=> Met(walk, y) \/ y = x
  BY TakesOne
<1>4. Waiting(walk) /\ walk \in WalkStates
  BY DEF WalkInv, Live
<1>5. CASE NowWaits(x)
  <2>1. x = Ok(P) /\ v.unverified = P /\ P \in Folders /\ world.fate[P] \in {"blind", "blindshut"}
    BY <1>2, <1>5, OkOf DEF NowWaits
  <2>2. Met(v, Ok(P))
    BY <1>1, <1>3, <2>1
  <2>3. ASSUME world.fate[P] = "blindshut"
        PROVE  Lst(P) \in v.todo
    <3>1. Lst(P) \in Item /\ Lst(P) # x
      BY <1>2, <2>1, ItemsOf, OkOf
    <3>2. Given(Lst(P), Roots[walk.root])
      BY <1>1, <2>1, <2>3, OkOf DEF Given
    <3>3. ~Before(Lst(P), x)
      <4>1. Len(P) \in Nat
        BY <1>2 DEF Paths
      <4>2. QED
        BY <2>1, <4>1, OkOf DEF Before
    <3>4. ~Met(walk, Lst(P))
      BY <1>1, <3>1, <3>2, <3>3
    <3>5. walk.root \in 1..walk.root
      BY <1>1, RootSpan
    <3>6. QED
      BY <3>1, <3>2, <3>4, <3>5 DEF Met, Takes
  <2>4. QED
    BY <1>2, <2>1, <2>2, <2>3 DEF Waiting, Takes
<1>6. CASE ~NowWaits(x) /\ u # None
  <2>1. v.unverified = u /\ walk.unverified = u /\ x.path # u
    BY <1>6 DEF Settled
  <2>2. u \in Entries
    BY <1>4, <1>6, <2>1, DiskAssumption DEF WalkStates
  <2>3. Met(v, Ok(u))
    BY <1>3, <1>4, <1>6, <2>1, <2>2, ItemsOf DEF Waiting
  <2>4. world.fate[u] = "blindshut" => Lst(u) \in v.todo
    BY <1>4, <1>6, <2>1, OkOf DEF Waiting, Takes
  <2>5. QED
    BY <1>4, <1>6, <2>1, <2>3, <2>4 DEF Waiting, Takes
<1>7. CASE ~NowWaits(x) /\ u = None
  BY <1>7 DEF Waiting
<1>8. QED
  BY <1>5, <1>6, <1>7

\* The manifest takes the file or the folder of an item, and no folder twice.
LEMMA AbsorbFiles ==
    ASSUME Env, WalkInv(walk), walk.outcome = None, NEW x \in walk.todo, IsFirst(x, walk.todo),
           NEW v, Takes(v, x),
           v.files = walk.files \cup (IF x.kind = "ok" /\ x.path \in Files /\ world.fate[x.path] = "kept"
                                      THEN {x.path} ELSE {}),
           v.dirs = walk.dirs \cup (IF x.kind = "ok" /\ x.path \in Folders /\ ~NowWaits(x)
                                    THEN {x.path} ELSE {}),
           \A d \in v.dirs \ walk.dirs, e \in walk.dirs : Identity(d) # Identity(e)
    PROVE  Manifest(v)
<1> DEFINE P == x.path
<1>1. /\ P \in Entries /\ x \in {Ok(P), Err(P), Lst(P)}
      /\ x.kind = "ok" => world.fate[P] \notin {"error", "excluded"}
  BY Taken, GivenIs
<1>2. \A p \in Entries : Met(v, Ok(p)) <=> Met(walk, Ok(p)) \/ (x.kind = "ok" /\ p = P)
  BY <1>1, TakesOne, ItemsOf, OkOf
<1>3. Manifest(walk)
  BY DEF WalkInv, Live
<1>4. Files \subseteq Entries /\ Folders \subseteq Entries
  BY DiskAssumption DEF Files
<1>5. v.files = {p \in Files : world.fate[p] = "kept" /\ Met(v, Ok(p))}
  BY <1>2, <1>3, <1>4 DEF Manifest
<1>6. v.dirs = {p \in Folders : world.fate[p] \in {"listed", "shut", "alias"} /\ Met(v, Ok(p))}
  <2>1. P \in Folders /\ x.kind = "ok" => (~NowWaits(x) <=> world.fate[P] \in {"listed", "shut", "alias"})
    BY Fates DEF NowWaits, FolderFates
  <2>2. QED
    BY <1>2, <1>3, <1>4, <2>1 DEF Manifest
<1>7. \A a, b \in v.dirs : a # b => Identity(a) # Identity(b)
  BY <1>3 DEF Manifest
<1>8. QED
  BY <1>5, <1>6, <1>7 DEF Manifest

\* walk_collecting, one entry.
LEMMA AbsorbKeeps ==
    ASSUME Env, WalkInv(walk), walk.outcome = None, NEW x \in walk.todo, IsFirst(x, walk.todo)
    PROVE  WalkInv(Absorbed(x))
<1> DEFINE s == Relieved(x)
           v == Absorbed(x)
           P == x.path
<1>1. Takes(s, x) /\ s.files = walk.files /\ s.dirs = walk.dirs
  BY Settles
<1>2. /\ x \in Item /\ P \in Entries /\ x \in {Ok(P), Err(P), Lst(P)} /\ AtRoot(P)
      /\ x.kind = "ok" => world.fate[P] \notin {"error", "excluded"}
      /\ x.kind = "err" => world.fate[P] = "error"
      /\ x.kind = "listing" => world.fate[P] \in {"shut", "blindshut"}
  BY Taken, GivenIs
<1>3. CASE s.outcome = "Unverifiable"
  <2>1. v = s
    BY <1>3, Strings DEF Absorbed, AbsorbItem
  <2>2. Ordered(v)
    BY <1>1, <2>1, TakesOne
  <2>3. ~Live(v) /\ Over(v)
    BY <1>3, <2>1, Strings DEF Live, Over
  <2>4. QED
    BY <1>1, <2>1, <2>2, <2>3 DEF WalkInv, Takes
<1>4. CASE Settled(s, x)
  <2>1. s.outcome = None /\ s \in WalkStates /\ Account(s, LostAs(walk, s.unverified))
    BY <1>1, <1>4 DEF Settled, Takes
  <2>2. \/ x.kind # "ok" /\ v = RecordError(s, P)
        \/ x.kind = "ok" /\ P \in Folders /\ v = AbsorbFolder(s, P)
        \/ x.kind = "ok" /\ P \notin Folders /\ v = AbsorbFile(s, P)
    BY <2>1 DEF Absorbed, AbsorbItem
  <2> DEFINE Steady ==
        /\ Takes(v, x)
        /\ v.outcome = None
        /\ v.unverified = IF NowWaits(x) THEN P ELSE s.unverified
        /\ v.files = walk.files \cup (IF x.kind = "ok" /\ P \in Files /\ world.fate[P] = "kept" THEN {P} ELSE {})
        /\ v.dirs = walk.dirs \cup (IF x.kind = "ok" /\ P \in Folders /\ ~NowWaits(x) THEN {P} ELSE {})
        /\ \A d \in v.dirs \ walk.dirs, e \in walk.dirs : Identity(d) # Identity(e)
        /\ Account(v, LostAs(v, v.unverified))
  <2>3. ASSUME Takes(v, x), v.unverified = IF NowWaits(x) THEN P ELSE s.unverified,
               IF LostNow(x) THEN Recorded(s, v, LostCell(P)) ELSE v.cells = s.cells /\ v.failure = s.failure
        PROVE  Account(v, LostAs(v, v.unverified))
    <3> DEFINE L == LostAs(walk, s.unverified)
    <3>1. /\ LostNow(x) => P \notin L
          /\ LostAs(v, v.unverified) = L \cup IF LostNow(x) THEN {P} ELSE {}
      BY <1>4, <2>3, LostGrows
    <3>2. L \in SUBSET Entries /\ v \in WalkStates
      BY <2>3 DEF LostAs, Takes
    <3>3. CASE LostNow(x)
      BY <1>2, <2>1, <2>3, <3>1, <3>2, <3>3, OneLost
    <3>4. CASE ~LostNow(x)
      <4>1. LostAs(v, v.unverified) = L
        BY <3>1, <3>4
      <4>2. QED
        BY <2>1, <2>3, <3>4, <4>1 DEF Account
    <3>5. QED
      BY <3>3, <3>4
  <2>7. ASSUME Steady
        PROVE  WalkInv(v)
    <3>1. Manifest(v) /\ Waiting(v) /\ NotEntered(v)
      BY <1>4, <2>7, AbsorbFiles, AbsorbWaits, AbsorbEnters
    <3>2. v \in WalkStates /\ Ordered(v)
      BY <2>7, TakesOne DEF Takes
    <3>3. Over(v)
      BY <2>7, Strings DEF Over
    <3>4. QED
      BY <2>7, <3>1, <3>2, <3>3 DEF WalkInv
  <2>4. CASE x.kind # "ok" /\ v = RecordError(s, P)
    <3>1. world.fate[P] \in {"error", "shut", "blindshut", "blind"}
      BY <1>2, <2>4 DEF Item
    <3>2. v \in WalkStates /\ Recorded(s, v, LostCell(P))
      BY <1>2, <2>1, <2>4, <3>1, ErrorRecorded
    <3>3. /\ v.root = s.root /\ v.todo = s.todo /\ v.files = s.files /\ v.dirs = s.dirs
          /\ v.unverified = s.unverified /\ v.outcome = s.outcome
      BY <2>1, <3>2 DEF Recorded, WalkStates
    <3>4. ~NowWaits(x) /\ LostNow(x)
      BY <2>4 DEF NowWaits, LostNow
    <3>5. Takes(v, x)
      BY <1>1, <3>2, <3>3 DEF Takes
    <3>6. Account(v, LostAs(v, v.unverified))
      BY <2>3, <3>2, <3>3, <3>4, <3>5
    <3>7. Steady
      BY <1>1, <2>1, <2>4, <3>3, <3>4, <3>5, <3>6
    <3>8. QED
      BY <2>7, <3>7
  <2>5. CASE x.kind = "ok" /\ P \in Folders /\ v = AbsorbFolder(s, P)
    <3>a. x = Ok(P) /\ world.fate[P] \in FolderFates /\ ~LostNow(x) /\ P \notin Files /\ s.unverified = None
      BY <1>2, <1>4, <2>5, OkOf, Fates DEF FolderFates, LostNow, Settled
    <3>1. CASE NowWaits(x)
      <4>1. v = [s EXCEPT !.unverified = P]
        BY <2>5, <3>1 DEF AbsorbFolder, NowWaits
      <4>2. v \in WalkStates /\ v.root = s.root /\ v.todo = s.todo /\ v.files = s.files /\ v.dirs = s.dirs
            /\ v.unverified = P /\ v.outcome = s.outcome /\ v.cells = s.cells /\ v.failure = s.failure
        BY <2>1, <2>5, <4>1 DEF WalkStates
      <4>3. Takes(v, x)
        BY <1>1, <4>2 DEF Takes
      <4>4. Account(v, LostAs(v, v.unverified))
        BY <2>3, <3>1, <3>a, <4>2, <4>3
      <4>5. Steady
        BY <1>1, <2>1, <2>5, <3>1, <3>a, <4>2, <4>3, <4>4
      <4>6. QED
        BY <2>7, <4>5
    <3>2. CASE ~NowWaits(x)
      <4>1. v = NoteFolder(s, P)
        BY <2>5, <3>2 DEF AbsorbFolder, NowWaits
      <4>2. CASE \E seen \in s.dirs : Identity(seen) = Identity(P) /\ seen # P
        <5>1. v = [s EXCEPT !.outcome = "Aliased"]
          BY <4>1, <4>2 DEF NoteFolder
        <5>2. v \in WalkStates /\ v.root = s.root /\ v.todo = s.todo /\ v.outcome = "Aliased"
          BY <2>1, <5>1, Strings DEF WalkStates
        <5>3. Takes(v, x) /\ Ordered(v)
          BY <1>1, <5>2, TakesOne DEF Takes
        <5>4. ~Live(v) /\ Over(v)
          BY <5>2, Strings DEF Live, Over
        <5>5. WalkInv(v)
          BY <5>2, <5>3, <5>4 DEF WalkInv
        <5>6. QED
          BY <5>5
      <4>3. CASE ~\E seen \in s.dirs : Identity(seen) = Identity(P) /\ seen # P
        <5>1. v = [s EXCEPT !.dirs = @ \cup {P}]
          BY <4>1, <4>3 DEF NoteFolder
        <5>a. s.dirs \cup {P} \in SUBSET Folders
          BY <2>1, <2>5 DEF WalkStates
        <5>2. v \in WalkStates /\ v.root = s.root /\ v.todo = s.todo /\ v.files = s.files
              /\ v.dirs = s.dirs \cup {P} /\ v.unverified = s.unverified /\ v.outcome = s.outcome
              /\ v.cells = s.cells /\ v.failure = s.failure
          BY <2>1, <2>5, <5>1, <5>a DEF WalkStates
        <5>3. Takes(v, x)
          BY <1>1, <5>2 DEF Takes
        <5>4. Account(v, LostAs(v, v.unverified))
          BY <2>3, <3>2, <3>a, <5>2, <5>3
        <5>5. \A d \in v.dirs \ walk.dirs, e \in walk.dirs : Identity(d) # Identity(e)
          BY <1>1, <4>3, <5>2
        <5>6. Steady
          BY <1>1, <2>1, <2>5, <3>2, <3>a, <5>2, <5>3, <5>4, <5>5
        <5>7. QED
          BY <2>7, <5>6
      <4>4. QED
        BY <4>2, <4>3
    <3>3. QED
      BY <3>1, <3>2
  <2>6. CASE x.kind = "ok" /\ P \notin Folders /\ v = AbsorbFile(s, P)
    <3>a. x = Ok(P) /\ P \in Files /\ world.fate[P] \in FileFates \ {"error", "excluded"} /\ ~NowWaits(x)
      BY <1>2, <2>6, OkOf, Fates DEF NowWaits
    <3>1. CASE world.fate[P] = "kept"
      <4>1. v = [s EXCEPT !.files = @ \cup {P}]
        BY <2>6, <3>1 DEF AbsorbFile
      <4>a. s.files \cup {P} \in SUBSET Files
        BY <2>1, <3>a DEF WalkStates
      <4>2. v \in WalkStates /\ v.root = s.root /\ v.todo = s.todo /\ v.files = s.files \cup {P}
            /\ v.dirs = s.dirs /\ v.unverified = s.unverified /\ v.outcome = s.outcome
            /\ v.cells = s.cells /\ v.failure = s.failure
        BY <2>1, <4>1, <4>a DEF WalkStates
      <4>3. Takes(v, x) /\ ~LostNow(x)
        BY <1>1, <3>1, <3>a, <4>2, OkOf DEF Takes, LostNow
      <4>4. Account(v, LostAs(v, v.unverified))
        BY <2>3, <3>a, <4>2, <4>3
      <4>5. Steady
        BY <1>1, <2>1, <2>6, <3>1, <3>a, <4>2, <4>3, <4>4
      <4>6. QED
        BY <2>7, <4>5
    <3>2. CASE world.fate[P] = "own"
      <4>1. v = s
        BY <2>6, <3>2 DEF AbsorbFile
      <4>3. Takes(v, x) /\ ~LostNow(x)
        BY <1>1, <3>2, <3>a, <4>1, OkOf DEF LostNow
      <4>4. Account(v, LostAs(v, v.unverified))
        BY <2>3, <3>a, <4>1, <4>3
      <4>5. Steady
        BY <1>1, <2>1, <2>6, <3>2, <3>a, <4>1, <4>3, <4>4
      <4>6. QED
        BY <2>7, <4>5
    <3>3. CASE world.fate[P] \in {"nometa", "filtered", "nonutf8", "special"}
      <4>1. v = RecordChild(s, P, ReasonOf(world.fate[P]))
        BY <2>6, <3>3 DEF AbsorbFile
      <4>2. v \in WalkStates /\ Recorded(s, v, LostCell(P))
        BY <1>2, <2>1, <3>3, <4>1, ChildRecorded
      <4>3. /\ v.root = s.root /\ v.todo = s.todo /\ v.files = s.files /\ v.dirs = s.dirs
            /\ v.unverified = s.unverified /\ v.outcome = s.outcome
        BY <2>1, <4>2 DEF Recorded, WalkStates
      <4>4. Takes(v, x) /\ LostNow(x)
        BY <1>1, <3>3, <4>2, <4>3 DEF Takes, LostNow
      <4>5. Account(v, LostAs(v, v.unverified))
        BY <2>3, <3>a, <4>2, <4>3, <4>4
      <4>6. Steady
        BY <1>1, <2>1, <2>6, <3>3, <3>a, <4>3, <4>4, <4>5
      <4>7. QED
        BY <2>7, <4>6
    <3>4. QED
      BY <3>1, <3>2, <3>3, <3>a DEF FileFates
  <2>8. QED
    BY <2>2, <2>4, <2>5, <2>6
<1>5. QED
  BY <1>3, <1>4, Settles

-----------------------------------------------------------------------------
(* The walk as a whole                                                     *)

\* The folder that waits when its walk ends is settled, and the account is of all that is lost.
LEMMA SettleLast ==
    ASSUME Env, WalkInv(walk), walk.outcome = None, walk.todo = {}
    PROVE  LET s == SettleUnverified(walk) IN
           /\ s \in WalkStates
           /\ s.root = walk.root /\ s.todo = {} /\ s.files = walk.files /\ s.dirs = walk.dirs
           /\ s.unverified = None /\ s.outcome = None
           /\ Account(s, LostAs(walk, None))
<1> DEFINE s == SettleUnverified(walk)
           d == walk.unverified
<1>1. walk \in WalkStates /\ Waiting(walk) /\ Account(walk, LostAs(walk, d))
  BY DEF WalkInv, Live
<1>2. CASE d = None
  BY <1>1, <1>2 DEF SettleUnverified, WalkStates
<1>3. CASE d # None
  <2>1. d \in Folders /\ d \in Entries /\ d \in Paths
    BY <1>1, <1>3, EntryPaths, DiskAssumption DEF WalkStates
  <2>2. world.fate[d] = "blind" /\ Met(walk, Ok(d))
    BY <1>1, <1>3 DEF Waiting
  <2>3. d \notin LostAs(walk, d)
    BY <2>2 DEF LostAs, Met, Given, Err, Lst
  <2>4. \A p \in Entries : world.fate[p] = "blind" => p # None
    BY Fates, Strings DEF FileFates
  <2>5. LostAs(walk, None) = LostAs(walk, d) \cup {d}
    BY <2>1, <2>2, <2>4 DEF LostAs
  <2>6. walk.root \in DOMAIN Roots
    BY <1>1, <2>2, RootSpan DEF Met, WalkStates
  <2>7. keyable => AtRoot(d)
    BY <1>1, <1>3, <2>6 DEF Waiting, AtRoot, ActiveRoot
  <2>8. LostAs(walk, d) \in SUBSET Entries
    BY DEF LostAs
  <2>9. /\ s \in WalkStates
        /\ s = [walk EXCEPT !.unverified = None, !.cells = s.cells, !.failure = s.failure]
        /\ Account(s, LostAs(walk, d) \cup {d})
    BY <1>1, <1>3, <2>2, <2>3, <2>7, <2>8, SettleWaiting
  <2>10. QED
    BY <1>1, <2>5, <2>9 DEF WalkStates
<1>4. QED
  BY <1>2, <1>3

\* walk_collecting, the next root's builder.
LEMMA NextRootKeeps ==
    ASSUME Env, WalkInv(walk), NextRoot
    PROVE  WalkInv(walk')
<1> DEFINE s == IF keyable /\ walk.root > 0 THEN SettleUnverified(walk) ELSE walk
           n == walk.root + 1
           v == [s EXCEPT !.root = @ + 1, !.todo = Items(Roots[n])]
<1>1. walk' = v /\ walk.outcome = None /\ walk.todo = {} /\ walk.root < Len(Roots)
  BY DEF NextRoot
<1>2. walk \in WalkStates /\ Manifest(walk) /\ Waiting(walk) /\ NotEntered(walk)
      /\ Account(walk, LostAs(walk, walk.unverified))
  BY <1>1 DEF WalkInv, Live
<1>3. n \in DOMAIN Roots /\ n \in Nat /\ walk.root \in Nat
  BY <1>1, <1>2, RootSpan DEF WalkStates
<1>4. /\ s \in WalkStates /\ s.root = walk.root /\ s.files = walk.files /\ s.dirs = walk.dirs
      /\ s.outcome = None /\ Account(s, LostAs(walk, s.unverified))
      /\ s.unverified # None => s.unverified = walk.unverified /\ ~keyable
  <2>1. CASE keyable /\ walk.root > 0
    BY <1>1, <2>1, SettleLast
  <2>2. CASE ~(keyable /\ walk.root > 0)
    <3>1. walk.unverified # None => walk.root > 0
      BY <1>2, <1>3 DEF Waiting, Met
    <3>2. QED
      BY <1>1, <1>2, <2>2, <3>1
  <2>3. QED
    BY <2>1, <2>2
<1> HIDE DEF s
<1>5. Items(Roots[n]) \in SUBSET Item /\ s.root + 1 \in 0..Len(Roots)
  BY <1>1, <1>3, <1>4 DEF Items, Item
<1>6. /\ v \in WalkStates /\ v.root = n /\ v.todo = Items(Roots[n]) /\ v.files = s.files /\ v.dirs = s.dirs
      /\ v.outcome = None /\ v.cells = s.cells /\ v.failure = s.failure /\ v.unverified = s.unverified
  BY <1>4, <1>5 DEF WalkStates
<1> HIDE DEF v
<1>7. \A y \in Item : y \in v.todo <=> Given(y, Roots[n])
  BY <1>6 DEF Items, Item
<1>8. ASSUME NEW y \in Item, NEW i \in 1..walk.root, Given(y, Roots[i])
      PROVE  ~Under(y.path, Roots[n])
  <2>1. i \in DOMAIN Roots /\ i # n
    BY <1>1, <1>3, RootSpan
  <2>2. y.path \in Paths /\ Under(y.path, Roots[i])
    BY <1>8, <2>1, GivenIs
  <2>3. QED
    BY <1>3, <2>1, <2>2, OneRoot
<1>9. \A y \in Item : Given(y, Roots[n]) => Under(y.path, Roots[n])
  BY <1>3, GivenIs
<1>10. \A y \in Item : Met(v, y) <=> Met(walk, y)
  <2>1. \A i : i \in 1..n <=> i \in 1..walk.root \/ i = n
    BY <1>3
  <2>2. QED
    BY <1>1, <1>6, <1>7, <1>8, <1>9, <2>1 DEF Met
<1>11. \A p \in Entries : /\ Met(v, Ok(p)) <=> Met(walk, Ok(p))
                          /\ Met(v, Err(p)) <=> Met(walk, Err(p))
                          /\ Met(v, Lst(p)) <=> Met(walk, Lst(p))
  BY <1>10, ItemsOf
<1>12. Folders \subseteq Entries /\ Files \subseteq Entries
  BY DiskAssumption DEF Files
<1>13. Manifest(v)
  BY <1>2, <1>4, <1>6, <1>11, <1>12 DEF Manifest
<1>14. Account(v, LostAs(v, v.unverified))
  <2>1. LostAs(v, v.unverified) = LostAs(walk, s.unverified)
    BY <1>6, <1>11 DEF LostAs
  <2>2. QED
    BY <1>4, <1>6, <2>1 DEF Account
<1>15. Waiting(v)
  <2> SUFFICES ASSUME v.unverified # None
               PROVE  /\ Met(v, Ok(v.unverified))
                      /\ world.fate[v.unverified] = "blind"
                      /\ ~keyable
    BY DEF Waiting
  <2>1. v.unverified = walk.unverified /\ ~keyable /\ v.unverified \in Entries
    BY <1>2, <1>4, <1>6, <1>12 DEF WalkStates
  <2>2. QED
    BY <1>1, <1>2, <1>11, <2>1 DEF Waiting
<1>16. NotEntered(v)
  <2> SUFFICES ASSUME NEW e \in Folders, NEW q \in Entries,
                      world.fate[e] = "blind", Met(v, Ok(e)), Under(q, e), q # e
               PROVE  ~Met(v, Ok(q)) /\ Ok(q) \notin v.todo
    BY DEF NotEntered
  <2>1. Met(walk, Ok(e)) /\ e \in Entries
    BY <1>11, <1>12
  <2>2. ~Met(v, Ok(q))
    BY <1>2, <1>11, <2>1 DEF NotEntered
  <2>3. ASSUME Ok(q) \in v.todo
        PROVE  FALSE
    <3>1. Given(Ok(q), Roots[n])
      BY <1>7, <2>3, ItemsOf
    <3>2. Given(Ok(e), Roots[n])
      BY <1>3, <2>1, <3>1, MetBelow
    <3>3. PICK i \in 1..walk.root : Given(Ok(e), Roots[i])
      BY <2>1 DEF Met
    <3>4. QED
      BY <1>8, <1>9, <2>1, <3>2, <3>3, ItemsOf
  <2>4. QED
    BY <2>2, <2>3
<1>17. Ordered(v)
  <2>1. \A x \in v.todo : v.root > 0 /\ Given(x, Roots[v.root])
    BY <1>3, <1>6 DEF Items
  <2>2. \A x \in Item : ~(Met(v, x) /\ Given(x, Roots[v.root]))
    BY <1>6, <1>7 DEF Met
  <2>3. QED
    BY <2>1, <2>2 DEF Ordered
<1>18. Over(v)
  BY <1>6, Strings DEF Over
<1>19. WalkInv(v)
  BY <1>6, <1>13, <1>14, <1>15, <1>16, <1>17, <1>18 DEF WalkInv
<1>20. QED
  BY <1>1, <1>19

\* walk_collecting, WalkOutcome::Finished.
LEMMA WalkFinishedKeeps ==
    ASSUME Env, WalkInv(walk), WalkFinished
    PROVE  WalkInv(walk')
<1> DEFINE s == SettleUnverified(walk)
           v == [s EXCEPT !.outcome = Snapshot(s).kind, !.failure = Snapshot(s).why]
<1>1. walk' = v /\ walk.outcome = None /\ walk.todo = {} /\ walk.root = Len(Roots)
  BY DEF WalkFinished
<1>2. walk \in WalkStates /\ Manifest(walk) /\ NotEntered(walk)
  BY <1>1 DEF WalkInv, Live
<1>3. /\ s \in WalkStates
      /\ s.root = walk.root /\ s.todo = {} /\ s.files = walk.files /\ s.dirs = walk.dirs
      /\ s.unverified = None /\ s.outcome = None
      /\ Account(s, LostAs(walk, None))
  BY <1>1, SettleLast
<1>4. \/ Snapshot(s).kind = "Failed" /\ Snapshot(s).why \in Failures
      \/ Snapshot(s).kind = "Roots" /\ Snapshot(s).why = None /\ ~keyable /\ s.failure = None
      \/ Snapshot(s).kind = "Publishable" /\ Snapshot(s).why = None /\ keyable /\ s.failure = None
  <2>1. s.failure # None => s.failure \in Failures
    BY <1>3 DEF WalkStates
  <2> HIDE DEF s
  <2>2. QED
    BY <2>1, Strings DEF Snapshot
<1> HIDE DEF s
<1>5. Snapshot(s).kind \in {"Failed", "Roots", "Publishable"} /\ Snapshot(s).why \in Failures \cup {None}
  BY <1>4
<1>6. /\ v \in WalkStates /\ v.root = s.root /\ v.todo = s.todo /\ v.files = s.files /\ v.dirs = s.dirs
      /\ v.outcome = Snapshot(s).kind /\ v.cells = s.cells /\ v.failure = Snapshot(s).why
      /\ v.unverified = s.unverified
  BY <1>3, <1>5, Strings DEF WalkStates
<1> HIDE DEF v
<1>7. \A y : Met(v, y) <=> Met(walk, y)
  BY <1>1, <1>3, <1>6 DEF Met
<1>8. Ordered(v)
  BY <1>3, <1>6 DEF Ordered
<1>9. Over(v)
  BY <1>1, <1>3, <1>4, <1>6 DEF Over
<1>10. ASSUME Live(v)
       PROVE  Manifest(v) /\ Account(v, LostAs(v, v.unverified)) /\ Waiting(v) /\ NotEntered(v)
  <2>1. s.failure = None /\ v.failure = None
    BY <1>4, <1>6, <1>10, Strings DEF Live
  <2>2. LostAs(v, v.unverified) = LostAs(walk, None)
    BY <1>3, <1>6, <1>7 DEF LostAs
  <2>3. Account(v, LostAs(v, v.unverified))
    BY <1>3, <1>6, <2>1, <2>2 DEF Account
  <2>4. Manifest(v)
    BY <1>2, <1>3, <1>6, <1>7 DEF Manifest
  <2>5. NotEntered(v)
    BY <1>1, <1>2, <1>3, <1>6, <1>7 DEF NotEntered
  <2>6. Waiting(v)
    BY <1>3, <1>6 DEF Waiting
  <2>7. QED
    BY <2>3, <2>4, <2>5, <2>6
<1>11. WalkInv(v)
  BY <1>6, <1>8, <1>9, <1>10 DEF WalkInv
<1>12. QED
  BY <1>1, <1>11

\* walk_collecting, WalkOutcome::Cancelled.
LEMMA WalkStoppedKeeps ==
    ASSUME Env, WalkInv(walk), WalkStopped
    PROVE  WalkInv(walk')
<1> DEFINE v == [walk EXCEPT !.outcome = "Cancelled"]
<1>1. walk' = v /\ walk \in WalkStates /\ Ordered(walk)
  BY DEF WalkStopped, WalkInv
<1>2. v \in WalkStates /\ v.root = walk.root /\ v.todo = walk.todo /\ v.outcome = "Cancelled"
  BY <1>1, Strings DEF WalkStates
<1> HIDE DEF v
<1>3. Ordered(v)
  BY <1>1, <1>2 DEF Ordered, Met
<1>4. ~Live(v) /\ Over(v)
  BY <1>2, Strings DEF Live, Over
<1>5. WalkInv(v)
  BY <1>2, <1>3, <1>4 DEF WalkInv
<1>6. QED
  BY <1>1, <1>5

\* A walk begins with an empty account that nothing is missing from.
LEMMA WalkStarts ==
    ASSUME Init
    PROVE  Env /\ WalkInv(walk)
<1>1. Env
  BY DEF Init, Env
<1>2. /\ walk.root = 0 /\ walk.todo = {} /\ walk.entries = 0 /\ walk.files = {} /\ walk.dirs = {}
      /\ DOMAIN walk.cells = {} /\ walk.failure = None /\ walk.unverified = None /\ walk.outcome = None
  BY DEF Init
<1>3. walk \in WalkStates
  <2>1. [c \in {} |-> 0] \in CellMaps
    BY CellMapsAre
  <2>2. QED
    BY <2>1, RootSpan DEF Init, WalkStates
<1>4. \A y : ~Met(walk, y)
  BY <1>2 DEF Met
<1>5. LostAs(walk, None) = {}
  BY <1>4 DEF LostAs
<1>6. Account(walk, LostAs(walk, walk.unverified))
  BY <1>2, <1>5 DEF Account
<1>7. Manifest(walk) /\ Waiting(walk) /\ NotEntered(walk) /\ Ordered(walk) /\ Over(walk)
  BY <1>2, <1>4, Strings DEF Manifest, Waiting, NotEntered, Ordered, Over
<1>8. QED
  BY <1>1, <1>3, <1>6, <1>7 DEF WalkInv

-----------------------------------------------------------------------------
(* What a published walk says                                              *)

\* A walk that can be published has met all the iterator hands over of every root.
LEMMA DoneIs ==
    ASSUME Env, WalkInv(walk), WalkDone
    PROVE  /\ walk \in WalkStates /\ walk.failure = None /\ walk.unverified = None
           /\ Manifest(walk) /\ Account(walk, LostAs(walk, None)) /\ NotEntered(walk)
           /\ \A y : Met(walk, y) <=> \E i \in DOMAIN Roots : Given(y, Roots[i])
<1>1. Live(walk) /\ walk.outcome \in {"Publishable", "Roots"}
  BY DEF WalkDone, Live
<1>2. walk.todo = {} /\ walk.root = Len(Roots) /\ walk.failure = None /\ walk.unverified = None
  BY <1>1 DEF WalkInv, Over
<1>3. QED
  BY <1>1, <1>2, RootSpan DEF WalkInv, Met

\* What such a walk has counted as lost is what is lost.
LEMMA LostIsLost ==
    ASSUME Env, WalkInv(walk), WalkDone
    PROVE  LostAs(walk, None) = Lost
<1>1. \A y : Met(walk, y) <=> \E i \in DOMAIN Roots : Given(y, Roots[i])
  BY DoneIs
<1>2. ASSUME NEW p \in Entries
      PROVE  p \in LostAs(walk, None) <=> p \in Lost
  <2>1. \A r : /\ Given(Ok(p), r) <=> Reached(p, r) /\ world.fate[p] \notin {"error", "excluded"}
               /\ Given(Err(p), r) <=> Reached(p, r) /\ world.fate[p] = "error"
               /\ Given(Lst(p), r) <=> Reached(p, r) /\ world.fate[p] \in {"shut", "blindshut"}
    BY DEF Given, Ok, Err, Lst
  <2>2. /\ Met(walk, Ok(p)) <=> SomeRoot(p) /\ world.fate[p] \notin {"error", "excluded"}
        /\ Met(walk, Err(p)) <=> SomeRoot(p) /\ world.fate[p] = "error"
        /\ Met(walk, Lst(p)) <=> SomeRoot(p) /\ world.fate[p] \in {"shut", "blindshut"}
    BY <1>1, <2>1 DEF SomeRoot
  <2>3. world.fate[p] = "blind" => p # None
    BY Fates, Strings DEF FileFates
  <2>4. QED
    BY <2>2, <2>3 DEF LostAs, Lost
<1>3. LostAs(walk, None) \subseteq Entries /\ Lost \subseteq Entries
  BY DEF LostAs, Lost
<1>4. QED
  BY <1>2, <1>3

\* The account of a published walk is exact (OneEventEach).
LEMMA EachOnce ==
    ASSUME Env, WalkInv(walk)
    PROVE  OneEventEach
<1> SUFFICES ASSUME WalkDone
             PROVE  /\ DOMAIN walk.cells = {LostCell(p) : p \in Lost}
                    /\ \A p \in Lost : CountOf(LostCell(p), walk.cells) =
                          Cardinality({q \in Lost : LostCell(q) = LostCell(p)})
  BY DEF OneEventEach
<1>1. Account(walk, Lost) /\ walk.failure = None
  BY DoneIs, LostIsLost
<1>2. DOMAIN walk.cells = {LostCell(p) : p \in Lost}
  BY <1>1 DEF Account
<1>3. ASSUME NEW p \in Lost
      PROVE  CountOf(LostCell(p), walk.cells) = Cardinality({q \in Lost : LostCell(q) = LostCell(p)})
  BY <1>1, <1>2 DEF Account, CountOf
<1>4. QED
  BY <1>2, <1>3

\* A published walk has gone into no folder twice, and into none it has no identity of (NoTreeTwice).
LEMMA NoneTwice ==
    ASSUME Env, WalkInv(walk)
    PROVE  NoTreeTwice
<1> SUFFICES ASSUME WalkDone
             PROVE  /\ {Parent(p) : p \in walk.files \cup walk.dirs} \cap Folders \subseteq walk.dirs
                    /\ \A a, b \in walk.dirs : a # b => Identity(a) # Identity(b)
  BY DEF NoTreeTwice
<1>1. Manifest(walk) /\ NotEntered(walk) /\ walk \in WalkStates
  BY DoneIs
<1>2. \A y : Met(walk, y) <=> \E i \in DOMAIN Roots : Given(y, Roots[i])
  BY DoneIs
<1>3. ASSUME NEW p \in walk.files \cup walk.dirs, Parent(p) \in Folders
      PROVE  Parent(p) \in walk.dirs
  <2> DEFINE e == Parent(p)
  <2>1. p \in Entries /\ p \in Paths /\ e \in Entries /\ e \in Paths /\ Met(walk, Ok(p))
    BY <1>1, <1>3, EntryPaths, DiskAssumption DEF Manifest, WalkStates, Files
  <2>2. PICK i \in DOMAIN Roots : Given(Ok(p), Roots[i])
    BY <1>2, <2>1
  <2>3. Reached(p, Roots[i]) /\ Under(p, Roots[i])
    BY <2>2, OkOf DEF Given, Reached
  <2>4. Roots[i] \in Paths /\ Len(Roots[i]) \in Nat /\ Len(p) \in Nat /\ Len(Roots[i]) <= Len(p)
    BY <2>1, <2>3, RootAt DEF Paths, Under
  <2> SUFFICES ASSUME p # <<>>
               PROVE  e \in walk.dirs
    BY <1>1, <1>3, NoParent DEF Manifest, Files
  <2>5. Len(p) - 1 \in 0..Len(p)
    BY <2>1, <2>4, EmptySeq DEF Paths
  <2>6. Under(p, e) /\ Len(e) = Len(p) - 1
    BY <2>1, <2>5, UnderCut, CutIs DEF Parent
  <2>7. p # e
    BY <2>4, <2>6
  <2>8. Under(e, Roots[i])
    <3>1. PICK j \in DOMAIN Roots : Under(e, Roots[j])
      BY <2>1, EntryRoot
    <3>2. Under(p, Roots[j])
      BY <2>1, <2>6, <3>1, RootAt, UnderTrans
    <3>3. i = j
      BY <2>1, <2>3, <3>2, OneRoot
    <3>4. QED
      BY <3>1, <3>3
  <2>9. Entered(e)
    BY <1>3, <2>3, <2>6, <2>7, <2>8 DEF Reached
  <2>10. Reached(e, Roots[i])
    <3>1. ASSUME NEW d \in Folders, Under(d, Roots[i]), Under(e, d)
          PROVE  Entered(d)
      <4>1. d \in Paths
        BY EntryPaths
      <4>2. Under(p, d)
        BY <2>1, <2>6, <3>1, <4>1, UnderTrans
      <4>3. p # d
        BY <2>1, <2>6, <2>7, <3>1, UnderAnti
      <4>4. QED
        BY <2>3, <3>1, <4>2, <4>3 DEF Reached
    <3>2. QED
      BY <2>8, <3>1 DEF Reached
  <2>11. world.fate[e] \in {"listed", "blind", "alias"}
    BY <1>3, <2>9, Fates DEF Entered, FolderFates
  <2>12. Met(walk, Ok(e))
    <3>1. Given(Ok(e), Roots[i]) <=> Reached(e, Roots[i]) /\ world.fate[e] \notin {"error", "excluded"}
      BY DEF Given, Ok
    <3>2. QED
      BY <1>2, <2>8, <2>10, <2>11, <3>1
  <2>13. world.fate[e] # "blind"
    BY <1>1, <1>3, <2>1, <2>6, <2>7, <2>12 DEF NotEntered
  <2>14. QED
    BY <1>1, <1>3, <2>11, <2>12, <2>13 DEF Manifest
<1>4. QED
  BY <1>1, <1>3 DEF Manifest

\* What is not in the manifest has an omission of its own, or one of a folder above it.
LEMMA Gapless ==
    ASSUME Env, WalkInv(walk), WalkDone, NEW f \in Files,
           world.fate[f] \notin {"own", "excluded"}, f \notin walk.files
    PROVE  \E p \in Lost : Under(f, p) /\ Under(p, Roots[OwningRoot(f)])
<1> DEFINE i == OwningRoot(f)
           R == Roots[i]
<1>1. f \in Entries /\ f \in Paths /\ f \notin Folders /\ i \in DOMAIN Roots /\ Under(f, R) /\ R \in Paths
  BY EntryPaths, EntryRoot, RootAt DEF Files
<1>2. Manifest(walk) /\ \A y : Met(walk, y) <=> \E j \in DOMAIN Roots : Given(y, Roots[j])
  BY DoneIs
<1>3. CASE Reached(f, R)
  <2>1. world.fate[f] # "kept"
    <3> SUFFICES ASSUME world.fate[f] = "kept"
                 PROVE  FALSE
      OBVIOUS
    <3>1. Given(Ok(f), R)
      BY <1>3, OkOf DEF Given
    <3>2. QED
      BY <1>1, <1>2, <3>1 DEF Manifest
  <2>2. world.fate[f] \in {"nometa", "filtered", "nonutf8", "special", "error"}
    BY <2>1, Fates DEF FileFates
  <2>3. f \in Lost
    BY <1>1, <1>3, <2>2 DEF Lost, SomeRoot
  <2>4. QED
    BY <1>1, <2>3, UnderSelf
<1>4. CASE ~Reached(f, R)
  <2> DEFINE Shut(d) == d \in Folders /\ Under(d, R) /\ Under(f, d) /\ f # d /\ ~Entered(d)
             S == {n \in Nat : \E d \in Folders : Shut(d) /\ Len(d) = n}
  <2>1. PICK d0 \in Folders : Shut(d0)
    BY <1>1, <1>4 DEF Reached
  <2>2. Folders \subseteq Paths /\ \A d \in Folders : Len(d) \in Nat
    BY EntryPaths DEF Paths
  <2>3. S # {} /\ S \in SUBSET Nat
    BY <2>1, <2>2
  <2>4. PICK n \in S : \A m \in S : n <= m
    BY <2>3, Least
  <2>5. PICK d \in Folders : Shut(d) /\ Len(d) = n
    BY <2>4
  <2>6. ASSUME NEW c \in Folders, Under(c, R), Under(d, c), d # c
        PROVE  Entered(c)
    <3>1. Under(f, c) /\ f # c
      BY <1>1, <2>2, <2>5, <2>6, UnderTrans
    <3>2. Len(c) < Len(d)
      <4>1. Len(c) <= Len(d)
        BY <2>6 DEF Under
      <4>2. Len(c) # Len(d)
        BY <2>2, <2>6, UnderIs, SamePath
      <4>3. QED
        BY <2>2, <4>1, <4>2
    <3>3. Len(c) \notin S
      BY <2>2, <2>4, <2>5, <3>2
    <3>4. QED
      BY <2>2, <2>6, <3>1, <3>3
  <2>7. Reached(d, R)
    BY <2>5, <2>6 DEF Reached
  <2>8. world.fate[d] \in {"shut", "blindshut"}
    BY <2>5 DEF Entered
  <2>9. d \in Lost
    BY <1>1, <2>5, <2>7, <2>8, DiskAssumption DEF Lost, SomeRoot
  <2>10. QED
    BY <2>5, <2>9
<1>5. QED
  BY <1>3, <1>4

\* A clean status was drawn from a published walk without failures or warnings.
StatusInv ==
    /\ status \in {"Walking", "Complete", "CompleteWithWarnings"}
    /\ status = "Complete" => WalkDone /\ HashFailures = {} /\ WarningEvents = {}

\* A clean status leaves no event to explain a missing file (CleanMeansComplete).
LEMMA CleanIsComplete ==
    ASSUME Env, WalkInv(walk), StatusInv
    PROVE  CleanMeansComplete
<1> SUFFICES ASSUME status = "Complete", NEW f \in Files, world.fate[f] \notin {"own", "excluded", "filtered"}
             PROVE  f \in walk.files /\ (Eligible(f) => Digest(f) # None)
  BY DEF CleanMeansComplete
<1>1. WalkDone /\ HashFailures = {} /\ WarningEvents = {}
  BY DEF StatusInv
<1>2. f \in walk.files
  <2> SUFFICES ASSUME f \notin walk.files
               PROVE  FALSE
    OBVIOUS
  <2>1. PICK p \in Lost : Under(f, p)
    BY <1>1, Gapless
  <2>2. p \in Entries /\ world.fate[p] \in {"nometa", "filtered", "nonutf8", "special", "error", "shut", "blindshut", "blind"}
    BY DEF Lost
  <2>3. LostCell(p) \in DOMAIN walk.cells
    BY <1>1, EachOnce DEF OneEventEach
  <2>4. LostReason(p) = "Filter"
    <3>1. (IF keyable THEN LostCell(p)[3] ELSE LostCell(p)) = LostReason(p)
      BY DEF LostCell
    <3>2. QED
      BY <1>1, <2>3, <3>1 DEF WarningEvents
  <2>5. world.fate[p] = "filtered"
    BY <2>2, <2>4 DEF LostReason, ReasonOf
  <2>6. p \in Files
    BY <2>2, <2>5, Fates DEF FolderFates
  <2>7. f = p
    BY <2>1, <2>6, FileEnds DEF Files
  <2>8. QED
    BY <2>5, <2>7
<1>3. QED
  BY <1>1, <1>2 DEF HashFailures

-----------------------------------------------------------------------------
(* The grouping                                                            *)

\* Where the ancestors a file accounts for begin, and all of them.
Low(p) == IF keyable THEN Len(Roots[OwningRoot(p)]) ELSE 0

Dirs == UNION {Accountable(f) : f \in walk.files}

\* An entry of the directory itself.
Direct(x, d) == Under(x, d) /\ Len(x) = Len(d) + 1

\* The last component.
Name(p) == p[Len(p)]

\* The files the build has been given, the directories with a frame, the ones whose frame is gone.
Handed(s) == IF s.phase = "idle" THEN {} ELSE walk.files \ s.todo

OnStack(s) == {s.stack[i].path : i \in 1..Len(s.stack)}

Closed(s) == {d \in Dirs : d \notin OnStack(s) /\ \E f \in Handed(s) : Under(f, d)}

Sent(s) == {e.path : e \in s.emitted}

\* What the files handed over so far put into the frame of d.
FileEntries(s, d) ==
    {<<Name(f), Digest(f)>> : f \in {g \in Handed(s) : Direct(g, d) /\ Digest(g) # None}}

\* What the directories written so far put into the frame of d.
DirEntries(s, d) == {<<Name(e.path), e.sig>> : e \in {c \in s.emitted : Direct(c.path, d)}}

\* Something directly in d has no digest or no signature.
Lacks(s, d) ==
    \/ \E f \in Handed(s) : Direct(f, d) /\ Digest(f) = None
    \/ \E c \in Closed(s) : Direct(c, d) /\ c \notin Sent(s)

\* Every file below d has a digest, and d is not suppressed.
Whole(d) ==
    /\ \A f \in walk.files : Under(f, d) => Digest(f) # None
    /\ Disposition(d) # "Suppressed"

\* How far the build is, and that files are handed over in order.
Phased(s) ==
    /\ s = [phase |-> s.phase, todo |-> s.todo, stack |-> s.stack, emitted |-> s.emitted]
    /\ s.phase \in {"idle", "streaming", "done"}
    /\ s.phase = "idle" => s.todo = {} /\ s.stack = <<>> /\ s.emitted = {}
    /\ s.phase # "idle" => WalkDone /\ s.todo \subseteq walk.files
    /\ s.phase = "done" => s.todo = {} /\ s.stack = <<>>
    /\ \A f \in Handed(s), g \in s.todo : Before(Ok(f), Ok(g))

\* A sequence, of whatever elements.
Sequenced(t) == Len(t) \in Nat /\ t = [i \in 1..Len(t) |-> t[i]]

\* The stack is a chain of ancestors of one file that was handed over.
Chain(s) ==
    /\ Sequenced(s.stack)
    /\ Len(s.stack) # 0 =>
          \E q \in Handed(s) :
              /\ Low(q) + Len(s.stack) <= Len(q)
              /\ \A i \in 1..Len(s.stack) : s.stack[i].path = SubSeq(q, 1, Low(q) + i - 1)

\* A frame holds what was handed over and written directly in its directory.
FrameIs(s, frame) ==
    /\ frame = [path |-> frame.path, entries |-> frame.entries, incomplete |-> frame.incomplete]
    /\ frame.entries = FileEntries(s, frame.path) \cup DirEntries(s, frame.path)
    /\ frame.incomplete \in BOOLEAN
    /\ frame.incomplete <=> Lacks(s, frame.path)

\* The record a directory gets.
RecordOf(s, d) ==
    [path |-> d, sig |-> <<"dir", FileEntries(s, d) \cup DirEntries(s, d)>>, trust |-> Disposition(d)]

\* The closed directories are done with; those that are whole have been written, and rightly.
Written(s) ==
    /\ \A d \in Closed(s), f \in s.todo : ~Under(f, d)
    /\ Sent(s) = {d \in Closed(s) : Whole(d)}
    /\ \A e \in s.emitted : e = RecordOf(s, e.path)

\* Records have one signature exactly if the whole-subtree build gives them one.
Paired(s) ==
    \A a, b \in s.emitted : a.sig = b.sig <=> OldSignature(a.path) = OldSignature(b.path)

\* The invariant of the grouping.
GroupInv(s) ==
    /\ Phased(s)
    /\ Chain(s)
    /\ \A i \in 1..Len(s.stack) : FrameIs(s, s.stack[i])
    /\ Written(s)
    /\ Paired(s)

-----------------------------------------------------------------------------
(* The directories a scan accounts for                                     *)

\* Where the ancestors of a file begin: at its root, or at the root of the file system.
LEMMA LowIs ==
    ASSUME Env, NEW f \in Files
    PROVE  /\ f \in Paths /\ Len(f) \in Nat
           /\ Low(f) \in Nat /\ Low(f) <= Len(f)
           /\ keyable => \A d \in Paths : Under(d, Roots[OwningRoot(f)]) => Low(f) <= Len(d)
<1>1. f \in Entries /\ f \in Paths /\ Len(f) \in Nat
  BY EntryPaths DEF Files, Paths
<1>2. OwningRoot(f) \in DOMAIN Roots /\ Under(f, Roots[OwningRoot(f)])
  BY <1>1, EntryRoot
<1>3. Len(Roots[OwningRoot(f)]) \in Nat
  BY <1>2, RootAt
<1>4. QED
  BY <1>1, <1>2, <1>3 DEF Low, Under

\* The ancestors a file accounts for, by length (accountable_ancestors).
LEMMA AccountableIs ==
    ASSUME Env, NEW f \in Files, NEW d
    PROVE  d \in Accountable(f) <=> d \in Paths /\ Under(f, d) /\ Low(f) <= Len(d) /\ Len(d) < Len(f)
<1> DEFINE R == Roots[OwningRoot(f)]
<1>1. f \in Entries /\ f \in Paths /\ Len(f) \in Nat /\ Low(f) \in Nat
  BY LowIs DEF Files
<1>2. R \in Paths /\ Under(f, R)
  BY <1>1, EntryRoot, RootAt
<1>3. ASSUME NEW n \in 0..(Len(f) - 1)
      PROVE  /\ SubSeq(f, 1, n) \in Paths /\ Len(SubSeq(f, 1, n)) = n /\ Under(f, SubSeq(f, 1, n))
             /\ (keyable => Under(SubSeq(f, 1, n), R)) <=> Low(f) <= n
  <2>1. n \in 0..Len(f)
    BY <1>1
  <2>2. Under(SubSeq(f, 1, n), R) <=> Len(R) <= n
    BY <1>1, <1>2, <2>1, CutUnder
  <2>3. (keyable => Under(SubSeq(f, 1, n), R)) <=> Low(f) <= n
    BY <2>1, <2>2 DEF Low
  <2>4. QED
    BY <1>1, <2>1, <2>3, CutIs, UnderCut
<1>4. ASSUME d \in Accountable(f)
      PROVE  d \in Paths /\ Under(f, d) /\ Low(f) <= Len(d) /\ Len(d) < Len(f)
  <2>1. PICK n \in 0..(Len(f) - 1) : d = SubSeq(f, 1, n) /\ (keyable => Under(SubSeq(f, 1, n), R))
    BY <1>4 DEF Accountable
  <2>2. QED
    BY <1>1, <1>3, <2>1
<1>5. ASSUME d \in Paths, Under(f, d), Low(f) <= Len(d), Len(d) < Len(f)
      PROVE  d \in Accountable(f)
  <2>1. Len(d) \in 0..(Len(f) - 1)
    BY <1>1, <1>5 DEF Paths
  <2>2. d = SubSeq(f, 1, Len(d))
    BY <1>5 DEF Under
  <2>3. keyable => Under(SubSeq(f, 1, Len(d)), R)
    BY <1>3, <1>5, <2>1
  <2>4. QED
    BY <2>1, <2>2, <2>3 DEF Accountable
<1>6. QED
  BY <1>4, <1>5

\* A directory is accountable to every file of the manifest below it, whichever named it.
LEMMA DirsAre ==
    ASSUME Env, walk.files \subseteq Files, NEW d \in Dirs
    PROVE  /\ d \in Paths /\ Len(d) \in Nat
           /\ \A f \in walk.files : Under(f, d) => d \in Accountable(f)
<1>1. PICK p \in walk.files : d \in Accountable(p)
  BY DEF Dirs
<1>2. p \in Files /\ p \in Entries /\ p \in Paths /\ p \notin Folders
  BY EntryPaths DEF Files
<1>3. d \in Paths /\ Under(p, d) /\ Low(p) <= Len(d) /\ Len(d) < Len(p)
  BY <1>1, <1>2, AccountableIs
<1>4. Len(d) \in Nat
  BY <1>3 DEF Paths
<1>5. ASSUME NEW f \in walk.files, Under(f, d)
      PROVE  d \in Accountable(f)
  <2>1. f \in Files /\ f \in Entries /\ f \in Paths /\ f \notin Folders /\ Len(f) \in Nat
    BY EntryPaths DEF Files, Paths
  <2>2. f # d
    <3>1. Under(p, d) /\ p # d
      BY <1>3
    <3>2. QED
      BY <1>2, <2>1, <3>1, FileEnds
  <2>3. Len(d) <= Len(f)
    BY <1>5 DEF Under
  <2>4. Len(d) # Len(f)
    <3>1. Len(d) = Len(f) => d = f
      BY <1>3, <1>5, <2>1, UnderIs, SamePath
    <3>2. QED
      BY <2>2, <3>1
  <2>5. Low(f) <= Len(d)
    <3>1. CASE ~keyable
      BY <1>4, <3>1 DEF Low
    <3>2. CASE keyable
      <4> DEFINE i == OwningRoot(p)
      <4>1. i \in DOMAIN Roots /\ Under(p, Roots[i]) /\ Roots[i] \in Paths
        BY <1>2, EntryRoot, RootAt
      <4>2. Len(Roots[i]) <= Len(d)
        BY <1>3, <3>2 DEF Low
      <4>3. Under(d, Roots[i])
        BY <1>2, <1>3, <4>1, <4>2, UnderBoth
      <4>4. Under(f, Roots[i])
        BY <1>3, <1>5, <2>1, <4>1, <4>3, UnderTrans
      <4>5. OwningRoot(f) = i
        BY <2>1, <4>1, <4>4, OwnRoot
      <4>6. QED
        BY <3>2, <4>2, <4>5 DEF Low
    <3>3. QED
      BY <3>1, <3>2
  <2>6. QED
    BY <1>3, <1>4, <1>5, <2>1, <2>3, <2>4, <2>5, AccountableIs
<1>6. QED
  BY <1>3, <1>4, <1>5

\* What is below a directory a file accounts for, and above the file, is one too.
LEMMA Between ==
    ASSUME Env, walk.files \subseteq Files, NEW f \in walk.files, NEW d \in Dirs, NEW n \in Nat,
           Under(f, d), Len(d) <= n, n < Len(f)
    PROVE  /\ SubSeq(f, 1, n) \in Dirs /\ Len(SubSeq(f, 1, n)) = n
           /\ Under(f, SubSeq(f, 1, n)) /\ Under(SubSeq(f, 1, n), d)
<1> DEFINE c == SubSeq(f, 1, n)
<1>1. f \in Files /\ f \in Paths /\ Len(f) \in Nat
  BY LowIs
<1>2. d \in Paths /\ Len(d) \in Nat /\ Low(f) <= Len(d)
  BY <1>1, DirsAre, AccountableIs
<1>3. n \in 0..Len(f)
  BY <1>1
<1>4. c \in Paths /\ Len(c) = n /\ Under(f, c) /\ Under(c, d)
  BY <1>1, <1>2, <1>3, CutIs, UnderCut, CutUnder
<1> HIDE DEF c
<1>5. c \in Accountable(f)
  BY <1>1, <1>2, <1>4, LowIs, AccountableIs
<1>6. QED
  BY <1>4, <1>5 DEF Dirs, c

\* An omission at or under a directory is at or under the one it lies in.
LEMMA SuppressedAbove ==
    ASSUME Env, WalkInv(walk), WalkDone, NEW c \in Dirs, NEW d \in Dirs, Under(c, d),
           Disposition(d) # "Suppressed"
    PROVE  Disposition(c) # "Suppressed"
<1> SUFFICES ASSUME Disposition(c) = "Suppressed"
             PROVE  FALSE
  OBVIOUS
<1> DEFINE i == OwningRoot(c)
<1>1. walk.files \subseteq Files
  BY DoneIs DEF WalkStates
<1>2. c \in Paths /\ d \in Paths
  BY <1>1, DirsAre
<1>3. keyable /\ HasOwningRoot(c) /\ OmittedAtOrUnder(Roots[i], c)
  BY DEF Disposition
<1>4. PICK j \in DOMAIN Roots : Under(c, Roots[j])
  BY <1>3 DEF HasOwningRoot
<1>5. i = j
  BY <1>2, <1>4, OwnRoot
<1>6. Under(d, Roots[i])
  <2>1. PICK p \in walk.files : d \in Accountable(p)
    BY DEF Dirs
  <2>2. p \in Files /\ p \in Paths /\ p \in Entries /\ Under(p, d) /\ Low(p) <= Len(d)
    BY <1>1, <2>1, LowIs, AccountableIs DEF Files
  <2>3. OwningRoot(p) \in DOMAIN Roots /\ Under(p, Roots[OwningRoot(p)]) /\ Roots[OwningRoot(p)] \in Paths
    BY <2>2, EntryRoot, RootAt
  <2>4. Under(d, Roots[OwningRoot(p)])
    BY <1>2, <1>3, <2>2, <2>3, UnderBoth DEF Low
  <2>5. Under(c, Roots[OwningRoot(p)])
    BY <1>2, <2>3, <2>4, UnderTrans
  <2>6. OwningRoot(p) = i
    BY <1>2, <2>3, <2>5, OwnRoot
  <2>7. QED
    BY <2>4, <2>6
<1>7. OwningRoot(d) = i /\ HasOwningRoot(d)
  BY <1>2, <1>4, <1>5, <1>6, OwnRoot DEF HasOwningRoot
<1>8. OmittedAtOrUnder(Roots[i], d)
  <2>1. CASE <<Roots[i], Roots[i], "WalkError">> \in DOMAIN walk.cells
    BY <2>1 DEF OmittedAtOrUnder
  <2>2. CASE \E cell \in DOMAIN walk.cells : cell[1] = Roots[i] /\ Under(cell[2], c)
    <3>1. PICK cell \in DOMAIN walk.cells : cell[1] = Roots[i] /\ Under(cell[2], c)
      BY <2>2
    <3>2. PICK p \in Lost : cell = LostCell(p)
      BY <3>1, EachOnce DEF OneEventEach
    <3>3. cell[2] = LostAt(p)
      BY <1>3, <3>2 DEF LostCell
    <3>4. LostAt(p) \in Paths
      BY EntryPaths, ParentIs DEF Lost, LostAt
    <3>5. Under(cell[2], d)
      BY <1>2, <3>1, <3>3, <3>4, UnderTrans
    <3>6. QED
      BY <3>1, <3>5 DEF OmittedAtOrUnder
  <2>3. QED
    BY <1>3, <2>1, <2>2 DEF OmittedAtOrUnder
<1>9. QED
  BY <1>3, <1>7, <1>8 DEF Disposition

-----------------------------------------------------------------------------
(* The two signatures of a directory                                       *)

\* Two files lie at the same place under their directories and read the same.
Same(f, a, g, b) ==
    /\ Len(f) - Len(a) = Len(g) - Len(b)
    /\ \A k \in 1..(Len(f) - Len(a)) : f[Len(a) + k] = g[Len(b) + k]
    /\ Digest(f) = Digest(g)

\* Every file below a has its like below b.
Match(a, b) ==
    \A f \in walk.files : Under(f, a) => \E g \in walk.files : Under(g, b) /\ Same(f, a, g, b)

\* The rest of a path below a directory, component by component.
LEMMA SuffixIs ==
    ASSUME NEW f \in Paths, NEW a \in Paths, Under(f, a)
    PROVE  /\ SubSeq(f, Len(a) + 1, Len(f)) \in Paths
           /\ Len(SubSeq(f, Len(a) + 1, Len(f))) = Len(f) - Len(a)
           /\ Len(f) - Len(a) \in Nat
           /\ \A k \in 1..(Len(f) - Len(a)) : SubSeq(f, Len(a) + 1, Len(f))[k] = f[Len(a) + k]
<1>1. Len(f) \in Nat /\ Len(a) \in Nat /\ Len(a) <= Len(f)
  BY DEF Paths, Under
<1>2. Len(a) + 1 \in 1..(Len(f) + 1) /\ Len(f) \in ((Len(a) + 1) - 1)..Len(f)
  BY <1>1
<1>3. /\ SubSeq(f, Len(a) + 1, Len(f)) \in Seq(Nat)
      /\ Len(SubSeq(f, Len(a) + 1, Len(f))) = Len(f) - (Len(a) + 1) + 1
      /\ \A i \in 1..(Len(f) - (Len(a) + 1) + 1) : SubSeq(f, Len(a) + 1, Len(f))[i] = f[(Len(a) + 1) + i - 1]
  BY <1>2, SubSeqProperties DEF Paths
<1>4. \A k \in 1..(Len(f) - Len(a)) : SubSeq(f, Len(a) + 1, Len(f))[k] = f[Len(a) + k]
  <2> TAKE k \in 1..(Len(f) - Len(a))
  <2>1. k \in 1..(Len(f) - (Len(a) + 1) + 1) /\ (Len(a) + 1) + k - 1 = Len(a) + k
    BY <1>1
  <2>2. QED
    BY <1>3, <2>1
<1>5. Len(SubSeq(f, Len(a) + 1, Len(f))) = Len(f) - Len(a)
  BY <1>1, <1>3
<1>6. QED
  BY <1>1, <1>3, <1>4, <1>5 DEF Paths

\* Two files look alike below two directories: the same relative path and the same digest.
LEMMA SuffixSame ==
    ASSUME NEW f \in Paths, NEW a \in Paths, NEW g \in Paths, NEW b \in Paths, Under(f, a), Under(g, b)
    PROVE  <<SubSeq(f, Len(a) + 1, Len(f)), Digest(f)>> = <<SubSeq(g, Len(b) + 1, Len(g)), Digest(g)>>
               <=> Same(f, a, g, b)
<1> DEFINE s == SubSeq(f, Len(a) + 1, Len(f))
           t == SubSeq(g, Len(b) + 1, Len(g))
<1>1. /\ s \in Paths /\ Len(s) = Len(f) - Len(a)
      /\ \A k \in 1..(Len(f) - Len(a)) : s[k] = f[Len(a) + k]
  BY SuffixIs
<1>2. /\ t \in Paths /\ Len(t) = Len(g) - Len(b)
      /\ \A k \in 1..(Len(g) - Len(b)) : t[k] = g[Len(b) + k]
  BY SuffixIs
<1> HIDE DEF s, t
<1>3. s = t <=> Len(s) = Len(t) /\ \A k \in 1..Len(s) : s[k] = t[k]
  BY <1>1, <1>2, SamePath
<1>4. s = t <=> /\ Len(f) - Len(a) = Len(g) - Len(b)
                /\ \A k \in 1..(Len(f) - Len(a)) : f[Len(a) + k] = g[Len(b) + k]
  BY <1>1, <1>2, <1>3
<1>5. <<s, Digest(f)>> = <<t, Digest(g)>> <=> Same(f, a, g, b)
  BY <1>4 DEF Same
<1>6. QED
  BY <1>5 DEF s, t

\* Two whole-subtree signatures are equal exactly if each file below either has its like below the other.
LEMMA OldSame ==
    ASSUME Env, walk.files \subseteq Files, NEW a \in Dirs, NEW b \in Dirs
    PROVE  OldSignature(a) = OldSignature(b) <=> Match(a, b) /\ Match(b, a)
<1> DEFINE Row(f, d) == <<SubSeq(f, Len(d) + 1, Len(f)), Digest(f)>>
<1>1. walk.files \subseteq Paths /\ a \in Paths /\ b \in Paths
  BY EntryPaths, DirsAre
<1>2. ASSUME NEW d \in Dirs
      PROVE  \A x : x \in OldSignature(d) <=> \E f \in walk.files : Under(f, d) /\ x = Row(f, d)
  <2>1. \A f \in walk.files : d \in Accountable(f) <=> Under(f, d)
    BY DirsAre, AccountableIs
  <2>2. QED
    BY <2>1 DEF OldSignature
<1>3. \A f, g \in walk.files : Under(f, a) /\ Under(g, b) => (Row(f, a) = Row(g, b) <=> Same(f, a, g, b))
  BY <1>1, SuffixSame
<1>4. \A f, g \in walk.files : Under(f, a) /\ Under(g, b) => (Row(f, a) = Row(g, b) <=> Same(g, b, f, a))
  <2> TAKE f \in walk.files, g \in walk.files
  <2> HAVE Under(f, a) /\ Under(g, b)
  <2>1. Row(g, b) = Row(f, a) <=> Same(g, b, f, a)
    BY <1>1, SuffixSame
  <2>2. QED
    BY <2>1
<1> HIDE DEF Row
<1>5. OldSignature(a) \subseteq OldSignature(b) <=> Match(a, b)
  BY <1>2, <1>3 DEF Match
<1>6. OldSignature(b) \subseteq OldSignature(a) <=> Match(b, a)
  BY <1>2, <1>4 DEF Match
<1>7. QED
  BY <1>5, <1>6

\* Two children of one name: what matches under their parents matches under them.
LEMMA NameUnder ==
    ASSUME NEW f \in Paths, NEW c \in Paths, NEW a \in Paths, Direct(c, a), Under(f, c)
    PROVE  /\ Under(f, a) /\ Len(f) \in Nat /\ Len(a) \in Nat /\ Len(c) = Len(a) + 1 /\ Len(c) <= Len(f)
           /\ f[Len(a) + 1] = Name(c)
<1>1. Len(f) \in Nat /\ Len(a) \in Nat /\ Len(c) = Len(a) + 1 /\ Under(c, a)
  BY DEF Paths, Direct
<1>2. Under(f, a)
  BY <1>1, UnderTrans
<1>3. Len(c) <= Len(f) /\ \A i \in 1..Len(c) : f[i] = c[i]
  BY UnderIs
<1>4. QED
  BY <1>1, <1>2, <1>3 DEF Name

\* A file below a directory lies below the child its next component names.
LEMMA ChildHolds ==
    ASSUME NEW f \in Paths, NEW c \in Paths, NEW a \in Paths, Direct(c, a), Under(f, a),
           Len(c) <= Len(f), f[Len(a) + 1] = Name(c)
    PROVE  Under(f, c)
<1>1. Len(f) \in Nat /\ Len(a) \in Nat /\ Len(c) = Len(a) + 1 /\ Under(c, a)
  BY DEF Paths, Direct
<1>2. \A i \in 1..Len(a) : f[i] = a[i] /\ c[i] = a[i]
  BY <1>1, UnderIs
<1>3. ASSUME NEW i \in 1..Len(c)
      PROVE  f[i] = c[i]
  BY <1>1, <1>2 DEF Name
<1>4. QED
  BY <1>3, UnderIs

\* Files alike below two children of one name are alike below the parents.
LEMMA Ascend ==
    ASSUME NEW f \in Paths, NEW g \in Paths, NEW a \in Paths, NEW b \in Paths, NEW c \in Paths, NEW e \in Paths,
           Direct(c, a), Direct(e, b), Name(c) = Name(e), Under(f, c), Under(g, e), Same(f, c, g, e)
    PROVE  Same(f, a, g, b)
<1>1. /\ Len(f) \in Nat /\ Len(a) \in Nat /\ Len(c) = Len(a) + 1 /\ Len(c) <= Len(f)
      /\ Len(g) \in Nat /\ Len(b) \in Nat /\ Len(e) = Len(b) + 1 /\ Len(e) <= Len(g)
      /\ f[Len(a) + 1] = Name(c) /\ g[Len(b) + 1] = Name(e)
  BY NameUnder
<1>2. Len(f) - Len(a) = Len(g) - Len(b)
  BY <1>1 DEF Same
<1>3. ASSUME NEW k \in 1..(Len(f) - Len(a))
      PROVE  f[Len(a) + k] = g[Len(b) + k]
  <2>1. CASE k = 1
    BY <1>1, <2>1
  <2>2. CASE k # 1
    <3>1. k - 1 \in 1..(Len(f) - Len(c)) /\ Len(c) + (k - 1) = Len(a) + k /\ Len(e) + (k - 1) = Len(b) + k
      BY <1>1, <2>2
    <3>2. f[Len(c) + (k - 1)] = g[Len(e) + (k - 1)]
      BY <3>1 DEF Same
    <3>3. QED
      BY <3>1, <3>2
  <2>3. QED
    BY <2>1, <2>2
<1>4. QED
  BY <1>2, <1>3 DEF Same

\* Directories whose files match have children of one name whose files match.
LEMMA Descend ==
    ASSUME Env, walk.files \subseteq Files, NEW a \in Paths, NEW b \in Paths, NEW c \in Paths, NEW e \in Paths,
           Direct(c, a), Direct(e, b), Name(c) = Name(e), Match(a, b)
    PROVE  Match(c, e)
<1> SUFFICES ASSUME NEW f \in walk.files, Under(f, c)
             PROVE  \E g \in walk.files : Under(g, e) /\ Same(f, c, g, e)
  BY DEF Match
<1>1. f \in Paths
  BY EntryPaths
<1>2. /\ Under(f, a) /\ Len(f) \in Nat /\ Len(a) \in Nat /\ Len(c) = Len(a) + 1 /\ Len(c) <= Len(f)
      /\ f[Len(a) + 1] = Name(c)
  BY <1>1, NameUnder
<1>3. PICK g \in walk.files : Under(g, b) /\ Same(f, a, g, b)
  BY <1>2 DEF Match
<1>4. g \in Paths /\ Len(g) \in Nat /\ Len(b) \in Nat /\ Len(e) = Len(b) + 1
  BY EntryPaths DEF Paths, Direct
<1>5. Len(f) - Len(a) = Len(g) - Len(b)
  BY <1>3 DEF Same
<1>6. 1 \in 1..(Len(f) - Len(a)) /\ Len(e) <= Len(g)
  BY <1>2, <1>4, <1>5
<1>7. g[Len(b) + 1] = Name(e)
  BY <1>2, <1>3, <1>6 DEF Same
<1>8. Under(g, e)
  BY <1>3, <1>4, <1>6, <1>7, ChildHolds
<1>9. Len(f) - Len(c) = Len(g) - Len(e)
  BY <1>2, <1>4, <1>5
<1>10. ASSUME NEW k \in 1..(Len(f) - Len(c))
       PROVE  f[Len(c) + k] = g[Len(e) + k]
  <2>1. k + 1 \in 1..(Len(f) - Len(a)) /\ Len(a) + (k + 1) = Len(c) + k /\ Len(b) + (k + 1) = Len(e) + k
    BY <1>2, <1>4
  <2>2. f[Len(a) + (k + 1)] = g[Len(b) + (k + 1)]
    BY <1>3, <2>1 DEF Same
  <2>3. QED
    BY <2>1, <2>2
<1>11. QED
  BY <1>3, <1>8, <1>9, <1>10 DEF Same

\* The directories a build has written, and one it has all the children of.
Kin(E) ==
    /\ \A e \in E : e.path \in Dirs /\ \E S : e.sig = <<"dir", S>>
    /\ \A e, g \in E : e.sig = g.sig <=> OldSignature(e.path) = OldSignature(g.path)

\* S is what the frame of a whole directory d holds, given the records E.
Built(E, d, S) ==
    /\ S = {<<Name(f), Digest(f)>> : f \in {g \in walk.files : Direct(g, d)}}
             \cup {<<Name(e.path), e.sig>> : e \in {c \in E : Direct(c.path, d)}}
    /\ \A f \in walk.files : Under(f, d) => Digest(f) # None
    /\ \A c \in Dirs : Direct(c, d) => \E e \in E : e.path = c

\* The digest of a file is no signature of a directory.
LEMMA DigestIs ==
    ASSUME NEW f, Digest(f) # None
    PROVE  Digest(f) = <<world.content[f]>> /\ \A S : Digest(f) # <<"dir", S>>
<1>1. Digest(f) = <<world.content[f]>>
  BY DEF Digest
<1>2. ASSUME NEW S
      PROVE  <<world.content[f]>> # <<"dir", S>>
  OBVIOUS
<1>3. QED
  BY <1>1, <1>2

\* The child a file lies under, one step below a directory.
LEMMA ChildOf ==
    ASSUME Env, walk.files \subseteq Files, NEW a \in Dirs, NEW f \in walk.files, Under(f, a), Len(f) # Len(a) + 1
    PROVE  \E c \in Dirs : /\ Direct(c, a) /\ Under(f, c) /\ c \in Paths
                           /\ Name(c) = f[Len(a) + 1]
<1> DEFINE n == Len(a) + 1
           c == SubSeq(f, 1, n)
<1>1. f \in Files /\ f \in Paths /\ a \in Paths /\ Len(a) \in Nat /\ Len(f) \in Nat
  BY LowIs, DirsAre
<1>2. Len(a) < Len(f)
  BY <1>1, DirsAre, AccountableIs
<1>3. n \in Nat /\ Len(a) <= n /\ n < Len(f)
  BY <1>1, <1>2
<1>4. c \in Dirs /\ Len(c) = n /\ Under(f, c) /\ Under(c, a)
  BY <1>3, Between
<1>5. n \in 0..Len(f) /\ n \in 1..n
  BY <1>1, <1>3
<1>6. c[n] = f[n]
  BY <1>1, <1>5, CutIs
<1>7. c \in Paths
  BY <1>4, DirsAre
<1>8. QED
  BY <1>4, <1>6, <1>7 DEF Direct, Name

\* Signatures that agree have subtrees that match, if those of their children do.
LEMMA EntriesMatch ==
    ASSUME Env, walk.files \subseteq Files, NEW E, Kin(E), NEW a \in Dirs, NEW b \in Dirs,
           NEW S, NEW T, Built(E, a, S), Built(E, b, T), S \subseteq T
    PROVE  Match(a, b)
<1> SUFFICES ASSUME NEW f \in walk.files, Under(f, a)
             PROVE  \E g \in walk.files : Under(g, b) /\ Same(f, a, g, b)
  BY DEF Match
<1>1. f \in Paths /\ Len(f) \in Nat /\ a \in Paths /\ Len(a) \in Nat /\ b \in Paths /\ Len(b) \in Nat
  BY LowIs, DirsAre
<1>2. Digest(f) # None
  BY DEF Built
<1>3. CASE Len(f) = Len(a) + 1
  <2>1. Direct(f, a)
    BY <1>3 DEF Direct
  <2>2. <<Name(f), Digest(f)>> \in T
    BY <2>1 DEF Built
  <2>3. CASE \E g \in walk.files : Direct(g, b) /\ <<Name(f), Digest(f)>> = <<Name(g), Digest(g)>>
    <3>1. PICK g \in walk.files : Direct(g, b) /\ Name(f) = Name(g) /\ Digest(f) = Digest(g)
      BY <2>3
    <3>2. Under(g, b) /\ Len(g) = Len(b) + 1
      BY <3>1 DEF Direct
    <3>3. Len(f) - Len(a) = 1 /\ Len(g) - Len(b) = 1
      BY <1>1, <1>3, <3>2
    <3>4. f[Len(a) + 1] = g[Len(b) + 1]
      BY <1>3, <3>1, <3>2 DEF Name
    <3>5. \A k \in 1..1 : f[Len(a) + k] = g[Len(b) + k]
      BY <3>4
    <3>6. Same(f, a, g, b)
      BY <3>1, <3>3, <3>5 DEF Same
    <3>7. QED
      BY <3>2, <3>6
  <2>4. CASE \E e \in E : <<Name(f), Digest(f)>> = <<Name(e.path), e.sig>>
    <3>1. PICK e \in E : Digest(f) = e.sig
      BY <2>4
    <3>2. QED
      BY <1>2, <3>1, DigestIs DEF Kin
  <2>5. QED
    BY <2>2, <2>3, <2>4 DEF Built
<1>4. CASE Len(f) # Len(a) + 1
  <2>1. PICK c \in Dirs : Direct(c, a) /\ Under(f, c) /\ c \in Paths
    BY <1>4, ChildOf
  <2>2. PICK e \in E : e.path = c
    BY <2>1 DEF Built
  <2>3. <<Name(c), e.sig>> \in S
    BY <2>1, <2>2 DEF Built
  <2>4. <<Name(c), e.sig>> \in T
    BY <2>3
  <2>5. CASE \E g \in walk.files : Direct(g, b) /\ <<Name(c), e.sig>> = <<Name(g), Digest(g)>>
    <3>1. PICK g \in walk.files : Direct(g, b) /\ e.sig = Digest(g)
      BY <2>5
    <3>2. Digest(g) # None
      BY <3>1 DEF Built, Direct
    <3>3. QED
      BY <3>1, <3>2, DigestIs DEF Kin
  <2>6. CASE \E h \in E : Direct(h.path, b) /\ <<Name(c), e.sig>> = <<Name(h.path), h.sig>>
    <3>1. PICK h \in E : Direct(h.path, b) /\ Name(c) = Name(h.path) /\ e.sig = h.sig
      BY <2>6
    <3>2. h.path \in Dirs /\ h.path \in Paths /\ OldSignature(c) = OldSignature(h.path)
      BY <2>2, <3>1, DirsAre DEF Kin
    <3>3. Match(c, h.path)
      BY <3>2, OldSame
    <3>4. PICK g \in walk.files : Under(g, h.path) /\ Same(f, c, g, h.path)
      BY <2>1, <3>3 DEF Match
    <3>5. g \in Paths
      BY EntryPaths
    <3>6. Under(g, b)
      BY <1>1, <3>1, <3>2, <3>4, <3>5, NameUnder
    <3>7. Same(f, a, g, b)
      BY <1>1, <2>1, <3>1, <3>2, <3>4, <3>5, Ascend
    <3>8. QED
      BY <3>6, <3>7
  <2>7. QED
    BY <2>4, <2>5, <2>6 DEF Built
<1>5. QED
  BY <1>3, <1>4

\* Subtrees that match have signatures that agree, if those of their children do.
LEMMA MatchEntries ==
    ASSUME Env, walk.files \subseteq Files, NEW E, Kin(E), NEW a \in Dirs, NEW b \in Dirs,
           NEW S, NEW T, Built(E, a, S), Built(E, b, T), Match(a, b), Match(b, a)
    PROVE  S \subseteq T
<1> SUFFICES ASSUME NEW x \in S
             PROVE  x \in T
  OBVIOUS
<1>1. a \in Paths /\ Len(a) \in Nat /\ b \in Paths /\ Len(b) \in Nat
  BY DirsAre
<1>2. CASE \E f \in walk.files : Direct(f, a) /\ x = <<Name(f), Digest(f)>>
  <2>1. PICK f \in walk.files : Direct(f, a) /\ x = <<Name(f), Digest(f)>>
    BY <1>2
  <2>2. f \in Paths /\ Len(f) \in Nat /\ Under(f, a) /\ Len(f) = Len(a) + 1
    BY <2>1, LowIs DEF Direct
  <2>3. PICK g \in walk.files : Under(g, b) /\ Same(f, a, g, b)
    BY <2>2 DEF Match
  <2>4. g \in Paths /\ Len(g) \in Nat
    BY LowIs
  <2>5. Len(f) - Len(a) = 1 /\ Len(f) - Len(a) = Len(g) - Len(b)
    BY <1>1, <2>2, <2>3 DEF Same
  <2>6. Len(g) = Len(b) + 1 /\ 1 \in 1..(Len(f) - Len(a))
    BY <1>1, <2>4, <2>5
  <2>7. Name(f) = Name(g) /\ Digest(f) = Digest(g)
    BY <2>2, <2>3, <2>6 DEF Same, Name
  <2>8. Direct(g, b)
    BY <2>3, <2>6 DEF Direct
  <2>9. QED
    BY <2>1, <2>7, <2>8 DEF Built
<1>3. CASE \E e \in E : Direct(e.path, a) /\ x = <<Name(e.path), e.sig>>
  <2>1. PICK e \in E : Direct(e.path, a) /\ x = <<Name(e.path), e.sig>>
    BY <1>3
  <2> DEFINE c == e.path
  <2>2. c \in Dirs /\ c \in Paths
    BY DirsAre DEF Kin
  <2>3. PICK f \in walk.files : c \in Accountable(f)
    BY <2>2 DEF Dirs
  <2>4. f \in Paths /\ Under(f, c) /\ Len(c) < Len(f)
    BY <2>3, LowIs, AccountableIs
  <2>5. Under(f, a) /\ Len(f) \in Nat /\ Len(c) = Len(a) + 1 /\ f[Len(a) + 1] = Name(c)
    BY <1>1, <2>1, <2>2, <2>4, NameUnder
  <2>6. PICK g \in walk.files : Under(g, b) /\ Same(f, a, g, b)
    BY <2>5 DEF Match
  <2>7. g \in Paths /\ Len(g) \in Nat /\ Len(f) - Len(a) = Len(g) - Len(b)
    BY <2>6, LowIs DEF Same
  <2>8. Len(g) # Len(b) + 1 /\ 1 \in 1..(Len(f) - Len(a))
    BY <1>1, <2>4, <2>5, <2>7
  <2>9. PICK h \in Dirs : Direct(h, b) /\ Under(g, h) /\ h \in Paths /\ Name(h) = g[Len(b) + 1]
    BY <2>6, <2>8, ChildOf
  <2>10. Name(c) = Name(h)
    BY <2>5, <2>6, <2>8, <2>9 DEF Same
  <2>11. Match(c, h) /\ Match(h, c)
    BY <1>1, <2>1, <2>2, <2>9, <2>10, Descend
  <2>12. OldSignature(c) = OldSignature(h)
    BY <2>2, <2>11, OldSame
  <2>13. PICK k \in E : k.path = h
    BY <2>9 DEF Built
  <2>14. e.sig = k.sig
    BY <2>12, <2>13 DEF Kin
  <2>15. QED
    BY <2>1, <2>9, <2>10, <2>13, <2>14 DEF Built
<1>4. QED
  BY <1>2, <1>3 DEF Built

\* One level of signatures built on right ones tells the same as the whole subtree.
LEMMA TwinsMatch ==
    ASSUME Env, walk.files \subseteq Files, NEW E, Kin(E), NEW a \in Dirs, NEW b \in Dirs,
           NEW S, NEW T, Built(E, a, S), Built(E, b, T)
    PROVE  S = T <=> OldSignature(a) = OldSignature(b)
<1>1. S = T => Match(a, b) /\ Match(b, a)
  BY EntriesMatch
<1>2. Match(a, b) /\ Match(b, a) => S \subseteq T /\ T \subseteq S
  BY MatchEntries
<1>3. QED
  BY <1>1, <1>2, OldSame

-----------------------------------------------------------------------------
(* The stack                                                               *)

\* A stack of no frames is the empty one.
LEMMA NoFrame ==
    ASSUME NEW t, Sequenced(t)
    PROVE  Len(t) = 0 <=> t = <<>>
<1>1. Len(t) = 0 => t = <<>>
  <2>1. Len(t) = 0 => t = [i \in 1..0 |-> t[i]]
    BY DEF Sequenced
  <2>2. 1..0 = {}
    OBVIOUS
  <2>3. QED
    BY <2>1, <2>2
<1>2. QED
  BY <1>1

\* Sequences of whatever elements.
LEMMA SequencedIs ==
    ASSUME NEW t
    PROVE  /\ Sequenced(t) => t \in Seq({t[i] : i \in 1..Len(t)})
           /\ \A S : t \in Seq(S) => Sequenced(t)
<1>1. ASSUME Sequenced(t)
      PROVE  t \in Seq({t[i] : i \in 1..Len(t)})
  <2> DEFINE S == {t[i] : i \in 1..Len(t)}
  <2>1. Len(t) \in Nat /\ t = [i \in 1..Len(t) |-> t[i]]
    BY <1>1 DEF Sequenced
  <2>2. [i \in 1..Len(t) |-> t[i]] \in [1..Len(t) -> S]
    OBVIOUS
  <2>3. t \in [1..Len(t) -> S]
    BY <2>1, <2>2
  <2> HIDE DEF S
  <2>4. t \in Seq(S)
    BY <2>1, <2>3, SeqDef
  <2>5. QED
    BY <2>4 DEF S
<1>2. ASSUME NEW S, t \in Seq(S)
      PROVE  Sequenced(t)
  <2>1. Len(t) \in Nat /\ t \in [1..Len(t) -> S]
    BY <1>2, LenProperties
  <2>2. t = [i \in 1..Len(t) |-> t[i]]
    BY <2>1
  <2>3. QED
    BY <2>1, <2>2 DEF Sequenced
<1>3. QED
  BY <1>1, <1>2

\* The stack without its top, with another top, and with frames on top.
LEMMA Shorter ==
    ASSUME NEW t, Sequenced(t), Len(t) # 0
    PROVE  /\ Sequenced(SubSeq(t, 1, Len(t) - 1))
           /\ Len(SubSeq(t, 1, Len(t) - 1)) = Len(t) - 1
           /\ \A i \in 1..(Len(t) - 1) : SubSeq(t, 1, Len(t) - 1)[i] = t[i]
<1> DEFINE S == {t[i] : i \in 1..Len(t)}
           n == Len(t) - 1
           u == SubSeq(t, 1, n)
<1>1. Len(t) \in Nat /\ n \in Nat /\ \A i \in 1..n : t[i] \in S
  BY DEF Sequenced
<1>2. u \in Seq(S) /\ Len(u) = IF 1 <= n THEN n - 1 + 1 ELSE 0
  BY <1>1, SubSeqProperties
<1>3. \A i \in 1..(n - 1 + 1) : u[i] = t[1 + i - 1]
  BY <1>1, SubSeqProperties
<1>4. \A i \in 1..n : i \in 1..(n - 1 + 1) /\ 1 + i - 1 = i
  BY <1>1
<1>5. \A i \in 1..n : u[i] = t[i]
  BY <1>3, <1>4
<1> HIDE DEF u, S
<1>6. Len(u) = n
  <2>1. Len(u) = IF 1 <= n THEN n - 1 + 1 ELSE 0
    BY <1>2
  <2>2. n \in Nat
    BY <1>1
  <2> HIDE DEF n
  <2>3. QED
    BY <2>1, <2>2
<1>7. Sequenced(u)
  BY <1>2, SequencedIs
<1>8. QED
  BY <1>5, <1>6, <1>7 DEF u

\* A stack with one frame changed.
LEMMA OtherTop ==
    ASSUME NEW t, Sequenced(t), NEW n \in 1..Len(t), NEW x, NEW u, u = [t EXCEPT ![n] = x]
    PROVE  /\ Sequenced(u)
           /\ Len(u) = Len(t)
           /\ \A i \in 1..Len(t) : u[i] = IF i = n THEN x ELSE t[i]
<1> DEFINE S == {t[i] : i \in 1..Len(t)}
           T == S \cup {x}
<1>1. t \in Seq(S)
  BY SequencedIs
<1>2. t \in Seq(T)
  BY <1>1, SeqMonotonic
<1>3. u \in Seq(T) /\ Len(u) = Len(t) /\ \A i \in 1..Len(t) : u[i] = IF i = n THEN x ELSE t[i]
  BY <1>2, ExceptSeq
<1> HIDE DEF T
<1>4. Sequenced(u)
  BY <1>3, SequencedIs
<1>5. QED
  BY <1>3, <1>4

\* A stack with frames pushed on it.
LEMMA Longer ==
    ASSUME NEW t, Sequenced(t), NEW v, Sequenced(v)
    PROVE  /\ Sequenced(t \o v)
           /\ Len(t \o v) = Len(t) + Len(v)
           /\ \A i \in 1..(Len(t) + Len(v)) : (t \o v)[i] = IF i <= Len(t) THEN t[i] ELSE v[i - Len(t)]
<1> DEFINE S == {t[i] : i \in 1..Len(t)}
           U == {v[i] : i \in 1..Len(v)}
           T == S \cup U
<1>1. t \in Seq(S) /\ v \in Seq(U)
  BY SequencedIs
<1>2. t \in Seq(T) /\ v \in Seq(T)
  BY <1>1, SeqMonotonic
<1> HIDE DEF T
<1>3. /\ t \o v \in Seq(T) /\ Len(t \o v) = Len(t) + Len(v)
      /\ \A i \in 1..(Len(t) + Len(v)) : (t \o v)[i] = IF i <= Len(t) THEN t[i] ELSE v[i - Len(t)]
  BY <1>2, ConcatProperties
<1>4. Sequenced(t \o v)
  BY <1>3, SequencedIs
<1>5. QED
  BY <1>3, <1>4

\* The frames are the ancestors of one file already handed over, outermost first.
LEMMA StackIs ==
    ASSUME Env, WalkInv(walk), NEW s, Phased(s), Chain(s), Len(s.stack) # 0
    PROVE  \E q \in Handed(s) :
              /\ q \in walk.files /\ q \in Paths /\ Len(q) \in Nat /\ Low(q) \in Nat
              /\ Low(q) + Len(s.stack) <= Len(q)
              /\ \A i \in 1..Len(s.stack) :
                    /\ s.stack[i].path = SubSeq(q, 1, Low(q) + i - 1)
                    /\ s.stack[i].path \in Dirs
                    /\ s.stack[i].path \in Accountable(q)
                    /\ Under(q, s.stack[i].path)
                    /\ Len(s.stack[i].path) = Low(q) + i - 1
<1>1. PICK q \in Handed(s) :
          /\ Low(q) + Len(s.stack) <= Len(q)
          /\ \A i \in 1..Len(s.stack) : s.stack[i].path = SubSeq(q, 1, Low(q) + i - 1)
  BY DEF Chain
<1>2. q \in walk.files /\ walk.files \subseteq Files /\ Len(s.stack) \in Nat
  BY <1>1 DEF Handed, WalkInv, WalkStates, Chain, Sequenced
<1>3. q \in Files /\ q \in Paths /\ Len(q) \in Nat /\ Low(q) \in Nat
  BY <1>2, LowIs
<1>4. ASSUME NEW i \in 1..Len(s.stack)
      PROVE  /\ s.stack[i].path \in Dirs
             /\ s.stack[i].path \in Accountable(q)
             /\ Under(q, s.stack[i].path)
             /\ Len(s.stack[i].path) = Low(q) + i - 1
  <2> DEFINE n == Low(q) + i - 1
             d == SubSeq(q, 1, n)
  <2>1. n \in 0..Len(q) /\ Low(q) <= n /\ n < Len(q)
    BY <1>1, <1>2, <1>3
  <2>2. d \in Paths /\ Len(d) = n /\ Under(q, d)
    BY <1>3, <2>1, CutIs, UnderCut
  <2>3. s.stack[i].path = d
    BY <1>1
  <2> HIDE DEF d
  <2>4. d \in Accountable(q)
    BY <1>3, <2>1, <2>2, AccountableIs
  <2>5. d \in Dirs
    BY <1>2, <2>4 DEF Dirs
  <2>6. QED
    BY <2>2, <2>3, <2>4, <2>5
<1>5. QED
  BY <1>1, <1>2, <1>3, <1>4

\* What a frame's directory lies in has a frame too.
LEMMA NothingHangs ==
    ASSUME Env, WalkInv(walk), NEW s, Phased(s), Chain(s), NEW d \in OnStack(s), NEW e \in Dirs, Under(d, e)
    PROVE  e \in OnStack(s)
<1>1. PICK i \in 1..Len(s.stack) : d = s.stack[i].path
  BY DEF OnStack
<1>2. Len(s.stack) \in Nat /\ Len(s.stack) # 0 /\ walk.files \subseteq Files
  BY <1>1 DEF Chain, Sequenced, WalkInv, WalkStates
<1>3. PICK q \in Handed(s) :
              /\ q \in walk.files /\ q \in Paths /\ Len(q) \in Nat /\ Low(q) \in Nat
              /\ Low(q) + Len(s.stack) <= Len(q)
              /\ \A j \in 1..Len(s.stack) :
                    /\ s.stack[j].path = SubSeq(q, 1, Low(q) + j - 1)
                    /\ s.stack[j].path \in Dirs
                    /\ s.stack[j].path \in Accountable(q)
                    /\ Under(q, s.stack[j].path)
                    /\ Len(s.stack[j].path) = Low(q) + j - 1
  BY <1>2, StackIs
<1>4. e \in Paths /\ d \in Paths /\ Len(e) \in Nat
  BY <1>1, <1>2, <1>3, DirsAre
<1>5. Under(q, e)
  BY <1>1, <1>3, <1>4, UnderTrans
<1>6. Low(q) <= Len(e)
  BY <1>2, <1>3, <1>5, DirsAre, AccountableIs
<1>7. Len(e) <= Low(q) + i - 1
  BY <1>1, <1>3 DEF Under
<1> DEFINE j == Len(e) - Low(q) + 1
<1>8. j \in 1..Len(s.stack) /\ Low(q) + j - 1 = Len(e)
  BY <1>2, <1>3, <1>4, <1>6, <1>7
<1>9. s.stack[j].path = e
  BY <1>3, <1>5, <1>8 DEF Under
<1>10. QED
  BY <1>8, <1>9 DEF OnStack

\* Between two files of one directory comes nothing but its files.
LEMMA BetweenFiles ==
    ASSUME NEW f \in Paths, NEW g \in Paths, NEW h \in Paths, NEW d \in Paths,
           Before(Ok(f), Ok(g)), Before(Ok(g), Ok(h)), Under(f, d), Under(h, d)
    PROVE  Under(g, d)
<1>1. /\ Ok(f) \in AnyItem /\ Ok(g) \in AnyItem /\ Ok(h) \in AnyItem
      /\ Ok(f).path = f /\ Ok(g).path = g /\ Ok(h).path = h /\ Ok(f).kind = "ok"
  BY DEF AnyItem, Ok
<1>2. QED
  BY <1>1, Convex

\* A frame that closes has nothing left below it.
LEMMA ClosingIs ==
    ASSUME Env, WalkInv(walk), GroupInv(sign), Closing
    PROVE  /\ Len(sign.stack) \in Nat /\ Len(sign.stack) # 0 /\ Top.path \in Dirs
           /\ \E q \in Handed(sign) : Under(q, Top.path)
           /\ \A f \in sign.todo : ~Under(f, Top.path)
<1>1. Len(sign.stack) \in Nat /\ Phased(sign) /\ Chain(sign)
  BY DEF GroupInv, Chain, Sequenced
<1>2. Len(sign.stack) # 0
  BY <1>1, NoFrame DEF Chain, Closing
<1>3. PICK q \in Handed(sign) :
              /\ q \in walk.files /\ q \in Paths
              /\ \A j \in 1..Len(sign.stack) : sign.stack[j].path \in Dirs /\ Under(q, sign.stack[j].path)
  BY <1>1, <1>2, StackIs
<1>4. Len(sign.stack) \in 1..Len(sign.stack)
  BY <1>1, <1>2
<1>5. Top.path \in Dirs /\ Under(q, Top.path)
  BY <1>3, <1>4 DEF Top
<1>6. ASSUME NEW f \in sign.todo, Under(f, Top.path)
      PROVE  FALSE
  <2>1. PICK g \in sign.todo : NextFile(g) /\ ~Under(g, Top.path)
    BY <1>6 DEF Closing
  <2>2. sign.phase # "idle"
    BY DEF Closing
  <2>3. walk.files \subseteq Paths /\ sign.todo \subseteq walk.files /\ Top.path \in Paths
    BY <1>1, <1>5, <2>2, DirsAre, EntryPaths DEF Phased, WalkInv, WalkStates
  <2>4. Before(Ok(q), Ok(g)) /\ q \in Paths
    BY <1>1, <1>3, <2>1 DEF Phased
  <2>5. Before(Ok(g), Ok(f))
    BY <1>6, <2>1 DEF NextFile, Ok
  <2>6. QED
    BY <1>5, <1>6, <2>1, <2>3, <2>4, <2>5, BetweenFiles
<1>7. QED
  BY <1>1, <1>2, <1>5, <1>6

-----------------------------------------------------------------------------
(* A frame closes                                                          *)

\* The fields of a frame.
LEMMA FrameExcept ==
    ASSUME NEW x, x = [path |-> x.path, entries |-> x.entries, incomplete |-> x.incomplete], NEW S, NEW v
    PROVE  /\ [x EXCEPT !.entries = S] = [path |-> x.path, entries |-> S, incomplete |-> x.incomplete]
           /\ [x EXCEPT !.incomplete = v] = [path |-> x.path, entries |-> x.entries, incomplete |-> v]
OBVIOUS

\* The number of frames.
Depth == Len(sign.stack)

\* What the parent's frame and the output become when the top frame closes.
Told(top) ==
    IF Emittable(Top)
    THEN [path |-> top.path, entries |-> top.entries \cup {<<Name(Top.path), SignatureOf(Top)>>},
          incomplete |-> top.incomplete]
    ELSE [path |-> top.path, entries |-> top.entries, incomplete |-> TRUE]

\* The record a closing frame may leave.
NewRecord == [path |-> Top.path, sig |-> SignatureOf(Top), trust |-> Disposition(Top.path)]

\* What the parent of a closed frame learns, as a change of the top frame.
LEMMA TellIs ==
    ASSUME NEW rest, Sequenced(rest), Len(rest) # 0,
           rest[Len(rest)] = [path |-> rest[Len(rest)].path, entries |-> rest[Len(rest)].entries,
                              incomplete |-> rest[Len(rest)].incomplete]
    PROVE  TellParent(rest, Top) = [rest EXCEPT ![Len(rest)] = Told(rest[Len(rest)])]
<1> DEFINE n == Len(rest)
           x == rest[n]
           S == x.entries \cup {<<Name(Top.path), SignatureOf(Top)>>}
<1>1. rest # <<>>
  BY NoFrame
<1>2. [x EXCEPT !.entries = S] = [path |-> x.path, entries |-> S, incomplete |-> x.incomplete]
  BY FrameExcept
<1>3. [x EXCEPT !.incomplete = TRUE] = [path |-> x.path, entries |-> x.entries, incomplete |-> TRUE]
  BY FrameExcept
<1>4. CASE Emittable(Top)
  <2>1. TellParent(rest, Top) = [rest EXCEPT ![n] = [x EXCEPT !.entries = S]]
    BY <1>1, <1>4 DEF TellParent, Name
  <2>2. Told(x) = [path |-> x.path, entries |-> S, incomplete |-> x.incomplete]
    BY <1>4 DEF Told
  <2>3. QED
    BY <1>2, <2>1, <2>2
<1>5. CASE ~Emittable(Top)
  <2>1. TellParent(rest, Top) = [rest EXCEPT ![n] = [x EXCEPT !.incomplete = TRUE]]
    BY <1>1, <1>5 DEF TellParent
  <2>2. Told(x) = [path |-> x.path, entries |-> x.entries, incomplete |-> TRUE]
    BY <1>5 DEF Told
  <2>3. QED
    BY <1>3, <2>1, <2>2
<1>6. QED
  BY <1>4, <1>5

\* What closing a frame does to the stack and to the records.
LEMMA CloseIs ==
    ASSUME Env, WalkInv(walk), GroupInv(sign), CloseFrame
    PROVE  /\ sign' = [phase |-> sign'.phase, todo |-> sign'.todo, stack |-> sign'.stack, emitted |-> sign'.emitted]
           /\ sign'.phase = sign.phase /\ sign'.todo = sign.todo /\ sign.phase = "streaming"
           /\ sign'.emitted = IF Emittable(Top) THEN sign.emitted \cup {NewRecord} ELSE sign.emitted
           /\ Sequenced(sign'.stack) /\ Len(sign'.stack) = Depth - 1
           /\ \A i \in 1..(Depth - 1) : sign'.stack[i].path = sign.stack[i].path
           /\ \A i \in 1..(Depth - 1) :
                 sign'.stack[i] = IF i = Depth - 1 THEN Told(sign.stack[i]) ELSE sign.stack[i]
<1> DEFINE rest == SubSeq(sign.stack, 1, Len(sign.stack) - 1)
           told == TellParent(rest, Top)
           sent == IF Emittable(Top) THEN sign.emitted \cup {NewRecord} ELSE sign.emitted
<1>1. Closing /\ sign' = [sign EXCEPT !.stack = told, !.emitted = sent]
  BY DEF CloseFrame, NewRecord
<1>2. Depth \in Nat /\ Depth # 0 /\ Sequenced(sign.stack) /\ sign.phase = "streaming"
  BY <1>1, ClosingIs DEF GroupInv, Chain, Depth, Closing
<1>3. sign = [phase |-> sign.phase, todo |-> sign.todo, stack |-> sign.stack, emitted |-> sign.emitted]
  BY DEF GroupInv, Phased
<1>4. Sequenced(rest) /\ Len(rest) = Depth - 1 /\ \A i \in 1..(Depth - 1) : rest[i] = sign.stack[i]
  BY <1>2, Shorter DEF Depth
<1>5. \A i \in 1..(Depth - 1) : FrameIs(sign, rest[i])
  <2> TAKE i \in 1..(Depth - 1)
  <2>1. i \in 1..Len(sign.stack)
    BY <1>2 DEF Depth
  <2>2. QED
    BY <1>4, <2>1 DEF GroupInv
<1> HIDE DEF rest
<1>6. /\ Sequenced(told) /\ Len(told) = Depth - 1
      /\ \A i \in 1..(Depth - 1) : told[i] = IF i = Depth - 1 THEN Told(rest[i]) ELSE rest[i]
  <2>1. CASE Len(rest) = 0
    <3>1. rest = <<>> /\ 1..(Depth - 1) = {}
      BY <1>2, <1>4, <2>1, NoFrame
    <3>2. told = rest
      BY <3>1 DEF TellParent
    <3>3. QED
      BY <1>4, <3>1, <3>2
  <2>2. CASE Len(rest) # 0
    <3>1. Len(rest) \in 1..Len(rest)
      BY <1>2, <1>4, <2>2
    <3>2. FrameIs(sign, rest[Len(rest)])
      BY <1>4, <1>5, <3>1
    <3>3. told = [rest EXCEPT ![Len(rest)] = Told(rest[Len(rest)])]
      BY <1>4, <2>2, <3>2, TellIs DEF FrameIs
    <3> HIDE DEF told
    <3> DEFINE new == Told(rest[Len(rest)])
    <3> HIDE DEF new
    <3>4. told = [rest EXCEPT ![Len(rest)] = new]
      BY <3>3 DEF new
    <3> DEFINE m == Len(rest)
    <3>5. m \in 1..Len(rest) /\ told = [rest EXCEPT ![m] = new] /\ Sequenced(rest)
      BY <1>4, <3>1, <3>4
    <3> HIDE DEF m
    <3>6. Sequenced(told)
      BY <3>5, OtherTop
    <3>7. Len(told) = Len(rest)
      BY <3>5, OtherTop
    <3>8. \A i \in 1..Len(rest) : told[i] = IF i = m THEN new ELSE rest[i]
      BY <3>5, OtherTop
    <3>9. /\ Sequenced(told) /\ Len(told) = Len(rest)
          /\ \A i \in 1..Len(rest) : told[i] = IF i = Len(rest) THEN new ELSE rest[i]
      BY <3>6, <3>7, <3>8 DEF m
    <3>10. QED
      BY <1>4, <3>9 DEF new
  <2>3. QED
    BY <2>1, <2>2
<1>7. \A x : Told(x).path = x.path
  BY DEF Told
<1> HIDE DEF told, sent
<1>8. sign' = [phase |-> sign.phase, todo |-> sign.todo, stack |-> told, emitted |-> sent]
  BY <1>1, <1>3
<1>9. sign'.phase = sign.phase /\ sign'.todo = sign.todo /\ sign'.stack = told /\ sign'.emitted = sent
  BY <1>8
<1>10. \A i \in 1..(Depth - 1) : told[i] = IF i = Depth - 1 THEN Told(sign.stack[i]) ELSE sign.stack[i]
  BY <1>4, <1>6
<1>11. \A i \in 1..(Depth - 1) : told[i].path = sign.stack[i].path
  BY <1>7, <1>10
<1>12. QED
  BY <1>2, <1>6, <1>8, <1>9, <1>10, <1>11 DEF sent

\* The directory of a closed frame joins the closed ones; nothing else changes place.
LEMMA CloseMoves ==
    ASSUME Env, WalkInv(walk), GroupInv(sign), CloseFrame
    PROVE  /\ Top.path \in OnStack(sign) /\ Top.path \in Dirs /\ Top.path \notin Closed(sign)
           /\ Handed(sign') = Handed(sign)
           /\ OnStack(sign') = OnStack(sign) \ {Top.path}
           /\ Closed(sign') = Closed(sign) \cup {Top.path}
<1> DEFINE N == Len(sign.stack)
           d == Top.path
<1>1. Closing /\ Phased(sign) /\ Chain(sign)
  BY DEF CloseFrame, GroupInv
<1>2. N \in Nat /\ N # 0 /\ d \in Dirs /\ \E q \in Handed(sign) : Under(q, d)
  BY <1>1, ClosingIs
<1>3. N \in 1..N /\ d = sign.stack[N].path
  BY <1>2 DEF Top
<1>4. d \in OnStack(sign)
  BY <1>3 DEF OnStack
<1>5. Handed(sign') = Handed(sign)
  <2>1. sign'.phase = sign.phase /\ sign'.todo = sign.todo
    BY CloseIs
  <2>2. QED
    BY <2>1 DEF Handed
<1>6. Len(sign'.stack) = N - 1 /\ \A i \in 1..(N - 1) : sign'.stack[i].path = sign.stack[i].path
  BY CloseIs DEF Depth
<1>7. PICK q \in Handed(sign) :
              /\ Low(q) \in Nat
              /\ \A j \in 1..Len(sign.stack) : Len(sign.stack[j].path) = Low(q) + j - 1
  BY <1>1, <1>2, StackIs
<1>8. \A i \in 1..(N - 1) : i \in 1..N /\ Len(sign.stack[i].path) # Len(d)
  <2>1. Len(d) = Low(q) + N - 1
    BY <1>3, <1>7
  <2> TAKE i \in 1..(N - 1)
  <2>2. i \in 1..N /\ i # N
    BY <1>2
  <2>3. Len(sign.stack[i].path) = Low(q) + i - 1
    BY <1>7, <2>2
  <2>4. QED
    BY <1>2, <1>7, <2>1, <2>2, <2>3
<1>9. \A i \in 1..N : i = N \/ i \in 1..(N - 1)
  BY <1>2
<1>10. OnStack(sign') = OnStack(sign) \ {d}
  BY <1>3, <1>6, <1>8, <1>9 DEF OnStack
<1>11. QED
  BY <1>2, <1>4, <1>5, <1>10 DEF Closed

\* The top of the stack is the deepest directory on it, and lies in the one below.
LEMMA TopIs ==
    ASSUME Env, WalkInv(walk), GroupInv(sign), Closing
    PROVE  /\ Top.path \in Paths /\ Top.path \in Dirs /\ FrameIs(sign, Top)
           /\ \A c \in OnStack(sign) : Len(c) <= Len(Top.path)
           /\ \A i \in 1..(Depth - 1) : /\ sign.stack[i].path \in Dirs
                                        /\ Direct(Top.path, sign.stack[i].path) <=> i = Depth - 1
<1>1. Phased(sign) /\ Chain(sign) /\ walk.files \subseteq Files
  BY DEF GroupInv, WalkInv, WalkStates
<1>2. Depth \in Nat /\ Depth # 0 /\ Depth = Len(sign.stack) /\ Depth \in 1..Depth
  BY ClosingIs DEF Depth
<1>3. PICK q \in Handed(sign) :
              /\ q \in walk.files /\ q \in Paths /\ Len(q) \in Nat /\ Low(q) \in Nat
              /\ \A i \in 1..Len(sign.stack) :
                    /\ sign.stack[i].path \in Dirs
                    /\ Under(q, sign.stack[i].path)
                    /\ Len(sign.stack[i].path) = Low(q) + i - 1
  BY <1>1, <1>2, StackIs
<1>4. Top = sign.stack[Depth] /\ FrameIs(sign, Top)
  BY <1>2 DEF Top, Depth, GroupInv
<1>5. Top.path \in Dirs /\ Top.path \in Paths /\ Under(q, Top.path) /\ Len(Top.path) = Low(q) + Depth - 1
  BY <1>1, <1>2, <1>3, <1>4, DirsAre
<1>6. ASSUME NEW i \in 1..(Depth - 1)
      PROVE  /\ sign.stack[i].path \in Dirs
             /\ Direct(Top.path, sign.stack[i].path) <=> i = Depth - 1
  <2> DEFINE x == sign.stack[i].path
  <2>1. i \in 1..Len(sign.stack)
    BY <1>2
  <2>2. x \in Dirs /\ x \in Paths /\ Under(q, x) /\ Len(x) = Low(q) + i - 1
    BY <1>1, <1>3, <2>1, DirsAre
  <2>3. Len(x) <= Len(Top.path)
    BY <1>2, <1>3, <1>5, <2>2
  <2>4. Under(Top.path, x)
    BY <1>3, <1>5, <2>2, <2>3, UnderBoth
  <2> HIDE DEF x
  <2>5. Len(Top.path) = Len(x) + 1 <=> i = Depth - 1
    BY <1>2, <1>3, <1>5, <2>2
  <2>6. QED
    BY <2>2, <2>4, <2>5 DEF Direct, x
<1>7. ASSUME NEW c \in OnStack(sign)
      PROVE  Len(c) <= Len(Top.path)
  <2>1. PICK i \in 1..Len(sign.stack) : c = sign.stack[i].path
    BY <1>7 DEF OnStack
  <2>2. Len(c) = Low(q) + i - 1
    BY <1>3, <2>1
  <2>3. QED
    BY <1>2, <1>3, <1>5, <2>1, <2>2
<1>8. QED
  BY <1>4, <1>5, <1>6, <1>7

\* A frame can be written exactly when its directory is whole.
LEMMA CloseWhole ==
    ASSUME Env, WalkInv(walk), GroupInv(sign), Closing
    PROVE  Emittable(Top) <=> Whole(Top.path)
<1> DEFINE d == Top.path
<1>1. Phased(sign) /\ Written(sign) /\ WalkDone /\ sign.phase # "idle" /\ walk.files \subseteq Files
  BY DEF Closing, GroupInv, Phased, WalkInv, WalkStates
<1>2. d \in Dirs /\ d \in Paths /\ Len(d) \in Nat /\ \A c \in OnStack(sign) : Len(c) <= Len(d)
  BY TopIs DEF Paths
<1>3. \A f \in sign.todo : ~Under(f, d)
  BY ClosingIs
<1>4. Emittable(Top) <=> ~Lacks(sign, d) /\ Disposition(d) # "Suppressed"
  BY TopIs DEF FrameIs, Emittable
<1>5. ASSUME ~Lacks(sign, d), NEW f \in walk.files, Under(f, d)
      PROVE  Digest(f) # None
  <2>1. f \in Handed(sign)
    BY <1>1, <1>3, <1>5 DEF Handed
  <2>2. CASE Direct(f, d)
    BY <1>5, <2>1, <2>2 DEF Lacks
  <2>3. CASE ~Direct(f, d)
    <3>1. Len(f) # Len(d) + 1
      BY <1>5, <2>3 DEF Direct
    <3>2. PICK c \in Dirs : Direct(c, d) /\ Under(f, c)
      BY <1>1, <1>2, <1>5, <3>1, ChildOf
    <3>3. c \notin OnStack(sign)
      BY <1>2, <3>2 DEF Direct
    <3>4. c \in Sent(sign)
      BY <1>5, <2>1, <3>2, <3>3 DEF Lacks, Closed
    <3>5. QED
      BY <1>1, <3>2, <3>4 DEF Written, Whole
  <2>4. QED
    BY <2>2, <2>3
<1>6. ASSUME Whole(d)
      PROVE  ~Lacks(sign, d)
  <2>1. ASSUME NEW f \in Handed(sign), Direct(f, d)
        PROVE  Digest(f) # None
    BY <1>6, <2>1 DEF Handed, Whole, Direct
  <2>2. ASSUME NEW c \in Closed(sign), Direct(c, d)
        PROVE  c \in Sent(sign)
    <3>1. c \in Dirs /\ c \in Paths /\ Under(c, d)
      BY <1>1, <2>2, DirsAre DEF Closed, Direct
    <3>2. ASSUME NEW f \in walk.files, Under(f, c)
          PROVE  Digest(f) # None
      <4>1. f \in Paths
        BY <1>1, EntryPaths
      <4>2. Under(f, d)
        BY <1>2, <3>1, <3>2, <4>1, UnderTrans
      <4>3. QED
        BY <1>6, <4>2 DEF Whole
    <3>3. Disposition(c) # "Suppressed"
      BY <1>1, <1>2, <1>6, <3>1, SuppressedAbove DEF Whole
    <3>4. Whole(c)
      BY <3>2, <3>3 DEF Whole
    <3>5. QED
      BY <1>1, <2>2, <3>4 DEF Written
  <2>3. QED
    BY <2>1, <2>2 DEF Lacks
<1>7. QED
  BY <1>4, <1>5, <1>6 DEF Whole

\* A directory whose children are all written is told by its own entries.
LEMMA BuiltIs ==
    ASSUME Env, WalkInv(walk), NEW s, Phased(s), Written(s), s.phase # "idle", NEW x \in Dirs, Whole(x),
           \A f \in s.todo : ~Under(f, x), \A c \in Dirs : Direct(c, x) => c \notin OnStack(s)
    PROVE  Built(s.emitted, x, FileEntries(s, x) \cup DirEntries(s, x))
<1>1. WalkDone /\ walk.files \subseteq Files /\ x \in Paths
  BY DirsAre DEF Phased, WalkInv, WalkStates
<1>2. \A f \in walk.files : Under(f, x) => f \in Handed(s) /\ Digest(f) # None
  BY DEF Handed, Whole
<1>3. {g \in Handed(s) : Direct(g, x) /\ Digest(g) # None} = {g \in walk.files : Direct(g, x)}
  BY <1>2 DEF Handed, Direct
<1>4. ASSUME NEW c \in Dirs, Direct(c, x)
      PROVE  \E e \in s.emitted : e.path = c
  <2>1. Under(c, x) /\ c \in Paths
    BY <1>1, <1>4, DirsAre DEF Direct
  <2>2. PICK f \in walk.files : c \in Accountable(f)
    BY DEF Dirs
  <2>3. \A g \in walk.files : g \in Paths
    BY <1>1, EntryPaths
  <2>4. \A g \in walk.files : Under(g, c) => Under(g, x)
    BY <1>1, <2>1, <2>3, UnderTrans
  <2>5. Under(f, c)
    BY <1>1, <2>2, AccountableIs
  <2>6. c \in Closed(s)
    BY <1>2, <1>4, <2>4, <2>5 DEF Closed
  <2>7. Whole(c)
    BY <1>1, <2>1, <2>4, SuppressedAbove DEF Whole
  <2>8. QED
    BY <2>6, <2>7 DEF Written, Sent
<1>5. QED
  BY <1>2, <1>3, <1>4 DEF Built, FileEntries, DirEntries

\* Only the parent learns of the frame.
LEMMA CloseTells ==
    ASSUME Env, WalkInv(walk), GroupInv(sign), CloseFrame, NEW x
    PROVE  /\ FileEntries(sign', x) = FileEntries(sign, x)
           /\ DirEntries(sign', x) =
                 IF Direct(Top.path, x) /\ Emittable(Top)
                 THEN DirEntries(sign, x) \cup {<<Name(Top.path), SignatureOf(Top)>>}
                 ELSE DirEntries(sign, x)
           /\ Lacks(sign', x) <=> Lacks(sign, x) \/ (Direct(Top.path, x) /\ ~Emittable(Top))
<1> DEFINE d == Top.path
<1>1. /\ Handed(sign') = Handed(sign) /\ d \notin Closed(sign)
      /\ Closed(sign') = Closed(sign) \cup {d}
  BY CloseMoves
<1>2. sign'.emitted = IF Emittable(Top) THEN sign.emitted \cup {NewRecord} ELSE sign.emitted
  BY CloseIs
<1>3. NewRecord.path = d /\ NewRecord.sig = SignatureOf(Top)
  BY DEF NewRecord
<1>4. Sent(sign) \subseteq Closed(sign)
  BY DEF GroupInv, Written
<1>5. Sent(sign') = IF Emittable(Top) THEN Sent(sign) \cup {d} ELSE Sent(sign)
  BY <1>2, <1>3 DEF Sent
<1>6. FileEntries(sign', x) = FileEntries(sign, x)
  BY <1>1 DEF FileEntries
<1>7. DirEntries(sign', x) =
                 IF Direct(d, x) /\ Emittable(Top)
                 THEN DirEntries(sign, x) \cup {<<Name(d), SignatureOf(Top)>>}
                 ELSE DirEntries(sign, x)
  <2>1. CASE Emittable(Top)
    <3>1. sign'.emitted = sign.emitted \cup {NewRecord}
      BY <1>2, <2>1
    <3>2. CASE Direct(d, x)
      <4>1. {c \in sign'.emitted : Direct(c.path, x)} = {c \in sign.emitted : Direct(c.path, x)} \cup {NewRecord}
        BY <1>3, <3>1, <3>2
      <4>2. QED
        BY <1>3, <2>1, <3>2, <4>1 DEF DirEntries
    <3>3. CASE ~Direct(d, x)
      <4>1. {c \in sign'.emitted : Direct(c.path, x)} = {c \in sign.emitted : Direct(c.path, x)}
        BY <1>3, <3>1, <3>3
      <4>2. QED
        BY <3>3, <4>1 DEF DirEntries
    <3>4. QED
      BY <3>2, <3>3
  <2>2. CASE ~Emittable(Top)
    BY <1>2, <2>2 DEF DirEntries
  <2>3. QED
    BY <2>1, <2>2
<1>8. Lacks(sign', x) <=> Lacks(sign, x) \/ (Direct(d, x) /\ ~Emittable(Top))
  <2>1. \A c \in Closed(sign) : c \in Sent(sign') <=> c \in Sent(sign)
    BY <1>1, <1>5
  <2>2. d \in Sent(sign') <=> Emittable(Top)
    BY <1>1, <1>4, <1>5
  <2>3. QED
    BY <1>1, <2>1, <2>2 DEF Lacks
<1>9. QED
  BY <1>6, <1>7, <1>8

\* The frames left are still right when one has closed.
LEMMA CloseStack ==
    ASSUME Env, WalkInv(walk), GroupInv(sign), CloseFrame
    PROVE  Chain(sign') /\ \A i \in 1..Len(sign'.stack) : FrameIs(sign', sign'.stack[i])
<1>1. Closing /\ Phased(sign) /\ Chain(sign)
  BY DEF CloseFrame, GroupInv
<1>2. Depth \in Nat /\ Depth # 0 /\ Depth = Len(sign.stack)
  BY <1>1, ClosingIs DEF Depth
<1>3. /\ Sequenced(sign'.stack) /\ Len(sign'.stack) = Depth - 1
      /\ \A i \in 1..(Depth - 1) : sign'.stack[i].path = sign.stack[i].path
      /\ \A i \in 1..(Depth - 1) : sign'.stack[i] = IF i = Depth - 1 THEN Told(sign.stack[i]) ELSE sign.stack[i]
  BY CloseIs
<1>4. Chain(sign')
  <2>1. PICK q \in Handed(sign) :
              /\ Low(q) + Len(sign.stack) <= Len(q)
              /\ q \in walk.files
              /\ \A i \in 1..Len(sign.stack) : sign.stack[i].path = SubSeq(q, 1, Low(q) + i - 1)
    BY <1>1, <1>2 DEF Chain, Handed
  <2>2. Low(q) \in Nat /\ Len(q) \in Nat
    BY <2>1, LowIs DEF WalkInv, WalkStates
  <2>3. q \in Handed(sign')
    BY <2>1, CloseMoves
  <2>4. Low(q) + (Depth - 1) <= Len(q)
    BY <1>2, <2>1, <2>2
  <2>5. \A i \in 1..(Depth - 1) : sign'.stack[i].path = SubSeq(q, 1, Low(q) + i - 1)
    <3> TAKE i \in 1..(Depth - 1)
    <3>1. i \in 1..Len(sign.stack)
      BY <1>2
    <3>2. sign.stack[i].path = SubSeq(q, 1, Low(q) + i - 1)
      BY <2>1, <3>1
    <3>3. QED
      BY <1>3, <3>2
  <2>6. QED
    BY <1>3, <2>3, <2>4, <2>5 DEF Chain
<1>5. ASSUME NEW i \in 1..(Depth - 1)
      PROVE  FrameIs(sign', sign'.stack[i])
  <2> DEFINE f == sign.stack[i]
             g == sign'.stack[i]
  <2>1. FrameIs(sign, f) /\ f.path = g.path /\ (Direct(Top.path, f.path) <=> i = Depth - 1)
    BY <1>1, <1>2, <1>3, TopIs DEF GroupInv
  <2>2. /\ FileEntries(sign', f.path) = FileEntries(sign, f.path)
        /\ DirEntries(sign', f.path) =
              IF Direct(Top.path, f.path) /\ Emittable(Top)
              THEN DirEntries(sign, f.path) \cup {<<Name(Top.path), SignatureOf(Top)>>}
              ELSE DirEntries(sign, f.path)
        /\ Lacks(sign', f.path) <=> Lacks(sign, f.path) \/ (Direct(Top.path, f.path) /\ ~Emittable(Top))
    BY CloseTells
  <2>3. CASE i # Depth - 1
    <3>1. g = f
      BY <1>3, <2>3
    <3>2. QED
      BY <2>1, <2>2, <2>3, <3>1 DEF FrameIs
  <2>4. CASE i = Depth - 1
    <3>1. g = Told(f)
      BY <1>3, <2>4
    <3>2. CASE Emittable(Top)
      <4>1. /\ g = [path |-> g.path, entries |-> g.entries, incomplete |-> g.incomplete]
            /\ g.entries = f.entries \cup {<<Name(Top.path), SignatureOf(Top)>>}
            /\ g.incomplete = f.incomplete
        BY <3>1, <3>2 DEF Told
      <4>2. QED
        BY <2>1, <2>2, <2>4, <3>2, <4>1 DEF FrameIs
    <3>3. CASE ~Emittable(Top)
      <4>1. /\ g = [path |-> g.path, entries |-> g.entries, incomplete |-> g.incomplete]
            /\ g.entries = f.entries
            /\ g.incomplete = TRUE
        BY <3>1, <3>3 DEF Told
      <4>2. QED
        BY <2>1, <2>2, <2>4, <3>3, <4>1 DEF FrameIs
    <3>4. QED
      BY <3>2, <3>3
  <2>5. QED
    BY <2>3, <2>4
<1>6. QED
  BY <1>3, <1>4, <1>5

\* The record of a closed directory is written exactly if it is whole, and is what its files say.
LEMMA CloseWrites ==
    ASSUME Env, WalkInv(walk), GroupInv(sign), CloseFrame
    PROVE  Written(sign')
<1> DEFINE d == Top.path
<1>1. Closing /\ Phased(sign) /\ Chain(sign) /\ Written(sign)
  BY DEF CloseFrame, GroupInv
<1>2. /\ d \in OnStack(sign) /\ d \in Dirs /\ Closed(sign') = Closed(sign) \cup {d}
  BY CloseMoves
<1>3. /\ sign'.todo = sign.todo
      /\ sign'.emitted = IF Emittable(Top) THEN sign.emitted \cup {NewRecord} ELSE sign.emitted
  BY CloseIs
<1>4. \A c \in Closed(sign'), f \in sign'.todo : ~Under(f, c)
  BY <1>1, <1>2, <1>3, ClosingIs DEF Written
<1>5. NewRecord.path = d
  BY DEF NewRecord
<1>6. Sent(sign') = IF Emittable(Top) THEN Sent(sign) \cup {d} ELSE Sent(sign)
  BY <1>3, <1>5 DEF Sent
<1>7. Sent(sign') = {c \in Closed(sign') : Whole(c)}
  BY <1>1, <1>2, <1>6, CloseWhole DEF Written
<1>8. ASSUME NEW c \in Closed(sign)
      PROVE  RecordOf(sign', c) = RecordOf(sign, c)
  <2>1. c \in Dirs /\ c \notin OnStack(sign)
    BY <1>8 DEF Closed
  <2>2. ~Direct(d, c)
    BY <1>1, <1>2, <2>1, NothingHangs DEF Direct
  <2>3. QED
    BY <2>2, CloseTells DEF RecordOf
<1>9. NewRecord = RecordOf(sign', d)
  <2>1. Top.entries = FileEntries(sign, d) \cup DirEntries(sign, d)
    BY <1>1, TopIs DEF FrameIs
  <2>2. ~Direct(d, d)
    <3>1. Len(d) \in Nat
      BY <1>1, TopIs DEF Paths
    <3>2. QED
      BY <3>1 DEF Direct
  <2>3. QED
    BY <2>1, <2>2, CloseTells DEF RecordOf, NewRecord, SignatureOf
<1>10. ASSUME NEW e \in sign'.emitted
       PROVE  e = RecordOf(sign', e.path)
  <2>1. CASE e \in sign.emitted
    <3>1. e.path \in Closed(sign) /\ e = RecordOf(sign, e.path)
      BY <1>1, <2>1 DEF Written, Sent
    <3>2. QED
      BY <1>8, <3>1
  <2>2. CASE e \notin sign.emitted
    <3>1. e = NewRecord
      BY <1>3, <2>2
    <3>2. QED
      BY <1>5, <1>9, <3>1
  <2>3. QED
    BY <2>1, <2>2
<1>11. QED
  BY <1>4, <1>7, <1>10 DEF Written

\* The new signature stands for its whole subtree, as those before it do.
LEMMA ClosePairs ==
    ASSUME Env, WalkInv(walk), GroupInv(sign), CloseFrame
    PROVE  Paired(sign')
<1> DEFINE d == Top.path
           E == sign.emitted
           Inside(x) == FileEntries(sign, x) \cup DirEntries(sign, x)
<1>1. Closing /\ Phased(sign) /\ Chain(sign) /\ Written(sign) /\ Paired(sign)
  BY DEF CloseFrame, GroupInv
<1>2. sign.phase # "idle" /\ walk.files \subseteq Files
  BY <1>1 DEF Closing, WalkInv, WalkStates
<1>3. sign'.emitted = IF Emittable(Top) THEN E \cup {NewRecord} ELSE E
  BY CloseIs
<1>4. \A e \in E : e.path \in Closed(sign) /\ e.path \in Dirs /\ e.sig = <<"dir", Inside(e.path)>> /\ Whole(e.path)
  <2> TAKE e \in E
  <2>1. e.path \in Closed(sign) /\ Whole(e.path) /\ e = RecordOf(sign, e.path)
    BY <1>1 DEF Written, Sent
  <2>2. e.sig = <<"dir", Inside(e.path)>>
    BY <2>1 DEF RecordOf
  <2>3. QED
    BY <2>1, <2>2 DEF Closed
<1>5. Kin(E)
  BY <1>1, <1>4 DEF Kin, Paired
<1>6. ASSUME NEW e \in E
      PROVE  Built(E, e.path, Inside(e.path))
  <2>1. e.path \in Dirs /\ Whole(e.path) /\ e.path \notin OnStack(sign) /\ \A f \in sign.todo : ~Under(f, e.path)
    BY <1>1, <1>4 DEF Written, Closed
  <2>2. \A c \in Dirs : Direct(c, e.path) => c \notin OnStack(sign)
    BY <1>1, <2>1, NothingHangs DEF Direct
  <2>3. QED
    BY <1>1, <1>2, <2>1, <2>2, BuiltIs
<1>7. ASSUME Emittable(Top)
      PROVE  /\ d \in Dirs /\ Built(E, d, Inside(d))
             /\ NewRecord.path = d /\ NewRecord.sig = <<"dir", Inside(d)>>
  <2>1. d \in Dirs /\ d \in Paths /\ Len(d) \in Nat /\ Whole(d)
    BY <1>1, <1>7, TopIs, CloseWhole DEF Paths
  <2>2. \A c \in Dirs : Direct(c, d) => c \notin OnStack(sign)
    BY <1>1, <2>1, TopIs DEF Direct
  <2>3. Built(E, d, Inside(d))
    BY <1>1, <1>2, <2>1, <2>2, ClosingIs, BuiltIs
  <2>4. Top.entries = Inside(d)
    BY <1>1, TopIs DEF FrameIs
  <2>5. QED
    BY <2>1, <2>3, <2>4 DEF NewRecord, SignatureOf
<1> HIDE DEF Inside
<1>8. ASSUME NEW e \in E, Emittable(Top)
      PROVE  e.sig = NewRecord.sig <=> OldSignature(e.path) = OldSignature(NewRecord.path)
  <2>1. Inside(e.path) = Inside(d) <=> OldSignature(e.path) = OldSignature(d)
    BY <1>2, <1>4, <1>5, <1>6, <1>7, <1>8, TwinsMatch
  <2>2. e.sig = NewRecord.sig <=> Inside(e.path) = Inside(d)
    BY <1>4, <1>7, <1>8
  <2>3. QED
    BY <1>7, <1>8, <2>1, <2>2
<1>9. ASSUME NEW a \in sign'.emitted, NEW b \in sign'.emitted
      PROVE  a.sig = b.sig <=> OldSignature(a.path) = OldSignature(b.path)
  <2>1. CASE a \in E /\ b \in E
    BY <1>1, <2>1 DEF Paired
  <2>2. CASE a \in E /\ b \notin E
    BY <1>3, <1>8, <2>2
  <2>3. CASE a \notin E /\ b \in E
    <3>1. a = NewRecord /\ Emittable(Top)
      BY <1>3, <2>3
    <3>2. b.sig = NewRecord.sig <=> OldSignature(b.path) = OldSignature(NewRecord.path)
      BY <1>8, <2>3, <3>1
    <3>3. QED
      BY <3>1, <3>2
  <2>4. CASE a \notin E /\ b \notin E
    BY <1>3, <2>4
  <2>5. QED
    BY <2>1, <2>2, <2>3, <2>4
<1>10. QED
  BY <1>9 DEF Paired

\* build_dir_signatures_streaming_in_context, a closed frame.
LEMMA CloseKeeps ==
    ASSUME Env, WalkInv(walk), GroupInv(sign), CloseFrame
    PROVE  GroupInv(sign')
<1>1. Phased(sign')
  <2>1. Phased(sign) /\ sign.phase = "streaming"
    BY CloseIs DEF GroupInv
  <2>2. Handed(sign') = Handed(sign)
    BY CloseMoves
  <2>3. /\ sign' = [phase |-> sign'.phase, todo |-> sign'.todo, stack |-> sign'.stack, emitted |-> sign'.emitted]
        /\ sign'.phase = sign.phase /\ sign'.todo = sign.todo
    BY CloseIs
  <2>4. QED
    BY <2>1, <2>2, <2>3 DEF Phased
<1>2. QED
  BY <1>1, CloseStack, CloseWrites, ClosePairs DEF GroupInv

-----------------------------------------------------------------------------
(* A file is taken                                                         *)

\* How many ancestors there are between two depths.
LEMMA PrefixCount ==
    ASSUME NEW p \in Paths, NEW m \in Nat, NEW k \in Nat, m <= k, k <= Len(p)
    PROVE  Cardinality({SubSeq(p, 1, n) : n \in m..(k - 1)}) = k - m
<1> DEFINE I == m..(k - 1)
           S == {SubSeq(p, 1, n) : n \in I}
           F == [n \in I |-> SubSeq(p, 1, n)]
<1>1. Len(p) \in Nat
  BY DEF Paths
<1>2. \A n \in I : n \in 0..Len(p)
  BY <1>1
<1>3. \A n \in I : Len(SubSeq(p, 1, n)) = n
  BY <1>2, CutIs
<1>4. F \in [I -> S]
  OBVIOUS
<1>5. \A a, b \in I : F[a] = F[b] => a = b
  BY <1>3
<1>6. \A y \in S : \E n \in I : F[n] = y
  OBVIOUS
<1>7. F \in Bijection(I, S)
  BY <1>4, <1>5, <1>6 DEF Bijection, Injection, Surjection, IsInjective
<1>8. ExistsBijection(I, S)
  BY <1>7 DEF ExistsBijection
<1>9. IsFiniteSet(I) /\ Cardinality(I) = IF m > k - 1 THEN 0 ELSE (k - 1) - m + 1
  BY FS_Interval
<1>10. Cardinality(S) = Cardinality(I)
  BY <1>8, <1>9, FS_Bijection
<1>11. Cardinality(I) = k - m
  BY <1>9
<1>12. QED
  BY <1>10, <1>11

\* Files that share an ancestor begin at the same depth.
LEMMA SameLow ==
    ASSUME Env, NEW f \in Files, NEW g \in Files, NEW d \in Accountable(f), d \in Accountable(g)
    PROVE  Low(f) = Low(g)
<1>1. f \in Paths /\ g \in Paths /\ f \in Entries /\ g \in Entries
  BY LowIs DEF Files
<1>2. d \in Paths /\ Under(f, d) /\ Under(g, d) /\ Low(f) <= Len(d)
  BY AccountableIs
<1>3. CASE keyable
  <2> DEFINE R == Roots[OwningRoot(f)]
  <2>1. R \in Paths /\ Under(f, R) /\ OwningRoot(f) \in DOMAIN Roots
    BY <1>1, EntryRoot, RootAt
  <2>2. Under(d, R)
    BY <1>1, <1>2, <1>3, <2>1, UnderBoth DEF Low
  <2>3. Under(g, R)
    BY <1>1, <1>2, <2>1, <2>2, UnderTrans
  <2>4. OwningRoot(g) = OwningRoot(f)
    BY <1>1, <2>1, <2>3, OwnRoot
  <2>5. QED
    BY <2>4 DEF Low
<1>4. CASE ~keyable
  BY <1>4 DEF Low
<1>5. QED
  BY <1>3, <1>4

\* The frames there are belong to ancestors of the next file.
LEMMA StackAbove ==
    ASSUME Env, WalkInv(walk), GroupInv(sign), sign.phase = "streaming", ~Closing,
           NEW p \in sign.todo, NextFile(p)
    PROVE  /\ p \in walk.files /\ p \in Files /\ p \in Paths /\ Len(p) \in Nat /\ Low(p) \in Nat
           /\ Depth \in Nat /\ Low(p) + Depth <= Len(p)
           /\ \A i \in 1..Depth : sign.stack[i].path = SubSeq(p, 1, Low(p) + i - 1)
<1>1. Phased(sign) /\ Chain(sign) /\ walk.files \subseteq Files
  BY DEF GroupInv, WalkInv, WalkStates
<1>2. p \in walk.files /\ p \in Files
  BY <1>1 DEF Phased
<1>3. p \in Paths /\ Len(p) \in Nat /\ Low(p) \in Nat /\ Low(p) <= Len(p)
  BY <1>2, LowIs
<1>4. Depth \in Nat /\ Depth = Len(sign.stack)
  BY <1>1 DEF Depth, Chain, Sequenced
<1>5. CASE Depth = 0
  BY <1>2, <1>3, <1>4, <1>5
<1>6. CASE Depth # 0
  <2>1. sign.stack # <<>> /\ Depth \in 1..Depth
    BY <1>1, <1>4, <1>6, NoFrame DEF Chain
  <2>2. Under(p, Top.path)
    BY <2>1 DEF Closing
  <2>3. PICK q \in Handed(sign) :
              /\ q \in walk.files /\ q \in Paths /\ Len(q) \in Nat /\ Low(q) \in Nat
              /\ \A i \in 1..Len(sign.stack) :
                    /\ sign.stack[i].path \in Dirs
                    /\ sign.stack[i].path \in Accountable(q)
                    /\ Under(q, sign.stack[i].path)
                    /\ Len(sign.stack[i].path) = Low(q) + i - 1
    BY <1>1, <1>4, <1>6, StackIs
  <2> DEFINE t == Top.path
  <2>4. t = sign.stack[Depth].path
    BY <1>4 DEF Top
  <2>5. t \in Dirs /\ t \in Paths /\ t \in Accountable(q) /\ Under(q, t) /\ Len(t) = Low(q) + Depth - 1
    BY <1>1, <1>4, <2>1, <2>3, <2>4, DirsAre
  <2>6. t \in Accountable(p)
    BY <1>1, <1>2, <2>2, <2>5, DirsAre
  <2>7. Low(q) = Low(p)
    BY <1>1, <1>2, <2>3, <2>5, <2>6, SameLow
  <2>8. Len(t) < Len(p)
    BY <1>2, <2>6, AccountableIs
  <2>9. Low(p) + Depth <= Len(p)
    BY <1>3, <1>4, <2>5, <2>7, <2>8
  <2> HIDE DEF t
  <2>10. ASSUME NEW i \in 1..Depth
         PROVE  sign.stack[i].path = SubSeq(p, 1, Low(p) + i - 1)
    <3> DEFINE c == sign.stack[i].path
    <3>1. c \in Dirs /\ c \in Paths /\ Under(q, c) /\ Len(c) = Low(p) + i - 1
      BY <1>1, <1>4, <2>3, <2>7, DirsAre
    <3>2. Len(c) <= Len(t)
      BY <1>3, <1>4, <2>5, <2>7, <3>1
    <3>3. Under(t, c)
      BY <2>3, <2>5, <3>1, <3>2, UnderBoth
    <3>4. Under(p, c)
      BY <1>3, <2>2, <2>5, <3>1, <3>3, UnderTrans DEF t
    <3>5. QED
      BY <3>1, <3>4 DEF Under
  <2>11. QED
    BY <1>2, <1>3, <1>4, <2>9, <2>10
<1>7. QED
  BY <1>5, <1>6

\* The frames that are opened are for the rest of them.
LEMMA OpenedIs ==
    ASSUME Env, WalkInv(walk), GroupInv(sign), sign.phase = "streaming", ~Closing,
           NEW p \in sign.todo, NextFile(p)
    PROVE  /\ Sequenced(Opened(p)) /\ Len(Opened(p)) = Len(p) - Low(p) - Depth
           /\ \A i \in 1..(Len(p) - Low(p) - Depth) :
                 Opened(p)[i] = [path |-> SubSeq(p, 1, Low(p) + Depth + i - 1), entries |-> {}, incomplete |-> FALSE]
<1> DEFINE m == Low(p) + Depth
           fresh == {d \in Accountable(p) : \A i \in DOMAIN sign.stack : sign.stack[i].path # d}
           I == m..(Len(p) - 1)
<1>1. /\ p \in Files /\ p \in Paths /\ Len(p) \in Nat /\ Low(p) \in Nat /\ Depth \in Nat /\ m <= Len(p)
      /\ \A i \in 1..Depth : sign.stack[i].path = SubSeq(p, 1, Low(p) + i - 1)
  BY StackAbove
<1>2. DOMAIN sign.stack = 1..Depth
  BY DEF GroupInv, Chain, Sequenced, Depth
<1>3. \A n \in 0..Len(p) : SubSeq(p, 1, n) \in Paths /\ Len(SubSeq(p, 1, n)) = n /\ Under(p, SubSeq(p, 1, n))
  BY <1>1, CutIs, UnderCut
<1>4. ASSUME NEW d \in fresh
      PROVE  \E n \in I : d = SubSeq(p, 1, n)
  <2>1. d \in Paths /\ Under(p, d) /\ Low(p) <= Len(d) /\ Len(d) < Len(p) /\ Len(d) \in Nat
    BY <1>1, <1>4, AccountableIs DEF Paths
  <2>2. d = SubSeq(p, 1, Len(d))
    BY <2>1 DEF Under
  <2>3. ~(Len(d) < m)
    <3> SUFFICES ASSUME Len(d) < m
                 PROVE  FALSE
      OBVIOUS
    <3> DEFINE i == Len(d) - Low(p) + 1
    <3>1. i \in 1..Depth /\ Low(p) + i - 1 = Len(d)
      BY <1>1, <2>1
    <3>2. sign.stack[i].path = d
      BY <1>1, <2>2, <3>1
    <3>3. QED
      BY <1>2, <1>4, <3>1, <3>2
  <2>4. Len(d) \in I
    BY <1>1, <2>1, <2>3
  <2>5. QED
    BY <2>2, <2>4
<1>5. ASSUME NEW n \in I
      PROVE  SubSeq(p, 1, n) \in fresh
  <2> DEFINE d == SubSeq(p, 1, n)
  <2>1. n \in 0..Len(p) /\ Low(p) <= n /\ n < Len(p)
    BY <1>1
  <2>2. d \in Paths /\ Len(d) = n /\ Under(p, d)
    BY <1>3, <2>1
  <2> HIDE DEF d
  <2>3. d \in Accountable(p)
    BY <1>1, <2>1, <2>2, AccountableIs
  <2>4. ASSUME NEW i \in 1..Depth
        PROVE  sign.stack[i].path # d
    <3>1. Low(p) + i - 1 \in 0..Len(p) /\ Low(p) + i - 1 # n
      BY <1>1
    <3>2. Len(sign.stack[i].path) = Low(p) + i - 1
      BY <1>1, <1>3, <3>1
    <3>3. QED
      BY <2>2, <3>1, <3>2
  <2>5. QED
    BY <1>2, <2>3, <2>4 DEF d
<1>6. fresh = {SubSeq(p, 1, n) : n \in I}
  BY <1>4, <1>5
<1>7. Cardinality(fresh) = Len(p) - m
  <2>1. m \in Nat /\ m <= Len(p) /\ p \in Paths /\ Len(p) \in Nat
    BY <1>1
  <2>2. fresh = {SubSeq(p, 1, n) : n \in m..(Len(p) - 1)}
    BY <1>6
  <2> HIDE DEF m, fresh
  <2>3. Cardinality({SubSeq(p, 1, n) : n \in m..(Len(p) - 1)}) = Len(p) - m
    BY <2>1, PrefixCount
  <2>4. QED
    BY <2>2, <2>3
<1> DEFINE N == Len(p) - m
           Frame(i) == [path |-> SubSeq(p, 1, m + i - 1), entries |-> {}, incomplete |-> FALSE]
<1>8. Opened(p) = [i \in 1..N |-> Frame(i)]
  <2>1. Len(p) - N = m
    BY <1>1
  <2>2. Opened(p) = [i \in 1..Cardinality(fresh) |->
            [path |-> SubSeq(p, 1, (Len(p) - Cardinality(fresh)) + i - 1), entries |-> {}, incomplete |-> FALSE]]
    BY DEF Opened
  <2> HIDE DEF fresh, m
  <2>3. QED
    BY <1>7, <2>1, <2>2
<1>9. N \in Nat /\ N = Len(p) - Low(p) - Depth
  BY <1>1
<1>10. \A i \in 1..N : Opened(p)[i] = Frame(i)
  BY <1>8
<1> DEFINE S == {Frame(i) : i \in 1..N}
<1>11. Opened(p) \in [1..N -> S]
  BY <1>8
<1> HIDE DEF S, Frame, N
<1>12. Opened(p) \in Seq(S)
  BY <1>9, <1>11, SeqDef
<1>13. Sequenced(Opened(p))
  BY <1>12, SequencedIs
<1>14. Len(Opened(p)) = N
  <2>1. DOMAIN Opened(p) = 1..N
    BY <1>11
  <2>2. Len(Opened(p)) \in Nat /\ DOMAIN Opened(p) = 1..Len(Opened(p))
    BY <1>12, LenProperties
  <2>3. QED
    BY <1>9, <2>1, <2>2
<1>15. QED
  BY <1>9, <1>10, <1>13, <1>14 DEF Frame

\* A directory without a frame, above a file still to come, holds nothing yet.
LEMMA FreshIs ==
    ASSUME Env, WalkInv(walk), GroupInv(sign), sign.phase = "streaming",
           NEW p \in sign.todo, NEW x \in Dirs, Under(p, x), x \notin OnStack(sign)
    PROVE  FileEntries(sign, x) = {} /\ DirEntries(sign, x) = {} /\ ~Lacks(sign, x)
<1>1. Phased(sign) /\ Written(sign) /\ walk.files \subseteq Files /\ x \in Paths
  BY DirsAre DEF GroupInv, WalkInv, WalkStates
<1>2. x \notin Closed(sign)
  BY <1>1 DEF Written
<1>3. \A f \in Handed(sign) : ~Under(f, x)
  BY <1>2 DEF Closed
<1>4. ASSUME NEW c \in Closed(sign)
      PROVE  ~Direct(c, x)
  <2> SUFFICES ASSUME Under(c, x)
               PROVE  FALSE
    BY DEF Direct
  <2>1. PICK f \in Handed(sign) : Under(f, c)
    BY DEF Closed
  <2>2. c \in Paths /\ f \in Paths
    BY <1>1, <2>1, DirsAre, EntryPaths DEF Closed, Handed
  <2>3. Under(f, x)
    BY <1>1, <2>1, <2>2, UnderTrans
  <2>4. QED
    BY <1>3, <2>3
<1>5. \A e \in sign.emitted : e.path \in Closed(sign)
  BY <1>1 DEF Written, Sent
<1>6. {g \in Handed(sign) : Direct(g, x) /\ Digest(g) # None} = {}
  BY <1>3 DEF Direct
<1>7. {c \in sign.emitted : Direct(c.path, x)} = {}
  BY <1>4, <1>5
<1>8. ~Lacks(sign, x)
  BY <1>3, <1>4 DEF Lacks, Direct
<1>9. FileEntries(sign, x) = {}
  BY <1>6 DEF FileEntries
<1>10. DirEntries(sign, x) = {}
  BY <1>7 DEF DirEntries
<1>11. QED
  BY <1>8, <1>9, <1>10

\* What the innermost frame becomes with a file.
WithFile(top, p) ==
    IF Digest(p) = None
    THEN [path |-> top.path, entries |-> top.entries, incomplete |-> TRUE]
    ELSE [path |-> top.path, entries |-> top.entries \cup {<<Name(p), Digest(p)>>},
          incomplete |-> top.incomplete]

\* A file goes into the top frame.
LEMMA AddIs ==
    ASSUME NEW t, Sequenced(t), NEW p,
           Len(t) # 0 => t[Len(t)] = [path |-> t[Len(t)].path, entries |-> t[Len(t)].entries,
                                      incomplete |-> t[Len(t)].incomplete]
    PROVE  /\ Sequenced(AddFile(t, p)) /\ Len(AddFile(t, p)) = Len(t)
           /\ \A i \in 1..Len(t) : AddFile(t, p)[i] = IF i = Len(t) THEN WithFile(t[i], p) ELSE t[i]
<1> DEFINE n == Len(t)
           x == t[n]
           S == x.entries \cup {<<Name(p), Digest(p)>>}
           added == AddFile(t, p)
<1>1. n \in Nat
  BY DEF Sequenced
<1>2. CASE n = 0
  <2>1. t = <<>> /\ 1..Len(t) = {}
    BY <1>2, NoFrame
  <2>2. added = t
    BY <2>1 DEF AddFile
  <2>3. QED
    BY <2>1, <2>2
<1>3. CASE n # 0
  <2>1. t # <<>> /\ n \in 1..n
    BY <1>1, <1>3, NoFrame
  <2>2. [x EXCEPT !.entries = S] = [path |-> x.path, entries |-> S, incomplete |-> x.incomplete]
    BY <1>3, FrameExcept
  <2>3. [x EXCEPT !.incomplete = TRUE] = [path |-> x.path, entries |-> x.entries, incomplete |-> TRUE]
    BY <1>3, FrameExcept
  <2>4. added = [t EXCEPT ![n] = WithFile(x, p)]
    <3>1. CASE Digest(p) = None
      <4>1. added = [t EXCEPT ![n] = [x EXCEPT !.incomplete = TRUE]]
        BY <2>1, <3>1 DEF AddFile
      <4>2. WithFile(x, p) = [path |-> x.path, entries |-> x.entries, incomplete |-> TRUE]
        BY <3>1 DEF WithFile
      <4>3. QED
        BY <2>3, <4>1, <4>2
    <3>2. CASE Digest(p) # None
      <4>1. added = [t EXCEPT ![n] = [x EXCEPT !.entries = S]]
        BY <2>1, <3>2 DEF AddFile, Name
      <4>2. WithFile(x, p) = [path |-> x.path, entries |-> S, incomplete |-> x.incomplete]
        BY <3>2 DEF WithFile
      <4>3. QED
        BY <2>2, <4>1, <4>2
    <3>3. QED
      BY <3>1, <3>2
  <2> DEFINE new == WithFile(x, p)
  <2>5. added = [t EXCEPT ![n] = new]
    BY <2>4
  <2> HIDE DEF new, added, n
  <2>6. Sequenced(added)
    BY <2>1, <2>5, OtherTop DEF n
  <2>7. Len(added) = Len(t)
    BY <2>1, <2>5, OtherTop DEF n
  <2>8. \A i \in 1..Len(t) : added[i] = IF i = n THEN new ELSE t[i]
    BY <2>1, <2>5, OtherTop DEF n
  <2>9. QED
    BY <2>6, <2>7, <2>8 DEF added, new, n
<1>4. QED
  BY <1>2, <1>3

\* The fields of the build.
LEMMA SignFields ==
    ASSUME NEW s, s = [phase |-> s.phase, todo |-> s.todo, stack |-> s.stack, emitted |-> s.emitted],
           NEW left, NEW stack, NEW t, t = [s EXCEPT !.todo = left, !.stack = stack]
    PROVE  /\ t = [phase |-> t.phase, todo |-> t.todo, stack |-> t.stack, emitted |-> t.emitted]
           /\ t.phase = s.phase /\ t.todo = left /\ t.stack = stack /\ t.emitted = s.emitted
<1>1. t = [phase |-> s.phase, todo |-> left, stack |-> stack, emitted |-> s.emitted]
  OBVIOUS
<1>2. t.phase = s.phase /\ t.todo = left /\ t.stack = stack /\ t.emitted = s.emitted
  BY <1>1
<1>3. QED
  BY <1>1, <1>2

\* What taking a file does: its missing ancestors get frames, the innermost the file.
LEMMA TakeIs ==
    ASSUME Env, WalkInv(walk), GroupInv(sign), sign.phase = "streaming", ~Closing,
           NEW p \in sign.todo, NextFile(p),
           sign' = [sign EXCEPT !.todo = @ \ {p}, !.stack = AddFile(sign.stack \o Opened(p), p)]
    PROVE  /\ sign' = [phase |-> sign'.phase, todo |-> sign'.todo, stack |-> sign'.stack, emitted |-> sign'.emitted]
           /\ sign'.phase = sign.phase /\ sign'.todo = sign.todo \ {p} /\ sign'.emitted = sign.emitted
           /\ Sequenced(sign'.stack) /\ Len(sign'.stack) = Len(p) - Low(p)
           /\ \E base :
                 \A i \in 1..(Len(p) - Low(p)) :
                    /\ FrameIs(sign, base[i])
                    /\ base[i].path = SubSeq(p, 1, Low(p) + i - 1)
                    /\ sign'.stack[i].path = SubSeq(p, 1, Low(p) + i - 1)
                    /\ sign'.stack[i] = IF i = Len(p) - Low(p) THEN WithFile(base[i], p) ELSE base[i]
<1> DEFINE opened == Opened(p)
           base == sign.stack \o opened
           M == Len(p) - Low(p)
           stack == AddFile(base, p)
<1>1. /\ p \in walk.files /\ p \in Files /\ p \in Paths /\ Len(p) \in Nat /\ Low(p) \in Nat
      /\ Depth \in Nat /\ Low(p) + Depth <= Len(p)
      /\ \A i \in 1..Depth : sign.stack[i].path = SubSeq(p, 1, Low(p) + i - 1)
  BY StackAbove
<1>2. /\ Sequenced(opened) /\ Len(opened) = M - Depth
      /\ \A i \in 1..(M - Depth) :
            opened[i] = [path |-> SubSeq(p, 1, Low(p) + Depth + i - 1), entries |-> {}, incomplete |-> FALSE]
  BY OpenedIs
<1>3. Sequenced(sign.stack) /\ Len(sign.stack) = Depth /\ \A i \in 1..Depth : FrameIs(sign, sign.stack[i])
  BY DEF GroupInv, Chain, Depth
<1>4. M \in Nat
  BY <1>1
<1> HIDE DEF opened
<1>5. /\ Sequenced(base) /\ Len(base) = M
      /\ \A i \in 1..M : base[i] = IF i <= Depth THEN sign.stack[i] ELSE opened[i - Depth]
  <2>1. /\ Sequenced(base) /\ Len(base) = Len(sign.stack) + Len(opened)
        /\ \A i \in 1..(Len(sign.stack) + Len(opened)) :
              base[i] = IF i <= Len(sign.stack) THEN sign.stack[i] ELSE opened[i - Len(sign.stack)]
    BY <1>2, <1>3, Longer
  <2>2. Len(sign.stack) + Len(opened) = M
    BY <1>1, <1>2, <1>3, <1>4
  <2>3. QED
    BY <1>3, <2>1, <2>2
<1> HIDE DEF base
<1>6. ASSUME NEW i \in 1..M
      PROVE  FrameIs(sign, base[i]) /\ base[i].path = SubSeq(p, 1, Low(p) + i - 1)
  <2>1. CASE i <= Depth
    <3>1. i \in 1..Depth /\ base[i] = sign.stack[i]
      BY <1>1, <1>5, <2>1
    <3>2. QED
      BY <1>1, <1>3, <3>1
  <2>2. CASE ~(i <= Depth)
    <3> DEFINE x == SubSeq(p, 1, Low(p) + i - 1)
    <3>1. i - Depth \in 1..(M - Depth) /\ Low(p) + Depth + (i - Depth) - 1 = Low(p) + i - 1
      BY <1>1, <2>2
    <3>2. base[i] = [path |-> x, entries |-> {}, incomplete |-> FALSE]
      BY <1>2, <1>5, <2>2, <3>1
    <3>3. Low(p) + i - 1 \in 0..Len(p) /\ Low(p) <= Low(p) + i - 1 /\ Low(p) + i - 1 < Len(p)
      BY <1>1
    <3>4. x \in Paths /\ Len(x) = Low(p) + i - 1 /\ Under(p, x)
      BY <1>1, <3>3, CutIs, UnderCut
    <3>5. x \notin OnStack(sign)
      <4> SUFFICES ASSUME NEW j \in 1..Depth, sign.stack[j].path = x
                   PROVE  FALSE
        BY <1>3 DEF OnStack
      <4>1. Low(p) + j - 1 \in 0..Len(p) /\ Low(p) + j - 1 # Low(p) + i - 1
        BY <1>1, <2>2
      <4>2. Len(SubSeq(p, 1, Low(p) + j - 1)) = Low(p) + j - 1
        BY <1>1, <4>1, CutIs
      <4>3. QED
        BY <1>1, <3>4, <4>1, <4>2
    <3> HIDE DEF x
    <3>6. x \in Accountable(p)
      BY <1>1, <3>3, <3>4, AccountableIs
    <3>7. x \in Dirs
      BY <1>1, <3>6 DEF Dirs
    <3>8. FileEntries(sign, x) = {} /\ DirEntries(sign, x) = {} /\ ~Lacks(sign, x)
      BY <3>4, <3>5, <3>7, FreshIs
    <3>9. FrameIs(sign, base[i])
      BY <3>2, <3>8 DEF FrameIs
    <3>10. base[i].path = x
      BY <3>2
    <3>11. QED
      BY <3>9, <3>10 DEF x
  <2>3. QED
    BY <2>1, <2>2
<1>7. Len(base) # 0 => FrameIs(sign, base[Len(base)])
  BY <1>4, <1>5, <1>6
<1>8. /\ Sequenced(stack) /\ Len(stack) = M
      /\ \A i \in 1..M : stack[i] = IF i = M THEN WithFile(base[i], p) ELSE base[i]
  BY <1>5, <1>7, AddIs DEF FrameIs
<1>9. \A x : WithFile(x, p).path = x.path
  BY DEF WithFile
<1> HIDE DEF stack
<1>10. sign = [phase |-> sign.phase, todo |-> sign.todo, stack |-> sign.stack, emitted |-> sign.emitted]
  BY DEF GroupInv, Phased
<1> DEFINE left == sign.todo \ {p}
<1>11. sign' = [sign EXCEPT !.todo = left, !.stack = stack]
  BY DEF stack, base, opened
<1> HIDE DEF left
<1>12. /\ sign' = [phase |-> sign'.phase, todo |-> sign'.todo, stack |-> sign'.stack, emitted |-> sign'.emitted]
       /\ sign'.phase = sign.phase /\ sign'.todo = left /\ sign'.emitted = sign.emitted /\ sign'.stack = stack
  BY <1>10, <1>11, SignFields
<1>13. \A i \in 1..M :
                    /\ FrameIs(sign, base[i])
                    /\ base[i].path = SubSeq(p, 1, Low(p) + i - 1)
                    /\ sign'.stack[i].path = SubSeq(p, 1, Low(p) + i - 1)
                    /\ sign'.stack[i] = IF i = M THEN WithFile(base[i], p) ELSE base[i]
  BY <1>6, <1>8, <1>9, <1>12
<1>14. QED
  BY <1>8, <1>12, <1>13 DEF left

\* p is taken.
TakeOf(p) ==
    /\ sign.phase = "streaming" /\ ~Closing /\ p \in sign.todo /\ NextFile(p)
    /\ sign' = [sign EXCEPT !.todo = @ \ {p}, !.stack = AddFile(sign.stack \o Opened(p), p)]

\* Every ancestor of the file has a frame now, and no other directory moves.
LEMMA TakeMoves ==
    ASSUME Env, WalkInv(walk), GroupInv(sign), NEW p, TakeOf(p)
    PROVE  /\ Handed(sign') = Handed(sign) \cup {p}
           /\ OnStack(sign') = Accountable(p)
           /\ Closed(sign') = Closed(sign)
<1> DEFINE M == Len(p) - Low(p)
<1>1. sign.phase = "streaming" /\ ~Closing /\ p \in sign.todo /\ NextFile(p)
  BY DEF TakeOf
<1>2. /\ p \in walk.files /\ p \in Files /\ p \in Paths /\ Len(p) \in Nat /\ Low(p) \in Nat
      /\ Depth \in Nat /\ Low(p) + Depth <= Len(p)
      /\ \A i \in 1..Depth : sign.stack[i].path = SubSeq(p, 1, Low(p) + i - 1)
  BY <1>1, StackAbove
<1>3. /\ sign'.phase = sign.phase /\ sign'.todo = sign.todo \ {p} /\ sign'.emitted = sign.emitted
      /\ Len(sign'.stack) = M
      /\ \A i \in 1..M : sign'.stack[i].path = SubSeq(p, 1, Low(p) + i - 1)
  BY <1>1, TakeIs DEF TakeOf
<1>4. walk.files \subseteq Files /\ Len(sign.stack) = Depth /\ Written(sign) /\ sign.todo \subseteq walk.files
  BY <1>1 DEF WalkInv, WalkStates, Depth, GroupInv, Phased
<1>5. Handed(sign') = Handed(sign) \cup {p}
  BY <1>1, <1>3, <1>4 DEF Handed
<1>6. ASSUME NEW d \in OnStack(sign')
      PROVE  d \in Accountable(p)
  <2>1. PICK i \in 1..M : d = SubSeq(p, 1, Low(p) + i - 1)
    BY <1>3, <1>6 DEF OnStack
  <2>2. Low(p) + i - 1 \in 0..Len(p) /\ Low(p) <= Low(p) + i - 1 /\ Low(p) + i - 1 < Len(p)
    BY <1>2
  <2>3. d \in Paths /\ Len(d) = Low(p) + i - 1 /\ Under(p, d)
    BY <1>2, <2>1, <2>2, CutIs, UnderCut
  <2>4. QED
    BY <1>2, <2>2, <2>3, AccountableIs
<1>7. ASSUME NEW d \in Accountable(p)
      PROVE  d \in OnStack(sign')
  <2> DEFINE i == Len(d) - Low(p) + 1
  <2>1. d \in Paths /\ Under(p, d) /\ Low(p) <= Len(d) /\ Len(d) < Len(p) /\ Len(d) \in Nat
    BY <1>2, AccountableIs DEF Paths
  <2>2. i \in 1..M /\ Low(p) + i - 1 = Len(d)
    BY <1>2, <2>1
  <2>3. sign'.stack[i].path = d
    BY <1>3, <2>1, <2>2 DEF Under
  <2>4. QED
    BY <1>3, <2>2, <2>3 DEF OnStack
<1>8. OnStack(sign') = Accountable(p)
  BY <1>6, <1>7
<1>9. OnStack(sign) \subseteq Accountable(p)
  <2>1. ASSUME NEW i \in 1..Depth
        PROVE  sign.stack[i].path \in OnStack(sign')
    <3>1. i \in 1..M
      BY <1>2
    <3>2. QED
      BY <1>2, <1>3, <3>1 DEF OnStack
  <2>2. QED
    BY <1>4, <1>8, <2>1 DEF OnStack
<1>10. \A d \in Dirs : d \in Accountable(p) <=> Under(p, d)
  BY <1>2, <1>4, DirsAre, AccountableIs
<1>11. \A d \in Closed(sign) : ~Under(p, d)
  BY <1>1, <1>4 DEF Written
<1>12. Closed(sign') = Closed(sign)
  BY <1>5, <1>8, <1>9, <1>10, <1>11 DEF Closed
<1>13. QED
  BY <1>5, <1>8, <1>12

\* Only the folder the file lies in learns of it.
LEMMA TakeTells ==
    ASSUME Env, WalkInv(walk), GroupInv(sign), NEW p, TakeOf(p), NEW x
    PROVE  /\ FileEntries(sign', x) = IF Direct(p, x) /\ Digest(p) # None
                                      THEN FileEntries(sign, x) \cup {<<Name(p), Digest(p)>>}
                                      ELSE FileEntries(sign, x)
           /\ DirEntries(sign', x) = DirEntries(sign, x)
           /\ Lacks(sign', x) <=> Lacks(sign, x) \/ (Direct(p, x) /\ Digest(p) = None)
<1>1. Handed(sign') = Handed(sign) \cup {p} /\ Closed(sign') = Closed(sign)
  BY TakeMoves
<1>2. sign'.emitted = sign.emitted
  BY TakeIs DEF TakeOf
<1>3. DirEntries(sign', x) = DirEntries(sign, x) /\ Sent(sign') = Sent(sign)
  BY <1>2 DEF DirEntries, Sent
<1>4. Lacks(sign', x) <=> Lacks(sign, x) \/ (Direct(p, x) /\ Digest(p) = None)
  BY <1>1, <1>3 DEF Lacks
<1>5. FileEntries(sign', x) = IF Direct(p, x) /\ Digest(p) # None
                              THEN FileEntries(sign, x) \cup {<<Name(p), Digest(p)>>}
                              ELSE FileEntries(sign, x)
  <2>1. CASE Direct(p, x) /\ Digest(p) # None
    <3>1. {g \in Handed(sign') : Direct(g, x) /\ Digest(g) # None}
             = {g \in Handed(sign) : Direct(g, x) /\ Digest(g) # None} \cup {p}
      BY <1>1, <2>1
    <3>2. QED
      BY <2>1, <3>1 DEF FileEntries
  <2>2. CASE ~(Direct(p, x) /\ Digest(p) # None)
    <3>1. {g \in Handed(sign') : Direct(g, x) /\ Digest(g) # None}
             = {g \in Handed(sign) : Direct(g, x) /\ Digest(g) # None}
      BY <1>1, <2>2
    <3>2. QED
      BY <2>2, <3>1 DEF FileEntries
  <2>3. QED
    BY <2>1, <2>2
<1>6. QED
  BY <1>3, <1>4, <1>5

\* The frames are right when a file has been taken.
LEMMA TakeStack ==
    ASSUME Env, WalkInv(walk), GroupInv(sign), NEW p, TakeOf(p)
    PROVE  Chain(sign') /\ \A i \in 1..Len(sign'.stack) : FrameIs(sign', sign'.stack[i])
<1> DEFINE M == Len(p) - Low(p)
<1>1. sign.phase = "streaming" /\ ~Closing /\ p \in sign.todo /\ NextFile(p)
  BY DEF TakeOf
<1>2. p \in Files /\ p \in Paths /\ Len(p) \in Nat /\ Low(p) \in Nat
  BY <1>1, StackAbove
<1>3. Sequenced(sign'.stack) /\ Len(sign'.stack) = M
  BY <1>1, TakeIs DEF TakeOf
<1>4. PICK base :
         \A i \in 1..M :
            /\ FrameIs(sign, base[i])
            /\ base[i].path = SubSeq(p, 1, Low(p) + i - 1)
            /\ sign'.stack[i].path = SubSeq(p, 1, Low(p) + i - 1)
            /\ sign'.stack[i] = IF i = M THEN WithFile(base[i], p) ELSE base[i]
  BY <1>1, TakeIs DEF TakeOf
<1>5. Chain(sign')
  <2>1. p \in Handed(sign')
    BY TakeMoves
  <2>2. Low(p) + M <= Len(p)
    BY <1>2
  <2>3. QED
    BY <1>3, <1>4, <2>1, <2>2 DEF Chain
<1>6. ASSUME NEW i \in 1..M
      PROVE  FrameIs(sign', sign'.stack[i])
  <2> DEFINE f == base[i]
             g == sign'.stack[i]
             x == SubSeq(p, 1, Low(p) + i - 1)
  <2>1. Low(p) + i - 1 \in 0..Len(p)
    BY <1>2
  <2>2. x \in Paths /\ Len(x) = Low(p) + i - 1 /\ Under(p, x)
    BY <1>2, <2>1, CutIs, UnderCut
  <2>3. FrameIs(sign, f) /\ f.path = x /\ g.path = x /\ g = IF i = M THEN WithFile(f, p) ELSE f
    BY <1>4
  <2> HIDE DEF x, f, g
  <2>4. Direct(p, x) <=> i = M
    <3>1. Len(p) = Len(x) + 1 <=> i = M
      BY <1>2, <2>2
    <3>2. QED
      BY <2>2, <3>1 DEF Direct
  <2>5. /\ FileEntries(sign', x) = IF i = M /\ Digest(p) # None
                                   THEN FileEntries(sign, x) \cup {<<Name(p), Digest(p)>>}
                                   ELSE FileEntries(sign, x)
        /\ DirEntries(sign', x) = DirEntries(sign, x)
        /\ Lacks(sign', x) <=> Lacks(sign, x) \/ (i = M /\ Digest(p) = None)
    BY <2>4, TakeTells
  <2>6. CASE i # M
    <3>1. g = f
      BY <2>3, <2>6
    <3>2. FileEntries(sign', x) = FileEntries(sign, x) /\ (Lacks(sign', x) <=> Lacks(sign, x))
      BY <2>5, <2>6
    <3>3. FrameIs(sign', f)
      BY <2>3, <2>5, <3>2 DEF FrameIs
    <3>4. QED
      BY <3>1, <3>3 DEF g
  <2>7. CASE i = M /\ Digest(p) = None
    <3>1. g = [path |-> f.path, entries |-> f.entries, incomplete |-> TRUE]
      BY <2>3, <2>7 DEF WithFile
    <3>2. /\ g = [path |-> g.path, entries |-> g.entries, incomplete |-> g.incomplete]
          /\ g.entries = f.entries /\ g.incomplete = TRUE
      BY <3>1
    <3>3. FrameIs(sign', g)
      BY <2>3, <2>5, <2>7, <3>2 DEF FrameIs
    <3>4. QED
      BY <3>3 DEF g
  <2>8. CASE i = M /\ Digest(p) # None
    <3>1. g = [path |-> f.path, entries |-> f.entries \cup {<<Name(p), Digest(p)>>}, incomplete |-> f.incomplete]
      BY <2>3, <2>8 DEF WithFile
    <3>2. /\ g = [path |-> g.path, entries |-> g.entries, incomplete |-> g.incomplete]
          /\ g.entries = f.entries \cup {<<Name(p), Digest(p)>>} /\ g.incomplete = f.incomplete
      BY <3>1
    <3>3. FrameIs(sign', g)
      BY <2>3, <2>5, <2>8, <3>2 DEF FrameIs
    <3>4. QED
      BY <3>3 DEF g
  <2>9. QED
    BY <2>6, <2>7, <2>8 DEF g
<1>7. QED
  BY <1>3, <1>5, <1>6

\* build_dir_signatures_streaming_in_context, the next file.
LEMMA TakeKeeps ==
    ASSUME Env, WalkInv(walk), GroupInv(sign), TakeFile
    PROVE  GroupInv(sign')
<1>1. PICK p : TakeOf(p)
  BY DEF TakeFile, TakeOf
<1>2. sign.phase = "streaming" /\ ~Closing /\ p \in sign.todo /\ NextFile(p)
  BY <1>1 DEF TakeOf
<1>3. /\ Phased(sign) /\ Written(sign) /\ Paired(sign)
  BY DEF GroupInv
<1>4. /\ sign' = [phase |-> sign'.phase, todo |-> sign'.todo, stack |-> sign'.stack, emitted |-> sign'.emitted]
      /\ sign'.phase = sign.phase /\ sign'.todo = sign.todo \ {p} /\ sign'.emitted = sign.emitted
  BY <1>1, <1>2, TakeIs DEF TakeOf
<1>5. Handed(sign') = Handed(sign) \cup {p} /\ Closed(sign') = Closed(sign)
  BY <1>1, TakeMoves
<1>6. Phased(sign')
  <2>1. \A g \in sign.todo : g # p => Before(Ok(p), Ok(g))
    BY <1>2 DEF NextFile, Ok
  <2>2. \A f \in Handed(sign'), g \in sign'.todo : Before(Ok(f), Ok(g))
    BY <1>3, <1>4, <1>5, <2>1 DEF Phased
  <2>3. QED
    BY <1>2, <1>3, <1>4, <2>2 DEF Phased
<1>7. Chain(sign') /\ \A i \in 1..Len(sign'.stack) : FrameIs(sign', sign'.stack[i])
  BY <1>1, TakeStack
<1>8. Written(sign')
  <2>1. Sent(sign') = Sent(sign)
    BY <1>4 DEF Sent
  <2>2. ASSUME NEW e \in sign.emitted
        PROVE  e = RecordOf(sign', e.path)
    <3>1. e = RecordOf(sign, e.path) /\ e.path \in Closed(sign)
      BY <1>3 DEF Written, Sent
    <3>2. ~Direct(p, e.path)
      BY <1>2, <1>3, <3>1 DEF Written, Direct
    <3>3. RecordOf(sign', e.path) = RecordOf(sign, e.path)
      BY <1>1, <3>2, TakeTells DEF RecordOf
    <3>4. QED
      BY <3>1, <3>3
  <2>3. QED
    BY <1>3, <1>4, <1>5, <2>1, <2>2 DEF Written
<1>9. Paired(sign')
  BY <1>3, <1>4 DEF Paired
<1>10. QED
  BY <1>6, <1>7, <1>8, <1>9 DEF GroupInv

-----------------------------------------------------------------------------
(* What the groups say                                                     *)

\* When the build is through, both algorithms describe and pair the same directories (AlgorithmsAgree).
LEMMA Agree ==
    ASSUME Env, WalkInv(walk), GroupInv(sign)
    PROVE  AlgorithmsAgree
<1> SUFFICES ASSUME sign.phase = "done"
             PROVE  /\ Sent(sign) = OldDirs
                    /\ \A a, b \in sign.emitted :
                          (a.sig = b.sig) <=> (OldSignature(a.path) = OldSignature(b.path))
  BY DEF AlgorithmsAgree, Sent
<1>1. Phased(sign) /\ Written(sign) /\ Paired(sign) /\ walk.files \subseteq Files
  BY DEF GroupInv, WalkInv, WalkStates
<1>2. sign.todo = {} /\ sign.stack = <<>>
  BY <1>1 DEF Phased
<1>3. Handed(sign) = walk.files
  BY <1>2 DEF Handed
<1>4. OnStack(sign) = {}
  BY <1>2 DEF OnStack
<1>5. \A d \in Dirs, f \in walk.files : d \in Accountable(f) <=> Under(f, d)
  BY <1>1, DirsAre, AccountableIs
<1>6. \A d \in Dirs : \E f \in walk.files : Under(f, d)
  BY <1>5 DEF Dirs
<1>7. Closed(sign) = Dirs
  BY <1>3, <1>4, <1>6 DEF Closed
<1>8. OldDirs = {d \in Dirs : Whole(d)}
  BY <1>5 DEF OldDirs, Dirs, Whole
<1>9. QED
  BY <1>1, <1>7, <1>8 DEF Written, Paired

\* Nothing is missing under a directory that is trusted.
LEMMA TrustedHolds ==
    ASSUME Env, WalkInv(walk), WalkDone, NEW d \in Dirs, Disposition(d) = "Trusted",
           NEW f \in Files, Under(f, d), world.fate[f] \notin {"own", "excluded"}
    PROVE  f \in walk.files
<1> SUFFICES ASSUME f \notin walk.files
             PROVE  FALSE
  OBVIOUS
<1> DEFINE i == OwningRoot(d)
           R == Roots[i]
<1>1. walk.files \subseteq Files /\ Manifest(walk) /\ NotEntered(walk)
  BY DoneIs DEF WalkStates
<1>2. keyable /\ HasOwningRoot(d) /\ ~OmittedAtOrUnder(R, d)
  BY DEF Disposition
<1>3. d \in Paths /\ Len(d) \in Nat /\ f \in Paths /\ f \in Entries /\ Len(f) \in Nat /\ Len(d) <= Len(f)
  BY <1>1, DirsAre, EntryPaths DEF Files, Paths, Under
<1>4. i \in DOMAIN Roots /\ Under(d, R) /\ R \in Paths
  BY <1>2, <1>3, OwnRoot, RootAt DEF HasOwningRoot
<1>5. Under(f, R) /\ OwningRoot(f) = i
  BY <1>3, <1>4, UnderTrans, OwnRoot
<1>6. PICK p \in Lost : Under(f, p) /\ Under(p, R)
  BY <1>5, Gapless
<1>7. /\ p \in Entries /\ p \in Paths /\ Len(p) \in Nat
      /\ world.fate[p] \in {"nometa", "filtered", "nonutf8", "special", "error", "shut", "blindshut", "blind"}
  BY EntryPaths DEF Lost, Paths
<1>8. OwningRoot(p) = i
  BY <1>4, <1>6, <1>7, OwnRoot
<1>9. LostCell(p) \in DOMAIN walk.cells /\ LostCell(p) = <<R, LostAt(p), LostReason(p)>>
  BY <1>2, <1>8, EachOnce DEF OneEventEach, LostCell
<1>10. ~Under(LostAt(p), d)
  BY <1>2, <1>9 DEF OmittedAtOrUnder
<1>11. PICK q \in walk.files : d \in Accountable(q)
  BY DEF Dirs
<1>12. q \in Files /\ q \in Entries /\ q \in Paths /\ Under(q, d) /\ Len(d) < Len(q) /\ Len(q) \in Nat
  BY <1>1, <1>11, LowIs, AccountableIs DEF Files
<1>13. Under(q, R)
  BY <1>3, <1>4, <1>12, UnderTrans
<1>14. CASE Len(p) < Len(d)
  <2>1. Under(d, p)
    BY <1>3, <1>6, <1>7, <1>14, UnderBoth
  <2>2. Under(q, p) /\ q # p /\ f # p
    BY <1>3, <1>7, <1>12, <1>14, <2>1, UnderTrans
  <2>3. p \in Folders
    BY <1>3, <1>6, <1>7, <2>2, FileEnds DEF Files
  <2>4. world.fate[p] \in {"shut", "blindshut", "blind"}
    BY <1>7, <2>3, Fates DEF FolderFates
  <2>5. Met(walk, Ok(q))
    BY <1>1, <1>11 DEF Manifest
  <2>6. PICK j \in DOMAIN Roots : Given(Ok(q), Roots[j])
    BY <2>5, DoneIs
  <2>7. Reached(q, Roots[j]) /\ Under(q, Roots[j])
    BY <2>6, OkOf DEF Given, Reached
  <2>8. j = i
    BY <1>4, <1>12, <1>13, <2>7, OneRoot
  <2>9. Entered(p)
    BY <1>6, <2>2, <2>3, <2>7, <2>8 DEF Reached
  <2>10. world.fate[p] = "blind"
    BY <2>4, <2>9 DEF Entered
  <2>11. Met(walk, Ok(p))
    <3>1. PICK k \in DOMAIN Roots : Reached(p, Roots[k])
      BY DEF Lost, SomeRoot
    <3>2. Given(Ok(p), Roots[k]) <=> Reached(p, Roots[k]) /\ world.fate[p] \notin {"error", "excluded"}
      BY DEF Given, Ok
    <3>3. QED
      BY <2>10, <3>1, <3>2, DoneIs
  <2>12. QED
    BY <1>1, <1>12, <2>2, <2>3, <2>5, <2>10, <2>11 DEF NotEntered
<1>15. CASE ~(Len(p) < Len(d))
  <2>1. Under(p, d)
    BY <1>3, <1>6, <1>7, <1>15, UnderBoth
  <2>2. LostAt(p) = Parent(p) /\ LostReason(p) # "WalkError"
    BY <1>10, <2>1 DEF LostAt
  <2>3. p \in Files
    BY <1>7, <2>2, Fates DEF LostReason, FolderFates
  <2>4. d \in Folders
    BY <1>3, <1>4, <1>12, FoldersAbove
  <2>5. p # d
    BY <2>3, <2>4 DEF Files
  <2>6. Len(p) # Len(d)
    BY <1>3, <1>7, <2>1, <2>5, UnderIs, SamePath
  <2>7. Len(p) - 1 \in 0..Len(p) /\ Len(d) <= Len(p) - 1
    BY <1>3, <1>7, <1>15, <2>6
  <2>8. Under(Parent(p), d)
    BY <1>3, <1>7, <2>1, <2>7, CutUnder DEF Parent
  <2>9. QED
    BY <1>10, <2>2, <2>8
<1>16. QED
  BY <1>14, <1>15

\* What lies below one of two trusted directories whose files match lies below the other.
LEMMA TruthIn ==
    ASSUME Env, WalkInv(walk), WalkDone, NEW a \in Dirs, NEW b \in Dirs, Whole(a), Whole(b),
           Disposition(a) = "Trusted", Match(a, b)
    PROVE  Truth(a) \subseteq Truth(b)
<1> DEFINE Row(f, d) == <<SubSeq(f, Len(d) + 1, Len(f)), world.fate[f] = "special", world.content[f]>>
<1>1. walk.files \subseteq Files /\ \A f \in walk.files : world.fate[f] = "kept"
  BY DoneIs DEF WalkStates, Manifest
<1> SUFFICES ASSUME NEW f \in Files, Under(f, a), world.fate[f] \notin {"own", "excluded"}
             PROVE  Row(f, a) \in Truth(b)
  BY DEF Truth
<1>2. f \in walk.files
  BY TrustedHolds
<1>3. PICK g \in walk.files : Under(g, b) /\ Same(f, a, g, b)
  BY <1>2 DEF Match
<1>4. f \in Paths /\ g \in Paths /\ a \in Paths /\ b \in Paths
  BY <1>1, EntryPaths, DirsAre
<1>5. SubSeq(f, Len(a) + 1, Len(f)) = SubSeq(g, Len(b) + 1, Len(g))
  <2>1. <<SubSeq(f, Len(a) + 1, Len(f)), Digest(f)>> = <<SubSeq(g, Len(b) + 1, Len(g)), Digest(g)>>
    BY <1>3, <1>4, SuffixSame
  <2>2. QED
    BY <2>1
<1>6. world.content[f] = world.content[g]
  <2>1. Digest(f) # None /\ Digest(g) # None /\ Digest(f) = Digest(g)
    BY <1>2, <1>3 DEF Whole, Same
  <2>2. <<world.content[f]>> = <<world.content[g]>>
    BY <2>1, DigestIs
  <2>3. QED
    BY <2>2
<1>7. world.fate[f] = "kept" /\ world.fate[g] = "kept"
  BY <1>1, <1>2
<1>8. Row(f, a) = Row(g, b)
  BY <1>5, <1>6, <1>7
<1>9. Row(g, b) \in Truth(b)
  BY <1>1, <1>3, <1>7 DEF Truth
<1>10. QED
  BY <1>8, <1>9

\* Directories shown as trusted duplicates hold the same files (TwinsAreTwins).
LEMMA Twins ==
    ASSUME Env, WalkInv(walk), GroupInv(sign)
    PROVE  TwinsAreTwins
<1> SUFFICES ASSUME NEW a \in Grouped, NEW b \in Grouped,
                    a.trust = "Trusted", b.trust = "Trusted", a.sig = b.sig
             PROVE  Truth(a.path) = Truth(b.path)
  BY DEF TwinsAreTwins
<1>1. Phased(sign) /\ Written(sign) /\ Paired(sign) /\ walk.files \subseteq Files
  BY DEF GroupInv, WalkInv, WalkStates
<1>2. a \in sign.emitted /\ b \in sign.emitted
  BY DEF Grouped
<1>3. WalkDone
  BY <1>1, <1>2 DEF Phased
<1>4. \A e \in sign.emitted : e.path \in Dirs /\ Whole(e.path) /\ e.trust = Disposition(e.path)
  <2> TAKE e \in sign.emitted
  <2>1. e.path \in Dirs /\ Whole(e.path) /\ e = RecordOf(sign, e.path)
    BY <1>1 DEF Written, Sent, Closed
  <2>2. e.trust = Disposition(e.path)
    BY <2>1 DEF RecordOf
  <2>3. QED
    BY <2>1, <2>2
<1>5. OldSignature(a.path) = OldSignature(b.path)
  BY <1>1, <1>2 DEF Paired
<1>6. Match(a.path, b.path) /\ Match(b.path, a.path)
  BY <1>1, <1>2, <1>4, <1>5, OldSame
<1>7. Truth(a.path) \subseteq Truth(b.path) /\ Truth(b.path) \subseteq Truth(a.path)
  BY <1>2, <1>3, <1>4, <1>6, TruthIn
<1>8. QED
  BY <1>7

-----------------------------------------------------------------------------
(* The whole scan                                                          *)

\* The inductive invariant.
IInv ==
    /\ Env
    /\ WalkInv(walk)
    /\ GroupInv(sign)
    /\ StatusInv

\* build_dir_signatures_streaming_in_context, the sort.
LEMMA BeginKeeps ==
    ASSUME Env, WalkInv(walk), GroupInv(sign), BeginGrouping
    PROVE  GroupInv(sign')
<1>1. /\ sign = [phase |-> sign.phase, todo |-> sign.todo, stack |-> sign.stack, emitted |-> sign.emitted]
      /\ sign.stack = <<>> /\ sign.emitted = {}
      /\ sign' = [sign EXCEPT !.phase = "streaming", !.todo = walk.files]
      /\ WalkDone
  BY DEF BeginGrouping, GroupInv, Phased, WalkDone
<1>2. sign' = [phase |-> "streaming", todo |-> walk.files, stack |-> <<>>, emitted |-> {}]
  BY <1>1
<1>3. sign'.phase = "streaming" /\ sign'.todo = walk.files /\ sign'.stack = <<>> /\ sign'.emitted = {}
  BY <1>2
<1>4. Len(<<>>) = 0 /\ Sequenced(<<>>)
  BY EmptySeq, SequencedIs
<1>5. Handed(sign') = {}
  BY <1>3 DEF Handed
<1>6. Phased(sign')
  BY <1>1, <1>2, <1>3, <1>5 DEF Phased
<1>7. Chain(sign') /\ \A i \in 1..Len(sign'.stack) : FrameIs(sign', sign'.stack[i])
  BY <1>3, <1>4 DEF Chain
<1>8. Written(sign') /\ Paired(sign')
  BY <1>3, <1>5 DEF Written, Paired, Closed, Sent
<1>9. QED
  BY <1>6, <1>7, <1>8 DEF GroupInv

\* run_phases, the end of the grouping.
LEMMA CompleteKeeps ==
    ASSUME Env, WalkInv(walk), GroupInv(sign), CompleteScan
    PROVE  GroupInv(sign')
<1>1. /\ sign = [phase |-> sign.phase, todo |-> sign.todo, stack |-> sign.stack, emitted |-> sign.emitted]
      /\ sign' = [sign EXCEPT !.phase = "done"]
      /\ sign.phase = "streaming" /\ sign.todo = {} /\ sign.stack = <<>>
      /\ Phased(sign) /\ Chain(sign) /\ Written(sign) /\ Paired(sign)
  BY DEF CompleteScan, GroupInv, Phased
<1>2. sign' = [phase |-> "done", todo |-> {}, stack |-> <<>>, emitted |-> sign.emitted]
  BY <1>1
<1>3. sign'.phase = "done" /\ sign'.todo = {} /\ sign'.stack = <<>> /\ sign'.emitted = sign.emitted
  BY <1>2
<1>4. Len(<<>>) = 0 /\ Sequenced(<<>>)
  BY EmptySeq, SequencedIs
<1>5. Handed(sign') = Handed(sign)
  BY <1>1, <1>3 DEF Handed
<1>6. OnStack(sign') = OnStack(sign)
  BY <1>1, <1>3 DEF OnStack
<1>7. Closed(sign') = Closed(sign) /\ Sent(sign') = Sent(sign)
  BY <1>3, <1>5, <1>6 DEF Closed, Sent
<1>8. \A d : RecordOf(sign', d) = RecordOf(sign, d)
  BY <1>3, <1>5 DEF RecordOf, FileEntries, DirEntries
<1>9. Phased(sign')
  BY <1>1, <1>2, <1>3, <1>5 DEF Phased
<1>10. Chain(sign') /\ \A i \in 1..Len(sign'.stack) : FrameIs(sign', sign'.stack[i])
  BY <1>3, <1>4 DEF Chain
<1>11. Written(sign') /\ Paired(sign')
  BY <1>1, <1>3, <1>7, <1>8 DEF Written, Paired
<1>12. QED
  BY <1>9, <1>10, <1>11 DEF GroupInv

\* The grouping reads the walk and the disk, and neither changes under it.
LEMMA SameWalk ==
    ASSUME world' = world, keyable' = keyable, walk' = walk, GroupInv(sign')
    PROVE  GroupInv(sign)'
<1>1. ASSUME NEW f
      PROVE  Digest(f)' = Digest(f)
  <2>1. Eligible(f)' <=> Eligible(f)
    BY DEF Eligible
  <2>2. QED
    BY <2>1 DEF Digest
<1>2. ASSUME NEW d
      PROVE  Disposition(d)' = Disposition(d)
  <2>1. \A r : OmittedAtOrUnder(r, d)' <=> OmittedAtOrUnder(r, d)
    BY DEF OmittedAtOrUnder
  <2>2. QED
    BY <2>1 DEF Disposition
<1>3. \A f : Accountable(f)' = Accountable(f)
  BY DEF Accountable
<1>4. Dirs' = Dirs
  BY <1>3 DEF Dirs
<1>5. \A q : Low(q)' = Low(q)
  BY DEF Low
<1>6. WalkDone' <=> WalkDone
  BY DEF WalkDone
<1>7. \A d : Whole(d)' <=> Whole(d)
  BY <1>1, <1>2 DEF Whole
<1>8. \A d : OldSignature(d)' = OldSignature(d)
  BY <1>1, <1>3 DEF OldSignature
<1>9. Handed(sign)' = Handed(sign')
  BY DEF Handed
<1>10. OnStack(sign)' = OnStack(sign') /\ Sent(sign)' = Sent(sign')
  BY DEF OnStack, Sent
<1>11. Closed(sign)' = Closed(sign')
  BY <1>4, <1>9, <1>10 DEF Closed
<1>12. \A d : FileEntries(sign, d)' = FileEntries(sign', d)
  BY <1>1, <1>9 DEF FileEntries
<1>13. \A d : DirEntries(sign, d)' = DirEntries(sign', d)
  BY DEF DirEntries
<1>14. \A d : Lacks(sign, d)' <=> Lacks(sign', d)
  BY <1>1, <1>9, <1>10, <1>11 DEF Lacks
<1>15. \A d : RecordOf(sign, d)' = RecordOf(sign', d)
  BY <1>2, <1>12, <1>13 DEF RecordOf
<1>16. Phased(sign)'
  BY <1>6, <1>9 DEF GroupInv, Phased
<1>17. Chain(sign)'
  BY <1>5, <1>9 DEF GroupInv, Chain
<1>18. (\A i \in 1..Len(sign.stack) : FrameIs(sign, sign.stack[i]))'
  BY <1>12, <1>13, <1>14 DEF GroupInv, FrameIs
<1>19. Written(sign)'
  BY <1>7, <1>10, <1>11, <1>15 DEF GroupInv, Written
<1>20. Paired(sign)'
  BY <1>8 DEF GroupInv, Paired
<1>21. QED
  BY <1>16, <1>17, <1>18, <1>19, <1>20 DEF GroupInv

\* The walk's invariant reads the disk and the keys, and neither changes.
LEMMA SameDisk ==
    ASSUME world' = world, keyable' = keyable, WalkInv(walk')
    PROVE  WalkInv(walk)'
<1>1. \A x, r : Given(x, r)' <=> Given(x, r)
  BY DEF Given, Reached, Entered
<1>2. \A x : Met(walk, x)' <=> Met(walk', x)
  BY <1>1 DEF Met
<1>3. \A p : LostCell(p)' = LostCell(p)
  BY DEF LostCell, LostAt, LostReason
<1>4. LostAs(walk, walk.unverified)' = LostAs(walk', walk'.unverified)
  BY <1>2 DEF LostAs
<1>5. Account(walk, LostAs(walk, walk.unverified))' <=> Account(walk', LostAs(walk', walk'.unverified))
  BY <1>3, <1>4 DEF Account
<1>6. Ordered(walk)' <=> Ordered(walk')
  BY <1>1, <1>2 DEF Ordered
<1>7. Over(walk)' <=> Over(walk')
  BY DEF Over
<1>8. Live(walk)' <=> Live(walk')
  BY DEF Live
<1>9. Manifest(walk)' <=> Manifest(walk')
  <2>1. \A d : Identity(d)' = Identity(d)
    BY DEF Identity
  <2>2. QED
    BY <1>2, <2>1 DEF Manifest
<1>10. Waiting(walk)' <=> Waiting(walk')
  BY <1>2 DEF Waiting
<1>11. NotEntered(walk)' <=> NotEntered(walk')
  BY <1>2 DEF NotEntered
<1>12. QED
  BY <1>5, <1>6, <1>7, <1>8, <1>9, <1>10, <1>11 DEF WalkInv

\* Before the grouping begins there is nothing the walk could disturb.
LEMMA IdleKeeps ==
    ASSUME GroupInv(sign), sign.phase = "idle", UNCHANGED sign
    PROVE  GroupInv(sign)'
BY EmptySeq DEF GroupInv, Phased, Chain, Written, Paired, Handed, Closed, Sent, Sequenced

\* A clean status stays clean: what it was drawn from does not change any more.
LEMMA SameStatus ==
    ASSUME StatusInv, UNCHANGED <<world, keyable, walk, status>>
    PROVE  StatusInv'
<1>1. \A f : (Eligible(f)' <=> Eligible(f)) /\ Digest(f)' = Digest(f)
  BY DEF Eligible, Digest
<1>2. HashFailures' = HashFailures
  BY <1>1 DEF HashFailures
<1>3. WarningEvents' = WarningEvents
  BY DEF WarningEvents
<1>4. WalkDone' <=> WalkDone
  BY DEF WalkDone
<1>5. QED
  BY <1>2, <1>3, <1>4 DEF StatusInv

\* Every step of the walk finds it without an outcome, and leaves a sound account.
LEMMA WalkNextKeeps ==
    ASSUME Env, WalkInv(walk), WalkNext
    PROVE  Env' /\ WalkInv(walk)' /\ walk.outcome = None
<1>1. CASE Stop
  <2>1. walk.outcome = None /\ Env' /\ UNCHANGED <<world, keyable, walk>>
    BY <1>1 DEF Stop, Env
  <2>2. WalkInv(walk')
    BY <2>1
  <2>3. QED
    BY <2>1, <2>2, SameDisk
<1>2. CASE NextRoot
  <2>1. walk.outcome = None /\ Env' /\ UNCHANGED <<world, keyable>>
    BY <1>2 DEF NextRoot, Env
  <2>2. QED
    BY <1>2, <2>1, NextRootKeeps, SameDisk
<1>3. CASE WalkStopped
  <2>1. walk.outcome = None /\ Env' /\ UNCHANGED <<world, keyable>>
    BY <1>3 DEF WalkStopped, Env
  <2>2. QED
    BY <1>3, <2>1, WalkStoppedKeeps, SameDisk
<1>4. CASE Absorb
  <2>1. walk.outcome = None /\ Env' /\ UNCHANGED <<world, keyable>>
    BY <1>4 DEF Absorb, Env
  <2>2. PICK x \in walk.todo : IsFirst(x, walk.todo) /\ walk' = Absorbed(x)
    BY <1>4 DEF Absorb, Absorbed, Relieved, Lighter
  <2>3. WalkInv(walk')
    BY <2>1, <2>2, AbsorbKeeps
  <2>4. QED
    BY <2>1, <2>3, SameDisk
<1>5. CASE WalkFinished
  <2>1. walk.outcome = None /\ Env' /\ UNCHANGED <<world, keyable>>
    BY <1>5 DEF WalkFinished, Env
  <2>2. QED
    BY <1>5, <2>1, WalkFinishedKeeps, SameDisk
<1>6. QED
  BY <1>1, <1>2, <1>3, <1>4, <1>5 DEF WalkNext

\* The first state.
LEMMA Starts ==
    ASSUME TwinsInit
    PROVE  IInv
<1>1. Env /\ WalkInv(walk)
  BY WalkStarts DEF TwinsInit
<1>2. sign = [phase |-> "idle", todo |-> {}, stack |-> <<>>, emitted |-> {}]
  BY DEF TwinsInit
<1>3. sign.phase = "idle" /\ sign.todo = {} /\ sign.stack = <<>> /\ sign.emitted = {}
  BY <1>2
<1>4. Len(<<>>) = 0 /\ Sequenced(<<>>)
  BY EmptySeq, SequencedIs
<1>5. Handed(sign) = {}
  BY <1>3 DEF Handed
<1>6. GroupInv(sign)
  BY <1>2, <1>3, <1>4, <1>5 DEF GroupInv, Phased, Chain, Written, Paired, Closed, Sent
<1>7. StatusInv
  BY DEF TwinsInit, StatusInv
<1>8. QED
  BY <1>1, <1>6, <1>7 DEF IInv

\* Every step of a scan.
LEMMA StepKeeps ==
    ASSUME IInv, [Next]_vars
    PROVE  IInv'
<1>1. Env /\ WalkInv(walk) /\ GroupInv(sign) /\ StatusInv
  BY DEF IInv
<1>2. CASE WalkNext /\ UNCHANGED <<sign, status>>
  <2>1. Env' /\ WalkInv(walk)' /\ walk.outcome = None
    BY <1>1, <1>2, WalkNextKeeps
  <2>2. ~WalkDone
    BY <2>1, Strings DEF WalkDone
  <2>3. sign.phase = "idle"
    BY <1>1, <2>2 DEF GroupInv, Phased
  <2>4. GroupInv(sign)'
    BY <1>1, <1>2, <2>3, IdleKeeps
  <2>5. StatusInv'
    BY <1>1, <1>2, <2>2 DEF StatusInv
  <2>6. QED
    BY <2>1, <2>4, <2>5 DEF IInv
<1>3. ASSUME UNCHANGED <<world, keyable, walk>>, cancel' \in BOOLEAN, GroupInv(sign'), StatusInv'
      PROVE  IInv'
  <2>1. Env'
    BY <1>1, <1>3 DEF Env
  <2>2. WalkInv(walk')
    BY <1>1, <1>3
  <2>3. QED
    BY <1>3, <2>1, <2>2, SameWalk, SameDisk DEF IInv
<1>4. CASE BeginGrouping
  <2>1. UNCHANGED <<world, keyable, walk, cancel, status>> /\ cancel' \in BOOLEAN
    BY <1>1, <1>4 DEF BeginGrouping, walkVars, Env
  <2>2. QED
    BY <1>1, <1>3, <1>4, <2>1, BeginKeeps, SameStatus
<1>5. CASE CloseFrame
  <2>1. UNCHANGED <<world, keyable, walk, cancel, status>> /\ cancel' \in BOOLEAN
    BY <1>1, <1>5 DEF CloseFrame, walkVars, Env
  <2>2. QED
    BY <1>1, <1>3, <1>5, <2>1, CloseKeeps, SameStatus
<1>6. CASE TakeFile
  <2>1. UNCHANGED <<world, keyable, walk, cancel, status>> /\ cancel' \in BOOLEAN
    BY <1>1, <1>6 DEF TakeFile, walkVars, Env
  <2>2. QED
    BY <1>1, <1>3, <1>6, <2>1, TakeKeeps, SameStatus
<1>7. CASE CompleteScan
  <2>1. UNCHANGED <<world, keyable, walk, cancel>> /\ cancel' \in BOOLEAN
        /\ status' = OnCompletion(HashFailures, WarningEvents)
    BY <1>1, <1>7 DEF CompleteScan, walkVars, Env
  <2>2. WalkDone
    BY <1>1, <1>7 DEF CompleteScan, GroupInv, Phased
  <2>3. \A f : (Eligible(f)' <=> Eligible(f)) /\ Digest(f)' = Digest(f)
    BY <2>1 DEF Eligible, Digest
  <2>4. HashFailures' = HashFailures /\ WarningEvents' = WarningEvents /\ (WalkDone' <=> WalkDone)
    BY <2>1, <2>3 DEF HashFailures, WarningEvents, WalkDone
  <2>5. StatusInv'
    BY <2>1, <2>2, <2>4 DEF StatusInv, OnCompletion
  <2>6. QED
    BY <1>1, <1>3, <1>7, <2>1, <2>5, CompleteKeeps
<1>8. CASE StopGrouping
  <2>1. UNCHANGED <<world, keyable, walk, sign, status>> /\ cancel' \in BOOLEAN
    BY <1>8 DEF StopGrouping
  <2>2. GroupInv(sign')
    BY <1>1, <2>1
  <2>3. QED
    BY <1>1, <1>3, <2>1, <2>2, SameStatus
<1>9. CASE Rest \/ UNCHANGED vars
  <2>1. UNCHANGED <<world, keyable, walk, cancel, sign, status>> /\ cancel' \in BOOLEAN
    BY <1>1, <1>9 DEF Rest, vars, walkVars, Env
  <2>2. GroupInv(sign')
    BY <1>1, <2>1
  <2>3. QED
    BY <1>1, <1>3, <2>1, <2>2, SameStatus
<1>10. QED
  BY <1>2, <1>4, <1>5, <1>6, <1>7, <1>8, <1>9 DEF Next

\* The invariant of the whole scan: the walk's account against the disk, the frames and
\* records of the grouping against the manifest, and what a clean status stands for.
THEOREM ScanIsSound == Spec => []IInv
<1>1. TwinsInit => IInv
  BY Starts
<1>2. IInv /\ [Next]_vars => IInv'
  BY StepKeeps
<1>3. QED
  BY <1>1, <1>2, PTL DEF Spec

\* The walk and the grouping only ever hold values of their kinds (walk_collecting,
\* build_dir_signatures_streaming_in_context).
THEOREM TypeCorrect == Spec => []TypeOK
<1>1. IInv => TypeOK
  <2> SUFFICES ASSUME IInv
               PROVE  TypeOK
    OBVIOUS
  <2>1. Env /\ walk \in WalkStates /\ Phased(sign) /\ StatusInv
    BY DEF IInv, WalkInv, GroupInv
  <2>2. world \in Worlds /\ keyable \in BOOLEAN /\ cancel \in BOOLEAN
    BY <2>1 DEF Env
  <2>3. /\ walk.root \in 0..Len(Roots) /\ walk.files \subseteq Files /\ walk.dirs \subseteq Folders
        /\ walk.outcome \in Ends \cup {None} /\ walk.unverified \in Folders \cup {None}
    BY <2>1 DEF WalkStates
  <2>4. sign.phase \in {"idle", "streaming", "done"} /\ status \in {"Walking", "Complete", "CompleteWithWarnings"}
    BY <2>1 DEF Phased, StatusInv
  <2>5. QED
    BY <2>2, <2>3, <2>4 DEF TypeOK
<1>2. QED
  BY <1>1, ScanIsSound, PTL

\* A walk that can be published recorded exactly one event for each entry it left out, in the
\* account that entry belongs to, and walked no directory twice (Sink::absorb, Collector::record,
\* DirAliasGuard::note).
THEOREM WalkIsAccountedFor == Spec => []WalkIsAccounted
<1>1. IInv => WalkIsAccounted
  BY EachOnce, NoneTwice DEF IInv, WalkIsAccounted
<1>2. QED
  BY <1>1, ScanIsSound, PTL

\* A scan that ends Complete holds every file under its roots but the ones filtered out, and a
\* digest of each that could have a duplicate (on_completion over warning_events_of).
THEOREM CleanScansAreComplete == Spec => []CleanMeansComplete
<1>1. IInv => CleanMeansComplete
  BY CleanIsComplete DEF IInv
<1>2. QED
  BY <1>1, ScanIsSound, PTL

\* Trusted duplicate directories hold the same files on disk, and the streaming build puts
\* together the directories the whole-subtree build puts together, no more and no fewer
\* (build_dir_signatures_streaming_in_context against build_dir_groups_in_context).
THEOREM GroupingIsRight == Spec => []GroupingIsSound
<1>1. IInv => GroupingIsSound
  BY Twins, Agree DEF IInv, GroupingIsSound
<1>2. QED
  BY <1>1, ScanIsSound, PTL
=============================================================================
