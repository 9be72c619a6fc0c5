------------------------ MODULE OpenDatabasesProofs ------------------------
(***************************************************************************)
(* Proofs about OpenDatabases, for every number of connections, of threads *)
(* that read and rename, and of changes by others: the list says what      *)
(* SQLite holds, no close costs it its locks, and no rename takes a file   *)
(* it holds from its name.                                                 *)
(*                                                                         *)
(* The inductive invariant says, for each step an opening or a closing has *)
(* reached, which of its files the list knows by number and which by name, *)
(* and for a rename with the list held, what cannot come to lie at the     *)
(* name it has asked about.                                                *)
(***************************************************************************)
EXTENDS OpenDatabases, TLAPS

Steps == {"new", "prepared", "looked", "listed", "open", "settled", "read", "ready", "closing", "closed", "gone"}

\* No other name of the tree has this file.
Unlinked(i) == \A p \in Plain : dir[p] # i

\* A file has one of the two names at most: only new files come to them.
NamesApart ==
    /\ dir[Db] # None => dir[Db] # dir[Index]
    /\ \A c \in Conns : holds[c][Db] # None => holds[c][Db] # dir[Index]

\* SQLite holds nothing before it opens and after it closes.
HoldsOK ==
    \A c \in Conns :
        pc[c] \in {"new", "prepared", "looked", "listed", "closed", "gone"} => holds[c] = Nothing

\* The file probed first has a name still; when it is at the database's, that is what was noted.
\* A file that came to the name later is new, and has no other name.
Opening(c) ==
    /\ pc[c] \in {"prepared", "looked", "listed"} =>
        /\ before[c] # None
        /\ \E n \in Plain \cup {Db} : dir[n] = before[c]
    /\ pc[c] \in {"looked", "listed"} =>
        /\ dir[Db] = before[c] => noted[c][Db] = before[c]
        /\ dir[Db] # None /\ noted[c][Db] \notin {None, dir[Db]} => Unlinked(dir[Db])

\* What SQLite holds, and how the list knows it.
Holding(c) ==
    /\ pc[c] = "open" =>
        /\ holds[c][Db] = dir[Db] /\ dir[Db] # None /\ holds[c][Index] = None
        /\ holds[c][Db] = before[c] => noted[c][Db] = before[c]
        /\ noted[c][Db] \notin {None, holds[c][Db]} => Unlinked(holds[c][Db])
    /\ pc[c] \in {"settled", "read", "ready"} =>
        before[c] # None /\ holds[c][Db] = before[c] /\ noted[c][Db] = before[c]
    /\ pc[c] = "settled" => holds[c][Index] = None
    /\ pc[c] = "read" => holds[c][Index] = dir[Index] /\ dir[Index] # None
    /\ pc[c] = "ready" => noted[c][Index] = holds[c][Index] /\ holds[c][Index] # None
    /\ pc[c] = "closing" => Held(c) \subseteq {dir[n] : n \in Own}

Noting(c) ==
    /\ pc[c] \in {"new", "prepared", "closing", "closed", "gone"} => noted[c] = Nothing
    /\ pc[c] \in {"looked", "listed", "open", "settled", "read"} => noted[c][Index] = None

ConnOK(c) == Opening(c) /\ Holding(c) /\ Noting(c)

LostOK ==
    \A c \in lost :
        /\ pc[c] \in {"open", "settled", "read", "ready", "closing"}
        /\ c \notin blind => holds[c][Db] # before[c]

\* What lies at the name is not c's, and will not be: no file of another name comes to the
\* names of the database.
Clear(c, n) ==
    /\ dir[n] \notin Held(c)
    /\ pc[c] = "listed" => dir[n] # dir[Db]
    /\ pc[c] \in {"listed", "open", "settled"} => dir[n] # dir[Index]

MoverOK(m) ==
    /\ mover[m].pc \in {"idle", "looked", "clear"}
    /\ mover[m].pc # "idle" => mover[m].name \in Names
    /\ mover[m].pc # "idle" /\ mover[m].quiet /\ mover[m].name \in Plain =>
        dir[mover[m].name] = mover[m].file /\ mover[m].file # None
    /\ mover[m].pc = "clear" /\ mover[m].name \in Own => Listed = {}
    /\ mover[m].pc = "clear" /\ mover[m].quiet /\ mover[m].name \in Plain =>
        \A c \in Conns \ blind : Clear(c, mover[m].name)

ReadersOK == \A r \in Readers : reader[r].pc = "looked" => reader[r].name \in Names

IInv ==
    /\ TypeOK /\ pc \in [Conns -> Steps] /\ ReadersOK
    /\ NamesApart /\ HoldsOK /\ LostOK
    /\ \A c \in Conns \ blind : ConnOK(c)
    /\ \A m \in Movers : MoverOK(m)

-----------------------------------------------------------------------------
(* What the parts say                                                      *)

\* The number of a file that has none is nobody's.
LEMMA FreeIsNew ==
    ASSUME NEW i \in Free
    PROVE  /\ i # None /\ i \in Inodes
           /\ \A n \in Names : dir[n] # i
           /\ \A c \in Conns : i \notin Held(c)
           /\ \A c \in Conns, n \in Own : holds[c][n] # i
<1>1. \A n \in Own : n \in Names
  BY DEF Names
<1>2. ASSUME NEW c \in Conns PROVE i \notin Held(c)
  BY <1>2 DEF Free, Taken
<1> QED
  BY <1>1, <1>2, ConstantsOK DEF Free, Taken, Held

LEMMA OwnNames == Own = {Db, Index} /\ Db # Index /\ Db \notin Plain /\ Index \notin Plain /\ Names = Plain \cup {Db, Index}
  BY ConstantsOK DEF Own, Names

LEMMA HeldIs ==
    ASSUME NEW c \in Conns
    PROVE  /\ \A i : i \in Held(c) <=> i # None /\ (i = holds[c][Db] \/ i = holds[c][Index])
           /\ holds[c] = Nothing => Held(c) = {}
<1>1. \A i : i \in Held(c) <=> i # None /\ (i = holds[c][Db] \/ i = holds[c][Index])
  BY OwnNames DEF Held
<1>2. holds[c] = Nothing => holds[c][Db] = None /\ holds[c][Index] = None
  BY OwnNames DEF Nothing
<1> QED
  BY <1>1, <1>2

LEMMA FilesAre ==
    ASSUME NEW c \in Conns, NEW i, i # None
    PROVE  /\ noted[c][Db] = i \/ (noted[c][Db] = None /\ dir[Db] = i) => i \in files(c)
           /\ noted[c][Index] = i \/ (noted[c][Index] = None /\ dir[Index] = i) => i \in files(c)
  BY OwnNames DEF files

\* The steps at which SQLite holds a file are steps at which the connection is in the list.
LEMMA HeldIsListed ==
    ASSUME HoldsOK, pc \in [Conns -> Steps], NEW c \in Conns, Held(c) # {}
    PROVE  c \in Listed /\ pc[c] \in {"open", "settled", "read", "ready", "closing"}
  BY HeldIs DEF HoldsOK, Steps, Listed

\* The list knows every file SQLite holds for a connection on the file that was probed, and
\* at the close every file.
LEMMA HeldIsKnown ==
    ASSUME HoldsOK, pc \in [Conns -> Steps], NEW c \in Conns, ConnOK(c), NEW i \in Held(c),
           holds[c][Db] = before[c] \/ pc[c] # "open"
    PROVE  i \in files(c)
<1>1. i # None /\ (i = holds[c][Db] \/ i = holds[c][Index])
  BY HeldIs
<1>2. pc[c] \in {"open", "settled", "read", "ready", "closing"}
  BY HeldIsListed
<1>3. CASE pc[c] = "open"
  BY <1>1, <1>3, FilesAre DEF ConnOK, Holding
<1>4. CASE pc[c] = "settled"
  BY <1>1, <1>4, FilesAre DEF ConnOK, Holding
<1>5. CASE pc[c] = "read"
  BY <1>1, <1>5, FilesAre DEF ConnOK, Holding, Noting
<1>6. CASE pc[c] = "ready"
  BY <1>1, <1>6, FilesAre DEF ConnOK, Holding
<1>7. CASE pc[c] = "closing"
  BY <1>7, <1>1, OwnNames, FilesAre DEF ConnOK, Holding, Noting, Nothing
<1> QED
  BY <1>2, <1>3, <1>4, <1>5, <1>6, <1>7

-----------------------------------------------------------------------------
(* A step that leaves a connection where it is                             *)

\* What others do to the tree may be done without it.
ConnSame(c) ==
    pc'[c] = pc[c] /\ before'[c] = before[c] /\ noted'[c] = noted[c] /\ holds'[c] = holds[c]

\* A new file at one of the database's names.
LEMMA ConnKeptByNew ==
    ASSUME TypeOK, NEW c \in Conns, ConnOK(c), ConnSame(c),
           NEW n \in Own, dir[n] = None, NEW i \in Free, dir' = [dir EXCEPT ![n] = i]
    PROVE  ConnOK(c)'
<1>1. dir'[n] = i /\ \A m \in Names \ {n} : dir'[m] = dir[m]
  BY OwnNames DEF TypeOK
<1>2. \A p \in Plain : dir'[p] = dir[p] /\ dir[p] # i /\ p \in Names
  BY <1>1, OwnNames, FreeIsNew
<1>3. Opening(c)'
  <2>1. ASSUME pc[c] \in {"prepared", "looked", "listed"}
        PROVE  /\ before[c] # None /\ before[c] # i
               /\ \E m \in Plain \cup {Db} : dir'[m] = before[c]
    BY <1>1, <1>2, <2>1, OwnNames, FreeIsNew DEF ConnOK, Opening
  <2>2. ASSUME pc[c] \in {"looked", "listed"}
        PROVE  /\ dir'[Db] = before[c] => noted[c][Db] = before[c]
               /\ dir'[Db] # None /\ noted[c][Db] \notin {None, dir'[Db]} => Unlinked(dir[Db])'
    BY <1>1, <1>2, <2>1, <2>2, OwnNames DEF ConnOK, Opening, Unlinked
  <2> QED
    BY <2>1, <2>2 DEF Opening, ConnSame
<1>4. Held(c)' = Held(c)
  BY DEF Held, ConnSame
<1>5. Held(c) \subseteq {dir[m] : m \in Own} => Held(c) \subseteq {dir'[m] : m \in Own}
  BY <1>1, OwnNames, HeldIs
<1>6. Holding(c)'
  <2>1. pc[c] = "open" =>
        /\ holds[c][Db] = dir'[Db] /\ dir'[Db] # None /\ holds[c][Index] = None
        /\ holds[c][Db] = before[c] => noted[c][Db] = before[c]
        /\ noted[c][Db] \notin {None, holds[c][Db]} => Unlinked(holds[c][Db])'
    BY <1>1, <1>2, OwnNames DEF ConnOK, Holding, Unlinked, ConnSame
  <2>2. pc[c] = "read" => holds[c][Index] = dir'[Index] /\ dir'[Index] # None
    BY <1>1, OwnNames DEF ConnOK, Holding
  <2> QED
    BY <1>4, <1>5, <2>1, <2>2 DEF Holding, ConnSame, ConnOK
<1> QED
  BY <1>3, <1>6 DEF ConnOK, Noting, ConnSame

\* The index goes from its name, unless that loses what the connection holds.
LEMMA ConnKeptByRemoval ==
    ASSUME TypeOK, NamesApart, NEW c \in Conns, ConnOK(c), ConnSame(c), dir' = [dir EXCEPT ![Index] = None],
           ~(dir[Index] # None /\ holds[c][Index] = dir[Index] /\ noted[c][Index] = None)
    PROVE  ConnOK(c)'
<1>1. dir'[Index] = None /\ dir'[Db] = dir[Db] /\ \A p \in Plain : dir'[p] = dir[p]
  BY OwnNames DEF TypeOK
<1>2. Opening(c)'
  BY <1>1, OwnNames DEF ConnOK, Opening, Unlinked, ConnSame
<1>3. Held(c)' = Held(c)
  BY DEF Held, ConnSame
<1>4. pc[c] = "closing" => Held(c) \subseteq {dir'[m] : m \in Own}
  BY <1>1, OwnNames, HeldIs DEF ConnOK, Holding, Noting, Nothing, NamesApart
<1>5. pc[c] # "read"
  BY DEF ConnOK, Holding, Noting
<1>6. Holding(c)'
  BY <1>1, <1>3, <1>4, <1>5, OwnNames DEF ConnOK, Holding, Unlinked, ConnSame
<1> QED
  BY <1>2, <1>6 DEF ConnOK, Noting, ConnSame

\* A file changes its name in the tree, and none of its own while it is in the list.
LEMMA ConnKeptByRename ==
    ASSUME TypeOK, NamesApart, NEW c \in Conns, ConnOK(c), ConnSame(c),
           NEW n \in Names, NEW t \in Plain, dir[n] # None, dir[t] = None,
           dir' = [dir EXCEPT ![t] = dir[n], ![n] = None], n \in Own => c \notin Listed
    PROVE  ConnOK(c)'
<1>1. t # n /\ dir'[t] = dir[n] /\ dir'[n] = None /\ \A m \in Names \ {n, t} : dir'[m] = dir[m]
  BY OwnNames DEF TypeOK
<1>2. ASSUME pc[c] \in {"prepared", "looked", "listed"}
      PROVE  \E m \in Plain \cup {Db} : dir'[m] = before[c]
  BY <1>1, <1>2, OwnNames DEF ConnOK, Opening
<1>3. dir'[Db] \in {dir[Db], None}
  BY <1>1, OwnNames
<1>5. Opening(c)'
  <2>1. ASSUME pc[c] \in {"looked", "listed"}
        PROVE  /\ dir'[Db] = before[c] => noted[c][Db] = before[c]
               /\ dir'[Db] # None /\ noted[c][Db] \notin {None, dir'[Db]} => Unlinked(dir[Db])'
    <3>1. dir'[Db] # None => dir'[Db] = dir[Db] /\ n # Db
      BY <1>1, <1>3, OwnNames
    <3>2. before[c] # None
      BY <2>1 DEF ConnOK, Opening
    <3> QED
      BY <2>1, <3>1, <3>2, <1>1, OwnNames DEF ConnOK, Opening, Unlinked, NamesApart
  <2> QED
    BY <1>2, <2>1 DEF Opening, ConnSame, ConnOK
<1>6. CASE n \notin Own
  <2>1. dir'[Db] = dir[Db] /\ dir'[Index] = dir[Index]
    BY <1>1, <1>6, OwnNames
  <2>2. Held(c)' = Held(c) /\ {dir'[m] : m \in Own} = {dir[m] : m \in Own}
    BY <2>1, OwnNames DEF Held, ConnSame
  <2>3. pc[c] = "open" => (noted[c][Db] \notin {None, holds[c][Db]} => Unlinked(holds[c][Db])')
    <3>1. ASSUME pc[c] = "open", noted[c][Db] \notin {None, holds[c][Db]}
          PROVE  \A p \in Plain : dir'[p] # holds[c][Db]
      BY <1>1, <1>6, <3>1, OwnNames DEF ConnOK, Holding, Unlinked
    <3> QED
      BY <3>1 DEF Unlinked, ConnSame
  <2> QED
    BY <1>5, <2>1, <2>2, <2>3 DEF ConnOK, Holding, Noting, ConnSame
<1>7. CASE n \in Own
  <2>1. pc[c] \notin {"open", "settled", "read", "ready", "closing"}
    BY <1>7 DEF Listed
  <2> QED
    BY <1>5, <2>1 DEF ConnOK, Holding, Noting, ConnSame
<1> QED
  BY <1>6, <1>7

-----------------------------------------------------------------------------
(* The steps of a connection                                               *)

\* A rename goes on as it was, over a step that leaves its name alone or that it is told of.
LEMMA MoverKept ==
    ASSUME NEW m \in Movers, MoverOK(m), blind \subseteq blind',
           mover'[m].pc = mover[m].pc, mover'[m].name = mover[m].name, mover'[m].file = mover[m].file,
           mover'[m].quiet => mover[m].quiet,
           mover[m].pc # "idle" => Listed' \subseteq Listed,
           mover[m].pc # "idle" /\ mover'[m].quiet => dir'[mover[m].name] = dir[mover[m].name] \/ mover[m].name \in Own,
           \A c \in Conns \ blind', n \in Plain :
                mover[m].pc = "clear" /\ mover'[m].quiet /\ n = mover[m].name /\ dir[n] # None /\ Clear(c, n) => Clear(c, n)'
    PROVE  MoverOK(m)'
<1>1. ASSUME mover[m].pc = "clear", mover'[m].quiet, mover[m].name \in Plain, NEW c \in Conns \ blind'
      PROVE  Clear(c, mover[m].name)'
  <2>1. dir[mover[m].name] # None /\ Clear(c, mover[m].name)
    BY <1>1 DEF MoverOK
  <2> DEFINE n == mover[m].name
  <2> HIDE DEF n
  <2>2. n = mover[m].name /\ n' = n
    BY DEF n
  <2> QED
    BY <1>1, <2>1, <2>2 DEF Clear, Held
<1> QED
  BY <1>1, OwnNames DEF MoverOK

\* What a step of one connection does to the tree.
Made == \E n \in Own : \E i \in Free : dir[n] = None /\ dir' = [dir EXCEPT ![n] = i]

Removed(c) ==
    /\ dir' = [dir EXCEPT ![Index] = None]
    /\ \A d \in (Conns \ blind') \ {c} :
        ~(dir[Index] # None /\ holds[d][Index] = dir[Index] /\ noted[d][Index] = None)

LEMMA TreeChange ==
    ASSUME TypeOK, NEW c \in Conns, dir' = dir \/ Made \/ Removed(c)
    PROVE  /\ \A p \in Plain : dir'[p] = dir[p]
           /\ dir'[Db] = dir[Db] \/ (dir[Db] = None /\ dir'[Db] \in Free)
           /\ dir'[Index] = dir[Index] \/ (dir[Index] = None /\ dir'[Index] \in Free) \/ dir'[Index] = None
           /\ dir'[Db] = dir[Db] \/ dir'[Index] = dir[Index]
           /\ dir' \in [Names -> Inodes \cup {None}]
  BY OwnNames, FreeIsNew DEF TypeOK, Made, Removed

LEMMA ConnStep ==
    ASSUME IInv, NEW c \in Conns, UNCHANGED <<reader, mover, outside>>, blind \subseteq blind', blind' \subseteq Conns,
           dir' = dir \/ Made \/ Removed(c),
           pc' \in [Conns -> Steps], before' \in [Conns -> Inodes \cup {None}],
           noted' \in [Conns -> [Own -> Inodes \cup {None}]], holds' \in [Conns -> [Own -> Inodes \cup {None}]],
           \A d \in Conns \ {c} : ConnSame(d),
           holds'[c][Db] \in {holds[c][Db], dir'[Db], None},
           pc'[c] \in {"new", "prepared", "looked", "listed", "closed", "gone"} => holds'[c] = Nothing,
           lost' \subseteq lost,
           c \in lost' => /\ pc'[c] \in {"open", "settled", "read", "ready", "closing"}
                          /\ holds'[c][Db] = holds[c][Db] /\ before'[c] = before[c],
           c \notin blind' => ConnOK(c)',
           ListHeld /\ c \in Listed' => c \in Listed,
           c \notin blind' => \A n \in Plain : ListHeld /\ dir[n] # None /\ Clear(c, n) => Clear(c, n)'
    PROVE  IInv'
<1>1. TypeOK' /\ pc' \in [Conns -> Steps] /\ ReadersOK'
  BY TreeChange DEF IInv, TypeOK, ReadersOK
<1>2. NamesApart'
  <2>1. dir'[Db] # None => dir'[Db] # dir'[Index]
    <3>1. dir[Db] # None => dir[Db] # dir[Index]
      BY DEF IInv, NamesApart
    <3>2. dir[Index] \notin Free /\ dir[Db] \notin Free
      BY FreeIsNew, OwnNames
    <3> QED
      BY <3>1, <3>2, TreeChange, FreeIsNew DEF IInv
  <2>2. ASSUME NEW d \in Conns, holds[d][Db] # None PROVE holds[d][Db] # dir'[Index]
    <3>1. holds[d][Db] # dir[Index] /\ holds[d][Db] \notin Free
      BY <2>2, FreeIsNew, OwnNames DEF IInv, NamesApart
    <3> QED
      BY <2>2, <3>1, TreeChange DEF IInv
  <2>3. ASSUME NEW d \in Conns, holds'[d][Db] # None PROVE holds'[d][Db] # dir'[Index]
    BY <2>1, <2>2, <2>3 DEF ConnSame
  <2> QED
    BY <2>1, <2>3 DEF NamesApart
<1>3. HoldsOK'
  BY DEF IInv, HoldsOK, ConnSame
<1>4. LostOK'
  BY DEF IInv, LostOK, ConnSame, TypeOK
<1>5. ASSUME NEW d \in Conns \ blind' PROVE ConnOK(d)'
  <2>1. CASE d = c
    BY <2>1
  <2>2. CASE d # c
    <3>1. ConnSame(d) /\ ConnOK(d) /\ TypeOK /\ NamesApart
      BY <2>2 DEF IInv
    <3>2. CASE dir' = dir
      <4>1. Held(d)' = Held(d) /\ \A i : Unlinked(i)' <=> Unlinked(i)
        BY <3>1, <3>2 DEF ConnSame, Unlinked, Held
      <4>2. Opening(d)'
        BY <3>1, <3>2 DEF ConnOK, Opening, ConnSame, Unlinked
      <4>3. Holding(d)'
        BY <3>1, <3>2, <4>1 DEF ConnOK, Holding, ConnSame, Unlinked
      <4> QED
        BY <3>1, <4>2, <4>3 DEF ConnOK, Noting, ConnSame
    <3>3. CASE Made
      BY <3>1, <3>3, ConnKeptByNew DEF Made
    <3>4. CASE Removed(c)
      BY <2>2, <3>1, <3>4, ConnKeptByRemoval DEF Removed
    <3> QED
      BY <3>2, <3>3, <3>4
  <2> QED
    BY <2>1, <2>2
<1>6. ASSUME NEW d \in Conns \ blind', NEW n \in Plain, ListHeld, dir[n] # None, Clear(d, n) PROVE Clear(d, n)'
  <2>1. CASE d = c
    BY <1>6, <2>1
  <2>2. CASE d # c
    <3>1. Held(d)' = Held(d) /\ pc'[d] = pc[d]
      BY <2>2 DEF Held, ConnSame
    <3>2. dir'[n] = dir[n] /\ dir[n] \notin Free
      BY FreeIsNew, OwnNames, TreeChange DEF IInv
    <3>3. dir'[Db] = dir[Db] \/ dir'[Db] \in Free
      BY TreeChange DEF IInv
    <3>4. dir'[Index] = dir[Index] \/ dir'[Index] \in Free \/ dir'[Index] = None
      BY TreeChange DEF IInv
    <3> QED
      BY <1>6, <3>1, <3>2, <3>3, <3>4 DEF Clear
  <2> QED
    BY <2>1, <2>2
<1>7. ASSUME NEW m \in Movers PROVE MoverOK(m)'
  <2>1. mover[m].pc # "idle" => ListHeld
    BY DEF ListHeld
  <2>2. ListHeld => Listed' \subseteq Listed
    BY DEF Listed, ConnSame
  <2>3. mover[m].name \in Plain => dir'[mover[m].name] = dir[mover[m].name]
    BY TreeChange DEF IInv
  <2>4. MoverOK(m) /\ (mover[m].pc # "idle" => mover[m].name \in Names)
    BY DEF IInv, MoverOK
  <2> QED
    BY <1>6, <2>1, <2>2, <2>3, <2>4, OwnNames, MoverKept
<1> QED
  BY <1>1, <1>2, <1>3, <1>4, <1>5, <1>7 DEF IInv

\* Where a connection is after a step of its own, and that it alone has moved.
LEMMA Moved ==
    ASSUME IInv, NEW c \in Conns, NEW step \in Steps, Goto(c, step)
    PROVE  pc' \in [Conns -> Steps] /\ pc'[c] = step /\ \A d \in Conns \ {c} : pc'[d] = pc[d]
  BY DEF IInv, Goto

LEMMA PrepareOK == ASSUME IInv, NEW c \in Conns, Prepare(c) PROVE IInv'
<1>1. /\ pc[c] = "new" /\ UNCHANGED <<reader, mover, outside, noted, holds, lost, blind>>
      /\ pc' \in [Conns -> Steps] /\ pc'[c] = "prepared" /\ \A d \in Conns \ {c} : pc'[d] = pc[d]
      /\ before' = [before EXCEPT ![c] = dir'[Db]]
      /\ (dir' = dir /\ dir[Db] # None) \/ Made
  BY Moved, OwnNames DEF Prepare, At, Others, Steps, Made
<1>2. (dir' = dir /\ dir[Db] # None) \/ dir'[Db] \in Free
  BY <1>1, OwnNames DEF Prepare, IInv, TypeOK
<1>3. dir'[Db] # None /\ dir'[Db] \in Inodes
  BY <1>2, FreeIsNew, OwnNames DEF IInv, TypeOK
<1>4. before' \in [Conns -> Inodes \cup {None}] /\ before'[c] = dir'[Db] /\ \A d \in Conns \ {c} : before'[d] = before[d]
  BY <1>1, <1>3 DEF IInv, TypeOK
<1>5. holds[c] = Nothing /\ c \notin lost /\ c \notin Listed'
  BY <1>1 DEF IInv, HoldsOK, LostOK, Listed
<1>6. c \notin blind => noted[c] = Nothing
  BY <1>1 DEF IInv, ConnOK, Noting
<1>7. c \notin blind => ConnOK(c)'
  BY <1>1, <1>3, <1>4, <1>6 DEF ConnOK, Opening, Holding, Noting
<1>8. \A n \in Plain : Clear(c, n) => Clear(c, n)'
  BY <1>1, <1>5, HeldIs DEF Clear, Held, Nothing
<1> QED
  BY <1>1, <1>4, <1>5, <1>7, <1>8, ConnStep DEF IInv, TypeOK, ConnSame

LEMMA LookAtNameOK == ASSUME IInv, NEW c \in Conns, LookAtName(c) PROVE IInv'
<1>1. /\ pc[c] = "prepared" /\ UNCHANGED <<dir, reader, mover, outside, before, holds, lost, blind>>
      /\ pc' \in [Conns -> Steps] /\ pc'[c] = "looked" /\ \A d \in Conns \ {c} : pc'[d] = pc[d]
      /\ noted' = [noted EXCEPT ![c][Db] = dir[Db]]
  BY Moved DEF LookAtName, At, Others, Steps
<1>2. /\ noted' \in [Conns -> [Own -> Inodes \cup {None}]] /\ \A d \in Conns \ {c} : noted'[d] = noted[d]
      /\ noted'[c][Db] = dir[Db] /\ noted'[c][Index] = noted[c][Index]
  BY <1>1, OwnNames DEF IInv, TypeOK
<1>3. holds[c] = Nothing /\ c \notin lost /\ c \notin Listed'
  BY <1>1 DEF IInv, HoldsOK, LostOK, Listed
<1>4. c \notin blind => noted[c][Index] = None
  BY <1>1, OwnNames DEF IInv, ConnOK, Noting, Nothing
<1>5. c \notin blind => Opening(c)'
  BY <1>1, <1>2 DEF IInv, ConnOK, Opening
<1>6. c \notin blind => ConnOK(c)'
  BY <1>1, <1>2, <1>4, <1>5 DEF ConnOK, Holding, Noting
<1>7. \A n \in Plain : Clear(c, n) => Clear(c, n)'
  BY <1>1 DEF Clear, Held
<1> QED
  BY <1>1, <1>2, <1>3, <1>6, <1>7, ConnStep DEF IInv, TypeOK, ConnSame

LEMMA ListOK == ASSUME IInv, NEW c \in Conns, List(c) PROVE IInv'
<1>1. /\ pc[c] = "looked" /\ UNCHANGED <<dir, reader, mover, outside, before, holds, noted, lost, blind>>
      /\ pc' \in [Conns -> Steps] /\ pc'[c] = "listed" /\ \A d \in Conns \ {c} : pc'[d] = pc[d]
      /\ ~ListHeld
  BY Moved DEF List, At, Others, Steps
<1>2. holds[c] = Nothing /\ c \notin lost
  BY <1>1 DEF IInv, HoldsOK, LostOK
<1>3. c \notin blind => Opening(c)'
  BY <1>1 DEF IInv, ConnOK, Opening, Unlinked
<1>4. c \notin blind => ConnOK(c)'
  BY <1>1, <1>3 DEF IInv, ConnOK, Holding, Noting
<1> QED
  BY <1>1, <1>2, <1>4, ConnStep DEF IInv, TypeOK, ConnSame

LEMMA SqliteOpensOK == ASSUME IInv, NEW c \in Conns, SqliteOpens(c) PROVE IInv'
<1>1. /\ pc[c] = "listed" /\ UNCHANGED <<reader, mover, outside, before, noted, lost, blind>>
      /\ pc' \in [Conns -> Steps] /\ pc'[c] = "open" /\ \A d \in Conns \ {c} : pc'[d] = pc[d]
      /\ holds' = [holds EXCEPT ![c][Db] = dir'[Db]]
      /\ (dir' = dir /\ dir[Db] # None) \/ Made
  BY Moved, OwnNames DEF SqliteOpens, At, Others, Steps, Made
<1>2. (dir' = dir /\ dir[Db] # None) \/ (dir[Db] = None /\ dir'[Db] \in Free /\ \A n \in Names \ {Db} : dir'[n] = dir[n])
  BY <1>1, OwnNames DEF SqliteOpens, IInv, TypeOK
<1>3. dir'[Db] # None /\ dir'[Db] \in Inodes
  BY <1>2, FreeIsNew, OwnNames DEF IInv, TypeOK
<1>4. holds[c] = Nothing /\ c \notin lost /\ c \in Listed
  BY <1>1 DEF IInv, HoldsOK, LostOK, Listed
<1>5. /\ holds' \in [Conns -> [Own -> Inodes \cup {None}]] /\ \A d \in Conns \ {c} : holds'[d] = holds[d]
      /\ holds'[c][Db] = dir'[Db] /\ holds'[c][Index] = None
  BY <1>1, <1>3, <1>4, OwnNames DEF IInv, TypeOK, Nothing
<1>6. ASSUME c \notin blind PROVE ConnOK(c)'
  <2>1. /\ dir[Db] = before[c] => noted[c][Db] = before[c]
        /\ dir[Db] # None /\ noted[c][Db] \notin {None, dir[Db]} => Unlinked(dir[Db])
        /\ noted[c][Index] = None
        /\ before[c] # None /\ \E n \in Plain \cup {Db} : dir[n] = before[c]
    BY <1>1, <1>6 DEF IInv, ConnOK, Opening, Noting
  <2>2. dir'[Db] = before[c] => noted[c][Db] = before[c]
    BY <1>2, <2>1, FreeIsNew, OwnNames
  <2>3. noted[c][Db] \notin {None, dir'[Db]} => \A p \in Plain : dir'[p] # dir'[Db]
    BY <1>2, <2>1, FreeIsNew, OwnNames DEF Unlinked
  <2>4. Holding(c)'
    BY <1>1, <1>3, <1>5, <2>2, <2>3 DEF Holding, Unlinked
  <2> QED
    BY <1>1, <2>1, <2>4 DEF ConnOK, Opening, Noting
<1>7. ASSUME NEW n \in Plain, dir[n] # None, Clear(c, n) PROVE Clear(c, n)'
  <2>1. dir'[n] = dir[n] /\ dir'[Index] = dir[Index]
    BY <1>2, OwnNames
  <2>2. dir[n] # dir'[Db]
    BY <1>1, <1>2, <1>7, FreeIsNew, OwnNames DEF Clear
  <2>3. dir'[n] \notin Held(c)'
    BY <1>5, <1>7, <2>1, <2>2, OwnNames DEF Held
  <2> QED
    BY <1>1, <1>7, <2>1, <2>3 DEF Clear
<1> QED
  BY <1>1, <1>4, <1>5, <1>6, <1>7, ConnStep DEF IInv, TypeOK, ConnSame

LEMMA SettleOK == ASSUME IInv, NEW c \in Conns, Settle(c) PROVE IInv'
<1>1. /\ pc[c] = "open" /\ UNCHANGED <<dir, reader, mover, outside, before, holds, noted, lost, blind>>
      /\ pc' \in [Conns -> Steps] /\ pc'[c] = "settled" /\ \A d \in Conns \ {c} : pc'[d] = pc[d]
      /\ dir[Db] = before[c]
  BY Moved DEF Settle, At, Others, Steps
<1>2. c \in Listed
  BY <1>1 DEF Listed
<1>3. c \notin blind => ConnOK(c)'
  BY <1>1 DEF IInv, ConnOK, Opening, Holding, Noting
<1>4. \A n \in Plain : Clear(c, n) => Clear(c, n)'
  BY <1>1 DEF Clear, Held
<1> QED
  BY <1>1, <1>2, <1>3, <1>4, ConnStep DEF IInv, TypeOK, ConnSame

LEMMA SqliteReadsOK == ASSUME IInv, NEW c \in Conns, SqliteReads(c) PROVE IInv'
<1>1. /\ pc[c] = "settled" /\ UNCHANGED <<reader, mover, outside, before, noted, lost>>
      /\ pc' \in [Conns -> Steps] /\ pc'[c] = "read" /\ \A d \in Conns \ {c} : pc'[d] = pc[d]
      /\ blind' = IF holds'[c][Index] = dir'[Index] THEN blind ELSE blind \cup {c}
  BY Moved DEF SqliteReads, At, Others, Steps
<1>2. PICK i : /\ holds' = [holds EXCEPT ![c][Index] = i] /\ i \in Inodes
               /\ \/ dir' = dir
                  \/ dir[Index] = None /\ i \in Free /\ dir' = [dir EXCEPT ![Index] = i]
  <2>1. CASE Shared(c) # {}
    <3>1. PICK i \in Shared(c) : holds' = [holds EXCEPT ![c][Index] = i] /\ dir' = dir
      BY <2>1 DEF SqliteReads
    <3>2. i \in Inodes
      BY <3>1, OwnNames DEF IInv, TypeOK, Shared
    <3> QED
      BY <3>1, <3>2
  <2>2. CASE Shared(c) = {}
    <3>1. holds' = [holds EXCEPT ![c][Index] = dir'[Index]]
      BY <2>2 DEF SqliteReads
    <3>2. CASE dir[Index] # None /\ dir' = dir
      BY <3>1, <3>2, OwnNames DEF IInv, TypeOK
    <3>3. CASE dir[Index] = None /\ \E i \in Free : dir' = [dir EXCEPT ![Index] = i]
      BY <3>1, <3>3, FreeIsNew, OwnNames DEF IInv, TypeOK
    <3> QED
      BY <2>2, <3>2, <3>3 DEF SqliteReads
  <2> QED
    BY <2>1, <2>2
<1>3. i # None
  BY <1>2, ConstantsOK
<1>4. /\ holds' \in [Conns -> [Own -> Inodes \cup {None}]] /\ \A d \in Conns \ {c} : holds'[d] = holds[d]
      /\ holds'[c][Index] = i /\ holds'[c][Db] = holds[c][Db]
  BY <1>2, OwnNames DEF IInv, TypeOK
<1>5. dir' = dir \/ Made
  BY <1>2, OwnNames DEF Made
<1>6. c \in Listed
  BY <1>1 DEF Listed
<1>7. c \notin blind' => dir'[Index] = i
  BY <1>1, <1>4
<1>8. c \notin blind' => ConnOK(c)'
  BY <1>1, <1>3, <1>4, <1>7 DEF IInv, ConnOK, Opening, Holding, Noting
<1>9. ASSUME c \notin blind', NEW n \in Plain, dir[n] # None, Clear(c, n) PROVE Clear(c, n)'
  <2>1. dir'[n] = dir[n] /\ dir[n] # i
    BY <1>1, <1>2, <1>7, <1>9, FreeIsNew, OwnNames DEF IInv, TypeOK, Clear
  <2>2. dir'[n] \notin Held(c)'
    BY <1>4, <1>9, <2>1, OwnNames DEF Clear, Held
  <2> QED
    BY <1>1, <2>2 DEF Clear
<1> QED
  BY <1>1, <1>4, <1>5, <1>6, <1>8, <1>9, ConnStep DEF IInv, TypeOK, ConnSame, LostOK

LEMMA NoteFilesOK == ASSUME IInv, NEW c \in Conns, NoteFiles(c) PROVE IInv'
<1>1. /\ pc[c] = "read" /\ UNCHANGED <<dir, reader, mover, outside, before, holds, lost, blind>>
      /\ pc' \in [Conns -> Steps] /\ pc'[c] = "ready" /\ \A d \in Conns \ {c} : pc'[d] = pc[d]
      /\ noted' = [noted EXCEPT ![c] = [n \in Own |-> IF @[n] # None THEN @[n] ELSE dir[n]]]
      /\ ~ListHeld
  BY Moved DEF NoteFiles, At, Others, Steps
<1>2. /\ noted' \in [Conns -> [Own -> Inodes \cup {None}]] /\ \A d \in Conns \ {c} : noted'[d] = noted[d]
      /\ \A n \in Own : noted'[c][n] = IF noted[c][n] # None THEN noted[c][n] ELSE dir[n]
  BY <1>1, OwnNames DEF IInv, TypeOK
<1>3. c \in Listed
  BY <1>1 DEF Listed
<1>4. ASSUME c \notin blind PROVE ConnOK(c)'
  <2>1. /\ before[c] # None /\ holds[c][Db] = before[c] /\ noted[c][Db] = before[c]
        /\ holds[c][Index] = dir[Index] /\ dir[Index] # None /\ noted[c][Index] = None
    BY <1>1, <1>4 DEF IInv, ConnOK, Holding, Noting
  <2>2. noted'[c][Db] = before[c] /\ noted'[c][Index] = holds[c][Index]
    BY <1>2, <2>1, OwnNames
  <2> QED
    BY <1>1, <2>1, <2>2 DEF ConnOK, Opening, Holding, Noting
<1> QED
  BY <1>1, <1>2, <1>3, <1>4, ConnStep DEF IInv, TypeOK, ConnSame, LostOK

LEMMA AnnounceOK == ASSUME IInv, NEW c \in Conns, Announce(c) PROVE IInv'
<1> DEFINE step == IF At(c, "listed") THEN "closed" ELSE "closing"
<1>1. /\ pc[c] \in {"listed", "open", "settled", "read", "ready"}
      /\ UNCHANGED <<dir, reader, mover, outside, before, holds, lost>>
      /\ pc' \in [Conns -> Steps] /\ pc'[c] = step /\ \A d \in Conns \ {c} : pc'[d] = pc[d]
      /\ noted' = [noted EXCEPT ![c] = Nothing] /\ ~ListHeld
      /\ blind' = IF Held(c) \subseteq {dir[n] : n \in Own} THEN blind ELSE blind \cup {c}
  BY Moved DEF Announce, At, Others, Steps, Forget
<1>2. /\ noted' \in [Conns -> [Own -> Inodes \cup {None}]] /\ \A d \in Conns \ {c} : noted'[d] = noted[d]
      /\ noted'[c] = Nothing
  BY <1>1 DEF IInv, TypeOK, Nothing
<1>3. c \in Listed
  BY <1>1 DEF Listed
<1>4. step = "closed" => holds[c] = Nothing /\ c \notin lost
  BY DEF At, IInv, HoldsOK, LostOK
<1>5. Held(c)' = Held(c)
  BY <1>1 DEF Held
<1>6. c \notin blind' => ConnOK(c)'
  BY <1>1, <1>2, <1>5 DEF ConnOK, Opening, Holding, Noting
<1> QED
  BY <1>1, <1>2, <1>3, <1>4, <1>6, ConnStep DEF IInv, TypeOK, ConnSame

LEMMA SqliteClosesOK == ASSUME IInv, NEW c \in Conns, SqliteCloses(c) PROVE IInv'
<1>1. /\ pc[c] = "closing" /\ UNCHANGED <<reader, mover, outside, before, noted>>
      /\ pc' \in [Conns -> Steps] /\ pc'[c] = "closed" /\ \A d \in Conns \ {c} : pc'[d] = pc[d]
      /\ holds' = [holds EXCEPT ![c] = Nothing] /\ lost' = lost \ {c}
  BY Moved DEF SqliteCloses, At, Others, Steps
<1>2. /\ holds' \in [Conns -> [Own -> Inodes \cup {None}]] /\ \A d \in Conns \ {c} : holds'[d] = holds[d]
      /\ holds'[c] = Nothing
  BY <1>1 DEF IInv, TypeOK, Nothing
<1>3. holds'[c][Db] = None
  BY <1>2, OwnNames DEF Nothing
<1>4. /\ dir' = dir \/ Removed(c)
      /\ blind \subseteq blind' /\ blind' \subseteq Conns
  <2>1. CASE UNCHANGED <<dir, blind>>
    BY <2>1 DEF IInv, TypeOK
  <2>2. CASE /\ dir' = [dir EXCEPT ![Index] = None]
             /\ blind' = blind \cup {d \in Conns \ {c} :
                            dir[Index] # None /\ holds[d][Index] = dir[Index] /\ noted[d][Index] = None}
    BY <2>2 DEF IInv, TypeOK, Removed
  <2> QED
    BY <2>1, <2>2 DEF SqliteCloses
<1>5. c \in Listed
  BY <1>1 DEF Listed
<1>6. Held(c)' = {}
  BY <1>2, OwnNames DEF Held, Nothing
<1>7. c \notin blind' => ConnOK(c)'
  BY <1>1, <1>4 DEF IInv, ConnOK, Opening, Holding, Noting
<1>8. \A n \in Plain : Clear(c, n)'
  BY <1>1, <1>6 DEF Clear
<1> QED
  BY <1>1, <1>2, <1>3, <1>4, <1>5, <1>7, <1>8, ConnStep DEF IInv, TypeOK, ConnSame

LEMMA LeaveOK == ASSUME IInv, NEW c \in Conns, Leave(c) PROVE IInv'
<1>1. /\ pc[c] = "closed" /\ UNCHANGED <<dir, reader, mover, outside, before, holds, lost, blind>>
      /\ pc' \in [Conns -> Steps] /\ pc'[c] = "gone" /\ \A d \in Conns \ {c} : pc'[d] = pc[d]
      /\ noted' = [noted EXCEPT ![c] = Nothing] /\ ~ListHeld
  BY Moved DEF Leave, At, Others, Steps
<1>2. /\ noted' \in [Conns -> [Own -> Inodes \cup {None}]] /\ \A d \in Conns \ {c} : noted'[d] = noted[d]
      /\ noted'[c] = Nothing
  BY <1>1 DEF IInv, TypeOK, Nothing
<1>3. holds[c] = Nothing /\ c \notin lost
  BY <1>1 DEF IInv, HoldsOK, LostOK
<1>4. ConnOK(c)'
  BY <1>1, <1>2 DEF ConnOK, Opening, Holding, Noting
<1> QED
  BY <1>1, <1>2, <1>3, <1>4, ConnStep DEF IInv, TypeOK, ConnSame

LEMMA InitOK == Init => IInv
<1> SUFFICES ASSUME Init PROVE IInv
  OBVIOUS
<1>1. /\ dir \in [Names -> Inodes \cup {None}] /\ dir[Index] = None
      /\ \A c \in Conns : pc[c] = "new" /\ before[c] = None /\ noted[c] = Nothing /\ holds[c] = Nothing
      /\ \A m \in Movers : mover[m] = Idle
      /\ lost = {} /\ blind = {}
  BY DEF Init
<1>2. Idle \in Thread /\ Nothing \in [Own -> Inodes \cup {None}] /\ Nothing[Db] = None
  BY OwnNames DEF Idle, Thread, Nothing
<1>3. TypeOK
  BY <1>1, <1>2, ConstantsOK DEF Init, TypeOK
<1>4. pc \in [Conns -> Steps]
  BY DEF Init, Steps
<1>5. NamesApart
  BY <1>1, <1>2 DEF NamesApart
<1>6. HoldsOK /\ LostOK /\ ReadersOK
  BY <1>1 DEF HoldsOK, LostOK, ReadersOK, Init, Idle
<1>7. \A c \in Conns : ConnOK(c)
  BY <1>1 DEF ConnOK, Opening, Holding, Noting
<1>8. \A m \in Movers : MoverOK(m)
  BY <1>1 DEF MoverOK, Idle
<1> QED
  BY <1>3, <1>4, <1>5, <1>6, <1>7, <1>8 DEF IInv

-----------------------------------------------------------------------------
(* The steps of the threads that read                                      *)

\* A reader takes nothing from the list, and what it does to the locks is all.
LEMMA ReaderStep ==
    ASSUME IInv, Disk, UNCHANGED mover, reader' \in [Readers -> Thread], ReadersOK', lost' \subseteq Conns,
           \A c \in lost' \ lost :
                /\ pc[c] \in {"open", "settled", "read", "ready", "closing"}
                /\ c \notin blind => holds[c][Db] # before[c]
    PROVE  IInv'
<1>1. UNCHANGED <<dir, pc, before, noted, holds, outside, blind, mover>>
  BY DEF Disk
<1>2. TypeOK' /\ pc' \in [Conns -> Steps] /\ NamesApart' /\ HoldsOK'
  BY <1>1 DEF IInv, TypeOK, NamesApart, HoldsOK
<1>3. LostOK'
  BY <1>1 DEF IInv, LostOK
<1>4. ASSUME NEW c \in Conns \ blind PROVE ConnOK(c)'
  BY <1>1 DEF IInv, ConnOK, Opening, Holding, Noting, Unlinked, Held
<1>5. ASSUME NEW m \in Movers PROVE MoverOK(m)'
  BY <1>1 DEF IInv, MoverOK, Clear, Held, Listed
<1> QED
  BY <1>1, <1>2, <1>3, <1>4, <1>5 DEF IInv

LEMMA LookToReadOK == ASSUME IInv, NEW r \in Readers, NEW n \in Names, LookToRead(r, n) PROVE IInv'
<1> DEFINE now == [Idle EXCEPT !.pc = "looked", !.name = n]
<1>1. now \in Thread /\ now.name \in Names
  BY DEF Idle, Thread
<1> HIDE DEF now
<1>2. reader' = [reader EXCEPT ![r] = now]
  BY DEF LookToRead, now
<1>3. reader' \in [Readers -> Thread] /\ ReadersOK'
  BY <1>1, <1>2 DEF IInv, TypeOK, ReadersOK
<1> QED
  BY <1>3, ReaderStep DEF LookToRead, IInv, TypeOK

LEMMA OpenToReadOK == ASSUME IInv, NEW r \in Readers, OpenToRead(r) PROVE IInv'
<1> DEFINE i == dir[reader[r].name]
           now == IF i = None THEN Idle ELSE [Idle EXCEPT !.pc = "opened", !.file = i]
<1>1. i \in Inodes \cup {None}
  BY DEF OpenToRead, IInv, TypeOK, ReadersOK
<1>2. reader' = [reader EXCEPT ![r] = now]
  BY DEF OpenToRead, IInv, TypeOK
<1> HIDE DEF i
<1>3. now \in Thread /\ now.pc # "looked"
  BY <1>1 DEF Idle, Thread
<1> HIDE DEF now
<1>4. reader' \in [Readers -> Thread] /\ ReadersOK'
  BY <1>2, <1>3 DEF IInv, TypeOK, ReadersOK
<1> QED
  BY <1>4, ReaderStep DEF OpenToRead, IInv, TypeOK

\* The close of a descriptor costs a connection its locks only if the list did not know the
\* file: then SQLite is not on the file that was probed, or others changed its names.
LEMMA DropOK == ASSUME IInv, NEW r \in Readers, Drop(r) PROVE IInv'
<1> DEFINE i == reader[r].file
<1>1. \/ ~IsOpenDatabaseFile(i) /\ reader' = [reader EXCEPT ![r] = Idle] /\ lost' = lost \cup {c \in Conns : i \in Held(c)}
      \/ reader' = [reader EXCEPT ![r].pc = "kept"] /\ lost' = lost
  BY DEF Drop, MayClose
<1> HIDE DEF i
<1>2. Idle \in Thread /\ Idle.pc # "looked"
  BY DEF Idle, Thread
<1>3. CASE /\ ~IsOpenDatabaseFile(i) /\ reader' = [reader EXCEPT ![r] = Idle]
           /\ lost' = lost \cup {c \in Conns : i \in Held(c)}
  <2>1. reader' \in [Readers -> Thread] /\ ReadersOK'
    BY <1>2, <1>3 DEF IInv, TypeOK, ReadersOK
  <2>2. ASSUME NEW c \in lost' \ lost
        PROVE  /\ pc[c] \in {"open", "settled", "read", "ready", "closing"}
               /\ c \notin blind => holds[c][Db] # before[c]
    <3>1. c \in Conns /\ i \in Held(c)
      BY <1>3, <2>2
    <3>2. c \in Listed /\ pc[c] \in {"open", "settled", "read", "ready", "closing"}
      BY <3>1, HeldIsListed DEF IInv
    <3>3. i \notin files(c)
      BY <1>3, <3>2 DEF IsOpenDatabaseFile
    <3>4. c \notin blind => ConnOK(c)
      BY <3>1 DEF IInv
    <3> QED
      BY <3>1, <3>2, <3>3, <3>4, HeldIsKnown DEF IInv
  <2> QED
    BY <1>3, <2>1, <2>2, ReaderStep DEF Drop, IInv, TypeOK
<1>4. CASE reader' = [reader EXCEPT ![r].pc = "kept"] /\ lost' = lost
  <2>1. [reader[r] EXCEPT !.pc = "kept"] \in Thread
    BY DEF IInv, TypeOK, Thread
  <2>2. reader' \in [Readers -> Thread] /\ ReadersOK'
    BY <1>4, <2>1 DEF IInv, TypeOK, ReadersOK, Thread
  <2> QED
    BY <1>4, <2>2, ReaderStep DEF Drop, IInv, TypeOK
<1> QED
  BY <1>1, <1>3, <1>4

-----------------------------------------------------------------------------
(* The steps of the threads that rename                                    *)

\* A look or a question changes nothing but the mover.
LEMMA MoverStep ==
    ASSUME IInv, Disk, UNCHANGED <<reader, lost>>, mover' \in [Movers -> Thread],
           NEW m \in Movers, \A k \in Movers \ {m} : mover'[k] = mover[k], MoverOK(m)'
    PROVE  IInv'
<1>1. UNCHANGED <<dir, pc, before, noted, holds, outside, blind, reader, lost>>
  BY DEF Disk
<1>2. TypeOK' /\ pc' \in [Conns -> Steps] /\ NamesApart' /\ HoldsOK' /\ LostOK' /\ ReadersOK'
  BY <1>1 DEF IInv, TypeOK, NamesApart, HoldsOK, LostOK, ReadersOK
<1>3. ASSUME NEW c \in Conns \ blind PROVE ConnOK(c)'
  BY <1>1 DEF IInv, ConnOK, Opening, Holding, Noting, Unlinked, Held
<1>4. ASSUME NEW k \in Movers, k # m PROVE MoverOK(k)'
  <2>1. MoverOK(k) /\ mover'[k] = mover[k]
    BY <1>4 DEF IInv
  <2>2. \A c \in Conns, n \in Plain : Clear(c, n)' <=> Clear(c, n)
    BY <1>1 DEF Clear, Held
  <2>3. Listed' = Listed
    BY <1>1 DEF Listed
  <2> QED
    BY <1>1, <2>1, <2>2, <2>3, MoverKept
<1> QED
  BY <1>1, <1>2, <1>3, <1>4 DEF IInv

LEMMA LookToMoveOK == ASSUME IInv, NEW m \in Movers, NEW n \in Names, LookToMove(m, n) PROVE IInv'
<1> DEFINE now == [pc |-> "looked", name |-> n, file |-> dir[n], quiet |-> TRUE]
<1>1. now \in Thread /\ now.pc = "looked" /\ now.name = n /\ now.file = dir[n]
  BY DEF IInv, TypeOK, Thread
<1> HIDE DEF now
<1>2. mover' = [mover EXCEPT ![m] = now] /\ dir' = dir /\ dir[n] # None
  BY DEF LookToMove, Disk, now
<1>3. mover' \in [Movers -> Thread] /\ mover'[m] = now /\ \A k \in Movers \ {m} : mover'[k] = mover[k]
  BY <1>1, <1>2 DEF IInv, TypeOK
<1>4. MoverOK(m)'
  BY <1>1, <1>2, <1>3 DEF MoverOK
<1> QED
  BY <1>3, <1>4, MoverStep DEF LookToMove

\* What the list does not know by number, and not by name, is not and will not be held.
LEMMA UnknownIsClear ==
    ASSUME IInv, NEW c \in Conns \ blind, NEW n \in Plain, dir[n] # None, ~IsOpenDatabaseFile(dir[n])
    PROVE  Clear(c, n)
<1>1. ConnOK(c) /\ HoldsOK /\ pc \in [Conns -> Steps]
  BY DEF IInv
<1>2. c \in Listed => dir[n] \notin files(c)
  BY DEF IsOpenDatabaseFile
<1>3. dir[n] \notin Held(c)
  <2> SUFFICES ASSUME dir[n] \in Held(c) PROVE FALSE
    OBVIOUS
  <2>1. c \in Listed
    BY <1>1, HeldIsListed
  <2>2. pc[c] = "open" /\ holds[c][Db] # before[c]
    BY <1>1, <1>2, <2>1, HeldIsKnown
  <2>3. /\ holds[c][Db] = dir[Db] /\ holds[c][Index] = None
        /\ noted[c][Db] \notin {None, holds[c][Db]} => Unlinked(holds[c][Db])
    BY <1>1, <2>2 DEF ConnOK, Holding
  <2>4. dir[n] = holds[c][Db]
    BY <2>3, HeldIs
  <2>5. noted[c][Db] \in {None, holds[c][Db]}
    BY <2>3, <2>4 DEF Unlinked
  <2> QED
    BY <1>2, <2>1, <2>3, <2>4, <2>5, FilesAre
<1>4. ASSUME pc[c] = "listed", dir[n] = dir[Db] PROVE FALSE
  <2>1. c \in Listed
    BY <1>4 DEF Listed
  <2>2. noted[c][Db] \notin {None, dir[Db]} => Unlinked(dir[Db])
    BY <1>1, <1>4 DEF ConnOK, Opening
  <2>3. noted[c][Db] \in {None, dir[Db]}
    BY <1>4, <2>2 DEF Unlinked
  <2> QED
    BY <1>2, <1>4, <2>1, <2>3, FilesAre
<1>5. ASSUME pc[c] \in {"listed", "open", "settled"}, dir[n] = dir[Index] PROVE FALSE
  <2>1. c \in Listed /\ noted[c][Index] = None
    BY <1>1, <1>5 DEF Listed, ConnOK, Noting
  <2> QED
    BY <1>2, <1>5, <2>1, FilesAre
<1> QED
  BY <1>3, <1>4, <1>5 DEF Clear

LEMMA AskOK == ASSUME IInv, NEW m \in Movers, Ask(m) PROVE IInv'
<1> DEFINE now == IF part_held(m) THEN Idle ELSE [mover[m] EXCEPT !.pc = "clear"]
<1>1. mover[m] \in Thread /\ MoverOK(m) /\ mover[m].pc = "looked"
  BY DEF Ask, IInv, TypeOK
<1>2. /\ now \in Thread
      /\ \/ now.pc = "idle"
         \/ /\ ~part_held(m)
            /\ now.pc = "clear" /\ now.name = mover[m].name /\ now.file = mover[m].file /\ now.quiet = mover[m].quiet
  BY <1>1 DEF Thread, Idle
<1>3. mover' = [mover EXCEPT ![m] = now] /\ UNCHANGED <<dir, pc, holds, blind>>
  BY DEF Ask, Disk, IInv, TypeOK
<1> HIDE DEF now
<1>4. mover' \in [Movers -> Thread] /\ mover'[m] = now /\ \A k \in Movers \ {m} : mover'[k] = mover[k]
  BY <1>2, <1>3 DEF IInv, TypeOK
<1>5. CASE now.pc = "idle"
  <2>1. MoverOK(m)'
    BY <1>4, <1>5 DEF MoverOK
  <2> QED
    BY <1>4, <2>1, MoverStep DEF Ask
<1>6. CASE ~part_held(m) /\ now.pc = "clear"
  <2> DEFINE n == mover[m].name
  <2>1. ~IsOpenDatabaseFile(mover[m].file) /\ (n \in Own => Listed = {}) /\ n \in Names
    BY <1>1, <1>6 DEF part_held, names, MoverOK
  <2>2. mover[m].quiet /\ n \in Plain => dir[n] = mover[m].file /\ dir[n] # None
    BY <1>1 DEF MoverOK
  <2>3. now.name = n /\ now.file = mover[m].file /\ now.quiet = mover[m].quiet
    BY <1>2, <1>6
  <2> HIDE DEF n
  <2>4. mover[m].quiet /\ n \in Plain => \A c \in Conns \ blind : Clear(c, n)
    BY <2>1, <2>2, UnknownIsClear
  <2>5. Listed' = Listed
    BY <1>3 DEF Listed
  <2>7. mover'[m].name = n /\ mover'[m].file = mover[m].file /\ mover'[m].quiet = mover[m].quiet /\ mover'[m].pc = "clear"
    BY <1>4, <1>6, <2>3
  <2>8. MoverOK(m)'
    <3>1. ASSUME mover[m].quiet, n \in Plain, NEW c \in Conns \ blind
          PROVE  /\ dir'[n] \notin Held(c)'
                 /\ pc'[c] = "listed" => dir'[n] # dir'[Db]
                 /\ pc'[c] \in {"listed", "open", "settled"} => dir'[n] # dir'[Index]
      BY <1>3, <2>4, <3>1 DEF Clear, Held
    <3> QED
      BY <1>3, <2>1, <2>2, <2>5, <2>7, <3>1 DEF MoverOK, Clear
  <2> QED
    BY <1>4, <2>8, MoverStep DEF Ask
<1> QED
  BY <1>2, <1>5, <1>6

LEMMA DisturbedIs ==
    ASSUME NEW k \in Movers, mover[k] \in Thread, NEW changed
    PROVE  /\ Disturbed(k, changed) \in Thread
           /\ Disturbed(k, changed).pc = mover[k].pc /\ Disturbed(k, changed).name = mover[k].name
           /\ Disturbed(k, changed).file = mover[k].file
           /\ Disturbed(k, changed).quiet => mover[k].quiet /\ mover[k].name \notin changed
  BY DEF Disturbed, Thread

\* The other renames, over a change of the tree at two names: what is told of it is not quiet,
\* and what comes to the database's names is new.
LEMMA OthersTold ==
    ASSUME IInv, NEW k \in Movers, NEW n, NEW m, mover'[k] = Disturbed(k, {n, m}),
           UNCHANGED <<pc, holds>>, blind \subseteq blind',
           \A x \in Names \ {n, m} : dir'[x] = dir[x],
           \A x \in Own : dir'[x] \in {dir[x], None} \cup Free
    PROVE  MoverOK(k)'
<1>1. MoverOK(k) /\ mover[k] \in Thread
  BY DEF IInv, TypeOK
<1>2. /\ mover'[k].pc = mover[k].pc /\ mover'[k].name = mover[k].name /\ mover'[k].file = mover[k].file
      /\ mover'[k].quiet => mover[k].quiet /\ mover[k].name \notin {n, m}
  BY <1>1, DisturbedIs
<1>3. Listed' = Listed
  BY DEF Listed
<1>4. ASSUME NEW c \in Conns, NEW p \in Plain \ {n, m}, dir[p] # None, Clear(c, p) PROVE Clear(c, p)'
  <2>1. dir'[p] = dir[p] /\ dir[p] \notin Free /\ p \in Names
    BY <1>4, FreeIsNew, OwnNames
  <2>2. dir'[Db] \in {dir[Db], None} \cup Free /\ dir'[Index] \in {dir[Index], None} \cup Free
    BY OwnNames
  <2>3. Held(c)' = Held(c)
    BY DEF Held
  <2> QED
    BY <1>4, <2>1, <2>2, <2>3 DEF Clear
<1>5. mover[k].pc # "idle" => mover[k].name \in Names
  BY <1>1 DEF MoverOK
<1> QED
  BY <1>1, <1>2, <1>3, <1>4, <1>5, MoverKept

LEMMA RenameOK == ASSUME IInv, NEW m \in Movers, Rename(m) PROVE IInv'
<1> DEFINE n == mover[m].name
<1>1. n \in Names /\ (n \in Own => Listed = {}) /\ MoverOK(m) /\ mover[m].pc = "clear"
  BY DEF Rename, IInv, MoverOK
<1>2. UNCHANGED <<pc, before, noted, holds, reader, outside, lost, blind>>
  BY DEF Rename
<1>3. Idle \in Thread /\ Idle.pc = "idle"
  BY DEF Idle, Thread
<1>4. CASE UNCHANGED dir /\ mover' = [mover EXCEPT ![m] = Idle]
  <2>1. mover' \in [Movers -> Thread] /\ mover'[m] = Idle /\ \A k \in Movers \ {m} : mover'[k] = mover[k]
    BY <1>3, <1>4 DEF IInv, TypeOK
  <2>2. MoverOK(m)'
    BY <1>3, <2>1 DEF MoverOK
  <2> QED
    BY <1>2, <1>4, <2>1, <2>2, MoverStep DEF Disk
<1>5. ASSUME NEW t \in Plain, dir[n] # None, dir[t] = None, dir' = [dir EXCEPT ![t] = dir[n], ![n] = None],
             mover' = [k \in Movers |-> IF k = m THEN Idle ELSE Disturbed(k, {n, t})]
      PROVE  IInv'
  <2> HIDE DEF n
  <2>1. /\ t # n /\ dir' \in [Names -> Inodes \cup {None}]
        /\ dir'[t] = dir[n] /\ dir'[n] = None /\ \A x \in Names \ {n, t} : dir'[x] = dir[x]
    BY <1>1, <1>5, OwnNames DEF IInv, TypeOK
  <2>2. dir'[Db] \in {dir[Db], None} /\ dir'[Index] \in {dir[Index], None}
    BY <2>1, OwnNames
  <2>3. mover'[m] = Idle /\ \A k \in Movers \ {m} : mover'[k] = Disturbed(k, {n, t})
    BY <1>5
  <2>4. mover' \in [Movers -> Thread]
    BY <1>3, <1>5, DisturbedIs DEF IInv, TypeOK
  <2>5. TypeOK' /\ pc' \in [Conns -> Steps] /\ HoldsOK' /\ LostOK' /\ ReadersOK'
    BY <1>2, <2>1, <2>4 DEF IInv, TypeOK, HoldsOK, LostOK, ReadersOK
  <2>6. NamesApart'
    BY <1>2, <2>2 DEF IInv, NamesApart
  <2>7. ASSUME NEW c \in Conns \ blind PROVE ConnOK(c)'
    <3>1. ConnSame(c) /\ ConnOK(c) /\ (n \in Own => c \notin Listed)
      BY <1>1, <1>2 DEF IInv, ConnSame
    <3> QED
      BY <1>1, <1>5, <3>1, ConnKeptByRename DEF IInv
  <2>8. ASSUME NEW k \in Movers PROVE MoverOK(k)'
    <3>1. CASE k = m
      BY <1>3, <2>3, <3>1 DEF MoverOK
    <3>2. CASE k # m
      BY <1>2, <2>1, <2>2, <2>3, <3>2, OthersTold, OwnNames
    <3> QED
      BY <3>1, <3>2
  <2> QED
    BY <1>2, <2>5, <2>6, <2>7, <2>8 DEF IInv
<1> QED
  BY <1>4, <1>5 DEF Rename

-----------------------------------------------------------------------------
(* What others do                                                          *)

\* The tree may change at names that are not the database's, and there to nothing or a new
\* file: then what the list says of a connection stands, or others are known to have changed
\* what it had not noted.
LEMMA ChangeOK ==
    ASSUME IInv, NEW n \in Names, NEW m \in Names, m \in Plain \/ m = n, NEW i, NEW j, Change(n, i, m, j),
           i \in {dir[n], None} \cup Free, j \in {dir[n], dir[m], None} \cup Free,
           m = n => i = j /\ j \in {None} \cup Free
    PROVE  IInv'
<1>1. /\ UNCHANGED <<pc, before, noted, holds, reader, lost>> /\ outside' \in 0..MaxOutside
      /\ dir' = [dir EXCEPT ![n] = i, ![m] = j]
      /\ mover' = [k \in Movers |-> Disturbed(k, {n, m})]
  BY ConstantsOK DEF Change, IInv, TypeOK
<1>2. i \in Inodes \cup {None} /\ j \in Inodes \cup {None}
  BY FreeIsNew DEF IInv, TypeOK
<1>3. /\ dir' \in [Names -> Inodes \cup {None}]
      /\ \A x \in Names \ {n, m} : dir'[x] = dir[x]
      /\ dir'[m] = j /\ (m # n => dir'[n] = i)
      /\ dir'[n] \in {dir[n], None} \cup Free
  <2>1. dir \in [Names -> Inodes \cup {None}]
    BY DEF IInv, TypeOK
  <2>2. dir' \in [Names -> Inodes \cup {None}] /\ \A x \in Names \ {n, m} : dir'[x] = dir[x]
    BY <1>1, <1>2, <2>1
  <2>3. dir'[m] = j /\ (m # n => dir'[n] = i)
    BY <1>1, <1>2, <2>1
  <2>4. dir'[n] \in {dir[n], None} \cup Free
    BY <2>3
  <2> QED
    BY <2>2, <2>3, <2>4
<1>4. /\ \A x \in Own : dir'[x] \in {dir[x], None} \cup Free
      /\ dir'[Db] = dir[Db] \/ dir'[Index] = dir[Index]
      /\ \A p \in Plain : dir'[p] \in {dir[p], None} \cup Free \/ (p \in {n, m} /\ dir'[p] \in {dir[n], dir[m]})
  BY <1>3, OwnNames
<1>5. /\ blind \subseteq blind' /\ blind' \subseteq Conns
      /\ \A c \in Conns \ blind' : \/ pc[c] \in {"new", "ready", "gone"}
                                   \/ {n, m} \cap Own = {} /\ before[c] \notin {dir[n], dir[m]}
  BY DEF Change, IInv, TypeOK
<1>6. mover' \in [Movers -> Thread] /\ \A k \in Movers : mover'[k] = Disturbed(k, {n, m})
  <2>1. \A k \in Movers : mover[k] \in Thread
    BY DEF IInv, TypeOK
  <2>2. \A k \in Movers : Disturbed(k, {n, m}) \in Thread
    BY <2>1, DisturbedIs
  <2> QED
    BY <1>1, <2>2
<1>7. TypeOK' /\ pc' \in [Conns -> Steps] /\ HoldsOK' /\ LostOK' /\ ReadersOK'
  BY <1>1, <1>3, <1>5, <1>6 DEF IInv, TypeOK, HoldsOK, LostOK, ReadersOK
<1>8. NamesApart'
  <2>1. dir'[Db] # None => dir'[Db] # dir'[Index]
    BY <1>4, FreeIsNew, OwnNames DEF IInv, NamesApart
  <2>2. ASSUME NEW c \in Conns, holds[c][Db] # None PROVE holds[c][Db] # dir'[Index]
    BY <1>4, <2>2, FreeIsNew, OwnNames DEF IInv, NamesApart
  <2> QED
    BY <1>1, <2>1, <2>2 DEF NamesApart
<1>9. ASSUME NEW c \in Conns \ blind' PROVE ConnOK(c)'
  <2>1. ConnOK(c)
    BY <1>5 DEF IInv
  <2>2. CASE pc[c] \in {"new", "ready", "gone"}
    BY <1>1, <2>1, <2>2 DEF ConnOK, Opening, Holding, Noting
  <2>3. CASE {n, m} \cap Own = {} /\ before[c] \notin {dir[n], dir[m]}
    <3>1. dir'[Db] = dir[Db] /\ dir'[Index] = dir[Index]
      BY <1>3, <2>3, OwnNames
    <3>2. Opening(c)'
      <4>1. ASSUME pc[c] \in {"prepared", "looked", "listed"}
            PROVE  before[c] # None /\ \E x \in Plain \cup {Db} : dir'[x] = before[c]
        <5>1. PICK x \in Plain \cup {Db} : dir[x] = before[c]
          BY <2>1, <4>1 DEF ConnOK, Opening
        <5>2. dir'[x] = before[c]
          BY <1>3, <2>3, <5>1, OwnNames
        <5> QED
          BY <2>1, <4>1, <5>2 DEF ConnOK, Opening
      <4>2. ASSUME pc[c] \in {"looked", "listed"}, dir[Db] # None, noted[c][Db] \notin {None, dir[Db]}
            PROVE  \A p \in Plain : dir'[p] # dir[Db]
        <5>1. Unlinked(dir[Db]) /\ dir[Db] \notin Free
          BY <2>1, <4>2, FreeIsNew, OwnNames DEF ConnOK, Opening
        <5>2. \A p \in Plain : dir'[p] \in {dir[p], dir[n], dir[m], None} \cup Free
          BY <1>4
        <5>3. n \in Plain /\ m \in Plain
          BY <2>3, OwnNames DEF Own
        <5> QED
          BY <4>2, <5>1, <5>2, <5>3 DEF Unlinked
      <4> QED
        BY <1>1, <2>1, <3>1, <4>1, <4>2 DEF ConnOK, Opening, Unlinked
    <3>3. Holding(c)'
      <4>1. ASSUME pc[c] = "open", noted[c][Db] \notin {None, holds[c][Db]}
            PROVE  \A p \in Plain : dir'[p] # holds[c][Db]
        <5>1. Unlinked(holds[c][Db]) /\ holds[c][Db] \notin Free /\ holds[c][Db] # None
          BY <2>1, <4>1, FreeIsNew, OwnNames DEF ConnOK, Holding
        <5>2. \A p \in Plain : dir'[p] \in {dir[p], dir[n], dir[m], None} \cup Free
          BY <1>4
        <5>3. n \in Plain /\ m \in Plain
          BY <2>3, OwnNames DEF Own
        <5> QED
          BY <5>1, <5>2, <5>3 DEF Unlinked
      <4>2. Held(c)' = Held(c) /\ {dir'[x] : x \in Own} = {dir[x] : x \in Own}
        BY <1>1, <3>1, OwnNames DEF Held
      <4> QED
        BY <1>1, <2>1, <3>1, <4>1, <4>2 DEF ConnOK, Holding, Unlinked
    <3> QED
      BY <1>1, <2>1, <3>2, <3>3 DEF ConnOK, Noting
  <2> QED
    BY <1>5, <2>2, <2>3
<1>10. ASSUME NEW k \in Movers PROVE MoverOK(k)'
  BY <1>1, <1>3, <1>4, <1>5, <1>6, OthersTold
<1> QED
  BY <1>1, <1>5, <1>7, <1>8, <1>9, <1>10 DEF IInv

LEMMA OutsiderOK == ASSUME IInv, Outsider PROVE IInv'
<1>1. ASSUME NEW n \in Names, Put(n) PROVE IInv'
  BY <1>1, ChangeOK DEF Put
<1>2. ASSUME NEW n \in Names, Unlink(n) PROVE IInv'
  BY <1>2, ChangeOK DEF Unlink
<1>3. ASSUME NEW n \in Names, NEW m \in Plain, Link(n, m) PROVE IInv'
  <2>1. m # n /\ m \in Names
    BY <1>3, OwnNames DEF Link
  <2> QED
    BY <1>3, <2>1, ChangeOK DEF Link
<1>4. ASSUME NEW n \in Names, NEW m \in Plain, Move(n, m) PROVE IInv'
  <2>1. m # n /\ m \in Names
    BY <1>4, OwnNames DEF Move
  <2> QED
    BY <1>4, <2>1, ChangeOK DEF Move
<1> QED
  BY <1>1, <1>2, <1>3, <1>4 DEF Outsider

-----------------------------------------------------------------------------
(* The specification                                                       *)

LEMMA UnchangedOK == ASSUME IInv, UNCHANGED vars PROVE IInv'
<1>1. Disk /\ UNCHANGED <<mover, reader, lost>>
  BY DEF vars, Disk
<1> QED
  BY <1>1, ReaderStep DEF IInv, TypeOK, ReadersOK

LEMMA NextOK == ASSUME IInv, Next PROVE IInv'
<1>1. ASSUME NEW c \in Conns, Connection(c) PROVE IInv'
  BY <1>1, PrepareOK, LookAtNameOK, ListOK, SqliteOpensOK, SettleOK, SqliteReadsOK, NoteFilesOK, AnnounceOK,
     SqliteClosesOK, LeaveOK DEF Connection
<1>2. ASSUME NEW r \in Readers, (\E n \in Names : LookToRead(r, n)) \/ OpenToRead(r) \/ Drop(r) PROVE IInv'
  BY <1>2, LookToReadOK, OpenToReadOK, DropOK
<1>3. ASSUME NEW m \in Movers, (\E n \in Names : LookToMove(m, n)) \/ Ask(m) \/ Rename(m) PROVE IInv'
  BY <1>3, LookToMoveOK, AskOK, RenameOK
<1>4. CASE Outsider
  BY <1>4, OutsiderOK
<1>5. CASE Rest
  BY <1>5, UnchangedOK DEF Rest
<1> QED
  BY <1>1, <1>2, <1>3, <1>4, <1>5 DEF Next

THEOREM Inductive == Spec => []IInv
<1>1. Init => IInv
  BY InitOK
<1>2. IInv /\ [Next]_vars => IInv'
  BY NextOK, UnchangedOK
<1> QED
  BY <1>1, <1>2, PTL DEF Spec

\* HeldFiles: the tree, the list, what SQLite holds and what each thread is at keep their
\* shapes over every step.
THEOREM TypeCorrect == Spec => []TypeOK
<1>1. IInv => TypeOK
  BY DEF IInv
<1> QED
  BY <1>1, Inductive, PTL

\* HeldFiles and ReadFile: the numbers the list has are those of files SQLite still holds, and
\* no descriptor that is closed costs SQLite the locks of a connection on the file that its
\* opener probed, unless others changed what its names hold while it was not noted.
THEOREM ListTells == Spec => []ListIsTrue
<1>1. ASSUME IInv PROVE LocksKept
  BY <1>1 DEF IInv, LostOK, LocksKept
<1>2. ASSUME IInv PROVE NumbersAreLive
  <2> SUFFICES ASSUME NEW c \in Listed \ blind, pc[c] # "listed", holds[c][Db] \in {before[c], None},
                      NEW n \in Own, noted[c][n] # None
               PROVE  noted[c][n] = holds[c][n]
    BY DEF NumbersAreLive
  <2>1. c \in Conns /\ ConnOK(c) /\ pc[c] \in {"open", "settled", "read", "ready", "closing", "closed"}
    BY <1>2 DEF IInv, Listed
  <2>2. pc[c] \notin {"closing", "closed"}
    BY <2>1 DEF ConnOK, Noting, Nothing
  <2>3. holds[c][Db] = before[c] /\ noted[c][Db] = before[c]
    BY <2>1, <2>2 DEF ConnOK, Holding
  <2>4. noted[c][Index] \in {None, holds[c][Index]}
    BY <2>1, <2>2 DEF ConnOK, Holding, Noting
  <2> QED
    BY <2>3, <2>4, OwnNames
<1>3. IInv => ListIsTrue
  BY <1>1, <1>2 DEF ListIsTrue
<1> QED
  BY <1>3, Inductive, PTL

\* rename_noreplace: a rename that goes through takes no file SQLite holds from the database's
\* names, whoever changed what lies there, and none from another name that nobody else changed
\* since the look, unless others changed what the list had not noted.
THEOREM RenameKeepsOpenFiles == Spec => KeptAtItsName
<1>1. ASSUME IInv, NEW m \in Movers, mover[m].pc = "clear", NEW c \in Conns, dir[mover[m].name] \in Held(c)
      PROVE  mover[m].name \notin Own /\ (~mover[m].quiet \/ c \in blind)
  <2>1. MoverOK(m) /\ mover[m].name \in Names
    BY <1>1 DEF IInv, MoverOK
  <2>2. c \in Listed
    BY <1>1, HeldIsListed DEF IInv
  <2>3. mover[m].name \notin Own
    BY <1>1, <2>1, <2>2 DEF MoverOK
  <2>4. mover[m].quiet /\ c \notin blind => Clear(c, mover[m].name)
    BY <1>1, <2>1, <2>3 DEF MoverOK, Names
  <2> QED
    BY <1>1, <2>3, <2>4 DEF Clear
<1>2. IInv => (\A m \in Movers : mover[m].pc = "clear" /\ dir' # dir /\ mover'[m].pc = "idle"
                => \A c \in Conns : dir[mover[m].name] \in Held(c)
                      => mover[m].name \notin Own /\ (~mover[m].quiet \/ c \in blind))
  BY <1>1
<1> QED
  BY <1>2, Inductive, PTL DEF KeptAtItsName

=============================================================================
