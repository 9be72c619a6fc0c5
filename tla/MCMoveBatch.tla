--------------------------- MODULE MCMoveBatch ---------------------------
(***************************************************************************)
(* MoveBatch on small directories: P and D are two panels, X is a dataset. *)
(***************************************************************************)
EXTENDS MoveBatch

CONSTANTS i1, i2, i3, i4, db, lock, logs, fresh, tank, pool

\* i1 and i2 are twins; i3 is of their size, i4 is not.
mcSize == [i \in {i1, i2, i3, i4, db, lock, logs, fresh} |-> IF i \in {i4, lock} THEN 2 ELSE 1]
mcDigest == i1 :> 1 @@ i2 :> 1 @@ i3 :> 2 @@ i4 :> 3 @@ db :> 4 @@ lock :> 5 @@ logs :> 6 @@ fresh :> 1
mcStrangers == {fresh}
mcDatasets == {tank, pool}

P == <<<<101>>>>
D == <<<<102>>>>
X == <<<<103>>>>
Q == <<<<104>>>>
a == <<111>>
b == <<112>>
d == <<113>>
d1 == <<113, 1>>
s == <<114>>

mcNames == {a, d}

Plain(paths) == [p \in paths |-> Dir]
In(panel, name) == Append(panel, name)

\* Something of each kind meets its like: files a, and directories d that are merged.
Like == Plain({P, D, In(P, d), In(D, d)})
        @@ (In(P, a) :> i1 @@ In(In(P, d), a) :> i3 @@ In(In(P, d), b) :> i2 @@ In(D, a) :> i4)

\* Twins and files of one size below a directory that is merged.
Twins == Plain({P, D, In(P, d), In(D, d)})
         @@ (In(In(P, d), a) :> i1 @@ In(In(P, d), b) :> i3 @@ In(In(D, d), a) :> i2)

\* A file bars the way of the directory d, which then bars the way of d.1.
Barred == Plain({P, D, In(P, d), In(P, d1)})
          @@ (In(D, d) :> i4 @@ In(In(P, d), a) :> i1 @@ In(In(P, d1), a) :> i3)

\* The state directory, with a directory of its name on the other side, and a link.
State == Plain({P, D, In(P, s), In(D, s)})
         @@ (In(In(P, s), a) :> db @@ In(In(P, s), b) :> lock @@ In(In(P, s), d) :> logs
             @@ In(P, a) :> i1 @@ In(P, b) :> Link)

mcStateFiles == In(In(P, s), a) :> db @@ In(In(P, s), b) :> lock @@ In(In(P, s), d) :> logs

\* A panel that shows a directory of the other panel.
Nested == Plain({P, In(P, d), In(In(P, d), d)})
          @@ (In(In(P, d), a) :> i1 @@ In(P, a) :> i2)

\* A panel that shows a directory of the other panel, with a directory that is moved away from
\* where its like is then moved to.
Late == Plain({P, In(P, d), In(In(P, d), d), In(In(P, d), s), In(In(In(P, d), d), s)})
        @@ (In(In(In(P, d), s), a) :> i1 @@ In(In(In(In(P, d), d), s), a) :> i2)

\* Two empty directories of one name and three panels: each may go where the other was, or
\* be merged with it.
Empty == Plain({P, D, Q, In(P, d), In(Q, d)})

Only(k) == k @@ [x \in Kinds |-> 0]

Scene(tree, dirs, budgets) == [fs |-> tree @@ (X :> tank), panels |-> dirs, budgets |-> budgets]

\* A directory with a dataset mounted in it, moved whole or merged.
Mounted == Plain({P, D, In(P, d), In(D, b)})
           @@ (In(In(P, d), s) :> pool @@ In(In(In(P, d), s), a) :> i1 @@ In(P, b) :> i2)

\* The mounted dataset holds a copy of the directories that lead to it, and a panel shows it.
Copied == Plain({P, In(P, d), In(In(In(P, d), s), d), In(In(In(In(P, d), s), d), s)})
          @@ (In(In(P, d), s) :> pool @@ In(In(In(P, d), s), a) :> i1)

TwoMoves == Only([send |-> 2, undo |-> 2])
ThreeMoves == Only([send |-> 3, undo |-> 2])
Arrival == Only([send |-> 1, create |-> 1])
Trouble == Only([send |-> 1, undo |-> 1, fault |-> 1])
Company == Only([send |-> 1, undo |-> 1, create |-> 1, unlink |-> 1])
Panics == Only([send |-> 2, undo |-> 1, panic |-> 1])

mcScenes ==
    {Scene(Like, <<P, D>>, {TwoMoves, Trouble, Company, Panics}),
     Scene(Like, <<P, P>>, {Trouble, Company}),
     Scene(Twins, <<P, D>>, {TwoMoves, Trouble, Company}),
     Scene(Barred, <<P, D>>, {TwoMoves, Trouble}),
     Scene(State, <<P, D, X>>, {TwoMoves, Trouble}),
     Scene(Nested, <<P, In(P, d)>>, {TwoMoves, Trouble}),
     Scene(Late, <<P, In(P, d)>>, {Arrival}),
     Scene(Mounted, <<P, D>>, {TwoMoves, Trouble}),
     Scene(Copied, <<P, In(In(P, d), s)>>, {TwoMoves, Trouble}),
     Scene(Empty, <<P, D, Q>>, {ThreeMoves})}

\* A directory, and a dataset mounted in it that holds its copy.
mcCopied == {Scene(Copied, <<P, In(In(P, d), s)>>, {TwoMoves})}
==========================================================================
