--------------------------- MODULE OpenDatabases ---------------------------
(***************************************************************************)
(* The list of the databases a process has open, and what it keeps from    *)
(* their files.                                                            *)
(*                                                                         *)
(* SQLite holds its locks on a file for the process: the close of any      *)
(* descriptor of that file drops them, and it finds the file by its name:  *)
(* a rename loses what it holds. So threads that read files for their      *)
(* content and threads that rename what an operator points at ask a list   *)
(* of the open databases, which every connection enters before SQLite      *)
(* opens its file and leaves after SQLite has closed it. SQLite makes and  *)
(* removes the index of the journal without asking, and others change the  *)
(* directory at any time.                                                  *)
(***************************************************************************)
EXTENDS Naturals, FiniteSets

CONSTANTS
    Conns,       \* connections, each opened and closed once
    Readers,     \* threads that read files
    Movers,      \* threads that rename files
    Db, Index,   \* the database's name and that of its journal's index
    Plain,       \* the other names of the tree
    Inodes,      \* file numbers, used again once free
    MaxOutside,  \* how often others act
    None

ASSUME ConstantsOK ==
    /\ Db # Index /\ {Db, Index} \cap Plain = {} /\ None \notin Inodes
    /\ MaxOutside \in Nat

Own == {Db, Index}
Names == Plain \cup Own

VARIABLES
    dir,      \* the file at each name, or None
    pc,       \* how far each connection is
    before,   \* the file its opener probed first
    noted,    \* the numbers it has in the list, by name
    holds,    \* the files SQLite holds for it, by the name it opened them by
    reader,   \* what each reader is doing, at which name or with which file
    mover,    \* and each mover; quiet: history, nobody else changed its name since it looked
    outside,  \* how often others have acted
    lost,     \* history: connections whose locks a close has dropped under SQLite
    blind     \* history: connections whose names, or the file probed, others changed while not all
              \* was noted: a number free again may be the next file's; or whose index, not noted,
              \* was removed by the close of a connection that holds another

vars == <<dir, pc, before, noted, holds, reader, mover, outside, lost, blind>>

Idle == [pc |-> "idle", name |-> None, file |-> None, quiet |-> TRUE]

Nothing == [n \in Own |-> None]

Held(c) == {holds[c][n] : n \in Own} \ {None}

\* A number is taken by a name, a connection or a descriptor.
Taken ==
    {dir[n] : n \in Names} \cup UNION {Held(c) : c \in Conns} \cup {reader[r].file : r \in Readers}
Free == Inodes \ Taken

(***************************************************************************)
(* The list.                                                               *)
(***************************************************************************)
Listed == {c \in Conns : pc[c] \in {"listed", "open", "settled", "read", "ready", "closing", "closed"}}

\* HeldFiles::files: what was noted, and for the rest what the name holds.
files(c) == {IF noted[c][n] # None THEN noted[c][n] ELSE dir[n] : n \in Own} \ {None}

\* holds, in the source's words.
IsOpenDatabaseFile(i) == \E c \in Listed : i \in files(c)

names(n) == n \in Own /\ Listed # {}

\* A rename has the list from its look to its end: nobody enters, notes, announces or leaves.
ListHeld == \E m \in Movers : mover[m].pc # "idle"

(***************************************************************************)
(* A connection.                                                           *)
(***************************************************************************)
At(c, step) == pc[c] = step
Goto(c, step) == pc' = [pc EXCEPT ![c] = step]
Others == UNCHANGED <<reader, mover, outside>>

\* prepare_db_file and the probe that opens the bracket.
Prepare(c) ==
    /\ At(c, "new") /\ Goto(c, "prepared")
    /\ \/ dir[Db] # None /\ UNCHANGED dir
       \/ dir[Db] = None /\ \E i \in Free : dir' = [dir EXCEPT ![Db] = i]
    /\ before' = [before EXCEPT ![c] = dir'[Db]]
    /\ UNCHANGED <<noted, holds, lost, blind>> /\ Others

\* OpenDatabase::at, before SQLite opens the file: the number is noted, then the list entered.
LookAtName(c) ==
    /\ At(c, "prepared") /\ Goto(c, "looked")
    /\ noted' = [noted EXCEPT ![c][Db] = dir[Db]]
    /\ UNCHANGED <<dir, before, holds, lost, blind>> /\ Others

List(c) ==
    /\ At(c, "looked") /\ ~ListHeld /\ Goto(c, "listed")
    /\ UNCHANGED <<dir, before, noted, holds, lost, blind>> /\ Others

\* SQLite opens the file, which may be a new one.
SqliteOpens(c) ==
    /\ At(c, "listed") /\ Goto(c, "open")
    /\ \/ dir[Db] # None /\ UNCHANGED dir
       \/ dir[Db] = None /\ \E i \in Free : dir' = [dir EXCEPT ![Db] = i]
    /\ holds' = [holds EXCEPT ![c][Db] = dir'[Db]]
    /\ UNCHANGED <<before, noted, lost, blind>> /\ Others

ForgetNothing(c) == noted

\* OpenDatabase::closing: the names answer for themselves again.
Forget(c) == [noted EXCEPT ![c] = Nothing]

\* The drop of a HeldConnection begins, or an open that failed ends.
\* A file others took from its name is not known any more.
Announce(c) ==
    /\ pc[c] \in {"listed", "open", "settled", "read", "ready"} /\ ~ListHeld
    /\ Goto(c, IF At(c, "listed") THEN "closed" ELSE "closing")
    /\ noted' = Forget(c)
    /\ blind' = IF Held(c) \subseteq {dir[n] : n \in Own} THEN blind ELSE blind \cup {c}
    /\ UNCHANGED <<dir, before, holds, lost>> /\ Others

\* settled_identity: refused, and closed again, if the name was given to another file.
Settle(c) ==
    /\ At(c, "open") /\ dir[Db] = before[c] /\ Goto(c, "settled")
    /\ UNCHANGED <<dir, before, noted, holds, lost, blind>> /\ Others

\* Connections of one process on one database share one index.
Shared(c) == {holds[d][Index] : d \in {e \in Conns : holds[e][Db] = holds[c][Db]}} \ {None}

\* The first read: SQLite opens or makes the index.
SqliteReads(c) ==
    /\ At(c, "settled") /\ Goto(c, "read")
    /\ \/ /\ \E i \in Shared(c) : holds' = [holds EXCEPT ![c][Index] = i]
          /\ UNCHANGED dir
       \/ /\ Shared(c) = {}
          /\ \/ dir[Index] # None /\ UNCHANGED dir
             \/ dir[Index] = None /\ \E i \in Free : dir' = [dir EXCEPT ![Index] = i]
          /\ holds' = [holds EXCEPT ![c][Index] = dir'[Index]]
    /\ blind' = IF holds'[c][Index] = dir'[Index] THEN blind ELSE blind \cup {c}
    /\ UNCHANGED <<before, noted, lost>> /\ Others

\* OpenDatabase::note_files, the last step of an opener.
NoteFiles(c) ==
    /\ At(c, "read") /\ ~ListHeld /\ Goto(c, "ready")
    /\ noted' = [noted EXCEPT ![c] = [n \in Own |-> IF @[n] # None THEN @[n] ELSE dir[n]]]
    /\ UNCHANGED <<dir, before, holds, lost, blind>> /\ Others

\* SQLite closes: the last connection of an index removes it, by its name, whatever lies there;
\* it leaves it when another process has the database open or it may not write.
SqliteCloses(c) ==
    /\ At(c, "closing") /\ Goto(c, "closed")
    /\ LET others == {holds[d][Index] : d \in Conns \ {c}}
       IN  \/ UNCHANGED <<dir, blind>>
           \/ /\ holds[c][Index] \notin others \cup {None}
              /\ dir' = [dir EXCEPT ![Index] = None]
              /\ blind' = blind \cup {d \in Conns \ {c} :
                            dir[Index] # None /\ holds[d][Index] = dir[Index] /\ noted[d][Index] = None}
    /\ holds' = [holds EXCEPT ![c] = Nothing]
    /\ lost' = lost \ {c}
    /\ UNCHANGED <<before, noted>> /\ Others

\* The entry goes last.
Leave(c) ==
    /\ At(c, "closed") /\ ~ListHeld /\ Goto(c, "gone")
    /\ noted' = [noted EXCEPT ![c] = Nothing]
    /\ UNCHANGED <<dir, before, holds, lost, blind>> /\ Others

Connection(c) ==
    \/ Prepare(c) \/ LookAtName(c) \/ List(c) \/ SqliteOpens(c) \/ Settle(c) \/ SqliteReads(c) \/ NoteFiles(c)
    \/ Announce(c) \/ SqliteCloses(c) \/ Leave(c)

(***************************************************************************)
(* A thread that reads a file.                                             *)
(***************************************************************************)
Disk == UNCHANGED <<dir, pc, before, noted, holds, outside, blind>>

\* open_regular_nofollow: the look by name, then the open.
LookToRead(r, n) ==
    /\ reader[r].pc = "idle" /\ ~IsOpenDatabaseFile(dir[n])
    /\ reader' = [reader EXCEPT ![r] = [Idle EXCEPT !.pc = "looked", !.name = n]]
    /\ UNCHANGED <<mover, lost>> /\ Disk

OpenToRead(r) ==
    /\ reader[r].pc = "looked"
    /\ reader' = [reader EXCEPT ![r] =
                    IF dir[@.name] = None THEN Idle
                    ELSE [Idle EXCEPT !.pc = "opened", !.file = dir[reader[r].name]]]
    /\ UNCHANGED <<mover, lost>> /\ Disk

MayCloseAsOpened(i) == TRUE

\* unless_open_database_file: the question when the descriptor is let go of.
MayClose(i) == ~IsOpenDatabaseFile(i)

\* The drop of a ReadFile: after the second look, an error or the whole read. A close
\* drops every lock the process has on the file.
Drop(r) ==
    /\ reader[r].pc = "opened"
    /\ LET i == reader[r].file
       IN  \/ /\ MayClose(i)
              /\ reader' = [reader EXCEPT ![r] = Idle]
              /\ lost' = lost \cup {c \in Conns : i \in Held(c)}
           \/ /\ ~MayClose(i)
              /\ reader' = [reader EXCEPT ![r].pc = "kept"]
              /\ UNCHANGED lost
    /\ UNCHANGED mover /\ Disk

(***************************************************************************)
(* A thread that renames a file: rename_noreplace.                         *)
(***************************************************************************)
LookToMove(m, n) ==
    /\ mover[m].pc = "idle" /\ dir[n] # None
    /\ mover' = [mover EXCEPT ![m] = [pc |-> "looked", name |-> n, file |-> dir[n], quiet |-> TRUE]]
    /\ UNCHANGED <<reader, lost>> /\ Disk

part_held_by_number(m) == IsOpenDatabaseFile(mover[m].file)

part_held(m) == IsOpenDatabaseFile(mover[m].file) \/ names(mover[m].name)

Ask(m) ==
    /\ mover[m].pc = "looked"
    /\ mover' = [mover EXCEPT ![m] = IF part_held(m) THEN Idle ELSE [@ EXCEPT !.pc = "clear"]]
    /\ UNCHANGED <<reader, lost>> /\ Disk

\* What it saw at these names is not what lies there now.
Disturbed(k, changed) ==
    IF mover[k].name \in changed THEN [mover[k] EXCEPT !.quiet = FALSE] ELSE mover[k]

Rename(m) ==
    /\ mover[m].pc = "clear"
    /\ LET n == mover[m].name
       IN  \/ \E t \in Plain :
                /\ dir[n] # None /\ dir[t] = None
                /\ dir' = [dir EXCEPT ![t] = dir[n], ![n] = None]
                /\ mover' = [k \in Movers |-> IF k = m THEN Idle ELSE Disturbed(k, {n, t})]
           \/ UNCHANGED dir /\ mover' = [mover EXCEPT ![m] = Idle]
    /\ UNCHANGED <<pc, before, noted, holds, reader, outside, lost, blind>>

(***************************************************************************)
(* Others: files appear, are linked, moved, replaced and unlinked.         *)
(***************************************************************************)
Change(n, i, m, j) ==
    /\ outside < MaxOutside /\ outside' = outside + 1
    /\ dir' = [dir EXCEPT ![n] = i, ![m] = j]
    /\ blind' = blind \cup {c \in Conns : /\ pc[c] \notin {"new", "ready", "gone"}
                                        /\ \/ {n, m} \cap Own # {}
                                           \/ before[c] \in {dir[n], dir[m]}}
    /\ mover' = [k \in Movers |-> Disturbed(k, {n, m})]
    /\ UNCHANGED <<pc, before, noted, holds, reader, lost>>

Put(n) == \E i \in Free : Change(n, i, n, i)
Link(n, m) == dir[n] # None /\ dir[m] = None /\ Change(n, dir[n], m, dir[n])
Move(n, m) == dir[n] # None /\ n # m /\ Change(n, None, m, dir[n])
Unlink(n) == dir[n] # None /\ Change(n, None, n, None)

Outsider ==
    \/ \E n \in Names : Put(n) \/ Unlink(n)
    \/ \E n \in Names, m \in Plain : Link(n, m) \/ Move(n, m)

Rest == (\A c \in Conns : At(c, "gone")) /\ ~ListHeld /\ UNCHANGED vars

Init ==
    /\ dir \in [Names -> Inodes \cup {None}]
    /\ dir[Index] = None
    /\ \A n, m \in Names : dir[n] = dir[m] /\ dir[n] # None => n = m
    /\ pc = [c \in Conns |-> "new"] /\ before = [c \in Conns |-> None]
    /\ noted = [c \in Conns |-> Nothing] /\ holds = [c \in Conns |-> Nothing]
    /\ reader = [r \in Readers |-> Idle] /\ mover = [m \in Movers |-> Idle]
    /\ outside = 0 /\ lost = {} /\ blind = {}

Next ==
    \/ \E c \in Conns : Connection(c)
    \/ \E r \in Readers : (\E n \in Names : LookToRead(r, n)) \/ OpenToRead(r) \/ Drop(r)
    \/ \E m \in Movers : (\E n \in Names : LookToMove(m, n)) \/ Ask(m) \/ Rename(m)
    \/ Outsider
    \/ Rest

Spec == Init /\ [][Next]_vars

(***************************************************************************)
(* Properties.                                                             *)
(***************************************************************************)
Thread == [pc : {"idle", "looked", "clear", "opened", "kept"}, name : Names \cup {None},
           file : Inodes \cup {None}, quiet : BOOLEAN]

\* Every part of the state has its shape; a refused rename does not keep the list. TLAPS
\* proves it (OpenDatabasesProofs); no run repeats it.
TypeOK ==
    /\ dir \in [Names -> Inodes \cup {None}]
    /\ noted \in [Conns -> [Own -> Inodes \cup {None}]]
    /\ holds \in [Conns -> [Own -> Inodes \cup {None}]]
    /\ before \in [Conns -> Inodes \cup {None}]
    /\ reader \in [Readers -> Thread] /\ mover \in [Movers -> Thread]
    /\ lost \subseteq Conns /\ blind \subseteq Conns /\ outside \in 0..MaxOutside

\* ReadFile: no descriptor is ever closed over a file SQLite holds for a connection on the file
\* its opener probed, however the read, the openings and the closings interleave, unless others
\* changed what its names hold while it was not noted.
LocksKept == \A c \in lost \ blind : holds[c][Db] # before[c]

\* rename_noreplace: no rename takes a file SQLite holds from its name - not from the database's
\* names, whoever changed what lies there, and from no other that was left alone since the look.
KeptAtItsName ==
    [][\A m \in Movers : mover[m].pc = "clear" /\ dir' # dir /\ mover'[m].pc = "idle"
        => \A c \in Conns : dir[mover[m].name] \in Held(c)
              => mover[m].name \notin Own /\ (~mover[m].quiet \/ c \in blind)]_vars

\* HeldFiles::noted: a number is forgotten before its file can be gone, so that nobody else's file
\* that has the number later is refused or kept open, once its opener has seen the right file.
NumbersAreLive ==
    \A c \in Listed \ blind : pc[c] # "listed" /\ holds[c][Db] \in {before[c], None} =>
        \A n \in Own : noted[c][n] # None => noted[c][n] = holds[c][n]

\* HeldFiles: the list says of each open database what SQLite holds, and while it does nobody's
\* close costs SQLite its locks.
ListIsTrue == LocksKept /\ NumbersAreLive

============================================================================
