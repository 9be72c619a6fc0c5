---------------------------- MODULE WalkAccount ----------------------------
(***************************************************************************)
(* The walk of a scan (src/pipeline/walk.rs): the items an `ignore`        *)
(* iterator hands over, one at a time, become manifest files, omission     *)
(* events of one cell each, or the end of the scan.                        *)
(*                                                                         *)
(* A path is the sequence of its components and components are numbers, so *)
(* that the byte order of names is the order of numbers.  Entries holds    *)
(* every entry under the roots; what becomes of one when the walk meets it *)
(* is its fate, chosen once (world.fate):                                  *)
(*   files   "kept", "nometa" (its metadata cannot be read), "own" (a file *)
(*           of the open database), "filtered" (size or extension),        *)
(*           "nonutf8", "special" (link, FIFO, socket, device), "error"    *)
(*           (the iterator reports an error instead of the entry),         *)
(*           "excluded" (an exclusion glob: never handed over);            *)
(*   folders "listed", "shut" (its listing fails), "blindshut" (neither    *)
(*           its identity nor its listing can be read), "blind" (only its  *)
(*           identity cannot), "alias" (its identity is AliasTarget's).    *)
(***************************************************************************)
EXTENDS Integers, Sequences, FiniteSets

CONSTANTS
    Entries,      \* every entry at or under the roots, a set of paths
    Folders,      \* the ones that are directories
    Roots,        \* the selected roots, a sequence of paths
    AliasTarget,  \* the directory an aliased one shares its identity with
    Worlds,       \* the disks to be walked: [fate, content, unread]
    CheckEvery,   \* entries between two looks at the stop flag (1024)
    MaxU64,       \* the largest count the collector can hold
    MaxI64,       \* the largest count the checkpoint can store
    None

Files == Entries \ Folders

\* PathKey::is_at_or_under, and Path::starts_with.
Under(p, d) == Len(d) <= Len(p) /\ SubSeq(p, 1, Len(d)) = d

Parent(p) == SubSeq(p, 1, Len(p) - 1)

FileFates == {"kept", "nometa", "own", "filtered", "nonutf8", "special", "error", "excluded"}
FolderFates == {"listed", "shut", "blindshut", "blind", "alias"}
Reasons == {"WalkError", "MetadataError", "Filter", "NonUtf8", "UnsupportedEntry"}
Failures == {"CountOverflow", "ObservedOverflow", "CountNotStorable"}
Ends == {"Cancelled", "Unverifiable", "Aliased", "Publishable", "Roots", "Failed"}

\* No root lies in another (deduplicated roots); <<>> is the root of the file system.
ASSUME RootsAssumption ==
    /\ Roots \in Seq(Seq(Nat))
    /\ \A i, j \in DOMAIN Roots : i # j => ~Under(Roots[i], Roots[j])

\* What an entry under a root lies in, up to the root, are folders.
ASSUME DiskAssumption ==
    /\ Entries \subseteq Seq(Nat)
    /\ IsFiniteSet(Entries)
    /\ Folders \subseteq Entries
    /\ \A p \in Entries : \E i \in DOMAIN Roots :
          /\ Under(p, Roots[i])
          /\ \A n \in Len(Roots[i])..(Len(p) - 1) : SubSeq(p, 1, n) \in Folders

ASSUME WorldsAssumption ==
    \A w \in Worlds :
        /\ \A p \in Folders : w.fate[p] \in FolderFates
        /\ \A p \in Files : w.fate[p] \in FileFates

ASSUME BoundsAssumption == CheckEvery \in Nat \ {0} /\ MaxU64 \in Nat /\ MaxI64 \in Nat

ASSUME NoneAssumption == None \notin Folders \cup Failures \cup Ends

VARIABLES
    world,    \* the disk: [fate, content, unread], never changed
    keyable,  \* whether root_keys gives every root a key
    cancel,   \* the stop flag of the scan
    walk      \* the walk's own state

-----------------------------------------------------------------------------
(* What the iterator hands over                                            *)

\* The walk goes into a folder unless its listing fails.
Entered(d) == world.fate[d] \notin {"shut", "blindshut"}

Reached(p, root) ==
    /\ Under(p, root)
    /\ \A d \in Folders : Under(d, root) /\ Under(p, d) /\ p # d => Entered(d)

Given(item, root) ==
    /\ Reached(item.path, root)
    /\ CASE item.kind = "ok" -> world.fate[item.path] \notin {"error", "excluded"}
         [] item.kind = "err" -> world.fate[item.path] = "error"
         [] item.kind = "listing" -> world.fate[item.path] \in {"shut", "blindshut"}

\* What the iterator hands over of one root: entries, errors in place of one, and
\* the failures to list a folder.
Items(root) ==
    {item \in [kind : {"ok", "err", "listing"}, path : Entries] : Given(item, root)}

\* Inside one folder the errors come before the entries.
Rank(item, n) == IF item.kind = "err" /\ n = Len(item.path) THEN 0 ELSE 1

\* Depth first and in byte order of the names (`configure`); the failure of a
\* folder's own listing comes right after the folder.
Before(a, b) ==
    \/ Under(b.path, a.path) /\ a.path # b.path
    \/ a.path = b.path /\ a.kind = "ok" /\ b.kind = "listing"
    \/ \E n \in 1..Len(a.path) :
          /\ n <= Len(b.path)
          /\ \A m \in 1..(n - 1) : a.path[m] = b.path[m]
          /\ a.path[n] # b.path[n]
          /\ \/ Rank(a, n) < Rank(b, n)
             \/ Rank(a, n) = Rank(b, n) /\ a.path[n] < b.path[n]

\* The next of the items still to come.
IsFirst(item, items) ==
    /\ item \in items
    /\ \A other \in items : other # item => Before(item, other)

Identity(d) == IF world.fate[d] = "alias" THEN AliasTarget ELSE d

-----------------------------------------------------------------------------
(* The omission account                                                    *)

ActiveRoot == Roots[walk.root]

\* attribute_child: the parent of a known entry, never leaving the root.  The code
\* goes on up from a parent whose own path has no key, one that is not UTF-8; here
\* every folder's path has one (only a file's fate is "nonutf8"), so the first
\* candidate is taken.
AttributeChild(p) == IF Under(Parent(p), ActiveRoot) THEN Parent(p) ELSE ActiveRoot

\* attribute_error_path and error_cell for the one path an item's error names.
ErrorCell(p) == IF Under(p, ActiveRoot) THEN p ELSE ActiveRoot

\* A row of the account holds how many events fell into its cell.
CountOf(cell, cells) == IF cell \in DOMAIN cells THEN cells[cell] ELSE 0

OneMore(cells, cell) ==
    [c \in DOMAIN cells \cup {cell} |-> CountOf(c, cells) + IF c = cell THEN 1 ELSE 0]

\* Collector::record: one event, unless a failure is already held; a count that
\* cannot grow is a failure of the account, never of the walk.
CollectorRecord(w, dir, reason) ==
    LET cell == <<ActiveRoot, dir, reason>>
    IN  CASE w.failure # None -> w
          [] w.failure = None /\ CountOf(cell, w.cells) >= MaxU64 ->
                [w EXCEPT !.failure = "CountOverflow"]
          [] OTHER -> [w EXCEPT !.cells = OneMore(@, cell)]

\* Mutated TallyRecord: a count that cannot grow stays as it is.
TallyRecordSaturated(w, reason) ==
    IF CountOf(reason, w.cells) >= MaxU64 THEN w ELSE [w EXCEPT !.cells = OneMore(@, reason)]

\* ObservedTally::record: the same discipline without a place to attribute to.
TallyRecord(w, reason) ==
    CASE w.failure # None -> w
      [] w.failure = None /\ CountOf(reason, w.cells) >= MaxU64 ->
            [w EXCEPT !.failure = "ObservedOverflow"]
      [] OTHER -> [w EXCEPT !.cells = OneMore(@, reason)]

RecordChild(w, p, reason) ==
    IF keyable THEN CollectorRecord(w, AttributeChild(p), reason) ELSE TallyRecord(w, reason)

RecordError(w, p) ==
    IF keyable THEN CollectorRecord(w, ErrorCell(p), "WalkError") ELSE TallyRecord(w, "WalkError")

\* Sink::settle_unverified: a folder still waiting when its walk ends.
SettleUnverified(w) ==
    IF w.unverified = None THEN w
    ELSE [RecordError(w, w.unverified) EXCEPT !.unverified = None]

\* Collector::finish and ObservedTally::finish.
Snapshot(w) ==
    CASE w.failure # None -> [kind |-> "Failed", why |-> w.failure]
      [] w.failure = None /\ ~keyable -> [kind |-> "Roots", why |-> None]
      [] w.failure = None /\ keyable /\ \E c \in DOMAIN w.cells : w.cells[c] > MaxI64 ->
            [kind |-> "Failed", why |-> "CountNotStorable"]
      [] OTHER -> [kind |-> "Publishable", why |-> None]

-----------------------------------------------------------------------------
(* One item                                                                *)

\* Mutated SettledBy: a listing failure does not stand for the waiting folder.
SettledTwice(w, item) ==
    CASE w.unverified = None -> w
      [] w.unverified # None /\ item.kind = "ok" /\ Under(item.path, w.unverified) ->
            [w EXCEPT !.outcome = "Unverifiable"]
      [] OTHER -> SettleUnverified(w)

\* A folder that waits for its identity is settled by the next item: the walk
\* going into it ends the scan, its own listing failure is its one event, any
\* other error says nothing yet, anything else is one walk error.
SettledBy(w, item) ==
    CASE w.unverified = None -> w
      [] w.unverified # None /\ item.kind = "ok" /\ Under(item.path, w.unverified) ->
            [w EXCEPT !.outcome = "Unverifiable"]
      [] w.unverified # None /\ item.kind = "listing" /\ item.path = w.unverified ->
            [w EXCEPT !.unverified = None]
      [] w.unverified # None /\ item.kind # "ok" /\ item.path # w.unverified -> w
      [] OTHER -> SettleUnverified(w)

\* Mutated NoteFolder: folders are told apart by their names.
NoteFolderByName(w, d) == [w EXCEPT !.dirs = @ \cup {d}]

\* DirAliasGuard::note: a second pathname for a folder already walked.
NoteFolder(w, d) ==
    IF \E seen \in w.dirs : Identity(seen) = Identity(d) /\ seen # d
    THEN [w EXCEPT !.outcome = "Aliased"]
    ELSE [w EXCEPT !.dirs = @ \cup {d}]

\* Mutated AbsorbFolder: what has no identity is taken for a file.
AbsorbFolderAsFile(w, d) ==
    IF world.fate[d] \in {"blind", "blindshut"} THEN [w EXCEPT !.files = @ \cup {d}]
    ELSE NoteFolder(w, d)

AbsorbFolder(w, d) ==
    IF world.fate[d] \in {"blind", "blindshut"} THEN [w EXCEPT !.unverified = d]
    ELSE NoteFolder(w, d)

ReasonOf(fate) ==
    CASE fate = "nometa" -> "MetadataError"
      [] fate = "filtered" -> "Filter"
      [] fate = "nonutf8" -> "NonUtf8"
      [] fate = "special" -> "UnsupportedEntry"

AbsorbFile(w, p) ==
    CASE world.fate[p] = "kept" -> [w EXCEPT !.files = @ \cup {p}]
      [] world.fate[p] = "own" -> w
      [] OTHER -> RecordChild(w, p, ReasonOf(world.fate[p]))

AbsorbItem(w, item) ==
    CASE w.outcome # None -> w
      [] w.outcome = None /\ item.kind # "ok" -> RecordError(w, item.path)
      [] w.outcome = None /\ item.kind = "ok" /\ item.path \in Folders -> AbsorbFolder(w, item.path)
      [] OTHER -> AbsorbFile(w, item.path)

-----------------------------------------------------------------------------
Init ==
    /\ world \in Worlds
    /\ keyable \in BOOLEAN
    /\ cancel = FALSE
    /\ walk = [root |-> 0, todo |-> {}, entries |-> 0, files |-> {}, dirs |-> {},
               cells |-> [c \in {} |-> 0], failure |-> None, unverified |-> None, outcome |-> None]

\* The operator presses Esc: another thread sets the flag at any moment.
Stop ==
    /\ ~cancel
    /\ walk.outcome = None
    /\ cancel' = TRUE
    /\ UNCHANGED <<world, keyable, walk>>

\* The next root's builder.  With an account the folder still waiting is settled
\* in its own root first; without one, one builder walks every root.
NextRoot ==
    /\ walk.outcome = None
    /\ walk.todo = {}
    /\ walk.root < Len(Roots)
    /\ LET settled == IF keyable /\ walk.root > 0 THEN SettleUnverified(walk) ELSE walk
       IN  walk' = [settled EXCEPT !.root = @ + 1, !.todo = Items(Roots[walk.root + 1])]
    /\ UNCHANGED <<world, keyable, cancel>>

\* walk_collecting looks at the flag once in CheckEvery entries.
Interrupted == walk.entries % CheckEvery = 0 /\ cancel

WalkStopped ==
    /\ walk.outcome = None
    /\ walk.todo # {}
    /\ Interrupted
    /\ walk' = [walk EXCEPT !.outcome = "Cancelled"]
    /\ UNCHANGED <<world, keyable, cancel>>

Absorb ==
    /\ walk.outcome = None
    /\ ~Interrupted
    /\ \E item \in walk.todo :
          /\ IsFirst(item, walk.todo)
          /\ LET taken == [walk EXCEPT !.todo = @ \ {item}, !.entries = @ + 1]
             IN  walk' = AbsorbItem(SettledBy(taken, item), item)
    /\ UNCHANGED <<world, keyable, cancel>>

WalkFinished ==
    /\ walk.outcome = None
    /\ walk.todo = {}
    /\ walk.root = Len(Roots)
    /\ LET settled == SettleUnverified(walk)
       IN  walk' = [settled EXCEPT !.outcome = Snapshot(settled).kind,
                                   !.failure = Snapshot(settled).why]
    /\ UNCHANGED <<world, keyable, cancel>>

WalkNext == Stop \/ NextRoot \/ WalkStopped \/ Absorb \/ WalkFinished

walkVars == <<world, keyable, cancel, walk>>
=============================================================================
