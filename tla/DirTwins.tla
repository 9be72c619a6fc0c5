------------------------------ MODULE DirTwins ------------------------------
(***************************************************************************)
(* The grouping phase of a scan over what its walk left behind: which      *)
(* files carry a digest, what the omission ledger says of each directory   *)
(* (src/model/omission.rs), the streaming bottom-up signatures of the      *)
(* directories (src/model/duplicate.rs), and the status the scan ends      *)
(* with.  A digest is the content itself; a signature is the tuple <<"dir">>*)
(* with the set of <<name, digest or signature>> pairs it is computed from. *)
(***************************************************************************)
EXTENDS WalkAccount

CONSTANTS
    SizeOf   \* the size of each content

VARIABLES
    sign,    \* the streaming build: [phase, todo, stack, emitted]
    status   \* the status of the scan row

vars == <<walkVars, sign, status>>

-----------------------------------------------------------------------------
(* The manifest and its digests                                            *)

\* eligible_sizes: at least two objects share the size.
Eligible(f) ==
    Cardinality({g \in walk.files : SizeOf[world.content[g]] = SizeOf[world.content[f]]}) >= 2

\* world.unread are the files whose read fails or finds another identity.
Digest(f) ==
    IF Eligible(f) /\ f \notin world.unread THEN <<world.content[f]>> ELSE None

HashFailures == {f \in walk.files : Eligible(f) /\ Digest(f) = None}

-----------------------------------------------------------------------------
(* CompletenessSnapshot, or LegacyContext when the roots carry no authority *)

OwningRoot(p) == CHOOSE i \in DOMAIN Roots : Under(p, Roots[i])

HasOwningRoot(p) == \E i \in DOMAIN Roots : Under(p, Roots[i])

\* Mutated OmittedAtOrUnder: rows below the directory are not looked for.
OmittedAt(root, d) ==
    \/ <<root, root, "WalkError">> \in DOMAIN walk.cells
    \/ \E cell \in DOMAIN walk.cells : cell[1] = root /\ cell[2] = d

\* omitted_at_or_under: a row at the directory or below it, or the root-wide
\* sentinel, a walk error recorded at the root itself.
OmittedAtOrUnder(root, d) ==
    \/ <<root, root, "WalkError">> \in DOMAIN walk.cells
    \/ \E cell \in DOMAIN walk.cells : cell[1] = root /\ Under(cell[2], d)

Disposition(d) ==
    IF ~keyable \/ ~HasOwningRoot(d) THEN "Untrusted"
    ELSE IF OmittedAtOrUnder(Roots[OwningRoot(d)], d) THEN "Suppressed" ELSE "Trusted"

\* accountable_ancestors: up to the owning root, or without bound.
Accountable(p) ==
    {SubSeq(p, 1, k) : k \in {n \in 0..(Len(p) - 1) :
        keyable => Under(SubSeq(p, 1, n), Roots[OwningRoot(p)])}}

-----------------------------------------------------------------------------
(* build_dir_groups_in_context: the whole subtree of every directory       *)

OldDirs ==
    {d \in UNION {Accountable(f) : f \in walk.files} :
        /\ \A f \in walk.files : d \in Accountable(f) => Digest(f) # None
        /\ Disposition(d) # "Suppressed"}

OldSignature(d) ==
    {<<SubSeq(f, Len(d) + 1, Len(f)), Digest(f)>> : f \in {g \in walk.files : d \in Accountable(g)}}

-----------------------------------------------------------------------------
(* build_dir_signatures_streaming_in_context: one file or frame at a time  *)

Top == sign.stack[Len(sign.stack)]

\* The manifest is sorted component by component (PathBuf's own order).
NextFile(f) ==
    /\ f \in sign.todo
    /\ \A g \in sign.todo : g # f => Before([kind |-> "ok", path |-> f], [kind |-> "ok", path |-> g])

BeginGrouping ==
    /\ sign.phase = "idle"
    /\ walk.outcome \in {"Publishable", "Roots"}
    /\ ~cancel
    /\ sign' = [sign EXCEPT !.phase = "streaming", !.todo = walk.files]
    /\ UNCHANGED <<walkVars, status>>

\* A frame closes when the next file is not below it, or no file is left.
Closing ==
    /\ sign.phase = "streaming"
    /\ sign.stack # <<>>
    /\ sign.todo = {} \/ \E f \in sign.todo : NextFile(f) /\ ~Under(f, Top.path)

Emittable(frame) == ~frame.incomplete /\ Disposition(frame.path) # "Suppressed"

SignatureOf(frame) == <<"dir", frame.entries>>

\* Mutated TellParent: a child without a signature is passed over.
TellParentOfTwins(stack, frame) ==
    IF stack = <<>> \/ ~Emittable(frame) THEN stack
    ELSE [stack EXCEPT ![Len(stack)].entries =
                @ \cup {<<frame.path[Len(frame.path)], SignatureOf(frame)>>}]

\* What the parent learns: the child's signature, or that a child is missing.
TellParent(stack, frame) ==
    IF stack = <<>> THEN stack
    ELSE IF Emittable(frame)
         THEN [stack EXCEPT ![Len(stack)].entries =
                    @ \cup {<<frame.path[Len(frame.path)], SignatureOf(frame)>>}]
         ELSE [stack EXCEPT ![Len(stack)].incomplete = TRUE]

CloseFrame ==
    /\ Closing
    /\ LET frame == Top
           rest == SubSeq(sign.stack, 1, Len(sign.stack) - 1)
       IN  sign' = [sign EXCEPT
                !.stack = TellParent(rest, frame),
                !.emitted = IF Emittable(frame)
                            THEN @ \cup {[path |-> frame.path, sig |-> SignatureOf(frame),
                                          trust |-> Disposition(frame.path)]}
                            ELSE @]
    /\ UNCHANGED <<walkVars, status>>

\* Every accountable ancestor that has no frame gets one, outermost first.
Opened(p) ==
    LET fresh == {d \in Accountable(p) : \A i \in DOMAIN sign.stack : sign.stack[i].path # d}
        low == Len(p) - Cardinality(fresh)
    IN  [i \in 1..Cardinality(fresh) |->
            [path |-> SubSeq(p, 1, low + i - 1), entries |-> {}, incomplete |-> FALSE]]

AddFile(stack, p) ==
    IF stack = <<>> THEN stack
    ELSE IF Digest(p) = None THEN [stack EXCEPT ![Len(stack)].incomplete = TRUE]
    ELSE [stack EXCEPT ![Len(stack)].entries = @ \cup {<<p[Len(p)], Digest(p)>>}]

TakeFile ==
    /\ sign.phase = "streaming"
    /\ ~Closing
    /\ \E p \in sign.todo :
          /\ NextFile(p)
          /\ sign' = [sign EXCEPT !.todo = @ \ {p}, !.stack = AddFile(sign.stack \o Opened(p), p)]
    /\ UNCHANGED <<walkVars, status>>

\* materialize_dir_groups keeps the signatures two directories share.
Grouped == {a \in sign.emitted : \E b \in sign.emitted : a # b /\ a.sig = b.sig}

\* warning_events_of: every event of a reason nobody chose.
WarningEvents ==
    {c \in DOMAIN walk.cells : (IF keyable THEN c[3] ELSE c) # "Filter"}

\* Mutated OnCompletion: files that could not be read do not count.
OnCompletionOfWalk(failures, warnings) ==
    IF warnings # {} THEN "CompleteWithWarnings" ELSE "Complete"

OnCompletion(failures, warnings) ==
    IF failures # {} \/ warnings # {} THEN "CompleteWithWarnings" ELSE "Complete"

CompleteScan ==
    /\ sign.phase = "streaming"
    /\ sign.todo = {}
    /\ sign.stack = <<>>
    /\ ~cancel
    /\ sign' = [sign EXCEPT !.phase = "done"]
    /\ status' = OnCompletion(HashFailures, WarningEvents)
    /\ UNCHANGED walkVars

\* A walk that failed or was stopped, or a stop seen before the grouping or
\* before the publication, leaves the scan where it was.
Ended ==
    \/ sign.phase = "done"
    \/ walk.outcome \notin {None, "Publishable", "Roots"}
    \/ cancel /\ walk.outcome # None /\ sign.phase = "idle"
    \/ cancel /\ sign.phase = "streaming" /\ sign.todo = {} /\ sign.stack = <<>>

\* Esc during the grouping.
StopGrouping ==
    /\ sign.phase = "streaming"
    /\ ~cancel
    /\ cancel' = TRUE
    /\ UNCHANGED <<world, keyable, walk, sign, status>>

Rest == Ended /\ UNCHANGED vars

TwinsInit ==
    /\ Init
    /\ sign = [phase |-> "idle", todo |-> {}, stack |-> <<>>, emitted |-> {}]
    /\ status = "Walking"

Next ==
    \/ WalkNext /\ UNCHANGED <<sign, status>>
    \/ BeginGrouping
    \/ CloseFrame
    \/ TakeFile
    \/ CompleteScan
    \/ StopGrouping
    \/ Rest

Spec == TwinsInit /\ [][Next]_vars

-----------------------------------------------------------------------------
(* Properties                                                              *)

TypeOK ==
    /\ world \in Worlds
    /\ keyable \in BOOLEAN
    /\ cancel \in BOOLEAN
    /\ walk.root \in 0..Len(Roots)
    /\ walk.files \subseteq Files
    /\ walk.dirs \subseteq Folders
    /\ walk.outcome \in Ends \cup {None}
    /\ walk.unverified \in Folders \cup {None}
    /\ sign.phase \in {"idle", "streaming", "done"}
    /\ status \in {"Walking", "Complete", "CompleteWithWarnings"}

WalkDone == walk.outcome \in {"Publishable", "Roots"}

SomeRoot(p) == \E i \in DOMAIN Roots : Reached(p, Roots[i])

\* What the walk met and could not take, one entry each.
Lost ==
    {p \in Entries :
        /\ SomeRoot(p)
        /\ world.fate[p] \in {"nometa", "filtered", "nonutf8", "special", "error",
                              "shut", "blindshut", "blind"}}

\* The account a lost entry belongs to: a file it could not take to the folder it
\* lies in, what it could not get at to that path itself; the reason alone when
\* the roots have no keys.
LostReason(p) == IF world.fate[p] \in {"error", "shut", "blindshut", "blind"} THEN "WalkError"
                 ELSE ReasonOf(world.fate[p])

LostAt(p) ==
    IF LostReason(p) # "WalkError" /\ p # Roots[OwningRoot(p)] THEN Parent(p) ELSE p

LostCell(p) ==
    IF keyable THEN <<Roots[OwningRoot(p)], LostAt(p), LostReason(p)>> ELSE LostReason(p)

\* A walk that can be published recorded exactly one event for every entry it
\* left out, in the account of the folder it lies in: none is dropped on a failure
\* path of absorb, and no folder that fails twice (its identity, then its listing)
\* is counted twice.
OneEventEach ==
    WalkDone =>
        /\ DOMAIN walk.cells = {LostCell(p) : p \in Lost}
        /\ \A p \in Lost :
              CountOf(LostCell(p), walk.cells) = Cardinality({q \in Lost : LostCell(q) = LostCell(p)})

\* A published walk saw no tree twice: each folder it found entries in was noted
\* in the alias guard, and no two of those are one directory (DirAliasGuard, and
\* the rule that a folder without an identity is never gone into).
NoTreeTwice ==
    LET walked == {Parent(p) : p \in walk.files \cup walk.dirs} \cap Folders
    IN  WalkDone =>
            /\ walked \subseteq walk.dirs
            /\ \A a, b \in walk.dirs : a # b => Identity(a) # Identity(b)

\* The files really under a directory, permanent exclusions aside.
Truth(d) ==
    {<<SubSeq(f, Len(d) + 1, Len(f)), world.fate[f] = "special", world.content[f]>> :
        f \in {g \in Files : Under(g, d) /\ world.fate[g] \notin {"own", "excluded"}}}

\* Two directories shown as trusted duplicates hold the same files, with what
\* the walk could not see, filtered out or could not read counted in.
TwinsAreTwins ==
    \A a, b \in Grouped :
        a.trust = "Trusted" /\ b.trust = "Trusted" /\ a.sig = b.sig => Truth(a.path) = Truth(b.path)

\* The streaming build and the whole-subtree build it replaced describe the same
\* directories and put the same ones together (DirSigAlgo::Old and ::Merkle).
AlgorithmsAgree ==
    sign.phase = "done" =>
        /\ {e.path : e \in sign.emitted} = OldDirs
        /\ \A a, b \in sign.emitted :
              (a.sig = b.sig) <=> (OldSignature(a.path) = OldSignature(b.path))

\* A scan that ends Complete, without a warning, holds every file under its roots
\* but the ones the operator filtered out, and a digest of each that could have
\* a duplicate.
CleanMeansComplete ==
    status = "Complete" =>
        \A f \in Files :
            /\ HasOwningRoot(f)
            /\ world.fate[f] \notin {"own", "excluded", "filtered"}
            => f \in walk.files /\ (Eligible(f) => Digest(f) # None)

\* WalkSink::absorb: a published walk has met every entry once, and recorded once what it left out.
WalkIsAccounted == OneEventEach /\ NoTreeTwice

\* materialize_dir_groups: directories put together are equal, and no others by the build of old.
GroupingIsSound == TwinsAreTwins /\ AlgorithmsAgree

=============================================================================
