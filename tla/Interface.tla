----------------------------- MODULE Interface -----------------------------
(***************************************************************************)
(* The interface of a running operator or observer: App (src/app.rs), its  *)
(* event loop (src/main.rs), the browsing actor it asks for everything in  *)
(* the database and the fleet that owns that actor (src/state/browse.rs),  *)
(* and the worker threads that scan, apply, move and purge.                *)
(*                                                                         *)
(* One thread runs the event loop, so a handler is one step. It is written *)
(* as an operator from App to App: what a handler calls is applied to what *)
(* the calls before it left. The actor and the workers are threads of      *)
(* their own; requests go to the actor through one queue, and everything   *)
(* comes back through one queue of events, the inbox.                      *)
(*                                                                         *)
(* The window is the commander with its questions, the Scanning, Applying  *)
(* and Summary screens and the group view a finished scan opens. What a    *)
(* mark, a group or a plan says is left out: a scan has marks or has not.  *)
(***************************************************************************)
EXTENDS Naturals, Sequences, FiniteSets, Functions

CONSTANTS
    Scans,     \* the scans of the database
    Dirs,      \* the directories a panel may show
    None,      \* no scan
    Budgets    \* what the operator and the surroundings may do, and how often: one of these

\* What the operator presses and what befalls the process, each bounded by its budget.
Kinds == {"cd", "mark", "clear", "plan", "confirm", "scan", "move", "purge", "quit", "role",
          "fault", "swap", "actorPanic", "workerPanic", "kill", "hangup", "lose"}

ASSUME ConstantsOK ==
    /\ None \notin Scans /\ IsFiniteSet(Scans)
    /\ Dirs # {}
    /\ Budgets \subseteq [Kinds -> Nat]

VARIABLES
    app,       \* App, its fleet and the channels and workers it holds
    thread,    \* actor -> its thread: what it installed, and whether its receiver is there
    inbox,     \* the events sent to the loop and not yet handled
    pc,        \* the loop: "pass", "event", "ended"
    lost,      \* drawing failed
    signals,   \* [requested, count]: SHUTDOWN and COUNT
    tuiDead,   \* a thread panicked and the hook gave the terminal back
    db,        \* the scans the database holds marks of
    stale,     \* history: scans whose marks say what the last reported batch already did
    left       \* the budget given, and what remains of it now

vars == <<app, thread, inbox, pc, lost, signals, tuiDead, db, stale, left>>

NoOpen == [req |-> 0, scan |-> None, show |-> FALSE]
NoPlan == [scan |-> None, valid |-> FALSE]
Settled == [st |-> "Settled", waits |-> {}]
Blocked == [st |-> "Blocked", waits |-> {}]
Inactive == [scan |-> None, act |-> 0]

Init ==
    /\ app \in [
        quit : {FALSE}, stage : {"None"}, settling : {0},
        screen : {"panels"}, readOnly : BOOLEAN, prompt : BOOLEAN,
        scan : {FALSE}, apply : {FALSE}, moves : {0}, purges : {0}, probes : {0},
        stop : {{}}, work : {[scan |-> FALSE, apply |-> None, moves |-> 0, purges |-> 0, probes |-> 0]},
        owed : {None}, unsettled : {FALSE}, gate : {Settled}, plan : {NoPlan},
        pending : {{}}, open : {NoOpen}, marked : {0}, groups : {{}}, planning : {0},
        reconcile : {0}, covering : {{}}, owes : {None},
        cwd : Dirs, cache : {<< >>}, refused : {{}},
        cur : {None}, dedup : {None}, act : {0}, group : {FALSE},
        fleet : {"Idle"}, actor : {0}, spawn : {<< >>}, born : {<< >>}, ledger : {{}},
        queue : {<< >>}, req : {0},
        keyQuit : {FALSE}, late : {FALSE}, last : {[scan |-> None, owed |-> None]}]
    /\ app.prompt => app.readOnly
    /\ left \in {[given |-> b, now |-> b] : b \in Budgets}
    /\ left.given["role"] = 0 => ~app.readOnly
    /\ thread = << >>
    /\ inbox = << >> /\ pc = "pass" /\ lost = FALSE /\ tuiDead = FALSE
    /\ signals = [requested |-> FALSE, count |-> 0]
    /\ db = {} /\ stale = {}

(***************************************************************************)
(* The fleet and the handle: at most one actor, and a request that was     *)
(* accepted stands in its queue. Actors are numbered as they are spawned;  *)
(* one spawned in the step under way has its thread when the step ends.    *)
(***************************************************************************)
\* The receiver of the fleet's actor is there: the channel takes a request.
Receives(a) ==
    a.fleet = "Live" /\ (a.actor \in DOMAIN thread => thread[a.actor].st = "running")

TerminalOwed(a) == a.fleet # "Idle"

\* BrowseFleet::spawn, refused unless the fleet is idle.
Spawn(a) ==
    IF a.fleet # "Idle" THEN a
    ELSE [a EXCEPT !.fleet = "Live", !.actor = Len(a.born) + 1, !.ledger = {},
                   !.queue = Append(@, << >>),
                   !.born = Append(@, IF a.readOnly THEN "Observer" ELSE "Operator")]

RequestSameActivation(a, kind, scan) ==
    [kind |-> kind, req |-> a.req + 1, scan |-> scan, act |-> a.act]

\* What stands in the queue. scan is the scan of an Open, and else the one shown when it was asked.
Request(a, kind, scan) ==
    [kind |-> kind, req |-> a.req + 1, scan |-> scan,
     act |-> IF kind = "Open" THEN a.act + 1 ELSE a.act]

Enqueue(a, kind, scan) ==
    [a EXCEPT !.req = @ + 1, !.queue[a.actor] = Append(@, Request(a, kind, scan))]

\* send_browse spawns an actor if there is none; a draining fleet takes nothing.
SendBrowse(a, kind, scan) ==
    LET b == Spawn(a) IN IF Receives(b) THEN Enqueue(b, kind, scan) ELSE b

Sent(a, b) == b.req > a.req
ReqOf(a, b) == IF Sent(a, b) THEN b.req ELSE 0

\* send_set_marks and send_clear_marks: ticket and request are accepted together or not at all.
SendTicket(a, kind) ==
    IF Receives(a)
    THEN LET b == Enqueue(a, kind, a.dedup)
         IN  [b EXCEPT !.ledger = @ \cup {b.req}, !.pending = @ \cup {b.req}]
    ELSE a

SettleTicket(a, req) == IF a.fleet = "Live" THEN [a EXCEPT !.ledger = @ \ {req}] ELSE a

(***************************************************************************)
(* Opening a scan and letting go of one.                                   *)
(***************************************************************************)
\* One open at a time; asking for the scan on its way may only decide where it is shown.
OpenViaActor(a, scan, show) ==
    IF a.open # NoOpen
    THEN [a EXCEPT !.open.show = @ \/ (show /\ a.open.scan = scan)]
    ELSE LET b == SendBrowse(a, "Open", scan)
         IN  IF Sent(a, b)
             THEN [b EXCEPT !.open = [req |-> b.req, scan |-> scan, show |-> show]]
             ELSE b

\* The plan in the confirmation stays to be seen; it can no longer be confirmed.
InvalidateConfirmation(a) == [a EXCEPT !.plan.valid = FALSE]

\* An open or a lost database closes the question «Clear all marks».
CloseClear(a) == IF a.screen = "clear" THEN [a EXCEPT !.screen = "panels"] ELSE a

InstallOpened(a, e) ==
    LET b == CloseClear(InvalidateConfirmation(a))
    IN  [b EXCEPT !.act = e.act, !.cur = e.scan, !.dedup = e.scan, !.gate = Settled, !.refused = {},
                  !.group = e.group, !.open = NoOpen,
                  !.screen = IF a.open.show /\ a.screen = "scanning" THEN "browser" ELSE @]

UninstallBrowsing(a) ==
    LET b == CloseClear(InvalidateConfirmation(a))
    IN  [b EXCEPT !.cur = None, !.dedup = None, !.group = FALSE, !.cache = << >>,
                  !.gate = Blocked]

LeaveScanScreen(a) == [a EXCEPT !.owes = None, !.screen = "panels"]

\* The scan screen without a scan and without an open: the result it owes, or back.
SettleScanScreen(a) ==
    IF a.screen # "scanning" \/ a.scan \/ a.open # NoOpen THEN a
    ELSE LET b == IF a.owes = None THEN a ELSE OpenViaActor(a, a.owes, TRUE)
         IN  IF b.open # NoOpen THEN [b EXCEPT !.owes = None] ELSE LeaveScanScreen(b)

OnOpenFinishedNoSettle(a, e) ==
    IF a.open.req # e.req THEN a
    ELSE CASE e.res = "ok" -> InstallOpened(a, e)
           [] e.res = "path" -> UninstallBrowsing([a EXCEPT !.open = NoOpen])
           [] OTHER -> [a EXCEPT !.open = NoOpen]

OnOpenFinished(a, e) ==
    IF a.open.req # e.req THEN a
    ELSE SettleScanScreen(CASE e.res = "ok" -> InstallOpened(a, e)
                            [] e.res = "path" -> UninstallBrowsing([a EXCEPT !.open = NoOpen])
                            [] OTHER -> [a EXCEPT !.open = NoOpen])

(***************************************************************************)
(* The marks gate: after a write that was not seen row by row no plan is   *)
(* built until the count, and the rows of an open group, were read again.  *)
(* A gate that is re-reading belongs to the installed activation: the next *)
(* install settles it.                                                     *)
(***************************************************************************)
RefreshMarkedCount(a) ==
    IF a.cur = None THEN a
    ELSE LET b == SendBrowse(a, "Count", a.cur) IN [b EXCEPT !.marked = ReqOf(a, b)]

StartGateReload(a) ==
    LET b == RefreshMarkedCount(a)
        c == IF a.group THEN SendBrowse(b, "Group", a.cur) ELSE b
        d == IF Sent(b, c) THEN [c EXCEPT !.groups = @ \cup {c.req}] ELSE c
    IN  IF Sent(a, b)
        THEN [d EXCEPT !.gate = [st |-> "Reloading",
                                 waits |-> {b.req} \cup (IF Sent(b, c) THEN {c.req} ELSE {})]]
        ELSE [d EXCEPT !.gate = Blocked, !.unsettled = TRUE]

SettleGate(a, req, ok) ==
    IF a.gate.st # "Reloading" \/ req \notin a.gate.waits THEN a
    ELSE IF ~ok THEN [a EXCEPT !.gate = Blocked, !.unsettled = TRUE]
    ELSE IF a.gate.waits = {req} THEN [a EXCEPT !.gate = Settled]
    ELSE [a EXCEPT !.gate.waits = @ \ {req}]

OnMarkedCount(a, e) ==
    LET b == [a EXCEPT !.marked = 0]
    IN  CASE a.marked # e.req -> a
          [] a.marked = e.req /\ e.act # a.act -> b
          [] OTHER -> IF e.res = "path" THEN UninstallBrowsing(b)
                      ELSE SettleGate(b, e.req, e.res = "ok")

\* The answer to a reload of the open group.
OnGroup(a, e) ==
    LET b == [a EXCEPT !.groups = @ \ {e.req}]
    IN  CASE e.req \notin a.groups -> a
          [] e.req \in a.groups /\ e.act # a.act -> b
          [] OTHER -> IF e.res = "path" THEN UninstallBrowsing(b)
                      ELSE [SettleGate(b, e.req, e.res = "ok") EXCEPT !.group = e.res = "ok"]

\* A plan may be asked for.
PlanGate(a) == a.pending = {} /\ a.gate = Settled

(***************************************************************************)
(* Marks, plans and what a batch owes.                                     *)
(***************************************************************************)
OnMarkAck(a, e) ==
    LET b == [SettleTicket(a, e.req) EXCEPT !.pending = @ \ {e.req}]
        c == IF e.res = "path" THEN UninstallBrowsing(b) ELSE b
    IN  IF e.act # a.act THEN b ELSE InvalidateConfirmation(RefreshMarkedCount(c))

\* seat_plan
SeatPlan(a, scan) == [a EXCEPT !.plan = [scan |-> scan, valid |-> TRUE], !.screen = "confirm"]

\* A plan is seated over the panels alone; one that cannot be seated is dropped.
OnPlan(a, e) ==
    LET b == [a EXCEPT !.planning = 0]
    IN  CASE a.planning # e.req -> a
          [] a.planning = e.req /\ e.act # a.act -> b
          [] OTHER -> IF e.res = "ok" /\ a.screen = "panels" THEN SeatPlan(b, e.scan)
                      ELSE IF e.res # "ok" THEN [b EXCEPT !.plan = NoPlan] ELSE b

\* The settlement is sent to the scan shown, and only if that is the scan it is owed to.
SendPendingReconcile(a) ==
    IF a.owed = None \/ a.cur # a.owed THEN a
    ELSE LET b == SendBrowse(a, "Reconcile", a.owed) IN [b EXCEPT !.reconcile = ReqOf(a, b)]

RaiseUnsettled(a) == [a EXCEPT !.unsettled = TRUE, !.gate = Blocked]

(***************************************************************************)
(* An actor's end and the staged exit.                                     *)
(***************************************************************************)
SettleRetiredLedgerOnly(a) ==
    IF a.ledger = {} THEN a ELSE [a EXCEPT !.ledger = {}, !.unsettled = TRUE, !.gate = Blocked]

\* settle_retired: tickets nobody acknowledged.
SettleRetired(a) ==
    IF a.ledger = {} THEN a
    ELSE [a EXCEPT !.pending = @ \ a.ledger, !.ledger = {}, !.unsettled = TRUE, !.gate = Blocked]

\* The successor a change of role asked for, spawned only now, with the scan on screen reopened.
SpawnSuccessor(a) ==
    LET b == Spawn([a EXCEPT !.spawn = << >>])
    IN  IF a.spawn = << >> \/ a.fleet # "Idle" THEN [a EXCEPT !.spawn = << >>]
        ELSE IF a.spawn[1] = None THEN b ELSE OpenViaActor(b, a.spawn[1], FALSE)

\* retire_actor, on a fleet that has let go of the actor. The join is in Become below.
RetireActor(a, cause) ==
    LET b == SettleRetired(a)
        c == IF b.open = NoOpen THEN b ELSE SettleScanScreen([b EXCEPT !.open = NoOpen])
    IN  CASE cause = "Panicked" -> [c EXCEPT !.unsettled = TRUE, !.gate = Blocked]
          [] cause = "Requested" /\ a.stage = "None" -> SpawnSuccessor(c)
          [] OTHER -> [c EXCEPT !.spawn = << >>]

\* begin_close: the flag and the one Shutdown together; a receiver that is gone is retired here.
BeginClose(a) ==
    CASE a.fleet # "Live" -> a
      [] a.fleet = "Live" /\ Receives(a) ->
            [Enqueue(a, "Shutdown", None) EXCEPT !.fleet = "Draining"]
      [] OTHER -> RetireActor([a EXCEPT !.fleet = "Idle", !.spawn = << >>], "Requested")

ProducersBusy(a) == a.scan \/ a.apply \/ a.moves > 0 \/ a.purges > 0

Producers(a) ==
    LET b == SendPendingReconcile(a)
    IN  CASE a.stage # "Producers" \/ ProducersBusy(a) -> a
          [] a.stage = "Producers" /\ ~ProducersBusy(a) /\ a.owed = None ->
                [a EXCEPT !.stage = "Draining"]
          [] a.stage = "Producers" /\ ~ProducersBusy(a) /\ a.owed # None /\ ~TerminalOwed(a) ->
                [RaiseUnsettled(a) EXCEPT !.owed = None, !.stage = "Done"]
          [] OTHER ->
                IF Sent(a, b) THEN [b EXCEPT !.stage = "Settling", !.settling = b.req]
                ELSE [RaiseUnsettled(b) EXCEPT !.owed = None, !.stage = "Draining"]

\* The terminal was consumed with the settlement in flight: its answer never comes.
Settling(a) ==
    IF a.stage = "Settling" /\ ~TerminalOwed(a)
    THEN [RaiseUnsettled(a) EXCEPT !.owed = None, !.reconcile = 0, !.stage = "Done"]
    ELSE a

Draining(a) ==
    IF a.stage # "Draining" THEN a
    ELSE IF ~TerminalOwed(a) THEN [a EXCEPT !.stage = "Done"] ELSE BeginClose(a)

Done(a) == IF a.stage = "Done" THEN [a EXCEPT !.quit = TRUE] ELSE a

\* advance_shutdown: the loop runs each stage once, and the drain again after a retirement in it.
AdvanceShutdown(a) == Done(Draining(Draining(Settling(Producers(a)))))

RequestShutdownNoCancel(a, forced) ==
    IF forced THEN [a EXCEPT !.spawn = << >>, !.stage = "Done", !.quit = TRUE]
    ELSE AdvanceShutdown(IF a.stage = "None"
                         THEN [a EXCEPT !.spawn = << >>, !.stage = "Producers"] ELSE a)

\* request_shutdown
RequestShutdown(a, forced) ==
    LET b == [a EXCEPT !.stop = @ \cup (IF a.scan THEN {"scan"} ELSE {})
                                  \cup (IF a.apply THEN {"apply"} ELSE {})]
    IN  IF forced THEN [b EXCEPT !.spawn = << >>, !.stage = "Done", !.quit = TRUE]
        ELSE AdvanceShutdown(IF b.stage = "None"
                             THEN [b EXCEPT !.spawn = << >>, !.stage = "Producers"] ELSE b)

ShutdownPending == signals.requested \/ tuiDead

\* What the completion handlers do after recording an outcome.
AskAgain(a) == IF ShutdownPending THEN RequestShutdown(a, FALSE) ELSE a

\* on_actor_closed: by actor id; a terminal of an actor that was retired already says nothing.
OnActorClosed(a, e) ==
    LET panicked == e.res = "Panicked"
        b == [a EXCEPT !.fleet = "Idle", !.spawn = IF panicked THEN << >> ELSE @]
    IN  IF TerminalOwed(a) /\ a.actor = e.req THEN AdvanceShutdown(RetireActor(b, e.res))
        ELSE AdvanceShutdown(a)

OnReconcileAckTrusting(a, e) ==
    LET b == [a EXCEPT !.reconcile = 0, !.owed = None, !.unsettled = FALSE]
    IN  IF a.reconcile # e.req THEN a
        ELSE IF a.stage = "Settling" /\ a.settling = e.req
             THEN AdvanceShutdown([b EXCEPT !.stage = "Draining"]) ELSE b

OnReconcileAck(a, e) ==
    LET b == [a EXCEPT !.reconcile = 0, !.owed = None]
        c == [b EXCEPT !.unsettled = FALSE]
        d == IF e.res = "ok"
             THEN IF e.act = a.act /\ a.stage = "None"
                  THEN StartGateReload(InvalidateConfirmation(c)) ELSE c
             ELSE IF e.res = "path" THEN UninstallBrowsing(RaiseUnsettled(b))
             ELSE RaiseUnsettled(b)
    IN  IF a.reconcile # e.req THEN a
        ELSE IF a.stage = "Settling" /\ a.settling = e.req
             THEN AdvanceShutdown([d EXCEPT !.stage = "Draining"]) ELSE d

(***************************************************************************)
(* The workers' outcomes.                                                  *)
(***************************************************************************)
\* A batch that ran owes its settlement to the scan the commander shows when it reports.
Owe(a) ==
    LET b == [a EXCEPT !.owed = a.dedup, !.unsettled = TRUE, !.last.owed = a.dedup]
        c == SendPendingReconcile(b)
    IN  IF a.dedup = None THEN [a EXCEPT !.unsettled = FALSE, !.last.owed = None]
        ELSE IF Sent(b, c) THEN c ELSE RaiseUnsettled(c)

\* on_apply_finished: refused before anything ran, refused as nothing can run where the files are,
\* refused by itself after the snapshots, ran, or failed.
OnApplyFinished(a, e) ==
    LET b == [a EXCEPT !.apply = FALSE]
        c == CASE e.res = "Refused" -> SeatPlan([b EXCEPT !.unsettled = FALSE], e.scan)
               [] e.res = "Unrunnable" ->
                    [b EXCEPT !.unsettled = FALSE, !.screen = "panels", !.plan = NoPlan]
               [] e.res = "Aborted" ->
                    RefreshMarkedCount([b EXCEPT !.unsettled = FALSE, !.screen = "summary"])
               [] e.res = "Finished" -> Owe([b EXCEPT !.screen = "summary"])
               [] e.res = "Failed" -> [b EXCEPT !.screen = "panels"]
    IN  IF ShutdownPending THEN RequestShutdown(c, FALSE) ELSE AdvanceShutdown(c)

\* on_finished. A completed scan is opened over its screen, which waits for an open before it.
OnFinished(a, e) ==
    LET b == AskAgain([a EXCEPT !.scan = FALSE, !.owes = None])
        c == OpenViaActor(b, e.scan, TRUE)
        d == [c EXCEPT !.owes = IF c.open # NoOpen /\ c.open.scan # e.scan THEN e.scan ELSE None]
        f == IF e.res = "Completed" THEN OpenViaActor(d, e.scan, FALSE)
             ELSE [b EXCEPT !.screen = "panels"]
    IN  SettleScanScreen([f EXCEPT !.cache = << >>])

StartScan(a) == [a EXCEPT !.scan = TRUE, !.work.scan = TRUE, !.stop = @ \ {"scan"},
                          !.screen = "scanning", !.late = @ \/ a.stage # "None"]

OnResumeProbeTwice(a, e) ==
    LET b == [a EXCEPT !.probes = @ - 2]
    IN  IF a.screen # "panels" \/ e.res = "err" THEN b ELSE [b EXCEPT !.screen = "resume"]

\* The answer to F2: a scan starts at once over the panels, or a question is asked.
OnResumeProbe(a, e) ==
    LET b == [a EXCEPT !.probes = @ - 1]
    IN  CASE a.screen # "panels" \/ e.res = "err" -> b
          [] a.screen = "panels" /\ e.res = "fresh" -> IF a.readOnly THEN b ELSE StartScan(b)
          [] OTHER -> [b EXCEPT !.screen = "resume"]

\* apply_auto_switch: the scan that covers the active panel's directory, or none.
AutoSwitch(a, target) ==
    IF target = a.dedup THEN a
    ELSE IF target = None THEN [a EXCEPT !.dedup = None] ELSE OpenViaActor(a, target, FALSE)

\* The answer is kept for its directory and followed, though the panel may have left it; a refusal
\* is remembered for the directory the panel is on.
OnCoveringScan(a, e) ==
    LET dir == CHOOSE d \in Dirs : [req |-> e.req, dir |-> d] \in a.covering
        b == [a EXCEPT !.covering = {r \in @ : r.req # e.req}]
        c == IF e.res = "path" THEN UninstallBrowsing(b) ELSE b
    IN  IF b = a THEN a
        ELSE IF e.res = "ok"
             THEN AutoSwitch([b EXCEPT !.cache = [d \in DOMAIN @ \cup {dir} |->
                                                    IF d = dir THEN e.scan ELSE @[d]]], e.scan)
             ELSE [c EXCEPT !.refused = IF a.cwd = dir THEN {dir} ELSE @]

\* maybe_auto_switch_scan, on every frame that shows the panels: what covers the directory of the
\* active one is known, was refused, is being asked, or is asked now.
Look(a) ==
    LET b == [a EXCEPT !.refused = @ \cap {a.cwd}]
        c == SendBrowse(b, "Covering", None)
    IN  CASE a.cwd \in DOMAIN a.cache -> AutoSwitch(b, a.cache[a.cwd])
          [] a.cwd \notin DOMAIN a.cache /\ (b.refused # {} \/ \E r \in a.covering : r.dir = a.cwd) -> b
          [] OTHER -> IF Sent(b, c)
                      THEN [c EXCEPT !.covering = @ \cup {[req |-> c.req, dir |-> a.cwd]}] ELSE c

(***************************************************************************)
(* The event loop. A pass reads the flags and draws; then one event, or    *)
(* none for 200 ms, is handled. A key is the event a pass finds first.     *)
(***************************************************************************)
Spend(kind) == left.now[kind] > 0 /\ left' = [left EXCEPT !.now[kind] = @ - 1]

Event(kind, act, req, res, scan) ==
    [kind |-> kind, act |-> act, req |-> req, res |-> res, scan |-> scan, group |-> FALSE]

\* A thread that was spawned and has not taken anything from its queue.
Fresh == [st |-> "running", active |-> Inactive, poisoned |-> FALSE]

\* The loop's thread left App as n, having taken what is before rest from the inbox. An actor let
\* go of with its receiver gone was joined: its terminal is in the inbox before the step ends.
Become(n, rest) ==
    LET joined == {i \in DOMAIN thread : /\ thread[i].st = "dropped"
                                         /\ i = app.actor /\ TerminalOwed(app)
                                         /\ ~(TerminalOwed(n) /\ n.actor = i)}
    IN  /\ app' = n
        /\ thread' = [i \in DOMAIN n.born |->
                        IF i \notin DOMAIN thread THEN Fresh
                        ELSE IF i \in joined THEN [thread[i] EXCEPT !.st = "ended"] ELSE thread[i]]
        /\ inbox' = IF joined = {} THEN rest
                    ELSE Append(rest, Event("Closed", 0, app.actor, "Panicked", None))

\* What a pass asks of App before it draws.
Flags ==
    LET a == IF signals.requested THEN RequestShutdown(app, signals.count > 1) ELSE app
    IN  IF tuiDead \/ lost THEN RequestShutdown(a, FALSE) ELSE a

Frame == ~tuiDead /\ ~lost

\* The window over the panels, or the panels: the commander draws.
Commanding(a) == a.screen \in {"panels", "confirm", "clear", "resume"}

Drawn == IF Frame /\ Commanding(Flags) THEN Look(Flags) ELSE Flags

Pass ==
    /\ pc = "pass" /\ ~app.quit
    /\ Become(Drawn, inbox)
    /\ pc' = "event"
    /\ UNCHANGED <<lost, signals, tuiDead, db, stale, left>>

\* The frame was composed and could not be written.
PassLosesTerminal ==
    /\ pc = "pass" /\ ~app.quit /\ Frame
    /\ Spend("lose")
    /\ lost' = TRUE
    /\ Become(RequestShutdown(Drawn, FALSE), inbox)
    /\ pc' = "event"
    /\ UNCHANGED <<signals, tuiDead, db, stale>>

End == /\ pc = "pass" /\ app.quit /\ pc' = "ended"
       /\ UNCHANGED <<app, thread, inbox, lost, signals, tuiDead, db, stale, left>>

\* on_move_done and on_session_deleted count one job less and ask again.
HandleEvent(a, e) ==
    CASE e.kind = "Open" -> OnOpenFinished(a, e)
      [] e.kind = "Count" -> OnMarkedCount(a, e)
      [] e.kind = "Group" -> OnGroup(a, e)
      [] e.kind \in {"SetMarks", "ClearMarks"} -> OnMarkAck(a, e)
      [] e.kind = "Plan" -> OnPlan(a, e)
      [] e.kind = "Reconcile" -> OnReconcileAck(a, e)
      [] e.kind = "Covering" -> OnCoveringScan(a, e)
      [] e.kind = "Closed" -> OnActorClosed(a, e)
      [] e.kind = "ApplyFinished" -> OnApplyFinished(a, e)
      [] e.kind = "ScanFinished" -> OnFinished(a, e)
      [] e.kind = "MoveDone" -> AskAgain([a EXCEPT !.moves = @ - 1])
      [] e.kind = "Purged" -> AskAgain([a EXCEPT !.purges = @ - 1])
      [] e.kind = "Probe" -> OnResumeProbe(a, e)

Handle ==
    /\ pc = "event" /\ inbox # << >>
    /\ Become(HandleEvent(app, Head(inbox)), Tail(inbox))
    /\ pc' = "pass"
    /\ UNCHANGED <<lost, signals, tuiDead, db, stale, left>>

Timeout ==
    /\ pc = "event" /\ inbox = << >>
    /\ pc' = "pass"
    /\ UNCHANGED <<app, thread, inbox, lost, signals, tuiDead, db, stale, left>>

(***************************************************************************)
(* Keys. With no screen to show what they act on they are dropped. The     *)
(* budget bounds what a key can ask for, not the way back from a screen.   *)
(***************************************************************************)
Pressed(n) ==
    /\ Become(n, inbox)
    /\ pc' = "pass"
    /\ UNCHANGED <<lost, signals, tuiDead, db>>

Key(screen) == pc = "event" /\ Frame /\ ~app.prompt /\ app.screen = screen

\* A command of the panels that changes something.
Command(kind) == Key("panels") /\ ~app.readOnly /\ Spend(kind)

\* The active panel shows another directory.
KeyCd ==
    /\ Key("panels") /\ Spend("cd")
    /\ \E dir \in Dirs \ {app.cwd} : Pressed([app EXCEPT !.cwd = dir])
    /\ UNCHANGED stale

KeyMark ==
    /\ Command("mark") /\ app.dedup # None /\ app.pending = {}
    /\ Pressed(SendTicket(app, "SetMarks")) /\ UNCHANGED stale

\* «Clear all marks» asks first, and not while a window or a scan of its own is on its way.
KeyAskClear ==
    /\ Command("clear") /\ app.dedup # None /\ app.pending = {}
    /\ app.open = NoOpen /\ app.covering = {} /\ app.planning = 0 /\ app.probes = 0
    /\ Pressed([app EXCEPT !.screen = "clear"]) /\ UNCHANGED stale

KeyClear ==
    /\ Key("clear")
    /\ LET b == [app EXCEPT !.screen = "panels"]
       IN  Pressed(b) \/ (app.dedup # None /\ Pressed(SendTicket(b, "ClearMarks")))
    /\ UNCHANGED <<stale, left>>

KeyPlan ==
    /\ Command("plan") /\ app.dedup # None /\ PlanGate(app)
    /\ LET b == SendBrowse(app, "Plan", app.dedup)
       IN  Pressed(IF Sent(app, b) THEN [b EXCEPT !.planning = b.req] ELSE b)
    /\ UNCHANGED stale

\* Y: a confirmation that is no longer valid stays. The warning belongs to the batch before.
KeyConfirm ==
    /\ Key("confirm") /\ app.plan.valid /\ Spend("confirm")
    /\ Pressed([app EXCEPT !.apply = TRUE, !.work.apply = app.plan.scan, !.stop = @ \ {"apply"},
                           !.plan = NoPlan, !.unsettled = FALSE, !.screen = "applying",
                           !.late = @ \/ app.stage # "None",
                           !.last = [scan |-> app.plan.scan, owed |-> None]])
    /\ stale' = {}

KeyDecline ==
    /\ \/ Key("confirm") /\ Pressed([app EXCEPT !.plan = NoPlan, !.screen = "panels"])
       \/ Key("resume") /\ Pressed([app EXCEPT !.screen = "panels"])
    /\ UNCHANGED <<stale, left>>

\* Esc while a batch or a scan runs.
KeyStop ==
    /\ \/ Key("applying") /\ app.apply /\ Pressed([app EXCEPT !.stop = @ \cup {"apply"}])
       \/ /\ Key("scanning")
          /\ \/ app.scan /\ Pressed([app EXCEPT !.stop = @ \cup {"scan"}])
             \/ ~app.scan /\ ~app.open.show /\ Pressed(LeaveScanScreen(app))
    /\ UNCHANGED <<stale, left>>

\* return_to_commander opens the installed scan again.
KeyBack ==
    /\ Key("summary") \/ Key("browser")
    /\ LET b == [app EXCEPT !.screen = "panels"]
       IN  Pressed(IF app.cur = None THEN b ELSE OpenViaActor(b, app.cur, FALSE))
    /\ UNCHANGED <<stale, left>>

KeyScan ==
    /\ \/ /\ Command("scan")
          /\ Pressed([app EXCEPT !.probes = @ + 1, !.work.probes = @ + 1])
       \/ Key("resume") /\ Pressed(StartScan(app)) /\ UNCHANGED left
    /\ UNCHANGED stale

KeyMove ==
    /\ Command("move")
    /\ Pressed([app EXCEPT !.moves = @ + 1, !.work.moves = @ + 1, !.late = @ \/ app.stage # "None"])
    /\ UNCHANGED stale

KeyPurge ==
    /\ Command("purge")
    /\ Pressed([app EXCEPT !.purges = @ + 1, !.work.purges = @ + 1,
                           !.late = @ \/ app.stage # "None"])
    /\ UNCHANGED stale

\* q, F10, and Esc in the start-up question. A batch is never left this way.
KeyQuit ==
    /\ \/ \E screen \in {"panels", "scanning", "summary", "browser"} : Key(screen)
       \/ pc = "event" /\ Frame /\ app.prompt
    /\ Spend("quit")
    /\ Pressed([app EXCEPT !.quit = TRUE, !.keyQuit = TRUE]) /\ UNCHANGED stale

BecomeOperatorAtOnce(a) ==
    LET b == BeginClose([a EXCEPT !.readOnly = FALSE]) IN Spawn([b EXCEPT !.fleet = "Idle"])

\* set_read_only(false): a new role is a new actor, spawned when the old one has ended.
BecomeOperator(a) ==
    LET b == [a EXCEPT !.readOnly = FALSE]
        c == [b EXCEPT !.spawn = << >>]
    IN  IF a.fleet = "Idle" THEN IF a.cur = None THEN c ELSE OpenViaActor(c, a.cur, FALSE)
        ELSE BeginClose([b EXCEPT !.spawn = <<a.cur>>])

\* R stays an observer, F takes the operator's role.
KeyRole ==
    /\ pc = "event" /\ Frame /\ app.prompt
    /\ LET b == [app EXCEPT !.prompt = FALSE]
       IN  (Pressed(b) /\ UNCHANGED left) \/ (Spend("role") /\ Pressed(BecomeOperator(b)))
    /\ UNCHANGED stale

(***************************************************************************)
(* The actor's thread. One request is one step: what its answer rests on   *)
(* is read and written between taking it and sending the answer. The scan  *)
(* and the activation it works for are those it installed.                 *)
(***************************************************************************)
Writes == {"SetMarks", "ClearMarks", "Reconcile"}

Taken(i) == pc # "ended" /\ thread[i].st = "running" /\ app.queue[i] # << >>

\* BrowseHandle's flag, raised together with the Shutdown that ends the queue.
Closing(i) == ~(app.fleet = "Live" /\ app.actor = i)

Answer(q, res, scan) == Event(q.kind, q.act, q.req, res, scan)

Answered(i, t, e) ==
    /\ app' = [app EXCEPT !.queue[i] = Tail(@)]
    /\ thread' = [thread EXCEPT ![i] = t]
    /\ inbox' = Append(inbox, e)
    /\ UNCHANGED <<pc, lost, signals, tuiDead>>

Poisoned(t) == [t EXCEPT !.active = Inactive, !.poisoned = TRUE]

\* scan_gate, and connection_gate for a request that needs no scan: decided before the store is
\* touched, in this order.
ScanGate(i, q) ==
    LET t == thread[i]
    IN  CASE t.poisoned -> "path"
          [] ~t.poisoned /\ q.kind = "Covering" -> "ok"
          [] OTHER -> IF \/ q.kind \in Writes /\ app.born[i] = "Observer"
                         \/ t.active = Inactive
                         \/ t.active.act # q.act
                      THEN "err" ELSE "ok"

\* The one Shutdown: the receiver is dropped, then the terminal is sent.
ServeShutdown(i) ==
    /\ Taken(i) /\ Head(app.queue[i]).kind = "Shutdown"
    /\ Answered(i, [thread[i] EXCEPT !.st = "ended"], Event("Closed", 0, i, "Requested", None))
    /\ UNCHANGED <<db, stale, left>>

\* refuse_closing, and what a gate refuses: an answer, and nothing of the store.
ServeRefusal(i) ==
    /\ Taken(i)
    /\ LET q == Head(app.queue[i])
       IN  /\ q.kind # "Shutdown"
           /\ Closing(i) \/ (q.kind # "Open" /\ ScanGate(i, q) # "ok")
           /\ Answered(i, thread[i], Answer(q, IF Closing(i) THEN "err" ELSE ScanGate(i, q), None))
    /\ UNCHANGED <<db, stale, left>>

Served(i, q) == Taken(i) /\ ~Closing(i) /\ q.kind # "Shutdown"

\* open, past every check: connection and scan are installed together.
ServeOpen(i) ==
    /\ Taken(i)
    /\ LET q == Head(app.queue[i])
       IN  /\ Served(i, q) /\ q.kind = "Open"
           /\ \E group \in BOOLEAN :
                Answered(i, [thread[i] EXCEPT !.active = [scan |-> q.scan, act |-> q.act],
                                              !.poisoned = FALSE],
                         [Answer(q, "ok", q.scan) EXCEPT !.group = group])
    /\ UNCHANGED <<db, stale, left>>

\* The reads. A plan needs marks; what covers a directory is whatever the database knows.
ServeRead(i) ==
    /\ Taken(i)
    /\ LET q == Head(app.queue[i])
           s == thread[i].active.scan
       IN  /\ Served(i, q) /\ q.kind \in {"Count", "Group", "Plan", "Covering"}
           /\ ScanGate(i, q) = "ok"
           /\ \E scan \in IF q.kind = "Covering" THEN Scans \cup {None} ELSE {s} :
                Answered(i, thread[i],
                         Answer(q, IF q.kind = "Plan" /\ s \notin db THEN "err" ELSE "ok", scan))
    /\ UNCHANGED <<db, stale, left>>

\* The writes: marks of the installed scan are set, all cleared, or those a batch spent dropped.
ServeWrite(i) ==
    /\ Taken(i)
    /\ LET q == Head(app.queue[i])
           s == thread[i].active.scan
       IN  /\ Served(i, q) /\ q.kind \in Writes /\ ScanGate(i, q) = "ok"
           /\ db' = IF q.kind = "SetMarks" THEN db \cup {s} ELSE db \ {s}
           /\ stale' = stale \ {s}
           /\ Answered(i, thread[i], Answer(q, "ok", s))
    /\ UNCHANGED left

\* The store fails. An open on a slot that was poisoned discards nothing and stays poisoned; any
\* other failure leaves the actor as it was.
ServeFault(i) ==
    /\ Taken(i) /\ Spend("fault")
    /\ LET q == Head(app.queue[i])
       IN  /\ Served(i, q) /\ (q.kind = "Open" \/ ScanGate(i, q) = "ok")
           /\ Answered(i, thread[i],
                       Answer(q, IF thread[i].poisoned THEN "path" ELSE "err", None))
    /\ UNCHANGED <<db, stale>>

\* Another file stands at the database's path: connection and scan go before the refusal leaves.
\* The file is back when the next open looks.
ServeSwap(i) ==
    /\ Taken(i) /\ Spend("swap")
    /\ LET q == Head(app.queue[i])
       IN  /\ Served(i, q) /\ (q.kind = "Open" \/ ScanGate(i, q) = "ok")
           /\ Answered(i, Poisoned(thread[i]), Answer(q, "path", None))
    /\ UNCHANGED <<db, stale>>

\* A panic unwinds the receiver; the hook gives the terminal back. The terminal comes after.
ActorPanics(i) ==
    /\ Taken(i) /\ Spend("actorPanic")
    /\ thread' = [thread EXCEPT ![i].st = "dropped"]
    /\ tuiDead' = TRUE
    /\ UNCHANGED <<app, inbox, pc, lost, signals, db, stale>>

PanicTerminal(i) ==
    /\ pc # "ended" /\ thread[i].st = "dropped"
    /\ thread' = [thread EXCEPT ![i].st = "ended"]
    /\ inbox' = Append(inbox, Event("Closed", 0, i, "Panicked", None))
    /\ UNCHANGED <<app, pc, lost, signals, tuiDead, db, stale, left>>

Serve(i) ==
    \/ ServeShutdown(i) \/ ServeRefusal(i) \/ ServeOpen(i) \/ ServeRead(i) \/ ServeWrite(i)
    \/ ServeFault(i) \/ ServeSwap(i) \/ PanicTerminal(i)

(***************************************************************************)
(* The workers, each in a thread of its own, and what befalls the process. *)
(***************************************************************************)
Reports(work, e) ==
    /\ pc # "ended"
    /\ app' = [app EXCEPT !.work = work]
    /\ inbox' = Append(inbox, e)
    /\ UNCHANGED <<thread, pc, lost, signals, db>>

\* The batch: what it did to a scan's files makes the marks it carried out stale.
ApplyEnds ==
    /\ app.work.apply # None
    /\ \E res \in {"Refused", "Unrunnable", "Aborted", "Finished", "Failed"} :
        /\ Reports([app.work EXCEPT !.apply = None],
                   Event("ApplyFinished", 0, 0, res, app.work.apply))
        /\ \/ stale' = IF res = "Finished" THEN stale \cup ({app.work.apply} \cap db) ELSE stale
           \/ res = "Finished" /\ UNCHANGED stale
    /\ UNCHANGED <<tuiDead, left>>

\* A worker's panic, in any action of the batch, is contained and reported as a failure; the hook
\* gives the terminal back.
ApplyPanics ==
    /\ app.work.apply # None /\ Spend("workerPanic")
    /\ Reports([app.work EXCEPT !.apply = None],
               Event("ApplyFinished", 0, 0, "Failed", app.work.apply))
    /\ tuiDead' = TRUE
    /\ stale' \in {stale, stale \cup ({app.work.apply} \cap db)}

\* A scan completes as one that is not shown and carries no marks yet, or ends without a result.
ScanEnds ==
    /\ app.work.scan
    /\ \/ \E s \in Scans \ (db \cup {app.cur, app.dedup}) :
            Reports([app.work EXCEPT !.scan = FALSE], Event("ScanFinished", 0, 0, "Completed", s))
       \/ Reports([app.work EXCEPT !.scan = FALSE], Event("ScanFinished", 0, 0, "Cancelled", None))
    /\ UNCHANGED <<tuiDead, stale, left>>

MoveEnds ==
    /\ app.work.moves > 0
    /\ Reports([app.work EXCEPT !.moves = @ - 1], Event("MoveDone", 0, 0, "ok", None))
    /\ UNCHANGED <<tuiDead, stale, left>>

PurgeEnds ==
    /\ app.work.purges > 0
    /\ Reports([app.work EXCEPT !.purges = @ - 1], Event("Purged", 0, 0, "ok", None))
    /\ UNCHANGED <<tuiDead, stale, left>>

ProbeAnswers ==
    /\ app.work.probes > 0
    /\ \E res \in {"fresh", "resume", "err"} :
        Reports([app.work EXCEPT !.probes = @ - 1], Event("Probe", 0, 0, res, None))
    /\ UNCHANGED <<tuiDead, stale, left>>

SignalCountsHangup ==
    /\ pc # "ended"
    /\ Spend("kill") \/ Spend("hangup")
    /\ signals' = [requested |-> TRUE, count |-> signals.count + 1]
    /\ UNCHANGED <<app, thread, inbox, pc, lost, tuiDead, db, stale>>

\* SIGINT and SIGTERM are counted, SIGHUP is not.
Signal ==
    /\ pc # "ended"
    /\ \/ /\ Spend("kill")
          /\ signals' = [requested |-> TRUE, count |-> signals.count + 1]
       \/ Spend("hangup") /\ signals' = [signals EXCEPT !.requested = TRUE]
    /\ UNCHANGED <<app, thread, inbox, pc, lost, tuiDead, db, stale>>

Loop == Pass \/ PassLosesTerminal \/ End \/ Handle \/ Timeout

Press ==
    \/ KeyCd \/ KeyMark \/ KeyAskClear \/ KeyClear \/ KeyPlan \/ KeyConfirm \/ KeyDecline \/ KeyStop
    \/ KeyBack \/ KeyScan \/ KeyMove \/ KeyPurge \/ KeyQuit \/ KeyRole

Work == ApplyEnds \/ ApplyPanics \/ ScanEnds \/ MoveEnds \/ PurgeEnds \/ ProbeAnswers

\* The process is gone, and its threads with it.
Ended == pc = "ended" /\ UNCHANGED vars

Next ==
    \/ Loop \/ Press \/ Work \/ Signal \/ Ended
    \/ \E i \in DOMAIN thread : Serve(i) \/ ActorPanics(i)

\* Work that ends by itself, a move, a deletion and a probe; and a scan or a batch that was told to
\* stop: of these only that they obey is assumed.
WorkEnds ==
    \/ MoveEnds \/ PurgeEnds \/ ProbeAnswers
    \/ "apply" \in app.stop /\ ApplyEnds
    \/ "scan" \in app.stop /\ ScanEnds

\* When each of the fair actions below is enabled.
LoopDue == pc = "pass" \/ (pc = "event" /\ inbox = << >>)
EventDue == pc = "event" /\ inbox # << >>
ServeDue == pc # "ended" /\ \E i \in DOMAIN thread : Taken(i) \/ thread[i].st = "dropped"
WorkDue ==
    /\ pc # "ended"
    /\ \/ app.work.moves + app.work.purges + app.work.probes > 0
       \/ "apply" \in app.stop /\ app.work.apply # None
       \/ "scan" \in app.stop /\ app.work.scan

\* Weak fairness of the loop, of the actor and of the workers, and strong fairness of handling an
\* event: the loop waits 200 ms at most, and its channel is first in, first out, so keys cannot hold
\* an event back for ever. Written with the enabling conditions above, which TLC evaluates faster
\* than ENABLED.
Fairness ==
    /\ []<>~LoopDue \/ []<><<Pass \/ End \/ Timeout>>_vars
    /\ <>[]~EventDue \/ []<><<Handle>>_vars
    /\ []<>~ServeDue \/ []<><<\E i \in DOMAIN thread : Serve(i)>>_vars
    /\ []<>~WorkDue \/ []<><<WorkEnds>>_vars

Spec == Init /\ [][Next]_vars
FairSpec == Spec /\ Fairness

----------------------------------------------------------------------------
Ids == 0..app.req

Requests == [kind : {"Open", "Count", "Group", "SetMarks", "ClearMarks", "Plan", "Reconcile",
                     "Covering", "Shutdown"},
             req : Ids, scan : Scans \cup {None}, act : Nat]

\* The state has its shape: requests name ids that were given out, and everything an actor was
\* asked is something one of the interface's handlers sends.
TypeOK ==
    /\ app.stage \in {"None", "Producers", "Settling", "Draining", "Done"}
    /\ app.screen \in {"panels", "confirm", "clear", "resume", "scanning", "applying", "summary",
                       "browser"}
    /\ app.fleet \in {"Idle", "Live", "Draining"} /\ app.actor \in 0..Len(app.born)
    /\ DOMAIN thread = DOMAIN app.born /\ DOMAIN app.queue = DOMAIN app.born
    /\ {app.owed, app.cur, app.dedup, app.owes, app.plan.scan, app.open.scan} \subseteq Scans \cup {None}
    /\ app.pending \cup app.ledger \cup app.groups \cup {r.req : r \in app.covering} \cup app.gate.waits
        \cup {app.marked, app.planning, app.reconcile, app.settling, app.open.req} \subseteq Ids
    /\ \A i \in DOMAIN thread : \A k \in 1..Len(app.queue[i]) : app.queue[i][k] \in Requests
    /\ app.moves \in Nat /\ app.purges \in Nat /\ app.probes \in Nat
    /\ db \subseteq Scans /\ stale \subseteq db
    /\ pc \in {"pass", "event", "ended"}

\* A write that the actor would carry out changes the scan the operator saw when asking for it: an
\* activation names one scan, though the id of an open that failed is used again for the next.
WritesLand ==
    \A i \in DOMAIN thread : \A q \in Range(app.queue[i]) :
        /\ q.kind \in Writes /\ thread[i].st = "running"
        /\ thread[i].active # Inactive /\ thread[i].active.act = q.act
        => thread[i].active.scan = q.scan

\* One actor at a time holds the database: a successor is not there before its predecessor's
\* thread has dropped its queue and its connection.
OneActor == Cardinality({i \in DOMAIN thread : thread[i].st # "ended"}) <= 1

\* No mark is waited for in vain: a write the window still waits for is in the queue, answered in
\* the inbox, or on the ledger of an actor whose terminal will give it up.
PendingOwed ==
    \A r \in app.pending :
        \/ \E i \in DOMAIN thread :
              /\ thread[i].st = "running" /\ \E q \in Range(app.queue[i]) : q.req = r
        \/ \E e \in Range(inbox) : e.kind \in {"SetMarks", "ClearMarks"} /\ e.req = r
        \/ TerminalOwed(app) /\ r \in app.ledger

\* While marks stand in the scan their settlement was addressed to, as if the batch had not carried
\* them out, the warning is up. It is about that scan alone: a report that finds another scan shown
\* addresses that one (SettlesItsScan), one that finds none, or of a panicked batch, addresses none.
MarksTruth == app.last.owed \in stale => app.unsettled

Kills == left.given["kill"] - left.now["kill"]

Outcomes == {"ApplyFinished", "ScanFinished", "MoveDone", "Purged"}

\* The process ends under no batch, whatever key is pressed and however often the terminal hangs
\* up, and, unless a key quit it, under no work at all and with every outcome recorded and every
\* settlement answered. Only a second SIGINT or SIGTERM cuts work short, and work that was started
\* after the exit had begun: a key handled while the exit waits may start some.
ExitWaits ==
    pc = "ended" /\ Kills < 2 /\ ~app.late =>
        /\ app.work.apply = None /\ ~app.apply
        /\ \/ app.keyQuit
           \/ /\ ~app.work.scan /\ app.work.moves = 0 /\ app.work.purges = 0
              /\ \A e \in Range(inbox) : e.kind \notin Outcomes
              /\ app.owed = None

\* A request to end is carried out: by a signal, a lost terminal or a thread's panic.
ShutdownEnds == signals.requested \/ lost \/ tuiDead ~> pc = "ended"

\* The scan screen is left, or shows its result, once its scan is over.
ScanScreenLeaves == app.screen = "scanning" /\ ~app.scan ~> app.screen # "scanning" \/ pc = "ended"

\* send_pending_reconcile: "The settlement belongs to the scan the batch was planned against."
SettlesItsScan == app.owed # None => app.owed = app.last.scan

\* A mark goes where the operator saw it go: written to the scan on screen, answered or given up,
\* and said to stand while the settlement that was sent for it has not removed it.
MarksHonest == WritesLand /\ PendingOwed /\ MarksTruth

============================================================================
