-------------------------- MODULE InterfaceProofs --------------------------

(***************************************************************************)
(* Theorems about Interface: for any scans and directories, any number of  *)
(* actors, requests and events, and whatever the operator may press and    *)
(* the surroundings may do.                                                *)
(*                                                                         *)
(* A handler is an operator from App to App, and what it keeps is proved   *)
(* of the operator: Keeps(a, b, box) says that b is as good as a, that it  *)
(* leaves the work under way and the way out alone, and that writes still  *)
(* land where they should while box stands in the inbox. A step then       *)
(* composes such facts, and adds what it changes itself.                   *)
(***************************************************************************)
EXTENDS Interface, FiniteSetTheorems, SequenceTheorems, TLAPS

-----------------------------------------------------------------------------
(* What every handler keeps                                                *)

Fields == {"quit", "stage", "settling", "screen", "readOnly", "prompt", "scan", "apply", "moves",
           "purges", "probes", "stop", "work", "owed", "unsettled", "gate", "plan", "pending", "open",
           "marked", "groups", "planning", "reconcile", "covering", "owes", "cwd", "cache", "refused",
           "cur", "dedup", "act", "group", "fleet", "actor", "spawn", "born", "ledger", "queue",
           "req", "keyQuit", "late", "last"}

ScanOrNone == Scans \cup {None}
Roles == {"Operator", "Observer"}
Asks == {"Open", "Count", "Group", "SetMarks", "ClearMarks", "Plan", "Reconcile", "Covering", "Shutdown"}

RequestsTo(r) == [kind : Asks, req : 1..r, scan : ScanOrNone, act : Nat]

Works == [scan : BOOLEAN, apply : ScanOrNone, moves : Nat, purges : Nat, probes : Nat]

\* What the window holds of the database, of the workers and of its own end.
WindowShape(a) ==
    /\ a.stage \in {"None", "Producers", "Settling", "Draining", "Done"}
    /\ a.screen \in {"panels", "confirm", "clear", "resume", "scanning", "applying", "summary", "browser"}
    /\ {a.owed, a.cur, a.dedup, a.owes} \subseteq ScanOrNone
    /\ a.plan \in [scan : ScanOrNone, valid : BOOLEAN] /\ (a.plan.valid => a.plan.scan # None)
    /\ a.act \in Nat
    /\ \A d \in DOMAIN a.cache : a.cache[d] \in ScanOrNone
    /\ a.spawn = <<>> \/ \E s \in ScanOrNone : a.spawn = <<s>>
    /\ a.moves \in Int /\ a.purges \in Int /\ a.probes \in Int
    /\ a.work \in Works
    /\ a.last \in [scan : ScanOrNone, owed : ScanOrNone]

\* The requests that were given out, and what waits for them.
RequestShape(a) ==
    /\ a.req \in Nat
    /\ {a.marked, a.planning, a.reconcile, a.settling} \subseteq 0..a.req
    /\ a.pending \subseteq 0..a.req /\ a.ledger \subseteq 0..a.req /\ a.groups \subseteq 0..a.req
    /\ \A r \in a.covering : r.req \in 0..a.req
    /\ a.gate \in [st : {"Settled", "Blocked", "Reloading"}, waits : SUBSET (0..a.req)]
    /\ a.open \in [req : 0..a.req, scan : ScanOrNone, show : BOOLEAN]

\* The actors: the fleet's is the one spawned last.
FleetShape(a) ==
    /\ a.fleet \in {"Idle", "Live", "Draining"}
    /\ a.born \in Seq(Roles) /\ a.queue \in Seq(Seq(RequestsTo(a.req)))
    /\ Len(a.queue) = Len(a.born)
    /\ a.actor \in 0..Len(a.born)
    /\ TerminalOwed(a) => a.actor = Len(a.born) /\ a.actor # 0

Shape(a) == DOMAIN a = Fields /\ WindowShape(a) /\ RequestShape(a) /\ FleetShape(a)

\* Who holds the database while a step is under way: the actor whose terminal the fleet is owed,
\* beside one that has dropped its receiver and is joined when the step ends.
Housed(a) ==
    /\ DOMAIN thread \subseteq DOMAIN a.born
    /\ \A i \in DOMAIN a.born \ DOMAIN thread : TerminalOwed(a) /\ i = a.actor
    /\ \A i \in DOMAIN thread :
          /\ thread[i].st \in {"running", "dropped", "ended"}
          /\ thread[i].st = "running" => TerminalOwed(a) /\ i = a.actor

\* A mark that is waited for is on the ledger.
Loose(a) == Shape(a) /\ Housed(a) /\ a.pending \subseteq a.ledger

\* And the ledger is the fleet's actor's.
Good(a) == Loose(a) /\ (a.fleet = "Idle" => a.ledger = {})

\* The stages of the exit wait for what is under way, unless a second signal cut it short or a key
\* started something after the exit had begun.
Leaving(a) == signals.count <= 1 /\ ~a.late =>
    /\ a.stage \notin {"None", "Producers"} => ~ProducersBusy(a)
    /\ a.stage \in {"Draining", "Done"} => a.owed = None
    /\ a.quit => a.keyQuit \/ a.stage = "Done"

\* And the screens show what is under way.
Way(a) ==
    /\ a.apply => a.screen = "applying"
    /\ a.scan => a.screen = "scanning"
    /\ a.open.show => ~a.scan /\ a.screen = "scanning"
    /\ Leaving(a)

\* What a handler that is about none of it leaves alone: the work under way, and the way out.
Kept(a, b) ==
    /\ b.work = a.work /\ b.moves = a.moves /\ b.purges = a.purges /\ b.probes = a.probes
    /\ b.scan = a.scan /\ b.apply = a.apply
    /\ b.late = a.late /\ b.keyQuit = a.keyQuit /\ b.prompt = a.prompt
    /\ a.stage # "None" => b.stage # "None"
    /\ a.quit => b.quit
    /\ Leaving(a) => Leaving(b)
    /\ Way(a) => Way(b)

(* Where writes land. box is what stands in the inbox; an actor spawned in *)
(* the step under way has taken nothing yet.                               *)

Runs(i) == i \in DOMAIN thread => thread[i].st = "running"
Active(i) == IF i \in DOMAIN thread THEN thread[i].active ELSE Inactive

\* An answer to the open on its way, and one that installs its scan.
Answers(e, a) == e.kind = "Open" /\ e.req = a.open.req
Installs(e, a) == Answers(e, a) /\ e.res = "ok"

\* The queue of an actor that runs: an open in it is the one on its way, under the activation after
\* the one shown, and a write under an activation the actor has is for that activation's scan.
AsksWell(a, box, i) ==
    LET asked == a.queue[i]
    IN  /\ \A k \in DOMAIN asked : asked[k].kind = "Open" =>
              /\ asked[k].req = a.open.req /\ asked[k].act = a.act + 1
              /\ \A l \in DOMAIN asked : asked[l].kind = "Open" => k = l
              /\ \A m \in DOMAIN box : ~Answers(box[m], a)
        /\ \A k \in DOMAIN asked : asked[k].kind \in Writes =>
              /\ asked[k].act <= a.act /\ asked[k].scan # None
              /\ Active(i) # Inactive /\ Active(i).act = asked[k].act => Active(i).scan = asked[k].scan
        /\ \A k \in DOMAIN asked : asked[k].kind = "Reconcile" /\ asked[k].req = a.reconcile =>
              a.last.owed \in {None, asked[k].scan}

\* What an actor that runs has installed: the scan of the answer in the inbox, or the one shown.
WorksFor(a, box, i) ==
    Active(i) # Inactive =>
        /\ \A m \in DOMAIN box : Installs(box[m], a) =>
              Active(i).act = box[m].act /\ Active(i).scan = box[m].scan
        /\ (\A m \in DOMAIN box : ~Installs(box[m], a)) =>
              Active(i).act = a.act /\ a.cur \in {None, Active(i).scan}

\* The answers in the inbox.
BoxOK(a, box) ==
    /\ \A m \in DOMAIN box : box[m].kind \in {"Open", "Reconcile"} => box[m].req \in 1..a.req
    /\ \A m, n \in DOMAIN box : Answers(box[m], a) /\ Answers(box[n], a) => m = n
    /\ \A m \in DOMAIN box : Installs(box[m], a) => box[m].act = a.act + 1
    /\ \A m \in DOMAIN box : box[m].kind = "Reconcile" /\ box[m].req = a.reconcile /\ box[m].res = "ok" =>
          a.last.owed = None \/ a.last.owed \notin stale

\* What is owed to the last batch's scan.
OwesOK(a) ==
    /\ a.dedup \in {None, a.cur}
    /\ a.owed # None => a.last.owed \in {None, a.owed}
    /\ a.last.owed # None => ~a.apply /\ (a.unsettled \/ a.last.owed \notin stale)

Lands(a, box) ==
    /\ \A i \in DOMAIN a.queue : Runs(i) => AsksWell(a, box, i) /\ WorksFor(a, box, i)
    /\ BoxOK(a, box) /\ OwesOK(a)

Keeps(a, b, box) == Good(b) /\ Kept(a, b) /\ (Lands(a, box) => Lands(b, box))

-----------------------------------------------------------------------------
(* Steps that leave the fleet alone                                        *)

\* What two handlers keep they keep one after the other.
LEMMA KeepsOn ==
    ASSUME NEW a, NEW b, NEW c, NEW box, Keeps(a, b, box), Keeps(b, c, box)
    PROVE  Keeps(a, c, box)
BY DEF Keeps, Kept

\* A handler that does nothing keeps everything.
LEMMA KeepsSelf ==
    ASSUME NEW a, NEW box, Good(a)
    PROVE  Keeps(a, a, box)
BY DEF Keeps, Kept

\* The fleet as it was.
Fleets(a, b) ==
    /\ b.fleet = a.fleet /\ b.actor = a.actor /\ b.born = a.born /\ b.queue = a.queue
    /\ b.ledger = a.ledger /\ b.pending = a.pending /\ b.req = a.req

\* The scan shown as it was, or none, and nothing new on its way.
Shown(a, b) ==
    /\ b.act = a.act /\ b.open.req = a.open.req /\ b.last = a.last /\ (a.unsettled => b.unsettled)
    /\ \/ b.cur = a.cur /\ b.dedup \in {a.dedup, None}
       \/ b.cur = None /\ b.dedup = None
    /\ b.reconcile \in {a.reconcile, 0} /\ b.owed \in {a.owed, None}

\* What writes and answers speak of is the same: they land as they did.
LEMMA LandsStays ==
    ASSUME NEW a, NEW b, NEW box, Lands(a, box),
           b.act = a.act, b.open = a.open, b.last = a.last, b.unsettled = a.unsettled, b.cur = a.cur,
           b.dedup = a.dedup, b.reconcile = a.reconcile, b.owed = a.owed, b.apply = a.apply,
           b.queue = a.queue, b.req = a.req
    PROVE  Lands(b, box)
<1>1. ASSUME NEW i \in DOMAIN b.queue, Runs(i) PROVE AsksWell(b, box, i)
  BY <1>1 DEF Lands, AsksWell, Answers
<1>2. ASSUME NEW i \in DOMAIN b.queue, Runs(i) PROVE WorksFor(b, box, i)
  BY <1>2 DEF Lands, WorksFor, Answers, Installs
<1>3. BoxOK(b, box)
  BY DEF Lands, BoxOK, Answers, Installs
<1>4. OwesOK(b)
  BY DEF Lands, OwesOK
<1> QED BY <1>1, <1>2, <1>3, <1>4 DEF Lands

\* Fields that writes and answers do not speak of may change under them.
LEMMA BesideLands ==
    ASSUME NEW a, NEW b, NEW box, Good(a), DOMAIN b = Fields, Fleets(a, b), WindowShape(b), RequestShape(b),
           b.apply = a.apply, Shown(a, b)
    PROVE  Good(b) /\ (Lands(a, box) => Lands(b, box))
<1>1. Good(b)
  BY DEF Good, Loose, Shape, FleetShape, Housed, TerminalOwed, Fleets
<1>2. ASSUME Lands(a, box) PROVE Lands(b, box)
  <2>1. \A i \in DOMAIN b.queue : \A k \in DOMAIN b.queue[i] : b.queue[i][k].req # 0
    <3> SUFFICES ASSUME NEW i \in DOMAIN a.queue, NEW k \in DOMAIN a.queue[i] PROVE a.queue[i][k].req # 0
      BY DEF Fleets
    <3>1. a.queue \in Seq(Seq(RequestsTo(a.req))) /\ a.req \in Nat
      BY DEF Good, Loose, Shape, FleetShape, RequestShape
    <3>2. a.queue[i] \in Seq(RequestsTo(a.req))
      BY <3>1, LenProperties, ElementOfSeq
    <3>3. a.queue[i][k] \in RequestsTo(a.req)
      BY <3>2, LenProperties, ElementOfSeq
    <3> QED BY <3>1, <3>3 DEF RequestsTo
  <2>2. ASSUME NEW i \in DOMAIN b.queue, Runs(i) PROVE AsksWell(b, box, i)
    BY <1>2, <2>1, <2>2 DEF Lands, AsksWell, Fleets, Shown, Answers
  <2>3. ASSUME NEW i \in DOMAIN b.queue, Runs(i) PROVE WorksFor(b, box, i)
    BY <1>2, <2>3 DEF Lands, WorksFor, Fleets, Shown, Answers, Installs
  <2>4. a.req \in Nat
    BY DEF Good, Loose, Shape, RequestShape
  <2>5. BoxOK(b, box)
    BY <1>2, <2>4 DEF Lands, BoxOK, Fleets, Shown, Answers, Installs
  <2>6. OwesOK(b)
    BY <1>2 DEF Lands, OwesOK, Shown
  <2> QED BY <2>2, <2>3, <2>5, <2>6 DEF Lands
<1> QED BY <1>1, <1>2

\* A handler that changes only such fields, and keeps the rest, keeps what App must be.
LEMMA Beside ==
    ASSUME NEW a, NEW b, NEW box, Good(a), DOMAIN b = Fields, Fleets(a, b), WindowShape(b), RequestShape(b),
           Kept(a, b), Shown(a, b)
    PROVE  Keeps(a, b, box)
<1>1. b.apply = a.apply
  BY DEF Kept
<1> QED BY <1>1, BesideLands DEF Keeps

\* An empty cache knows no directory.
LEMMA NothingCached == \A d \in DOMAIN <<>> : FALSE
BY EmptySeq

\* A confirmation that goes stale.
LEMMA InvalidateKeeps ==
    ASSUME NEW a, NEW box, Good(a)
    PROVE  Keeps(a, InvalidateConfirmation(a), box)
<1> DEFINE b == InvalidateConfirmation(a)
<1>1. DOMAIN a = Fields /\ WindowShape(a) /\ RequestShape(a)
  BY DEF Good, Loose, Shape
<1>2. DOMAIN b = Fields
  BY <1>1 DEF InvalidateConfirmation
<1>3. Fleets(a, b) /\ Shown(a, b)
  BY <1>1 DEF Fleets, Shown, Fields, InvalidateConfirmation
<1>4. WindowShape(b)
  BY <1>1, NothingCached DEF WindowShape, ScanOrNone, Fields, InvalidateConfirmation
<1>5. RequestShape(b)
  BY <1>1 DEF RequestShape, Fields, InvalidateConfirmation
<1>6. Kept(a, b)
  BY <1>1 DEF Kept, Way, Leaving, ProducersBusy, Fields, InvalidateConfirmation
<1> QED BY <1>2, <1>3, <1>4, <1>5, <1>6, Beside

\* The question «Clear all marks» is closed.
LEMMA CloseClearKeeps ==
    ASSUME NEW a, NEW box, Good(a)
    PROVE  Keeps(a, CloseClear(a), box)
<1> DEFINE b == CloseClear(a)
<1>1. DOMAIN a = Fields /\ WindowShape(a) /\ RequestShape(a)
  BY DEF Good, Loose, Shape
<1>2. DOMAIN b = Fields
  BY <1>1 DEF CloseClear
<1>3. Fleets(a, b) /\ Shown(a, b)
  BY <1>1 DEF Fleets, Shown, Fields, CloseClear
<1>4. WindowShape(b)
  BY <1>1, NothingCached DEF WindowShape, ScanOrNone, Fields, CloseClear
<1>5. RequestShape(b)
  BY <1>1 DEF RequestShape, Fields, CloseClear
<1>6. Kept(a, b)
  BY <1>1 DEF Kept, Way, Leaving, ProducersBusy, Fields, CloseClear
<1> QED BY <1>2, <1>3, <1>4, <1>5, <1>6, Beside

\* The warning is raised and the gate shut.
LEMMA RaiseKeeps ==
    ASSUME NEW a, NEW box, Good(a)
    PROVE  Keeps(a, RaiseUnsettled(a), box)
<1> DEFINE b == RaiseUnsettled(a)
<1>1. DOMAIN a = Fields /\ WindowShape(a) /\ RequestShape(a)
  BY DEF Good, Loose, Shape
<1>2. DOMAIN b = Fields
  BY <1>1 DEF RaiseUnsettled, Blocked
<1>3. Fleets(a, b) /\ Shown(a, b)
  BY <1>1 DEF Fleets, Shown, Fields, RaiseUnsettled, Blocked
<1>4. WindowShape(b)
  BY <1>1, NothingCached DEF WindowShape, ScanOrNone, Fields, RaiseUnsettled, Blocked
<1>5. RequestShape(b)
  BY <1>1 DEF RequestShape, Fields, RaiseUnsettled, Blocked
<1>6. Kept(a, b)
  BY <1>1 DEF Kept, Way, Leaving, ProducersBusy, Fields, RaiseUnsettled, Blocked
<1> QED BY <1>2, <1>3, <1>4, <1>5, <1>6, Beside

\* The gate takes an answer it waits for.
LEMMA SettleGateKeeps ==
    ASSUME NEW a, NEW box, Good(a), NEW req, NEW ok \in BOOLEAN
    PROVE  Keeps(a, SettleGate(a, req, ok), box)
<1> DEFINE b == SettleGate(a, req, ok)
<1>1. DOMAIN a = Fields /\ WindowShape(a) /\ RequestShape(a)
  BY DEF Good, Loose, Shape
<1>2. DOMAIN b = Fields
  BY <1>1 DEF SettleGate, Blocked, Settled
<1>3. Fleets(a, b) /\ Shown(a, b)
  BY <1>1 DEF Fleets, Shown, Fields, SettleGate, Blocked, Settled
<1>4. WindowShape(b)
  BY <1>1, NothingCached DEF WindowShape, ScanOrNone, Fields, SettleGate, Blocked, Settled
<1>5. RequestShape(b)
  <2> DEFINE g == [a.gate EXCEPT !.waits = @ \ {req}]
  <2>1. /\ b.req = a.req /\ b.marked = a.marked /\ b.planning = a.planning /\ b.reconcile = a.reconcile
        /\ b.settling = a.settling /\ b.pending = a.pending /\ b.ledger = a.ledger /\ b.groups = a.groups
        /\ b.covering = a.covering /\ b.open = a.open
    BY <1>1 DEF SettleGate, Fields
  <2>2. g \in [st : {"Settled", "Blocked", "Reloading"}, waits : SUBSET (0..a.req)]
    BY <1>1 DEF RequestShape
  <2>3. b.gate = a.gate \/ b.gate = Blocked \/ b.gate = Settled \/ b.gate = g
    <3>1. CASE a.gate.st # "Reloading" \/ req \notin a.gate.waits
      BY <3>1 DEF SettleGate
    <3>2. CASE a.gate.st = "Reloading" /\ req \in a.gate.waits /\ ~ok
      BY <1>1, <3>2 DEF SettleGate, Fields
    <3>3. CASE a.gate.st = "Reloading" /\ req \in a.gate.waits /\ ok
      BY <1>1, <3>3 DEF SettleGate, Fields
    <3> QED BY <3>1, <3>2, <3>3
  <2>4. b.gate \in [st : {"Settled", "Blocked", "Reloading"}, waits : SUBSET (0..a.req)]
    BY <1>1, <2>2, <2>3 DEF RequestShape, Blocked, Settled
  <2> QED BY <1>1, <2>1, <2>4 DEF RequestShape
<1>6. Kept(a, b)
  BY <1>1 DEF Kept, Way, Leaving, ProducersBusy, Fields, SettleGate, Blocked, Settled
<1> QED BY <1>2, <1>3, <1>4, <1>5, <1>6, Beside

\* The last stage tells the loop to end.
LEMMA DoneKeeps ==
    ASSUME NEW a, NEW box, Good(a)
    PROVE  Keeps(a, Done(a), box)
<1> DEFINE b == Done(a)
<1>1. DOMAIN a = Fields /\ WindowShape(a) /\ RequestShape(a)
  BY DEF Good, Loose, Shape
<1>2. DOMAIN b = Fields
  BY <1>1 DEF Done
<1>3. Fleets(a, b) /\ Shown(a, b)
  BY <1>1 DEF Fleets, Shown, Fields, Done
<1>4. WindowShape(b)
  BY <1>1, NothingCached DEF WindowShape, ScanOrNone, Fields, Done
<1>5. RequestShape(b)
  BY <1>1 DEF RequestShape, Fields, Done
<1>6. Kept(a, b)
  BY <1>1 DEF Kept, Way, Leaving, ProducersBusy, Fields, Done
<1> QED BY <1>2, <1>3, <1>4, <1>5, <1>6, Beside

\* The scan screen is left for the panels.
LEMMA LeaveKeeps ==
    ASSUME NEW a, NEW box, Good(a),
           a.screen = "scanning", ~a.scan, ~a.open.show
    PROVE  Keeps(a, LeaveScanScreen(a), box)
<1> DEFINE b == LeaveScanScreen(a)
<1>1. DOMAIN a = Fields /\ WindowShape(a) /\ RequestShape(a)
  BY DEF Good, Loose, Shape
<1>2. DOMAIN b = Fields
  BY <1>1 DEF LeaveScanScreen
<1>3. Fleets(a, b) /\ Shown(a, b)
  BY <1>1 DEF Fleets, Shown, Fields, LeaveScanScreen
<1>4. WindowShape(b)
  BY <1>1, NothingCached DEF WindowShape, ScanOrNone, Fields, LeaveScanScreen
<1>5. RequestShape(b)
  BY <1>1 DEF RequestShape, Fields, LeaveScanScreen
<1>6. Kept(a, b)
  BY <1>1 DEF Kept, Way, Leaving, ProducersBusy, Fields, LeaveScanScreen
<1> QED BY <1>2, <1>3, <1>4, <1>5, <1>6, Beside

\* A plan takes its place in the confirmation.
LEMMA SeatKeeps ==
    ASSUME NEW a, NEW box, Good(a), NEW scan \in ScanOrNone, scan # None,
           a.screen = "panels"
    PROVE  Keeps(a, SeatPlan(a, scan), box)
<1> DEFINE b == SeatPlan(a, scan)
<1>1. DOMAIN a = Fields /\ WindowShape(a) /\ RequestShape(a)
  BY DEF Good, Loose, Shape
<1>2. DOMAIN b = Fields
  BY <1>1 DEF SeatPlan
<1>3. Fleets(a, b) /\ Shown(a, b)
  BY <1>1 DEF Fleets, Shown, Fields, SeatPlan
<1>4. WindowShape(b)
  BY <1>1, NothingCached DEF WindowShape, ScanOrNone, Fields, SeatPlan
<1>5. RequestShape(b)
  BY <1>1 DEF RequestShape, Fields, SeatPlan
<1>6. Kept(a, b)
  BY <1>1 DEF Kept, Way, Leaving, ProducersBusy, Fields, SeatPlan
<1> QED BY <1>2, <1>3, <1>4, <1>5, <1>6, Beside

\* The parts of what App must be.
LEMMA GoodIs ==
    ASSUME NEW a, Good(a)
    PROVE  DOMAIN a = Fields /\ WindowShape(a) /\ RequestShape(a) /\ FleetShape(a)
BY DEF Good, Loose, Shape

\* The database is gone, and what was shown of it.
LEMMA UninstallKeeps ==
    ASSUME NEW a, NEW box, Good(a)
    PROVE  Keeps(a, UninstallBrowsing(a), box)
<1> DEFINE b == CloseClear(InvalidateConfirmation(a))
           c == [b EXCEPT !.cur = None, !.dedup = None, !.group = FALSE, !.cache = << >>, !.gate = Blocked]
<1>1. Keeps(a, b, box) /\ Good(b)
  BY InvalidateKeeps, CloseClearKeeps, KeepsOn DEF Keeps
<1> HIDE DEF b
<1>2. DOMAIN b = Fields /\ WindowShape(b) /\ RequestShape(b)
  BY <1>1, GoodIs
<1>3. DOMAIN c = Fields
  BY <1>2
<1>4. Fleets(b, c) /\ Shown(b, c)
  BY <1>2 DEF Fleets, Shown, Fields
<1>5. WindowShape(c)
  BY <1>2, NothingCached DEF WindowShape, ScanOrNone, Fields
<1>6. RequestShape(c)
  BY <1>2 DEF RequestShape, Fields, Blocked
<1>7. Kept(b, c)
  BY <1>2 DEF Kept, Way, Leaving, ProducersBusy, Fields
<1>8. Keeps(b, c, box)
  BY <1>1, <1>3, <1>4, <1>5, <1>6, <1>7, Beside
<1> QED BY <1>1, <1>8, KeepsOn DEF UninstallBrowsing, b

-----------------------------------------------------------------------------
(* Steps that send a request                                               *)

\* Of App, what S does not name is as it was.
Same(a, b, S) == \A f \in Fields \ S : b[f] = a[f]

\* A request given out stays one as more are given out.
LEMMA QueuesGrow ==
    ASSUME NEW r \in Nat, NEW r2 \in Nat, r <= r2, NEW q \in Seq(Seq(RequestsTo(r)))
    PROVE  q \in Seq(Seq(RequestsTo(r2)))
<1>1. RequestsTo(r) \subseteq RequestsTo(r2)
  BY DEF RequestsTo
<1>2. \A s \in Seq(RequestsTo(r)) : s \in Seq(RequestsTo(r2))
  <2> SUFFICES ASSUME NEW s \in Seq(RequestsTo(r)) PROVE s \in Seq(RequestsTo(r2))
    OBVIOUS
  <2>1. /\ Len(s) \in Nat /\ s = [i \in 1..Len(s) |-> s[i]] /\ \A i \in 1..Len(s) : s[i] \in RequestsTo(r)
    BY LenProperties, ElementOfSeq
  <2>2. [i \in 1..Len(s) |-> s[i]] \in Seq(RequestsTo(r2))
    BY <1>1, <2>1, IsASeq
  <2> QED BY <2>1, <2>2
<1>3. /\ Len(q) \in Nat /\ q = [i \in 1..Len(q) |-> q[i]] /\ \A i \in 1..Len(q) : q[i] \in Seq(RequestsTo(r))
  BY LenProperties, ElementOfSeq
<1>4. [i \in 1..Len(q) |-> q[i]] \in Seq(Seq(RequestsTo(r2)))
  BY <1>2, <1>3, IsASeq
<1> QED BY <1>3, <1>4

\* An element of a sequence is replaced.
LEMMA ReplacedIs ==
    ASSUME NEW S, NEW s \in Seq(S), NEW i \in DOMAIN s, NEW e \in S
    PROVE  /\ [s EXCEPT ![i] = e] \in Seq(S) /\ Len([s EXCEPT ![i] = e]) = Len(s)
           /\ DOMAIN [s EXCEPT ![i] = e] = DOMAIN s
<1> DEFINE n == Len(s)
<1>1. n \in Nat /\ DOMAIN s = 1..n /\ \A k \in 1..n : s[k] \in S
  BY LenProperties, ElementOfSeq
<1> HIDE DEF n
<1>2. [s EXCEPT ![i] = e] = [k \in 1..n |-> IF k = i THEN e ELSE s[k]]
  BY <1>1
<1>3. \A k \in 1..n : (IF k = i THEN e ELSE s[k]) \in S
  BY <1>1
<1>4. /\ [k \in 1..n |-> IF k = i THEN e ELSE s[k]] \in Seq(S)
  BY <1>1, <1>3, IsASeq
<1>5. Len([s EXCEPT ![i] = e]) = n
  BY <1>1, <1>2, <1>4, LenProperties
<1> QED BY <1>1, <1>2, <1>4, <1>5 DEF n

\* Each actor spawned has a queue of requests given out.
LEMMA QueueIs ==
    ASSUME NEW a, Good(a), NEW i \in DOMAIN a.queue
    PROVE  /\ a.queue[i] \in Seq(RequestsTo(a.req)) /\ a.req \in Nat
           /\ DOMAIN a.queue = DOMAIN a.born /\ DOMAIN a.queue = 1..Len(a.born)
           /\ \A k \in DOMAIN a.queue[i] : a.queue[i][k] \in RequestsTo(a.req)
<1>1. a.queue \in Seq(Seq(RequestsTo(a.req))) /\ a.req \in Nat /\ Len(a.queue) = Len(a.born) /\ a.born \in Seq(Roles)
  BY DEF Good, Loose, Shape, FleetShape, RequestShape
<1>2. a.queue[i] \in Seq(RequestsTo(a.req)) /\ DOMAIN a.queue = DOMAIN a.born /\ DOMAIN a.queue = 1..Len(a.born)
  BY <1>1, LenProperties, ElementOfSeq
<1>3. \A k \in DOMAIN a.queue[i] : a.queue[i][k] \in RequestsTo(a.req)
  BY <1>2, LenProperties, ElementOfSeq
<1> QED BY <1>1, <1>2, <1>3

\* A request goes to the end of the fleet's actor's queue, under the next id, and nothing else
\* moves.
LEMMA EnqueueIs ==
    ASSUME NEW a, Good(a), TerminalOwed(a), NEW kind \in Asks, NEW scan \in ScanOrNone
    PROVE  LET b == Enqueue(a, kind, scan)
               q == Request(a, kind, scan)
           IN  /\ DOMAIN b = Fields /\ b.req = a.req + 1 /\ a.req \in Nat
               /\ Same(a, b, {"req", "queue"})
               /\ b.queue \in Seq(Seq(RequestsTo(a.req + 1))) /\ Len(b.queue) = Len(a.queue)
               /\ DOMAIN b.queue = DOMAIN a.queue /\ DOMAIN a.queue = DOMAIN a.born
               /\ a.actor \in DOMAIN a.queue
               /\ q.kind = kind /\ q.req = a.req + 1 /\ q.scan = scan
               /\ q.act = (IF kind = "Open" THEN a.act + 1 ELSE a.act)
               /\ \A i \in DOMAIN a.queue : \A k \in DOMAIN b.queue[i] :
                     \/ k \in DOMAIN a.queue[i] /\ b.queue[i][k] = a.queue[i][k]
                     \/ i = a.actor /\ k = Len(a.queue[i]) + 1 /\ b.queue[i][k] = q
               /\ \A i \in DOMAIN a.queue : Len(a.queue[i]) + 1 \notin DOMAIN a.queue[i]
<1> DEFINE b == Enqueue(a, kind, scan)
           q == Request(a, kind, scan)
           n == Len(a.queue)
           r == a.req
           j == a.actor
           old == a.queue[j]
           m == Len(old)
           new == Append(old, q)
<1>1. /\ DOMAIN a = Fields /\ r \in Nat /\ a.queue \in Seq(Seq(RequestsTo(r))) /\ a.act \in Nat
      /\ j = Len(a.born) /\ j # 0 /\ Len(a.born) = n /\ a.born \in Seq(Roles)
  BY DEF Good, Loose, Shape, FleetShape, RequestShape, WindowShape
<1>2. /\ n \in Nat /\ DOMAIN a.queue = 1..n /\ j \in 1..n /\ DOMAIN a.born = 1..n
      /\ \A i \in 1..n : a.queue[i] \in Seq(RequestsTo(r))
  BY <1>1, LenProperties, ElementOfSeq
<1>3. q = [kind |-> kind, req |-> r + 1, scan |-> scan, act |-> IF kind = "Open" THEN a.act + 1 ELSE a.act]
  BY DEF Request
<1>4. q \in RequestsTo(r + 1)
  BY <1>1, <1>3 DEF RequestsTo
<1>5. a.queue \in Seq(Seq(RequestsTo(r + 1)))
  BY <1>1, QueuesGrow
<1>6. old \in Seq(RequestsTo(r + 1)) /\ m \in Nat /\ DOMAIN old = 1..m
  BY <1>2, <1>5, LenProperties, ElementOfSeq
<1> HIDE DEF q
<1>7. /\ new \in Seq(RequestsTo(r + 1)) /\ Len(new) = m + 1 /\ DOMAIN new = 1..m + 1
      /\ \A k \in 1..m : new[k] = old[k]
      /\ new[m + 1] = q
  BY <1>4, <1>6, AppendProperties, LenProperties
<1> DEFINE queue == [a.queue EXCEPT ![j] = new]
<1>8. queue \in Seq(Seq(RequestsTo(r + 1))) /\ Len(queue) = n /\ DOMAIN queue = DOMAIN a.queue
  BY <1>2, <1>5, <1>7, ReplacedIs
<1>9. b = [a EXCEPT !.req = r + 1, !.queue = queue]
  BY <1>1 DEF Enqueue, Fields, q
<1>10. \A i \in 1..n : queue[i] = IF i = j THEN new ELSE a.queue[i]
  BY <1>2
<1> HIDE DEF new, queue, m, b
<1>11. DOMAIN b = Fields /\ b.req = r + 1 /\ b.queue = queue /\ Same(a, b, {"req", "queue"})
  BY <1>1, <1>9 DEF Fields, Same
<1>12. ASSUME NEW i \in 1..n, NEW k \in DOMAIN queue[i]
       PROVE  \/ k \in DOMAIN a.queue[i] /\ queue[i][k] = a.queue[i][k]
              \/ i = j /\ k = Len(a.queue[i]) + 1 /\ queue[i][k] = q
  <2>1. CASE i # j
    BY <1>10, <1>12, <2>1
  <2>2. CASE i = j
    <3>1. queue[i] = new /\ k \in 1..m + 1 /\ a.queue[i] = old
      BY <1>7, <1>10, <1>12, <2>2
    <3>2. k \in 1..m \/ k = m + 1
      BY <1>6, <3>1
    <3>3. CASE k \in 1..m
      BY <1>6, <1>7, <3>1, <3>3
    <3>4. CASE k = m + 1
      BY <1>7, <2>2, <3>1, <3>4 DEF m
    <3> QED BY <3>2, <3>3, <3>4
  <2> QED BY <2>1, <2>2
<1>13. \A i \in 1..n : Len(a.queue[i]) + 1 \notin DOMAIN a.queue[i]
  BY <1>2, LenProperties
<1>14. q.kind = kind /\ q.req = r + 1 /\ q.scan = scan /\ q.act = (IF kind = "Open" THEN a.act + 1 ELSE a.act)
  BY <1>3
<1> HIDE DEF n, r
<1> QED BY <1>1, <1>2, <1>8, <1>11, <1>12, <1>13, <1>14 DEF b, q, n, r

\* Ids given out before a request stand after it.
LEMMA GrownShape ==
    ASSUME NEW a, NEW b, Good(a), DOMAIN b = Fields, b.req = a.req + 1, Same(a, b, {"req", "queue"})
    PROVE  WindowShape(b) /\ RequestShape(b) /\ Kept(a, b)
<1>1. a.req \in Nat /\ WindowShape(a) /\ RequestShape(a)
  BY DEF Good, Loose, Shape, RequestShape
<1>2. WindowShape(b)
  BY <1>1 DEF WindowShape, Same, Fields
<1>3. RequestShape(b)
  BY <1>1 DEF RequestShape, Same, Fields
<1>4. Kept(a, b)
  BY DEF Kept, Way, Leaving, ProducersBusy, Same, Fields
<1> QED BY <1>2, <1>3, <1>4

\* App is as good after a request as before.
LEMMA EnqueueGood ==
    ASSUME NEW a, Good(a), TerminalOwed(a), NEW kind \in Asks, NEW scan \in ScanOrNone
    PROVE  Good(Enqueue(a, kind, scan)) /\ Kept(a, Enqueue(a, kind, scan))
<1> DEFINE b == Enqueue(a, kind, scan)
<1>1. /\ DOMAIN b = Fields /\ b.req = a.req + 1 /\ a.req \in Nat
      /\ Same(a, b, {"req", "queue"})
      /\ b.queue \in Seq(Seq(RequestsTo(a.req + 1))) /\ Len(b.queue) = Len(a.queue)
  BY EnqueueIs
<1> HIDE DEF b
<1>2. WindowShape(b) /\ RequestShape(b) /\ Kept(a, b)
  BY <1>1, GrownShape
<1>3. FleetShape(b) /\ Housed(b) /\ b.pending \subseteq b.ledger /\ (b.fleet = "Idle" => b.ledger = {})
  BY <1>1 DEF Good, Loose, Shape, FleetShape, Housed, TerminalOwed, Same, Fields
<1> QED BY <1>1, <1>2, <1>3 DEF Good, Loose, Shape, b

\* A request that opens nothing; a write is for the scan shown.
LEMMA EnqueueKeeps ==
    ASSUME NEW a, NEW box, Good(a), TerminalOwed(a), NEW kind \in Asks \ {"Open"}, NEW scan \in ScanOrNone,
           kind \in Writes => scan = a.cur /\ scan # None
    PROVE  Keeps(a, Enqueue(a, kind, scan), box)
<1> DEFINE b == Enqueue(a, kind, scan)
           q == Request(a, kind, scan)
<1>1. Good(b) /\ Kept(a, b)
  BY EnqueueGood
<1>2. /\ b.req = a.req + 1 /\ a.req \in Nat
      /\ Same(a, b, {"req", "queue"})
      /\ DOMAIN b.queue = DOMAIN a.queue
      /\ q.kind = kind /\ q.req = a.req + 1 /\ q.scan = scan /\ q.act = a.act
      /\ \A i \in DOMAIN a.queue : \A k \in DOMAIN b.queue[i] :
            \/ k \in DOMAIN a.queue[i] /\ b.queue[i][k] = a.queue[i][k]
            \/ i = a.actor /\ k = Len(a.queue[i]) + 1 /\ b.queue[i][k] = q
  BY EnqueueIs
<1> HIDE DEF b, q
<1>3. /\ b.open = a.open /\ b.act = a.act /\ b.cur = a.cur /\ b.dedup = a.dedup /\ b.reconcile = a.reconcile
      /\ b.last = a.last /\ b.owed = a.owed /\ b.apply = a.apply /\ b.unsettled = a.unsettled
  BY <1>2 DEF Same, Fields
<1>4. a.act \in Nat /\ a.reconcile \in 0..a.req
  BY DEF Good, Loose, Shape, WindowShape, RequestShape
<1>5. ASSUME Lands(a, box) PROVE Lands(b, box)
  <2>1. ASSUME NEW i \in DOMAIN b.queue, Runs(i) PROVE WorksFor(b, box, i)
    BY <1>2, <1>3, <1>5, <2>1 DEF Lands, WorksFor, Answers, Installs
  <2>2. BoxOK(b, box)
    BY <1>2, <1>3, <1>5 DEF Lands, BoxOK, Answers, Installs
  <2>3. OwesOK(b)
    BY <1>3, <1>5 DEF Lands, OwesOK
  <2>4. ASSUME NEW i \in DOMAIN b.queue, Runs(i) PROVE AsksWell(b, box, i)
    <3>1. AsksWell(a, box, i) /\ WorksFor(a, box, i) /\ i \in DOMAIN a.queue
      BY <1>2, <1>5, <2>4 DEF Lands
    <3>2. kind \in Writes => (Active(i) # Inactive /\ Active(i).act = q.act => Active(i).scan = q.scan)
      BY <1>2, <1>4, <1>5, <3>1 DEF WorksFor, Lands, BoxOK
    <3>3. \A k \in DOMAIN b.queue[i] : b.queue[i][k].kind = "Open" =>
             k \in DOMAIN a.queue[i] /\ b.queue[i][k] = a.queue[i][k]
      BY <1>2, <3>1
    <3>4. \A k \in DOMAIN b.queue[i] : b.queue[i][k].kind = "Open" =>
              /\ b.queue[i][k].req = b.open.req /\ b.queue[i][k].act = b.act + 1
              /\ \A l \in DOMAIN b.queue[i] : b.queue[i][l].kind = "Open" => k = l
              /\ \A m \in DOMAIN box : ~Answers(box[m], b)
      BY <1>3, <3>1, <3>3 DEF AsksWell, Answers
    <3>5. \A k \in DOMAIN b.queue[i] : b.queue[i][k].kind \in Writes =>
              /\ b.queue[i][k].act <= b.act /\ b.queue[i][k].scan # None
              /\ Active(i) # Inactive /\ Active(i).act = b.queue[i][k].act => Active(i).scan = b.queue[i][k].scan
      BY <1>2, <1>3, <1>4, <3>1, <3>2 DEF AsksWell
    <3>6. \A k \in DOMAIN b.queue[i] : b.queue[i][k].kind = "Reconcile" /\ b.queue[i][k].req = b.reconcile =>
              b.last.owed \in {None, b.queue[i][k].scan}
      BY <1>2, <1>3, <1>4, <3>1 DEF AsksWell
    <3> QED BY <3>4, <3>5, <3>6 DEF AsksWell
  <2> QED BY <2>1, <2>2, <2>3, <2>4 DEF Lands
<1> QED BY <1>1, <1>5 DEF Keeps, b

\* A spawn gives an idle fleet one actor more, its queue empty.
LEMMA SpawnIs ==
    ASSUME NEW a, Good(a), a.fleet = "Idle"
    PROVE  LET b == Spawn(a)
               n == Len(a.born)
           IN  /\ DOMAIN b = Fields /\ Same(a, b, {"fleet", "actor", "ledger", "queue", "born"})
               /\ b.fleet = "Live" /\ b.actor = n + 1 /\ b.ledger = {}
               /\ n \in Nat /\ DOMAIN a.born = 1..n /\ DOMAIN b.born = 1..n + 1 /\ Len(b.born) = n + 1
               /\ b.born \in Seq(Roles) /\ b.queue \in Seq(Seq(RequestsTo(a.req))) /\ Len(b.queue) = n + 1
               /\ DOMAIN b.queue = 1..n + 1 /\ DOMAIN a.queue = 1..n
               /\ b.queue[n + 1] = << >> /\ \A i \in 1..n : b.queue[i] = a.queue[i]
<1> DEFINE b == Spawn(a)
           n == Len(a.born)
           s == a.queue
           t == Append(s, << >>)
<1>1. PICK role \in Roles : b = [a EXCEPT !.fleet = "Live", !.actor = n + 1, !.ledger = {},
                                          !.queue = t, !.born = Append(@, role)]
  BY DEF Spawn, Roles
<1>2. /\ n \in Nat /\ a.born \in Seq(Roles) /\ DOMAIN a.born = 1..n
      /\ s \in Seq(Seq(RequestsTo(a.req))) /\ Len(s) = n /\ DOMAIN a = Fields /\ DOMAIN s = 1..n
  BY LenProperties DEF Good, Loose, Shape, FleetShape
<1>3. /\ Append(a.born, role) \in Seq(Roles) /\ Len(Append(a.born, role)) = n + 1
      /\ DOMAIN Append(a.born, role) = 1..n + 1
  BY <1>2, AppendProperties, LenProperties
<1>4. << >> \in Seq(RequestsTo(a.req))
  BY EmptySeq
<1>5. /\ t \in Seq(Seq(RequestsTo(a.req))) /\ Len(t) = n + 1 /\ DOMAIN t = 1..n + 1
      /\ t[n + 1] = << >> /\ \A i \in 1..n : t[i] = s[i]
  BY <1>2, <1>4, AppendProperties, LenProperties
<1> HIDE DEF b, n, t
<1>6. /\ DOMAIN b = Fields /\ b.fleet = "Live" /\ b.actor = n + 1 /\ b.ledger = {}
      /\ b.queue = t /\ b.born = Append(a.born, role)
      /\ Same(a, b, {"fleet", "actor", "ledger", "queue", "born"})
  BY <1>1, <1>2 DEF Fields, Same
<1> QED BY <1>2, <1>3, <1>5, <1>6 DEF b, n

\* A spawn keeps what App must be: the new actor has installed nothing.
LEMMA SpawnKeeps ==
    ASSUME NEW a, NEW box, Good(a)
    PROVE  /\ Keeps(a, Spawn(a), box) /\ TerminalOwed(Spawn(a))
           /\ Spawn(a).req = a.req /\ Spawn(a).cur = a.cur /\ Spawn(a).open = a.open /\ Spawn(a).owed = a.owed
           /\ Spawn(a).stage = a.stage /\ Spawn(a).screen = a.screen /\ Spawn(a).act = a.act
           /\ Spawn(a).dedup = a.dedup
<1>1. CASE a.fleet # "Idle"
  <2>1. Spawn(a) = a
    BY <1>1 DEF Spawn
  <2> QED BY <1>1, <2>1, KeepsSelf DEF TerminalOwed
<1>2. CASE a.fleet = "Idle"
  <2> DEFINE b == Spawn(a)
             n == Len(a.born)
  <2>1. /\ DOMAIN b = Fields /\ Same(a, b, {"fleet", "actor", "ledger", "queue", "born"})
        /\ b.fleet = "Live" /\ b.actor = n + 1 /\ b.ledger = {}
        /\ n \in Nat /\ DOMAIN a.born = 1..n /\ DOMAIN b.born = 1..n + 1 /\ Len(b.born) = n + 1
        /\ b.born \in Seq(Roles) /\ b.queue \in Seq(Seq(RequestsTo(a.req))) /\ Len(b.queue) = n + 1
        /\ DOMAIN b.queue = 1..n + 1 /\ DOMAIN a.queue = 1..n
        /\ b.queue[n + 1] = << >> /\ \A i \in 1..n : b.queue[i] = a.queue[i]
    BY <1>2, SpawnIs
  <2> HIDE DEF b, n
  <2>2. /\ b.req = a.req /\ b.cur = a.cur /\ b.open = a.open /\ b.owed = a.owed /\ b.stage = a.stage
        /\ b.screen = a.screen /\ b.act = a.act /\ b.dedup = a.dedup /\ b.pending = a.pending
        /\ b.reconcile = a.reconcile /\ b.last = a.last /\ b.apply = a.apply /\ b.unsettled = a.unsettled
    BY <2>1 DEF Same, Fields
  <2>0. WindowShape(a) /\ RequestShape(a)
    BY GoodIs
  <2>3. WindowShape(b)
    <3>1. /\ b.stage = a.stage /\ b.screen = a.screen /\ b.owed = a.owed /\ b.cur = a.cur /\ b.dedup = a.dedup
          /\ b.owes = a.owes /\ b.plan = a.plan /\ b.act = a.act /\ b.cache = a.cache /\ b.spawn = a.spawn
          /\ b.moves = a.moves /\ b.purges = a.purges /\ b.probes = a.probes /\ b.work = a.work /\ b.last = a.last
      BY <2>1 DEF Same, Fields
    <3> QED BY <2>0, <3>1 DEF WindowShape
  <2>4. RequestShape(b)
    <3>1. /\ b.req = a.req /\ b.marked = a.marked /\ b.planning = a.planning /\ b.reconcile = a.reconcile
          /\ b.settling = a.settling /\ b.pending = a.pending /\ b.groups = a.groups
          /\ b.covering = a.covering /\ b.open = a.open /\ b.gate = a.gate /\ b.ledger = {}
      BY <2>1 DEF Same, Fields
    <3> QED BY <2>0, <3>1 DEF RequestShape
  <2>5. Kept(a, b)
    <3>1. /\ b.work = a.work /\ b.moves = a.moves /\ b.purges = a.purges /\ b.probes = a.probes
          /\ b.scan = a.scan /\ b.apply = a.apply /\ b.last = a.last
          /\ b.late = a.late /\ b.keyQuit = a.keyQuit /\ b.prompt = a.prompt /\ b.unsettled = a.unsettled
          /\ b.stage = a.stage /\ b.screen = a.screen /\ b.open = a.open /\ b.owed = a.owed /\ b.quit = a.quit
      BY <2>1 DEF Same, Fields
    <3> QED BY <3>1 DEF Kept, Way, Leaving, ProducersBusy
  <2>6. TerminalOwed(b) /\ FleetShape(b)
    BY <2>1, <2>2 DEF FleetShape, TerminalOwed
  <2>7. Housed(b) /\ DOMAIN thread \subseteq 1..n
    BY SMTT(30), <1>2, <2>1 DEF Good, Loose, Housed, TerminalOwed
  <2>8. b.pending \subseteq b.ledger
    BY <1>2, <2>1, <2>2 DEF Good, Loose
  <2>9. Good(b)
    BY <2>1, <2>3, <2>4, <2>6, <2>7, <2>8 DEF Good, Loose, Shape
  <2>10. ASSUME Lands(a, box) PROVE Lands(b, box)
    <3>1. BoxOK(b, box)
      BY <2>2, <2>10 DEF Lands, BoxOK, Answers, Installs
    <3>2. OwesOK(b)
      BY <2>2, <2>10 DEF Lands, OwesOK
    <3>3. ASSUME NEW i \in 1..n, Runs(i) PROVE AsksWell(b, box, i) /\ WorksFor(b, box, i)
      <4>1. AsksWell(a, box, i) /\ WorksFor(a, box, i) /\ b.queue[i] = a.queue[i]
        BY <2>1, <2>10, <3>3 DEF Lands
      <4>2. AsksWell(b, box, i)
        BY <2>2, <4>1 DEF AsksWell, Answers
      <4>3. WorksFor(b, box, i)
        BY <2>2, <4>1 DEF WorksFor, Answers, Installs
      <4> QED BY <4>2, <4>3
    <3>4. n + 1 \notin DOMAIN thread
      BY <2>1, <2>7
    <3>5. AsksWell(b, box, n + 1) /\ WorksFor(b, box, n + 1)
      <4>1. \A k \in DOMAIN b.queue[n + 1] : FALSE
        BY <2>1, NothingCached
      <4> QED BY <3>4, <4>1 DEF AsksWell, WorksFor, Active
    <3>6. \A i \in DOMAIN b.queue : i \in 1..n \/ i = n + 1
      BY <2>1
    <3> QED BY <3>1, <3>2, <3>3, <3>5, <3>6 DEF Lands
  <2> QED BY <2>2, <2>5, <2>6, <2>9, <2>10 DEF Keeps, b
<1> QED BY <1>1, <1>2

\* send_browse: the request stands in the queue of the fleet's actor, or was not sent.
LEMMA SendIs ==
    ASSUME NEW a, NEW box, Good(a), NEW kind \in Asks, NEW scan \in ScanOrNone
    PROVE  LET b == SendBrowse(a, kind, scan)
               c == Spawn(a)
           IN  /\ Keeps(a, c, box) /\ Good(c) /\ TerminalOwed(c) /\ c.req = a.req /\ a.req \in Nat
               /\ \/ b = c /\ ~Sent(a, b)
                  \/ b = Enqueue(c, kind, scan) /\ b.req = a.req + 1 /\ Sent(a, b)
               /\ c.cur = a.cur /\ c.open = a.open /\ c.stage = a.stage /\ c.screen = a.screen /\ c.owed = a.owed
               /\ c.act = a.act /\ c.dedup = a.dedup
<1>1. a.req \in Nat
  BY DEF Good, Loose, Shape, RequestShape
<1>2. Good(Spawn(a))
  BY SpawnKeeps DEF Keeps
<1> DEFINE c == Spawn(a)
           b == SendBrowse(a, kind, scan)
<1>3. CASE Receives(c)
  <2>1. b = Enqueue(c, kind, scan)
    BY <1>3 DEF SendBrowse
  <2>0. Good(c) /\ TerminalOwed(c)
    BY <1>2, SpawnKeeps
  <2> HIDE DEF c
  <2>2. Enqueue(c, kind, scan).req = c.req + 1
    BY <2>0, EnqueueIs
  <2> USE DEF c
  <2>3. Sent(a, b) /\ b.req = a.req + 1
    BY <1>1, <2>1, <2>2, SpawnKeeps DEF Sent
  <2> QED BY <1>1, <1>2, <2>1, <2>3, SpawnKeeps
<1>4. CASE ~Receives(c)
  <2>1. b = c /\ ~Sent(a, b)
    BY <1>1, <1>4, SpawnKeeps DEF SendBrowse, Sent
  <2> QED BY <1>1, <1>2, <2>1, SpawnKeeps
<1> QED BY <1>3, <1>4

\* A request other than an open keeps everything; a write is one for the scan shown.
LEMMA SendKeeps ==
    ASSUME NEW a, NEW box, Good(a), NEW kind \in Asks \ {"Open"}, NEW scan \in ScanOrNone,
           kind \in Writes => scan = a.cur /\ scan # None
    PROVE  LET b == SendBrowse(a, kind, scan)
           IN  /\ Keeps(a, b, box) /\ Good(b) /\ b.req \in Nat /\ ReqOf(a, b) \in 0..b.req
               /\ Sent(a, b) => b.req # 0
               /\ b.cur = a.cur /\ b.open = a.open /\ b.stage = a.stage /\ b.screen = a.screen /\ b.owed = a.owed
               /\ b.act = a.act /\ b.dedup = a.dedup
<1> DEFINE c == Spawn(a)
           b == SendBrowse(a, kind, scan)
<1>1. /\ Keeps(a, c, box) /\ Good(c) /\ TerminalOwed(c) /\ c.req = a.req /\ a.req \in Nat
      /\ \/ b = c /\ ~Sent(a, b)
         \/ b = Enqueue(c, kind, scan) /\ b.req = a.req + 1 /\ Sent(a, b)
      /\ c.cur = a.cur /\ c.open = a.open /\ c.stage = a.stage /\ c.screen = a.screen /\ c.owed = a.owed
      /\ c.act = a.act /\ c.dedup = a.dedup
  BY SendIs
<1> HIDE DEF b, c
<1>2. CASE b = c /\ ~Sent(a, b)
  BY <1>1, <1>2 DEF ReqOf, b
<1>3. CASE b = Enqueue(c, kind, scan) /\ b.req = a.req + 1 /\ Sent(a, b)
  <2>1. Keeps(c, b, box) /\ Good(b)
    BY <1>1, <1>3, EnqueueKeeps DEF Keeps
  <2>2. Same(c, b, {"req", "queue"})
    BY <1>1, <1>3, EnqueueIs
  <2>3. /\ b.cur = c.cur /\ b.open = c.open /\ b.stage = c.stage /\ b.screen = c.screen /\ b.owed = c.owed
        /\ b.act = c.act /\ b.dedup = c.dedup
    BY <2>2 DEF Same, Fields
  <2>4. Keeps(a, b, box)
    BY <1>1, <2>1, KeepsOn
  <2>5. b.req \in Nat /\ ReqOf(a, b) \in 0..b.req /\ b.req # 0
    BY <1>1, <1>3 DEF ReqOf
  <2> QED BY <1>1, <2>1, <2>3, <2>4, <2>5 DEF b
<1> QED BY <1>1, <1>2, <1>3

-----------------------------------------------------------------------------
(* The ledger, and an open                                                 *)

\* What a request changes.
Sends == {"fleet", "actor", "ledger", "queue", "born", "req"}

\* A request changes the fleet, its queues and the ids, and nothing of the window.
LEMMA SendSame ==
    ASSUME NEW a, NEW box, Good(a), NEW kind \in Asks, NEW scan \in ScanOrNone
    PROVE  LET b == SendBrowse(a, kind, scan)
           IN  /\ DOMAIN b = Fields /\ Same(a, b, Sends) /\ b.req \in Nat /\ a.req \in Nat
               /\ ReqOf(a, b) \in 0..b.req /\ (Sent(a, b) => b.req = a.req + 1 /\ ReqOf(a, b) = b.req)
               /\ a.req <= b.req
<1> DEFINE c == Spawn(a)
           b == SendBrowse(a, kind, scan)
<1>1. Good(a) /\ Good(c) /\ TerminalOwed(c) /\ a.req \in Nat /\ c.req = a.req
  BY SendIs
<1>2. DOMAIN c = Fields /\ DOMAIN a = Fields
  BY <1>1, GoodIs
<1>3. Same(a, c, {"fleet", "actor", "ledger", "queue", "born"})
  <2>1. CASE a.fleet = "Idle"
    BY <2>1, SpawnIs
  <2>2. CASE a.fleet # "Idle"
    BY <2>2 DEF Same, Spawn
  <2> QED BY <2>1, <2>2
<1>4. CASE b = c /\ ~Sent(a, b)
  BY <1>1, <1>2, <1>3, <1>4 DEF Same, Sends, ReqOf
<1>5. CASE b = Enqueue(c, kind, scan) /\ b.req = a.req + 1 /\ Sent(a, b)
  <2> HIDE DEF c
  <2>1. DOMAIN Enqueue(c, kind, scan) = Fields /\ Same(c, Enqueue(c, kind, scan), {"req", "queue"})
    BY <1>1, EnqueueIs
  <2>2. Same(a, b, Sends) /\ DOMAIN b = Fields
    BY <1>3, <1>5, <2>1 DEF Same, Sends
  <2>3. /\ b.req \in Nat /\ a.req <= b.req
        /\ ReqOf(a, b) \in 0..b.req /\ (Sent(a, b) => b.req = a.req + 1 /\ ReqOf(a, b) = b.req)
    <3> HIDE DEF b
    <3> QED BY <1>1, <1>5 DEF ReqOf
  <2> QED BY <1>1, <2>2, <2>3
<1> QED BY <1>4, <1>5, SendIs

\* The marks waited for and the ledger, of a fleet that has an actor or none to answer for.
LEMMA LedgerKeeps ==
    ASSUME NEW a, NEW box, Loose(a), NEW p, NEW l, p \subseteq l, l \subseteq 0..a.req,
           a.fleet = "Idle" => l = {}
    PROVE  Keeps(a, [a EXCEPT !.pending = p, !.ledger = l], box)
<1> DEFINE b == [a EXCEPT !.pending = p, !.ledger = l]
<1>1. DOMAIN a = Fields /\ WindowShape(a) /\ RequestShape(a) /\ FleetShape(a) /\ Housed(a)
  BY DEF Loose, Shape
<1>2. DOMAIN b = Fields /\ b.pending = p /\ b.ledger = l /\ Same(a, b, {"pending", "ledger"})
  BY <1>1 DEF Fields, Same
<1> HIDE DEF b
<1>3. WindowShape(b)
  <2>1. /\ b.stage = a.stage /\ b.screen = a.screen /\ b.owed = a.owed /\ b.cur = a.cur /\ b.dedup = a.dedup
        /\ b.owes = a.owes /\ b.plan = a.plan /\ b.act = a.act /\ b.cache = a.cache /\ b.spawn = a.spawn
        /\ b.moves = a.moves /\ b.purges = a.purges /\ b.probes = a.probes /\ b.work = a.work /\ b.last = a.last
    BY <1>2 DEF Same, Fields
  <2> QED BY <1>1, <2>1 DEF WindowShape
<1>4. RequestShape(b)
  <2>1. /\ b.req = a.req /\ b.marked = a.marked /\ b.planning = a.planning /\ b.reconcile = a.reconcile
        /\ b.settling = a.settling /\ b.groups = a.groups
        /\ b.covering = a.covering /\ b.open = a.open /\ b.gate = a.gate
    BY <1>2 DEF Same, Fields
  <2> QED BY <1>1, <1>2, <2>1 DEF RequestShape
<1>5. /\ b.fleet = a.fleet /\ b.actor = a.actor /\ b.born = a.born /\ b.queue = a.queue /\ b.req = a.req
  BY <1>2 DEF Same, Fields
<1>6. FleetShape(b) /\ Housed(b)
  BY <1>1, <1>5 DEF FleetShape, Housed, TerminalOwed
<1>7. Good(b)
  BY <1>2, <1>3, <1>4, <1>5, <1>6 DEF Good, Loose, Shape
<1>8. /\ b.work = a.work /\ b.moves = a.moves /\ b.purges = a.purges /\ b.probes = a.probes
      /\ b.scan = a.scan /\ b.apply = a.apply /\ b.last = a.last
      /\ b.late = a.late /\ b.keyQuit = a.keyQuit /\ b.prompt = a.prompt /\ b.unsettled = a.unsettled
      /\ b.stage = a.stage /\ b.screen = a.screen /\ b.open = a.open /\ b.owed = a.owed /\ b.quit = a.quit
  BY <1>2 DEF Same, Fields
<1>9. Kept(a, b)
  BY <1>8 DEF Kept, Way, Leaving, ProducersBusy
<1>10. /\ b.act = a.act /\ b.cur = a.cur /\ b.dedup = a.dedup /\ b.reconcile = a.reconcile
  BY <1>2 DEF Same, Fields
<1>11. ASSUME Lands(a, box) PROVE Lands(b, box)
  BY <1>5, <1>8, <1>10, <1>11 DEF Lands, AsksWell, WorksFor, BoxOK, OwesOK, Answers, Installs
<1> QED BY <1>7, <1>9, <1>11 DEF Keeps, b

\* A write: its ticket and its request are accepted together, for the scan shown.
LEMMA TicketKeeps ==
    ASSUME NEW a, NEW box, Good(a), NEW kind \in {"SetMarks", "ClearMarks"}, a.dedup = a.cur, a.dedup # None
    PROVE  Keeps(a, SendTicket(a, kind), box)
<1>1. CASE ~Receives(a)
  BY <1>1, KeepsSelf DEF SendTicket
<1>2. CASE Receives(a)
  <2> DEFINE b == Enqueue(a, kind, a.dedup)
             c == [b EXCEPT !.pending = b.pending \cup {b.req}, !.ledger = b.ledger \cup {b.req}]
  <2>1. TerminalOwed(a) /\ a.dedup \in ScanOrNone /\ kind \in Asks \ {"Open"} /\ kind \in Writes
    BY <1>2, GoodIs DEF Receives, TerminalOwed, WindowShape, ScanOrNone, Asks, Writes
  <2>2. Keeps(a, b, box) /\ Good(b)
    BY <2>1, EnqueueKeeps DEF Keeps
  <2>3. Same(a, b, {"req", "queue"})
    BY <2>1, EnqueueIs
  <2>4. b.fleet # "Idle"
    BY <1>2, <2>3 DEF Same, Fields, Receives
  <2>5. SendTicket(a, kind) = [b EXCEPT !.ledger = b.ledger \cup {b.req}, !.pending = b.pending \cup {b.req}]
    BY <1>2 DEF SendTicket
  <2> HIDE DEF b
  <2>6. Loose(b) /\ b.pending \subseteq b.ledger /\ b.ledger \subseteq 0..b.req /\ b.req \in Nat
    BY <2>2, GoodIs DEF Good, Loose, RequestShape
  <2>7. Keeps(b, c, box)
    <3> DEFINE p == b.pending \cup {b.req}
               l == b.ledger \cup {b.req}
    <3>1. p \subseteq l /\ l \subseteq 0..b.req
      BY <2>6
    <3> HIDE DEF p, l
    <3>2. Keeps(b, [b EXCEPT !.pending = p, !.ledger = l], box)
      BY <2>4, <2>6, <3>1, LedgerKeeps
    <3> QED BY <3>2 DEF p, l
  <2>8. SendTicket(a, kind) = c
    BY <2>2, <2>5, GoodIs DEF Fields
  <2> QED BY <2>2, <2>7, <2>8, KeepsOn
<1> QED BY <1>1, <1>2

\* An answer to a mark.
LEMMA AcknowledgedKeeps ==
    ASSUME NEW a, NEW box, Good(a), NEW r
    PROVE  Keeps(a, [SettleTicket(a, r) EXCEPT !.pending = @ \ {r}], box)
<1>1. Loose(a) /\ a.pending \subseteq a.ledger /\ a.ledger \subseteq 0..a.req /\ (a.fleet = "Idle" => a.ledger = {})
      /\ DOMAIN a = Fields
  BY GoodIs DEF Good, Loose, RequestShape
<1>2. CASE a.fleet = "Live"
  <2>1. Keeps(a, [a EXCEPT !.pending = a.pending \ {r}, !.ledger = a.ledger \ {r}], box)
    BY <1>1, <1>2, LedgerKeeps
  <2>2. [SettleTicket(a, r) EXCEPT !.pending = @ \ {r}] = [a EXCEPT !.pending = a.pending \ {r}, !.ledger = a.ledger \ {r}]
    BY <1>1, <1>2 DEF SettleTicket, Fields
  <2> QED BY <2>1, <2>2
<1>3. CASE a.fleet # "Live"
  <2>1. Keeps(a, [a EXCEPT !.pending = a.pending \ {r}, !.ledger = a.ledger], box)
    BY <1>1, LedgerKeeps
  <2>2. [SettleTicket(a, r) EXCEPT !.pending = @ \ {r}] = [a EXCEPT !.pending = a.pending \ {r}, !.ledger = a.ledger]
    BY <1>1, <1>3 DEF SettleTicket, Fields
  <2> QED BY <2>1, <2>2
<1> QED BY <1>2, <1>3

-----------------------------------------------------------------------------
(* Opening a scan                                                          *)

\* What an open changes.
Opens == Sends \cup {"open"}

\* The open is shown where the scan screen waits and nothing is scanned.
MayShow(a) == Way(a) => ~a.scan /\ a.screen = "scanning"

\* What OpenViaActor leaves alone.
LEMMA OpenSame ==
    ASSUME NEW a, NEW box, Good(a), NEW scan \in ScanOrNone, NEW show \in BOOLEAN
    PROVE  LET b == OpenViaActor(a, scan, show)
           IN  DOMAIN b = Fields /\ Same(a, b, Opens)
<1> DEFINE b == SendBrowse(a, "Open", scan)
           g == [a.open EXCEPT !.show = a.open.show \/ (show /\ a.open.scan = scan)]
<1>1. DOMAIN a = Fields
  BY GoodIs
<1>2. DOMAIN b = Fields /\ Same(a, b, Sends)
  BY SendSame DEF Asks
<1>3. CASE a.open # NoOpen
  <2>1. OpenViaActor(a, scan, show) = [a EXCEPT !.open = g]
    BY <1>1, <1>3 DEF OpenViaActor, Fields
  <2> HIDE DEF g
  <2> QED BY <1>1, <2>1 DEF Same, Opens
<1>4. CASE a.open = NoOpen
  <2> HIDE DEF b
  <2>1. OpenViaActor(a, scan, show) = b \/
          OpenViaActor(a, scan, show) = [b EXCEPT !.open = [req |-> b.req, scan |-> scan, show |-> show]]
    BY <1>4 DEF OpenViaActor, b
  <2> DEFINE o == [req |-> b.req, scan |-> scan, show |-> show]
  <2> HIDE DEF o
  <2>2. OpenViaActor(a, scan, show) = b \/ OpenViaActor(a, scan, show) = [b EXCEPT !.open = o]
    BY <2>1 DEF o
  <2> QED BY <1>2, <2>2 DEF Same, Opens
<1> QED BY <1>3, <1>4

\* An open on its way may be told to show its scan.
LEMMA ReshownKeeps ==
    ASSUME NEW a, NEW box, Good(a), NEW show \in BOOLEAN, show => MayShow(a)
    PROVE  Keeps(a, [a EXCEPT !.open.show = show], box)
<1> DEFINE b == [a EXCEPT !.open.show = show]
<1>0. Good(a)
  OBVIOUS
<1>a. a.open \in [req : 0..a.req, scan : ScanOrNone, show : BOOLEAN] /\ a.req \in Nat
  BY GoodIs DEF RequestShape
<1>1. Keeps(a, b, box)
  <2>1. DOMAIN a = Fields /\ WindowShape(a) /\ RequestShape(a)
    BY <1>0, GoodIs
  <2>2. DOMAIN b = Fields
    BY <2>1 DEF Fields
  <2>3. Fleets(a, b) /\ Shown(a, b)
    BY <2>1, <1>a DEF Fleets, Shown, Fields
  <2>4. WindowShape(b)
    BY <2>1, NothingCached DEF WindowShape, ScanOrNone, Fields
  <2>5. RequestShape(b)
    BY <2>1, <1>a DEF RequestShape, Fields
  <2>6. Kept(a, b)
    BY <2>1, <1>a DEF Kept, MayShow, Way, Leaving, ProducersBusy, Fields
  <2> QED BY <1>0, <2>2, <2>3, <2>4, <2>5, <2>6, Beside
<1> QED BY <1>1

\* The request is sent, and the open is remembered with its id.
LEMMA OpenedKeeps ==
    ASSUME NEW a, NEW box, Good(a), TerminalOwed(a), a.open = NoOpen, NEW scan \in ScanOrNone,
           NEW show \in BOOLEAN, show => MayShow(a)
    PROVE  LET b == Enqueue(a, "Open", scan)
           IN  Keeps(a, [b EXCEPT !.open = [req |-> b.req, scan |-> scan, show |-> show]], box)
<1> DEFINE b == Enqueue(a, "Open", scan)
           q == Request(a, "Open", scan)
           o == [req |-> b.req, scan |-> scan, show |-> show]
           c == [b EXCEPT !.open = o]
<1>1. Good(b) /\ Kept(a, b)
  BY EnqueueGood DEF Asks
<1>2. /\ DOMAIN b = Fields /\ b.req = a.req + 1 /\ a.req \in Nat
      /\ Same(a, b, {"req", "queue"})
      /\ DOMAIN b.queue = DOMAIN a.queue
      /\ q.kind = "Open" /\ q.req = a.req + 1 /\ q.scan = scan /\ q.act = a.act + 1
      /\ \A i \in DOMAIN a.queue : \A k \in DOMAIN b.queue[i] :
            \/ k \in DOMAIN a.queue[i] /\ b.queue[i][k] = a.queue[i][k]
            \/ i = a.actor /\ k = Len(a.queue[i]) + 1 /\ b.queue[i][k] = q
  <2>1. "Open" \in Asks
    BY DEF Asks
  <2>2. PICK kind \in Asks : kind = "Open"
    BY <2>1
  <2> QED BY <2>2, EnqueueIs
<1>3. o.req = a.req + 1 /\ o \in [req : 0..b.req, scan : ScanOrNone, show : BOOLEAN] /\ o.show = show
  BY <1>2
<1> HIDE DEF b, q, o
<1>4. DOMAIN c = Fields /\ c.open = o /\ Same(b, c, {"open"})
  BY <1>2 DEF Fields, Same
<1> HIDE DEF c
<1>5. /\ c.queue = b.queue /\ c.act = a.act /\ c.cur = a.cur /\ c.dedup = a.dedup /\ c.reconcile = a.reconcile
      /\ c.last = a.last /\ c.owed = a.owed /\ c.apply = a.apply /\ c.unsettled = a.unsettled /\ c.req = b.req
      /\ c.stage = b.stage /\ c.screen = b.screen /\ c.owes = b.owes /\ c.plan = b.plan
      /\ c.cache = b.cache /\ c.spawn = b.spawn /\ c.scan = b.scan
      /\ c.moves = b.moves /\ c.purges = b.purges /\ c.probes = b.probes /\ c.work = b.work
      /\ c.late = b.late /\ c.keyQuit = b.keyQuit /\ c.prompt = b.prompt /\ c.quit = b.quit
      /\ b.stage = a.stage /\ b.screen = a.screen /\ b.scan = a.scan /\ b.late = a.late
  BY <1>2, <1>4 DEF Same, Fields
<1>6. /\ c.act = b.act /\ c.cur = b.cur /\ c.dedup = b.dedup /\ c.last = b.last /\ c.owed = b.owed /\ c.apply = b.apply
      /\ c.fleet = b.fleet /\ c.actor = b.actor /\ c.born = b.born /\ c.ledger = b.ledger /\ c.pending = b.pending
      /\ c.marked = b.marked /\ c.planning = b.planning /\ c.reconcile = b.reconcile /\ c.settling = b.settling
      /\ c.groups = b.groups /\ c.covering = b.covering /\ c.gate = b.gate
  BY <1>4 DEF Same, Fields
<1>7. WindowShape(b) /\ RequestShape(b) /\ FleetShape(b) /\ Housed(b)
  BY <1>1 DEF Good, Loose, Shape
<1>8. WindowShape(c)
  BY <1>5, <1>6, <1>7 DEF WindowShape
<1>9. RequestShape(c)
  BY <1>3, <1>4, <1>5, <1>6, <1>7 DEF RequestShape
<1>10. FleetShape(c) /\ Housed(c)
  BY <1>5, <1>6, <1>7 DEF FleetShape, Housed, TerminalOwed
<1>11. Good(c)
  BY <1>1, <1>4, <1>6, <1>8, <1>9, <1>10 DEF Good, Loose, Shape
<1>12. ASSUME Way(a) PROVE Way(c)
  <2>1. Way(b)
    BY <1>1, <1>12 DEF Kept
  <2>2. show => ~c.scan /\ c.screen = "scanning"
    BY <1>5, <1>12 DEF MayShow
  <2> QED BY <1>3, <1>4, <1>5, <1>6, <2>1, <2>2 DEF Way, Leaving, ProducersBusy
<1>13. Kept(a, c)
  <2>1. Leaving(b) => Leaving(c)
    BY <1>5, <1>6 DEF Leaving, ProducersBusy
  <2> QED BY <1>1, <1>5, <1>6, <1>12, <2>1 DEF Kept
<1>14. a.act \in Nat /\ a.reconcile \in 0..a.req /\ a.open.req = 0
  BY GoodIs DEF WindowShape, RequestShape, NoOpen
<1>15. ASSUME Lands(a, box) PROVE Lands(c, box)
  <2>1. \A m \in DOMAIN box : ~Answers(box[m], a) /\ ~Answers(box[m], c)
    BY <1>2, <1>3, <1>4, <1>14, <1>15 DEF Lands, BoxOK, Answers
  <2>2. BoxOK(c, box)
    BY <1>2, <1>5, <1>15, <2>1 DEF Lands, BoxOK, Installs
  <2>3. OwesOK(c)
    BY <1>5, <1>15 DEF Lands, OwesOK
  <2>4. ASSUME NEW i \in DOMAIN c.queue, Runs(i) PROVE WorksFor(c, box, i)
    BY <1>2, <1>5, <1>15, <2>1, <2>4 DEF Lands, WorksFor, Installs
  <2>5. ASSUME NEW i \in DOMAIN c.queue, Runs(i) PROVE AsksWell(c, box, i)
    <3>1. AsksWell(a, box, i) /\ i \in DOMAIN a.queue
      BY <1>2, <1>5, <1>15, <2>5 DEF Lands
    <3>2. \A k \in DOMAIN a.queue[i] : a.queue[i][k].kind # "Open"
      <4>1. \A k \in DOMAIN a.queue[i] : a.queue[i][k].req # 0
        <5>1. \A k \in DOMAIN a.queue[i] : a.queue[i][k] \in RequestsTo(a.req)
          BY <3>1, QueueIs
        <5>2. \A r \in RequestsTo(a.req) : r.req # 0
          BY <1>2 DEF RequestsTo
        <5> QED BY <5>1, <5>2
      <4> QED BY <1>14, <3>1, <4>1 DEF AsksWell
    <3>3. \A k \in DOMAIN c.queue[i] :
             \/ k \in DOMAIN a.queue[i] /\ c.queue[i][k] = a.queue[i][k]
             \/ k = Len(a.queue[i]) + 1 /\ c.queue[i][k] = q
      BY <1>2, <1>5, <3>1
    <3>4. \A k \in DOMAIN c.queue[i] : c.queue[i][k].kind = "Open" =>
              /\ c.queue[i][k].req = c.open.req /\ c.queue[i][k].act = c.act + 1
              /\ \A l \in DOMAIN c.queue[i] : c.queue[i][l].kind = "Open" => k = l
              /\ \A m \in DOMAIN box : ~Answers(box[m], c)
      BY <1>2, <1>3, <1>4, <1>5, <2>1, <3>2, <3>3
    <3>5. \A k \in DOMAIN c.queue[i] : c.queue[i][k].kind \in Writes =>
              /\ c.queue[i][k].act <= c.act /\ c.queue[i][k].scan # None
              /\ Active(i) # Inactive /\ Active(i).act = c.queue[i][k].act => Active(i).scan = c.queue[i][k].scan
      BY <1>2, <1>5, <3>1, <3>3 DEF AsksWell, Writes
    <3>6. \A k \in DOMAIN c.queue[i] : c.queue[i][k].kind = "Reconcile" /\ c.queue[i][k].req = c.reconcile =>
              c.last.owed \in {None, c.queue[i][k].scan}
      BY <1>2, <1>5, <3>1, <3>3 DEF AsksWell
    <3> QED BY <3>4, <3>5, <3>6 DEF AsksWell
  <2> QED BY <2>2, <2>3, <2>4, <2>5 DEF Lands
<1> QED BY <1>11, <1>13, <1>15 DEF Keeps, c, o, b

\* An open is asked for: one at a time, under the activation after the one shown.
LEMMA OpenKeeps ==
    ASSUME NEW a, NEW box, Good(a), NEW scan \in ScanOrNone, NEW show \in BOOLEAN, show => MayShow(a)
    PROVE  Keeps(a, OpenViaActor(a, scan, show), box)
<1>1. DOMAIN a = Fields /\ a.open \in [req : 0..a.req, scan : ScanOrNone, show : BOOLEAN]
  BY GoodIs DEF RequestShape
<1>2. CASE a.open # NoOpen
  <2> DEFINE s == a.open.show \/ (show /\ a.open.scan = scan)
  <2>1. OpenViaActor(a, scan, show) = [a EXCEPT !.open.show = s]
    BY <1>2 DEF OpenViaActor
  <2>2. s \in BOOLEAN /\ (s => MayShow(a))
    BY <1>1 DEF MayShow, Way
  <2> HIDE DEF s
  <2> QED BY <2>1, <2>2, ReshownKeeps
<1>3. CASE a.open = NoOpen
  <2> DEFINE c == Spawn(a)
             b == SendBrowse(a, "Open", scan)
             o == Enqueue(c, "Open", scan)
  <2>1. /\ Keeps(a, c, box) /\ Good(c) /\ TerminalOwed(c) /\ c.open = a.open
        /\ \/ b = c /\ ~Sent(a, b)
           \/ b = o /\ Sent(a, b)
        /\ c.stage = a.stage /\ c.screen = a.screen
    BY SendIs DEF Asks
  <2>2. show => MayShow(c)
    <3>1. c.scan = a.scan /\ c.late = a.late
      BY <2>1 DEF Keeps, Kept
    <3>2. Way(c) => Way(a)
      <4>1. Same(a, c, {"fleet", "actor", "ledger", "queue", "born"})
        BY SpawnIs DEF Spawn, Same
      <4>2. /\ c.moves = a.moves /\ c.purges = a.purges /\ c.scan = a.scan /\ c.apply = a.apply
            /\ c.late = a.late /\ c.keyQuit = a.keyQuit /\ c.stage = a.stage /\ c.screen = a.screen
            /\ c.open = a.open /\ c.owed = a.owed /\ c.quit = a.quit
        BY <4>1 DEF Same, Fields
      <4> QED BY <4>2 DEF Way, Leaving, ProducersBusy
    <3> QED BY <2>1, <3>1, <3>2 DEF MayShow
  <2>3. OpenViaActor(a, scan, show) = IF Sent(a, b)
             THEN [b EXCEPT !.open = [req |-> b.req, scan |-> scan, show |-> show]] ELSE b
    BY <1>3 DEF OpenViaActor
  <2> HIDE DEF b, c
  <2>4. CASE b = c /\ ~Sent(a, b)
    BY <2>1, <2>3, <2>4
  <2>5. CASE b = o /\ Sent(a, b)
    <3>1. Keeps(c, [o EXCEPT !.open = [req |-> o.req, scan |-> scan, show |-> show]], box)
      BY <1>3, <2>1, <2>2, OpenedKeeps
    <3> HIDE DEF o
    <3> QED BY <2>1, <2>3, <2>5, <3>1, KeepsOn
  <2> QED BY <2>1, <2>4, <2>5
<1> QED BY <1>2, <1>3

-----------------------------------------------------------------------------
(* Events taken from the inbox                                             *)

Kind == {"Open", "Count", "Group", "SetMarks", "ClearMarks", "Plan", "Reconcile", "Covering", "Closed",
         "ApplyFinished", "ScanFinished", "MoveDone", "Purged", "Probe"}
Results == {"ok", "err", "path", "Requested", "Panicked", "Refused", "Unrunnable", "Aborted", "Finished",
            "Failed", "Completed", "Cancelled", "fresh", "resume"}
Events == [kind : Kind, act : Nat, req : Nat, res : Results, scan : ScanOrNone, group : BOOLEAN]

\* What is left of the inbox when its first event is taken.
LEMMA TailIs ==
    ASSUME NEW box \in Seq(Events), box # << >>
    PROVE  /\ Tail(box) \in Seq(Events) /\ Head(box) = box[1] /\ 1 \in DOMAIN box /\ Head(box) \in Events
           /\ \A m \in DOMAIN Tail(box) : m + 1 \in DOMAIN box /\ m + 1 # 1 /\ Tail(box)[m] = box[m + 1]
           /\ \A m \in DOMAIN box : m = 1 \/ (m - 1 \in DOMAIN Tail(box) /\ Tail(box)[m - 1] = box[m])
           /\ DOMAIN Tail(box) \subseteq Nat /\ DOMAIN box \subseteq Nat
<1>1. /\ Tail(box) \in Seq(Events) /\ Len(Tail(box)) = Len(box) - 1 /\ Head(box) = box[1]
      /\ Len(box) \in Nat /\ Len(box) >= 1 /\ DOMAIN box = 1..Len(box)
      /\ \A m \in 1..Len(Tail(box)) : Tail(box)[m] = box[m + 1]
  BY HeadTailProperties, LenProperties, EmptySeq
<1>2. DOMAIN Tail(box) = 1..Len(box) - 1 /\ box[1] \in Events
  BY <1>1, LenProperties, ElementOfSeq
<1> QED BY <1>1, <1>2

\* Taking an event that answers no open keeps where writes land.
LEMMA TailLands ==
    ASSUME NEW a, NEW box \in Seq(Events), box # << >>, Lands(a, box), ~Answers(Head(box), a)
    PROVE  Lands(a, Tail(box))
<1>1. /\ \A m \in DOMAIN Tail(box) : m + 1 \in DOMAIN box /\ m + 1 # 1 /\ Tail(box)[m] = box[m + 1]
      /\ \A m \in DOMAIN box : m = 1 \/ (m - 1 \in DOMAIN Tail(box) /\ Tail(box)[m - 1] = box[m])
      /\ DOMAIN Tail(box) \subseteq Nat /\ Head(box) = box[1]
  BY TailIs
<1> DEFINE t == Tail(box)
<1> HIDE DEF t
<1>2. BoxOK(a, t)
  <2>1. \A m, n \in DOMAIN t : Answers(t[m], a) /\ Answers(t[n], a) => m = n
    <3> SUFFICES ASSUME NEW m \in DOMAIN t, NEW n \in DOMAIN t, Answers(t[m], a), Answers(t[n], a) PROVE m = n
      OBVIOUS
    <3>1. m + 1 = n + 1
      BY <1>1 DEF Lands, BoxOK, t
    <3> QED BY <1>1, <3>1 DEF t
  <2> QED BY <1>1, <2>1 DEF Lands, BoxOK, t
<1>3. ASSUME NEW i \in DOMAIN a.queue, Runs(i) PROVE AsksWell(a, t, i)
  BY <1>1, <1>3 DEF Lands, AsksWell, t
<1>4. ASSUME NEW i \in DOMAIN a.queue, Runs(i) PROVE WorksFor(a, t, i)
  <2>1. WorksFor(a, box, i)
    BY <1>4 DEF Lands
  <2>2. (\A m \in DOMAIN t : ~Installs(t[m], a)) => \A m \in DOMAIN box : ~Installs(box[m], a)
    BY <1>1 DEF Installs, t
  <2>3. \A m \in DOMAIN t : Installs(t[m], a) => m + 1 \in DOMAIN box /\ Installs(box[m + 1], a) /\ t[m] = box[m + 1]
    BY <1>1 DEF t
  <2> QED BY <2>1, <2>2, <2>3 DEF WorksFor
<1> QED BY <1>2, <1>3, <1>4 DEF Lands, t

\* The one answer to the open was taken: nothing on its way is about it any more.
LEMMA AnsweredIs ==
    ASSUME NEW a, Good(a), NEW box \in Seq(Events), box # << >>, Lands(a, box), Answers(Head(box), a)
    PROVE  /\ \A i \in DOMAIN a.queue : Runs(i) => \A k \in DOMAIN a.queue[i] : a.queue[i][k].kind # "Open"
           /\ \A m \in DOMAIN Tail(box) : /\ ~Answers(Tail(box)[m], a)
                                          /\ Tail(box)[m].kind \in {"Open", "Reconcile"} => Tail(box)[m].req \in 1..a.req
                                          /\ Tail(box)[m].kind = "Reconcile" /\ Tail(box)[m].req = a.reconcile
                                                /\ Tail(box)[m].res = "ok" =>
                                                a.last.owed = None \/ a.last.owed \notin stale
           /\ Head(box).res # "ok" => \A m \in DOMAIN box : ~Installs(box[m], a)
<1>1. /\ \A m \in DOMAIN Tail(box) : m + 1 \in DOMAIN box /\ m + 1 # 1 /\ Tail(box)[m] = box[m + 1]
      /\ Head(box) = box[1] /\ 1 \in DOMAIN box
  BY TailIs
<1>2. BoxOK(a, box)
  BY DEF Lands
<1>3. \A i \in DOMAIN a.queue : Runs(i) => \A k \in DOMAIN a.queue[i] : a.queue[i][k].kind # "Open"
  BY <1>1 DEF Lands, AsksWell
<1>4. \A m \in DOMAIN Tail(box) : ~Answers(Tail(box)[m], a)
  BY <1>1, <1>2 DEF BoxOK
<1>5. Head(box).res # "ok" => \A m \in DOMAIN box : ~Installs(box[m], a)
  BY <1>1, <1>2 DEF BoxOK, Installs
<1> QED BY <1>1, <1>2, <1>3, <1>4, <1>5 DEF BoxOK

\* An open that failed.
LEMMA FailedKeeps ==
    ASSUME NEW a, Good(a), NEW box \in Seq(Events), box # << >>, Lands(a, box),
           Answers(Head(box), a), Head(box).res # "ok"
    PROVE  LET b == [a EXCEPT !.open = NoOpen]
           IN  Good(b) /\ Kept(a, b) /\ Lands(b, Tail(box))
<1> DEFINE b == [a EXCEPT !.open = NoOpen]
           t == Tail(box)
<1>1. DOMAIN a = Fields /\ WindowShape(a) /\ RequestShape(a) /\ FleetShape(a) /\ Housed(a)
  BY DEF Good, Loose, Shape
<1>2. DOMAIN b = Fields /\ b.open = NoOpen /\ Same(a, b, {"open"})
  BY <1>1 DEF Fields, Same
<1> HIDE DEF b
<1>3. /\ b.queue = a.queue /\ b.act = a.act /\ b.cur = a.cur /\ b.dedup = a.dedup /\ b.reconcile = a.reconcile
      /\ b.last = a.last /\ b.owed = a.owed /\ b.apply = a.apply /\ b.unsettled = a.unsettled /\ b.req = a.req
      /\ b.stage = a.stage /\ b.screen = a.screen /\ b.owes = a.owes /\ b.plan = a.plan
      /\ b.cache = a.cache /\ b.spawn = a.spawn /\ b.scan = a.scan
      /\ b.moves = a.moves /\ b.purges = a.purges /\ b.probes = a.probes /\ b.work = a.work
      /\ b.late = a.late /\ b.keyQuit = a.keyQuit /\ b.prompt = a.prompt /\ b.quit = a.quit
  BY <1>2 DEF Same, Fields
<1>4. /\ b.fleet = a.fleet /\ b.actor = a.actor /\ b.born = a.born /\ b.ledger = a.ledger /\ b.pending = a.pending
      /\ b.marked = a.marked /\ b.planning = a.planning /\ b.settling = a.settling
      /\ b.groups = a.groups /\ b.covering = a.covering /\ b.gate = a.gate
  BY <1>2 DEF Same, Fields
<1>5. WindowShape(b)
  BY <1>1, <1>3 DEF WindowShape
<1>6. RequestShape(b)
  BY <1>1, <1>2, <1>3, <1>4 DEF RequestShape, NoOpen, ScanOrNone
<1>7. FleetShape(b) /\ Housed(b)
  BY <1>1, <1>3, <1>4 DEF FleetShape, Housed, TerminalOwed
<1>8. Good(b)
  BY <1>2, <1>4, <1>5, <1>6, <1>7 DEF Good, Loose, Shape
<1>9. Kept(a, b)
  BY <1>2, <1>3 DEF Kept, Way, Leaving, ProducersBusy, NoOpen
<1> HIDE DEF t
<1>10. /\ \A i \in DOMAIN a.queue : Runs(i) => \A k \in DOMAIN a.queue[i] : a.queue[i][k].kind # "Open"
       /\ \A m \in DOMAIN t : /\ ~Answers(t[m], a)
                              /\ t[m].kind \in {"Open", "Reconcile"} => t[m].req \in 1..a.req
                              /\ t[m].kind = "Reconcile" /\ t[m].req = a.reconcile /\ t[m].res = "ok" =>
                                    a.last.owed = None \/ a.last.owed \notin stale
       /\ \A m \in DOMAIN box : ~Installs(box[m], a)
  BY AnsweredIs DEF t
<1>11. \A m \in DOMAIN t : ~Answers(t[m], b)
  BY <1>1, <1>2, <1>10 DEF Answers, NoOpen, RequestShape
<1>12. BoxOK(b, t)
  BY <1>3, <1>10, <1>11 DEF BoxOK, Installs
<1>13. OwesOK(b)
  BY <1>3 DEF Lands, OwesOK
<1>14. ASSUME NEW i \in DOMAIN b.queue, Runs(i) PROVE AsksWell(b, t, i)
  BY <1>3, <1>10, <1>14 DEF Lands, AsksWell
<1>15. ASSUME NEW i \in DOMAIN b.queue, Runs(i) PROVE WorksFor(b, t, i)
  BY <1>3, <1>10, <1>11, <1>15 DEF Lands, WorksFor, Installs
<1> QED BY <1>8, <1>9, <1>12, <1>13, <1>14, <1>15 DEF Lands, b, t

\* An open that succeeded: the scan shown is the one the actor installed, under its activation.
LEMMA InstalledKeeps ==
    ASSUME NEW a, Good(a), NEW box \in Seq(Events), box # << >>, Lands(a, box),
           Answers(Head(box), a), Head(box).res = "ok"
    PROVE  LET b == InstallOpened(a, Head(box))
           IN  Good(b) /\ Kept(a, b) /\ Lands(b, Tail(box))
<1> DEFINE e == Head(box)
           t == Tail(box)
           c == CloseClear(InvalidateConfirmation(a))
           screen == IF a.open.show /\ a.screen = "scanning" THEN "browser" ELSE c.screen
           b == [c EXCEPT !.act = e.act, !.cur = e.scan, !.dedup = e.scan, !.gate = Settled, !.refused = {},
                          !.group = e.group, !.open = NoOpen, !.screen = screen]
<1>1. Keeps(a, c, box) /\ Good(c)
  BY InvalidateKeeps, CloseClearKeeps, KeepsOn DEF Keeps
<1>2. c.open = a.open /\ (a.screen = "scanning" => c.screen = a.screen) /\ c.act = a.act
  BY GoodIs DEF CloseClear, InvalidateConfirmation, Fields
<1>3. e \in Events
  BY TailIs
<1>4. InstallOpened(a, e) = b
  BY <1>1, GoodIs DEF InstallOpened, Fields
<1> HIDE DEF c, e, screen
<1>5. DOMAIN c = Fields /\ WindowShape(c) /\ RequestShape(c) /\ FleetShape(c) /\ Housed(c) /\ Lands(c, box)
  BY <1>1 DEF Good, Loose, Shape, Keeps
<1>6. /\ DOMAIN b = Fields /\ b.act = e.act /\ b.cur = e.scan /\ b.dedup = e.scan /\ b.gate = Settled
      /\ b.open = NoOpen /\ b.screen = screen
      /\ Same(c, b, {"act", "cur", "dedup", "gate", "refused", "group", "open", "screen"})
  BY <1>5 DEF Fields, Same
<1> HIDE DEF b
<1>7. /\ b.queue = c.queue /\ b.reconcile = c.reconcile
      /\ b.last = c.last /\ b.owed = c.owed /\ b.apply = c.apply /\ b.unsettled = c.unsettled /\ b.req = c.req
      /\ b.stage = c.stage /\ b.owes = c.owes /\ b.plan = c.plan
      /\ b.cache = c.cache /\ b.spawn = c.spawn /\ b.scan = c.scan
      /\ b.moves = c.moves /\ b.purges = c.purges /\ b.probes = c.probes /\ b.work = c.work
      /\ b.late = c.late /\ b.keyQuit = c.keyQuit /\ b.prompt = c.prompt /\ b.quit = c.quit
  BY <1>6 DEF Same, Fields
<1>8. /\ b.fleet = c.fleet /\ b.actor = c.actor /\ b.born = c.born /\ b.ledger = c.ledger /\ b.pending = c.pending
      /\ b.marked = c.marked /\ b.planning = c.planning /\ b.settling = c.settling
      /\ b.groups = c.groups /\ b.covering = c.covering
  BY <1>6 DEF Same, Fields
<1>9. WindowShape(b)
  <2>1. screen \in {c.screen, "browser"}
    BY DEF screen
  <2>2. e.scan \in ScanOrNone /\ e.act \in Nat
    BY <1>3 DEF Events
  <2> QED BY <1>5, <1>6, <1>7, <2>1, <2>2 DEF WindowShape
<1>10. RequestShape(b)
  BY <1>5, <1>6, <1>7, <1>8 DEF RequestShape, NoOpen, ScanOrNone, Settled
<1>11. FleetShape(b) /\ Housed(b)
  BY <1>5, <1>7, <1>8 DEF FleetShape, Housed, TerminalOwed
<1>12. Good(b)
  BY <1>1, <1>6, <1>8, <1>9, <1>10, <1>11 DEF Good, Loose, Shape
<1>13. Kept(a, b)
  <2>1. ASSUME Way(c) PROVE Way(b)
    <3>1. screen = c.screen \/ (c.open.show /\ c.screen = "scanning")
      BY <1>2 DEF screen
    <3> QED BY <1>6, <1>7, <2>1, <3>1 DEF Way, Leaving, ProducersBusy, NoOpen
  <2>2. Leaving(c) => Leaving(b)
    BY <1>7 DEF Leaving, ProducersBusy
  <2> QED BY <1>1, <1>7, <2>1, <2>2 DEF Keeps, Kept
<1> HIDE DEF t
<1>a. Answers(e, c) /\ e.res = "ok"
  BY <1>2 DEF Answers, e
<1>14. /\ \A i \in DOMAIN c.queue : Runs(i) => \A k \in DOMAIN c.queue[i] : c.queue[i][k].kind # "Open"
       /\ \A m \in DOMAIN t : /\ ~Answers(t[m], c)
                              /\ t[m].kind \in {"Open", "Reconcile"} => t[m].req \in 1..c.req
                              /\ t[m].kind = "Reconcile" /\ t[m].req = c.reconcile /\ t[m].res = "ok" =>
                                    c.last.owed = None \/ c.last.owed \notin stale
  BY <1>1, <1>5, <1>a, AnsweredIs DEF t, e
<1>15. \A m \in DOMAIN t : ~Answers(t[m], b)
  BY <1>5, <1>6, <1>14 DEF Answers, NoOpen, RequestShape
<1>16. Installs(e, c) /\ e.act = c.act + 1 /\ c.act \in Nat
       /\ \A i \in DOMAIN c.queue : Runs(i) /\ Active(i) # Inactive => Active(i).act = e.act /\ Active(i).scan = e.scan
  <2>1. e = box[1] /\ 1 \in DOMAIN box
    BY TailIs DEF e
  <2> QED BY <1>5, <1>a, <2>1 DEF Lands, BoxOK, WorksFor, Installs, WindowShape
<1>17. BoxOK(b, t)
  BY <1>7, <1>14, <1>15 DEF BoxOK, Installs
<1>18. OwesOK(b)
  BY <1>5, <1>6, <1>7 DEF Lands, OwesOK
<1>19. ASSUME NEW i \in DOMAIN b.queue, Runs(i) PROVE AsksWell(b, t, i)
  <2>1. AsksWell(c, box, i) /\ \A k \in DOMAIN c.queue[i] : c.queue[i][k].kind # "Open"
    BY <1>5, <1>7, <1>14, <1>19 DEF Lands
  <2>2. \A k \in DOMAIN c.queue[i] : c.queue[i][k].act \in Nat
    BY <1>1, <1>7, <1>19, QueueIs DEF RequestsTo
  <2>3. \A k \in DOMAIN c.queue[i] : c.queue[i][k].act <= c.act => c.queue[i][k].act <= b.act
    BY <1>6, <1>16, <2>2
  <2> QED BY <1>7, <2>1, <2>3 DEF AsksWell
<1>20. ASSUME NEW i \in DOMAIN b.queue, Runs(i) PROVE WorksFor(b, t, i)
  BY <1>6, <1>7, <1>15, <1>16, <1>20 DEF WorksFor, Installs
<1> QED BY <1>4, <1>12, <1>13, <1>17, <1>18, <1>19, <1>20 DEF Lands, t, e

-----------------------------------------------------------------------------
(* The handlers of what the actor answers                                  *)

\* The scan screen with no scan and no open is settled.
LEMMA ScreenKeeps ==
    ASSUME NEW a, NEW box, Good(a)
    PROVE  Keeps(a, SettleScanScreen(a), box)
<1>1. CASE a.screen # "scanning" \/ a.scan \/ a.open # NoOpen
  BY <1>1, KeepsSelf DEF SettleScanScreen
<1>2. CASE ~(a.screen # "scanning" \/ a.scan \/ a.open # NoOpen)
  <2> DEFINE b == IF a.owes = None THEN a ELSE OpenViaActor(a, a.owes, TRUE)
             c == [b EXCEPT !.owes = None]
  <2>1. SettleScanScreen(a) = IF b.open # NoOpen THEN c ELSE LeaveScanScreen(b)
    BY <1>2 DEF SettleScanScreen
  <2>2. a.owes \in ScanOrNone /\ MayShow(a) /\ DOMAIN a = Fields
    BY <1>2, GoodIs DEF WindowShape, MayShow
  <2>3. Keeps(a, b, box) /\ Good(b) /\ b.screen = a.screen /\ b.scan = a.scan
    <3>1. CASE a.owes = None
      BY <3>1, KeepsSelf
    <3>2. CASE a.owes # None
      <4>1. Keeps(a, OpenViaActor(a, a.owes, TRUE), box) /\ Good(OpenViaActor(a, a.owes, TRUE))
        BY <2>2, OpenKeeps DEF Keeps
      <4>2. Same(a, OpenViaActor(a, a.owes, TRUE), Opens)
        BY <2>2, OpenSame
      <4>3. OpenViaActor(a, a.owes, TRUE).screen = a.screen /\ OpenViaActor(a, a.owes, TRUE).scan = a.scan
        BY <4>2 DEF Same, Opens, Sends, Fields
      <4> QED BY <3>2, <4>1, <4>3
    <3> QED BY <3>1, <3>2
  <2> HIDE DEF b
  <2>4. Keeps(b, c, box)
    <3>1. DOMAIN b = Fields /\ WindowShape(b) /\ RequestShape(b)
      BY <2>3, GoodIs
    <3>2. DOMAIN c = Fields
      BY <3>1 DEF Fields
    <3>3. Fleets(b, c) /\ Shown(b, c)
      BY <3>1 DEF Fleets, Shown, Fields
    <3>4. WindowShape(c)
      BY <3>1, NothingCached DEF WindowShape, ScanOrNone, Fields
    <3>5. RequestShape(c)
      BY <3>1 DEF RequestShape, Fields
    <3>6. Kept(b, c)
      BY <3>1 DEF Kept, Way, Leaving, ProducersBusy, Fields
    <3> QED BY <2>3, <3>2, <3>3, <3>4, <3>5, <3>6, Beside
  <2>5. CASE b.open # NoOpen
    BY <2>1, <2>3, <2>4, <2>5, KeepsOn
  <2>6. CASE b.open = NoOpen
    <3>1. b.screen = "scanning" /\ ~b.scan /\ ~b.open.show
      BY <1>2, <2>3, <2>6 DEF NoOpen
    <3>2. Keeps(b, LeaveScanScreen(b), box)
      BY <2>3, <3>1, LeaveKeeps
    <3> QED BY <2>1, <2>3, <2>6, <3>2, KeepsOn
  <2> QED BY <2>5, <2>6
<1> QED BY <1>1, <1>2

\* A handler took what it was about from the inbox.
Comes(a, b, rest) == Good(b) /\ Kept(a, b) /\ Lands(b, rest)

\* An answer handled, and then a handler that keeps what it left.
LEMMA ComesOn ==
    ASSUME NEW a, NEW b, NEW c, NEW rest, Comes(a, b, rest), Keeps(b, c, rest)
    PROVE  Comes(a, c, rest)
BY DEF Comes, Keeps, Kept

\* An answer that installs nothing, handled by something that keeps everything.
LEMMA ComesWith ==
    ASSUME NEW a, NEW b, NEW box \in Seq(Events), box # << >>, Lands(a, box), ~Answers(Head(box), a),
           Keeps(a, b, Tail(box))
    PROVE  Comes(a, b, Tail(box))
<1>1. Lands(a, Tail(box))
  BY TailLands
<1> QED BY <1>1 DEF Comes, Keeps

\* An open is answered: its scan and its activation are the actor's, or the open is given up.
LEMMA OpenFinishedComes ==
    ASSUME NEW a, Good(a), NEW box \in Seq(Events), box # << >>, Lands(a, box), Head(box).kind = "Open"
    PROVE  Comes(a, OnOpenFinished(a, Head(box)), Tail(box))
<1> DEFINE e == Head(box)
           t == Tail(box)
           f == [a EXCEPT !.open = NoOpen]
           b == CASE e.res = "ok" -> InstallOpened(a, e)
                  [] e.res = "path" -> UninstallBrowsing(f)
                  [] OTHER -> f
<1>1. CASE a.open.req # e.req
  <2>1. ~Answers(e, a)
    BY <1>1 DEF Answers
  <2>2. Keeps(a, a, t)
    BY KeepsSelf
  <2>3. Comes(a, a, t)
    BY <2>1, <2>2, ComesWith
  <2> QED BY <1>1, <2>3 DEF OnOpenFinished
<1>2. CASE a.open.req = e.req
  <2>1. Answers(e, a)
    BY <1>2 DEF Answers
  <2>2. OnOpenFinished(a, e) = SettleScanScreen(b)
    BY <1>2 DEF OnOpenFinished
  <2>3. Comes(a, b, t)
    <3>1. CASE e.res = "ok"
      BY <2>1, <3>1, InstalledKeeps DEF Comes
    <3>2. CASE e.res # "ok"
      <4>1. Comes(a, f, t)
        BY <2>1, <3>2, FailedKeeps DEF Comes
      <4> HIDE DEF f, t
      <4>2. Keeps(f, UninstallBrowsing(f), t)
        BY <4>1, UninstallKeeps DEF Comes
      <4> QED BY <3>2, <4>1, <4>2, ComesOn
    <3> QED BY <3>1, <3>2
  <2> HIDE DEF b
  <2>4. Keeps(b, SettleScanScreen(b), t)
    BY <2>3, ScreenKeeps DEF Comes
  <2> QED BY <2>2, <2>3, <2>4, ComesOn
<1> QED BY <1>1, <1>2

\* The count of marks is asked for again.
LEMMA RefreshKeeps ==
    ASSUME NEW a, NEW box, Good(a)
    PROVE  LET b == RefreshMarkedCount(a)
           IN  /\ Keeps(a, b, box) /\ Good(b)
               /\ b.req \in Nat /\ a.req \in Nat /\ a.req <= b.req
               /\ Same(a, b, Sends \cup {"marked"})
               /\ Sent(a, b) => b.req = a.req + 1
<1>1. CASE a.cur = None
  <2>1. RefreshMarkedCount(a) = a
    BY <1>1 DEF RefreshMarkedCount
  <2>2. a.req \in Nat
    BY GoodIs DEF RequestShape
  <2>3. Same(a, a, Sends \cup {"marked"}) /\ ~Sent(a, a)
    BY <2>2 DEF Same, Sent
  <2> QED BY <2>1, <2>2, <2>3, KeepsSelf
<1>2. CASE a.cur # None
  <2> DEFINE b == SendBrowse(a, "Count", a.cur)
             m == ReqOf(a, b)
             c == [b EXCEPT !.marked = m]
  <2>1. "Count" \in Asks /\ "Count" \in Asks \ {"Open"} /\ "Count" \notin Writes /\ a.cur \in ScanOrNone
    BY GoodIs DEF Asks, Writes, WindowShape
  <2>2. Keeps(a, b, box) /\ Good(b)
    BY <2>1, SendKeeps
  <2>3. /\ DOMAIN b = Fields /\ Same(a, b, Sends) /\ b.req \in Nat /\ a.req \in Nat
        /\ m \in 0..b.req /\ (Sent(a, b) => b.req = a.req + 1 /\ m = b.req)
        /\ a.req <= b.req
    BY <2>1, SendSame
  <2>4. RefreshMarkedCount(a) = c
    BY <1>2 DEF RefreshMarkedCount
  <2> HIDE DEF b, m
  <2>5. Keeps(b, c, box)
    <3>1. DOMAIN b = Fields /\ WindowShape(b) /\ RequestShape(b)
      BY <2>2, GoodIs
    <3>2. DOMAIN c = Fields
      BY <3>1 DEF Fields
    <3>3. Fleets(b, c) /\ Shown(b, c)
      BY <3>1 DEF Fleets, Shown, Fields
    <3>4. WindowShape(c)
      BY <3>1, NothingCached DEF WindowShape, ScanOrNone, Fields
    <3>5. RequestShape(c)
      BY <3>1, <2>3 DEF RequestShape, Fields
    <3>6. Kept(b, c)
      BY <3>1 DEF Kept, Way, Leaving, ProducersBusy, Fields
    <3> QED BY <2>2, <3>2, <3>3, <3>4, <3>5, <3>6, Beside
  <2>6. Keeps(a, c, box) /\ Good(c)
    BY <2>2, <2>5, KeepsOn DEF Keeps
  <2>7. c.req = b.req /\ Same(b, c, {"marked"})
    BY <2>3 DEF Fields, Same
  <2> HIDE DEF c
  <2>8. Same(a, c, Sends \cup {"marked"})
    BY <2>3, <2>7 DEF Same, Sends
  <2>9. Sent(a, c) => c.req = a.req + 1
    BY <2>3, <2>7 DEF Sent
  <2> QED BY <2>3, <2>4, <2>6, <2>7, <2>8, <2>9
<1> QED BY <1>1, <1>2

\* The gate begins to re-read the count and the open group.
LEMMA ReloadKeeps ==
    ASSUME NEW a, NEW box, Good(a)
    PROVE  Keeps(a, StartGateReload(a), box)
<1> DEFINE b == RefreshMarkedCount(a)
           c == IF a.group THEN SendBrowse(b, "Group", a.cur) ELSE b
           d == IF Sent(b, c) THEN [c EXCEPT !.groups = @ \cup {c.req}] ELSE c
           w == {b.req} \cup (IF Sent(b, c) THEN {c.req} ELSE {})
           f == [d EXCEPT !.gate = [st |-> "Reloading", waits |-> w]]
           g == [d EXCEPT !.gate = Blocked, !.unsettled = TRUE]
<1>1. Keeps(a, b, box) /\ Good(b) /\ b.req \in Nat /\ a.cur \in ScanOrNone
  BY RefreshKeeps, GoodIs DEF WindowShape
<1>2. StartGateReload(a) = IF Sent(a, b) THEN f ELSE g
  BY DEF StartGateReload
<1> HIDE DEF b
<1>3. Keeps(b, c, box) /\ Good(c) /\ c.req \in Nat /\ b.req <= c.req
  <2>1. CASE a.group
    <3>1. "Group" \in Asks /\ "Group" \in Asks \ {"Open"} /\ "Group" \notin Writes
      BY DEF Asks, Writes
    <3>2. Keeps(b, SendBrowse(b, "Group", a.cur), box) /\ Good(SendBrowse(b, "Group", a.cur))
      BY <1>1, <3>1, SendKeeps
    <3>3. SendBrowse(b, "Group", a.cur).req \in Nat /\ b.req <= SendBrowse(b, "Group", a.cur).req
      BY <1>1, <3>1, SendSame
    <3> QED BY <2>1, <3>2, <3>3
  <2>2. CASE ~a.group
    BY <1>1, <2>2, KeepsSelf
  <2> QED BY <2>1, <2>2
<1> HIDE DEF c
<1>4. Keeps(c, d, box) /\ Good(d) /\ d.req = c.req
  <2> DEFINE e == [c EXCEPT !.groups = c.groups \cup {c.req}]
  <2>1. Keeps(c, e, box)
    <3>1. DOMAIN c = Fields /\ WindowShape(c) /\ RequestShape(c)
      BY <1>3, GoodIs
    <3>2. DOMAIN e = Fields
      BY <3>1 DEF Fields
    <3>3. Fleets(c, e) /\ Shown(c, e)
      BY <3>1 DEF Fleets, Shown, Fields
    <3>4. WindowShape(e)
      BY <3>1, NothingCached DEF WindowShape, ScanOrNone, Fields
    <3>5. RequestShape(e)
      BY <3>1, <1>3 DEF RequestShape, Fields
    <3>6. Kept(c, e)
      BY <3>1 DEF Kept, Way, Leaving, ProducersBusy, Fields
    <3> QED BY <1>3, <3>2, <3>3, <3>4, <3>5, <3>6, Beside
  <2>2. e.req = c.req
    BY <1>3, GoodIs DEF Fields
  <2>3. d = e \/ d = c
    OBVIOUS
  <2> HIDE DEF e, d
  <2> QED BY <1>3, <2>1, <2>2, <2>3, KeepsSelf DEF Keeps
<1> HIDE DEF d
<1>5. w \subseteq 0..d.req
  BY <1>1, <1>3, <1>4
<1> HIDE DEF w
<1>6. Keeps(d, f, box)
  <2>1. DOMAIN d = Fields /\ WindowShape(d) /\ RequestShape(d)
    BY <1>4, GoodIs
  <2>2. DOMAIN f = Fields
    BY <2>1 DEF Fields
  <2>3. Fleets(d, f) /\ Shown(d, f)
    BY <2>1 DEF Fleets, Shown, Fields
  <2>4. WindowShape(f)
    BY <2>1, NothingCached DEF WindowShape, ScanOrNone, Fields
  <2>5. RequestShape(f)
    BY <2>1, <1>5 DEF RequestShape, Fields
  <2>6. Kept(d, f)
    BY <2>1 DEF Kept, Way, Leaving, ProducersBusy, Fields
  <2> QED BY <1>4, <2>2, <2>3, <2>4, <2>5, <2>6, Beside
<1>7. Keeps(d, g, box)
  <2>1. DOMAIN d = Fields /\ WindowShape(d) /\ RequestShape(d)
    BY <1>4, GoodIs
  <2>2. DOMAIN g = Fields
    BY <2>1 DEF Fields, Blocked
  <2>3. Fleets(d, g) /\ Shown(d, g)
    BY <2>1 DEF Fleets, Shown, Fields, Blocked
  <2>4. WindowShape(g)
    BY <2>1, NothingCached DEF WindowShape, ScanOrNone, Fields, Blocked
  <2>5. RequestShape(g)
    BY <2>1 DEF RequestShape, Fields, Blocked
  <2>6. Kept(d, g)
    BY <2>1 DEF Kept, Way, Leaving, ProducersBusy, Fields, Blocked
  <2> QED BY <1>4, <2>2, <2>3, <2>4, <2>5, <2>6, Beside
<1> HIDE DEF f, g
<1>8. Keeps(a, d, box)
  BY <1>1, <1>3, <1>4, KeepsOn
<1> QED BY <1>2, <1>6, <1>7, <1>8, KeepsOn

\* The count of marks arrives.
LEMMA CountKeeps ==
    ASSUME NEW a, NEW box, Good(a), NEW e
    PROVE  Keeps(a, OnMarkedCount(a, e), box)
<1> DEFINE b == [a EXCEPT !.marked = 0]
<1>0. Good(a) /\ a.req \in Nat
  BY GoodIs DEF RequestShape
<1>1. Keeps(a, b, box)
  <2>1. DOMAIN a = Fields /\ WindowShape(a) /\ RequestShape(a)
    BY <1>0, GoodIs
  <2>2. DOMAIN b = Fields
    BY <2>1 DEF Fields
  <2>3. Fleets(a, b) /\ Shown(a, b)
    BY <2>1 DEF Fleets, Shown, Fields
  <2>4. WindowShape(b)
    BY <2>1, NothingCached DEF WindowShape, ScanOrNone, Fields
  <2>5. RequestShape(b)
    BY <2>1, <1>0 DEF RequestShape, Fields
  <2>6. Kept(a, b)
    BY <2>1 DEF Kept, Way, Leaving, ProducersBusy, Fields
  <2> QED BY <1>0, <2>2, <2>3, <2>4, <2>5, <2>6, Beside
<1>2. Good(b) /\ Keeps(a, a, box)
  BY <1>1, KeepsSelf DEF Keeps
<1> HIDE DEF b
<1>3. Keeps(b, UninstallBrowsing(b), box)
  BY <1>2, UninstallKeeps
<1>4. Keeps(b, SettleGate(b, e.req, e.res = "ok"), box)
  BY <1>2, SettleGateKeeps
<1>5. OnMarkedCount(a, e) \in {a, b, UninstallBrowsing(b), SettleGate(b, e.req, e.res = "ok")}
  BY DEF OnMarkedCount, b
<1> QED BY <1>1, <1>2, <1>3, <1>4, <1>5, KeepsOn

\* The rows of the open group arrive.
LEMMA GroupKeeps ==
    ASSUME NEW a, NEW box, Good(a), NEW e
    PROVE  Keeps(a, OnGroup(a, e), box)
<1> DEFINE b == [a EXCEPT !.groups = a.groups \ {e.req}]
           c == SettleGate(b, e.req, e.res = "ok")
           d == [c EXCEPT !.group = e.res = "ok"]
<1>0. Good(a) /\ a.req \in Nat
  BY GoodIs DEF RequestShape
<1>1. Keeps(a, b, box)
  <2>1. DOMAIN a = Fields /\ WindowShape(a) /\ RequestShape(a)
    BY <1>0, GoodIs
  <2>2. DOMAIN b = Fields
    BY <2>1 DEF Fields
  <2>3. Fleets(a, b) /\ Shown(a, b)
    BY <2>1 DEF Fleets, Shown, Fields
  <2>4. WindowShape(b)
    BY <2>1, NothingCached DEF WindowShape, ScanOrNone, Fields
  <2>5. RequestShape(b)
    BY <2>1, <1>0 DEF RequestShape, Fields
  <2>6. Kept(a, b)
    BY <2>1 DEF Kept, Way, Leaving, ProducersBusy, Fields
  <2> QED BY <1>0, <2>2, <2>3, <2>4, <2>5, <2>6, Beside
<1>2. Good(b) /\ Keeps(a, a, box)
  BY <1>1, KeepsSelf DEF Keeps
<1>5. OnGroup(a, e) \in {a, b, UninstallBrowsing(b), d}
  BY DEF OnGroup
<1> HIDE DEF b
<1>3. Keeps(b, UninstallBrowsing(b), box)
  BY <1>2, UninstallKeeps
<1>4. Keeps(b, c, box) /\ Good(c)
  BY <1>2, SettleGateKeeps DEF Keeps
<1> HIDE DEF c
<1>6. Keeps(c, d, box)
  <2>1. DOMAIN c = Fields /\ WindowShape(c) /\ RequestShape(c)
    BY <1>4, GoodIs
  <2>2. DOMAIN d = Fields
    BY <2>1 DEF Fields
  <2>3. Fleets(c, d) /\ Shown(c, d)
    BY <2>1 DEF Fleets, Shown, Fields
  <2>4. WindowShape(d)
    BY <2>1, NothingCached DEF WindowShape, ScanOrNone, Fields
  <2>5. RequestShape(d)
    BY <2>1 DEF RequestShape, Fields
  <2>6. Kept(c, d)
    BY <2>1 DEF Kept, Way, Leaving, ProducersBusy, Fields
  <2> QED BY <1>4, <2>2, <2>3, <2>4, <2>5, <2>6, Beside
<1> HIDE DEF d
<1> QED BY <1>1, <1>2, <1>3, <1>4, <1>5, <1>6, KeepsOn

\* A write is acknowledged: its ticket is settled and the plan in the confirmation goes stale.
LEMMA MarkAckKeeps ==
    ASSUME NEW a, NEW box, Good(a), NEW e
    PROVE  Keeps(a, OnMarkAck(a, e), box)
<1> DEFINE b == [SettleTicket(a, e.req) EXCEPT !.pending = @ \ {e.req}]
           c == IF e.res = "path" THEN UninstallBrowsing(b) ELSE b
           d == RefreshMarkedCount(c)
<1>1. Keeps(a, b, box) /\ Good(b)
  BY AcknowledgedKeeps DEF Keeps
<1>2. OnMarkAck(a, e) = IF e.act # a.act THEN b ELSE InvalidateConfirmation(d)
  BY DEF OnMarkAck
<1> HIDE DEF b
<1>3. Keeps(b, c, box) /\ Good(c)
  BY <1>1, UninstallKeeps, KeepsSelf DEF Keeps
<1> HIDE DEF c
<1>4. Keeps(c, d, box) /\ Good(d)
  BY <1>3, RefreshKeeps
<1> HIDE DEF d
<1>5. Keeps(d, InvalidateConfirmation(d), box)
  BY <1>4, InvalidateKeeps
<1> QED BY <1>1, <1>2, <1>3, <1>4, <1>5, KeepsOn

\* A plan arrives, and is seated over the panels alone.
LEMMA PlanKeeps ==
    ASSUME NEW a, NEW box, Good(a), NEW e, e.scan \in ScanOrNone, e.res = "ok" => e.scan # None
    PROVE  Keeps(a, OnPlan(a, e), box)
<1> DEFINE b == [a EXCEPT !.planning = 0]
           c == [b EXCEPT !.plan = NoPlan]
<1>0. Good(a) /\ a.req \in Nat
  BY GoodIs DEF RequestShape
<1>1. Keeps(a, b, box)
  <2>1. DOMAIN a = Fields /\ WindowShape(a) /\ RequestShape(a)
    BY <1>0, GoodIs
  <2>2. DOMAIN b = Fields
    BY <2>1 DEF Fields
  <2>3. Fleets(a, b) /\ Shown(a, b)
    BY <2>1 DEF Fleets, Shown, Fields
  <2>4. WindowShape(b)
    BY <2>1, NothingCached DEF WindowShape, ScanOrNone, Fields
  <2>5. RequestShape(b)
    BY <2>1, <1>0 DEF RequestShape, Fields
  <2>6. Kept(a, b)
    BY <2>1 DEF Kept, Way, Leaving, ProducersBusy, Fields
  <2> QED BY <1>0, <2>2, <2>3, <2>4, <2>5, <2>6, Beside
<1>2. Good(b) /\ Keeps(a, a, box) /\ b.screen = a.screen
  BY <1>1, KeepsSelf, GoodIs DEF Keeps, Fields
<1> HIDE DEF b
<1>3. OnPlan(a, e) \in {a, b, c} \/ (a.screen = "panels" /\ e.res = "ok" /\ OnPlan(a, e) = SeatPlan(b, e.scan))
  BY DEF OnPlan, b
<1>4. Keeps(b, c, box)
  <2>1. DOMAIN b = Fields /\ WindowShape(b) /\ RequestShape(b)
    BY <1>2, GoodIs
  <2>2. DOMAIN c = Fields
    BY <2>1 DEF Fields, NoPlan
  <2>3. Fleets(b, c) /\ Shown(b, c)
    BY <2>1 DEF Fleets, Shown, Fields, NoPlan
  <2>4. WindowShape(c)
    BY <2>1, NothingCached DEF WindowShape, ScanOrNone, Fields, NoPlan
  <2>5. RequestShape(c)
    BY <2>1 DEF RequestShape, Fields, NoPlan
  <2>6. Kept(b, c)
    BY <2>1 DEF Kept, Way, Leaving, ProducersBusy, Fields, NoPlan
  <2> QED BY <1>2, <2>2, <2>3, <2>4, <2>5, <2>6, Beside
<1>5. a.screen = "panels" /\ e.res = "ok" => Keeps(b, SeatPlan(b, e.scan), box)
  BY <1>2, SeatKeeps
<1> HIDE DEF c
<1> QED BY <1>1, <1>2, <1>3, <1>4, <1>5, KeepsOn

-----------------------------------------------------------------------------
(* The settlement, and an actor's end                                      *)

\* The settlement is for the scan it is owed to, and that is the one shown.
LEMMA SettlementKeeps ==
    ASSUME NEW a, NEW box, Good(a)
    PROVE  LET b == SendPendingReconcile(a)
           IN  /\ Keeps(a, b, box) /\ Good(b) /\ b.req \in Nat /\ a.req \in Nat
               /\ Same(a, b, Sends \cup {"reconcile"})
<1>1. CASE a.owed = None \/ a.cur # a.owed
  <2>1. SendPendingReconcile(a) = a
    BY <1>1 DEF SendPendingReconcile
  <2> QED BY <2>1, KeepsSelf, GoodIs DEF Same, RequestShape
<1>2. CASE a.owed # None /\ a.cur = a.owed
  <2> DEFINE c == SendBrowse(a, "Reconcile", a.owed)
             m == ReqOf(a, c)
             b == [c EXCEPT !.reconcile = m]
  <2>1. /\ "Reconcile" \in Asks /\ "Reconcile" \in Asks \ {"Open"} /\ a.owed \in ScanOrNone
        /\ a.reconcile \in 0..a.req /\ a.req \in Nat
    BY GoodIs DEF Asks, WindowShape, RequestShape
  <2>2. Keeps(a, c, box) /\ Good(c)
    BY <1>2, <2>1, SendKeeps
  <2>3. /\ DOMAIN c = Fields /\ Same(a, c, Sends) /\ c.req \in Nat
        /\ m \in 0..c.req /\ (Sent(a, c) => c.req = a.req + 1 /\ m = c.req)
    BY <2>1, SendSame
  <2>4. SendPendingReconcile(a) = b
    BY <1>2 DEF SendPendingReconcile
  <2>5. ~Sent(a, c) => m = 0
    BY DEF ReqOf
  <2>6. PICK s : s = Spawn(a)
    OBVIOUS
  <2>7. /\ Keeps(a, s, box) /\ Good(s) /\ TerminalOwed(s) /\ s.req = a.req
        /\ \/ c = s /\ ~Sent(a, c)
           \/ c = Enqueue(s, "Reconcile", a.owed) /\ c.req = a.req + 1 /\ Sent(a, c)
    BY <2>1, <2>6, SendIs
  <2>8. Sent(a, c) => \A i \in DOMAIN s.queue : \A k \in DOMAIN c.queue[i] :
                         \/ k \in DOMAIN s.queue[i] /\ c.queue[i][k] = s.queue[i][k]
                         \/ c.queue[i][k].scan = a.owed
    BY <2>1, <2>7, EnqueueIs
  <2> HIDE DEF c, m
  <2>9. /\ DOMAIN b = Fields /\ b.reconcile = m /\ Same(c, b, {"reconcile"})
    BY <2>3 DEF Fields, Same
  <2> HIDE DEF b
  <2>10. Same(a, b, Sends \cup {"reconcile"})
    BY <2>3, <2>9 DEF Same, Sends
  <2>11. /\ b.queue = c.queue /\ b.act = c.act /\ b.cur = c.cur /\ b.dedup = c.dedup
         /\ b.last = c.last /\ b.owed = c.owed /\ b.apply = c.apply /\ b.unsettled = c.unsettled /\ b.req = c.req
         /\ b.stage = c.stage /\ b.screen = c.screen /\ b.owes = c.owes /\ b.plan = c.plan
         /\ b.cache = c.cache /\ b.spawn = c.spawn /\ b.scan = c.scan
         /\ b.moves = c.moves /\ b.purges = c.purges /\ b.probes = c.probes /\ b.work = c.work
         /\ b.late = c.late /\ b.keyQuit = c.keyQuit /\ b.prompt = c.prompt /\ b.quit = c.quit
    BY <2>9 DEF Same, Fields
  <2>12. /\ b.fleet = c.fleet /\ b.actor = c.actor /\ b.born = c.born /\ b.ledger = c.ledger /\ b.pending = c.pending
         /\ b.marked = c.marked /\ b.planning = c.planning /\ b.settling = c.settling /\ b.open = c.open
         /\ b.groups = c.groups /\ b.covering = c.covering /\ b.gate = c.gate
    BY <2>9 DEF Same, Fields
  <2>13. WindowShape(c) /\ RequestShape(c) /\ FleetShape(c) /\ Housed(c) /\ c.pending \subseteq c.ledger
         /\ (c.fleet = "Idle" => c.ledger = {})
    BY <2>2 DEF Good, Loose, Shape
  <2>14. WindowShape(b)
    BY <2>11, <2>13 DEF WindowShape
  <2>15. RequestShape(b)
    BY <2>3, <2>9, <2>11, <2>12, <2>13 DEF RequestShape
  <2>16. FleetShape(b) /\ Housed(b)
    BY <2>11, <2>12, <2>13 DEF FleetShape, Housed, TerminalOwed
  <2>17. Good(b)
    BY <2>9, <2>12, <2>13, <2>14, <2>15, <2>16 DEF Good, Loose, Shape
  <2>18. Kept(c, b)
    BY <2>11, <2>12 DEF Kept, Way, Leaving, ProducersBusy
  <2>19. ASSUME Lands(a, box) PROVE Lands(b, box)
    <3>1. Lands(c, box) /\ Lands(s, box)
      BY <2>2, <2>7, <2>19 DEF Keeps
    <3>2. \A n \in DOMAIN box : box[n].kind = "Reconcile" => box[n].req # m
      BY <2>1, <2>3, <2>5, <2>19 DEF Lands, BoxOK
    <3>3. BoxOK(b, box)
      BY <2>9, <2>11, <2>12, <3>1, <3>2 DEF Lands, BoxOK, Answers, Installs
    <3>4. OwesOK(b)
      BY <2>11, <3>1 DEF Lands, OwesOK
    <3>5. ASSUME NEW i \in DOMAIN b.queue, Runs(i) PROVE WorksFor(b, box, i)
      BY <2>11, <2>12, <3>1, <3>5 DEF Lands, WorksFor, Answers, Installs
    <3>6. a.last.owed \in {None, a.owed} /\ b.last = a.last
      <4>1. b.last = a.last
        BY <2>10 DEF Same, Sends, Fields
      <4> QED BY <1>2, <2>19, <4>1 DEF Lands, OwesOK
    <3>7. ASSUME NEW i \in DOMAIN b.queue, Runs(i) PROVE AsksWell(b, box, i)
      <4>1. AsksWell(c, box, i) /\ i \in DOMAIN c.queue
        BY <2>11, <3>1, <3>7 DEF Lands
      <4>2. \A k \in DOMAIN c.queue[i] : c.queue[i][k].kind = "Reconcile" /\ c.queue[i][k].req = m =>
                a.last.owed \in {None, c.queue[i][k].scan}
        <5>1. CASE Sent(a, c)
          <6>1. DOMAIN s.queue = DOMAIN c.queue
            <7>1. PICK kind \in Asks : kind = "Reconcile"
              BY <2>1
            <7> QED BY <2>1, <2>7, <5>1, <7>1, EnqueueIs
          <6>2. \A k \in DOMAIN s.queue[i] : s.queue[i][k].req \in 1..s.req
            BY <2>7, <4>1, <6>1, QueueIs DEF RequestsTo
          <6>3. m = a.req + 1
            BY <2>3, <5>1
          <6> QED BY <2>1, <2>7, <2>8, <3>6, <4>1, <5>1, <6>1, <6>2, <6>3
        <5>2. CASE ~Sent(a, c)
          <6>1. \A k \in DOMAIN c.queue[i] : c.queue[i][k].req \in 1..c.req
            BY <2>2, <4>1, QueueIs DEF RequestsTo
          <6> QED BY <2>3, <2>5, <5>2, <6>1
        <5> QED BY <5>1, <5>2
      <4> QED BY <2>9, <2>11, <2>12, <3>6, <4>1, <4>2 DEF AsksWell, Answers
    <3> QED BY <3>3, <3>4, <3>5, <3>7 DEF Lands
  <2>20. Keeps(a, b, box)
    BY <2>2, <2>17, <2>18, <2>19 DEF Keeps, Kept
  <2> QED BY <2>1, <2>3, <2>4, <2>10, <2>11, <2>17, <2>20
<1> QED BY <1>1, <1>2

\* A fleet without an actor: nothing runs.
LEMMA NoneRuns ==
    ASSUME NEW a, Loose(a), a.fleet = "Idle"
    PROVE  \A i \in DOMAIN a.queue : ~Runs(i)
<1>1. DOMAIN a.queue = DOMAIN a.born
  <2>1. a.born \in Seq(Roles) /\ a.queue \in Seq(Seq(RequestsTo(a.req))) /\ Len(a.queue) = Len(a.born)
    BY DEF Loose, Shape, FleetShape
  <2> QED BY <2>1, LenProperties
<1> QED BY <1>1 DEF Loose, Housed, TerminalOwed, Runs

\* The fleet lets go of an actor that has ended or dropped its receiver.
LEMMA FreedIs ==
    ASSUME NEW a, NEW box, Good(a), TerminalOwed(a), a.actor \in DOMAIN thread, thread[a.actor].st # "running",
           NEW s, s = << >> \/ s = a.spawn
    PROVE  LET b == [a EXCEPT !.fleet = "Idle", !.spawn = s]
           IN  /\ Loose(b) /\ Kept(a, b) /\ (Lands(a, box) => Lands(b, box)) /\ b.fleet = "Idle"
               /\ Same(a, b, {"fleet", "spawn"})
<1> DEFINE b == [a EXCEPT !.fleet = "Idle", !.spawn = s]
<1>1. DOMAIN a = Fields /\ WindowShape(a) /\ RequestShape(a) /\ FleetShape(a) /\ Housed(a) /\ a.pending \subseteq a.ledger
  BY DEF Good, Loose, Shape
<1>2. DOMAIN b = Fields /\ b.fleet = "Idle" /\ b.spawn = s /\ Same(a, b, {"fleet", "spawn"})
  BY <1>1 DEF Fields, Same
<1> HIDE DEF b
<1>3. /\ b.stage = a.stage /\ b.screen = a.screen /\ b.owed = a.owed /\ b.cur = a.cur /\ b.dedup = a.dedup
        /\ b.owes = a.owes /\ b.plan = a.plan /\ b.act = a.act /\ b.cache = a.cache
        /\ b.moves = a.moves /\ b.purges = a.purges /\ b.probes = a.probes /\ b.work = a.work /\ b.last = a.last
        /\ b.scan = a.scan /\ b.apply = a.apply /\ b.late = a.late /\ b.keyQuit = a.keyQuit
        /\ b.prompt = a.prompt /\ b.quit = a.quit /\ b.unsettled = a.unsettled /\ b.open = a.open
  BY <1>2 DEF Same, Fields
<1>4. /\ b.req = a.req /\ b.marked = a.marked /\ b.planning = a.planning /\ b.reconcile = a.reconcile
        /\ b.settling = a.settling /\ b.groups = a.groups /\ b.covering = a.covering /\ b.gate = a.gate
        /\ b.pending = a.pending /\ b.ledger = a.ledger
        /\ b.actor = a.actor /\ b.born = a.born /\ b.queue = a.queue
  BY <1>2 DEF Same, Fields
<1>5. WindowShape(b)
  BY ZenonT(40), <1>1, <1>2, <1>3 DEF WindowShape
<1>6. RequestShape(b)
  BY <1>1, <1>3, <1>4 DEF RequestShape
<1>7. FleetShape(b)
  BY <1>1, <1>2, <1>4 DEF FleetShape, TerminalOwed
<1>8. Housed(b)
  BY <1>1, <1>2, <1>4 DEF Housed, TerminalOwed
<1>9. Kept(a, b)
  BY <1>3 DEF Kept, Way, Leaving, ProducersBusy
<1>10. Lands(a, box) => Lands(b, box)
  BY <1>3, <1>4 DEF Lands, AsksWell, WorksFor, BoxOK, OwesOK, Answers, Installs
<1> QED BY <1>1, <1>2, <1>4, <1>5, <1>6, <1>7, <1>8, <1>9, <1>10 DEF Loose, Shape, b

\* An actor is let go of: what it never acknowledged is given up and reported.
LEMMA RetiredKeeps ==
    ASSUME NEW a, NEW box, Loose(a), a.fleet = "Idle"
    PROVE  LET b == SettleRetired(a)
           IN  Keeps(a, b, box) /\ Good(b) /\ b.fleet = "Idle" /\ b.stage = a.stage
<1>1. DOMAIN a = Fields /\ a.pending \subseteq a.ledger
  BY DEF Loose, Shape
<1>2. CASE a.ledger = {}
  <2>1. SettleRetired(a) = a /\ Good(a)
    BY <1>2 DEF SettleRetired, Good
  <2> QED BY <2>1, KeepsSelf
<1>3. CASE a.ledger # {}
  <2> DEFINE p == a.pending \ a.ledger
             l == {}
             b == [a EXCEPT !.pending = p, !.ledger = l]
  <2>1. p \subseteq l
    BY <1>1
  <2>2. b.fleet = "Idle" /\ b.stage = a.stage /\ DOMAIN b = Fields
    BY <1>1 DEF Fields
  <2>3. SettleRetired(a) = RaiseUnsettled(b)
    BY <1>1, <1>3 DEF SettleRetired, RaiseUnsettled, Fields
  <2> HIDE DEF p
  <2>4. Keeps(a, b, box) /\ Good(b)
    <3> HIDE DEF l
    <3>1. l = {}
      BY DEF l
    <3> QED BY <2>1, <3>1, LedgerKeeps DEF Keeps
  <2> HIDE DEF b
  <2>5. Keeps(b, RaiseUnsettled(b), box) /\ Good(RaiseUnsettled(b))
    BY <2>4, RaiseKeeps DEF Keeps
  <2>6. RaiseUnsettled(b).fleet = b.fleet /\ RaiseUnsettled(b).stage = b.stage
    BY <2>2 DEF RaiseUnsettled, Fields
  <2> QED BY <2>2, <2>3, <2>4, <2>5, <2>6, KeepsOn
<1> QED BY <1>2, <1>3

\* The open of an actor that is gone.
LEMMA UnopenedKeeps ==
    ASSUME NEW a, NEW box, Good(a), a.fleet = "Idle"
    PROVE  Keeps(a, [a EXCEPT !.open = NoOpen], box)
<1> DEFINE b == [a EXCEPT !.open = NoOpen]
<1>1. DOMAIN a = Fields /\ WindowShape(a) /\ RequestShape(a) /\ FleetShape(a) /\ Housed(a) /\ a.pending \subseteq a.ledger
      /\ a.ledger = {}
  BY DEF Good, Loose, Shape
<1>2. DOMAIN b = Fields /\ b.open = NoOpen /\ Same(a, b, {"open"})
  BY <1>1 DEF Fields, Same
<1> HIDE DEF b
<1>3. /\ b.stage = a.stage /\ b.screen = a.screen /\ b.owed = a.owed /\ b.cur = a.cur /\ b.dedup = a.dedup
        /\ b.owes = a.owes /\ b.plan = a.plan /\ b.act = a.act /\ b.cache = a.cache
        /\ b.moves = a.moves /\ b.purges = a.purges /\ b.probes = a.probes /\ b.work = a.work /\ b.last = a.last
        /\ b.scan = a.scan /\ b.apply = a.apply /\ b.late = a.late /\ b.keyQuit = a.keyQuit
        /\ b.prompt = a.prompt /\ b.quit = a.quit /\ b.unsettled = a.unsettled /\ b.spawn = a.spawn
  BY <1>2 DEF Same, Fields
<1>4. /\ b.req = a.req /\ b.marked = a.marked /\ b.planning = a.planning /\ b.reconcile = a.reconcile
        /\ b.settling = a.settling /\ b.groups = a.groups /\ b.covering = a.covering /\ b.gate = a.gate
        /\ b.pending = a.pending /\ b.ledger = a.ledger
        /\ b.actor = a.actor /\ b.born = a.born /\ b.queue = a.queue /\ b.fleet = a.fleet
  BY <1>2 DEF Same, Fields
<1>5. WindowShape(b)
  BY <1>1, <1>3 DEF WindowShape
<1>6. RequestShape(b)
  BY <1>1, <1>2, <1>4 DEF RequestShape, NoOpen, ScanOrNone
<1>7. FleetShape(b) /\ Housed(b)
  BY <1>1, <1>4 DEF FleetShape, Housed, TerminalOwed
<1>8. Good(b)
  BY <1>1, <1>2, <1>4, <1>5, <1>6, <1>7 DEF Good, Loose, Shape
<1>9. Kept(a, b)
  BY <1>2, <1>3 DEF Kept, Way, Leaving, ProducersBusy, NoOpen
<1>10. ASSUME Lands(a, box) PROVE Lands(b, box)
  <2>1. \A i \in DOMAIN b.queue : ~Runs(i)
    BY <1>4, NoneRuns DEF Good
  <2>2. \A m \in DOMAIN box : ~Answers(box[m], b)
    BY <1>1, <1>2, <1>10 DEF Lands, BoxOK, Answers, NoOpen, RequestShape
  <2>3. BoxOK(b, box)
    BY <1>3, <1>4, <1>10, <2>2 DEF Lands, BoxOK, Installs
  <2>4. OwesOK(b)
    BY <1>3, <1>10 DEF Lands, OwesOK
  <2> QED BY <2>1, <2>3, <2>4 DEF Lands
<1> QED BY <1>8, <1>9, <1>10 DEF Keeps, b

\* The successor a role asked for is spawned on an idle fleet.
LEMMA SuccessorKeeps ==
    ASSUME NEW a, NEW box, Good(a)
    PROVE  Keeps(a, SpawnSuccessor(a), box)
<1> DEFINE s == [a EXCEPT !.spawn = << >>]
           b == Spawn(s)
<1>0. Good(a)
  OBVIOUS
<1>1. Keeps(a, s, box)
  <2>1. DOMAIN a = Fields /\ WindowShape(a) /\ RequestShape(a)
    BY <1>0, GoodIs
  <2>2. DOMAIN s = Fields
    BY <2>1 DEF Fields
  <2>3. Fleets(a, s) /\ Shown(a, s)
    BY <2>1 DEF Fleets, Shown, Fields
  <2>4. WindowShape(s)
    BY <2>1, NothingCached DEF WindowShape, ScanOrNone, Fields
  <2>5. RequestShape(s)
    BY <2>1 DEF RequestShape, Fields
  <2>6. Kept(a, s)
    BY <2>1 DEF Kept, Way, Leaving, ProducersBusy, Fields
  <2> QED BY <1>0, <2>2, <2>3, <2>4, <2>5, <2>6, Beside
<1>2. SpawnSuccessor(a) \in {s, b} \/ (a.spawn # << >> /\ SpawnSuccessor(a) = OpenViaActor(b, a.spawn[1], FALSE))
  BY DEF SpawnSuccessor
<1> HIDE DEF s
<1>3. Keeps(s, b, box) /\ Good(b)
  BY <1>1, SpawnKeeps DEF Keeps
<1> HIDE DEF b
<1>4. a.spawn # << >> => Keeps(b, OpenViaActor(b, a.spawn[1], FALSE), box)
  <2>1. a.spawn # << >> => a.spawn[1] \in ScanOrNone
    BY GoodIs DEF WindowShape
  <2> QED BY <1>3, <2>1, OpenKeeps
<1> QED BY <1>1, <1>2, <1>3, <1>4, KeepsOn

\* What an actor leaves behind is given up, and a successor may be spawned.
LEMMA RetireKeeps ==
    ASSUME NEW a, NEW box, Loose(a), a.fleet = "Idle", NEW cause
    PROVE  Keeps(a, RetireActor(a, cause), box)
<1> DEFINE b == SettleRetired(a)
           o == [b EXCEPT !.open = NoOpen]
           c == IF b.open = NoOpen THEN b ELSE SettleScanScreen(o)
           d == [c EXCEPT !.unsettled = TRUE, !.gate = Blocked]
           f == [c EXCEPT !.spawn = << >>]
<1>1. Keeps(a, b, box) /\ Good(b) /\ b.fleet = "Idle"
  BY RetiredKeeps
<1>2. RetireActor(a, cause) \in {d, f, SpawnSuccessor(c)}
  BY DEF RetireActor
<1> HIDE DEF b
<1>3. Keeps(b, o, box) /\ Good(o)
  BY <1>1, UnopenedKeeps DEF Keeps
<1> HIDE DEF o
<1>4. Keeps(b, c, box) /\ Good(c)
  <2>1. Keeps(o, SettleScanScreen(o), box) /\ Good(SettleScanScreen(o))
    BY <1>3, ScreenKeeps DEF Keeps
  <2>2. Keeps(b, SettleScanScreen(o), box)
    BY <1>3, <2>1, KeepsOn
  <2> QED BY <1>1, <2>1, <2>2, KeepsSelf
<1> HIDE DEF c
<1>5. Keeps(c, d, box)
  <2>1. DOMAIN c = Fields /\ WindowShape(c) /\ RequestShape(c)
    BY <1>4, GoodIs
  <2>2. DOMAIN d = Fields
    BY <2>1 DEF Fields, Blocked
  <2>3. Fleets(c, d) /\ Shown(c, d)
    BY <2>1 DEF Fleets, Shown, Fields, Blocked
  <2>4. WindowShape(d)
    BY <2>1, NothingCached DEF WindowShape, ScanOrNone, Fields, Blocked
  <2>5. RequestShape(d)
    BY <2>1 DEF RequestShape, Fields, Blocked
  <2>6. Kept(c, d)
    BY <2>1 DEF Kept, Way, Leaving, ProducersBusy, Fields, Blocked
  <2> QED BY <1>4, <2>2, <2>3, <2>4, <2>5, <2>6, Beside
<1>6. Keeps(c, f, box)
  <2>1. DOMAIN c = Fields /\ WindowShape(c) /\ RequestShape(c)
    BY <1>4, GoodIs
  <2>2. DOMAIN f = Fields
    BY <2>1 DEF Fields
  <2>3. Fleets(c, f) /\ Shown(c, f)
    BY <2>1 DEF Fleets, Shown, Fields
  <2>4. WindowShape(f)
    BY <2>1, NothingCached DEF WindowShape, ScanOrNone, Fields
  <2>5. RequestShape(f)
    BY <2>1 DEF RequestShape, Fields
  <2>6. Kept(c, f)
    BY <2>1 DEF Kept, Way, Leaving, ProducersBusy, Fields
  <2> QED BY <1>4, <2>2, <2>3, <2>4, <2>5, <2>6, Beside
<1>7. Keeps(c, SpawnSuccessor(c), box)
  BY <1>4, SuccessorKeeps
<1> HIDE DEF d, f
<1>8. Keeps(a, c, box)
  BY <1>1, <1>4, KeepsOn
<1> QED BY <1>2, <1>5, <1>6, <1>7, <1>8, KeepsOn

\* A fleet that waits for its actor's terminal takes nothing more.
LEMMA DrainingKeeps ==
    ASSUME NEW a, NEW box, Good(a), TerminalOwed(a)
    PROVE  Keeps(a, [a EXCEPT !.fleet = "Draining"], box)
<1> DEFINE b == [a EXCEPT !.fleet = "Draining"]
<1>1. DOMAIN a = Fields /\ WindowShape(a) /\ RequestShape(a) /\ FleetShape(a) /\ Housed(a) /\ a.pending \subseteq a.ledger
  BY DEF Good, Loose, Shape
<1>2. DOMAIN b = Fields /\ b.fleet = "Draining" /\ Same(a, b, {"fleet"})
  BY <1>1 DEF Fields, Same
<1> HIDE DEF b
<1>3. /\ b.stage = a.stage /\ b.screen = a.screen /\ b.owed = a.owed /\ b.cur = a.cur /\ b.dedup = a.dedup
        /\ b.owes = a.owes /\ b.plan = a.plan /\ b.act = a.act /\ b.cache = a.cache
        /\ b.moves = a.moves /\ b.purges = a.purges /\ b.probes = a.probes /\ b.work = a.work /\ b.last = a.last
        /\ b.scan = a.scan /\ b.apply = a.apply /\ b.late = a.late /\ b.keyQuit = a.keyQuit
        /\ b.prompt = a.prompt /\ b.quit = a.quit /\ b.unsettled = a.unsettled /\ b.spawn = a.spawn /\ b.open = a.open
  BY <1>2 DEF Same, Fields
<1>4. /\ b.req = a.req /\ b.marked = a.marked /\ b.planning = a.planning /\ b.reconcile = a.reconcile
        /\ b.settling = a.settling /\ b.groups = a.groups /\ b.covering = a.covering /\ b.gate = a.gate
        /\ b.pending = a.pending /\ b.ledger = a.ledger
        /\ b.actor = a.actor /\ b.born = a.born /\ b.queue = a.queue
  BY <1>2 DEF Same, Fields
<1>5. WindowShape(b)
  BY <1>1, <1>3 DEF WindowShape
<1>6. RequestShape(b)
  BY <1>1, <1>3, <1>4 DEF RequestShape
<1>7. FleetShape(b) /\ Housed(b)
  BY <1>1, <1>2, <1>4 DEF FleetShape, Housed, TerminalOwed
<1>8. Good(b)
  BY <1>1, <1>2, <1>4, <1>5, <1>6, <1>7 DEF Good, Loose, Shape
<1>9. Kept(a, b)
  BY <1>3 DEF Kept, Way, Leaving, ProducersBusy
<1>10. Lands(a, box) => Lands(b, box)
  BY <1>3, <1>4 DEF Lands, AsksWell, WorksFor, BoxOK, OwesOK, Answers, Installs
<1> QED BY <1>8, <1>9, <1>10 DEF Keeps, b

\* The fleet's actor is told to end, or let go of when its receiver is gone.
LEMMA BeginCloseKeeps ==
    ASSUME NEW a, NEW box, Good(a)
    PROVE  Keeps(a, BeginClose(a), box)
<1>1. CASE a.fleet # "Live"
  BY <1>1, KeepsSelf DEF BeginClose
<1>2. CASE a.fleet = "Live" /\ Receives(a)
  <2> DEFINE b == Enqueue(a, "Shutdown", None)
  <2>1. TerminalOwed(a) /\ None \in ScanOrNone /\ "Shutdown" \in Asks /\ "Shutdown" \notin Writes
    BY <1>2 DEF TerminalOwed, ScanOrNone, Asks, Writes
  <2>2. Keeps(a, b, box) /\ Good(b)
    BY <2>1, EnqueueKeeps DEF Keeps
  <2>3. Same(a, b, {"req", "queue"})
    BY <2>1, EnqueueIs
  <2>4. BeginClose(a) = [b EXCEPT !.fleet = "Draining"]
    BY <1>2 DEF BeginClose
  <2> HIDE DEF b
  <2>5. TerminalOwed(b)
    BY <2>1, <2>3 DEF Same, Fields, TerminalOwed
  <2> QED BY <2>2, <2>4, <2>5, DrainingKeeps, KeepsOn
<1>3. CASE a.fleet = "Live" /\ ~Receives(a)
  <2> DEFINE b == [a EXCEPT !.fleet = "Idle", !.spawn = << >>]
  <2>1. TerminalOwed(a) /\ a.actor \in DOMAIN thread /\ thread[a.actor].st # "running"
    BY <1>3 DEF TerminalOwed, Receives
  <2>2. Loose(b) /\ Kept(a, b) /\ (Lands(a, box) => Lands(b, box)) /\ b.fleet = "Idle"
    BY <2>1, FreedIs
  <2>3. BeginClose(a) = RetireActor(b, "Requested")
    BY <1>3 DEF BeginClose
  <2> HIDE DEF b
  <2>4. Keeps(b, RetireActor(b, "Requested"), box)
    BY <2>2, RetireKeeps
  <2> QED BY <2>2, <2>3, <2>4 DEF Keeps, Kept
<1> QED BY <1>1, <1>2, <1>3

-----------------------------------------------------------------------------
(* The staged exit                                                         *)

\* The exit waits for what is under way, then for the settlement.
LEMMA ProducersKeeps ==
    ASSUME NEW a, NEW box, Good(a)
    PROVE  Keeps(a, Producers(a), box)
<1>1. CASE a.stage # "Producers" \/ ProducersBusy(a)
  BY <1>1, KeepsSelf DEF Producers
<1>2. CASE a.stage = "Producers" /\ ~ProducersBusy(a)
  <2> DEFINE b == SendPendingReconcile(a)
             c == [a EXCEPT !.stage = "Draining"]
             r == RaiseUnsettled(a)
             d == [r EXCEPT !.owed = None, !.stage = "Done"]
             f == [b EXCEPT !.stage = "Settling", !.settling = b.req]
             s == RaiseUnsettled(b)
             g == [s EXCEPT !.owed = None, !.stage = "Draining"]
  <2>1. Producers(a) \in {d, f, g} \/ (a.owed = None /\ Producers(a) = c)
    BY <1>2 DEF Producers
  <2>2. Good(a) /\ a.stage = "Producers" /\ ~ProducersBusy(a)
    BY <1>2
  <2>3. Keeps(a, r, box) /\ Good(r) /\ r.stage = "Producers" /\ ~ProducersBusy(r)
    <3>1. Keeps(a, r, box) /\ Good(r)
      BY RaiseKeeps DEF Keeps
    <3>2. r.stage = a.stage /\ r.scan = a.scan /\ r.apply = a.apply /\ r.moves = a.moves /\ r.purges = a.purges
      BY <2>2, GoodIs DEF RaiseUnsettled, Fields
    <3> QED BY <2>2, <3>1, <3>2 DEF ProducersBusy
  <2>4. Keeps(a, b, box) /\ Good(b) /\ b.stage = "Producers" /\ ~ProducersBusy(b) /\ b.req \in Nat
    <3>1. Keeps(a, b, box) /\ Good(b) /\ Same(a, b, Sends \cup {"reconcile"}) /\ b.req \in Nat
      BY SettlementKeeps
    <3> HIDE DEF b
    <3>2. b.stage = a.stage /\ b.scan = a.scan /\ b.apply = a.apply /\ b.moves = a.moves /\ b.purges = a.purges
      BY <3>1 DEF Same, Sends, Fields
    <3> QED BY <2>2, <3>1, <3>2 DEF ProducersBusy
  <2> HIDE DEF b
  <2>5. Keeps(b, s, box) /\ Good(s) /\ s.stage = "Producers" /\ ~ProducersBusy(s)
    <3>1. Keeps(b, s, box) /\ Good(s)
      BY <2>4, RaiseKeeps DEF Keeps
    <3>2. s.stage = b.stage /\ s.scan = b.scan /\ s.apply = b.apply /\ s.moves = b.moves /\ s.purges = b.purges
      BY <2>4, GoodIs DEF RaiseUnsettled, Fields
    <3> QED BY <2>4, <3>1, <3>2 DEF ProducersBusy
  <2> HIDE DEF r, s
  <2>6. a.owed = None => Keeps(a, c, box)
    <3> SUFFICES ASSUME a.owed = None PROVE Keeps(a, c, box)
      OBVIOUS
    <3>1. Keeps(a, c, box)
      <4>1. DOMAIN a = Fields /\ WindowShape(a) /\ RequestShape(a)
        BY <2>2, GoodIs
      <4>2. DOMAIN c = Fields
        BY <4>1 DEF Fields
      <4>3. Fleets(a, c) /\ Shown(a, c)
        BY <4>1 DEF Fleets, Shown, Fields
      <4>4. WindowShape(c)
        BY <4>1, NothingCached DEF WindowShape, ScanOrNone, Fields
      <4>5. RequestShape(c)
        BY <4>1 DEF RequestShape, Fields
      <4>6. Kept(a, c)
        BY <4>1, <2>2 DEF Kept, Way, Leaving, ProducersBusy, Fields
      <4> QED BY <2>2, <4>2, <4>3, <4>4, <4>5, <4>6, Beside
    <3> QED BY <3>1
  <2>7. Keeps(r, d, box)
    <3>1. DOMAIN r = Fields /\ WindowShape(r) /\ RequestShape(r)
      BY <2>3, GoodIs
    <3>2. DOMAIN d = Fields
      BY <3>1 DEF Fields
    <3>3. Fleets(r, d) /\ Shown(r, d)
      BY <3>1 DEF Fleets, Shown, Fields
    <3>4. WindowShape(d)
      BY <3>1, NothingCached DEF WindowShape, ScanOrNone, Fields
    <3>5. RequestShape(d)
      BY <3>1 DEF RequestShape, Fields
    <3>6. Kept(r, d)
      BY <3>1, <2>3 DEF Kept, Way, Leaving, ProducersBusy, Fields
    <3> QED BY <2>3, <3>2, <3>3, <3>4, <3>5, <3>6, Beside
  <2>8. Keeps(b, f, box)
    <3>1. DOMAIN b = Fields /\ WindowShape(b) /\ RequestShape(b)
      BY <2>4, GoodIs
    <3>2. DOMAIN f = Fields
      BY <3>1 DEF Fields
    <3>3. Fleets(b, f) /\ Shown(b, f)
      BY <3>1 DEF Fleets, Shown, Fields
    <3>4. WindowShape(f)
      BY <3>1, NothingCached DEF WindowShape, ScanOrNone, Fields
    <3>5. RequestShape(f)
      BY <3>1, <2>4 DEF RequestShape, Fields
    <3>6. Kept(b, f)
      BY <3>1, <2>4 DEF Kept, Way, Leaving, ProducersBusy, Fields
    <3> QED BY <2>4, <3>2, <3>3, <3>4, <3>5, <3>6, Beside
  <2>9. Keeps(s, g, box)
    <3>1. DOMAIN s = Fields /\ WindowShape(s) /\ RequestShape(s)
      BY <2>5, GoodIs
    <3>2. DOMAIN g = Fields
      BY <3>1 DEF Fields
    <3>3. Fleets(s, g) /\ Shown(s, g)
      BY <3>1 DEF Fleets, Shown, Fields
    <3>4. WindowShape(g)
      BY <3>1, NothingCached DEF WindowShape, ScanOrNone, Fields
    <3>5. RequestShape(g)
      BY <3>1 DEF RequestShape, Fields
    <3>6. Kept(s, g)
      BY <3>1, <2>5 DEF Kept, Way, Leaving, ProducersBusy, Fields
    <3> QED BY <2>5, <3>2, <3>3, <3>4, <3>5, <3>6, Beside
  <2> HIDE DEF c, d, f, g
  <2> QED BY <2>1, <2>3, <2>4, <2>5, <2>6, <2>7, <2>8, <2>9, KeepsOn
<1> QED BY <1>1, <1>2

\* The settlement whose actor is gone is given up and reported.
LEMMA SettlingKeeps ==
    ASSUME NEW a, NEW box, Good(a)
    PROVE  Keeps(a, Settling(a), box)
<1>1. CASE a.stage = "Settling" /\ ~TerminalOwed(a)
  <2> DEFINE r == RaiseUnsettled(a)
             d == [r EXCEPT !.owed = None, !.reconcile = 0, !.stage = "Done"]
  <2>1. Settling(a) = d
    BY <1>1 DEF Settling
  <2>2. Keeps(a, r, box) /\ Good(r) /\ r.stage = "Settling" /\ r.req \in Nat
    <3>1. Keeps(a, r, box) /\ Good(r)
      BY RaiseKeeps DEF Keeps
    <3>2. r.stage = a.stage
      BY GoodIs DEF RaiseUnsettled, Fields
    <3> QED BY <1>1, <3>1, <3>2, GoodIs DEF RequestShape
  <2> HIDE DEF r
  <2>3. Keeps(r, d, box)
    <3>1. DOMAIN r = Fields /\ WindowShape(r) /\ RequestShape(r)
      BY <2>2, GoodIs
    <3>2. DOMAIN d = Fields
      BY <3>1 DEF Fields
    <3>3. Fleets(r, d) /\ Shown(r, d)
      BY <3>1 DEF Fleets, Shown, Fields
    <3>4. WindowShape(d)
      BY <3>1, NothingCached DEF WindowShape, ScanOrNone, Fields
    <3>5. RequestShape(d)
      BY <3>1, <2>2 DEF RequestShape, Fields
    <3>6. Kept(r, d)
      BY <3>1, <2>2 DEF Kept, Way, Leaving, ProducersBusy, Fields
    <3> QED BY <2>2, <3>2, <3>3, <3>4, <3>5, <3>6, Beside
  <2> QED BY <2>1, <2>2, <2>3, KeepsOn
<1>2. CASE ~(a.stage = "Settling" /\ ~TerminalOwed(a))
  BY <1>2, KeepsSelf DEF Settling
<1> QED BY <1>1, <1>2

\* The exit ends the actor, and is done when its terminal has arrived.
LEMMA DrainKeeps ==
    ASSUME NEW a, NEW box, Good(a)
    PROVE  Keeps(a, Draining(a), box)
<1>1. CASE a.stage = "Draining" /\ ~TerminalOwed(a)
  <2> DEFINE d == [a EXCEPT !.stage = "Done"]
  <2>1. Draining(a) = d
    BY <1>1 DEF Draining
  <2>2. Good(a) /\ a.stage = "Draining"
    BY <1>1
  <2>3. Keeps(a, d, box)
    <3>1. DOMAIN a = Fields /\ WindowShape(a) /\ RequestShape(a)
      BY <2>2, GoodIs
    <3>2. DOMAIN d = Fields
      BY <3>1 DEF Fields
    <3>3. Fleets(a, d) /\ Shown(a, d)
      BY <3>1 DEF Fleets, Shown, Fields
    <3>4. WindowShape(d)
      BY <3>1, NothingCached DEF WindowShape, ScanOrNone, Fields
    <3>5. RequestShape(d)
      BY <3>1 DEF RequestShape, Fields
    <3>6. Kept(a, d)
      BY <3>1, <2>2 DEF Kept, Way, Leaving, ProducersBusy, Fields
    <3> QED BY <2>2, <3>2, <3>3, <3>4, <3>5, <3>6, Beside
  <2> QED BY <2>1, <2>3
<1>2. CASE ~(a.stage = "Draining" /\ ~TerminalOwed(a))
  BY <1>2, KeepsSelf, BeginCloseKeeps DEF Draining
<1> QED BY <1>1, <1>2

\* The stages of the exit, one after the other.
LEMMA AdvanceKeeps ==
    ASSUME NEW a, NEW box, Good(a)
    PROVE  Keeps(a, AdvanceShutdown(a), box)
<1> DEFINE b == Producers(a)
           c == Settling(b)
           d == Draining(c)
           f == Draining(d)
<1>1. Keeps(a, b, box) /\ Good(b)
  BY ProducersKeeps DEF Keeps
<1>2. AdvanceShutdown(a) = Done(f)
  BY DEF AdvanceShutdown
<1> HIDE DEF b
<1>3. Keeps(b, c, box) /\ Good(c)
  BY <1>1, SettlingKeeps DEF Keeps
<1> HIDE DEF c
<1>4. Keeps(c, d, box) /\ Good(d)
  BY <1>3, DrainKeeps DEF Keeps
<1> HIDE DEF d
<1>5. Keeps(d, f, box) /\ Good(f)
  BY <1>4, DrainKeeps DEF Keeps
<1> HIDE DEF f
<1>6. Keeps(f, Done(f), box)
  BY <1>5, DoneKeeps
<1>7. Keeps(a, c, box)
  BY <1>1, <1>3, KeepsOn
<1>8. Keeps(a, d, box)
  BY <1>4, <1>7, KeepsOn
<1>9. Keeps(a, f, box)
  BY <1>5, <1>8, KeepsOn
<1> QED BY <1>2, <1>6, <1>9, KeepsOn

\* A request to end that waits for what is under way.
LEMMA ShutdownKeeps ==
    ASSUME NEW a, NEW box, Good(a)
    PROVE  Keeps(a, RequestShutdown(a, FALSE), box) /\ RequestShutdown(a, FALSE).stage # "None"
<1> DEFINE stop == a.stop \cup (IF a.scan THEN {"scan"} ELSE {}) \cup (IF a.apply THEN {"apply"} ELSE {})
           b == [a EXCEPT !.stop = stop]
           c == [b EXCEPT !.spawn = << >>, !.stage = "Producers"]
           d == IF b.stage = "None" THEN c ELSE b
<1>0. Good(a)
  OBVIOUS
<1>1. RequestShutdown(a, FALSE) = AdvanceShutdown(d)
  BY DEF RequestShutdown
<1> HIDE DEF stop
<1>2. Keeps(a, b, box)
  <2>1. DOMAIN a = Fields /\ WindowShape(a) /\ RequestShape(a)
    BY <1>0, GoodIs
  <2>2. DOMAIN b = Fields
    BY <2>1 DEF Fields
  <2>3. Fleets(a, b) /\ Shown(a, b)
    BY <2>1 DEF Fleets, Shown, Fields
  <2>4. WindowShape(b)
    BY <2>1, NothingCached DEF WindowShape, ScanOrNone, Fields
  <2>5. RequestShape(b)
    BY <2>1 DEF RequestShape, Fields
  <2>6. Kept(a, b)
    BY <2>1 DEF Kept, Way, Leaving, ProducersBusy, Fields
  <2> QED BY <1>0, <2>2, <2>3, <2>4, <2>5, <2>6, Beside
<1>3. Good(b)
  BY <1>2 DEF Keeps
<1> HIDE DEF b
<1>4. b.stage = "None" => Keeps(b, c, box)
  <2> SUFFICES ASSUME b.stage = "None" PROVE Keeps(b, c, box)
    OBVIOUS
  <2>1. Keeps(b, c, box)
    <3>1. DOMAIN b = Fields /\ WindowShape(b) /\ RequestShape(b)
      BY <1>3, GoodIs
    <3>2. DOMAIN c = Fields
      BY <3>1 DEF Fields
    <3>3. Fleets(b, c) /\ Shown(b, c)
      BY <3>1 DEF Fleets, Shown, Fields
    <3>4. WindowShape(c)
      BY <3>1, NothingCached DEF WindowShape, ScanOrNone, Fields
    <3>5. RequestShape(c)
      BY <3>1 DEF RequestShape, Fields
    <3>6. Kept(b, c)
      BY <3>1 DEF Kept, Way, Leaving, ProducersBusy, Fields
    <3> QED BY <1>3, <3>2, <3>3, <3>4, <3>5, <3>6, Beside
  <2> QED BY <2>1
<1> HIDE DEF c
<1>5. Keeps(b, d, box) /\ Good(d) /\ d.stage # "None"
  <2>1. c.stage = "Producers"
    BY <1>3, GoodIs DEF c, Fields
  <2> QED BY <1>3, <1>4, <2>1, KeepsSelf DEF Keeps
<1> HIDE DEF d
<1>6. Keeps(d, AdvanceShutdown(d), box)
  BY <1>5, AdvanceKeeps
<1>7. Keeps(a, d, box)
  BY <1>2, <1>5, KeepsOn
<1>8. AdvanceShutdown(d).stage # "None"
  BY <1>5, <1>6 DEF Keeps, Kept
<1> QED BY <1>1, <1>6, <1>7, <1>8, KeepsOn

\* A second signal waits for nothing.
LEMMA ForcedKeeps ==
    ASSUME NEW a, NEW box, Good(a), ~(signals.count <= 1)
    PROVE  Keeps(a, RequestShutdown(a, TRUE), box)
<1> DEFINE stop == a.stop \cup (IF a.scan THEN {"scan"} ELSE {}) \cup (IF a.apply THEN {"apply"} ELSE {})
           b == [a EXCEPT !.stop = stop, !.spawn = << >>, !.stage = "Done", !.quit = TRUE]
<1>0. Good(a) /\ ~(signals.count <= 1)
  OBVIOUS
<1>1. DOMAIN a = Fields
  BY GoodIs
<1>2. RequestShutdown(a, TRUE) = b
  BY <1>1 DEF RequestShutdown, Fields
<1> HIDE DEF stop
<1>3. Keeps(a, b, box)
  <2>1. DOMAIN a = Fields /\ WindowShape(a) /\ RequestShape(a)
    BY <1>0, GoodIs
  <2>2. DOMAIN b = Fields
    BY <2>1 DEF Fields
  <2>3. Fleets(a, b) /\ Shown(a, b)
    BY <2>1 DEF Fleets, Shown, Fields
  <2>4. WindowShape(b)
    BY <2>1, NothingCached DEF WindowShape, ScanOrNone, Fields
  <2>5. RequestShape(b)
    BY <2>1 DEF RequestShape, Fields
  <2>6. Kept(a, b)
    BY <2>1, <1>0 DEF Kept, Way, Leaving, ProducersBusy, Fields
  <2> QED BY <1>0, <2>2, <2>3, <2>4, <2>5, <2>6, Beside
<1> QED BY <1>2, <1>3

\* A completion handler asks for the end again.
LEMMA AskAgainKeeps ==
    ASSUME NEW a, NEW box, Good(a)
    PROVE  Keeps(a, AskAgain(a), box)
BY ShutdownKeeps, KeepsSelf DEF AskAgain

\* The terminal of an actor that has ended.
LEMMA ClosedKeeps ==
    ASSUME NEW a, NEW box, Good(a), NEW e, e.req \in DOMAIN thread => thread[e.req].st # "running",
           e.req \in DOMAIN thread
    PROVE  Keeps(a, OnActorClosed(a, e), box)
<1>1. CASE TerminalOwed(a) /\ a.actor = e.req
  <2> DEFINE s == IF e.res = "Panicked" THEN << >> ELSE a.spawn
             b == [a EXCEPT !.fleet = "Idle", !.spawn = s]
             c == RetireActor(b, e.res)
  <2>1. OnActorClosed(a, e) = AdvanceShutdown(c)
    BY <1>1 DEF OnActorClosed
  <2>2. s = << >> \/ s = a.spawn
    OBVIOUS
  <2> HIDE DEF s
  <2>3. Loose(b) /\ Kept(a, b) /\ (Lands(a, box) => Lands(b, box)) /\ b.fleet = "Idle"
    BY <1>1, <2>2, FreedIs
  <2> HIDE DEF b
  <2>4. Keeps(b, c, box) /\ Good(c)
    BY <2>3, RetireKeeps DEF Keeps
  <2> HIDE DEF c
  <2>5. Keeps(a, c, box)
    BY <2>3, <2>4 DEF Keeps, Kept
  <2>6. Keeps(c, AdvanceShutdown(c), box)
    BY <2>4, AdvanceKeeps
  <2> QED BY <2>1, <2>5, <2>6, KeepsOn
<1>2. CASE ~(TerminalOwed(a) /\ a.actor = e.req)
  <2>1. OnActorClosed(a, e) = AdvanceShutdown(a)
    BY <1>2 DEF OnActorClosed
  <2> QED BY <2>1, AdvanceKeeps
<1> QED BY <1>1, <1>2

-----------------------------------------------------------------------------
(* Answers and outcomes that settle a batch                                *)

\* The warning about unsettled marks goes.
LEMMA SettledKeeps ==
    ASSUME NEW a, NEW box, Good(a), a.last.owed = None \/ a.last.owed \notin stale
    PROVE  Keeps(a, [a EXCEPT !.unsettled = FALSE], box)
<1> DEFINE b == [a EXCEPT !.unsettled = FALSE]
<1>0. Good(a)
  OBVIOUS
<1>1a. DOMAIN a = Fields /\ WindowShape(a) /\ RequestShape(a) /\ FleetShape(a) /\ Housed(a)
       /\ a.pending \subseteq a.ledger /\ (a.fleet = "Idle" => a.ledger = {})
  BY <1>0 DEF Good, Loose, Shape
<1>1b. DOMAIN b = Fields /\ b.unsettled = FALSE /\ Same(a, b, {"unsettled"})
  BY <1>1a DEF Fields, Same
<1> HIDE DEF b
<1>1c. /\ b.stage = a.stage /\ b.screen = a.screen /\ b.owed = a.owed /\ b.cur = a.cur /\ b.dedup = a.dedup /\ b.owes = a.owes
        /\ b.plan = a.plan /\ b.act = a.act /\ b.cache = a.cache /\ b.moves = a.moves /\ b.purges = a.purges /\ b.probes = a.probes
        /\ b.work = a.work /\ b.last = a.last /\ b.scan = a.scan /\ b.apply = a.apply /\ b.late = a.late /\ b.keyQuit = a.keyQuit
        /\ b.prompt = a.prompt /\ b.quit = a.quit /\ b.spawn = a.spawn /\ b.open = a.open
  BY <1>1b DEF Same, Fields
<1>1d. /\ b.req = a.req /\ b.marked = a.marked /\ b.planning = a.planning /\ b.reconcile = a.reconcile /\ b.settling = a.settling /\ b.groups = a.groups
        /\ b.covering = a.covering /\ b.gate = a.gate /\ b.pending = a.pending /\ b.ledger = a.ledger /\ b.fleet = a.fleet /\ b.actor = a.actor
        /\ b.born = a.born /\ b.queue = a.queue
  BY <1>1b DEF Same, Fields
<1>1e. WindowShape(b)
  BY <1>1a, <1>1b, <1>1c DEF WindowShape
<1>1f. RequestShape(b)
  BY <1>1a, <1>1b, <1>1c, <1>1d DEF RequestShape
<1>1g. FleetShape(b) /\ Housed(b)
  BY <1>1a, <1>1b, <1>1d DEF FleetShape, Housed, TerminalOwed
<1>1h. Good(b)
  BY <1>1a, <1>1b, <1>1d, <1>1e, <1>1f, <1>1g DEF Good, Loose, Shape
<1>1i. Kept(a, b)
  BY <1>1b, <1>1c DEF Kept, Way, Leaving, ProducersBusy
<1>2. Lands(a, box) => Lands(b, box)
  BY <1>1b, <1>1c, <1>1d DEF Lands, AsksWell, WorksFor, BoxOK, OwesOK, Answers, Installs
<1> QED BY <1>1h, <1>1i, <1>2 DEF Keeps, b

\* The settlement is answered: the warning goes only if the marks were written.
LEMMA ReconcileComes ==
    ASSUME NEW a, Good(a), NEW box \in Seq(Events), box # << >>, Lands(a, box), Head(box).kind = "Reconcile"
    PROVE  Comes(a, OnReconcileAck(a, Head(box)), Tail(box))
<1> DEFINE e == Head(box)
           t == Tail(box)
           b == [a EXCEPT !.reconcile = 0, !.owed = None]
           c == [b EXCEPT !.unsettled = FALSE]
           r == RaiseUnsettled(b)
           u == UninstallBrowsing(r)
           v == InvalidateConfirmation(c)
           d == IF e.res = "ok"
                THEN IF e.act = a.act /\ a.stage = "None" THEN StartGateReload(v) ELSE c
                ELSE IF e.res = "path" THEN u ELSE r
           f == [d EXCEPT !.stage = "Draining"]
<1>0. Good(a) /\ a.req \in Nat /\ ~Answers(e, a)
  BY GoodIs DEF RequestShape, Answers
<1> SUFFICES Keeps(a, OnReconcileAck(a, e), t)
  BY <1>0, ComesWith
<1>1. CASE a.reconcile # e.req
  BY <1>1, KeepsSelf DEF OnReconcileAck
<1>2. CASE a.reconcile = e.req
  <2>1. Keeps(a, b, t)
    <3>1. DOMAIN a = Fields /\ WindowShape(a) /\ RequestShape(a)
      BY <1>0, GoodIs
    <3>2. DOMAIN b = Fields
      BY <3>1 DEF Fields
    <3>3. Fleets(a, b) /\ Shown(a, b)
      BY <3>1 DEF Fleets, Shown, Fields
    <3>4. WindowShape(b)
      BY <3>1, NothingCached DEF WindowShape, ScanOrNone, Fields
    <3>5. RequestShape(b)
      BY <3>1, <1>0 DEF RequestShape, Fields
    <3>6. Kept(a, b)
      BY <3>1 DEF Kept, Way, Leaving, ProducersBusy, Fields
    <3> QED BY <1>0, <3>2, <3>3, <3>4, <3>5, <3>6, Beside
  <2>2. Good(b) /\ b.last = a.last /\ b.stage = a.stage /\ b.owed = None /\ DOMAIN b = Fields
    BY <2>1, GoodIs DEF Keeps, Fields
  <2>3. OnReconcileAck(a, e) = IF a.stage = "Settling" /\ a.settling = e.req THEN AdvanceShutdown(f) ELSE d
    BY <1>2 DEF OnReconcileAck
  <2> HIDE DEF b
  <2>4. e.res = "ok" => Keeps(b, c, t) /\ Good(c) /\ c.stage = a.stage /\ c.owed = None
    <3> SUFFICES ASSUME e.res = "ok" PROVE Keeps(b, c, t) /\ Good(c) /\ c.stage = a.stage /\ c.owed = None
      OBVIOUS
    <3>1. e = box[1] /\ 1 \in DOMAIN box
      BY TailIs
    <3> HIDE DEF e
    <3>2. b.last.owed = None \/ b.last.owed \notin stale
      BY <1>2, <2>2, <3>1 DEF Lands, BoxOK, e
    <3>3. Keeps(b, c, t)
      BY <2>2, <3>2, SettledKeeps
    <3>4. c.stage = a.stage /\ c.owed = None
      BY <2>2 DEF Fields
    <3> QED BY <3>3, <3>4 DEF Keeps
  <2>5. Keeps(b, r, t) /\ Good(r) /\ r.stage = a.stage /\ r.owed = None /\ DOMAIN r = Fields
    <3>1. Keeps(b, r, t) /\ Good(r)
      BY <2>2, RaiseKeeps DEF Keeps
    <3> QED BY <2>2, <3>1, GoodIs DEF RaiseUnsettled, Fields
  <2> HIDE DEF r, c
  <2>6. Keeps(b, u, t) /\ Good(u) /\ u.stage = a.stage /\ u.owed = None
    <3>1. Keeps(r, u, t) /\ Good(u)
      BY <2>5, UninstallKeeps DEF Keeps
    <3>2. u.stage = a.stage /\ u.owed = None
      BY <2>5 DEF UninstallBrowsing, CloseClear, InvalidateConfirmation, Fields
    <3> QED BY <2>5, <3>1, <3>2, KeepsOn
  <2>7. e.res = "ok" => Keeps(b, StartGateReload(v), t)
    <3> SUFFICES ASSUME e.res = "ok" PROVE Keeps(b, StartGateReload(v), t)
      OBVIOUS
    <3>1. Keeps(c, v, t) /\ Good(v) /\ Keeps(b, c, t)
      BY <2>4, InvalidateKeeps DEF Keeps
    <3>2. Keeps(v, StartGateReload(v), t)
      BY <3>1, ReloadKeeps
    <3>3. Keeps(b, v, t)
      BY <3>1, KeepsOn
    <3> QED BY <3>2, <3>3, KeepsOn
  <2> HIDE DEF u, v
  <2>8. Keeps(b, d, t) /\ Good(d) /\ (a.stage = "Settling" => d.stage = "Settling" /\ d.owed = None)
    BY <2>4, <2>5, <2>6, <2>7 DEF Keeps
  <2>9. Keeps(a, d, t)
    BY <2>1, <2>8, KeepsOn
  <2> HIDE DEF d
  <2>10. a.stage = "Settling" => Keeps(d, f, t)
    <3> SUFFICES ASSUME a.stage = "Settling" PROVE Keeps(d, f, t)
      OBVIOUS
    <3>0. Good(d) /\ d.stage = "Settling" /\ d.owed = None
      BY <2>8
    <3>1. Keeps(d, f, t)
      <4>1. DOMAIN d = Fields /\ WindowShape(d) /\ RequestShape(d)
        BY <3>0, GoodIs
      <4>2. DOMAIN f = Fields
        BY <4>1 DEF Fields
      <4>3. Fleets(d, f) /\ Shown(d, f)
        BY <4>1 DEF Fleets, Shown, Fields
      <4>4. WindowShape(f)
        BY <4>1, NothingCached DEF WindowShape, ScanOrNone, Fields
      <4>5. RequestShape(f)
        BY <4>1 DEF RequestShape, Fields
      <4>6. Kept(d, f)
        BY <4>1, <3>0 DEF Kept, Way, Leaving, ProducersBusy, Fields
      <4> QED BY <3>0, <4>2, <4>3, <4>4, <4>5, <4>6, Beside
    <3> QED BY <3>1
  <2> HIDE DEF f
  <2>11. a.stage = "Settling" => Keeps(a, AdvanceShutdown(f), t)
    <3> SUFFICES ASSUME a.stage = "Settling" PROVE Keeps(a, AdvanceShutdown(f), t)
      OBVIOUS
    <3>1. Keeps(f, AdvanceShutdown(f), t)
      BY <2>10, AdvanceKeeps DEF Keeps
    <3>2. Keeps(a, f, t)
      BY <2>9, <2>10, KeepsOn
    <3> QED BY <3>1, <3>2, KeepsOn
  <2> QED BY <2>3, <2>9, <2>11
<1> QED BY <1>1, <1>2

\* The id remembered for a settlement before is not looked at when the next is sent.
LEMMA SettlementAnew ==
    ASSUME NEW a, Good(a), a.owed # None, a.cur = a.owed
    PROVE  /\ SendPendingReconcile([a EXCEPT !.reconcile = 0]) = SendPendingReconcile(a)
           /\ [a EXCEPT !.reconcile = 0].req = a.req
<1> DEFINE z == [a EXCEPT !.reconcile = 0]
           s == Spawn(a)
           y == Spawn(z)
           b == Enqueue(s, "Reconcile", a.owed)
           x == Enqueue(y, "Reconcile", a.owed)
           c == SendBrowse(a, "Reconcile", a.owed)
           w == SendBrowse(z, "Reconcile", a.owed)
<1>1. DOMAIN a = Fields
  BY GoodIs
<1>2. z.fleet = a.fleet /\ z.owed = a.owed /\ z.cur = a.cur /\ z.req = a.req /\ z.born = a.born /\ z.readOnly = a.readOnly
      /\ z.queue = a.queue /\ DOMAIN z = Fields
  BY <1>1 DEF Fields
<1>3. y = [s EXCEPT !.reconcile = 0] /\ DOMAIN s = Fields
  <2>1. CASE a.fleet # "Idle"
    BY <1>1, <1>2, <2>1 DEF Spawn
  <2>2. CASE a.fleet = "Idle"
    <3> DEFINE n == Len(a.born) + 1
               q == Append(a.queue, << >>)
               p == Append(a.born, IF a.readOnly THEN "Observer" ELSE "Operator")
    <3>1. s = [a EXCEPT !.fleet = "Live", !.actor = n, !.ledger = {}, !.queue = q, !.born = p]
      BY <1>1, <2>2 DEF Spawn, Fields
    <3>2. y = [z EXCEPT !.fleet = "Live", !.actor = n, !.ledger = {}, !.queue = q, !.born = p]
      BY <1>2, <2>2 DEF Spawn, Fields
    <3> HIDE DEF n, q, p, s, y
    <3> QED BY <1>1, <3>1, <3>2 DEF Fields
  <2> QED BY <2>1, <2>2
<1> HIDE DEF s, y
<1>4. y.req = s.req /\ y.queue = s.queue /\ y.actor = s.actor /\ y.act = s.act /\ y.fleet = s.fleet /\ DOMAIN y = Fields
  BY <1>3 DEF Fields
<1>5. Receives(y) <=> Receives(s)
  BY <1>4 DEF Receives
<1>6. x = [b EXCEPT !.reconcile = 0] /\ DOMAIN b = Fields
  <2> DEFINE q == [s.queue EXCEPT ![s.actor] = Append(@, Request(s, "Reconcile", a.owed))]
             r == s.req + 1
  <2>1. Request(y, "Reconcile", a.owed) = Request(s, "Reconcile", a.owed)
    BY <1>4 DEF Request
  <2>2. b = [s EXCEPT !.req = r, !.queue = q]
    BY <1>3 DEF Enqueue, Fields
  <2>3. x = [y EXCEPT !.req = r, !.queue = q]
    BY <1>4, <2>1 DEF Enqueue, Fields
  <2> HIDE DEF q, r, b, x
  <2> QED BY <1>3, <2>2, <2>3 DEF Fields
<1>7. c = IF Receives(s) THEN b ELSE s
  BY DEF SendBrowse, s
<1>8. w = IF Receives(y) THEN x ELSE y
  BY DEF SendBrowse, y
<1> HIDE DEF b, x, c, w
<1>9. w = [c EXCEPT !.reconcile = 0] /\ DOMAIN c = Fields
  BY <1>3, <1>5, <1>6, <1>7, <1>8
<1>10. w.req = c.req
  BY <1>9 DEF Fields
<1>11. ReqOf(z, w) = ReqOf(a, c)
  BY <1>2, <1>10 DEF ReqOf, Sent
<1>12. SendPendingReconcile(a) = [c EXCEPT !.reconcile = ReqOf(a, c)]
  BY DEF SendPendingReconcile, c
<1>13. SendPendingReconcile(z) = [w EXCEPT !.reconcile = ReqOf(a, c)]
  BY <1>2, <1>11 DEF SendPendingReconcile, w
<1> DEFINE m == ReqOf(a, c)
<1> HIDE DEF m
<1>14. [w EXCEPT !.reconcile = m] = [c EXCEPT !.reconcile = m]
  BY <1>9 DEF Fields
<1> QED BY <1>2, <1>12, <1>13, <1>14 DEF m

\* What a batch that ran owes: settled or said, for the scan the commander shows.
LEMMA OweKeeps ==
    ASSUME NEW a, NEW box, Good(a), ~a.apply, a.dedup \in {None, a.cur},
           signals.count <= 1 /\ ~a.late => a.stage \in {"None", "Producers"}
    PROVE  Keeps(a, Owe(a), box)
<1>0. Good(a)
  OBVIOUS
<1>1. CASE a.dedup = None
  <2> DEFINE l == [a.last EXCEPT !.owed = None]
             b == [a EXCEPT !.unsettled = FALSE, !.last = l]
  <2>0. l \in [scan : ScanOrNone, owed : ScanOrNone] /\ l.owed = None
    BY GoodIs DEF WindowShape, ScanOrNone
  <2>1. Owe(a) = b
    BY <1>1, GoodIs DEF Owe, Fields
  <2> HIDE DEF l
  <2>2a. DOMAIN a = Fields /\ WindowShape(a) /\ RequestShape(a) /\ FleetShape(a) /\ Housed(a)
         /\ a.pending \subseteq a.ledger /\ (a.fleet = "Idle" => a.ledger = {})
    BY <1>0 DEF Good, Loose, Shape
  <2>2b. DOMAIN b = Fields /\ b.unsettled = FALSE /\ b.last = l /\ Same(a, b, {"unsettled", "last"})
    BY <2>2a DEF Fields, Same
  <2> HIDE DEF b
  <2>2c. /\ b.stage = a.stage /\ b.screen = a.screen /\ b.owed = a.owed /\ b.cur = a.cur /\ b.dedup = a.dedup /\ b.owes = a.owes
          /\ b.plan = a.plan /\ b.act = a.act /\ b.cache = a.cache /\ b.moves = a.moves /\ b.purges = a.purges /\ b.probes = a.probes
          /\ b.work = a.work /\ b.scan = a.scan /\ b.apply = a.apply /\ b.late = a.late /\ b.keyQuit = a.keyQuit /\ b.prompt = a.prompt
          /\ b.quit = a.quit /\ b.spawn = a.spawn /\ b.open = a.open
    BY <2>2b DEF Same, Fields
  <2>2d. /\ b.req = a.req /\ b.marked = a.marked /\ b.planning = a.planning /\ b.reconcile = a.reconcile /\ b.settling = a.settling /\ b.groups = a.groups
          /\ b.covering = a.covering /\ b.gate = a.gate /\ b.pending = a.pending /\ b.ledger = a.ledger /\ b.fleet = a.fleet /\ b.actor = a.actor
          /\ b.born = a.born /\ b.queue = a.queue
    BY <2>2b DEF Same, Fields
  <2>2e. WindowShape(b)
    BY <2>2a, <2>2b, <2>2c, <2>0 DEF WindowShape
  <2>2f. RequestShape(b)
    BY <2>2a, <2>2b, <2>2c, <2>2d, <2>0 DEF RequestShape
  <2>2g. FleetShape(b) /\ Housed(b)
    BY <2>2a, <2>2b, <2>2d DEF FleetShape, Housed, TerminalOwed
  <2>2h. Good(b)
    BY <2>2a, <2>2b, <2>2d, <2>2e, <2>2f, <2>2g DEF Good, Loose, Shape
  <2>2i. Kept(a, b)
    BY <2>2b, <2>2c, <2>0 DEF Kept, Way, Leaving, ProducersBusy
  <2>3. Lands(a, box) => Lands(b, box)
    BY <2>0, <2>2b, <2>2c, <2>2d DEF Lands, AsksWell, WorksFor, BoxOK, OwesOK, Answers, Installs
  <2> QED BY <2>1, <2>2h, <2>2i, <2>3 DEF Keeps
<1>2. CASE a.dedup # None
  <2> DEFINE l == [a.last EXCEPT !.owed = a.dedup]
             s == a.dedup
             p == [a EXCEPT !.owed = s, !.unsettled = TRUE, !.last = l]
             b == [a EXCEPT !.owed = s, !.unsettled = TRUE, !.last = l, !.reconcile = 0]
             c == SendPendingReconcile(p)
  <2>0. l \in [scan : ScanOrNone, owed : ScanOrNone] /\ l.owed = s /\ s \in ScanOrNone /\ s = a.cur /\ s # None
        /\ a.req \in Nat
    BY <1>2, GoodIs DEF WindowShape, RequestShape
  <2>1. Owe(a) = IF Sent(p, c) THEN c ELSE RaiseUnsettled(c)
    BY <1>2, GoodIs DEF Owe, Fields
  <2> HIDE DEF l, s
  <2>3a. DOMAIN a = Fields /\ WindowShape(a) /\ RequestShape(a) /\ FleetShape(a) /\ Housed(a)
         /\ a.pending \subseteq a.ledger /\ (a.fleet = "Idle" => a.ledger = {})
    BY <1>0 DEF Good, Loose, Shape
  <2>3b. DOMAIN b = Fields /\ b.owed = s /\ b.unsettled = TRUE /\ b.last = l /\ b.reconcile = 0 /\ Same(a, b, {"owed", "unsettled", "last", "reconcile"})
    BY <2>3a DEF Fields, Same
  <2> HIDE DEF b
  <2>3c. /\ b.stage = a.stage /\ b.screen = a.screen /\ b.cur = a.cur /\ b.dedup = a.dedup /\ b.owes = a.owes /\ b.plan = a.plan
          /\ b.act = a.act /\ b.cache = a.cache /\ b.moves = a.moves /\ b.purges = a.purges /\ b.probes = a.probes /\ b.work = a.work
          /\ b.scan = a.scan /\ b.apply = a.apply /\ b.late = a.late /\ b.keyQuit = a.keyQuit /\ b.prompt = a.prompt /\ b.quit = a.quit
          /\ b.spawn = a.spawn /\ b.open = a.open
    BY <2>3b DEF Same, Fields
  <2>3d. /\ b.req = a.req /\ b.marked = a.marked /\ b.planning = a.planning /\ b.settling = a.settling /\ b.groups = a.groups /\ b.covering = a.covering
          /\ b.gate = a.gate /\ b.pending = a.pending /\ b.ledger = a.ledger /\ b.fleet = a.fleet /\ b.actor = a.actor /\ b.born = a.born
          /\ b.queue = a.queue
    BY <2>3b DEF Same, Fields
  <2>3e. WindowShape(b)
    BY <2>3a, <2>3b, <2>3c, <2>0 DEF WindowShape
  <2>3f. RequestShape(b)
    BY <2>3a, <2>3b, <2>3c, <2>3d, <2>0 DEF RequestShape
  <2>3g. FleetShape(b) /\ Housed(b)
    BY <2>3a, <2>3b, <2>3d DEF FleetShape, Housed, TerminalOwed
  <2>3h. Good(b)
    BY <2>3a, <2>3b, <2>3d, <2>3e, <2>3f, <2>3g DEF Good, Loose, Shape
  <2>3i. Kept(a, b)
    BY <2>3b, <2>3c, <2>0 DEF Kept, Way, Leaving, ProducersBusy
  <2>4. Lands(a, box) => Lands(b, box)
    <3> SUFFICES ASSUME Lands(a, box) PROVE Lands(b, box)
      OBVIOUS
    <3>1. BoxOK(b, box)
      BY <2>0, <2>3b, <2>3c, <2>3d DEF Lands, BoxOK, Answers, Installs
    <3>2. OwesOK(b)
      BY <2>0, <2>3b, <2>3c DEF Lands, OwesOK
    <3>3. ASSUME NEW i \in DOMAIN b.queue, Runs(i) PROVE WorksFor(b, box, i)
      BY <2>3b, <2>3c, <2>3d, <3>3 DEF Lands, WorksFor, Answers, Installs
    <3>4. ASSUME NEW i \in DOMAIN b.queue, Runs(i) PROVE AsksWell(b, box, i)
      <4>1. \A k \in DOMAIN b.queue[i] : b.queue[i][k].req \in 1..b.req
        BY <2>3h, QueueIs DEF RequestsTo
      <4>2. AsksWell(a, box, i) /\ i \in DOMAIN a.queue
        BY <2>3d, <3>4 DEF Lands
      <4>3. \A k \in DOMAIN b.queue[i] : b.queue[i][k].req # 0
        BY <2>0, <2>3d, <4>1
      <4> QED BY <2>3b, <2>3c, <2>3d, <4>2, <4>3 DEF AsksWell, Answers
    <3> QED BY <3>1, <3>2, <3>3, <3>4 DEF Lands
  <2>5. Keeps(a, b, box)
    BY <2>3h, <2>3i, <2>4 DEF Keeps
  <2>6. c = SendPendingReconcile(b)
    <3>1. Good(p) /\ p.owed = s /\ p.cur = s
      <4>1. DOMAIN p = Fields /\ p.reconcile = a.reconcile /\ Same(a, p, {"owed", "unsettled", "last"}) /\ p.owed = s /\ p.last = l
        BY <2>3a DEF Fields, Same
      <4> HIDE DEF p
      <4>2. /\ p.stage = a.stage /\ p.screen = a.screen /\ p.cur = a.cur /\ p.dedup = a.dedup /\ p.owes = a.owes /\ p.plan = a.plan
            /\ p.act = a.act /\ p.cache = a.cache /\ p.moves = a.moves /\ p.purges = a.purges /\ p.probes = a.probes /\ p.work = a.work
            /\ p.scan = a.scan /\ p.apply = a.apply /\ p.late = a.late /\ p.keyQuit = a.keyQuit /\ p.prompt = a.prompt /\ p.quit = a.quit
            /\ p.spawn = a.spawn /\ p.open = a.open
        BY <4>1 DEF Same, Fields
      <4>3. /\ p.req = a.req /\ p.marked = a.marked /\ p.planning = a.planning /\ p.reconcile = a.reconcile /\ p.settling = a.settling /\ p.groups = a.groups
            /\ p.covering = a.covering /\ p.gate = a.gate /\ p.pending = a.pending /\ p.ledger = a.ledger /\ p.fleet = a.fleet /\ p.actor = a.actor
            /\ p.born = a.born /\ p.queue = a.queue
        BY <4>1 DEF Same, Fields
      <4>4. WindowShape(p)
        BY <2>0, <2>3a, <4>1, <4>2 DEF WindowShape
      <4>5. RequestShape(p)
        BY <2>3a, <4>2, <4>3 DEF RequestShape
      <4>6. FleetShape(p) /\ Housed(p)
        BY <2>3a, <4>3 DEF FleetShape, Housed, TerminalOwed
      <4>7. Good(p)
        BY <2>3a, <4>1, <4>3, <4>4, <4>5, <4>6 DEF Good, Loose, Shape
      <4> QED BY <2>0, <4>1, <4>2, <4>7
    <3>2. b = [p EXCEPT !.reconcile = 0]
      BY <2>3a DEF b, Fields
    <3> HIDE DEF p
    <3> QED BY <2>0, <3>1, <3>2, SettlementAnew
  <2>7. Keeps(b, SendPendingReconcile(b), box) /\ Good(SendPendingReconcile(b))
    BY <2>3h, SettlementKeeps
  <2> HIDE DEF c
  <2>8. Keeps(a, c, box) /\ Good(c)
    BY <2>5, <2>6, <2>7, KeepsOn
  <2>9. Keeps(c, RaiseUnsettled(c), box)
    BY <2>8, RaiseKeeps
  <2>10. Keeps(a, RaiseUnsettled(c), box)
    BY <2>8, <2>9, KeepsOn
  <2> QED BY <2>1, <2>8, <2>10
<1> QED BY <1>1, <1>2

-----------------------------------------------------------------------------
(* What the workers report                                                 *)

\* A handler whose event ends the work of app; rest is what the inbox holds then.
Stays(a, b) ==
    /\ b.work = a.work /\ b.moves = a.moves /\ b.purges = a.purges /\ b.probes = a.probes
    /\ b.late = a.late /\ b.keyQuit = a.keyQuit /\ b.prompt = a.prompt

Batches == {"Refused", "Unrunnable", "Aborted", "Finished", "Failed"}

\* The batch is over.
LEMMA AppliedIs ==
    ASSUME NEW a, NEW t, Good(a), a.apply, Way(a), Lands(a, t)
    PROVE  LET b == [a EXCEPT !.apply = FALSE]
           IN  /\ Good(b) /\ Way(b) /\ Lands(b, t) /\ Stays(a, b) /\ ~b.scan /\ ~b.apply /\ ~b.open.show /\ b.scan = a.scan
               /\ b.last.owed = None /\ b.dedup \in {None, b.cur} /\ DOMAIN b = Fields
               /\ signals.count <= 1 /\ ~b.late => b.stage \in {"None", "Producers"}
<1> DEFINE b == [a EXCEPT !.apply = FALSE]
<1>0. Good(a)
  OBVIOUS
<1>1a. DOMAIN a = Fields /\ WindowShape(a) /\ RequestShape(a) /\ FleetShape(a) /\ Housed(a)
       /\ a.pending \subseteq a.ledger /\ (a.fleet = "Idle" => a.ledger = {})
  BY <1>0 DEF Good, Loose, Shape
<1>1b. DOMAIN b = Fields /\ b.apply = FALSE /\ Same(a, b, {"apply"})
  BY <1>1a DEF Fields, Same
<1> HIDE DEF b
<1>1c. /\ b.stage = a.stage /\ b.screen = a.screen /\ b.owed = a.owed /\ b.cur = a.cur /\ b.dedup = a.dedup /\ b.owes = a.owes
        /\ b.plan = a.plan /\ b.act = a.act /\ b.cache = a.cache /\ b.moves = a.moves /\ b.purges = a.purges /\ b.probes = a.probes
        /\ b.work = a.work /\ b.last = a.last /\ b.scan = a.scan /\ b.late = a.late /\ b.keyQuit = a.keyQuit /\ b.prompt = a.prompt
        /\ b.quit = a.quit /\ b.unsettled = a.unsettled /\ b.spawn = a.spawn /\ b.open = a.open
  BY <1>1b DEF Same, Fields
<1>1d. /\ b.req = a.req /\ b.marked = a.marked /\ b.planning = a.planning /\ b.reconcile = a.reconcile /\ b.settling = a.settling /\ b.groups = a.groups
        /\ b.covering = a.covering /\ b.gate = a.gate /\ b.pending = a.pending /\ b.ledger = a.ledger /\ b.fleet = a.fleet /\ b.actor = a.actor
        /\ b.born = a.born /\ b.queue = a.queue
  BY <1>1b DEF Same, Fields
<1>1e. WindowShape(b)
  BY <1>1a, <1>1b, <1>1c DEF WindowShape
<1>1f. RequestShape(b)
  BY <1>1a, <1>1b, <1>1c, <1>1d DEF RequestShape
<1>1g. FleetShape(b) /\ Housed(b)
  BY <1>1a, <1>1b, <1>1d DEF FleetShape, Housed, TerminalOwed
<1>1h. Good(b)
  BY <1>1a, <1>1b, <1>1d, <1>1e, <1>1f, <1>1g DEF Good, Loose, Shape
<1>2. Way(b)
  BY <1>1a, <1>1b, <1>1c DEF Way, Leaving, ProducersBusy
<1>3. Lands(b, t)
  BY <1>1b, <1>1c, <1>1d DEF Lands, AsksWell, WorksFor, BoxOK, OwesOK, Answers, Installs
<1>4. /\ Stays(a, b) /\ ~b.scan /\ ~b.apply /\ ~b.open.show /\ b.scan = a.scan
      /\ b.last.owed = None /\ b.dedup \in {None, b.cur}
      /\ signals.count <= 1 /\ ~b.late => b.stage \in {"None", "Producers"}
  BY <1>1a, <1>1b, <1>1c, <1>3 DEF Stays, Way, Leaving, ProducersBusy, Lands, OwesOK
<1> QED BY <1>1b, <1>1h, <1>2, <1>3, <1>4 DEF b

\* A batch reports: its settlement is owed to the scan shown, or the warning stays.
LEMMA ApplyComes ==
    ASSUME NEW a, NEW t, Good(a), a.apply, Way(a), Lands(a, t),
           NEW e, e.res \in Batches, e.scan \in ScanOrNone, e.scan # None
    PROVE  LET b == OnApplyFinished(a, e)
           IN  Good(b) /\ Way(b) /\ Lands(b, t) /\ Stays(a, b) /\ ~b.apply /\ b.scan = a.scan
<1> DEFINE b == [a EXCEPT !.apply = FALSE]
           u == [b EXCEPT !.unsettled = FALSE]
           refused == SeatPlan(u, e.scan)
           unrunnable == [u EXCEPT !.screen = "panels", !.plan = NoPlan]
           aborted == [u EXCEPT !.screen = "summary"]
           finished == [b EXCEPT !.screen = "summary"]
           failed == [b EXCEPT !.screen = "panels"]
           c == CASE e.res = "Refused" -> refused
                  [] e.res = "Unrunnable" -> unrunnable
                  [] e.res = "Aborted" -> RefreshMarkedCount(aborted)
                  [] e.res = "Finished" -> Owe(finished)
                  [] e.res = "Failed" -> failed
<1>1. /\ Good(b) /\ Way(b) /\ Lands(b, t) /\ Stays(a, b) /\ ~b.scan /\ ~b.apply /\ ~b.open.show /\ b.scan = a.scan
      /\ b.last.owed = None /\ b.dedup \in {None, b.cur} /\ DOMAIN b = Fields
      /\ signals.count <= 1 /\ ~b.late => b.stage \in {"None", "Producers"}
  BY AppliedIs
<1>2. OnApplyFinished(a, e) = IF ShutdownPending THEN RequestShutdown(c, FALSE) ELSE AdvanceShutdown(c)
  <2>1. DOMAIN a = Fields
    BY GoodIs
  <2>2. [[a EXCEPT !.apply = FALSE] EXCEPT !.unsettled = FALSE, !.screen = "panels", !.plan = NoPlan] = unrunnable
    BY <2>1 DEF Fields
  <2>3. [[a EXCEPT !.apply = FALSE] EXCEPT !.unsettled = FALSE, !.screen = "summary"] = aborted
    BY <2>1 DEF Fields
  <2> QED BY <2>2, <2>3 DEF OnApplyFinished
<1> HIDE DEF b
<1>3. Keeps(b, u, t) /\ Good(u) /\ ~u.scan /\ ~u.apply /\ ~u.open.show
  <2>1. Keeps(b, u, t)
    BY <1>1, SettledKeeps
  <2>2. ~u.scan /\ ~u.apply /\ ~u.open.show
    BY <1>1 DEF Fields
  <2> QED BY <2>1, <2>2 DEF Keeps
<1> HIDE DEF u
<1>4. Keeps(u, refused, t)
  <2> DEFINE x == [u EXCEPT !.plan = [scan |-> e.scan, valid |-> TRUE], !.screen = "confirm"]
  <2>1. Keeps(u, x, t)
    <3>1. DOMAIN u = Fields /\ WindowShape(u) /\ RequestShape(u)
      BY <1>3, GoodIs
    <3>2. DOMAIN x = Fields
      BY <3>1 DEF Fields
    <3>3. Fleets(u, x) /\ Shown(u, x)
      BY <3>1 DEF Fleets, Shown, Fields
    <3>4. WindowShape(x)
      BY <3>1, NothingCached DEF WindowShape, ScanOrNone, Fields
    <3>5. RequestShape(x)
      BY <3>1 DEF RequestShape, Fields
    <3>6. Kept(u, x)
      BY <3>1, <1>3 DEF Kept, Way, Leaving, ProducersBusy, Fields
    <3> QED BY <1>3, <3>2, <3>3, <3>4, <3>5, <3>6, Beside
  <2> QED BY <2>1 DEF SeatPlan
<1>5. Keeps(u, unrunnable, t)
  <2>1. DOMAIN u = Fields /\ WindowShape(u) /\ RequestShape(u)
    BY <1>3, GoodIs
  <2>2. DOMAIN unrunnable = Fields
    BY <2>1 DEF Fields, NoPlan
  <2>3. Fleets(u, unrunnable) /\ Shown(u, unrunnable)
    BY <2>1 DEF Fleets, Shown, Fields, NoPlan
  <2>4. WindowShape(unrunnable)
    BY <2>1, NothingCached DEF WindowShape, ScanOrNone, Fields, NoPlan
  <2>5. RequestShape(unrunnable)
    BY <2>1 DEF RequestShape, Fields, NoPlan
  <2>6. Kept(u, unrunnable)
    BY <2>1, <1>3 DEF Kept, Way, Leaving, ProducersBusy, Fields, NoPlan
  <2> QED BY <1>3, <2>2, <2>3, <2>4, <2>5, <2>6, Beside
<1>6. Keeps(u, aborted, t)
  <2>1. DOMAIN u = Fields /\ WindowShape(u) /\ RequestShape(u)
    BY <1>3, GoodIs
  <2>2. DOMAIN aborted = Fields
    BY <2>1 DEF Fields
  <2>3. Fleets(u, aborted) /\ Shown(u, aborted)
    BY <2>1 DEF Fleets, Shown, Fields
  <2>4. WindowShape(aborted)
    BY <2>1, NothingCached DEF WindowShape, ScanOrNone, Fields
  <2>5. RequestShape(aborted)
    BY <2>1 DEF RequestShape, Fields
  <2>6. Kept(u, aborted)
    BY <2>1, <1>3 DEF Kept, Way, Leaving, ProducersBusy, Fields
  <2> QED BY <1>3, <2>2, <2>3, <2>4, <2>5, <2>6, Beside
<1>7. Keeps(b, finished, t)
  <2>1. DOMAIN b = Fields /\ WindowShape(b) /\ RequestShape(b)
    BY <1>1, GoodIs
  <2>2. DOMAIN finished = Fields
    BY <2>1 DEF Fields
  <2>3. Fleets(b, finished) /\ Shown(b, finished)
    BY <2>1 DEF Fleets, Shown, Fields
  <2>4. WindowShape(finished)
    BY <2>1, NothingCached DEF WindowShape, ScanOrNone, Fields
  <2>5. RequestShape(finished)
    BY <2>1 DEF RequestShape, Fields
  <2>6. Kept(b, finished)
    BY <2>1, <1>1 DEF Kept, Way, Leaving, ProducersBusy, Fields
  <2> QED BY <1>1, <2>2, <2>3, <2>4, <2>5, <2>6, Beside
<1>8. Keeps(b, failed, t)
  <2>1. DOMAIN b = Fields /\ WindowShape(b) /\ RequestShape(b)
    BY <1>1, GoodIs
  <2>2. DOMAIN failed = Fields
    BY <2>1 DEF Fields
  <2>3. Fleets(b, failed) /\ Shown(b, failed)
    BY <2>1 DEF Fleets, Shown, Fields
  <2>4. WindowShape(failed)
    BY <2>1, NothingCached DEF WindowShape, ScanOrNone, Fields
  <2>5. RequestShape(failed)
    BY <2>1 DEF RequestShape, Fields
  <2>6. Kept(b, failed)
    BY <2>1, <1>1 DEF Kept, Way, Leaving, ProducersBusy, Fields
  <2> QED BY <1>1, <2>2, <2>3, <2>4, <2>5, <2>6, Beside
<1>9. Good(finished) /\ ~finished.apply /\ finished.dedup \in {None, finished.cur}
      /\ (signals.count <= 1 /\ ~finished.late => finished.stage \in {"None", "Producers"})
  BY <1>1, <1>7 DEF Keeps, Fields
<1> HIDE DEF refused, unrunnable, aborted, finished, failed
<1>10. Keeps(b, refused, t) /\ Keeps(b, unrunnable, t) /\ Keeps(b, aborted, t)
  BY <1>3, <1>4, <1>5, <1>6, KeepsOn
<1>11. Keeps(b, RefreshMarkedCount(aborted), t)
  <2>1. Keeps(aborted, RefreshMarkedCount(aborted), t)
    BY <1>6, RefreshKeeps DEF Keeps
  <2> QED BY <1>10, <2>1, KeepsOn
<1>12. Keeps(b, Owe(finished), t)
  <2>1. Keeps(finished, Owe(finished), t)
    BY <1>9, OweKeeps
  <2> QED BY <1>7, <2>1, KeepsOn
<1>13. Keeps(b, c, t) /\ Good(c)
  BY <1>8, <1>10, <1>11, <1>12 DEF Keeps, Batches
<1> HIDE DEF c
<1>14. Keeps(c, RequestShutdown(c, FALSE), t) /\ Keeps(c, AdvanceShutdown(c), t)
  BY <1>13, ShutdownKeeps, AdvanceKeeps
<1>15. Keeps(b, OnApplyFinished(a, e), t)
  BY <1>2, <1>13, <1>14, KeepsOn
<1> QED BY <1>1, <1>15 DEF Keeps, Kept, Stays

-----------------------------------------------------------------------------
(* The scan screen at the end of a scan                                    *)

\* Nothing waits to be shown.
Plain(a) == a.owes = None /\ ~a.open.show

\* The exit's drain closes the actor, or lets go of one whose receiver is gone.
LEMMA CloseTrace ==
    ASSUME NEW a, Good(a), Plain(a), a.stage = "Draining", TerminalOwed(a)
    PROVE  LET b == BeginClose(a)
           IN  /\ Plain(b) /\ b.stage = "Draining" /\ b.fleet # "Live"
               /\ b.screen = a.screen \/ b.fleet = "Idle"
<1>0. DOMAIN a = Fields
  BY GoodIs
<1>1. CASE a.fleet # "Live"
  BY <1>1 DEF BeginClose
<1>2. CASE a.fleet = "Live" /\ Receives(a)
  <2> DEFINE b == Enqueue(a, "Shutdown", None)
             c == [b EXCEPT !.fleet = "Draining"]
  <2>1. None \in ScanOrNone /\ "Shutdown" \in Asks
    BY DEF ScanOrNone, Asks
  <2>2. PICK kind \in Asks, scan \in ScanOrNone : kind = "Shutdown" /\ scan = None
    BY <2>1
  <2>3. DOMAIN b = Fields /\ Same(a, b, {"req", "queue"})
    BY <2>2, EnqueueIs
  <2>4. BeginClose(a) = c
    BY <1>2 DEF BeginClose
  <2> HIDE DEF b
  <2>5. c.owes = a.owes /\ c.open = a.open /\ c.screen = a.screen /\ c.stage = a.stage /\ c.fleet = "Draining"
    BY <2>3 DEF Same, Fields
  <2> QED BY <2>4, <2>5 DEF Plain
<1>3. CASE a.fleet = "Live" /\ ~Receives(a)
  <2> DEFINE b == [a EXCEPT !.fleet = "Idle", !.spawn = << >>]
             c == SettleRetired(b)
             o == [c EXCEPT !.open = NoOpen]
             d == IF c.open = NoOpen THEN c ELSE SettleScanScreen(o)
             f == [d EXCEPT !.spawn = << >>]
  <2>1. BeginClose(a) = RetireActor(b, "Requested")
    BY <1>3 DEF BeginClose
  <2>2. b.fleet = "Idle" /\ b.stage = "Draining" /\ b.owes = None /\ ~b.open.show /\ DOMAIN b = Fields
    BY <1>0 DEF Plain, Fields
  <2>3. RetireActor(b, "Requested") = f
    BY <2>2 DEF RetireActor
  <2> HIDE DEF b
  <2>4. c.fleet = "Idle" /\ c.stage = "Draining" /\ c.owes = None /\ ~c.open.show /\ DOMAIN c = Fields
    BY <2>2 DEF SettleRetired, Fields
  <2> HIDE DEF c
  <2>5. o.fleet = "Idle" /\ o.stage = "Draining" /\ o.owes = None /\ ~o.open.show /\ DOMAIN o = Fields
    BY <2>4 DEF Fields, NoOpen
  <2> HIDE DEF o
  <2>6. SettleScanScreen(o) = o \/ SettleScanScreen(o) = LeaveScanScreen(o)
    BY <2>5 DEF SettleScanScreen
  <2>7. d.fleet = "Idle" /\ d.stage = "Draining" /\ d.owes = None /\ ~d.open.show /\ DOMAIN d = Fields
    <3> DEFINE x == LeaveScanScreen(o)
    <3>1. x.fleet = "Idle" /\ x.stage = "Draining" /\ x.owes = None /\ ~x.open.show /\ DOMAIN x = Fields
      BY <2>5 DEF LeaveScanScreen, Fields
    <3>2. d \in {c, o, x}
      BY <2>6
    <3> HIDE DEF x, d
    <3> QED BY <2>4, <2>5, <3>1, <3>2
  <2> HIDE DEF d
  <2>8. f.fleet = "Idle" /\ f.stage = "Draining" /\ f.owes = None /\ ~f.open.show
    BY <2>7 DEF Fields
  <2> HIDE DEF f
  <2> QED BY <2>1, <2>3, <2>8 DEF Plain
<1> QED BY <1>1, <1>2, <1>3

\* What the stages of the exit leave of the window.
LEMMA AdvanceTrace ==
    ASSUME NEW a, Good(a), Plain(a)
    PROVE  LET b == AdvanceShutdown(a)
           IN  /\ Plain(b) /\ (b.screen = a.screen \/ b.quit)
<1> DEFINE b == Producers(a)
           c == Settling(b)
           d == Draining(c)
           f == Draining(d)
<1>0. PICK box : box = << >>
  OBVIOUS
<1>1. Good(b)
  BY ProducersKeeps DEF Keeps
<1>2. Plain(b) /\ b.screen = a.screen
  <2> DEFINE s == SendPendingReconcile(a)
  <2>1. Good(s) /\ Same(a, s, Sends \cup {"reconcile"}) /\ DOMAIN s = Fields /\ DOMAIN a = Fields
    BY SettlementKeeps, GoodIs
  <2>2. Producers(a) \in {a, [a EXCEPT !.stage = "Draining"], [RaiseUnsettled(a) EXCEPT !.owed = None, !.stage = "Done"],
                          [s EXCEPT !.stage = "Settling", !.settling = s.req],
                          [RaiseUnsettled(s) EXCEPT !.owed = None, !.stage = "Draining"]}
    BY DEF Producers
  <2> HIDE DEF s
  <2>3. s.owes = a.owes /\ s.open = a.open /\ s.screen = a.screen
    BY <2>1 DEF Same, Sends, Fields
  <2> DEFINE r == RaiseUnsettled(a)
             u == RaiseUnsettled(s)
  <2>4. /\ r.owes = a.owes /\ r.open = a.open /\ r.screen = a.screen /\ DOMAIN r = Fields
        /\ u.owes = a.owes /\ u.open = a.open /\ u.screen = a.screen /\ DOMAIN u = Fields
    BY <2>1, <2>3 DEF RaiseUnsettled, Fields
  <2>5. b \in {a, [a EXCEPT !.stage = "Draining"], [r EXCEPT !.owed = None, !.stage = "Done"],
               [s EXCEPT !.stage = "Settling", !.settling = s.req], [u EXCEPT !.owed = None, !.stage = "Draining"]}
    BY <2>2
  <2> HIDE DEF r, u, b
  <2>6. CASE b = a
    BY <2>6
  <2>7. CASE b = [a EXCEPT !.stage = "Draining"]
    BY <2>1, <2>7 DEF Plain, Fields
  <2>8. CASE b = [r EXCEPT !.owed = None, !.stage = "Done"]
    BY <2>4, <2>8 DEF Plain, Fields
  <2>9. CASE b = [s EXCEPT !.stage = "Settling", !.settling = s.req]
    BY <2>1, <2>3, <2>9 DEF Plain, Fields
  <2>10. CASE b = [u EXCEPT !.owed = None, !.stage = "Draining"]
    BY <2>4, <2>10 DEF Plain, Fields
  <2> QED BY <2>5, <2>6, <2>7, <2>8, <2>9, <2>10
<1> HIDE DEF b
<1>3. Good(c) /\ Plain(c) /\ c.screen = a.screen /\ DOMAIN c = Fields
  <2>1. Good(c)
    BY <1>1, SettlingKeeps DEF Keeps
  <2>2. Plain(c) /\ c.screen = b.screen
    BY <1>1, <1>2, GoodIs DEF Settling, RaiseUnsettled, Plain, Fields
  <2> QED BY <1>2, <2>1, <2>2, GoodIs
<1> HIDE DEF c
<1>4. Good(d) /\ DOMAIN d = Fields
  BY <1>3, DrainKeeps, GoodIs DEF Keeps
<1>5. Plain(d) /\ \/ d.stage # "Draining" /\ d.screen = a.screen
                  \/ d.stage = "Draining" /\ d.fleet # "Live" /\ (d.screen = a.screen \/ d.fleet = "Idle")
  <2>1. CASE c.stage # "Draining"
    BY <1>3, <2>1 DEF Draining
  <2>2. CASE c.stage = "Draining" /\ ~TerminalOwed(c)
    BY <1>3, <2>2 DEF Draining, Plain, Fields
  <2>3. CASE c.stage = "Draining" /\ TerminalOwed(c)
    <3>1. d = BeginClose(c)
      BY <2>3 DEF Draining
    <3> HIDE DEF d
    <3> QED BY <1>3, <2>3, <3>1, CloseTrace
  <2> QED BY <2>1, <2>2, <2>3
<1> HIDE DEF d
<1>6. Plain(f) /\ (f.screen = a.screen \/ f.stage = "Done") /\ DOMAIN f = Fields
  <2>1. CASE d.stage # "Draining"
    BY <1>4, <1>5, <2>1 DEF Draining
  <2>2. CASE d.stage = "Draining" /\ d.fleet = "Idle"
    BY <1>4, <1>5, <2>2 DEF Draining, TerminalOwed, Plain, Fields
  <2>3. CASE d.stage = "Draining" /\ d.fleet # "Idle"
    <3>1. f = d
      BY <1>5, <2>3 DEF Draining, TerminalOwed, BeginClose
    <3> QED BY <1>4, <1>5, <2>3, <3>1
  <2> QED BY <2>1, <2>2, <2>3
<1> HIDE DEF f
<1>7. Plain(Done(f)) /\ Done(f).screen = f.screen /\ (f.stage = "Done" => Done(f).quit)
  BY <1>6 DEF Done, Plain, Fields
<1>8. AdvanceShutdown(a) = Done(f)
  BY DEF AdvanceShutdown, b, c, d, f
<1> QED BY <1>6, <1>7, <1>8

\* What asking for the end again leaves of the window.
LEMMA AskAgainTrace ==
    ASSUME NEW a, Good(a), Plain(a)
    PROVE  LET b == AskAgain(a)
           IN  Plain(b) /\ (b.screen = a.screen \/ b.quit)
<1>1. CASE ~ShutdownPending
  BY <1>1 DEF AskAgain
<1>2. CASE ShutdownPending
  <2> DEFINE stop == a.stop \cup (IF a.scan THEN {"scan"} ELSE {}) \cup (IF a.apply THEN {"apply"} ELSE {})
             b == [a EXCEPT !.stop = stop]
             c == [b EXCEPT !.spawn = << >>, !.stage = "Producers"]
             d == IF b.stage = "None" THEN c ELSE b
  <2>0. PICK box : box = << >>
    OBVIOUS
  <2>00. Good(a) /\ DOMAIN a = Fields
    BY GoodIs
  <2>1. AskAgain(a) = AdvanceShutdown(d)
    BY <1>2 DEF AskAgain, RequestShutdown
  <2> HIDE DEF stop
  <2>2. Keeps(a, b, box)
    <3>1. DOMAIN a = Fields /\ WindowShape(a) /\ RequestShape(a)
      BY <2>00, GoodIs
    <3>2. DOMAIN b = Fields
      BY <3>1 DEF Fields
    <3>3. Fleets(a, b) /\ Shown(a, b)
      BY <3>1 DEF Fleets, Shown, Fields
    <3>4. WindowShape(b)
      BY <3>1, NothingCached DEF WindowShape, ScanOrNone, Fields
    <3>5. RequestShape(b)
      BY <3>1 DEF RequestShape, Fields
    <3>6. Kept(a, b)
      BY <3>1 DEF Kept, Way, Leaving, ProducersBusy, Fields
    <3> QED BY <2>00, <3>2, <3>3, <3>4, <3>5, <3>6, Beside
  <2>3. Good(b) /\ DOMAIN b = Fields
    BY <2>2, GoodIs DEF Keeps
  <2>4. b.stage = "None" => Keeps(b, c, box)
    <3> SUFFICES ASSUME b.stage = "None" PROVE Keeps(b, c, box)
      OBVIOUS
    <3> HIDE DEF b
    <3>1. Keeps(b, c, box)
      <4>1. DOMAIN b = Fields /\ WindowShape(b) /\ RequestShape(b)
        BY <2>3, GoodIs
      <4>2. DOMAIN c = Fields
        BY <4>1 DEF Fields
      <4>3. Fleets(b, c) /\ Shown(b, c)
        BY <4>1 DEF Fleets, Shown, Fields
      <4>4. WindowShape(c)
        BY <4>1, NothingCached DEF WindowShape, ScanOrNone, Fields
      <4>5. RequestShape(c)
        BY <4>1 DEF RequestShape, Fields
      <4>6. Kept(b, c)
        BY <4>1 DEF Kept, Way, Leaving, ProducersBusy, Fields
      <4> QED BY <2>3, <4>2, <4>3, <4>4, <4>5, <4>6, Beside
    <3> QED BY <3>1
  <2>5. Plain(d) /\ d.screen = a.screen
    BY <2>00, <2>3 DEF Plain, Fields
  <2> HIDE DEF b, c
  <2>6. Good(d)
    BY <2>3, <2>4 DEF Keeps
  <2> HIDE DEF d
  <2> QED BY <2>1, <2>5, <2>6, AdvanceTrace
<1> QED BY <1>1, <1>2

-----------------------------------------------------------------------------
(* A scan ends, and the next begins                                        *)

\* As Keeps, of a handler that the exit let show what is not shown any more.
Held(a, b, box) ==
    /\ Good(b) /\ (Lands(a, box) => Lands(b, box)) /\ Stays(a, b)
    /\ b.scan = a.scan /\ b.apply = a.apply
    /\ a.quit => b.quit
    /\ Leaving(a) => Leaving(b)

\* What is held back of the screens is held on by a handler that keeps everything.
LEMMA HeldOn ==
    ASSUME NEW a, NEW b, NEW c, NEW box, Held(a, b, box), Keeps(b, c, box)
    PROVE  Held(a, c, box)
BY DEF Held, Keeps, Kept, Stays

\* Where the open on its way is to be shown may change while no screen rests on it.
LEMMA ShownAnyway ==
    ASSUME NEW a, NEW box, Good(a), NEW show \in BOOLEAN
    PROVE  Held(a, [a EXCEPT !.open.show = show], box)
<1> DEFINE o == [a.open EXCEPT !.show = show]
           b == [a EXCEPT !.open = o]
<1>1. DOMAIN a = Fields /\ WindowShape(a) /\ RequestShape(a)
  BY GoodIs
<1>2. o \in [req : 0..a.req, scan : ScanOrNone, show : BOOLEAN] /\ o.req = a.open.req
  BY <1>1 DEF RequestShape
<1>3. [a EXCEPT !.open.show = show] = b
  BY <1>1 DEF Fields
<1> HIDE DEF o
<1>4. DOMAIN b = Fields /\ Fleets(a, b) /\ Shown(a, b)
  BY <1>1, <1>2 DEF Fleets, Shown, Fields
<1>5. WindowShape(b)
  BY <1>1 DEF WindowShape, Fields
<1>6. RequestShape(b)
  BY <1>1, <1>2 DEF RequestShape, Fields
<1>7. b.apply = a.apply /\ b.scan = a.scan /\ (a.quit => b.quit) /\ Stays(a, b)
  BY <1>1 DEF Stays, Fields
<1>8. Leaving(a) => Leaving(b)
  BY <1>1 DEF Leaving, ProducersBusy, Fields
<1> HIDE DEF b
<1>9. Good(b) /\ (Lands(a, box) => Lands(b, box))
  BY <1>4, <1>5, <1>6, <1>7, BesideLands
<1> QED BY <1>3, <1>7, <1>8, <1>9 DEF Held

\* And so may an open be asked for.
LEMMA OpenedAnyway ==
    ASSUME NEW a, NEW box, Good(a), NEW scan \in ScanOrNone
    PROVE  Held(a, OpenViaActor(a, scan, TRUE), box)
<1>1. DOMAIN a = Fields /\ RequestShape(a)
  BY GoodIs
<1>2. CASE a.open # NoOpen
  <2>1. PICK show \in BOOLEAN : show = (a.open.show \/ (TRUE /\ a.open.scan = scan))
    OBVIOUS
  <2> DEFINE y == OpenViaActor(a, scan, TRUE)
             x == [a EXCEPT !.open.show = show]
  <2>2. y = x
    BY <1>2, <2>1 DEF OpenViaActor
  <2>3. Held(a, x, box)
    BY <2>1, ShownAnyway
  <2> HIDE DEF y, x
  <2>4. Held(a, y, box)
    BY <2>2, <2>3
  <2> QED BY <2>4 DEF y
<1>3. CASE a.open = NoOpen
  <2> DEFINE b == SendBrowse(a, "Open", scan)
             c == OpenViaActor(a, scan, FALSE)
  <2>1. c = IF Sent(a, b) THEN [b EXCEPT !.open = [req |-> b.req, scan |-> scan, show |-> FALSE]] ELSE b
    BY <1>3 DEF OpenViaActor
  <2>2. OpenViaActor(a, scan, TRUE) =
          IF Sent(a, b) THEN [b EXCEPT !.open = [req |-> b.req, scan |-> scan, show |-> TRUE]] ELSE b
    BY <1>3 DEF OpenViaActor
  <2>3. DOMAIN b = Fields
    <3>1. PICK kind \in Asks : kind = "Open"
      BY DEF Asks
    <3> QED BY <3>1, SendSame
  <2>4. PICK no \in BOOLEAN : no = FALSE
    OBVIOUS
  <2>5. Keeps(a, c, box)
    BY <2>4, OpenKeeps
  <2> HIDE DEF b, c
  <2>6. Held(a, c, box) /\ Good(c)
    BY <2>5 DEF Keeps, Kept, Held, Stays
  <2>7. CASE ~Sent(a, b)
    BY <2>1, <2>2, <2>6, <2>7
  <2>8. CASE Sent(a, b)
    <3> DEFINE x == [c EXCEPT !.open.show = TRUE]
    <3>1. OpenViaActor(a, scan, TRUE) = x
      BY <2>1, <2>2, <2>3, <2>8 DEF Fields
    <3>2. Held(c, x, box)
      BY <2>6, ShownAnyway
    <3> HIDE DEF x
    <3>3. Held(a, x, box)
      BY <2>6, <3>2 DEF Held, Stays
    <3> QED BY <3>1, <3>3
  <2> QED BY <2>7, <2>8
<1> QED BY <1>2, <1>3

\* The scan is over.
LEMMA ScannedIs ==
    ASSUME NEW a, NEW t, Good(a), a.scan, Way(a), Lands(a, t)
    PROVE  LET b == [a EXCEPT !.scan = FALSE, !.owes = None]
           IN  /\ Good(b) /\ Way(b) /\ Lands(b, t) /\ Stays(a, b) /\ Plain(b) /\ ~b.scan /\ ~b.apply
               /\ b.screen = "scanning"
<1> DEFINE b == [a EXCEPT !.scan = FALSE, !.owes = None]
<1>0. Good(a) /\ None \in ScanOrNone
  BY DEF ScanOrNone
<1>1a. DOMAIN a = Fields /\ WindowShape(a) /\ RequestShape(a) /\ FleetShape(a) /\ Housed(a)
       /\ a.pending \subseteq a.ledger /\ (a.fleet = "Idle" => a.ledger = {})
  BY <1>0 DEF Good, Loose, Shape
<1>1b. DOMAIN b = Fields /\ b.scan = FALSE /\ b.owes = None /\ Same(a, b, {"scan", "owes"})
  BY <1>1a DEF Fields, Same
<1> HIDE DEF b
<1>1c. /\ b.stage = a.stage /\ b.screen = a.screen /\ b.owed = a.owed /\ b.cur = a.cur /\ b.dedup = a.dedup /\ b.plan = a.plan
        /\ b.act = a.act /\ b.cache = a.cache /\ b.moves = a.moves /\ b.purges = a.purges /\ b.probes = a.probes /\ b.work = a.work
        /\ b.last = a.last /\ b.apply = a.apply /\ b.late = a.late /\ b.keyQuit = a.keyQuit /\ b.prompt = a.prompt /\ b.quit = a.quit
        /\ b.unsettled = a.unsettled /\ b.spawn = a.spawn /\ b.open = a.open
  BY <1>1b DEF Same, Fields
<1>1d. /\ b.req = a.req /\ b.marked = a.marked /\ b.planning = a.planning /\ b.reconcile = a.reconcile /\ b.settling = a.settling /\ b.groups = a.groups
        /\ b.covering = a.covering /\ b.gate = a.gate /\ b.pending = a.pending /\ b.ledger = a.ledger /\ b.fleet = a.fleet /\ b.actor = a.actor
        /\ b.born = a.born /\ b.queue = a.queue
  BY <1>1b DEF Same, Fields
<1>1e. WindowShape(b)
  BY <1>1a, <1>1b, <1>1c, <1>0 DEF WindowShape
<1>1f. RequestShape(b)
  BY <1>1a, <1>1b, <1>1c, <1>1d DEF RequestShape
<1>1g. FleetShape(b) /\ Housed(b)
  BY <1>1a, <1>1b, <1>1d DEF FleetShape, Housed, TerminalOwed
<1>1h. Good(b)
  BY <1>1a, <1>1b, <1>1d, <1>1e, <1>1f, <1>1g DEF Good, Loose, Shape
<1>2. Way(b)
  BY <1>1a, <1>1b, <1>1c, <1>1d DEF Way, Leaving, ProducersBusy
<1>3. Lands(b, t)
  BY <1>1b, <1>1c, <1>1d DEF Lands, AsksWell, WorksFor, BoxOK, OwesOK, Answers, Installs
<1>4. Stays(a, b) /\ Plain(b) /\ ~b.scan /\ ~b.apply /\ b.screen = "scanning"
  BY <1>1a, <1>1b, <1>1c, <1>1d DEF Stays, Way, Plain
<1> QED BY <1>1h, <1>2, <1>3, <1>4 DEF b

\* What follows a scan that is over, when its result was asked for.
LEMMA ResultKeeps ==
    ASSUME NEW c, NEW t, Good(c), NEW scan \in ScanOrNone, NEW owes \in ScanOrNone
    PROVE  Keeps(c, SettleScanScreen([OpenViaActor([c EXCEPT !.owes = owes], scan, FALSE) EXCEPT !.cache = << >>]), t)
<1> DEFINE d == [c EXCEPT !.owes = owes]
           f == OpenViaActor(d, scan, FALSE)
           g == [f EXCEPT !.cache = << >>]
<1>0. Good(c)
  OBVIOUS
<1>1. Keeps(c, d, t)
  <2>1. DOMAIN c = Fields /\ WindowShape(c) /\ RequestShape(c)
    BY <1>0, GoodIs
  <2>2. DOMAIN d = Fields
    BY <2>1 DEF Fields
  <2>3. Fleets(c, d) /\ Shown(c, d)
    BY <2>1 DEF Fleets, Shown, Fields
  <2>4. WindowShape(d)
    BY <2>1, NothingCached DEF WindowShape, ScanOrNone, Fields
  <2>5. RequestShape(d)
    BY <2>1 DEF RequestShape, Fields
  <2>6. Kept(c, d)
    BY <2>1 DEF Kept, Way, Leaving, ProducersBusy, Fields
  <2> QED BY <1>0, <2>2, <2>3, <2>4, <2>5, <2>6, Beside
<1>2. Good(d)
  BY <1>1 DEF Keeps
<1> HIDE DEF d
<1>3. PICK no \in BOOLEAN : no = FALSE
  OBVIOUS
<1>4. Keeps(d, f, t) /\ Good(f)
  BY <1>2, <1>3, OpenKeeps DEF Keeps
<1> HIDE DEF f
<1>5. Keeps(f, g, t)
  <2>1. DOMAIN f = Fields /\ WindowShape(f) /\ RequestShape(f)
    BY <1>4, GoodIs
  <2>2. DOMAIN g = Fields
    BY <2>1 DEF Fields
  <2>3. Fleets(f, g) /\ Shown(f, g)
    BY <2>1 DEF Fleets, Shown, Fields
  <2>4. WindowShape(g)
    BY <2>1, NothingCached DEF WindowShape, ScanOrNone, Fields
  <2>5. RequestShape(g)
    BY <2>1 DEF RequestShape, Fields
  <2>6. Kept(f, g)
    BY <2>1 DEF Kept, Way, Leaving, ProducersBusy, Fields
  <2> QED BY <1>4, <2>2, <2>3, <2>4, <2>5, <2>6, Beside
<1> HIDE DEF g
<1>6. Keeps(g, SettleScanScreen(g), t)
  BY <1>5, ScreenKeeps DEF Keeps
<1>7. Keeps(c, f, t)
  BY <1>1, <1>4, KeepsOn
<1>8. Keeps(c, g, t)
  BY <1>5, <1>7, KeepsOn
<1>9. Keeps(c, SettleScanScreen(g), t)
  BY <1>6, <1>8, KeepsOn
<1> QED BY <1>9 DEF g, f, d

\* A scan ends: its screen waits for its result, or is left.
LEMMA FinishedComes ==
    ASSUME NEW a, NEW t, Good(a), a.scan, Way(a), Lands(a, t), NEW e, e.scan \in ScanOrNone
    PROVE  LET n == OnFinished(a, e)
           IN  /\ Good(n) /\ Lands(n, t) /\ Stays(a, n) /\ ~n.scan /\ ~n.apply /\ Leaving(n)
               /\ n.quit \/ Way(n)
<1> DEFINE z == [a EXCEPT !.scan = FALSE, !.owes = None]
           b == AskAgain(z)
           c == OpenViaActor(b, e.scan, TRUE)
           owes == IF c.open # NoOpen /\ c.open.scan # e.scan THEN e.scan ELSE None
           y == SettleScanScreen([OpenViaActor([c EXCEPT !.owes = owes], e.scan, FALSE) EXCEPT !.cache = << >>])
           p == [b EXCEPT !.screen = "panels"]
           q == [p EXCEPT !.cache = << >>]
<1>1. /\ Good(z) /\ Way(z) /\ Lands(z, t) /\ Stays(a, z) /\ Plain(z) /\ ~z.scan /\ ~z.apply
      /\ z.screen = "scanning"
  BY ScannedIs
<1>2. OnFinished(a, e) = IF e.res = "Completed" THEN y ELSE SettleScanScreen(q)
  BY DEF OnFinished
<1> HIDE DEF z
<1>3. Keeps(z, b, t) /\ Plain(b) /\ (b.screen = "scanning" \/ b.quit)
  BY <1>1, AskAgainKeeps, AskAgainTrace
<1>4. Good(b) /\ Way(b) /\ Lands(b, t) /\ Stays(a, b) /\ ~b.scan /\ ~b.apply /\ ~b.open.show
  BY <1>1, <1>3 DEF Keeps, Kept, Stays, Plain
<1> HIDE DEF b
<1>5. CASE e.res = "Completed"
  <2>1. Held(b, c, t)
    BY <1>4, OpenedAnyway
  <2>2. Good(c) /\ owes \in ScanOrNone
    BY <2>1 DEF Held, ScanOrNone
  <2>3. b.screen = "scanning" => Keeps(b, c, t)
    <3>1. PICK yes \in BOOLEAN : yes = TRUE
      OBVIOUS
    <3>2. b.screen = "scanning" => MayShow(b)
      BY <1>4 DEF MayShow
    <3> QED BY <1>4, <3>1, <3>2, OpenKeeps
  <2> HIDE DEF c, owes
  <2>4. Keeps(c, y, t)
    BY <2>2, ResultKeeps
  <2> HIDE DEF y
  <2>5. Held(b, y, t)
    BY <2>1, <2>4, HeldOn
  <2>6. b.screen = "scanning" => Way(y)
    BY <1>4, <2>3, <2>4 DEF Keeps, Kept
  <2>7. Leaving(b)
    BY <1>4 DEF Way
  <2> QED BY <1>2, <1>3, <1>4, <1>5, <2>5, <2>6, <2>7 DEF Held, Stays
<1>6. CASE e.res # "Completed"
  <2>1. Keeps(b, p, t)
    <3>1. DOMAIN b = Fields /\ WindowShape(b) /\ RequestShape(b)
      BY <1>4, GoodIs
    <3>2. DOMAIN p = Fields
      BY <3>1 DEF Fields
    <3>3. Fleets(b, p) /\ Shown(b, p)
      BY <3>1 DEF Fleets, Shown, Fields
    <3>4. WindowShape(p)
      BY <3>1, NothingCached DEF WindowShape, ScanOrNone, Fields
    <3>5. RequestShape(p)
      BY <3>1 DEF RequestShape, Fields
    <3>6. Kept(b, p)
      BY <3>1, <1>4 DEF Kept, Way, Leaving, ProducersBusy, Fields
    <3> QED BY <1>4, <3>2, <3>3, <3>4, <3>5, <3>6, Beside
  <2>2. Good(p)
    BY <2>1 DEF Keeps
  <2> HIDE DEF p
  <2>3. Keeps(p, q, t)
    <3>1. DOMAIN p = Fields /\ WindowShape(p) /\ RequestShape(p)
      BY <2>2, GoodIs
    <3>2. DOMAIN q = Fields
      BY <3>1 DEF Fields
    <3>3. Fleets(p, q) /\ Shown(p, q)
      BY <3>1 DEF Fleets, Shown, Fields
    <3>4. WindowShape(q)
      BY <3>1, NothingCached DEF WindowShape, ScanOrNone, Fields
    <3>5. RequestShape(q)
      BY <3>1 DEF RequestShape, Fields
    <3>6. Kept(p, q)
      BY <3>1 DEF Kept, Way, Leaving, ProducersBusy, Fields
    <3> QED BY <2>2, <3>2, <3>3, <3>4, <3>5, <3>6, Beside
  <2>4. Good(q) /\ Keeps(b, q, t)
    BY <2>1, <2>3, KeepsOn DEF Keeps
  <2> HIDE DEF q
  <2>5. Keeps(q, SettleScanScreen(q), t)
    BY <2>4, ScreenKeeps
  <2>6. Keeps(b, SettleScanScreen(q), t)
    BY <2>4, <2>5, KeepsOn
  <2>7. Leaving(b)
    BY <1>4 DEF Way
  <2> QED BY <1>2, <1>4, <1>6, <2>6, <2>7 DEF Keeps, Kept, Stays
<1> QED BY <1>5, <1>6

\* A scan begins, over the panels or the question.
LEMMA StartComes ==
    ASSUME NEW a, NEW t, Good(a), Way(a), Lands(a, t), a.screen \in {"panels", "resume"}
    PROVE  LET n == StartScan(a)
           IN  /\ Good(n) /\ Lands(n, t) /\ Way(n) /\ n.scan /\ ~a.scan /\ ~a.apply /\ n.apply = a.apply
               /\ n.work = [a.work EXCEPT !.scan = TRUE]
               /\ n.moves = a.moves /\ n.purges = a.purges /\ n.probes = a.probes
               /\ n.keyQuit = a.keyQuit /\ n.prompt = a.prompt /\ (a.quit => n.quit)
<1> DEFINE work == [a.work EXCEPT !.scan = TRUE]
           stop == a.stop \ {"scan"}
           b == [a EXCEPT !.scan = TRUE, !.work = work, !.stop = stop, !.screen = "scanning",
                          !.late = a.late \/ a.stage # "None"]
<1>0. Good(a) /\ work \in Works
  BY ZenonT(40), GoodIs DEF WindowShape, Works
<1>2. StartScan(a) = b
  BY GoodIs DEF StartScan, Fields
<1>3. ~a.scan /\ ~a.apply /\ ~a.open.show
  BY DEF Way
<1> HIDE DEF work, stop
<1>1a. DOMAIN a = Fields /\ WindowShape(a) /\ RequestShape(a) /\ FleetShape(a) /\ Housed(a)
       /\ a.pending \subseteq a.ledger /\ (a.fleet = "Idle" => a.ledger = {})
  BY <1>0 DEF Good, Loose, Shape
<1>1b. DOMAIN b = Fields /\ b.scan = TRUE /\ b.work = work /\ b.stop = stop /\ b.screen = "scanning" /\ b.late = (a.late \/ a.stage # "None") /\ Same(a, b, {"scan", "work", "stop", "screen", "late"})
  BY <1>1a DEF Fields, Same
<1> HIDE DEF b
<1>1c. /\ b.stage = a.stage /\ b.owed = a.owed /\ b.cur = a.cur /\ b.dedup = a.dedup /\ b.owes = a.owes /\ b.plan = a.plan
        /\ b.act = a.act /\ b.cache = a.cache /\ b.moves = a.moves /\ b.purges = a.purges /\ b.probes = a.probes /\ b.last = a.last
        /\ b.apply = a.apply /\ b.keyQuit = a.keyQuit /\ b.prompt = a.prompt /\ b.quit = a.quit /\ b.unsettled = a.unsettled /\ b.spawn = a.spawn
        /\ b.open = a.open
  BY <1>1b DEF Same, Fields
<1>1d. /\ b.req = a.req /\ b.marked = a.marked /\ b.planning = a.planning /\ b.reconcile = a.reconcile /\ b.settling = a.settling /\ b.groups = a.groups
        /\ b.covering = a.covering /\ b.gate = a.gate /\ b.pending = a.pending /\ b.ledger = a.ledger /\ b.fleet = a.fleet /\ b.actor = a.actor
        /\ b.born = a.born /\ b.queue = a.queue
  BY <1>1b DEF Same, Fields
<1>1e. WindowShape(b)
  BY <1>1a, <1>1b, <1>1c, <1>0, <1>3 DEF WindowShape
<1>1f. RequestShape(b)
  BY <1>1a, <1>1b, <1>1c, <1>1d, <1>0, <1>3 DEF RequestShape
<1>1g. FleetShape(b) /\ Housed(b)
  BY <1>1a, <1>1b, <1>1d DEF FleetShape, Housed, TerminalOwed
<1>1h. Good(b)
  BY <1>1a, <1>1b, <1>1d, <1>1e, <1>1f, <1>1g DEF Good, Loose, Shape
<1>4. Way(b)
  BY <1>1a, <1>1b, <1>1c, <1>1d, <1>3 DEF Way, Leaving
<1>5. Lands(b, t)
  BY <1>1b, <1>1c, <1>1d DEF Lands, AsksWell, WorksFor, BoxOK, OwesOK, Answers, Installs
<1>6. /\ b.scan /\ b.apply = a.apply /\ b.work = work
      /\ b.moves = a.moves /\ b.purges = a.purges /\ b.probes = a.probes
      /\ b.keyQuit = a.keyQuit /\ b.prompt = a.prompt /\ (a.quit => b.quit)
  BY <1>1b, <1>1c, <1>3
<1> HIDE DEF b
<1> QED BY <1>1h, <1>2, <1>3, <1>4, <1>5, <1>6 DEF work

\* What a probe may start.
Started(a, b) ==
    /\ b.moves = a.moves /\ b.purges = a.purges /\ b.apply = a.apply
    /\ b.keyQuit = a.keyQuit /\ b.prompt = a.prompt
    /\ \/ b.work = a.work /\ b.scan = a.scan
       \/ ~a.scan /\ b.scan /\ b.work = [a.work EXCEPT !.scan = TRUE]

\* A probe answers: a scan starts, a question is asked, or nothing.
LEMMA ProbeComes ==
    ASSUME NEW a, NEW t, Good(a), Way(a), Lands(a, t), NEW e
    PROVE  LET n == OnResumeProbe(a, e)
           IN  Good(n) /\ Lands(n, t) /\ Way(n) /\ n.probes = a.probes - 1 /\ Started(a, n)
<1> DEFINE m == a.probes - 1
           b == [a EXCEPT !.probes = m]
           r == [b EXCEPT !.screen = "resume"]
<1>0. Good(a) /\ m \in Int
  BY GoodIs DEF WindowShape
<1>2. OnResumeProbe(a, e) = CASE a.screen # "panels" \/ e.res = "err" -> b
          [] a.screen = "panels" /\ e.res = "fresh" -> IF a.readOnly THEN b ELSE StartScan(b)
          [] OTHER -> r
  BY DEF OnResumeProbe
<1> HIDE DEF m
<1>1a. DOMAIN a = Fields /\ WindowShape(a) /\ RequestShape(a) /\ FleetShape(a) /\ Housed(a)
       /\ a.pending \subseteq a.ledger /\ (a.fleet = "Idle" => a.ledger = {})
  BY <1>0 DEF Good, Loose, Shape
<1>1b. DOMAIN b = Fields /\ b.probes = m /\ Same(a, b, {"probes"})
  BY <1>1a DEF Fields, Same
<1> HIDE DEF b
<1>1c. /\ b.stage = a.stage /\ b.screen = a.screen /\ b.owed = a.owed /\ b.cur = a.cur /\ b.dedup = a.dedup /\ b.owes = a.owes
        /\ b.plan = a.plan /\ b.act = a.act /\ b.cache = a.cache /\ b.moves = a.moves /\ b.purges = a.purges /\ b.work = a.work
        /\ b.last = a.last /\ b.scan = a.scan /\ b.apply = a.apply /\ b.late = a.late /\ b.keyQuit = a.keyQuit /\ b.prompt = a.prompt
        /\ b.quit = a.quit /\ b.unsettled = a.unsettled /\ b.spawn = a.spawn /\ b.open = a.open
  BY <1>1b DEF Same, Fields
<1>1d. /\ b.req = a.req /\ b.marked = a.marked /\ b.planning = a.planning /\ b.reconcile = a.reconcile /\ b.settling = a.settling /\ b.groups = a.groups
        /\ b.covering = a.covering /\ b.gate = a.gate /\ b.pending = a.pending /\ b.ledger = a.ledger /\ b.fleet = a.fleet /\ b.actor = a.actor
        /\ b.born = a.born /\ b.queue = a.queue
  BY <1>1b DEF Same, Fields
<1>1e. WindowShape(b)
  BY <1>1a, <1>1b, <1>1c, <1>0 DEF WindowShape
<1>1f. RequestShape(b)
  BY <1>1a, <1>1b, <1>1c, <1>1d, <1>0 DEF RequestShape
<1>1g. FleetShape(b) /\ Housed(b)
  BY <1>1a, <1>1b, <1>1d DEF FleetShape, Housed, TerminalOwed
<1>1h. Good(b)
  BY <1>1a, <1>1b, <1>1d, <1>1e, <1>1f, <1>1g DEF Good, Loose, Shape
<1>3. Way(b)
  BY <1>1a, <1>1b, <1>1c, <1>1d DEF Way, Leaving, ProducersBusy
<1>4. Lands(b, t)
  BY <1>1b, <1>1c, <1>1d DEF Lands, AsksWell, WorksFor, BoxOK, OwesOK, Answers, Installs
<1>5. b.probes = m /\ Started(a, b) /\ b.screen = a.screen /\ b.scan = a.scan /\ b.work = a.work
  BY <1>1b, <1>1c DEF Started
<1>6. Good(b)
  BY <1>1h
<1> HIDE DEF b
<1>7. CASE a.screen # "panels" \/ e.res = "err"
  BY <1>2, <1>3, <1>4, <1>5, <1>6, <1>7 DEF m
<1>8. CASE a.screen = "panels" /\ e.res = "fresh"
  <2>1. CASE a.readOnly
    BY <1>2, <1>3, <1>4, <1>5, <1>6, <1>8, <2>1 DEF m
  <2>2. CASE ~a.readOnly
    <3> DEFINE n == StartScan(b)
    <3>1. /\ Good(n) /\ Lands(n, t) /\ Way(n) /\ n.scan /\ ~b.scan /\ ~b.apply /\ n.apply = b.apply
          /\ n.work = [b.work EXCEPT !.scan = TRUE]
          /\ n.moves = b.moves /\ n.purges = b.purges /\ n.probes = b.probes
          /\ n.keyQuit = b.keyQuit /\ n.prompt = b.prompt
      BY <1>3, <1>4, <1>5, <1>6, <1>8, StartComes
    <3>2. OnResumeProbe(a, e) = n
      BY <1>2, <1>8, <2>2
    <3> HIDE DEF n
    <3>3. Started(a, n)
      BY <1>5, <3>1 DEF Started
    <3> QED BY <1>5, <3>1, <3>2, <3>3 DEF m
  <2> QED BY <2>1, <2>2
<1>9. CASE a.screen = "panels" /\ e.res # "err" /\ e.res # "fresh"
  <2>1. ~b.scan /\ ~b.apply /\ ~b.open.show
    BY <1>3, <1>5, <1>9 DEF Way
  <2>2. Keeps(b, r, t)
    <3>1. DOMAIN b = Fields /\ WindowShape(b) /\ RequestShape(b)
      BY <1>6, GoodIs
    <3>2. DOMAIN r = Fields
      BY <3>1 DEF Fields
    <3>3. Fleets(b, r) /\ Shown(b, r)
      BY <3>1 DEF Fleets, Shown, Fields
    <3>4. WindowShape(r)
      BY <3>1, NothingCached DEF WindowShape, ScanOrNone, Fields
    <3>5. RequestShape(r)
      BY <3>1 DEF RequestShape, Fields
    <3>6. Kept(b, r)
      BY <3>1, <2>1 DEF Kept, Way, Leaving, ProducersBusy, Fields
    <3> QED BY <1>6, <3>2, <3>3, <3>4, <3>5, <3>6, Beside
  <2>3. OnResumeProbe(a, e) = r
    BY <1>2, <1>9
  <2> HIDE DEF r
  <2>4. Good(r) /\ Lands(r, t) /\ Way(r) /\ r.probes = m /\ Started(a, r)
    BY <1>3, <1>4, <1>5, <2>2 DEF Keeps, Kept, Started
  <2> QED BY <2>3, <2>4 DEF m
<1> QED BY <1>7, <1>8, <1>9

-----------------------------------------------------------------------------
(* What covers the panel's directory, and a new role                       *)

\* The scan that covers the panel is opened, or none is shown.
LEMMA SwitchKeeps ==
    ASSUME NEW a, NEW box, Good(a), NEW target \in ScanOrNone
    PROVE  Keeps(a, AutoSwitch(a, target), box)
<1>0. Good(a)
  OBVIOUS
<1>1. CASE target = a.dedup
  BY <1>1, KeepsSelf DEF AutoSwitch
<1>2. CASE target # a.dedup /\ target = None
  <2> DEFINE b == [a EXCEPT !.dedup = None]
  <2>1. Keeps(a, b, box)
    <3>1. DOMAIN a = Fields /\ WindowShape(a) /\ RequestShape(a)
      BY <1>0, GoodIs
    <3>2. DOMAIN b = Fields
      BY <3>1 DEF Fields
    <3>3. Fleets(a, b) /\ Shown(a, b)
      BY <3>1 DEF Fleets, Shown, Fields
    <3>4. WindowShape(b)
      BY <3>1, NothingCached DEF WindowShape, ScanOrNone, Fields
    <3>5. RequestShape(b)
      BY <3>1 DEF RequestShape, Fields
    <3>6. Kept(a, b)
      BY <3>1 DEF Kept, Way, Leaving, ProducersBusy, Fields
    <3> QED BY <1>0, <3>2, <3>3, <3>4, <3>5, <3>6, Beside
  <2> QED BY <1>2, <2>1 DEF AutoSwitch
<1>3. CASE target # a.dedup /\ target # None
  <2>1. PICK no \in BOOLEAN : no = FALSE
    OBVIOUS
  <2>2. Keeps(a, OpenViaActor(a, target, FALSE), box)
    BY <2>1, OpenKeeps
  <2> DEFINE b == OpenViaActor(a, target, FALSE)
  <2>3. AutoSwitch(a, target) = b
    BY <1>3 DEF AutoSwitch
  <2> QED BY <2>2, <2>3
<1> QED BY <1>1, <1>2, <1>3

\* What covers a directory arrives.
LEMMA CoveringKeeps ==
    ASSUME NEW a, NEW box, Good(a), NEW e, e.scan \in ScanOrNone
    PROVE  Keeps(a, OnCoveringScan(a, e), box)
<1> DEFINE dir == CHOOSE d \in Dirs : [req |-> e.req, dir |-> d] \in a.covering
           covering == {r \in a.covering : r.req # e.req}
           b == [a EXCEPT !.covering = covering]
           cache == [d \in DOMAIN b.cache \cup {dir} |-> IF d = dir THEN e.scan ELSE b.cache[d]]
           f == [b EXCEPT !.cache = cache]
           c == IF e.res = "path" THEN UninstallBrowsing(b) ELSE b
           refused == IF a.cwd = dir THEN {dir} ELSE c.refused
           g == [c EXCEPT !.refused = refused]
<1>0. Good(a) /\ \A r \in covering : r.req \in 0..a.req
  BY GoodIs DEF RequestShape
<1>1. OnCoveringScan(a, e) = IF b = a THEN a ELSE IF e.res = "ok" THEN AutoSwitch(f, e.scan) ELSE g
  BY GoodIs DEF OnCoveringScan, Fields
<1> HIDE DEF covering, dir
<1>2. Keeps(a, b, box)
  <2>1. DOMAIN a = Fields /\ WindowShape(a) /\ RequestShape(a)
    BY <1>0, GoodIs
  <2>2. DOMAIN b = Fields
    BY <2>1 DEF Fields
  <2>3. Fleets(a, b) /\ Shown(a, b)
    BY <2>1 DEF Fleets, Shown, Fields
  <2>4. WindowShape(b)
    BY <2>1, NothingCached DEF WindowShape, ScanOrNone, Fields
  <2>5. RequestShape(b)
    BY <2>1, <1>0 DEF RequestShape, Fields
  <2>6. Kept(a, b)
    BY <2>1 DEF Kept, Way, Leaving, ProducersBusy, Fields
  <2> QED BY <1>0, <2>2, <2>3, <2>4, <2>5, <2>6, Beside
<1>3. Good(b)
  BY <1>2 DEF Keeps
<1> HIDE DEF b
<1>4. \A d \in DOMAIN cache : cache[d] \in ScanOrNone
  BY <1>3, GoodIs DEF WindowShape
<1> HIDE DEF cache
<1>5. Keeps(b, f, box)
  <2>1. DOMAIN b = Fields /\ WindowShape(b) /\ RequestShape(b)
    BY <1>3, GoodIs
  <2>2. DOMAIN f = Fields
    BY <2>1 DEF Fields
  <2>3. Fleets(b, f) /\ Shown(b, f)
    BY <2>1 DEF Fleets, Shown, Fields
  <2>4. WindowShape(f)
    BY <2>1, NothingCached, <1>4 DEF WindowShape, ScanOrNone, Fields
  <2>5. RequestShape(f)
    BY <2>1 DEF RequestShape, Fields
  <2>6. Kept(b, f)
    BY <2>1 DEF Kept, Way, Leaving, ProducersBusy, Fields
  <2> QED BY <1>3, <2>2, <2>3, <2>4, <2>5, <2>6, Beside
<1>6. Good(f)
  BY <1>5 DEF Keeps
<1> HIDE DEF f
<1>7. Keeps(f, AutoSwitch(f, e.scan), box)
  BY <1>6, SwitchKeeps
<1>8. Keeps(b, AutoSwitch(f, e.scan), box)
  BY <1>5, <1>7, KeepsOn
<1>9. Keeps(b, c, box) /\ Good(c)
  BY <1>3, UninstallKeeps, KeepsSelf DEF Keeps
<1> HIDE DEF c, refused
<1>10. Keeps(c, g, box)
  <2>1. DOMAIN c = Fields /\ WindowShape(c) /\ RequestShape(c)
    BY <1>9, GoodIs
  <2>2. DOMAIN g = Fields
    BY <2>1 DEF Fields
  <2>3. Fleets(c, g) /\ Shown(c, g)
    BY <2>1 DEF Fleets, Shown, Fields
  <2>4. WindowShape(g)
    BY <2>1, NothingCached DEF WindowShape, ScanOrNone, Fields
  <2>5. RequestShape(g)
    BY <2>1 DEF RequestShape, Fields
  <2>6. Kept(c, g)
    BY <2>1 DEF Kept, Way, Leaving, ProducersBusy, Fields
  <2> QED BY <1>9, <2>2, <2>3, <2>4, <2>5, <2>6, Beside
<1> HIDE DEF g
<1>11. Keeps(b, g, box)
  BY <1>9, <1>10, KeepsOn
<1>12. Keeps(a, AutoSwitch(f, e.scan), box) /\ Keeps(a, g, box) /\ Keeps(a, a, box)
  BY <1>2, <1>8, <1>11, KeepsOn, KeepsSelf
<1> QED BY <1>1, <1>12

\* A frame asks what covers the panel's directory.
LEMMA LookKeeps ==
    ASSUME NEW a, NEW box, Good(a)
    PROVE  Keeps(a, Look(a), box)
<1> DEFINE refused == a.refused \cap {a.cwd}
           b == [a EXCEPT !.refused = refused]
           c == SendBrowse(b, "Covering", None)
           covering == c.covering \cup {[req |-> c.req, dir |-> a.cwd]}
           d == [c EXCEPT !.covering = covering]
<1>0. Good(a) /\ None \in ScanOrNone /\ "Covering" \in Asks \ {"Open"}
  BY DEF ScanOrNone, Asks
<1>1. a.cwd \in DOMAIN a.cache => a.cache[a.cwd] \in ScanOrNone
  BY GoodIs DEF WindowShape
<1>2. Look(a) = CASE a.cwd \in DOMAIN a.cache -> AutoSwitch(b, a.cache[a.cwd])
          [] a.cwd \notin DOMAIN a.cache /\ (b.refused # {} \/ \E r \in a.covering : r.dir = a.cwd) -> b
          [] OTHER -> IF Sent(b, c) THEN d ELSE c
  BY DEF Look
<1> HIDE DEF refused
<1>3. Keeps(a, b, box)
  <2>1. DOMAIN a = Fields /\ WindowShape(a) /\ RequestShape(a)
    BY <1>0, GoodIs
  <2>2. DOMAIN b = Fields
    BY <2>1 DEF Fields
  <2>3. Fleets(a, b) /\ Shown(a, b)
    BY <2>1 DEF Fleets, Shown, Fields
  <2>4. WindowShape(b)
    BY <2>1, NothingCached DEF WindowShape, ScanOrNone, Fields
  <2>5. RequestShape(b)
    BY <2>1 DEF RequestShape, Fields
  <2>6. Kept(a, b)
    BY <2>1 DEF Kept, Way, Leaving, ProducersBusy, Fields
  <2> QED BY <1>0, <2>2, <2>3, <2>4, <2>5, <2>6, Beside
<1>4. Good(b)
  BY <1>3 DEF Keeps
<1> HIDE DEF b
<1>5. Keeps(b, c, box) /\ Good(c)
  <2>1. PICK kind \in Asks \ {"Open"}, scan \in ScanOrNone : kind = "Covering" /\ scan = None
    BY <1>0
  <2>2. kind \notin Writes
    BY <2>1 DEF Writes
  <2> QED BY <1>4, <2>1, <2>2, SendKeeps
<1> HIDE DEF c
<1>6. \A r \in covering : r.req \in 0..c.req
  BY <1>5, GoodIs DEF RequestShape
<1> HIDE DEF covering
<1>7. Keeps(c, d, box)
  <2>1. DOMAIN c = Fields /\ WindowShape(c) /\ RequestShape(c)
    BY <1>5, GoodIs
  <2>2. DOMAIN d = Fields
    BY <2>1 DEF Fields
  <2>3. Fleets(c, d) /\ Shown(c, d)
    BY <2>1 DEF Fleets, Shown, Fields
  <2>4. WindowShape(d)
    BY <2>1, NothingCached DEF WindowShape, ScanOrNone, Fields
  <2>5. RequestShape(d)
    BY <2>1, <1>6 DEF RequestShape, Fields
  <2>6. Kept(c, d)
    BY <2>1 DEF Kept, Way, Leaving, ProducersBusy, Fields
  <2> QED BY <1>5, <2>2, <2>3, <2>4, <2>5, <2>6, Beside
<1> HIDE DEF d
<1>8. Keeps(b, d, box)
  BY <1>5, <1>7, KeepsOn
<1>9. a.cwd \in DOMAIN a.cache => Keeps(b, AutoSwitch(b, a.cache[a.cwd]), box)
  BY <1>1, <1>4, SwitchKeeps
<1>10. a.cwd \in DOMAIN a.cache => Keeps(a, AutoSwitch(b, a.cache[a.cwd]), box)
  BY <1>3, <1>9, KeepsOn
<1>11. Keeps(a, d, box) /\ Keeps(a, c, box)
  BY <1>3, <1>5, <1>8, KeepsOn
<1> QED BY <1>2, <1>3, <1>10, <1>11

\* A change of role ends the actor, and asks for another.
LEMMA OperatorKeeps ==
    ASSUME NEW a, NEW box, Good(a)
    PROVE  Keeps(a, BecomeOperator(a), box)
<1> DEFINE b == [a EXCEPT !.readOnly = FALSE]
           c == [b EXCEPT !.spawn = << >>]
           s == <<a.cur>>
           d == [b EXCEPT !.spawn = s]
<1>0. Good(a)
  OBVIOUS
<1>1. BecomeOperator(a) = IF a.fleet = "Idle"
                          THEN IF a.cur = None THEN c ELSE OpenViaActor(c, a.cur, FALSE)
                          ELSE BeginClose(d)
  BY DEF BecomeOperator
<1>2. a.cur \in ScanOrNone /\ \E x \in ScanOrNone : s = <<x>>
  BY GoodIs DEF WindowShape
<1> HIDE DEF s
<1>3. Keeps(a, b, box)
  <2>1. DOMAIN a = Fields /\ WindowShape(a) /\ RequestShape(a)
    BY <1>0, GoodIs
  <2>2. DOMAIN b = Fields
    BY <2>1 DEF Fields
  <2>3. Fleets(a, b) /\ Shown(a, b)
    BY <2>1 DEF Fleets, Shown, Fields
  <2>4. WindowShape(b)
    BY <2>1, NothingCached DEF WindowShape, ScanOrNone, Fields
  <2>5. RequestShape(b)
    BY <2>1 DEF RequestShape, Fields
  <2>6. Kept(a, b)
    BY <2>1 DEF Kept, Way, Leaving, ProducersBusy, Fields
  <2> QED BY <1>0, <2>2, <2>3, <2>4, <2>5, <2>6, Beside
<1>4. Good(b)
  BY <1>3 DEF Keeps
<1> HIDE DEF b
<1>5. Keeps(b, c, box)
  <2>1. DOMAIN b = Fields /\ WindowShape(b) /\ RequestShape(b)
    BY <1>4, GoodIs
  <2>2. DOMAIN c = Fields
    BY <2>1 DEF Fields
  <2>3. Fleets(b, c) /\ Shown(b, c)
    BY <2>1 DEF Fleets, Shown, Fields
  <2>4. WindowShape(c)
    BY <2>1, NothingCached DEF WindowShape, ScanOrNone, Fields
  <2>5. RequestShape(c)
    BY <2>1 DEF RequestShape, Fields
  <2>6. Kept(b, c)
    BY <2>1 DEF Kept, Way, Leaving, ProducersBusy, Fields
  <2> QED BY <1>4, <2>2, <2>3, <2>4, <2>5, <2>6, Beside
<1>6. Keeps(b, d, box)
  <2>1. DOMAIN b = Fields /\ WindowShape(b) /\ RequestShape(b)
    BY <1>4, GoodIs
  <2>2. DOMAIN d = Fields
    BY <2>1 DEF Fields
  <2>3. Fleets(b, d) /\ Shown(b, d)
    BY <2>1 DEF Fleets, Shown, Fields
  <2>4. WindowShape(d)
    BY <2>1, NothingCached, <1>2 DEF WindowShape, ScanOrNone, Fields
  <2>5. RequestShape(d)
    BY <2>1 DEF RequestShape, Fields
  <2>6. Kept(b, d)
    BY <2>1 DEF Kept, Way, Leaving, ProducersBusy, Fields
  <2> QED BY <1>4, <2>2, <2>3, <2>4, <2>5, <2>6, Beside
<1>7. Good(c) /\ Good(d)
  BY <1>5, <1>6 DEF Keeps
<1> HIDE DEF c, d
<1>8. Keeps(c, OpenViaActor(c, a.cur, FALSE), box)
  <2>1. PICK no \in BOOLEAN : no = FALSE
    OBVIOUS
  <2> QED BY <1>2, <1>7, <2>1, OpenKeeps
<1>9. Keeps(d, BeginClose(d), box)
  BY <1>7, BeginCloseKeeps
<1> DEFINE x == OpenViaActor(c, a.cur, FALSE)
           y == BeginClose(d)
<1> HIDE DEF x, y
<1>10. Keeps(c, x, box) /\ Keeps(d, y, box)
  BY <1>8, <1>9 DEF x, y
<1>11. Keeps(b, x, box) /\ Keeps(b, y, box)
  BY <1>5, <1>6, <1>10, KeepsOn
<1>12. Keeps(a, c, box) /\ Keeps(a, x, box) /\ Keeps(a, y, box)
  BY <1>3, <1>5, <1>11, KeepsOn
<1> QED BY <1>1, <1>12 DEF x, y

-----------------------------------------------------------------------------
(* The invariant                                                           *)

Threads == [st : {"running", "dropped", "ended"}, active : [scan : ScanOrNone, act : Nat], poisoned : BOOLEAN]

One(x) == IF x THEN 1 ELSE 0

Count(box, kind) == Cardinality({m \in DOMAIN box : box[m].kind = kind})

\* What the window counts as under way is under way, or its report stands in the inbox.
Counts(a, box) ==
    /\ a.moves = a.work.moves + Count(box, "MoveDone")
    /\ a.purges = a.work.purges + Count(box, "Purged")
    /\ a.probes = a.work.probes + Count(box, "Probe")
    /\ One(a.scan) = One(a.work.scan) + Count(box, "ScanFinished")
    /\ One(a.apply) = One(a.work.apply # None) + Count(box, "ApplyFinished")

\* Between steps an actor that has not ended is the one whose terminal the fleet is owed.
Hosted ==
    /\ DOMAIN thread = DOMAIN app.born
    /\ \A i \in DOMAIN thread :
          /\ thread[i] \in Threads
          /\ thread[i].st # "ended" => TerminalOwed(app) /\ i = app.actor

\* The events, and what each says is so.
Posted(box) ==
    /\ box \in Seq(Events)
    /\ \A m \in DOMAIN box :
          /\ box[m].kind = "ApplyFinished" => box[m].res \in Batches /\ box[m].scan # None
          /\ box[m].kind = "Plan" /\ box[m].res = "ok" => box[m].scan # None
          /\ box[m].kind = "Closed" => box[m].req \in DOMAIN thread /\ thread[box[m].req].st = "ended"

Spent ==
    /\ left \in [given : [Kinds -> Nat], now : [Kinds -> Nat]]
    /\ signals \in [requested : BOOLEAN, count : Int] /\ signals.count = Kills

Stored == db \subseteq Scans /\ stale \subseteq db

\* A key never leaves a batch, and a pass that is to end nothing shows what is under way.
Exits ==
    /\ pc \in {"pass", "event", "ended"}
    /\ Leaving(app) /\ (pc = "event" \/ ~app.quit => Way(app))
    /\ app.keyQuit => app.quit /\ pc # "event" /\ ~app.apply
    /\ app.prompt => ~app.apply
    /\ pc = "ended" => app.quit

IInv ==
    /\ Good(app) /\ Hosted /\ Lands(app, inbox) /\ Posted(inbox)
    /\ Counts(app, inbox) /\ Spent /\ Stored /\ Exits

-----------------------------------------------------------------------------
(* Counting events                                                         *)

\* How many events of a kind stand in the inbox is a number, and none if it is zero.
LEMMA CountIs ==
    ASSUME NEW box \in Seq(Events), NEW kind
    PROVE  /\ IsFiniteSet({m \in DOMAIN box : box[m].kind = kind}) /\ Count(box, kind) \in Nat
           /\ Count(box, kind) = 0 => \A m \in DOMAIN box : box[m].kind # kind
<1> DEFINE s == {m \in DOMAIN box : box[m].kind = kind}
<1>1. Len(box) \in Nat /\ DOMAIN box = 1..Len(box)
  BY LenProperties
<1>2. IsFiniteSet(1..Len(box))
  BY <1>1, FS_Interval
<1>3. s \in SUBSET (1..Len(box))
  BY <1>1
<1> HIDE DEF s
<1>4. IsFiniteSet(s) /\ Cardinality(s) \in Nat
  BY <1>2, <1>3, FS_Subset, FS_CardinalityType
<1>5. Cardinality(s) = 0 => s = {}
  BY <1>4, FS_EmptySet
<1> QED BY <1>4, <1>5 DEF s, Count

\* An event sent stands behind those before it.
LEMMA AppendIs ==
    ASSUME NEW box \in Seq(Events), NEW e \in Events
    PROVE  LET b == Append(box, e)
               n == Len(box) + 1
           IN  /\ b \in Seq(Events) /\ DOMAIN b = DOMAIN box \cup {n} /\ n \notin DOMAIN box /\ b[n] = e
               /\ \A m \in DOMAIN box : m # n /\ b[m] = box[m]
<1>1. Len(box) \in Nat /\ DOMAIN box = 1..Len(box)
  BY LenProperties
<1>2. /\ Append(box, e) \in Seq(Events) /\ Len(Append(box, e)) = Len(box) + 1
      /\ \A i \in 1..Len(box) : Append(box, e)[i] = box[i]
      /\ Append(box, e)[Len(box) + 1] = e
  BY AppendProperties
<1>3. DOMAIN Append(box, e) = 1..Len(box) + 1
  BY <1>2, LenProperties
<1> QED BY <1>1, <1>2, <1>3

\* An event sent is counted under its kind.
LEMMA CountAppend ==
    ASSUME NEW box \in Seq(Events), NEW e \in Events, NEW kind
    PROVE  Count(Append(box, e), kind) = Count(box, kind) + One(e.kind = kind)
<1> DEFINE b == Append(box, e)
           n == Len(box) + 1
           s == {m \in DOMAIN box : box[m].kind = kind}
           t == {m \in DOMAIN b : b[m].kind = kind}
<1>1. /\ DOMAIN b = DOMAIN box \cup {n} /\ n \notin DOMAIN box /\ b[n] = e
      /\ \A m \in DOMAIN box : m # n /\ b[m] = box[m]
  BY AppendIs
<1>2. IsFiniteSet(s) /\ Cardinality(s) \in Nat
  BY CountIs DEF Count
<1>3. n \notin s /\ Count(b, kind) = Cardinality(t) /\ Count(box, kind) = Cardinality(s)
  BY <1>1 DEF Count
<1>4. CASE e.kind = kind
  <2>1. t = s \cup {n}
    BY <1>1, <1>4
  <2> HIDE DEF s, t, n
  <2>2. Cardinality(t) = Cardinality(s) + 1
    BY <1>2, <1>3, <2>1, FS_AddElement
  <2> QED BY <1>3, <1>4, <2>2 DEF One
<1>5. CASE e.kind # kind
  <2>1. t = s
    BY <1>1, <1>5
  <2> HIDE DEF s, t
  <2> QED BY <1>2, <1>3, <1>5, <2>1 DEF One
<1> QED BY <1>4, <1>5

\* An event taken is no longer counted.
LEMMA CountTail ==
    ASSUME NEW box \in Seq(Events), box # << >>, NEW kind
    PROVE  Count(box, kind) = Count(Tail(box), kind) + One(Head(box).kind = kind)
<1> DEFINE b == Tail(box)
           s == {m \in DOMAIN b : b[m].kind = kind}
           t == {m \in DOMAIN box : box[m].kind = kind}
           u == t \ {1}
           f == [m \in s |-> m + 1]
<1>1. /\ b \in Seq(Events) /\ Head(box) = box[1] /\ 1 \in DOMAIN box
      /\ \A m \in DOMAIN b : m + 1 \in DOMAIN box /\ m + 1 # 1 /\ b[m] = box[m + 1]
      /\ \A m \in DOMAIN box : m = 1 \/ (m - 1 \in DOMAIN b /\ b[m - 1] = box[m])
      /\ DOMAIN b \subseteq Nat /\ DOMAIN box \subseteq Nat
  BY TailIs
<1>2. IsFiniteSet(s) /\ Cardinality(s) \in Nat /\ IsFiniteSet(t) /\ Cardinality(t) \in Nat
  BY <1>1, CountIs DEF Count
<1>3. f \in Bijection(s, u)
  <2>1. f \in [s -> u]
    BY <1>1
  <2>2. \A x \in u : x - 1 \in s /\ f[x - 1] = x
    BY <1>1
  <2>3. \A x, y \in s : x # y => f[x] # f[y]
    BY <1>1
  <2> HIDE DEF f, s, u
  <2> QED BY <2>1, <2>2, <2>3 DEF Bijection, Injection, Surjection, IsInjective
<1>4. ExistsBijection(s, u)
  BY <1>3 DEF ExistsBijection
<1>5. 1 \in t <=> Head(box).kind = kind
  BY <1>1
<1>8. Count(box, kind) = Cardinality(t) /\ Count(Tail(box), kind) = Cardinality(s)
  BY DEF Count
<1> HIDE DEF s, t, f
<1>6. Cardinality(u) = Cardinality(s)
  BY <1>2, <1>4, FS_Bijection
<1>7. Cardinality(u) = IF 1 \in t THEN Cardinality(t) - 1 ELSE Cardinality(t)
  BY <1>2, FS_RemoveElement
<1> QED BY <1>2, <1>5, <1>6, <1>7, <1>8 DEF One

-----------------------------------------------------------------------------
(* The end of a handler's step                                             *)

\* An event that answers no open and no settlement.
LEMMA LandsWith ==
    ASSUME NEW a, NEW box \in Seq(Events), NEW e \in Events, e.kind \notin {"Open", "Reconcile"}, Lands(a, box)
    PROVE  Lands(a, Append(box, e))
<1> DEFINE b == Append(box, e)
           n == Len(box) + 1
<1>1. /\ DOMAIN b = DOMAIN box \cup {n} /\ n \notin DOMAIN box /\ b[n] = e
      /\ \A m \in DOMAIN box : m # n /\ b[m] = box[m]
  BY AppendIs
<1> HIDE DEF b, n
<1>2. ~Answers(e, a) /\ ~Installs(e, a) /\ e.kind # "Reconcile" /\ e.kind # "Open"
  BY DEF Answers, Installs
<1>3. BoxOK(a, b)
  BY <1>1, <1>2 DEF Lands, BoxOK
<1>4. ASSUME NEW i \in DOMAIN a.queue, Runs(i) PROVE AsksWell(a, b, i)
  BY <1>1, <1>2, <1>4 DEF Lands, AsksWell
<1>5. ASSUME NEW i \in DOMAIN a.queue, Runs(i) PROVE WorksFor(a, b, i)
  BY <1>1, <1>2, <1>5 DEF Lands, WorksFor
<1> QED BY <1>3, <1>4, <1>5 DEF Lands, b

\* An actor that has not taken anything has nothing installed; one joined runs no more.
LEMMA Joined ==
    ASSUME Hosted, NEW n, NEW rest, Good(n), Become(n, rest)
    PROVE  /\ app' = n /\ DOMAIN thread' = DOMAIN n.born
           /\ \A i \in DOMAIN n.born :
                 /\ thread'[i] \in Threads
                 /\ thread'[i].st # "ended" => TerminalOwed(n) /\ i = n.actor
                 /\ i \in DOMAIN thread => /\ thread'[i].active = thread[i].active
                                           /\ thread'[i].st \in {thread[i].st, "ended"}
                 /\ i \notin DOMAIN thread => thread'[i].active = Inactive
           /\ DOMAIN thread \subseteq DOMAIN n.born
<1> DEFINE joined == {i \in DOMAIN thread : /\ thread[i].st = "dropped"
                                            /\ i = app.actor /\ TerminalOwed(app)
                                            /\ ~(TerminalOwed(n) /\ n.actor = i)}
<1>1. app' = n /\ thread' = [i \in DOMAIN n.born |->
                        IF i \notin DOMAIN thread THEN Fresh
                        ELSE IF i \in joined THEN [thread[i] EXCEPT !.st = "ended"] ELSE thread[i]]
  BY DEF Become
<1>2. Housed(n) /\ DOMAIN thread \subseteq DOMAIN n.born
  BY DEF Good, Loose, Housed
<1>3. Fresh \in Threads /\ Fresh.active = Inactive
  <2>1. None \in ScanOrNone /\ 0 \in Nat
    BY DEF ScanOrNone
  <2> QED BY <2>1 DEF Fresh, Threads, Inactive
<1> SUFFICES ASSUME NEW i \in DOMAIN n.born
             PROVE  /\ thread'[i] \in Threads
                    /\ thread'[i].st # "ended" => TerminalOwed(n) /\ i = n.actor
                    /\ i \in DOMAIN thread => /\ thread'[i].active = thread[i].active
                                              /\ thread'[i].st \in {thread[i].st, "ended"}
                    /\ i \notin DOMAIN thread => thread'[i].active = Inactive
  BY <1>1, <1>2
<1>4. CASE i \notin DOMAIN thread
  BY <1>1, <1>2, <1>3, <1>4 DEF Housed
<1>5. CASE i \in joined
  <2>1. thread'[i] = [thread[i] EXCEPT !.st = "ended"] /\ thread[i] \in Threads
    BY <1>1, <1>5 DEF Hosted
  <2> QED BY <1>5, <2>1 DEF Threads
<1>6. CASE i \in DOMAIN thread /\ i \notin joined
  <2>1. thread'[i] = thread[i] /\ thread[i] \in Threads
    BY <1>1, <1>6 DEF Hosted
  <2>2. thread[i].st # "ended" => TerminalOwed(n) /\ i = n.actor
    BY <1>2, <1>6, <2>1 DEF Hosted, Housed, Threads
  <2> QED BY <1>6, <2>1, <2>2
<1> QED BY <1>4, <1>5, <1>6

\* What the handlers left App as, and the thread they spawned or joined, stand together.
LEMMA Became ==
    ASSUME Hosted, NEW n, NEW rest, Good(n), Lands(n, rest), Posted(rest), Become(n, rest), stale' \subseteq stale
    PROVE  /\ Good(app)' /\ Hosted' /\ Lands(app, inbox)' /\ Posted(inbox)'
           /\ \A kind : kind # "Closed" => Count(inbox', kind) = Count(rest, kind)
<1> DEFINE closed == Event("Closed", 0, app.actor, "Panicked", None)
           joined == {i \in DOMAIN thread : /\ thread[i].st = "dropped"
                                            /\ i = app.actor /\ TerminalOwed(app)
                                            /\ ~(TerminalOwed(n) /\ n.actor = i)}
<1>1. /\ app' = n /\ DOMAIN thread' = DOMAIN n.born
      /\ \A i \in DOMAIN n.born :
            /\ thread'[i] \in Threads
            /\ thread'[i].st # "ended" => TerminalOwed(n) /\ i = n.actor
            /\ i \in DOMAIN thread => /\ thread'[i].active = thread[i].active
                                      /\ thread'[i].st \in {thread[i].st, "ended"}
            /\ i \notin DOMAIN thread => thread'[i].active = Inactive
      /\ DOMAIN thread \subseteq DOMAIN n.born
  BY Joined
<1>2. Hosted'
  BY <1>1 DEF Hosted, TerminalOwed
<1>3. Good(app)'
  <2>0. DOMAIN n = Fields /\ WindowShape(n) /\ RequestShape(n) /\ FleetShape(n)
        /\ n.pending \subseteq n.ledger /\ (n.fleet = "Idle" => n.ledger = {})
    BY DEF Good, Loose, Shape
  <2>1. DOMAIN app' = Fields /\ WindowShape(app)' /\ RequestShape(app)' /\ FleetShape(app)'
        /\ (app.pending \subseteq app.ledger)' /\ (app.fleet = "Idle" => app.ledger = {})'
    <3>1. WindowShape(app)'
      BY <1>1, <2>0 DEF WindowShape
    <3>2. RequestShape(app)'
      BY <1>1, <2>0 DEF RequestShape
    <3>3. FleetShape(app)'
      BY <1>1, <2>0 DEF FleetShape, TerminalOwed
    <3> QED BY <1>1, <2>0, <3>1, <3>2, <3>3
  <2>2. Housed(app)'
    BY <1>1 DEF Housed, TerminalOwed, Threads
  <2> QED BY <2>1, <2>2 DEF Good, Loose, Shape
<1>4. inbox' = rest \/ (inbox' = Append(rest, closed) /\ app.actor \in joined)
  <2>1. CASE joined = {}
    BY <2>1 DEF Become
  <2>2. CASE joined # {}
    BY <2>2 DEF Become
  <2> QED BY <2>1, <2>2
<1>5. app.actor \in joined => closed \in Events /\ thread'[app.actor].st = "ended" /\ app.actor \in DOMAIN thread'
  <2> SUFFICES ASSUME app.actor \in joined
               PROVE  closed \in Events /\ thread'[app.actor].st = "ended" /\ app.actor \in DOMAIN thread'
    OBVIOUS
  <2>1. n.born \in Seq(Roles)
    BY GoodIs DEF FleetShape
  <2>2. DOMAIN n.born \subseteq Nat
    BY <2>1, LenProperties
  <2>3. app.actor \in DOMAIN n.born
    BY <1>1
  <2>4. closed \in Events
    BY <2>2, <2>3 DEF Event, Events, Kind, Results, ScanOrNone
  <2>5. thread'[app.actor].st = "ended"
    BY <1>1, <2>3
  <2> QED BY <1>1, <2>3, <2>4, <2>5
<1>6. closed.kind = "Closed" /\ closed.req = app.actor
  BY DEF Event
<1> HIDE DEF closed, joined
<1>7. rest \in Seq(Events)
  BY DEF Posted
<1>8. \A m \in DOMAIN rest : rest[m].kind = "Closed" =>
         rest[m].req \in DOMAIN thread' /\ thread'[rest[m].req].st = "ended"
  BY <1>1 DEF Posted
<1>9. Posted(inbox)'
  <2>1. CASE inbox' = rest
    BY <1>7, <1>8, <2>1 DEF Posted
  <2>2. CASE inbox' = Append(rest, closed) /\ app.actor \in joined
    <3>1. /\ inbox' \in Seq(Events) /\ DOMAIN inbox' = DOMAIN rest \cup {Len(rest) + 1} /\ inbox'[Len(rest) + 1] = closed
          /\ \A m \in DOMAIN rest : inbox'[m] = rest[m]
      BY <1>5, <1>7, <2>2, AppendIs
    <3> QED BY <1>5, <1>6, <1>8, <2>2, <3>1 DEF Posted
  <2> QED BY <1>4, <2>1, <2>2
<1>10. \A kind : kind # "Closed" => Count(inbox', kind) = Count(rest, kind)
  <2>1. CASE inbox' = rest
    BY <2>1
  <2>2. CASE inbox' = Append(rest, closed) /\ app.actor \in joined
    <3> SUFFICES ASSUME NEW kind, kind # "Closed" PROVE Count(inbox', kind) = Count(rest, kind)
      OBVIOUS
    <3>0. closed \in Events
      BY <1>5, <2>2
    <3>1. Count(Append(rest, closed), kind) = Count(rest, kind) + One(closed.kind = kind) /\ Count(rest, kind) \in Nat
      <4>1. Count(rest, kind) \in Nat
        BY <1>7, CountIs
      <4>2. Count(Append(rest, closed), kind) = Count(rest, kind) + One(closed.kind = kind)
        BY <1>7, <3>0, CountAppend
      <4> QED BY <4>1, <4>2
    <3>2. One(closed.kind = kind) = 0
      BY <1>6 DEF One
    <3> QED BY <2>2, <3>1, <3>2
  <2> QED BY <1>4, <2>1, <2>2
<1>11. Lands(n, inbox')
  <2>1. CASE inbox' = rest
    BY <2>1
  <2>2. CASE inbox' = Append(rest, closed) /\ app.actor \in joined
    <3>1. Lands(n, Append(rest, closed))
      BY <1>5, <1>6, <1>7, <2>2, LandsWith
    <3> QED BY <2>2, <3>1
  <2> QED BY <1>4, <2>1, <2>2
<1>12. Lands(app, inbox)'
  <2>1. DOMAIN n.queue = DOMAIN n.born
    <3>1. n.queue \in Seq(Seq(RequestsTo(n.req))) /\ n.born \in Seq(Roles) /\ Len(n.queue) = Len(n.born)
      BY GoodIs DEF FleetShape
    <3> QED BY <3>1, LenProperties
  <2>2. ASSUME NEW i \in DOMAIN n.queue, Runs(i)'
        PROVE  /\ Runs(i) /\ (i \in DOMAIN thread' => thread'[i].active = Active(i)) /\ i \in DOMAIN thread'
    <3>1. i \in DOMAIN thread' /\ thread'[i].st = "running"
      BY <1>1, <2>1, <2>2 DEF Runs
    <3> QED BY <1>1, <2>1, <3>1 DEF Runs, Active
  <2>3. ASSUME NEW i \in DOMAIN n.queue, Runs(i)' PROVE AsksWell(app, inbox, i)'
    <3>1. AsksWell(n, inbox', i) /\ thread'[i].active = Active(i) /\ i \in DOMAIN thread'
      BY <1>11, <2>2, <2>3 DEF Lands
    <3> QED BY <1>1, <3>1 DEF AsksWell, Answers, Active
  <2>4. ASSUME NEW i \in DOMAIN n.queue, Runs(i)' PROVE WorksFor(app, inbox, i)'
    <3>1. WorksFor(n, inbox', i) /\ thread'[i].active = Active(i) /\ i \in DOMAIN thread'
      BY <1>11, <2>2, <2>4 DEF Lands
    <3> QED BY <1>1, <3>1 DEF WorksFor, Answers, Installs, Active
  <2>5. BoxOK(app, inbox)'
    BY <1>1, <1>11 DEF Lands, BoxOK, Answers, Installs
  <2>6. OwesOK(app)'
    BY <1>1, <1>11 DEF Lands, OwesOK
  <2> QED BY <1>1, <2>3, <2>4, <2>5, <2>6 DEF Lands
<1> QED BY <1>2, <1>3, <1>9, <1>10, <1>12

-----------------------------------------------------------------------------
(* The loop                                                                *)

\* The window goes on: what is under way is on screen.
Onward == pc = "event" \/ ~app.quit

\* While the loop goes on, no key has quit it.
LEMMA OnwardIs ==
    ASSUME IInv, Onward
    PROVE  Way(app) /\ Leaving(app) /\ ~app.keyQuit
BY DEF IInv, Exits, Onward

\* A step that takes no signal leaves the count of kills alone.
LEMMA SpentOn ==
    ASSUME Spent, signals' = signals, left' = left \/ \E kind \in Kinds \ {"kill"} : Spend(kind)
    PROVE  Spent'
<1>1. CASE left' = left
  BY <1>1 DEF Spent, Kills
<1>2. CASE \E kind \in Kinds \ {"kill"} : Spend(kind)
  <2>1. PICK kind \in Kinds \ {"kill"} : left.now[kind] > 0 /\ left' = [left EXCEPT !.now[kind] = @ - 1]
    BY <1>2 DEF Spend
  <2>2. left \in [given : [Kinds -> Nat], now : [Kinds -> Nat]] /\ "kill" \in Kinds
    BY DEF Spent, Kinds
  <2>3. left.now[kind] - 1 \in Nat
    BY <2>1, <2>2
  <2> DEFINE now == [left.now EXCEPT ![kind] = left.now[kind] - 1]
  <2>4. now \in [Kinds -> Nat] /\ now["kill"] = left.now["kill"]
    BY <2>2, <2>3
  <2>5. left' = [left EXCEPT !.now = now]
    BY <2>1, <2>2
  <2> HIDE DEF now
  <2>6. left' \in [given : [Kinds -> Nat], now : [Kinds -> Nat]] /\ left'.given = left.given /\ left'.now = now
    BY <2>2, <2>4, <2>5
  <2> QED BY <2>4, <2>6 DEF Spent, Kills
<1> QED BY <1>1, <1>2

\* A step of the loop keeps the invariant if its handlers kept App and the counts.
LEMMA StepKeeps ==
    ASSUME IInv, NEW n, NEW rest, Become(n, rest), Good(n), Lands(n, rest), Posted(rest), Counts(n, rest),
           signals' = signals, Spent', db' = db, stale' \subseteq stale, pc' \in {"pass", "event"},
           Leaving(n), pc' = "event" \/ ~n.quit => Way(n),
           n.keyQuit => n.quit /\ pc' # "event" /\ ~n.apply, n.prompt => ~n.apply
    PROVE  IInv'
<1>1. Hosted /\ Stored
  BY DEF IInv
<1>2. /\ Good(app)' /\ Hosted' /\ Lands(app, inbox)' /\ Posted(inbox)'
      /\ \A kind : kind # "Closed" => Count(inbox', kind) = Count(rest, kind)
  BY <1>1, Became
<1>3. app' = n
  BY DEF Become
<1>4. Counts(app, inbox)'
  <2>1. /\ Count(inbox', "MoveDone") = Count(rest, "MoveDone")
        /\ Count(inbox', "Purged") = Count(rest, "Purged")
        /\ Count(inbox', "Probe") = Count(rest, "Probe")
        /\ Count(inbox', "ScanFinished") = Count(rest, "ScanFinished")
        /\ Count(inbox', "ApplyFinished") = Count(rest, "ApplyFinished")
    BY <1>2
  <2> QED BY <1>3, <2>1 DEF Counts
<1>5. Stored'
  BY <1>1 DEF Stored
<1>6. Exits'
  <2>1. Leaving(app)'
    BY <1>3 DEF Leaving, ProducersBusy
  <2>2. (pc' = "event" \/ ~n.quit) => Way(app)'
    BY <1>3, <2>1 DEF Way
  <2> QED BY <1>3, <2>1, <2>2 DEF Exits
<1> QED BY <1>2, <1>4, <1>5, <1>6 DEF IInv

\* And so does one that takes no event and starts and ends no work.
LEMMA PassOn ==
    ASSUME IInv, Onward, NEW n, Become(n, inbox), Keeps(app, n, inbox),
           signals' = signals, Spent', db' = db, stale' \subseteq stale, pc' \in {"pass", "event"}
    PROVE  IInv'
<1>1. Way(app) /\ Leaving(app) /\ ~app.keyQuit /\ Lands(app, inbox) /\ Posted(inbox) /\ Counts(app, inbox)
      /\ (app.prompt => ~app.apply)
  BY OnwardIs DEF IInv, Exits
<1>2. Good(n) /\ Kept(app, n) /\ Lands(n, inbox)
  BY <1>1 DEF Keeps
<1>3. Counts(n, inbox) /\ Way(n) /\ Leaving(n) /\ ~n.keyQuit /\ (n.prompt => ~n.apply)
  BY <1>1, <1>2 DEF Kept, Counts
<1> QED BY <1>1, <1>2, <1>3, StepKeeps

\* The flags a pass reads.
LEMMA FlagsKeep ==
    ASSUME IInv, NEW box
    PROVE  Keeps(app, Flags, box) /\ Good(Flags)
<1> DEFINE a == IF signals.requested THEN RequestShutdown(app, signals.count > 1) ELSE app
<1>1. Good(app) /\ signals.count \in Int
  BY DEF IInv, Spent, Kills, Kinds
<1>2. Keeps(app, a, box) /\ Good(a)
  <2>1. CASE ~signals.requested
    BY <1>1, <2>1, KeepsSelf
  <2>2. CASE signals.requested /\ signals.count > 1
    <3>1. ~(signals.count <= 1)
      BY <1>1, <2>2
    <3>2. Keeps(app, RequestShutdown(app, TRUE), box)
      BY <1>1, <3>1, ForcedKeeps
    <3>3. RequestShutdown(app, signals.count > 1) = RequestShutdown(app, TRUE)
      BY <2>2 DEF RequestShutdown
    <3> QED BY <2>2, <3>2, <3>3 DEF Keeps
  <2>3. CASE signals.requested /\ ~(signals.count > 1)
    <3>1. Keeps(app, RequestShutdown(app, FALSE), box)
      BY <1>1, ShutdownKeeps
    <3>2. RequestShutdown(app, signals.count > 1) = RequestShutdown(app, FALSE)
      BY <2>3 DEF RequestShutdown
    <3> QED BY <2>3, <3>1, <3>2 DEF Keeps
  <2> QED BY <2>1, <2>2, <2>3
<1>3. Flags = IF tuiDead \/ lost THEN RequestShutdown(a, FALSE) ELSE a
  BY DEF Flags
<1> HIDE DEF a
<1>4. Keeps(a, RequestShutdown(a, FALSE), box)
  BY <1>2, ShutdownKeeps
<1>5. Keeps(app, RequestShutdown(a, FALSE), box) /\ Good(RequestShutdown(a, FALSE))
  BY <1>2, <1>4, KeepsOn DEF Keeps
<1> QED BY <1>2, <1>3, <1>5

\* The frame a pass draws.
LEMMA DrawnKeeps ==
    ASSUME IInv, NEW box
    PROVE  Keeps(app, Drawn, box) /\ Good(Drawn)
<1>1. Keeps(app, Flags, box) /\ Good(Flags)
  BY FlagsKeep
<1>2. Keeps(Flags, Look(Flags), box)
  BY <1>1, LookKeeps
<1>3. Keeps(app, Look(Flags), box)
  BY <1>1, <1>2, KeepsOn
<1> QED BY <1>1, <1>3 DEF Drawn, Keeps

\* A pass.
LEMMA PassKeeps == ASSUME IInv, Pass PROVE IInv'
<1>1. /\ Become(Drawn, inbox) /\ pc' = "event" /\ signals' = signals /\ left' = left
      /\ db' = db /\ stale' = stale /\ Onward
  BY DEF Pass, Onward
<1>2. Keeps(app, Drawn, inbox) /\ Spent'
  BY <1>1, DrawnKeeps, SpentOn DEF IInv
<1> QED BY <1>1, <1>2, PassOn

\* A pass whose frame could not be written.
LEMMA PassLosesTerminalKeeps == ASSUME IInv, PassLosesTerminal PROVE IInv'
<1> DEFINE n == RequestShutdown(Drawn, FALSE)
<1>1. /\ Become(n, inbox) /\ pc' = "event" /\ signals' = signals /\ Spend("lose")
      /\ db' = db /\ stale' = stale /\ Onward /\ "lose" \in Kinds \ {"kill"}
  BY DEF PassLosesTerminal, Onward, Kinds
<1>2. Keeps(app, Drawn, inbox) /\ Good(Drawn) /\ Spent'
  BY <1>1, DrawnKeeps, SpentOn DEF IInv
<1>3. Keeps(app, n, inbox)
  BY <1>2, ShutdownKeeps, KeepsOn
<1> HIDE DEF n
<1> QED BY <1>1, <1>2, <1>3, PassOn

\* Nothing of the window, of the actors and of the inbox moves.
LEMMA Resting ==
    ASSUME IInv, UNCHANGED <<app, thread, inbox, stale>>
    PROVE  /\ Good(app)' /\ Hosted' /\ Lands(app, inbox)' /\ Posted(inbox)' /\ Counts(app, inbox)'
<1>1. Good(app)'
  <2>1. app' = app /\ thread' = thread /\ Good(app)
    BY DEF IInv
  <2>2. WindowShape(app)' /\ RequestShape(app)'
    BY <2>1 DEF Good, Loose, Shape, WindowShape, RequestShape
  <2>3. FleetShape(app)'
    BY <2>1 DEF Good, Loose, Shape, FleetShape, TerminalOwed
  <2>4. Housed(app)'
    BY <2>1 DEF Good, Loose, Housed, TerminalOwed
  <2>5. (DOMAIN app = Fields /\ app.pending \subseteq app.ledger /\ (app.fleet = "Idle" => app.ledger = {}))'
    BY <2>1 DEF Good, Loose, Shape
  <2> QED BY <2>2, <2>3, <2>4, <2>5 DEF Good, Loose, Shape
<1>2. Hosted' /\ Posted(inbox)' /\ Counts(app, inbox)'
  BY DEF IInv, Hosted, Posted, Counts, TerminalOwed, Count
<1>3. Lands(app, inbox)'
  BY DEF IInv, Lands, Runs, Active, AsksWell, WorksFor, BoxOK, OwesOK, Answers, Installs
<1> QED BY <1>1, <1>2, <1>3

\* The loop ends.
LEMMA EndKeeps == ASSUME IInv, End PROVE IInv'
<1>1. UNCHANGED <<app, thread, inbox, stale, db, signals, left>> /\ pc' = "ended" /\ app.quit /\ pc = "pass"
  BY DEF End
<1>2. Spent' /\ Stored'
  BY <1>1, SpentOn DEF IInv, Stored
<1>3. Exits'
  BY <1>1 DEF IInv, Exits, Leaving, ProducersBusy
<1> QED BY <1>1, <1>2, <1>3, Resting DEF IInv

\* No event came for 200 ms.
LEMMA TimeoutKeeps == ASSUME IInv, Timeout PROVE IInv'
<1>1. UNCHANGED <<app, thread, inbox, stale, db, signals, left>> /\ pc' = "pass" /\ pc = "event"
  BY DEF Timeout
<1>2. Spent' /\ Stored'
  BY <1>1, SpentOn DEF IInv, Stored
<1>3. Exits'
  BY <1>1 DEF IInv, Exits, Leaving, Way, ProducersBusy
<1> QED BY <1>1, <1>2, <1>3, Resting DEF IInv

\* A signal is counted as it is spent.
LEMMA SignalKeeps == ASSUME IInv, Signal PROVE IInv'
<1>1. UNCHANGED <<app, thread, inbox, stale, db, pc>>
  BY DEF Signal
<1>2. Stored'
  BY <1>1 DEF IInv, Stored
<1>3. Spent' /\ signals.count \in Int /\ signals'.count \in {signals.count, signals.count + 1}
  <2>1. Spent /\ signals.count \in Int /\ left \in [given : [Kinds -> Nat], now : [Kinds -> Nat]]
        /\ "kill" \in Kinds /\ "hangup" \in Kinds
    BY DEF IInv, Spent, Kills, Kinds
  <2>2. CASE Spend("kill") /\ signals' = [requested |-> TRUE, count |-> signals.count + 1]
    <3>1. left.now["kill"] > 0 /\ left' = [left EXCEPT !.now["kill"] = @ - 1]
      BY <2>2 DEF Spend
    <3> DEFINE now == [left.now EXCEPT !["kill"] = left.now["kill"] - 1]
    <3>2. now \in [Kinds -> Nat] /\ now["kill"] = left.now["kill"] - 1
      BY <2>1, <3>1
    <3>3. left' = [left EXCEPT !.now = now]
      BY <2>1, <3>1
    <3> HIDE DEF now
    <3>4. left' \in [given : [Kinds -> Nat], now : [Kinds -> Nat]] /\ left'.given = left.given /\ left'.now = now
      BY <2>1, <3>2, <3>3
    <3>5. signals'.count = signals.count + 1 /\ left.given["kill"] \in Nat /\ left.now["kill"] \in Nat
          /\ signals.count = left.given["kill"] - left.now["kill"]
          /\ signals' \in [requested : BOOLEAN, count : Int]
      BY <2>1, <2>2 DEF Spent, Kills
    <3>6. Kills' = left.given["kill"] - (left.now["kill"] - 1)
      BY <3>2, <3>4 DEF Kills
    <3>7. signals'.count = Kills'
      BY <3>5, <3>6
    <3> QED BY <2>1, <3>4, <3>5, <3>7 DEF Spent
  <2>3. CASE Spend("hangup") /\ signals' = [signals EXCEPT !.requested = TRUE]
    <3>1. left.now["hangup"] > 0 /\ left' = [left EXCEPT !.now["hangup"] = @ - 1]
      BY <2>3 DEF Spend
    <3> DEFINE now == [left.now EXCEPT !["hangup"] = left.now["hangup"] - 1]
    <3>2. now \in [Kinds -> Nat] /\ now["kill"] = left.now["kill"]
      BY <2>1, <3>1
    <3>3. left' = [left EXCEPT !.now = now]
      BY <2>1, <3>1
    <3> HIDE DEF now
    <3>4. left' \in [given : [Kinds -> Nat], now : [Kinds -> Nat]] /\ left'.given = left.given /\ left'.now = now
      BY <2>1, <3>2, <3>3
    <3>5. signals'.count = signals.count /\ signals' \in [requested : BOOLEAN, count : Int]
      BY <2>1, <2>3 DEF Spent
    <3>6. Kills' = left.given["kill"] - left.now["kill"]
      BY <3>2, <3>4 DEF Kills
    <3>7. signals'.count = Kills'
      BY <2>1, <3>5, <3>6 DEF Spent, Kills
    <3> QED BY <2>1, <3>4, <3>5, <3>7 DEF Spent
  <2> QED BY <2>2, <2>3 DEF Signal
<1>4. Exits'
  <2>1. Exits /\ (signals'.count <= 1 => signals.count <= 1)
    BY <1>3 DEF IInv
  <2>2. Leaving(app)' /\ (Way(app) => Way(app)')
    BY <1>1, <2>1 DEF Exits, Leaving, Way, ProducersBusy
  <2> QED BY <1>1, <2>1, <2>2 DEF Exits
<1> QED BY <1>1, <1>2, <1>3, <1>4, Resting DEF IInv

-----------------------------------------------------------------------------
(* Events                                                                  *)

Outcome == {"MoveDone", "Purged", "Probe", "ScanFinished", "ApplyFinished"}

\* What the first event of the inbox says is so.
LEMMA TakenIs ==
    ASSUME IInv, inbox # << >>
    PROVE  /\ Head(inbox) \in Events /\ Posted(Tail(inbox)) /\ inbox \in Seq(Events)
           /\ Head(inbox).kind = "ApplyFinished" => Head(inbox).res \in Batches /\ Head(inbox).scan # None
           /\ Head(inbox).kind = "Plan" /\ Head(inbox).res = "ok" => Head(inbox).scan # None
           /\ Head(inbox).kind = "Closed" => Head(inbox).req \in DOMAIN thread /\ thread[Head(inbox).req].st = "ended"
<1>1. Posted(inbox)
  BY DEF IInv
<1>2. inbox \in Seq(Events)
  BY <1>1 DEF Posted
<1>3. /\ Tail(inbox) \in Seq(Events) /\ Head(inbox) = inbox[1] /\ 1 \in DOMAIN inbox /\ Head(inbox) \in Events
      /\ \A m \in DOMAIN Tail(inbox) : m + 1 \in DOMAIN inbox /\ Tail(inbox)[m] = inbox[m + 1]
  BY <1>2, TailIs
<1> DEFINE t == Tail(inbox)
           e == Head(inbox)
<1> HIDE DEF t, e
<1>4. Posted(t)
  BY <1>1, <1>3 DEF Posted, t
<1>5. /\ e.kind = "ApplyFinished" => e.res \in Batches /\ e.scan # None
      /\ e.kind = "Plan" /\ e.res = "ok" => e.scan # None
      /\ e.kind = "Closed" => e.req \in DOMAIN thread /\ thread[e.req].st = "ended"
  BY <1>1, <1>3 DEF Posted, e
<1> QED BY <1>2, <1>3, <1>4, <1>5 DEF t, e

\* An event counted is one less to come, and the counts of the others stand.
LEMMA CountedIs ==
    ASSUME IInv, inbox # << >>, NEW kind
    PROVE  /\ Count(Tail(inbox), kind) \in Nat
           /\ Head(inbox).kind = kind => Count(inbox, kind) = Count(Tail(inbox), kind) + 1
           /\ Head(inbox).kind # kind => Count(inbox, kind) = Count(Tail(inbox), kind)
<1>1. inbox \in Seq(Events) /\ Tail(inbox) \in Seq(Events)
  BY TakenIs DEF Posted
<1>2. Count(Tail(inbox), kind) \in Nat /\ Count(inbox, kind) = Count(Tail(inbox), kind) + One(Head(inbox).kind = kind)
  BY <1>1, CountIs, CountTail
<1> QED BY <1>2 DEF One

Took(n) == /\ pc = "event" /\ pc' = "pass" /\ Become(n, Tail(inbox))
           /\ UNCHANGED <<signals, db, stale, left>>

\* An event was handled, and its outcome counted.
LEMMA EventKeeps ==
    ASSUME IInv, inbox # << >>, NEW n, Took(n), Good(n), Lands(n, Tail(inbox)), Counts(n, Tail(inbox)),
           Leaving(n), n.quit \/ Way(n), n.keyQuit = app.keyQuit, n.prompt = app.prompt, n.apply => app.apply
    PROVE  IInv'
<1>1. Onward /\ pc' = "pass" /\ Become(n, Tail(inbox)) /\ signals' = signals /\ db' = db /\ stale' = stale /\ left' = left
  BY DEF Took, Onward
<1>2. ~app.keyQuit /\ (app.prompt => ~app.apply) /\ Posted(Tail(inbox)) /\ Spent'
  BY <1>1, OnwardIs, TakenIs, SpentOn DEF IInv, Exits
<1> QED BY <1>1, <1>2, StepKeeps

\* The answers.
LEMMA AnswerKeeps ==
    ASSUME IInv, inbox # << >>, NEW n, Took(n), Comes(app, n, Tail(inbox)), Head(inbox).kind \notin Outcome
    PROVE  IInv'
<1>1. Way(app) /\ Counts(app, inbox)
  BY OnwardIs DEF IInv, Took, Onward
<1>2. Good(n) /\ Kept(app, n) /\ Lands(n, Tail(inbox))
  BY DEF Comes
<1>3. /\ Count(inbox, "MoveDone") = Count(Tail(inbox), "MoveDone")
      /\ Count(inbox, "Purged") = Count(Tail(inbox), "Purged")
      /\ Count(inbox, "Probe") = Count(Tail(inbox), "Probe")
      /\ Count(inbox, "ScanFinished") = Count(Tail(inbox), "ScanFinished")
      /\ Count(inbox, "ApplyFinished") = Count(Tail(inbox), "ApplyFinished")
  BY CountedIs DEF Outcome
<1>4. Counts(n, Tail(inbox))
  BY <1>1, <1>2, <1>3 DEF Counts, Kept
<1>5. Way(n) /\ Leaving(n) /\ n.keyQuit = app.keyQuit /\ n.prompt = app.prompt /\ (n.apply => app.apply)
  BY <1>1, <1>2 DEF Kept, Way
<1> QED BY <1>2, <1>4, <1>5, EventKeeps

\* Each answer of the actor has its handler, and that keeps what it must.
LEMMA AnsweredEvent ==
    ASSUME IInv, Took(HandleEvent(app, Head(inbox))), inbox # << >>, Head(inbox).kind \notin Outcome
    PROVE  IInv'
<1> DEFINE e == Head(inbox)
           t == Tail(inbox)
           n == HandleEvent(app, e)
<1>1. Good(app) /\ Lands(app, inbox) /\ inbox \in Seq(Events) /\ e \in Events
  BY TakenIs DEF IInv
<1>2. e.scan \in ScanOrNone /\ e.kind \in Kind
  BY <1>1 DEF Events
<1>3. CASE e.kind = "Open"
  <2>1. n = OnOpenFinished(app, e)
    BY <1>3 DEF HandleEvent
  <2>2. Comes(app, OnOpenFinished(app, e), t)
    BY <1>1, <1>3, OpenFinishedComes
  <2> HIDE DEF n
  <2>3. Comes(app, n, t) /\ Took(n)
    BY <2>1, <2>2 DEF n
  <2> QED BY <2>3, AnswerKeeps
<1>4. CASE e.kind = "Reconcile"
  <2>1. n = OnReconcileAck(app, e)
    BY <1>4 DEF HandleEvent
  <2>2. Comes(app, OnReconcileAck(app, e), t)
    BY <1>1, <1>4, ReconcileComes
  <2> HIDE DEF n
  <2>3. Comes(app, n, t) /\ Took(n)
    BY <2>1, <2>2 DEF n
  <2> QED BY <2>3, AnswerKeeps
<1>5. ASSUME Keeps(app, n, t), e.kind # "Open" PROVE IInv'
  <2>1. ~Answers(e, app)
    BY <1>5 DEF Answers
  <2> HIDE DEF n
  <2>2. Comes(app, n, t)
    BY <1>1, <1>5, <2>1, ComesWith
  <2>3. Took(n)
    BY DEF n
  <2> QED BY <2>2, <2>3, AnswerKeeps
<1>6. CASE e.kind = "Count"
  <2>1. n = OnMarkedCount(app, e)
    BY <1>6 DEF HandleEvent
  <2>2. Keeps(app, OnMarkedCount(app, e), t)
    BY <1>1, CountKeeps
  <2> QED BY <1>5, <1>6, <2>1, <2>2
<1>7. CASE e.kind = "Group"
  <2>1. n = OnGroup(app, e)
    BY <1>7 DEF HandleEvent
  <2>2. Keeps(app, OnGroup(app, e), t)
    BY <1>1, GroupKeeps
  <2> QED BY <1>5, <1>7, <2>1, <2>2
<1>8. CASE e.kind \in {"SetMarks", "ClearMarks"}
  <2>1. n = OnMarkAck(app, e)
    BY <1>8 DEF HandleEvent
  <2>2. Keeps(app, OnMarkAck(app, e), t)
    BY <1>1, MarkAckKeeps
  <2> QED BY <1>5, <1>8, <2>1, <2>2
<1>9. CASE e.kind = "Plan"
  <2>1. n = OnPlan(app, e)
    BY <1>9 DEF HandleEvent
  <2>2. Keeps(app, OnPlan(app, e), t)
    BY <1>1, <1>2, <1>9, TakenIs, PlanKeeps
  <2> QED BY <1>5, <1>9, <2>1, <2>2
<1>10. CASE e.kind = "Covering"
  <2>1. n = OnCoveringScan(app, e)
    BY <1>10 DEF HandleEvent
  <2>2. Keeps(app, OnCoveringScan(app, e), t)
    BY <1>1, <1>2, CoveringKeeps
  <2> QED BY <1>5, <1>10, <2>1, <2>2
<1>11. CASE e.kind = "Closed"
  <2>1. n = OnActorClosed(app, e)
    BY <1>11 DEF HandleEvent
  <2>2. Keeps(app, OnActorClosed(app, e), t)
    BY <1>1, <1>11, TakenIs, ClosedKeeps
  <2> QED BY <1>5, <1>11, <2>1, <2>2
<1> QED BY <1>2, <1>3, <1>4, <1>6, <1>7, <1>8, <1>9, <1>10, <1>11 DEF Kind, Outcome

\* A move's outcome.
LEMMA MoveDoneKeeps ==
    ASSUME IInv, Took(AskAgain([app EXCEPT !.moves = @ - 1])), inbox # << >>, Head(inbox).kind = "MoveDone"
    PROVE  IInv'
<1> DEFINE t == Tail(inbox)
           m == app.moves - 1
           b == [app EXCEPT !.moves = m]
           n == AskAgain(b)
<1>0. Good(app) /\ m \in Int /\ app.moves \in Int /\ (m > 0 => app.moves > 0)
  <2>1. Good(app)
    BY DEF IInv
  <2>2. app.moves \in Int
    BY <2>1, GoodIs DEF WindowShape
  <2> QED BY <2>1, <2>2
<1>2. Took(n)
  OBVIOUS
<1>3. Way(app) /\ Counts(app, inbox)
  BY OnwardIs DEF IInv, Took, Onward
<1>4. Lands(app, t)
  <2>1. ~Answers(Head(inbox), app) /\ inbox \in Seq(Events)
    BY TakenIs DEF Answers
  <2> QED BY <2>1, TailLands DEF IInv
<1>5. /\ Count(inbox, "MoveDone") = Count(t, "MoveDone") + 1
      /\ Count(inbox, "Purged") = Count(t, "Purged")
      /\ Count(inbox, "Probe") = Count(t, "Probe")
      /\ Count(inbox, "ScanFinished") = Count(t, "ScanFinished")
      /\ Count(inbox, "ApplyFinished") = Count(t, "ApplyFinished")
      /\ Count(t, "MoveDone") \in Nat
  BY CountedIs
<1>6. Counts(app, inbox) /\ app.work.moves \in Nat
  BY <1>0, <1>3, GoodIs DEF WindowShape, Works
<1> HIDE DEF m
<1>1a. DOMAIN app = Fields /\ WindowShape(app) /\ RequestShape(app) /\ FleetShape(app) /\ Housed(app)
       /\ app.pending \subseteq app.ledger /\ (app.fleet = "Idle" => app.ledger = {})
  BY <1>0 DEF Good, Loose, Shape
<1>1b. DOMAIN b = Fields /\ b.moves = m /\ Same(app, b, {"moves"})
  BY <1>1a DEF Fields, Same
<1> HIDE DEF b, t, n
<1>1c. /\ b.stage = app.stage /\ b.screen = app.screen /\ b.owed = app.owed /\ b.cur = app.cur /\ b.dedup = app.dedup /\ b.owes = app.owes
        /\ b.plan = app.plan /\ b.act = app.act /\ b.cache = app.cache /\ b.purges = app.purges /\ b.probes = app.probes /\ b.work = app.work
        /\ b.last = app.last /\ b.scan = app.scan /\ b.apply = app.apply /\ b.late = app.late /\ b.keyQuit = app.keyQuit /\ b.prompt = app.prompt
        /\ b.quit = app.quit /\ b.unsettled = app.unsettled /\ b.spawn = app.spawn /\ b.open = app.open
  BY <1>1b DEF Same, Fields
<1>1d. /\ b.req = app.req /\ b.marked = app.marked /\ b.planning = app.planning /\ b.reconcile = app.reconcile /\ b.settling = app.settling /\ b.groups = app.groups
        /\ b.covering = app.covering /\ b.gate = app.gate /\ b.pending = app.pending /\ b.ledger = app.ledger /\ b.fleet = app.fleet /\ b.actor = app.actor
        /\ b.born = app.born /\ b.queue = app.queue
  BY <1>1b DEF Same, Fields
<1>1e. WindowShape(b)
  BY <1>1a, <1>1b, <1>1c, <1>0 DEF WindowShape
<1>1f. RequestShape(b)
  BY <1>1a, <1>1b, <1>1c, <1>1d, <1>0 DEF RequestShape
<1>1g. FleetShape(b) /\ Housed(b)
  BY <1>1a, <1>1b, <1>1d DEF FleetShape, Housed, TerminalOwed
<1>1h. Good(b)
  BY <1>1a, <1>1b, <1>1d, <1>1e, <1>1f, <1>1g DEF Good, Loose, Shape
<1>7. Way(b)
  BY <1>0, <1>1a, <1>1b, <1>1c, <1>1d, <1>3 DEF Way, Leaving, ProducersBusy
<1>8. Lands(b, t)
  BY <1>1b, <1>1c, <1>1d, <1>4 DEF Lands, AsksWell, WorksFor, BoxOK, OwesOK, Answers, Installs
<1>9. Counts(b, t)
  <2>1. app.moves = app.work.moves + (Count(t, "MoveDone") + 1)
    BY <1>5, <1>6 DEF Counts
  <2>2. m = app.work.moves + Count(t, "MoveDone")
    BY <1>5, <1>6, <2>1 DEF m
  <2> QED BY <1>1b, <1>1c, <1>5, <1>6, <2>2 DEF Counts
<1>10. Keeps(b, n, t)
  BY <1>1h, AskAgainKeeps DEF n
<1>11. Good(n) /\ Lands(n, t) /\ Kept(b, n)
  BY <1>8, <1>10 DEF Keeps
<1>12. Counts(n, t) /\ Way(n) /\ Leaving(n) /\ n.keyQuit = app.keyQuit /\ n.prompt = app.prompt /\ (n.apply => app.apply)
  BY <1>1c, <1>7, <1>9, <1>11 DEF Counts, Kept, Way
<1> QED BY <1>2, <1>11, <1>12, EventKeeps DEF t

\* A deletion's outcome.
LEMMA PurgedKeeps ==
    ASSUME IInv, Took(AskAgain([app EXCEPT !.purges = @ - 1])), inbox # << >>, Head(inbox).kind = "Purged"
    PROVE  IInv'
<1> DEFINE t == Tail(inbox)
           m == app.purges - 1
           b == [app EXCEPT !.purges = m]
           n == AskAgain(b)
<1>0. Good(app) /\ m \in Int /\ app.purges \in Int /\ (m > 0 => app.purges > 0)
  <2>1. Good(app)
    BY DEF IInv
  <2>2. app.purges \in Int
    BY <2>1, GoodIs DEF WindowShape
  <2> QED BY <2>1, <2>2
<1>2. Took(n)
  OBVIOUS
<1>3. Way(app) /\ Counts(app, inbox)
  BY OnwardIs DEF IInv, Took, Onward
<1>4. Lands(app, t)
  <2>1. ~Answers(Head(inbox), app) /\ inbox \in Seq(Events)
    BY TakenIs DEF Answers
  <2> QED BY <2>1, TailLands DEF IInv
<1>5. /\ Count(inbox, "Purged") = Count(t, "Purged") + 1
      /\ Count(inbox, "MoveDone") = Count(t, "MoveDone")
      /\ Count(inbox, "Probe") = Count(t, "Probe")
      /\ Count(inbox, "ScanFinished") = Count(t, "ScanFinished")
      /\ Count(inbox, "ApplyFinished") = Count(t, "ApplyFinished")
      /\ Count(t, "Purged") \in Nat
  BY CountedIs
<1>6. Counts(app, inbox) /\ app.work.purges \in Nat
  BY <1>0, <1>3, GoodIs DEF WindowShape, Works
<1> HIDE DEF m
<1>1a. DOMAIN app = Fields /\ WindowShape(app) /\ RequestShape(app) /\ FleetShape(app) /\ Housed(app)
       /\ app.pending \subseteq app.ledger /\ (app.fleet = "Idle" => app.ledger = {})
  BY <1>0 DEF Good, Loose, Shape
<1>1b. DOMAIN b = Fields /\ b.purges = m /\ Same(app, b, {"purges"})
  BY <1>1a DEF Fields, Same
<1> HIDE DEF b, t, n
<1>1c. /\ b.stage = app.stage /\ b.screen = app.screen /\ b.owed = app.owed /\ b.cur = app.cur /\ b.dedup = app.dedup /\ b.owes = app.owes
        /\ b.plan = app.plan /\ b.act = app.act /\ b.cache = app.cache /\ b.moves = app.moves /\ b.probes = app.probes /\ b.work = app.work
        /\ b.last = app.last /\ b.scan = app.scan /\ b.apply = app.apply /\ b.late = app.late /\ b.keyQuit = app.keyQuit /\ b.prompt = app.prompt
        /\ b.quit = app.quit /\ b.unsettled = app.unsettled /\ b.spawn = app.spawn /\ b.open = app.open
  BY <1>1b DEF Same, Fields
<1>1d. /\ b.req = app.req /\ b.marked = app.marked /\ b.planning = app.planning /\ b.reconcile = app.reconcile /\ b.settling = app.settling /\ b.groups = app.groups
        /\ b.covering = app.covering /\ b.gate = app.gate /\ b.pending = app.pending /\ b.ledger = app.ledger /\ b.fleet = app.fleet /\ b.actor = app.actor
        /\ b.born = app.born /\ b.queue = app.queue
  BY <1>1b DEF Same, Fields
<1>1e. WindowShape(b)
  BY <1>1a, <1>1b, <1>1c, <1>0 DEF WindowShape
<1>1f. RequestShape(b)
  BY <1>1a, <1>1b, <1>1c, <1>1d, <1>0 DEF RequestShape
<1>1g. FleetShape(b) /\ Housed(b)
  BY <1>1a, <1>1b, <1>1d DEF FleetShape, Housed, TerminalOwed
<1>1h. Good(b)
  BY <1>1a, <1>1b, <1>1d, <1>1e, <1>1f, <1>1g DEF Good, Loose, Shape
<1>7. Way(b)
  BY <1>0, <1>1a, <1>1b, <1>1c, <1>1d, <1>3 DEF Way, Leaving, ProducersBusy
<1>8. Lands(b, t)
  BY <1>1b, <1>1c, <1>1d, <1>4 DEF Lands, AsksWell, WorksFor, BoxOK, OwesOK, Answers, Installs
<1>9. Counts(b, t)
  <2>1. app.purges = app.work.purges + (Count(t, "Purged") + 1)
    BY <1>5, <1>6 DEF Counts
  <2>2. m = app.work.purges + Count(t, "Purged")
    BY <1>5, <1>6, <2>1 DEF m
  <2> QED BY <1>1b, <1>1c, <1>5, <1>6, <2>2 DEF Counts
<1>10. Keeps(b, n, t)
  BY <1>1h, AskAgainKeeps DEF n
<1>11. Good(n) /\ Lands(n, t) /\ Kept(b, n)
  BY <1>8, <1>10 DEF Keeps
<1>12. Counts(n, t) /\ Way(n) /\ Leaving(n) /\ n.keyQuit = app.keyQuit /\ n.prompt = app.prompt /\ (n.apply => app.apply)
  BY <1>1c, <1>7, <1>9, <1>11 DEF Counts, Kept, Way
<1> QED BY <1>2, <1>11, <1>12, EventKeeps DEF t

\* A probe's answer, which may start a scan.
LEMMA ProbeKeeps ==
    ASSUME IInv, Took(OnResumeProbe(app, Head(inbox))), inbox # << >>, Head(inbox).kind = "Probe"
    PROVE  IInv'
<1> DEFINE t == Tail(inbox)
           e == Head(inbox)
           n == OnResumeProbe(app, e)
<1>0. Good(app) /\ Way(app) /\ Counts(app, inbox) /\ ~app.keyQuit /\ (app.prompt => ~app.apply)
  BY OnwardIs DEF IInv, Took, Onward, Exits
<1>1. e \in Events /\ inbox \in Seq(Events) /\ e.scan \in ScanOrNone
  BY TakenIs DEF Events
<1>2. Lands(app, t)
  <2>1. ~Answers(Head(inbox), app)
    BY DEF Answers
  <2> QED BY <1>1, <2>1, TailLands DEF IInv
<1>3. /\ Count(inbox, "Probe") = Count(t, "Probe") + 1
      /\ Count(inbox, "MoveDone") = Count(t, "MoveDone")
      /\ Count(inbox, "Purged") = Count(t, "Purged")
      /\ Count(inbox, "ScanFinished") = Count(t, "ScanFinished")
      /\ Count(inbox, "ApplyFinished") = Count(t, "ApplyFinished")
      /\ Count(t, "Probe") \in Nat
  BY CountedIs
<1>4. Took(n)
  OBVIOUS
<1>5. Good(n) /\ Lands(n, t) /\ Way(n) /\ n.probes = app.probes - 1 /\ Started(app, n)
  BY <1>0, <1>2, ProbeComes
<1>6. app.work.probes \in Nat /\ app.work \in Works /\ app.probes \in Int
  BY <1>0, GoodIs DEF WindowShape, Works
<1> HIDE DEF n, t
<1>7. Counts(n, t)
  <2>1. n.probes = app.work.probes + Count(t, "Probe")
    BY <1>0, <1>3, <1>5, <1>6 DEF Counts
  <2>2. CASE n.work = app.work /\ n.scan = app.scan
    BY <1>0, <1>3, <1>5, <2>1, <2>2 DEF Counts, Started
  <2>3. CASE ~app.scan /\ n.scan /\ n.work = [app.work EXCEPT !.scan = TRUE]
    <3>1. /\ n.work.moves = app.work.moves /\ n.work.purges = app.work.purges /\ n.work.probes = app.work.probes
          /\ n.work.apply = app.work.apply /\ n.work.scan
      BY <1>6, <2>3 DEF Works
    <3>2. One(app.scan) = 0 /\ One(n.scan) = 1 /\ One(n.work.scan) = 1 /\ One(app.work.scan) \in Nat
      BY <2>3, <3>1 DEF One
    <3>3. Count(t, "ScanFinished") = 0
      <4>1. Count(t, "ScanFinished") \in Nat
        BY <1>1, CountedIs DEF t
      <4> QED BY <1>0, <1>3, <3>2, <4>1 DEF Counts
    <3>4. n.moves = app.moves /\ n.purges = app.purges /\ n.apply = app.apply
      BY <1>5 DEF Started
    <3>5. One(n.apply) = One(app.apply) /\ One(n.work.apply # None) = One(app.work.apply # None)
      BY <3>1, <3>4 DEF One
    <3>6. n.moves = n.work.moves + Count(t, "MoveDone") /\ n.purges = n.work.purges + Count(t, "Purged")
      BY <1>0, <1>3, <3>1, <3>4 DEF Counts
    <3>7. n.probes = n.work.probes + Count(t, "Probe")
      BY <2>1, <3>1
    <3>8. One(n.scan) = One(n.work.scan) + Count(t, "ScanFinished")
      BY <3>2, <3>3
    <3>9. One(n.apply) = One(n.work.apply # None) + Count(t, "ApplyFinished")
      BY <1>0, <1>3, <3>5 DEF Counts
    <3> QED BY <3>6, <3>7, <3>8, <3>9 DEF Counts
  <2> QED BY <1>5, <2>2, <2>3 DEF Started
<1>8. Leaving(n) /\ n.keyQuit = app.keyQuit /\ n.prompt = app.prompt /\ (n.apply => app.apply)
  BY <1>5 DEF Way, Started
<1> QED BY <1>4, <1>5, <1>7, <1>8, EventKeeps DEF t

\* The outcome of a scan.
LEMMA ScanFinishedKeeps ==
    ASSUME IInv, Took(OnFinished(app, Head(inbox))), inbox # << >>, Head(inbox).kind = "ScanFinished"
    PROVE  IInv'
<1> DEFINE t == Tail(inbox)
           e == Head(inbox)
           n == OnFinished(app, e)
<1>0. Good(app) /\ Way(app) /\ Counts(app, inbox) /\ ~app.keyQuit /\ (app.prompt => ~app.apply)
  BY OnwardIs DEF IInv, Took, Onward, Exits
<1>1. e \in Events /\ inbox \in Seq(Events) /\ e.scan \in ScanOrNone
  BY TakenIs DEF Events
<1>2. Lands(app, t)
  <2>1. ~Answers(Head(inbox), app)
    BY DEF Answers
  <2> QED BY <1>1, <2>1, TailLands DEF IInv
<1>3. /\ Count(inbox, "ScanFinished") = Count(t, "ScanFinished") + 1
      /\ Count(inbox, "MoveDone") = Count(t, "MoveDone")
      /\ Count(inbox, "Purged") = Count(t, "Purged")
      /\ Count(inbox, "Probe") = Count(t, "Probe")
      /\ Count(inbox, "ApplyFinished") = Count(t, "ApplyFinished")
      /\ Count(t, "ScanFinished") \in Nat
  BY CountedIs
<1>4. Took(n)
  OBVIOUS
<1>5. app.scan /\ One(app.work.scan) = 0 /\ Count(t, "ScanFinished") = 0
  <2>1. One(app.scan) = One(app.work.scan) + (Count(t, "ScanFinished") + 1)
    BY <1>0, <1>3 DEF Counts
  <2>2. One(app.scan) \in {0, 1} /\ One(app.work.scan) \in {0, 1}
    BY DEF One
  <2>3. One(app.scan) = 1
    BY <1>3, <2>1, <2>2
  <2> QED BY <1>3, <2>1, <2>2, <2>3 DEF One
<1>6. Good(n) /\ Lands(n, t) /\ Stays(app, n) /\ ~n.scan /\ ~n.apply /\ Leaving(n) /\ (n.quit \/ Way(n))
  BY <1>0, <1>1, <1>2, <1>5, FinishedComes
<1> HIDE DEF n, t
<1>7. ~app.apply
  BY <1>0, <1>5 DEF Way
<1>8. One(n.scan) = 0 /\ One(n.apply) = 0 /\ One(app.apply) = 0
  BY <1>6, <1>7 DEF One
<1>9. Counts(n, t)
  BY <1>0, <1>3, <1>5, <1>6, <1>8 DEF Counts, Stays
<1>10. n.keyQuit = app.keyQuit /\ n.prompt = app.prompt
  BY <1>6 DEF Stays
<1> QED BY <1>4, <1>6, <1>9, <1>10, EventKeeps DEF t

\* The outcome of a batch.
LEMMA ApplyFinishedKeeps ==
    ASSUME IInv, Took(OnApplyFinished(app, Head(inbox))), inbox # << >>, Head(inbox).kind = "ApplyFinished"
    PROVE  IInv'
<1> DEFINE t == Tail(inbox)
           e == Head(inbox)
           n == OnApplyFinished(app, e)
<1>0. Good(app) /\ Way(app) /\ Counts(app, inbox) /\ ~app.keyQuit /\ (app.prompt => ~app.apply)
  BY OnwardIs DEF IInv, Took, Onward, Exits
<1>1. e \in Events /\ inbox \in Seq(Events) /\ e.scan \in ScanOrNone
  BY TakenIs DEF Events
<1>2. Lands(app, t)
  <2>1. ~Answers(Head(inbox), app)
    BY DEF Answers
  <2> QED BY <1>1, <2>1, TailLands DEF IInv
<1>3. /\ Count(inbox, "ApplyFinished") = Count(t, "ApplyFinished") + 1
      /\ Count(inbox, "MoveDone") = Count(t, "MoveDone")
      /\ Count(inbox, "Purged") = Count(t, "Purged")
      /\ Count(inbox, "Probe") = Count(t, "Probe")
      /\ Count(inbox, "ScanFinished") = Count(t, "ScanFinished")
      /\ Count(t, "ApplyFinished") \in Nat
  BY CountedIs
<1>4. Took(n)
  OBVIOUS
<1>5. app.apply /\ One(app.work.apply # None) = 0 /\ Count(t, "ApplyFinished") = 0
  <2>1. One(app.apply) = One(app.work.apply # None) + (Count(t, "ApplyFinished") + 1)
    BY <1>0, <1>3 DEF Counts
  <2>2. One(app.apply) \in {0, 1} /\ One(app.work.apply # None) \in {0, 1}
    BY DEF One
  <2>3. One(app.apply) = 1
    BY <1>3, <2>1, <2>2
  <2> QED BY <1>3, <2>1, <2>2, <2>3 DEF One
<1>6. Good(n) /\ Way(n) /\ Lands(n, t) /\ Stays(app, n) /\ ~n.apply /\ n.scan = app.scan
  BY <1>0, <1>1, <1>2, <1>5, TakenIs, ApplyComes
<1> HIDE DEF n, t
<1>7. One(n.apply) = 0
  BY <1>6 DEF One
<1>8. Counts(n, t)
  BY <1>0, <1>3, <1>5, <1>6, <1>7 DEF Counts, Stays
<1>9. Leaving(n) /\ n.keyQuit = app.keyQuit /\ n.prompt = app.prompt
  BY <1>6 DEF Way, Stays
<1> QED BY <1>4, <1>6, <1>8, <1>9, EventKeeps DEF t

\* An event is handled.
LEMMA HandleKeeps == ASSUME IInv, Handle PROVE IInv'
<1> DEFINE e == Head(inbox)
           n == HandleEvent(app, e)
<1>1. inbox # << >> /\ Took(n)
  BY DEF Handle, Took
<1>2. CASE e.kind \notin Outcome
  BY <1>1, <1>2, AnsweredEvent
<1>3. CASE e.kind = "MoveDone"
  <2>1. n = AskAgain([app EXCEPT !.moves = @ - 1])
    BY <1>3 DEF HandleEvent
  <2>2. Took(AskAgain([app EXCEPT !.moves = @ - 1]))
    BY <1>1, <2>1
  <2> QED BY <1>1, <1>3, <2>2, MoveDoneKeeps
<1>4. CASE e.kind = "Purged"
  <2>1. n = AskAgain([app EXCEPT !.purges = @ - 1])
    BY <1>4 DEF HandleEvent
  <2>2. Took(AskAgain([app EXCEPT !.purges = @ - 1]))
    BY <1>1, <2>1
  <2> QED BY <1>1, <1>4, <2>2, PurgedKeeps
<1>5. CASE e.kind = "Probe"
  <2>1. n = OnResumeProbe(app, e)
    BY <1>5 DEF HandleEvent
  <2>2. Took(OnResumeProbe(app, e))
    BY <1>1, <2>1
  <2> QED BY <1>1, <1>5, <2>2, ProbeKeeps
<1>6. CASE e.kind = "ScanFinished"
  <2>1. n = OnFinished(app, e)
    BY <1>6 DEF HandleEvent
  <2>2. Took(OnFinished(app, e))
    BY <1>1, <2>1
  <2> QED BY <1>1, <1>6, <2>2, ScanFinishedKeeps
<1>7. CASE e.kind = "ApplyFinished"
  <2>1. n = OnApplyFinished(app, e)
    BY <1>7 DEF HandleEvent
  <2>2. Took(OnApplyFinished(app, e))
    BY <1>1, <2>1
  <2> QED BY <1>1, <1>7, <2>2, ApplyFinishedKeeps
<1> QED BY <1>2, <1>3, <1>4, <1>5, <1>6, <1>7 DEF Outcome

-----------------------------------------------------------------------------
(* Keys                                                                    *)

\* A key whose handler keeps everything.
LEMMA PressKeeps ==
    ASSUME IInv, pc = "event", NEW n, Pressed(n), Keeps(app, n, inbox), stale' = stale,
           left' = left \/ \E kind \in Kinds \ {"kill"} : Spend(kind)
    PROVE  IInv'
<1>1. Onward /\ Become(n, inbox) /\ pc' = "pass" /\ signals' = signals /\ db' = db
  BY DEF Onward, Pressed
<1>2. Spent'
  BY <1>1, SpentOn DEF IInv
<1> QED BY <1>1, <1>2, PassOn

\* What the window is when a key comes.
LEMMA KeyIs ==
    ASSUME IInv, pc = "event"
    PROVE  /\ Good(app) /\ Way(app) /\ Leaving(app) /\ Lands(app, inbox) /\ Posted(inbox) /\ Counts(app, inbox)
           /\ ~app.keyQuit /\ (app.prompt => ~app.apply)
           /\ DOMAIN app = Fields /\ None \in ScanOrNone /\ app.dedup \in {None, app.cur}
           /\ app.dedup \in ScanOrNone /\ app.cur \in ScanOrNone /\ app.req \in Nat
<1>1. Good(app) /\ Lands(app, inbox) /\ Posted(inbox) /\ Counts(app, inbox) /\ Way(app) /\ ~app.keyQuit
      /\ Leaving(app) /\ (app.prompt => ~app.apply)
  BY OnwardIs DEF IInv, Onward, Exits
<1>2. DOMAIN app = Fields /\ app.dedup \in ScanOrNone /\ app.cur \in ScanOrNone /\ app.req \in Nat
  BY <1>1, GoodIs DEF WindowShape, RequestShape
<1> QED BY <1>1, <1>2 DEF Lands, OwesOK, ScanOrNone

\* The panel shows another directory.
LEMMA KeyCdKeeps == ASSUME IInv, KeyCd PROVE IInv'
<1>1. pc = "event" /\ stale' = stale /\ "cd" \in Kinds \ {"kill"} /\ Spend("cd")
  BY DEF KeyCd, Key, Kinds
<1>2. Good(app)
  BY <1>1, KeyIs
<1>3. PICK dir \in Dirs : Pressed([app EXCEPT !.cwd = dir])
  BY DEF KeyCd
<1> DEFINE b == [app EXCEPT !.cwd = dir]
<1>4. Keeps(app, b, inbox)
  <2>1. DOMAIN app = Fields /\ WindowShape(app) /\ RequestShape(app)
    BY <1>2, GoodIs
  <2>2. DOMAIN b = Fields
    BY <2>1 DEF Fields
  <2>3. Fleets(app, b) /\ Shown(app, b)
    BY <2>1 DEF Fleets, Shown, Fields
  <2>4. WindowShape(b)
    BY <2>1, NothingCached DEF WindowShape, ScanOrNone, Fields
  <2>5. RequestShape(b)
    BY <2>1 DEF RequestShape, Fields
  <2>6. Kept(app, b)
    BY <2>1 DEF Kept, Way, Leaving, ProducersBusy, Fields
  <2> QED BY <1>2, <2>2, <2>3, <2>4, <2>5, <2>6, Beside
<1> HIDE DEF b
<1>5. Pressed(b)
  BY <1>3 DEF b
<1> QED BY <1>1, <1>4, <1>5, PressKeeps

\* A mark.
LEMMA KeyMarkKeeps == ASSUME IInv, KeyMark PROVE IInv'
<1> DEFINE n == SendTicket(app, "SetMarks")
<1>1. pc = "event" /\ stale' = stale /\ "mark" \in Kinds \ {"kill"} /\ Spend("mark") /\ app.dedup # None /\ Pressed(n)
  BY DEF KeyMark, Command, Key, Kinds
<1>2. Good(app) /\ app.dedup = app.cur
  BY <1>1, KeyIs
<1>3. PICK kind \in {"SetMarks", "ClearMarks"} : kind = "SetMarks"
  OBVIOUS
<1>4. Keeps(app, n, inbox)
  BY <1>1, <1>2, <1>3, TicketKeeps
<1> HIDE DEF n
<1> QED BY <1>1, <1>4, PressKeeps

\* «Clear all marks» asks.
LEMMA KeyAskClearKeeps == ASSUME IInv, KeyAskClear PROVE IInv'
<1> DEFINE b == [app EXCEPT !.screen = "clear"]
<1>1. pc = "event" /\ stale' = stale /\ "clear" \in Kinds \ {"kill"} /\ Spend("clear") /\ app.screen = "panels" /\ Pressed(b)
  BY DEF KeyAskClear, Command, Key, Kinds
<1>2. Good(app) /\ Way(app)
  BY <1>1, KeyIs
<1>3. ~app.scan /\ ~app.apply /\ ~app.open.show
  BY <1>1, <1>2 DEF Way
<1>4. Keeps(app, b, inbox)
  <2>1. DOMAIN app = Fields /\ WindowShape(app) /\ RequestShape(app)
    BY <1>2, GoodIs
  <2>2. DOMAIN b = Fields
    BY <2>1 DEF Fields
  <2>3. Fleets(app, b) /\ Shown(app, b)
    BY <2>1 DEF Fleets, Shown, Fields
  <2>4. WindowShape(b)
    BY <2>1, NothingCached DEF WindowShape, ScanOrNone, Fields
  <2>5. RequestShape(b)
    BY <2>1 DEF RequestShape, Fields
  <2>6. Kept(app, b)
    BY <2>1, <1>3 DEF Kept, Way, Leaving, ProducersBusy, Fields
  <2> QED BY <1>2, <2>2, <2>3, <2>4, <2>5, <2>6, Beside
<1> HIDE DEF b
<1> QED BY <1>1, <1>4, PressKeeps

\* And is answered.
LEMMA KeyClearKeeps == ASSUME IInv, KeyClear PROVE IInv'
<1> DEFINE b == [app EXCEPT !.screen = "panels"]
           n == SendTicket(b, "ClearMarks")
<1>1. pc = "event" /\ stale' = stale /\ left' = left /\ app.screen = "clear"
      /\ (Pressed(b) \/ (app.dedup # None /\ Pressed(n)))
  BY DEF KeyClear, Key
<1>2. Good(app) /\ Way(app) /\ app.dedup \in {None, app.cur} /\ DOMAIN app = Fields
  BY <1>1, KeyIs
<1>3. ~app.scan /\ ~app.apply /\ ~app.open.show
  BY <1>1, <1>2 DEF Way
<1>4. Keeps(app, b, inbox)
  <2>1. DOMAIN app = Fields /\ WindowShape(app) /\ RequestShape(app)
    BY <1>2, GoodIs
  <2>2. DOMAIN b = Fields
    BY <2>1 DEF Fields
  <2>3. Fleets(app, b) /\ Shown(app, b)
    BY <2>1 DEF Fleets, Shown, Fields
  <2>4. WindowShape(b)
    BY <2>1, NothingCached DEF WindowShape, ScanOrNone, Fields
  <2>5. RequestShape(b)
    BY <2>1 DEF RequestShape, Fields
  <2>6. Kept(app, b)
    BY <2>1, <1>3 DEF Kept, Way, Leaving, ProducersBusy, Fields
  <2> QED BY <1>2, <2>2, <2>3, <2>4, <2>5, <2>6, Beside
<1>5. Good(b) /\ b.dedup = app.dedup /\ b.cur = app.cur
  BY <1>2, <1>4 DEF Keeps, Fields
<1> HIDE DEF b
<1>6. app.dedup # None => Keeps(app, n, inbox)
  <2> SUFFICES ASSUME app.dedup # None PROVE Keeps(app, n, inbox)
    OBVIOUS
  <2>1. PICK kind \in {"SetMarks", "ClearMarks"} : kind = "ClearMarks"
    OBVIOUS
  <2>2. b.dedup = b.cur /\ b.dedup # None
    BY <1>2, <1>5
  <2>3. Keeps(b, n, inbox)
    BY <1>5, <2>1, <2>2, TicketKeeps
  <2> HIDE DEF n
  <2> QED BY <1>4, <2>3, KeepsOn
<1> HIDE DEF n
<1> QED BY <1>1, <1>4, <1>6, PressKeeps

\* F11.
LEMMA KeyPlanKeeps == ASSUME IInv, KeyPlan PROVE IInv'
<1> DEFINE b == SendBrowse(app, "Plan", app.dedup)
           c == [b EXCEPT !.planning = b.req]
           n == IF Sent(app, b) THEN c ELSE b
<1>1. pc = "event" /\ stale' = stale /\ "plan" \in Kinds \ {"kill"} /\ Spend("plan") /\ Pressed(n)
  BY DEF KeyPlan, Command, Key, Kinds
<1>2. Good(app) /\ app.dedup \in ScanOrNone
  BY <1>1, KeyIs
<1>3. Keeps(app, b, inbox) /\ Good(b) /\ b.req \in Nat
  <2>1. PICK kind \in Asks \ {"Open"}, scan \in ScanOrNone : kind = "Plan" /\ scan = app.dedup
    BY <1>2 DEF Asks
  <2>2. kind \notin Writes
    BY <2>1 DEF Writes
  <2> QED BY <1>2, <2>1, <2>2, SendKeeps
<1> HIDE DEF b
<1>4. Keeps(b, c, inbox)
  <2>1. DOMAIN b = Fields /\ WindowShape(b) /\ RequestShape(b)
    BY <1>3, GoodIs
  <2>2. DOMAIN c = Fields
    BY <2>1 DEF Fields
  <2>3. Fleets(b, c) /\ Shown(b, c)
    BY <2>1 DEF Fleets, Shown, Fields
  <2>4. WindowShape(c)
    BY <2>1, NothingCached DEF WindowShape, ScanOrNone, Fields
  <2>5. RequestShape(c)
    BY <2>1, <1>3 DEF RequestShape, Fields
  <2>6. Kept(b, c)
    BY <2>1 DEF Kept, Way, Leaving, ProducersBusy, Fields
  <2> QED BY <1>3, <2>2, <2>3, <2>4, <2>5, <2>6, Beside
<1> HIDE DEF c
<1>5. Keeps(app, c, inbox)
  BY <1>3, <1>4, KeepsOn
<1>6. Keeps(app, n, inbox)
  BY <1>3, <1>5
<1> HIDE DEF n
<1> QED BY <1>1, <1>6, PressKeeps

\* A confirmation or a question is declined.
LEMMA KeyDeclineKeeps == ASSUME IInv, KeyDecline PROVE IInv'
<1> DEFINE b == [app EXCEPT !.plan = NoPlan, !.screen = "panels"]
           c == [app EXCEPT !.screen = "panels"]
<1>1. pc = "event" /\ stale' = stale /\ left' = left /\ app.screen \in {"confirm", "resume"} /\ (Pressed(b) \/ Pressed(c))
  BY DEF KeyDecline, Key
<1>2. Good(app) /\ Way(app)
  BY <1>1, KeyIs
<1>3. ~app.scan /\ ~app.apply /\ ~app.open.show
  BY <1>1, <1>2 DEF Way
<1>4. Keeps(app, b, inbox)
  <2>1. DOMAIN app = Fields /\ WindowShape(app) /\ RequestShape(app)
    BY <1>2, GoodIs
  <2>2. DOMAIN b = Fields
    BY <2>1 DEF Fields, NoPlan
  <2>3. Fleets(app, b) /\ Shown(app, b)
    BY <2>1 DEF Fleets, Shown, Fields, NoPlan
  <2>4. WindowShape(b)
    BY <2>1, NothingCached DEF WindowShape, ScanOrNone, Fields, NoPlan
  <2>5. RequestShape(b)
    BY <2>1 DEF RequestShape, Fields, NoPlan
  <2>6. Kept(app, b)
    BY <2>1, <1>3 DEF Kept, Way, Leaving, ProducersBusy, Fields, NoPlan
  <2> QED BY <1>2, <2>2, <2>3, <2>4, <2>5, <2>6, Beside
<1>5. Keeps(app, c, inbox)
  <2>1. DOMAIN app = Fields /\ WindowShape(app) /\ RequestShape(app)
    BY <1>2, GoodIs
  <2>2. DOMAIN c = Fields
    BY <2>1 DEF Fields
  <2>3. Fleets(app, c) /\ Shown(app, c)
    BY <2>1 DEF Fleets, Shown, Fields
  <2>4. WindowShape(c)
    BY <2>1, NothingCached DEF WindowShape, ScanOrNone, Fields
  <2>5. RequestShape(c)
    BY <2>1 DEF RequestShape, Fields
  <2>6. Kept(app, c)
    BY <2>1, <1>3 DEF Kept, Way, Leaving, ProducersBusy, Fields
  <2> QED BY <1>2, <2>2, <2>3, <2>4, <2>5, <2>6, Beside
<1> HIDE DEF b, c
<1> QED BY <1>1, <1>4, <1>5, PressKeeps

\* Esc over work.
LEMMA KeyStopKeeps == ASSUME IInv, KeyStop PROVE IInv'
<1> DEFINE s == app.stop \cup {"apply"}
           t == app.stop \cup {"scan"}
           b == [app EXCEPT !.stop = s]
           c == [app EXCEPT !.stop = t]
           n == LeaveScanScreen(app)
<1>1. pc = "event" /\ stale' = stale /\ left' = left
  BY DEF KeyStop, Key
<1>2. Good(app) /\ DOMAIN app = Fields
  BY <1>1, KeyIs
<1>3. Pressed(b) \/ Pressed(c) \/ (app.screen = "scanning" /\ ~app.scan /\ ~app.open.show /\ Pressed(n))
  BY <1>2 DEF KeyStop, Key, Fields
<1> HIDE DEF s, t
<1>4. Keeps(app, b, inbox)
  <2>1. DOMAIN app = Fields /\ WindowShape(app) /\ RequestShape(app)
    BY <1>2, GoodIs
  <2>2. DOMAIN b = Fields
    BY <2>1 DEF Fields
  <2>3. Fleets(app, b) /\ Shown(app, b)
    BY <2>1 DEF Fleets, Shown, Fields
  <2>4. WindowShape(b)
    BY <2>1, NothingCached DEF WindowShape, ScanOrNone, Fields
  <2>5. RequestShape(b)
    BY <2>1 DEF RequestShape, Fields
  <2>6. Kept(app, b)
    BY <2>1 DEF Kept, Way, Leaving, ProducersBusy, Fields
  <2> QED BY <1>2, <2>2, <2>3, <2>4, <2>5, <2>6, Beside
<1>5. Keeps(app, c, inbox)
  <2>1. DOMAIN app = Fields /\ WindowShape(app) /\ RequestShape(app)
    BY <1>2, GoodIs
  <2>2. DOMAIN c = Fields
    BY <2>1 DEF Fields
  <2>3. Fleets(app, c) /\ Shown(app, c)
    BY <2>1 DEF Fleets, Shown, Fields
  <2>4. WindowShape(c)
    BY <2>1, NothingCached DEF WindowShape, ScanOrNone, Fields
  <2>5. RequestShape(c)
    BY <2>1 DEF RequestShape, Fields
  <2>6. Kept(app, c)
    BY <2>1 DEF Kept, Way, Leaving, ProducersBusy, Fields
  <2> QED BY <1>2, <2>2, <2>3, <2>4, <2>5, <2>6, Beside
<1>6. app.screen = "scanning" /\ ~app.scan /\ ~app.open.show => Keeps(app, n, inbox)
  BY <1>2, LeaveKeeps
<1> HIDE DEF b, c, n
<1> QED BY <1>1, <1>3, <1>4, <1>5, <1>6, PressKeeps

\* Back to the commander.
LEMMA KeyBackKeeps == ASSUME IInv, KeyBack PROVE IInv'
<1> DEFINE b == [app EXCEPT !.screen = "panels"]
           c == OpenViaActor(b, app.cur, FALSE)
           n == IF app.cur = None THEN b ELSE c
<1>1. pc = "event" /\ stale' = stale /\ left' = left /\ app.screen \in {"summary", "browser"} /\ Pressed(n)
  BY DEF KeyBack, Key
<1>2. Good(app) /\ Way(app) /\ app.cur \in ScanOrNone
  BY <1>1, KeyIs
<1>3. ~app.scan /\ ~app.apply /\ ~app.open.show
  BY <1>1, <1>2 DEF Way
<1>4. Keeps(app, b, inbox)
  <2>1. DOMAIN app = Fields /\ WindowShape(app) /\ RequestShape(app)
    BY <1>2, GoodIs
  <2>2. DOMAIN b = Fields
    BY <2>1 DEF Fields
  <2>3. Fleets(app, b) /\ Shown(app, b)
    BY <2>1 DEF Fleets, Shown, Fields
  <2>4. WindowShape(b)
    BY <2>1, NothingCached DEF WindowShape, ScanOrNone, Fields
  <2>5. RequestShape(b)
    BY <2>1 DEF RequestShape, Fields
  <2>6. Kept(app, b)
    BY <2>1, <1>3 DEF Kept, Way, Leaving, ProducersBusy, Fields
  <2> QED BY <1>2, <2>2, <2>3, <2>4, <2>5, <2>6, Beside
<1>5. Good(b)
  BY <1>4 DEF Keeps
<1> HIDE DEF b
<1>6. PICK no \in BOOLEAN : no = FALSE
  OBVIOUS
<1>7. Keeps(b, c, inbox)
  BY <1>2, <1>5, <1>6, OpenKeeps
<1> HIDE DEF c
<1>8. Keeps(app, n, inbox)
  BY <1>4, <1>7, KeepsOn
<1> HIDE DEF n
<1> QED BY <1>1, <1>8, PressKeeps

\* The start-up question is answered.
LEMMA KeyRoleKeeps == ASSUME IInv, KeyRole PROVE IInv'
<1> DEFINE b == [app EXCEPT !.prompt = FALSE]
           c == BecomeOperator(b)
<1>1. pc = "event" /\ stale' = stale /\ app.prompt
  BY DEF KeyRole
<1>2. Good(app) /\ Way(app) /\ Leaving(app) /\ Lands(app, inbox) /\ Posted(inbox) /\ Counts(app, inbox)
      /\ ~app.keyQuit
  BY <1>1, KeyIs
<1>3. PICK n \in {b, c} : Pressed(n) /\ (left' = left \/ \E kind \in Kinds \ {"kill"} : Spend(kind))
  <2>1. "role" \in Kinds \ {"kill"}
    BY DEF Kinds
  <2> QED BY <2>1 DEF KeyRole
<1>4a. DOMAIN app = Fields /\ WindowShape(app) /\ RequestShape(app) /\ FleetShape(app) /\ Housed(app)
       /\ app.pending \subseteq app.ledger /\ (app.fleet = "Idle" => app.ledger = {})
  BY <1>2 DEF Good, Loose, Shape
<1>4b. DOMAIN b = Fields /\ b.prompt = FALSE /\ Same(app, b, {"prompt"})
  BY <1>4a DEF Fields, Same
<1> HIDE DEF b, c
<1>4c. /\ b.stage = app.stage /\ b.screen = app.screen /\ b.owed = app.owed /\ b.cur = app.cur /\ b.dedup = app.dedup /\ b.owes = app.owes
        /\ b.plan = app.plan /\ b.act = app.act /\ b.cache = app.cache /\ b.moves = app.moves /\ b.purges = app.purges /\ b.probes = app.probes
        /\ b.work = app.work /\ b.last = app.last /\ b.scan = app.scan /\ b.apply = app.apply /\ b.late = app.late /\ b.keyQuit = app.keyQuit
        /\ b.quit = app.quit /\ b.unsettled = app.unsettled /\ b.spawn = app.spawn /\ b.open = app.open
  BY <1>4b DEF Same, Fields
<1>4d. /\ b.req = app.req /\ b.marked = app.marked /\ b.planning = app.planning /\ b.reconcile = app.reconcile /\ b.settling = app.settling /\ b.groups = app.groups
        /\ b.covering = app.covering /\ b.gate = app.gate /\ b.pending = app.pending /\ b.ledger = app.ledger /\ b.fleet = app.fleet /\ b.actor = app.actor
        /\ b.born = app.born /\ b.queue = app.queue
  BY <1>4b DEF Same, Fields
<1>4e. WindowShape(b)
  BY <1>4a, <1>4b, <1>4c DEF WindowShape
<1>4f. RequestShape(b)
  BY <1>4a, <1>4b, <1>4c, <1>4d DEF RequestShape
<1>4g. FleetShape(b) /\ Housed(b)
  BY <1>4a, <1>4b, <1>4d DEF FleetShape, Housed, TerminalOwed
<1>4h. Good(b)
  BY <1>4a, <1>4b, <1>4d, <1>4e, <1>4f, <1>4g DEF Good, Loose, Shape
<1>5. Lands(b, inbox)
  BY <1>4b, <1>4c, <1>4d, <1>2 DEF Lands, AsksWell, WorksFor, BoxOK, OwesOK, Answers, Installs
<1>6. Way(b) /\ Counts(b, inbox) /\ ~b.keyQuit /\ ~b.prompt
  BY <1>4b, <1>4c, <1>4d, <1>2 DEF Way, Leaving, ProducersBusy, Counts
<1>7. Keeps(b, b, inbox) /\ Keeps(b, c, inbox)
  BY <1>4h, KeepsSelf, OperatorKeeps DEF c
<1>8. Keeps(b, n, inbox)
  BY <1>3, <1>7
<1>9. Good(n) /\ Lands(n, inbox) /\ Way(n) /\ Leaving(n) /\ Counts(n, inbox) /\ ~n.keyQuit /\ ~n.prompt
  BY <1>5, <1>6, <1>8 DEF Keeps, Kept, Way, Counts
<1>10. Become(n, inbox) /\ pc' = "pass" /\ signals' = signals /\ db' = db
  BY <1>3 DEF Pressed
<1>11. Spent'
  BY <1>3, <1>10, SpentOn DEF IInv
<1> QED BY <1>1, <1>2, <1>9, <1>10, <1>11, StepKeeps

\* Y starts the batch: nothing is owed to a batch before it.
LEMMA KeyConfirmKeeps == ASSUME IInv, KeyConfirm PROVE IInv'
<1> DEFINE work == [app.work EXCEPT !.apply = app.plan.scan]
           stop == app.stop \ {"apply"}
           last == [scan |-> app.plan.scan, owed |-> None]
           late == app.late \/ app.stage # "None"
           b == [app EXCEPT !.apply = TRUE, !.work = work, !.stop = stop, !.plan = NoPlan, !.unsettled = FALSE,
                            !.screen = "applying", !.late = app.late \/ app.stage # "None", !.last = last]
<1>1. pc = "event" /\ "confirm" \in Kinds \ {"kill"} /\ Spend("confirm") /\ app.screen = "confirm" /\ app.plan.valid
      /\ ~app.prompt /\ stale' = {}
  BY DEF KeyConfirm, Key, Kinds
<1>2. Good(app) /\ Way(app) /\ Leaving(app) /\ Lands(app, inbox) /\ Posted(inbox) /\ Counts(app, inbox)
      /\ ~app.keyQuit /\ (app.prompt => ~app.apply) /\ DOMAIN app = Fields
  BY <1>1, KeyIs
<1>3. app.work \in Works /\ app.plan \in [scan : ScanOrNone, valid : BOOLEAN] /\ (app.plan.valid => app.plan.scan # None)
      /\ app.moves \in Int /\ app.purges \in Int /\ app.probes \in Int /\ None \in ScanOrNone
  BY <1>2, GoodIs DEF WindowShape, ScanOrNone
<1>5. Pressed(b)
  BY <1>2 DEF KeyConfirm, Fields
<1>6. work \in Works /\ work.apply # None /\ last \in [scan : ScanOrNone, owed : ScanOrNone] /\ last.owed = None
      /\ NoPlan \in [scan : ScanOrNone, valid : BOOLEAN] /\ ~NoPlan.valid
      /\ work.scan = app.work.scan /\ work.moves = app.work.moves /\ work.purges = app.work.purges
      /\ work.probes = app.work.probes
  BY <1>1, <1>3 DEF Works, NoPlan
<1>7. ~app.scan /\ ~app.apply /\ ~app.open.show
  BY <1>1, <1>2 DEF Way
<1> HIDE DEF work, stop, last
<1>4a. DOMAIN app = Fields /\ WindowShape(app) /\ RequestShape(app) /\ FleetShape(app) /\ Housed(app)
       /\ app.pending \subseteq app.ledger /\ (app.fleet = "Idle" => app.ledger = {})
  BY <1>2 DEF Good, Loose, Shape
<1>4b. DOMAIN b = Fields /\ b.apply = TRUE /\ b.work = work /\ b.stop = stop /\ b.plan = NoPlan /\ b.unsettled = FALSE /\ b.screen = "applying" /\ b.late = (app.late \/ app.stage # "None") /\ b.last = last /\ Same(app, b, {"apply", "work", "stop", "plan", "unsettled", "screen", "late", "last"})
  BY <1>4a DEF Fields, Same
<1> HIDE DEF b
<1>4c. /\ b.stage = app.stage /\ b.owed = app.owed /\ b.cur = app.cur /\ b.dedup = app.dedup /\ b.owes = app.owes /\ b.act = app.act
        /\ b.cache = app.cache /\ b.moves = app.moves /\ b.purges = app.purges /\ b.probes = app.probes /\ b.scan = app.scan /\ b.keyQuit = app.keyQuit
        /\ b.prompt = app.prompt /\ b.quit = app.quit /\ b.spawn = app.spawn /\ b.open = app.open
  BY <1>4b DEF Same, Fields
<1>4d. /\ b.req = app.req /\ b.marked = app.marked /\ b.planning = app.planning /\ b.reconcile = app.reconcile /\ b.settling = app.settling /\ b.groups = app.groups
        /\ b.covering = app.covering /\ b.gate = app.gate /\ b.pending = app.pending /\ b.ledger = app.ledger /\ b.fleet = app.fleet /\ b.actor = app.actor
        /\ b.born = app.born /\ b.queue = app.queue
  BY <1>4b DEF Same, Fields
<1>4e. WindowShape(b)
  BY <1>4a, <1>4b, <1>4c, <1>6 DEF WindowShape
<1>4f. RequestShape(b)
  BY <1>4a, <1>4b, <1>4c, <1>4d, <1>6 DEF RequestShape
<1>4g. FleetShape(b) /\ Housed(b)
  BY <1>4a, <1>4b, <1>4d DEF FleetShape, Housed, TerminalOwed
<1>4h. Good(b)
  BY <1>4a, <1>4b, <1>4d, <1>4e, <1>4f, <1>4g DEF Good, Loose, Shape
<1>8. Way(b) /\ Leaving(b)
  BY <1>2, <1>4a, <1>4b, <1>4c, <1>4d, <1>7 DEF Way, Leaving, ProducersBusy
<1>9. Lands(b, inbox)
  BY <1>2, <1>4b, <1>4c, <1>4d, <1>6 DEF Lands, AsksWell, WorksFor, BoxOK, OwesOK, Answers, Installs
<1>10. Counts(b, inbox)
  <2>1. One(app.apply) = 0 /\ One(b.apply) = 1 /\ One(b.work.apply # None) = 1 /\ One(app.work.apply # None) \in Nat
    BY <1>4b, <1>6, <1>7 DEF One
  <2>2. Count(inbox, "ApplyFinished") \in Nat
    BY <1>2, CountIs DEF Posted
  <2>3. Count(inbox, "ApplyFinished") = 0
    BY <1>2, <2>1, <2>2 DEF Counts
  <2>4. One(b.apply) = One(b.work.apply # None) + Count(inbox, "ApplyFinished")
    BY <2>1, <2>3
  <2>5. b.work = work
    BY <1>4b
  <2> QED BY <1>2, <1>4c, <1>6, <2>4, <2>5 DEF Counts
<1>11. ~b.keyQuit /\ ~b.prompt
  BY <1>1, <1>2, <1>4c
<1>12. Become(b, inbox) /\ pc' = "pass" /\ signals' = signals /\ db' = db /\ stale' \subseteq stale
  BY <1>1, <1>5 DEF Pressed
<1>13. Spent'
  BY <1>1, <1>12, SpentOn DEF IInv
<1> QED BY <1>2, <1>4h, <1>8, <1>9, <1>10, <1>11, <1>12, <1>13, StepKeeps

\* A move starts.
LEMMA KeyMoveKeeps == ASSUME IInv, KeyMove PROVE IInv'
<1> DEFINE work == [app.work EXCEPT !.moves = app.work.moves + 1]
           m == app.moves + 1
           b == [app EXCEPT !.moves = m, !.work = work, !.late = app.late \/ app.stage # "None"]
<1>1. pc = "event" /\ "move" \in Kinds \ {"kill"} /\ Spend("move") /\ app.screen = "panels" /\ ~app.prompt /\ stale' = stale
  BY DEF KeyMove, Command, Key, Kinds
<1>2. Good(app) /\ Way(app) /\ Leaving(app) /\ Lands(app, inbox) /\ Posted(inbox) /\ Counts(app, inbox)
      /\ ~app.keyQuit /\ (app.prompt => ~app.apply) /\ DOMAIN app = Fields
  BY <1>1, KeyIs
<1>3. app.work \in Works /\ app.plan \in [scan : ScanOrNone, valid : BOOLEAN] /\ (app.plan.valid => app.plan.scan # None)
      /\ app.moves \in Int /\ app.purges \in Int /\ app.probes \in Int /\ None \in ScanOrNone
  BY <1>2, GoodIs DEF WindowShape, ScanOrNone
<1>5. Pressed(b)
  BY <1>2 DEF KeyMove, Command, Fields
<1>6. work \in Works /\ m \in Int /\ work.moves = app.work.moves + 1 /\ app.work.moves \in Nat
      /\ work.scan = app.work.scan /\ work.apply = app.work.apply
      /\ work.purges = app.work.purges
      /\ work.probes = app.work.probes
  BY <1>3 DEF Works
<1>7. ~app.scan /\ ~app.apply /\ ~app.open.show
  BY <1>1, <1>2 DEF Way
<1>14. m = work.moves + Count(inbox, "MoveDone")
  <2>1. Count(inbox, "MoveDone") \in Nat
    BY <1>2, CountIs DEF Posted
  <2>2. app.moves = app.work.moves + Count(inbox, "MoveDone")
    BY <1>2 DEF Counts
  <2> QED BY <1>6, <2>1, <2>2
<1> HIDE DEF work, m
<1>4a. DOMAIN app = Fields /\ WindowShape(app) /\ RequestShape(app) /\ FleetShape(app) /\ Housed(app)
       /\ app.pending \subseteq app.ledger /\ (app.fleet = "Idle" => app.ledger = {})
  BY <1>2 DEF Good, Loose, Shape
<1>4b. DOMAIN b = Fields /\ b.moves = m /\ b.work = work /\ b.late = (app.late \/ app.stage # "None") /\ Same(app, b, {"moves", "work", "late"})
  BY <1>4a DEF Fields, Same
<1> HIDE DEF b
<1>4c. /\ b.stage = app.stage /\ b.screen = app.screen /\ b.owed = app.owed /\ b.cur = app.cur /\ b.dedup = app.dedup /\ b.owes = app.owes
        /\ b.plan = app.plan /\ b.act = app.act /\ b.cache = app.cache /\ b.purges = app.purges /\ b.probes = app.probes /\ b.last = app.last
        /\ b.scan = app.scan /\ b.apply = app.apply /\ b.keyQuit = app.keyQuit /\ b.prompt = app.prompt /\ b.quit = app.quit /\ b.unsettled = app.unsettled
        /\ b.spawn = app.spawn /\ b.open = app.open
  BY <1>4b DEF Same, Fields
<1>4d. /\ b.req = app.req /\ b.marked = app.marked /\ b.planning = app.planning /\ b.reconcile = app.reconcile /\ b.settling = app.settling /\ b.groups = app.groups
        /\ b.covering = app.covering /\ b.gate = app.gate /\ b.pending = app.pending /\ b.ledger = app.ledger /\ b.fleet = app.fleet /\ b.actor = app.actor
        /\ b.born = app.born /\ b.queue = app.queue
  BY <1>4b DEF Same, Fields
<1>4e. WindowShape(b)
  BY <1>4a, <1>4b, <1>4c, <1>6 DEF WindowShape
<1>4f. RequestShape(b)
  BY <1>4a, <1>4b, <1>4c, <1>4d, <1>6 DEF RequestShape
<1>4g. FleetShape(b) /\ Housed(b)
  BY <1>4a, <1>4b, <1>4d DEF FleetShape, Housed, TerminalOwed
<1>4h. Good(b)
  BY <1>4a, <1>4b, <1>4d, <1>4e, <1>4f, <1>4g DEF Good, Loose, Shape
<1>8. Way(b) /\ Leaving(b)
  BY <1>2, <1>4a, <1>4b, <1>4c, <1>4d, <1>7 DEF Way, Leaving, ProducersBusy
<1>9. Lands(b, inbox)
  BY <1>2, <1>4c, <1>4d, LandsStays
<1>10. Counts(b, inbox)
  <2>1. b.work = work /\ b.moves = m
    BY <1>4b
  <2> QED BY <1>2, <1>4c, <1>6, <1>14, <2>1 DEF Counts
<1>11. ~b.keyQuit /\ ~b.prompt
  BY <1>1, <1>2, <1>4c
<1>12. Become(b, inbox) /\ pc' = "pass" /\ signals' = signals /\ db' = db /\ stale' \subseteq stale
  BY <1>1, <1>5 DEF Pressed
<1>13. Spent'
  BY <1>1, <1>12, SpentOn DEF IInv
<1> QED BY <1>2, <1>4h, <1>8, <1>9, <1>10, <1>11, <1>12, <1>13, StepKeeps

\* A deletion starts.
LEMMA KeyPurgeKeeps == ASSUME IInv, KeyPurge PROVE IInv'
<1> DEFINE work == [app.work EXCEPT !.purges = app.work.purges + 1]
           m == app.purges + 1
           b == [app EXCEPT !.purges = m, !.work = work, !.late = app.late \/ app.stage # "None"]
<1>1. pc = "event" /\ "purge" \in Kinds \ {"kill"} /\ Spend("purge") /\ app.screen = "panels" /\ ~app.prompt /\ stale' = stale
  BY DEF KeyPurge, Command, Key, Kinds
<1>2. Good(app) /\ Way(app) /\ Leaving(app) /\ Lands(app, inbox) /\ Posted(inbox) /\ Counts(app, inbox)
      /\ ~app.keyQuit /\ (app.prompt => ~app.apply) /\ DOMAIN app = Fields
  BY <1>1, KeyIs
<1>3. app.work \in Works /\ app.plan \in [scan : ScanOrNone, valid : BOOLEAN] /\ (app.plan.valid => app.plan.scan # None)
      /\ app.moves \in Int /\ app.purges \in Int /\ app.probes \in Int /\ None \in ScanOrNone
  BY <1>2, GoodIs DEF WindowShape, ScanOrNone
<1>5. Pressed(b)
  BY <1>2 DEF KeyPurge, Command, Fields
<1>6. work \in Works /\ m \in Int /\ work.purges = app.work.purges + 1 /\ app.work.purges \in Nat
      /\ work.scan = app.work.scan /\ work.apply = app.work.apply
      /\ work.moves = app.work.moves
      /\ work.probes = app.work.probes
  BY <1>3 DEF Works
<1>7. ~app.scan /\ ~app.apply /\ ~app.open.show
  BY <1>1, <1>2 DEF Way
<1>14. m = work.purges + Count(inbox, "Purged")
  <2>1. Count(inbox, "Purged") \in Nat
    BY <1>2, CountIs DEF Posted
  <2>2. app.purges = app.work.purges + Count(inbox, "Purged")
    BY <1>2 DEF Counts
  <2> QED BY <1>6, <2>1, <2>2
<1> HIDE DEF work, m
<1>4a. DOMAIN app = Fields /\ WindowShape(app) /\ RequestShape(app) /\ FleetShape(app) /\ Housed(app)
       /\ app.pending \subseteq app.ledger /\ (app.fleet = "Idle" => app.ledger = {})
  BY <1>2 DEF Good, Loose, Shape
<1>4b. DOMAIN b = Fields /\ b.purges = m /\ b.work = work /\ b.late = (app.late \/ app.stage # "None") /\ Same(app, b, {"purges", "work", "late"})
  BY <1>4a DEF Fields, Same
<1> HIDE DEF b
<1>4c. /\ b.stage = app.stage /\ b.screen = app.screen /\ b.owed = app.owed /\ b.cur = app.cur /\ b.dedup = app.dedup /\ b.owes = app.owes
        /\ b.plan = app.plan /\ b.act = app.act /\ b.cache = app.cache /\ b.moves = app.moves /\ b.probes = app.probes /\ b.last = app.last
        /\ b.scan = app.scan /\ b.apply = app.apply /\ b.keyQuit = app.keyQuit /\ b.prompt = app.prompt /\ b.quit = app.quit /\ b.unsettled = app.unsettled
        /\ b.spawn = app.spawn /\ b.open = app.open
  BY <1>4b DEF Same, Fields
<1>4d. /\ b.req = app.req /\ b.marked = app.marked /\ b.planning = app.planning /\ b.reconcile = app.reconcile /\ b.settling = app.settling /\ b.groups = app.groups
        /\ b.covering = app.covering /\ b.gate = app.gate /\ b.pending = app.pending /\ b.ledger = app.ledger /\ b.fleet = app.fleet /\ b.actor = app.actor
        /\ b.born = app.born /\ b.queue = app.queue
  BY <1>4b DEF Same, Fields
<1>4e. WindowShape(b)
  BY <1>4a, <1>4b, <1>4c, <1>6 DEF WindowShape
<1>4f. RequestShape(b)
  BY <1>4a, <1>4b, <1>4c, <1>4d, <1>6 DEF RequestShape
<1>4g. FleetShape(b) /\ Housed(b)
  BY <1>4a, <1>4b, <1>4d DEF FleetShape, Housed, TerminalOwed
<1>4h. Good(b)
  BY <1>4a, <1>4b, <1>4d, <1>4e, <1>4f, <1>4g DEF Good, Loose, Shape
<1>8. Way(b) /\ Leaving(b)
  BY <1>2, <1>4a, <1>4b, <1>4c, <1>4d, <1>7 DEF Way, Leaving, ProducersBusy
<1>9. Lands(b, inbox)
  BY <1>2, <1>4c, <1>4d, LandsStays
<1>10. Counts(b, inbox)
  <2>1. b.work = work /\ b.purges = m
    BY <1>4b
  <2> QED BY <1>2, <1>4c, <1>6, <1>14, <2>1 DEF Counts
<1>11. ~b.keyQuit /\ ~b.prompt
  BY <1>1, <1>2, <1>4c
<1>12. Become(b, inbox) /\ pc' = "pass" /\ signals' = signals /\ db' = db /\ stale' \subseteq stale
  BY <1>1, <1>5 DEF Pressed
<1>13. Spent'
  BY <1>1, <1>12, SpentOn DEF IInv
<1> QED BY <1>2, <1>4h, <1>8, <1>9, <1>10, <1>11, <1>12, <1>13, StepKeeps

\* F2 asks; the answer may start a scan.
LEMMA KeyProbeKeeps ==
    ASSUME IInv, Command("scan"), Pressed([app EXCEPT !.probes = @ + 1, !.work.probes = @ + 1]), stale' = stale
    PROVE  IInv'
<1> DEFINE work == [app.work EXCEPT !.probes = app.work.probes + 1]
           m == app.probes + 1
           b == [app EXCEPT !.probes = m, !.work = work]
<1>1. pc = "event" /\ "scan" \in Kinds \ {"kill"} /\ Spend("scan") /\ app.screen = "panels" /\ ~app.prompt /\ stale' = stale
  BY DEF Command, Key, Kinds
<1>2. Good(app) /\ Way(app) /\ Leaving(app) /\ Lands(app, inbox) /\ Posted(inbox) /\ Counts(app, inbox)
      /\ ~app.keyQuit /\ (app.prompt => ~app.apply) /\ DOMAIN app = Fields
  BY <1>1, KeyIs
<1>3. app.work \in Works /\ app.plan \in [scan : ScanOrNone, valid : BOOLEAN] /\ (app.plan.valid => app.plan.scan # None)
      /\ app.moves \in Int /\ app.purges \in Int /\ app.probes \in Int /\ None \in ScanOrNone
  BY <1>2, GoodIs DEF WindowShape, ScanOrNone
<1>5. Pressed(b)
  BY <1>2 DEF Fields
<1>6. work \in Works /\ m \in Int /\ work.probes = app.work.probes + 1 /\ app.work.probes \in Nat
      /\ work.scan = app.work.scan /\ work.apply = app.work.apply
      /\ work.moves = app.work.moves
      /\ work.purges = app.work.purges
  BY <1>3 DEF Works
<1>7. ~app.scan /\ ~app.apply /\ ~app.open.show
  BY <1>1, <1>2 DEF Way
<1>14. m = work.probes + Count(inbox, "Probe")
  <2>1. Count(inbox, "Probe") \in Nat
    BY <1>2, CountIs DEF Posted
  <2>2. app.probes = app.work.probes + Count(inbox, "Probe")
    BY <1>2 DEF Counts
  <2> QED BY <1>6, <2>1, <2>2
<1> HIDE DEF work, m
<1>4a. DOMAIN app = Fields /\ WindowShape(app) /\ RequestShape(app) /\ FleetShape(app) /\ Housed(app)
       /\ app.pending \subseteq app.ledger /\ (app.fleet = "Idle" => app.ledger = {})
  BY <1>2 DEF Good, Loose, Shape
<1>4b. DOMAIN b = Fields /\ b.probes = m /\ b.work = work /\ Same(app, b, {"probes", "work"})
  BY <1>4a DEF Fields, Same
<1> HIDE DEF b
<1>4c. /\ b.stage = app.stage /\ b.screen = app.screen /\ b.owed = app.owed /\ b.cur = app.cur /\ b.dedup = app.dedup /\ b.owes = app.owes
        /\ b.plan = app.plan /\ b.act = app.act /\ b.cache = app.cache /\ b.moves = app.moves /\ b.purges = app.purges /\ b.last = app.last
        /\ b.scan = app.scan /\ b.apply = app.apply /\ b.late = app.late /\ b.keyQuit = app.keyQuit /\ b.prompt = app.prompt /\ b.quit = app.quit
        /\ b.unsettled = app.unsettled /\ b.spawn = app.spawn /\ b.open = app.open
  BY <1>4b DEF Same, Fields
<1>4d. /\ b.req = app.req /\ b.marked = app.marked /\ b.planning = app.planning /\ b.reconcile = app.reconcile /\ b.settling = app.settling /\ b.groups = app.groups
        /\ b.covering = app.covering /\ b.gate = app.gate /\ b.pending = app.pending /\ b.ledger = app.ledger /\ b.fleet = app.fleet /\ b.actor = app.actor
        /\ b.born = app.born /\ b.queue = app.queue
  BY <1>4b DEF Same, Fields
<1>4e. WindowShape(b)
  BY <1>4a, <1>4b, <1>4c, <1>6 DEF WindowShape
<1>4f. RequestShape(b)
  BY <1>4a, <1>4b, <1>4c, <1>4d, <1>6 DEF RequestShape
<1>4g. FleetShape(b) /\ Housed(b)
  BY <1>4a, <1>4b, <1>4d DEF FleetShape, Housed, TerminalOwed
<1>4h. Good(b)
  BY <1>4a, <1>4b, <1>4d, <1>4e, <1>4f, <1>4g DEF Good, Loose, Shape
<1>8. Way(b) /\ Leaving(b)
  BY <1>2, <1>4a, <1>4b, <1>4c, <1>4d, <1>7 DEF Way, Leaving, ProducersBusy
<1>9. Lands(b, inbox)
  BY <1>2, <1>4c, <1>4d, LandsStays
<1>10. Counts(b, inbox)
  <2>1. b.work = work /\ b.probes = m
    BY <1>4b
  <2> QED BY <1>2, <1>4c, <1>6, <1>14, <2>1 DEF Counts
<1>11. ~b.keyQuit /\ ~b.prompt
  BY <1>1, <1>2, <1>4c
<1>12. Become(b, inbox) /\ pc' = "pass" /\ signals' = signals /\ db' = db /\ stale' \subseteq stale
  BY <1>1, <1>5 DEF Pressed
<1>13. Spent'
  BY <1>1, <1>12, SpentOn DEF IInv
<1> QED BY <1>2, <1>4h, <1>8, <1>9, <1>10, <1>11, <1>12, <1>13, StepKeeps

\* F2, or its question answered.
LEMMA KeyScanKeeps == ASSUME IInv, KeyScan PROVE IInv'
<1>1. CASE Command("scan") /\ Pressed([app EXCEPT !.probes = @ + 1, !.work.probes = @ + 1])
  BY <1>1, KeyProbeKeeps DEF KeyScan
<1>2. CASE Key("resume") /\ Pressed(StartScan(app)) /\ UNCHANGED left
  <2> DEFINE n == StartScan(app)
  <2>1. pc = "event" /\ app.screen = "resume" /\ ~app.prompt /\ left' = left /\ Pressed(n)
    BY <1>2 DEF Key
  <2>2. Good(app) /\ Way(app) /\ Lands(app, inbox) /\ Posted(inbox) /\ Counts(app, inbox) /\ ~app.keyQuit
    BY <2>1, KeyIs
  <2>3. /\ Good(n) /\ Lands(n, inbox) /\ Way(n) /\ n.scan /\ ~app.scan /\ ~app.apply /\ n.apply = app.apply
        /\ n.work = [app.work EXCEPT !.scan = TRUE]
        /\ n.moves = app.moves /\ n.purges = app.purges /\ n.probes = app.probes
        /\ n.keyQuit = app.keyQuit /\ n.prompt = app.prompt
    BY <2>1, <2>2, StartComes
  <2> HIDE DEF n
  <2>4. app.work \in Works
    BY <2>2, GoodIs DEF WindowShape
  <2>5. /\ n.work.moves = app.work.moves /\ n.work.purges = app.work.purges /\ n.work.probes = app.work.probes
        /\ n.work.apply = app.work.apply /\ n.work.scan
    BY <2>3, <2>4 DEF Works
  <2>6. One(app.scan) = 0 /\ One(n.scan) = 1 /\ One(n.work.scan) = 1 /\ One(app.work.scan) \in Nat
    BY <2>3, <2>5 DEF One
  <2>7. Count(inbox, "ScanFinished") = 0
    <3>1. Count(inbox, "ScanFinished") \in Nat
      BY <2>2, CountIs DEF Posted
    <3> QED BY <2>2, <2>6, <3>1 DEF Counts
  <2>8. Counts(n, inbox)
    <3>1. One(n.scan) = One(n.work.scan) + Count(inbox, "ScanFinished")
      BY <2>6, <2>7
    <3> QED BY <2>2, <2>3, <2>5, <3>1 DEF Counts
  <2>9. Become(n, inbox) /\ pc' = "pass" /\ signals' = signals /\ db' = db /\ stale' = stale
    BY <2>1 DEF Pressed, KeyScan
  <2>10. Spent'
    BY <2>1, <2>9, SpentOn DEF IInv
  <2>11. ~n.keyQuit /\ ~n.prompt /\ Leaving(n)
    BY <2>1, <2>2, <2>3 DEF Way
  <2> QED BY <2>2, <2>3, <2>8, <2>9, <2>10, <2>11, StepKeeps
<1> QED BY <1>1, <1>2 DEF KeyScan

\* A key quits: never a batch.
LEMMA KeyQuitKeeps == ASSUME IInv, KeyQuit PROVE IInv'
<1> DEFINE b == [app EXCEPT !.quit = TRUE, !.keyQuit = TRUE]
<1>1. pc = "event" /\ "quit" \in Kinds \ {"kill"} /\ Spend("quit") /\ stale' = stale /\ Pressed(b)
      /\ (app.prompt \/ app.screen \in {"panels", "scanning", "summary", "browser"})
  BY DEF KeyQuit, Key, Kinds
<1>2. Good(app) /\ Way(app) /\ Leaving(app) /\ Lands(app, inbox) /\ Posted(inbox) /\ Counts(app, inbox)
      /\ ~app.keyQuit /\ (app.prompt => ~app.apply) /\ DOMAIN app = Fields
  BY <1>1, KeyIs
<1>3. app.work \in Works /\ app.plan \in [scan : ScanOrNone, valid : BOOLEAN] /\ (app.plan.valid => app.plan.scan # None)
      /\ app.moves \in Int /\ app.purges \in Int /\ app.probes \in Int /\ None \in ScanOrNone
  BY <1>2, GoodIs DEF WindowShape, ScanOrNone
<1>7. ~app.apply
  BY <1>1, <1>2 DEF Way
<1>4a. DOMAIN app = Fields /\ WindowShape(app) /\ RequestShape(app) /\ FleetShape(app) /\ Housed(app)
       /\ app.pending \subseteq app.ledger /\ (app.fleet = "Idle" => app.ledger = {})
  BY <1>2 DEF Good, Loose, Shape
<1>4b. DOMAIN b = Fields /\ b.quit = TRUE /\ b.keyQuit = TRUE /\ Same(app, b, {"quit", "keyQuit"})
  BY <1>4a DEF Fields, Same
<1> HIDE DEF b
<1>4c. /\ b.stage = app.stage /\ b.screen = app.screen /\ b.owed = app.owed /\ b.cur = app.cur /\ b.dedup = app.dedup /\ b.owes = app.owes
        /\ b.plan = app.plan /\ b.act = app.act /\ b.cache = app.cache /\ b.moves = app.moves /\ b.purges = app.purges /\ b.probes = app.probes
        /\ b.work = app.work /\ b.last = app.last /\ b.scan = app.scan /\ b.apply = app.apply /\ b.late = app.late /\ b.prompt = app.prompt
        /\ b.unsettled = app.unsettled /\ b.spawn = app.spawn /\ b.open = app.open
  BY <1>4b DEF Same, Fields
<1>4d. /\ b.req = app.req /\ b.marked = app.marked /\ b.planning = app.planning /\ b.reconcile = app.reconcile /\ b.settling = app.settling /\ b.groups = app.groups
        /\ b.covering = app.covering /\ b.gate = app.gate /\ b.pending = app.pending /\ b.ledger = app.ledger /\ b.fleet = app.fleet /\ b.actor = app.actor
        /\ b.born = app.born /\ b.queue = app.queue
  BY <1>4b DEF Same, Fields
<1>4e. WindowShape(b)
  BY <1>4a, <1>4b, <1>4c DEF WindowShape
<1>4f. RequestShape(b)
  BY <1>4a, <1>4b, <1>4c, <1>4d DEF RequestShape
<1>4g. FleetShape(b) /\ Housed(b)
  BY <1>4a, <1>4b, <1>4d DEF FleetShape, Housed, TerminalOwed
<1>4h. Good(b)
  BY <1>4a, <1>4b, <1>4d, <1>4e, <1>4f, <1>4g DEF Good, Loose, Shape
<1>8. Leaving(b) /\ b.quit
  BY <1>2, <1>4b, <1>4c, <1>4d DEF Leaving, ProducersBusy
<1>9. Lands(b, inbox)
  BY <1>2, <1>4b, <1>4c, <1>4d DEF Lands, AsksWell, WorksFor, BoxOK, OwesOK, Answers, Installs
<1>10. Counts(b, inbox)
  BY <1>2, <1>4c DEF Counts
<1>11. ~b.apply
  BY <1>4c, <1>7
<1>12. Become(b, inbox) /\ pc' = "pass" /\ signals' = signals /\ db' = db /\ stale' \subseteq stale
  BY <1>1 DEF Pressed
<1>13. Spent'
  BY <1>1, <1>12, SpentOn DEF IInv
<1> QED BY <1>2, <1>4h, <1>8, <1>9, <1>10, <1>11, <1>12, <1>13, StepKeeps

-----------------------------------------------------------------------------
(* The actor's answers                                                     *)

\* The request an actor takes is the first of its queue, and the actor is the fleet's.
LEMMA TakenBy ==
    ASSUME IInv, NEW i \in DOMAIN thread, Taken(i)
    PROVE  LET s == app.queue[i]
               q == Head(s)
           IN  /\ thread[i] \in Threads /\ thread[i].st = "running" /\ TerminalOwed(app) /\ i = app.actor
               /\ i \in DOMAIN app.queue /\ Runs(i) /\ Active(i) = thread[i].active
               /\ AsksWell(app, inbox, i) /\ WorksFor(app, inbox, i)
               /\ s \in Seq(RequestsTo(app.req)) /\ q = s[1] /\ 1 \in DOMAIN s /\ q \in RequestsTo(app.req)
               /\ Tail(s) \in Seq(RequestsTo(app.req))
               /\ \A k \in DOMAIN Tail(s) : k + 1 \in DOMAIN s /\ k + 1 # 1 /\ Tail(s)[k] = s[k + 1]
               /\ DOMAIN Tail(s) \subseteq Nat /\ DOMAIN s \subseteq Nat
<1> DEFINE s == app.queue[i]
<1>1. Good(app) /\ Hosted /\ Lands(app, inbox)
  BY DEF IInv
<1>2. thread[i] \in Threads /\ thread[i].st = "running" /\ TerminalOwed(app) /\ i = app.actor /\ s # << >>
  BY <1>1 DEF Hosted, Taken
<1>3. i \in DOMAIN app.queue /\ DOMAIN app.queue = DOMAIN app.born
  <2>1. app.queue \in Seq(Seq(RequestsTo(app.req))) /\ app.born \in Seq(Roles) /\ Len(app.queue) = Len(app.born)
    BY <1>1, GoodIs DEF FleetShape
  <2> QED BY <1>1, <2>1, LenProperties DEF Hosted
<1>4. s \in Seq(RequestsTo(app.req))
  BY <1>1, <1>3, QueueIs
<1>5. Runs(i) /\ Active(i) = thread[i].active
  BY <1>2 DEF Runs, Active
<1>6. AsksWell(app, inbox, i) /\ WorksFor(app, inbox, i)
  BY <1>1, <1>3, <1>5 DEF Lands
<1> HIDE DEF s
<1>7. /\ Tail(s) \in Seq(RequestsTo(app.req)) /\ Len(Tail(s)) = Len(s) - 1 /\ Head(s) = s[1] /\ Head(s) \in RequestsTo(app.req)
      /\ Len(s) \in Nat /\ Len(s) >= 1 /\ DOMAIN s = 1..Len(s)
      /\ \A k \in 1..Len(Tail(s)) : Tail(s)[k] = s[k + 1]
  BY <1>2, <1>4, HeadTailProperties, LenProperties, EmptySeq
<1>8. DOMAIN Tail(s) = 1..Len(s) - 1
  BY <1>7, LenProperties
<1> QED BY <1>2, <1>3, <1>4, <1>5, <1>6, <1>7, <1>8 DEF s

\* An answer: to the request taken, by the actor as it was, without its scan, or with the one asked for.
Replies(i, q, t, e) ==
    \/ /\ t.st = "running" /\ e.kind = q.kind /\ e.req = q.req /\ e.act = q.act /\ q.kind # "Shutdown"
       /\ \/ t.active \in {thread[i].active, Inactive} /\ (e.kind # "Open" \/ e.res # "ok")
          \/ e.kind = "Open" /\ e.res = "ok" /\ t.active = [scan |-> q.scan, act |-> q.act] /\ e.scan = q.scan
    \/ t.st = "ended" /\ e.kind = "Closed" /\ e.req = i

\* An answer keeps the invariant: the actor has what it installed before, nothing, or the scan of
\* the open it answers.
LEMMA ReplyKeeps ==
    ASSUME IInv, NEW i \in DOMAIN thread, Taken(i), NEW t \in Threads, NEW e \in Events, Answered(i, t, e),
           Replies(i, Head(app.queue[i]), t, e), Spent', Stored', stale' \subseteq stale,
           e.kind = "Reconcile" /\ e.req = app.reconcile /\ e.res = "ok" =>
               app.last.owed = None \/ app.last.owed \notin stale',
           e.kind = "Plan" /\ e.res = "ok" => e.scan # None
    PROVE  IInv'
<1> DEFINE s == app.queue[i]
           q == Head(s)
           r == Tail(s)
           queue == [app.queue EXCEPT ![i] = r]
           n == Len(inbox) + 1
<1>0. Good(app) /\ Hosted /\ Lands(app, inbox) /\ Posted(inbox) /\ Counts(app, inbox) /\ Exits
  BY DEF IInv
<1>1. /\ thread[i] \in Threads /\ thread[i].st = "running" /\ TerminalOwed(app) /\ i = app.actor
      /\ i \in DOMAIN app.queue /\ Runs(i) /\ Active(i) = thread[i].active
      /\ AsksWell(app, inbox, i) /\ WorksFor(app, inbox, i)
      /\ s \in Seq(RequestsTo(app.req)) /\ q = s[1] /\ 1 \in DOMAIN s /\ q \in RequestsTo(app.req)
      /\ r \in Seq(RequestsTo(app.req))
      /\ \A k \in DOMAIN r : k + 1 \in DOMAIN s /\ k + 1 # 1 /\ r[k] = s[k + 1]
      /\ DOMAIN r \subseteq Nat /\ DOMAIN s \subseteq Nat
  BY TakenBy
<1>2. DOMAIN app = Fields /\ app.queue \in Seq(Seq(RequestsTo(app.req))) /\ app.req \in Nat /\ app.act \in Nat
  BY <1>0, GoodIs DEF FleetShape, RequestShape, WindowShape
<1>3. /\ app' = [app EXCEPT !.queue = queue] /\ thread' = [thread EXCEPT ![i] = t] /\ inbox' = Append(inbox, e)
      /\ UNCHANGED <<pc, lost, signals, tuiDead>>
  BY <1>2 DEF Answered, Fields
<1>4. queue \in Seq(Seq(RequestsTo(app.req))) /\ Len(queue) = Len(app.queue) /\ DOMAIN queue = DOMAIN app.queue
      /\ queue[i] = r /\ \A j \in DOMAIN app.queue : j # i => queue[j] = app.queue[j]
  BY <1>1, <1>2, ReplacedIs
<1>5. inbox \in Seq(Events)
  BY <1>0 DEF Posted
<1>6. /\ inbox' \in Seq(Events) /\ DOMAIN inbox' = DOMAIN inbox \cup {n} /\ n \notin DOMAIN inbox /\ inbox'[n] = e
      /\ \A m \in DOMAIN inbox : m # n /\ inbox'[m] = inbox[m]
  BY <1>3, <1>5, AppendIs
<1>7. /\ DOMAIN thread' = DOMAIN thread /\ thread'[i] = t /\ \A j \in DOMAIN thread : j # i => thread'[j] = thread[j]
  BY <1>3
<1> HIDE DEF s, q, r, queue, n
<1>8. DOMAIN app' = Fields /\ app'.queue = queue /\ Same(app, app', {"queue"})
  BY <1>2, <1>3 DEF Fields, Same
<1>9. /\ app'.stage = app.stage /\ app'.screen = app.screen /\ app'.owed = app.owed /\ app'.cur = app.cur /\ app'.dedup = app.dedup /\ app'.owes = app.owes
        /\ app'.plan = app.plan /\ app'.act = app.act /\ app'.cache = app.cache /\ app'.moves = app.moves /\ app'.purges = app.purges /\ app'.probes = app.probes
        /\ app'.work = app.work /\ app'.last = app.last /\ app'.scan = app.scan /\ app'.apply = app.apply /\ app'.late = app.late /\ app'.keyQuit = app.keyQuit
        /\ app'.prompt = app.prompt /\ app'.quit = app.quit /\ app'.unsettled = app.unsettled /\ app'.spawn = app.spawn /\ app'.open = app.open
  BY <1>8 DEF Same, Fields
<1>10. /\ app'.req = app.req /\ app'.marked = app.marked /\ app'.planning = app.planning /\ app'.reconcile = app.reconcile /\ app'.settling = app.settling /\ app'.groups = app.groups
        /\ app'.covering = app.covering /\ app'.gate = app.gate /\ app'.pending = app.pending /\ app'.ledger = app.ledger /\ app'.fleet = app.fleet /\ app'.actor = app.actor
        /\ app'.born = app.born
  BY <1>8 DEF Same, Fields
<1>11. Replies(i, q, t, e) /\ t.st \in {"running", "ended"}
  BY DEF q, s, Replies
<1>12. Good(app)'
  <2>1. DOMAIN app = Fields /\ WindowShape(app) /\ RequestShape(app) /\ FleetShape(app) /\ Housed(app)
        /\ app.pending \subseteq app.ledger /\ (app.fleet = "Idle" => app.ledger = {})
    BY <1>0 DEF Good, Loose, Shape
  <2>2. WindowShape(app)'
    BY <1>9, <2>1 DEF WindowShape
  <2>3. RequestShape(app)'
    BY <1>10, <1>9, <2>1 DEF RequestShape
  <2>4. FleetShape(app)'
    BY <1>4, <1>8, <1>10, <2>1 DEF FleetShape, TerminalOwed
  <2>5. Housed(app)'
    BY <1>1, <1>7, <1>10, <1>11, <2>1 DEF Housed, TerminalOwed
  <2> QED BY <1>8, <1>10, <2>1, <2>2, <2>3, <2>4, <2>5 DEF Good, Loose, Shape
<1>13. Hosted'
  BY <1>0, <1>1, <1>7, <1>10, <1>11 DEF Hosted, TerminalOwed
<1>14. Posted(inbox)'
  <2>1. e.kind # "ApplyFinished"
    BY <1>1, <1>11 DEF Replies, RequestsTo, Asks
  <2>2. e.kind = "Closed" => e.req = i /\ t.st = "ended"
    BY <1>1, <1>11 DEF Replies, RequestsTo, Asks
  <2>3. ASSUME NEW m \in DOMAIN inbox'
        PROVE  /\ inbox'[m].kind = "ApplyFinished" => inbox'[m].res \in Batches /\ inbox'[m].scan # None
               /\ inbox'[m].kind = "Plan" /\ inbox'[m].res = "ok" => inbox'[m].scan # None
               /\ inbox'[m].kind = "Closed" => inbox'[m].req \in DOMAIN thread' /\ thread'[inbox'[m].req].st = "ended"
    <3>1. CASE m = n
      BY <1>6, <1>7, <2>1, <2>2, <3>1
    <3>2. CASE m \in DOMAIN inbox
      <4>1. /\ inbox[m].kind = "ApplyFinished" => inbox[m].res \in Batches /\ inbox[m].scan # None
            /\ inbox[m].kind = "Plan" /\ inbox[m].res = "ok" => inbox[m].scan # None
            /\ inbox[m].kind = "Closed" => inbox[m].req \in DOMAIN thread /\ thread[inbox[m].req].st = "ended"
        BY <1>0, <3>2 DEF Posted
      <4>2. inbox'[m] = inbox[m]
        BY <1>6, <3>2
      <4>3. \A j \in DOMAIN thread : thread[j].st = "ended" => thread'[j] = thread[j]
        BY <1>1, <1>7
      <4> QED BY <1>7, <4>1, <4>2, <4>3
    <3> QED BY <1>6, <3>1, <3>2
  <2> QED BY <1>6, <2>3 DEF Posted
<1>15. Counts(app, inbox)'
  <2>1. e.kind \notin Outcome
    BY <1>1, <1>11 DEF Replies, RequestsTo, Asks, Outcome
  <2>2. \A kind \in Outcome : Count(inbox', kind) = Count(inbox, kind)
    <3> SUFFICES ASSUME NEW kind \in Outcome PROVE Count(inbox', kind) = Count(inbox, kind)
      OBVIOUS
    <3>1. Count(Append(inbox, e), kind) = Count(inbox, kind) + One(e.kind = kind) /\ Count(inbox, kind) \in Nat
      <4>1. Count(inbox, kind) \in Nat
        BY <1>5, CountIs
      <4>2. Count(Append(inbox, e), kind) = Count(inbox, kind) + One(e.kind = kind)
        BY <1>5, CountAppend
      <4> QED BY <4>1, <4>2
    <3>2. One(e.kind = kind) = 0
      BY <2>1 DEF One
    <3> QED BY <1>3, <3>1, <3>2
  <2>3. /\ Count(inbox', "MoveDone") = Count(inbox, "MoveDone")
        /\ Count(inbox', "Purged") = Count(inbox, "Purged")
        /\ Count(inbox', "Probe") = Count(inbox, "Probe")
        /\ Count(inbox', "ScanFinished") = Count(inbox, "ScanFinished")
        /\ Count(inbox', "ApplyFinished") = Count(inbox, "ApplyFinished")
    BY <2>2 DEF Outcome
  <2> QED BY <1>0, <1>9, <2>3 DEF Counts
<1>16. Exits'
  BY <1>0, <1>3, <1>9, <1>10 DEF Exits, Leaving, Way, ProducersBusy
<1>17. Lands(app, inbox)'
  <2>1. e.kind = "Open" => /\ e.req = app.open.req /\ q.kind = "Open" /\ q.act = app.act + 1 /\ e.act = q.act
                           /\ \A m \in DOMAIN inbox : ~Answers(inbox[m], app)
                           /\ \A k \in DOMAIN r : r[k].kind # "Open"
    <3> SUFFICES ASSUME e.kind = "Open"
                 PROVE  /\ e.req = app.open.req /\ q.kind = "Open" /\ q.act = app.act + 1 /\ e.act = q.act
                        /\ \A m \in DOMAIN inbox : ~Answers(inbox[m], app)
                        /\ \A k \in DOMAIN r : r[k].kind # "Open"
      OBVIOUS
    <3>1. q.kind = "Open" /\ e.req = q.req /\ e.act = q.act
      BY <1>11 DEF Replies
    <3> QED BY <1>1, <3>1 DEF AsksWell, s
  <2>2. e.kind \in {"Open", "Reconcile"} => e.req \in 1..app.req
    BY <1>1, <1>11 DEF Replies, RequestsTo
  <2>3. Answers(e, app) => e.kind = "Open"
    BY DEF Answers
  <2>4. BoxOK(app, inbox)'
    <3>1. BoxOK(app, inbox)
      BY <1>0 DEF Lands
    <3> QED BY <1>6, <1>9, <1>10, <2>1, <2>2, <3>1 DEF BoxOK, Answers, Installs
  <2>5. OwesOK(app)'
    BY <1>0, <1>9 DEF Lands, OwesOK
  <2>6. ASSUME NEW j \in DOMAIN app'.queue, Runs(j)' PROVE j = i /\ t.st = "running" /\ Active(j)' = t.active
    <3>1. j \in DOMAIN thread
      BY <1>0, <1>4, <1>8, <2>6, QueueIs DEF Hosted
    <3>2. j = i
      BY <1>0, <1>1, <1>7, <2>6, <3>1 DEF Runs, Hosted
    <3> QED BY <1>1, <1>7, <2>6, <3>2 DEF Runs, Active
  <2>7. t.st = "running" => AsksWell(app, inbox, i)'
    <3> SUFFICES ASSUME t.st = "running" PROVE AsksWell(app, inbox, i)'
      OBVIOUS
    <3>1. Active(i)' = t.active /\ app'.queue[i] = r
      BY <1>1, <1>4, <1>7, <1>8 DEF Active
    <3>2. \A k \in DOMAIN r : r[k].kind = "Open" =>
              /\ r[k].req = app.open.req /\ r[k].act = app.act + 1
              /\ \A l \in DOMAIN r : r[l].kind = "Open" => k = l
              /\ \A m \in DOMAIN inbox' : ~Answers(inbox'[m], app)
      <4> SUFFICES ASSUME NEW k \in DOMAIN r, r[k].kind = "Open"
                   PROVE  /\ r[k].req = app.open.req /\ r[k].act = app.act + 1
                          /\ \A l \in DOMAIN r : r[l].kind = "Open" => k = l
                          /\ \A m \in DOMAIN inbox' : ~Answers(inbox'[m], app)
        OBVIOUS
      <4>1. ~Answers(e, app)
        BY <2>1, <2>3
      <4>2. k + 1 \in DOMAIN s /\ s[k + 1].kind = "Open" /\ r[k] = s[k + 1]
        BY <1>1
      <4>3. /\ r[k].req = app.open.req /\ r[k].act = app.act + 1
            /\ \A l \in DOMAIN s : s[l].kind = "Open" => k + 1 = l
            /\ \A m \in DOMAIN inbox : ~Answers(inbox[m], app)
        BY <1>1, <4>2 DEF AsksWell, s
      <4>4. \A l \in DOMAIN r : r[l].kind = "Open" => k = l
        <5> SUFFICES ASSUME NEW l \in DOMAIN r, r[l].kind = "Open" PROVE k = l
          OBVIOUS
        <5>1. k + 1 = l + 1
          BY <1>1, <4>3
        <5> QED BY <1>1, <5>1
      <4> QED BY <1>6, <4>1, <4>3, <4>4
    <3>3. \A k \in DOMAIN r : r[k].kind \in Writes =>
              /\ r[k].act <= app.act /\ r[k].scan # None
              /\ t.active # Inactive /\ t.active.act = r[k].act => t.active.scan = r[k].scan
      <4> SUFFICES ASSUME NEW k \in DOMAIN r, r[k].kind \in Writes
                   PROVE  /\ r[k].act <= app.act /\ r[k].scan # None
                          /\ t.active # Inactive /\ t.active.act = r[k].act => t.active.scan = r[k].scan
        OBVIOUS
      <4>1. k + 1 \in DOMAIN s /\ r[k] = s[k + 1] /\ r[k] \in RequestsTo(app.req)
        BY <1>1, LenProperties, ElementOfSeq
      <4>2. /\ r[k].act <= app.act /\ r[k].scan # None
            /\ thread[i].active # Inactive /\ thread[i].active.act = r[k].act => thread[i].active.scan = r[k].scan
        BY SMTT(30), <1>1, <4>1 DEF AsksWell, s
      <4>3. CASE t.active \in {thread[i].active, Inactive}
        BY <4>2, <4>3
      <4>4. CASE e.kind = "Open" /\ t.active = [scan |-> q.scan, act |-> q.act]
        <5>1. t.active.act = app.act + 1 /\ r[k].act \in Nat
          BY <2>1, <4>1, <4>4 DEF RequestsTo
        <5> QED BY <1>2, <4>2, <5>1
      <4> QED BY <1>11, <4>3, <4>4 DEF Replies
    <3>4. \A k \in DOMAIN r : r[k].kind = "Reconcile" /\ r[k].req = app.reconcile =>
              app.last.owed \in {None, r[k].scan}
      BY <1>1 DEF AsksWell, s
    <3> QED BY <1>9, <1>10, <3>1, <3>2, <3>3, <3>4 DEF AsksWell, Answers
  <2>8. t.st = "running" => WorksFor(app, inbox, i)'
    <3> SUFFICES ASSUME t.st = "running" PROVE WorksFor(app, inbox, i)'
      OBVIOUS
    <3>1. Active(i)' = t.active
      BY <1>1, <1>7 DEF Active
    <3>2. CASE t.active = Inactive
      BY <3>1, <3>2 DEF WorksFor
    <3>3. CASE t.active = thread[i].active /\ (e.kind # "Open" \/ e.res # "ok")
      <4>1. ~Installs(e, app)
        BY <3>3 DEF Installs, Answers
      <4>2. \A m \in DOMAIN inbox' : Installs(inbox'[m], app) => m \in DOMAIN inbox /\ inbox'[m] = inbox[m]
        BY <1>6, <4>1
      <4>3. (\A m \in DOMAIN inbox' : ~Installs(inbox'[m], app)) => \A m \in DOMAIN inbox : ~Installs(inbox[m], app)
        BY <1>6
      <4>4. app'.open = app.open
        BY <1>9
      <4>5. t.active # Inactive =>
              /\ \A m \in DOMAIN inbox' : Installs(inbox'[m], app) =>
                    t.active.act = inbox'[m].act /\ t.active.scan = inbox'[m].scan
              /\ (\A m \in DOMAIN inbox' : ~Installs(inbox'[m], app)) =>
                    t.active.act = app.act /\ app.cur \in {None, t.active.scan}
        BY <1>1, <3>3, <4>2, <4>3 DEF WorksFor
      <4> QED BY <1>9, <3>1, <4>4, <4>5 DEF WorksFor, Installs, Answers
    <3>4. CASE e.kind = "Open" /\ e.res = "ok" /\ t.active = [scan |-> q.scan, act |-> q.act] /\ e.scan = q.scan
      <4>1. Installs(e, app) /\ \A m \in DOMAIN inbox : ~Installs(inbox[m], app)
        BY <2>1, <3>4 DEF Installs, Answers
      <4>2. t.active.act = e.act /\ t.active.scan = e.scan
        BY <2>1, <3>4
      <4>3. /\ \A m \in DOMAIN inbox' : Installs(inbox'[m], app) => t.active.act = inbox'[m].act /\ t.active.scan = inbox'[m].scan
            /\ \E m \in DOMAIN inbox' : Installs(inbox'[m], app)
        BY <1>6, <4>1, <4>2
      <4> QED BY <1>9, <1>10, <3>1, <4>3 DEF WorksFor, Installs, Answers
    <3> QED BY <1>11, <3>2, <3>3, <3>4 DEF Replies
  <2> QED BY <2>4, <2>5, <2>6, <2>7, <2>8 DEF Lands
<1> QED BY <1>12, <1>13, <1>14, <1>15, <1>16, <1>17 DEF IInv

\* An event is made of its kind, its ids, its result and its scan.
LEMMA EventIs ==
    ASSUME NEW kind \in Kind, NEW act \in Nat, NEW req \in Nat, NEW res \in Results, NEW scan \in ScanOrNone
    PROVE  /\ Event(kind, act, req, res, scan) \in Events
           /\ Event(kind, act, req, res, scan).kind = kind /\ Event(kind, act, req, res, scan).act = act
           /\ Event(kind, act, req, res, scan).req = req /\ Event(kind, act, req, res, scan).res = res
           /\ Event(kind, act, req, res, scan).scan = scan
BY DEF Event, Events

\* The answer to what an actor takes names the request.
LEMMA AnswerIs ==
    ASSUME IInv, NEW q \in RequestsTo(app.req), q.kind # "Shutdown", NEW res \in Results, NEW scan \in ScanOrNone
    PROVE  /\ Answer(q, res, scan) \in Events
           /\ Answer(q, res, scan).kind = q.kind /\ Answer(q, res, scan).act = q.act
           /\ Answer(q, res, scan).req = q.req /\ Answer(q, res, scan).res = res
           /\ Answer(q, res, scan).scan = scan
           /\ q.kind \in Kind /\ q.scan \in ScanOrNone /\ q.act \in Nat
<1>1. app.req \in Nat
  BY GoodIs DEF IInv, RequestShape
<1>2. q.kind \in Kind /\ q.act \in Nat /\ q.req \in Nat /\ q.scan \in ScanOrNone
  BY <1>1 DEF RequestsTo, Asks, Kind
<1>3. Answer(q, res, scan) = Event(q.kind, q.act, q.req, res, scan)
  BY DEF Answer
<1> QED BY <1>2, <1>3, EventIs

\* What a gate lets pass, and what it answers otherwise.
LEMMA GateIs ==
    ASSUME NEW i, thread[i] \in Threads, NEW q
    PROVE  /\ ScanGate(i, q) \in {"ok", "err", "path"}
           /\ ScanGate(i, q) = "ok" /\ q.kind \in Writes =>
                thread[i].active # Inactive /\ thread[i].active.act = q.act
<1>1. thread[i].poisoned \in BOOLEAN
  BY DEF Threads
<1>2. CASE thread[i].poisoned
  BY <1>2 DEF ScanGate
<1>3. CASE ~thread[i].poisoned /\ q.kind = "Covering"
  BY <1>3 DEF ScanGate, Writes
<1>4. CASE ~thread[i].poisoned /\ q.kind # "Covering"
  BY <1>4 DEF ScanGate
<1> QED BY <1>1, <1>2, <1>3, <1>4

\* The actor ends: its queue is gone before its terminal arrives.
LEMMA ServeShutdownKeeps == ASSUME IInv, NEW i \in DOMAIN thread, ServeShutdown(i) PROVE IInv'
<1> DEFINE t == [thread[i] EXCEPT !.st = "ended"]
           e == Event("Closed", 0, i, "Requested", None)
<1>1. /\ Taken(i) /\ Answered(i, t, e) /\ UNCHANGED <<db, stale, left, signals>>
  BY DEF ServeShutdown, Answered
<1>2. thread[i] \in Threads /\ i \in DOMAIN app.queue
  BY <1>1, TakenBy
<1>3. t \in Threads /\ t.st = "ended"
  BY <1>2 DEF Threads
<1>4. i \in Nat
  <2>1. app.queue \in Seq(Seq(RequestsTo(app.req)))
    BY GoodIs DEF IInv, FleetShape
  <2> QED BY <1>2, <2>1, LenProperties
<1>5. e \in Events /\ e.kind = "Closed" /\ e.req = i
  BY <1>4 DEF Event, Events, Kind, Results, ScanOrNone
<1>6. Spent' /\ Stored'
  BY <1>1, SpentOn DEF IInv, Stored
<1> HIDE DEF t, e
<1>7. Replies(i, Head(app.queue[i]), t, e)
  BY <1>3, <1>5 DEF Replies
<1> QED BY <1>1, <1>3, <1>5, <1>6, <1>7, ReplyKeeps

\* A request is refused, and nothing of the store changes.
LEMMA ServeRefusalKeeps == ASSUME IInv, NEW i \in DOMAIN thread, ServeRefusal(i) PROVE IInv'
<1> DEFINE q == Head(app.queue[i])
           res == IF Closing(i) THEN "err" ELSE ScanGate(i, q)
           t == thread[i]
           e == Answer(q, res, None)
<1>1. /\ Taken(i) /\ Answered(i, t, e) /\ UNCHANGED <<db, stale, left, signals>>
      /\ q.kind # "Shutdown" /\ (Closing(i) \/ (q.kind # "Open" /\ ScanGate(i, q) # "ok"))
  BY DEF ServeRefusal, Answered
<1>2. t \in Threads /\ t.st = "running" /\ q \in RequestsTo(app.req)
  BY <1>1, TakenBy
<1>3. res \in {"err", "path"}
  BY <1>1, <1>2, GateIs
<1>4. Spent' /\ Stored'
  BY <1>1, SpentOn DEF IInv, Stored
<1> HIDE DEF q, res
<1>5. res \in Results /\ None \in ScanOrNone
  BY <1>3 DEF Results, ScanOrNone
<1>6. e \in Events /\ e.kind = q.kind /\ e.act = q.act /\ e.req = q.req /\ e.res = res
  BY <1>1, <1>2, <1>5, AnswerIs
<1> HIDE DEF e
<1>7. Replies(i, Head(app.queue[i]), t, e)
  BY <1>1, <1>2, <1>3, <1>6 DEF Replies, q
<1>8. e.res # "ok"
  BY <1>3, <1>6
<1> QED BY <1>1, <1>2, <1>4, <1>6, <1>7, <1>8, ReplyKeeps

\* A scan is installed under the activation its open named.
LEMMA ServeOpenKeeps == ASSUME IInv, NEW i \in DOMAIN thread, ServeOpen(i) PROVE IInv'
<1> DEFINE q == Head(app.queue[i])
           t == [thread[i] EXCEPT !.active = [scan |-> q.scan, act |-> q.act], !.poisoned = FALSE]
           f == Answer(q, "ok", q.scan)
<1>1. Taken(i) /\ q.kind = "Open" /\ UNCHANGED <<db, stale, left>>
  BY DEF ServeOpen
<1>2. PICK group \in BOOLEAN : Answered(i, t, [f EXCEPT !.group = group])
  BY DEF ServeOpen
<1> DEFINE e == [f EXCEPT !.group = group]
<1>3. thread[i] \in Threads /\ thread[i].st = "running" /\ q \in RequestsTo(app.req)
  BY <1>1, TakenBy
<1>4. Spent' /\ Stored'
  BY <1>1, <1>2, SpentOn DEF IInv, Stored, Answered
<1> HIDE DEF q
<1>5. f \in Events /\ f.kind = q.kind /\ f.act = q.act /\ f.req = q.req /\ f.res = "ok" /\ f.scan = q.scan
      /\ q.scan \in ScanOrNone /\ q.act \in Nat
  <2>1. "ok" \in Results /\ q.scan \in ScanOrNone /\ q.act \in Nat
    BY <1>3 DEF Results, RequestsTo
  <2>2. PICK ok \in Results : ok = "ok"
    BY <2>1
  <2> QED BY <1>1, <1>3, <2>1, <2>2, AnswerIs
<1>6. t \in Threads /\ t.st = "running" /\ t.active = [scan |-> q.scan, act |-> q.act]
  BY <1>3, <1>5 DEF Threads
<1> HIDE DEF f, t
<1>7. e \in Events /\ e.kind = q.kind /\ e.act = q.act /\ e.req = q.req /\ e.res = "ok" /\ e.scan = q.scan
  BY <1>5 DEF Events
<1> HIDE DEF e
<1>8. Replies(i, Head(app.queue[i]), t, e)
  BY <1>1, <1>6, <1>7 DEF Replies, q
<1>9. e.kind = "Open" /\ Answered(i, t, e) /\ stale' \subseteq stale
  BY <1>1, <1>2, <1>7 DEF e
<1> QED BY <1>1, <1>4, <1>6, <1>7, <1>8, <1>9, ReplyKeeps

\* A read: a plan is answered only of a scan that has marks.
LEMMA ServeReadKeeps == ASSUME IInv, NEW i \in DOMAIN thread, ServeRead(i) PROVE IInv'
<1> DEFINE q == Head(app.queue[i])
           s == thread[i].active.scan
           t == thread[i]
           res == IF q.kind = "Plan" /\ s \notin db THEN "err" ELSE "ok"
<1>1. /\ Taken(i) /\ UNCHANGED <<db, stale, left>> /\ q.kind \in {"Count", "Group", "Plan", "Covering"}
  BY DEF ServeRead
<1>2. PICK scan \in IF q.kind = "Covering" THEN Scans \cup {None} ELSE {s} : Answered(i, t, Answer(q, res, scan))
  BY DEF ServeRead
<1> DEFINE e == Answer(q, res, scan)
<1>3. t \in Threads /\ t.st = "running" /\ q \in RequestsTo(app.req)
  BY <1>1, TakenBy
<1>4. scan \in ScanOrNone /\ res \in Results /\ s \in ScanOrNone
  BY <1>2, <1>3 DEF ScanOrNone, Threads, Results
<1>5. q.kind = "Plan" /\ res = "ok" => scan # None
  BY <1>2, ConstantsOK DEF IInv, Stored
<1>6. Spent' /\ Stored'
  BY <1>1, <1>2, SpentOn DEF IInv, Stored, Answered
<1> HIDE DEF q, res
<1>7. e \in Events /\ e.kind = q.kind /\ e.act = q.act /\ e.req = q.req /\ e.res = res /\ e.scan = scan
  BY <1>1, <1>3, <1>4, AnswerIs
<1> HIDE DEF e
<1>8. Replies(i, Head(app.queue[i]), t, e)
  BY <1>1, <1>3, <1>7 DEF Replies, q
<1>9. e.kind # "Reconcile" /\ (e.kind = "Plan" /\ e.res = "ok" => e.scan # None) /\ Answered(i, t, e) /\ stale' \subseteq stale
  BY <1>1, <1>2, <1>5, <1>7 DEF e
<1> QED BY <1>1, <1>3, <1>6, <1>7, <1>8, <1>9, ReplyKeeps

\* A write goes to the scan it was asked for, and what it settles is no longer stale.
LEMMA ServeWriteKeeps == ASSUME IInv, NEW i \in DOMAIN thread, ServeWrite(i) PROVE IInv'
<1> DEFINE q == Head(app.queue[i])
           s == thread[i].active.scan
           t == thread[i]
           e == Answer(q, "ok", s)
<1>1. /\ Taken(i) /\ q.kind \in Writes /\ ScanGate(i, q) = "ok" /\ left' = left /\ signals' = signals
      /\ db' = (IF q.kind = "SetMarks" THEN db \cup {s} ELSE db \ {s})
      /\ stale' = stale \ {s} /\ Answered(i, t, e)
  BY DEF ServeWrite, Answered
<1>2. /\ t \in Threads /\ t.st = "running" /\ q \in RequestsTo(app.req) /\ AsksWell(app, inbox, i)
      /\ q = app.queue[i][1] /\ 1 \in DOMAIN app.queue[i] /\ Active(i) = t.active
  BY <1>1, TakenBy
<1>3. t.active # Inactive /\ t.active.act = q.act
  BY <1>1, <1>2, GateIs
<1>4. q.scan # None /\ s = q.scan /\ (q.kind = "Reconcile" /\ q.req = app.reconcile => app.last.owed \in {None, q.scan})
  BY <1>1, <1>2, <1>3 DEF AsksWell
<1> HIDE DEF q
<1>5. s \in Scans
  BY <1>2, <1>4 DEF RequestsTo, ScanOrNone
<1>6. Spent' /\ Stored'
  BY <1>1, <1>5, SpentOn DEF IInv, Stored
<1> HIDE DEF s
<1>7. e \in Events /\ e.kind = q.kind /\ e.act = q.act /\ e.req = q.req /\ e.res = "ok"
  <2>1. "ok" \in Results /\ s \in ScanOrNone /\ q.kind # "Shutdown"
    BY <1>1, <1>5 DEF Results, Writes, ScanOrNone
  <2>2. PICK ok \in Results : ok = "ok"
    BY <2>1
  <2> QED BY <1>2, <2>1, <2>2, AnswerIs
<1> HIDE DEF e
<1>8. Replies(i, Head(app.queue[i]), t, e)
  BY <1>1, <1>2, <1>7 DEF Replies, q, Writes
<1>9. e.kind # "Plan" /\ stale' \subseteq stale
  BY <1>1, <1>7 DEF Writes
<1>10. e.kind = "Reconcile" /\ e.req = app.reconcile => app.last.owed = None \/ app.last.owed \notin stale'
  BY <1>1, <1>4, <1>7
<1> QED BY <1>1, <1>2, <1>6, <1>7, <1>8, <1>9, <1>10, ReplyKeeps

\* The store failed, or another file stands at its path.
LEMMA FailsKeeps ==
    ASSUME IInv, NEW i \in DOMAIN thread, Taken(i), Head(app.queue[i]).kind # "Shutdown",
           NEW t \in Threads, t.st = "running", t.active \in {thread[i].active, Inactive},
           NEW res \in {"err", "path"}, Answered(i, t, Answer(Head(app.queue[i]), res, None)),
           NEW kind \in Kinds \ {"kill"}, Spend(kind), UNCHANGED <<db, stale>>
    PROVE  IInv'
<1> DEFINE q == Head(app.queue[i])
           e == Answer(q, res, None)
<1>1. q \in RequestsTo(app.req)
  BY TakenBy
<1>2. Spent' /\ Stored'
  BY SpentOn DEF IInv, Stored, Answered
<1>3. res \in Results /\ None \in ScanOrNone
  BY DEF Results, ScanOrNone
<1> HIDE DEF q
<1>4. e \in Events /\ e.kind = q.kind /\ e.act = q.act /\ e.req = q.req /\ e.res = res
  BY <1>1, <1>3, AnswerIs DEF q
<1> HIDE DEF e
<1>5. Replies(i, Head(app.queue[i]), t, e)
  BY <1>4 DEF Replies, q
<1>6. e.res # "ok" /\ Answered(i, t, e) /\ stale' \subseteq stale
  BY <1>4 DEF e, q
<1> QED BY <1>2, <1>4, <1>5, <1>6, ReplyKeeps

\* The store fails.
LEMMA ServeFaultKeeps == ASSUME IInv, NEW i \in DOMAIN thread, ServeFault(i) PROVE IInv'
<1> DEFINE q == Head(app.queue[i])
           res == IF thread[i].poisoned THEN "path" ELSE "err"
<1>1. /\ Taken(i) /\ Spend("fault") /\ "fault" \in Kinds \ {"kill"} /\ q.kind # "Shutdown"
      /\ Answered(i, thread[i], Answer(q, res, None)) /\ UNCHANGED <<db, stale>>
  BY DEF ServeFault, Served, Kinds
<1>2. thread[i] \in Threads /\ thread[i].st = "running"
  BY <1>1, TakenBy
<1>3. res \in {"err", "path"}
  OBVIOUS
<1> HIDE DEF res
<1>4. PICK kind \in Kinds \ {"kill"} : kind = "fault"
  BY <1>1
<1> QED BY <1>1, <1>2, <1>3, <1>4, FailsKeeps

\* Another file stands at the database's path.
LEMMA ServeSwapKeeps == ASSUME IInv, NEW i \in DOMAIN thread, ServeSwap(i) PROVE IInv'
<1> DEFINE q == Head(app.queue[i])
           t == Poisoned(thread[i])
<1>1. /\ Taken(i) /\ Spend("swap") /\ "swap" \in Kinds \ {"kill"} /\ q.kind # "Shutdown"
      /\ Answered(i, t, Answer(q, "path", None)) /\ UNCHANGED <<db, stale>>
  BY DEF ServeSwap, Served, Kinds
<1>2. thread[i] \in Threads /\ thread[i].st = "running"
  BY <1>1, TakenBy
<1>3. t \in Threads /\ t.st = "running" /\ t.active = Inactive
  BY <1>2 DEF Threads, Poisoned, Inactive, ScanOrNone
<1> HIDE DEF t
<1>4. PICK kind \in Kinds \ {"kill"} : kind = "swap"
  BY <1>1
<1>5. PICK res \in {"err", "path"} : res = "path"
  OBVIOUS
<1> QED BY <1>1, <1>3, <1>4, <1>5, FailsKeeps

\* A thread that only goes on to its end takes nothing from the window.
LEMMA ThreadKeeps ==
    ASSUME IInv, NEW i \in DOMAIN thread, thread[i].st # "ended", NEW st \in {"dropped", "ended"},
           thread' = [thread EXCEPT ![i].st = st], app' = app,
           \/ inbox' = inbox
           \/ st = "ended" /\ inbox' = Append(inbox, Event("Closed", 0, i, "Panicked", None)),
           UNCHANGED <<pc, signals>>, Spent', Stored', stale' = stale
    PROVE  IInv'
<1> DEFINE e == Event("Closed", 0, i, "Panicked", None)
           t == [thread[i] EXCEPT !.st = st]
<1>0. Good(app) /\ Hosted /\ Lands(app, inbox) /\ Posted(inbox) /\ Counts(app, inbox) /\ Exits
  BY DEF IInv
<1>1. /\ thread[i] \in Threads /\ TerminalOwed(app) /\ i = app.actor /\ DOMAIN thread = DOMAIN app.born
  BY <1>0 DEF Hosted
<1>2. t \in Threads /\ t.st = st
  BY <1>1 DEF Threads
<1>3. /\ DOMAIN thread' = DOMAIN thread /\ thread'[i] = t /\ \A j \in DOMAIN thread : j # i => thread'[j] = thread[j]
  BY <1>1 DEF Threads
<1> HIDE DEF t
<1>4. i \in Nat
  <2>1. app.born \in Seq(Roles)
    BY <1>0, GoodIs DEF FleetShape
  <2> QED BY <1>1, <2>1, LenProperties
<1>5. e \in Events /\ e.kind = "Closed" /\ e.req = i
  BY <1>4 DEF Event, Events, Kind, Results, ScanOrNone
<1>6. inbox \in Seq(Events)
  BY <1>0 DEF Posted
<1> HIDE DEF e
<1>7. inbox' = inbox \/ (st = "ended" /\ inbox' = Append(inbox, e))
  BY DEF e
<1>8. Hosted'
  BY <1>0, <1>1, <1>2, <1>3 DEF Hosted, TerminalOwed
<1>9. Good(app)'
  <2>1. DOMAIN app = Fields /\ WindowShape(app) /\ RequestShape(app) /\ FleetShape(app) /\ Housed(app)
        /\ app.pending \subseteq app.ledger /\ (app.fleet = "Idle" => app.ledger = {})
    BY <1>0 DEF Good, Loose, Shape
  <2>2. (WindowShape(app) /\ RequestShape(app))'
    BY <2>1 DEF WindowShape, RequestShape
  <2>4. FleetShape(app)'
    BY <2>1 DEF FleetShape, TerminalOwed
  <2>3. Housed(app)'
    BY <1>1, <1>2, <1>3, <2>1 DEF Housed, TerminalOwed
  <2> QED BY <2>1, <2>2, <2>3, <2>4 DEF Good, Loose, Shape
<1>10. /\ inbox' \in Seq(Events)
       /\ \A m \in DOMAIN inbox' : (m \in DOMAIN inbox /\ inbox'[m] = inbox[m]) \/ (inbox'[m] = e /\ st = "ended")
  BY <1>5, <1>6, <1>7, AppendIs
<1>11. Posted(inbox)'
  <2> SUFFICES ASSUME NEW m \in DOMAIN inbox'
               PROVE  /\ inbox'[m].kind = "ApplyFinished" => inbox'[m].res \in Batches /\ inbox'[m].scan # None
                      /\ inbox'[m].kind = "Plan" /\ inbox'[m].res = "ok" => inbox'[m].scan # None
                      /\ inbox'[m].kind = "Closed" => inbox'[m].req \in DOMAIN thread' /\ thread'[inbox'[m].req].st = "ended"
    BY <1>10 DEF Posted
  <2>1. CASE m \in DOMAIN inbox /\ inbox'[m] = inbox[m]
    <3>1. /\ inbox[m].kind = "ApplyFinished" => inbox[m].res \in Batches /\ inbox[m].scan # None
          /\ inbox[m].kind = "Plan" /\ inbox[m].res = "ok" => inbox[m].scan # None
          /\ inbox[m].kind = "Closed" => inbox[m].req \in DOMAIN thread /\ thread[inbox[m].req].st = "ended"
      BY <1>0, <2>1 DEF Posted
    <3> QED BY <1>3, <2>1, <3>1
  <2>2. CASE inbox'[m] = e /\ st = "ended"
    BY <1>2, <1>3, <1>5, <2>2
  <2> QED BY <1>10, <2>1, <2>2
<1>12. Counts(app, inbox)'
  <2>1. ASSUME NEW kind, kind # "Closed" PROVE Count(inbox', kind) = Count(inbox, kind)
    <3>1. CASE inbox' = inbox
      BY <3>1
    <3>2. CASE inbox' = Append(inbox, e)
      <4>1. Count(inbox, kind) \in Nat
        BY <1>6, CountIs
      <4>2. Count(Append(inbox, e), kind) = Count(inbox, kind) + One(e.kind = kind)
        BY <1>5, <1>6, CountAppend
      <4>3. One(e.kind = kind) = 0
        BY <1>5, <2>1 DEF One
      <4> QED BY <3>2, <4>1, <4>2, <4>3
    <3> QED BY <1>7, <3>1, <3>2
  <2>2. /\ Count(inbox', "MoveDone") = Count(inbox, "MoveDone")
        /\ Count(inbox', "Purged") = Count(inbox, "Purged")
        /\ Count(inbox', "Probe") = Count(inbox, "Probe")
        /\ Count(inbox', "ScanFinished") = Count(inbox, "ScanFinished")
        /\ Count(inbox', "ApplyFinished") = Count(inbox, "ApplyFinished")
    BY <2>1
  <2> QED BY <1>0, <2>2 DEF Counts
<1>13. Exits'
  BY <1>0 DEF Exits, Leaving, Way, ProducersBusy
<1>14. Lands(app, inbox')
  <2>1. CASE inbox' = inbox
    BY <1>0, <2>1
  <2>2. CASE inbox' = Append(inbox, e)
    <3>1. Lands(app, Append(inbox, e))
      BY <1>0, <1>5, <1>6, LandsWith
    <3> QED BY <2>2, <3>1
  <2> QED BY <1>7, <2>1, <2>2
<1>15. Lands(app, inbox)'
  <2>1. ASSUME NEW j \in DOMAIN app.queue, Runs(j)' PROVE Runs(j) /\ Active(j)' = Active(j)
    BY <1>1, <1>2, <1>3, <2>1 DEF Runs, Active
  <2>2. ASSUME NEW j \in DOMAIN app.queue, Runs(j)' PROVE AsksWell(app, inbox, j)'
    <3>1. AsksWell(app, inbox', j) /\ Active(j)' = Active(j)
      BY <1>14, <2>1, <2>2 DEF Lands
    <3> QED BY <3>1 DEF AsksWell, Answers
  <2>3. ASSUME NEW j \in DOMAIN app.queue, Runs(j)' PROVE WorksFor(app, inbox, j)'
    <3>1. WorksFor(app, inbox', j) /\ Active(j)' = Active(j)
      BY <1>14, <2>1, <2>3 DEF Lands
    <3> QED BY <3>1 DEF WorksFor, Answers, Installs
  <2>4. BoxOK(app, inbox)' /\ OwesOK(app)'
    BY <1>14 DEF Lands, BoxOK, OwesOK, Answers, Installs
  <2> QED BY <2>2, <2>3, <2>4 DEF Lands
<1> QED BY <1>8, <1>9, <1>11, <1>12, <1>13, <1>15 DEF IInv

\* The actor panics: its receiver is gone.
LEMMA ActorPanicsKeeps == ASSUME IInv, NEW i \in DOMAIN thread, ActorPanics(i) PROVE IInv'
<1>1. /\ Taken(i) /\ Spend("actorPanic") /\ "actorPanic" \in Kinds \ {"kill"} /\ thread[i].st = "running"
      /\ thread' = [thread EXCEPT ![i].st = "dropped"] /\ UNCHANGED <<app, inbox, pc, signals, db, stale>>
  BY DEF ActorPanics, Kinds, Taken
<1>2. Spent' /\ Stored'
  BY <1>1, SpentOn DEF IInv, Stored
<1>3. PICK st \in {"dropped", "ended"} : st = "dropped"
  OBVIOUS
<1> QED BY <1>1, <1>2, <1>3, ThreadKeeps

\* And its terminal is sent.
LEMMA PanicTerminalKeeps == ASSUME IInv, NEW i \in DOMAIN thread, PanicTerminal(i) PROVE IInv'
<1>1. /\ thread[i].st = "dropped" /\ thread' = [thread EXCEPT ![i].st = "ended"]
      /\ inbox' = Append(inbox, Event("Closed", 0, i, "Panicked", None))
      /\ UNCHANGED <<app, pc, signals, db, stale, left>>
  BY DEF PanicTerminal
<1>2. Spent' /\ Stored'
  BY <1>1, SpentOn DEF IInv, Stored
<1>3. PICK st \in {"dropped", "ended"} : st = "ended"
  OBVIOUS
<1> QED BY <1>1, <1>2, <1>3, ThreadKeeps

-----------------------------------------------------------------------------
(* The workers' reports                                                    *)

\* A worker reports once, and what it ran is no longer under way.
LEMMA WorkerKeeps ==
    ASSUME IInv, NEW work \in Works, NEW e \in Events, Reports(work, e), e.kind \in Outcome,
           Counts([app EXCEPT !.work = work], Append(inbox, e)),
           e.kind = "ApplyFinished" => e.res \in Batches /\ e.scan # None,
           Spent', stale' \subseteq stale \/ app.last.owed = None, stale' \subseteq db
    PROVE  IInv'
<1>0. Good(app) /\ Hosted /\ Lands(app, inbox) /\ Posted(inbox) /\ Exits /\ Stored
  BY DEF IInv
<1>1. DOMAIN app = Fields
  BY <1>0 DEF Good, Loose, Shape
<1>2. app' = [app EXCEPT !.work = work] /\ inbox' = Append(inbox, e) /\ UNCHANGED <<thread, pc, signals, db>>
  BY DEF Reports
<1>3. DOMAIN app' = Fields /\ app'.work = work /\ Same(app, app', {"work"})
  BY <1>1, <1>2 DEF Fields, Same
<1>4. /\ app'.stage = app.stage /\ app'.screen = app.screen /\ app'.owed = app.owed /\ app'.cur = app.cur /\ app'.dedup = app.dedup /\ app'.owes = app.owes
        /\ app'.plan = app.plan /\ app'.act = app.act /\ app'.cache = app.cache /\ app'.moves = app.moves /\ app'.purges = app.purges /\ app'.probes = app.probes
        /\ app'.last = app.last /\ app'.scan = app.scan /\ app'.apply = app.apply /\ app'.late = app.late /\ app'.keyQuit = app.keyQuit
        /\ app'.prompt = app.prompt /\ app'.quit = app.quit /\ app'.unsettled = app.unsettled /\ app'.spawn = app.spawn /\ app'.open = app.open
  BY <1>3 DEF Same, Fields
<1>5. /\ app'.req = app.req /\ app'.marked = app.marked /\ app'.planning = app.planning /\ app'.reconcile = app.reconcile /\ app'.settling = app.settling /\ app'.groups = app.groups
        /\ app'.covering = app.covering /\ app'.gate = app.gate /\ app'.pending = app.pending /\ app'.ledger = app.ledger /\ app'.fleet = app.fleet /\ app'.actor = app.actor
        /\ app'.born = app.born /\ app'.queue = app.queue
  BY <1>3 DEF Same, Fields
<1>6. Good(app)'
  <2>1. DOMAIN app = Fields /\ WindowShape(app) /\ RequestShape(app) /\ FleetShape(app) /\ Housed(app)
        /\ app.pending \subseteq app.ledger /\ (app.fleet = "Idle" => app.ledger = {})
    BY <1>0 DEF Good, Loose, Shape
  <2>2. WindowShape(app)'
    BY <1>3, <1>4, <2>1 DEF WindowShape
  <2>3. RequestShape(app)'
    BY <1>4, <1>5, <2>1 DEF RequestShape
  <2>4. FleetShape(app)'
    BY <1>5, <2>1 DEF FleetShape, TerminalOwed
  <2>5. Housed(app)'
    BY <1>2, <1>5, <2>1 DEF Housed, TerminalOwed
  <2> QED BY <1>3, <1>5, <2>1, <2>2, <2>3, <2>4, <2>5 DEF Good, Loose, Shape
<1>7. Hosted'
  BY <1>0, <1>2, <1>5 DEF Hosted, TerminalOwed
<1>8. inbox \in Seq(Events)
  BY <1>0 DEF Posted
<1>9. /\ inbox' \in Seq(Events)
      /\ \A m \in DOMAIN inbox' : (m \in DOMAIN inbox /\ inbox'[m] = inbox[m]) \/ inbox'[m] = e
  BY <1>2, <1>8, AppendIs
<1>10. e.kind \notin {"Open", "Reconcile", "Plan", "Closed"}
  BY DEF Outcome
<1>11. Posted(inbox)'
  <2> SUFFICES ASSUME NEW m \in DOMAIN inbox'
               PROVE  /\ inbox'[m].kind = "ApplyFinished" => inbox'[m].res \in Batches /\ inbox'[m].scan # None
                      /\ inbox'[m].kind = "Plan" /\ inbox'[m].res = "ok" => inbox'[m].scan # None
                      /\ inbox'[m].kind = "Closed" => inbox'[m].req \in DOMAIN thread' /\ thread'[inbox'[m].req].st = "ended"
    BY <1>9 DEF Posted
  <2>1. CASE m \in DOMAIN inbox /\ inbox'[m] = inbox[m]
    BY <1>0, <1>2, <2>1 DEF Posted
  <2>2. CASE inbox'[m] = e
    BY <1>10, <2>2
  <2> QED BY <1>9, <2>1, <2>2
<1>12. Counts(app, inbox)'
  BY <1>2 DEF Counts
<1>13. Stored'
  BY <1>0, <1>2 DEF Stored
<1>14. Exits'
  <2>1. Leaving(app) => Leaving(app)'
    BY <1>2, <1>4 DEF Leaving, ProducersBusy
  <2>2. Way(app) => Way(app)'
    BY <1>4, <2>1 DEF Way
  <2> QED BY <1>0, <1>2, <1>4, <2>1, <2>2 DEF Exits
<1>15. Lands(app, inbox')
  BY <1>0, <1>2, <1>8, <1>10, LandsWith
<1>16. Lands(app, inbox)'
  <2>1. ASSUME NEW j \in DOMAIN app'.queue, Runs(j)' PROVE AsksWell(app, inbox, j)'
    <3>1. AsksWell(app, inbox', j) /\ Active(j)' = Active(j)
      BY <1>2, <1>5, <1>15, <2>1 DEF Lands, Runs, Active
    <3> QED BY <1>4, <1>5, <3>1 DEF AsksWell, Answers
  <2>2. ASSUME NEW j \in DOMAIN app'.queue, Runs(j)' PROVE WorksFor(app, inbox, j)'
    <3>1. WorksFor(app, inbox', j) /\ Active(j)' = Active(j)
      BY <1>2, <1>5, <1>15, <2>2 DEF Lands, Runs, Active
    <3> QED BY <1>4, <1>5, <3>1 DEF WorksFor, Answers, Installs
  <2>3. BoxOK(app, inbox)'
    <3>1. BoxOK(app, inbox')
      BY <1>15 DEF Lands
    <3> QED BY <1>4, <1>5, <3>1 DEF BoxOK, Answers, Installs
  <2>4. OwesOK(app)'
    <3>1. OwesOK(app)
      BY <1>0 DEF Lands
    <3> QED BY <1>4, <3>1 DEF OwesOK
  <2> QED BY <2>1, <2>2, <2>3, <2>4 DEF Lands
<1> QED BY <1>6, <1>7, <1>11, <1>12, <1>13, <1>14, <1>16 DEF IInv

\* What a report takes from the work under way it adds to the inbox.
LEMMA ReportCounts ==
    ASSUME IInv, NEW work \in Works, NEW e \in Events, NEW kind \in Outcome, e.kind = kind,
           work.moves = app.work.moves - One(kind = "MoveDone"),
           work.purges = app.work.purges - One(kind = "Purged"),
           work.probes = app.work.probes - One(kind = "Probe"),
           One(work.scan) = One(app.work.scan) - One(kind = "ScanFinished"),
           One(work.apply # None) = One(app.work.apply # None) - One(kind = "ApplyFinished")
    PROVE  Counts([app EXCEPT !.work = work], Append(inbox, e))
<1> DEFINE n == [app EXCEPT !.work = work]
           box == Append(inbox, e)
<1>1. inbox \in Seq(Events) /\ Counts(app, inbox) /\ DOMAIN app = Fields /\ app.work \in Works
  BY GoodIs DEF IInv, Posted, Good, Loose, Shape, WindowShape
<1>2. n.work = work /\ n.moves = app.moves /\ n.purges = app.purges /\ n.probes = app.probes
      /\ n.scan = app.scan /\ n.apply = app.apply
  BY <1>1 DEF Fields
<1>3. \A k \in Outcome : Count(box, k) = Count(inbox, k) + One(kind = k) /\ Count(inbox, k) \in Nat
  <2> SUFFICES ASSUME NEW k \in Outcome PROVE Count(box, k) = Count(inbox, k) + One(kind = k) /\ Count(inbox, k) \in Nat
    OBVIOUS
  <2>1. Count(inbox, k) \in Nat
    BY <1>1, CountIs
  <2>2. Count(Append(inbox, e), k) = Count(inbox, k) + One(e.kind = k)
    BY <1>1, CountAppend
  <2> QED BY <2>1, <2>2
<1> HIDE DEF n, box
<1>4. /\ Count(box, "MoveDone") = Count(inbox, "MoveDone") + One(kind = "MoveDone")
      /\ Count(box, "Purged") = Count(inbox, "Purged") + One(kind = "Purged")
      /\ Count(box, "Probe") = Count(inbox, "Probe") + One(kind = "Probe")
      /\ Count(box, "ScanFinished") = Count(inbox, "ScanFinished") + One(kind = "ScanFinished")
      /\ Count(box, "ApplyFinished") = Count(inbox, "ApplyFinished") + One(kind = "ApplyFinished")
      /\ {Count(inbox, "MoveDone"), Count(inbox, "Purged"), Count(inbox, "Probe"), Count(inbox, "ScanFinished"),
          Count(inbox, "ApplyFinished")} \subseteq Nat
  BY <1>3 DEF Outcome
<1>5. \A x : One(x) \in Nat
  BY DEF One
<1>6. app.work.moves \in Nat /\ app.work.purges \in Nat /\ app.work.probes \in Nat
  BY <1>1 DEF Works
<1>7. n.moves = work.moves + Count(box, "MoveDone")
  <2> DEFINE one == One(kind = "MoveDone")
  <2>1. one \in Nat /\ work.moves = app.work.moves - one /\ Count(box, "MoveDone") = Count(inbox, "MoveDone") + one
    BY <1>4, <1>5
  <2>2. n.moves = app.work.moves + Count(inbox, "MoveDone") /\ Count(inbox, "MoveDone") \in Nat /\ app.work.moves \in Nat
    BY <1>1, <1>2, <1>4, <1>6 DEF Counts
  <2> HIDE DEF one
  <2> QED BY <2>1, <2>2
<1>8. n.purges = work.purges + Count(box, "Purged")
  <2> DEFINE one == One(kind = "Purged")
  <2>1. one \in Nat /\ work.purges = app.work.purges - one /\ Count(box, "Purged") = Count(inbox, "Purged") + one
    BY <1>4, <1>5
  <2>2. n.purges = app.work.purges + Count(inbox, "Purged") /\ Count(inbox, "Purged") \in Nat /\ app.work.purges \in Nat
    BY <1>1, <1>2, <1>4, <1>6 DEF Counts
  <2> HIDE DEF one
  <2> QED BY <2>1, <2>2
<1>9. n.probes = work.probes + Count(box, "Probe")
  <2> DEFINE one == One(kind = "Probe")
  <2>1. one \in Nat /\ work.probes = app.work.probes - one /\ Count(box, "Probe") = Count(inbox, "Probe") + one
    BY <1>4, <1>5
  <2>2. n.probes = app.work.probes + Count(inbox, "Probe") /\ Count(inbox, "Probe") \in Nat /\ app.work.probes \in Nat
    BY <1>1, <1>2, <1>4, <1>6 DEF Counts
  <2> HIDE DEF one
  <2> QED BY <2>1, <2>2
<1>10. One(n.scan) = One(work.scan) + Count(box, "ScanFinished")
  <2>1. One(app.scan) = One(app.work.scan) + Count(inbox, "ScanFinished") /\ One(n.scan) = One(app.scan)
    BY <1>1, <1>2 DEF Counts
  <2> QED BY <1>4, <1>5, <2>1
<1>11. One(n.apply) = One(work.apply # None) + Count(box, "ApplyFinished")
  <2>1. One(app.apply) = One(app.work.apply # None) + Count(inbox, "ApplyFinished") /\ One(n.apply) = One(app.apply)
    BY <1>1, <1>2 DEF Counts
  <2> QED BY <1>4, <1>5, <2>1
<1>12. Counts(n, box)
  BY <1>2, <1>7, <1>8, <1>9, <1>10, <1>11 DEF Counts
<1> QED BY <1>12 DEF n, box

\* A move ends.
LEMMA MoveEndsKeeps == ASSUME IInv, MoveEnds PROVE IInv'
<1> DEFINE work == [app.work EXCEPT !.moves = @ - 1]
           e == Event("MoveDone", 0, 0, "ok", None)
<1>1. app.work.moves > 0 /\ Reports(work, e) /\ UNCHANGED <<stale, left, signals, db>>
  BY DEF MoveEnds, Reports
<1>2. app.work \in Works
  BY GoodIs DEF IInv, WindowShape
<1>3. /\ work \in Works /\ work.moves = app.work.moves - 1 /\ work.purges = app.work.purges /\ work.probes = app.work.probes
      /\ work.scan = app.work.scan /\ work.apply = app.work.apply
  BY <1>1, <1>2 DEF Works
<1>4. e \in Events /\ e.kind = "MoveDone" /\ "MoveDone" \in Outcome
  BY DEF Event, Events, Kind, Results, ScanOrNone, Outcome
<1> HIDE DEF work, e
<1>5. PICK kind \in Outcome : kind = "MoveDone"
  BY <1>4
<1>6. /\ One(kind = "MoveDone") = 1 /\ One(kind = "Purged") = 0 /\ One(kind = "Probe") = 0
      /\ One(kind = "ScanFinished") = 0 /\ One(kind = "ApplyFinished") = 0
  BY <1>5 DEF One
<1>7. One(app.work.scan) \in Nat /\ One(app.work.apply # None) \in Nat
  BY DEF One
<1>8. Counts([app EXCEPT !.work = work], Append(inbox, e))
  <2>1. /\ work.moves = app.work.moves - One(kind = "MoveDone") /\ work.purges = app.work.purges - One(kind = "Purged")
        /\ work.probes = app.work.probes - One(kind = "Probe")
        /\ One(work.scan) = One(app.work.scan) - One(kind = "ScanFinished")
        /\ One(work.apply # None) = One(app.work.apply # None) - One(kind = "ApplyFinished")
    BY <1>2, <1>3, <1>6, <1>7 DEF Works
  <2> QED BY <1>3, <1>4, <1>5, <2>1, ReportCounts
<1>9. Spent' /\ stale' \subseteq db
  BY <1>1, SpentOn DEF IInv, Stored
<1> QED BY <1>1, <1>3, <1>4, <1>8, <1>9, WorkerKeeps

\* A deletion ends.
LEMMA PurgeEndsKeeps == ASSUME IInv, PurgeEnds PROVE IInv'
<1> DEFINE work == [app.work EXCEPT !.purges = @ - 1]
           e == Event("Purged", 0, 0, "ok", None)
<1>1. app.work.purges > 0 /\ Reports(work, e) /\ UNCHANGED <<stale, left, signals, db>>
  BY DEF PurgeEnds, Reports
<1>2. app.work \in Works
  BY GoodIs DEF IInv, WindowShape
<1>3. /\ work \in Works /\ work.purges = app.work.purges - 1 /\ work.moves = app.work.moves /\ work.probes = app.work.probes
      /\ work.scan = app.work.scan /\ work.apply = app.work.apply
  BY <1>1, <1>2 DEF Works
<1>4. e \in Events /\ e.kind = "Purged" /\ "Purged" \in Outcome
  BY DEF Event, Events, Kind, Results, ScanOrNone, Outcome
<1> HIDE DEF work, e
<1>5. PICK kind \in Outcome : kind = "Purged"
  BY <1>4
<1>6. /\ One(kind = "MoveDone") = 0 /\ One(kind = "Purged") = 1 /\ One(kind = "Probe") = 0
      /\ One(kind = "ScanFinished") = 0 /\ One(kind = "ApplyFinished") = 0
  BY <1>5 DEF One
<1>7. One(app.work.scan) \in Nat /\ One(app.work.apply # None) \in Nat
  BY DEF One
<1>8. Counts([app EXCEPT !.work = work], Append(inbox, e))
  <2>1. /\ work.moves = app.work.moves - One(kind = "MoveDone") /\ work.purges = app.work.purges - One(kind = "Purged")
        /\ work.probes = app.work.probes - One(kind = "Probe")
        /\ One(work.scan) = One(app.work.scan) - One(kind = "ScanFinished")
        /\ One(work.apply # None) = One(app.work.apply # None) - One(kind = "ApplyFinished")
    BY <1>2, <1>3, <1>6, <1>7 DEF Works
  <2> QED BY <1>3, <1>4, <1>5, <2>1, ReportCounts
<1>9. Spent' /\ stale' \subseteq db
  BY <1>1, SpentOn DEF IInv, Stored
<1> QED BY <1>1, <1>3, <1>4, <1>8, <1>9, WorkerKeeps

\* A probe ends.
LEMMA ProbeAnswersKeeps == ASSUME IInv, ProbeAnswers PROVE IInv'
<1> DEFINE work == [app.work EXCEPT !.probes = @ - 1]
<1>1. app.work.probes > 0 /\ UNCHANGED <<stale, left>>
  BY DEF ProbeAnswers
<1>2. PICK res \in {"fresh", "resume", "err"} : Reports(work, Event("Probe", 0, 0, res, None))
  BY DEF ProbeAnswers
<1> DEFINE e == Event("Probe", 0, 0, res, None)
<1>3. app.work \in Works /\ signals' = signals /\ db' = db
  BY <1>2, GoodIs DEF IInv, WindowShape, Reports
<1>4. /\ work \in Works /\ work.probes = app.work.probes - 1 /\ work.moves = app.work.moves /\ work.purges = app.work.purges
      /\ work.scan = app.work.scan /\ work.apply = app.work.apply
  BY <1>1, <1>3 DEF Works
<1>5. e \in Events /\ e.kind = "Probe" /\ "Probe" \in Outcome
  BY DEF Event, Events, Kind, Results, ScanOrNone, Outcome
<1> HIDE DEF work, e
<1>6. PICK kind \in Outcome : kind = "Probe"
  BY <1>5
<1>7. /\ One(kind = "MoveDone") = 0 /\ One(kind = "Purged") = 0 /\ One(kind = "Probe") = 1
      /\ One(kind = "ScanFinished") = 0 /\ One(kind = "ApplyFinished") = 0
  BY <1>6 DEF One
<1>8. One(app.work.scan) \in Nat /\ One(app.work.apply # None) \in Nat
  BY DEF One
<1>9. Counts([app EXCEPT !.work = work], Append(inbox, e))
  <2>1. /\ work.moves = app.work.moves - One(kind = "MoveDone") /\ work.purges = app.work.purges - One(kind = "Purged")
        /\ work.probes = app.work.probes - One(kind = "Probe")
        /\ One(work.scan) = One(app.work.scan) - One(kind = "ScanFinished")
        /\ One(work.apply # None) = One(app.work.apply # None) - One(kind = "ApplyFinished")
    BY <1>3, <1>4, <1>7, <1>8 DEF Works
  <2> QED BY <1>4, <1>5, <1>6, <2>1, ReportCounts
<1>10. Spent' /\ stale' \subseteq db
  BY <1>1, <1>3, SpentOn DEF IInv, Stored
<1>11. Reports(work, e) /\ stale' \subseteq stale
  BY <1>1, <1>2 DEF e
<1> QED BY <1>4, <1>5, <1>9, <1>10, <1>11, WorkerKeeps

\* The scan reports once.
LEMMA ScanReports ==
    ASSUME IInv, app.work.scan, NEW s \in ScanOrNone, NEW res \in {"Completed", "Cancelled"},
           Reports([app.work EXCEPT !.scan = FALSE], Event("ScanFinished", 0, 0, res, s)), UNCHANGED <<stale, left>>
    PROVE  IInv'
<1> DEFINE work == [app.work EXCEPT !.scan = FALSE]
           e == Event("ScanFinished", 0, 0, res, s)
<1>1. Reports(work, e) /\ UNCHANGED <<stale, left, signals, db>>
  BY DEF Reports
<1>2. app.work \in Works
  BY GoodIs DEF IInv, WindowShape
<1>3. /\ work \in Works /\ work.moves = app.work.moves /\ work.purges = app.work.purges /\ work.probes = app.work.probes
      /\ work.scan = FALSE /\ work.apply = app.work.apply
  BY <1>2 DEF Works
<1>4. e \in Events /\ e.kind = "ScanFinished" /\ "ScanFinished" \in Outcome
  BY DEF Event, Events, Kind, Results, ScanOrNone, Outcome
<1> HIDE DEF work, e
<1>5. PICK kind \in Outcome : kind = "ScanFinished"
  BY <1>4
<1>6. /\ One(kind = "MoveDone") = 0 /\ One(kind = "Purged") = 0 /\ One(kind = "Probe") = 0
      /\ One(kind = "ScanFinished") = 1 /\ One(kind = "ApplyFinished") = 0
  BY <1>5 DEF One
<1>7. One(app.work.scan) = 1 /\ One(work.scan) = 0 /\ One(app.work.apply # None) \in Nat
  BY <1>3 DEF One
<1>8. Counts([app EXCEPT !.work = work], Append(inbox, e))
  <2>1. /\ work.moves = app.work.moves - One(kind = "MoveDone") /\ work.purges = app.work.purges - One(kind = "Purged")
        /\ work.probes = app.work.probes - One(kind = "Probe")
    BY <1>2, <1>3, <1>6 DEF Works
  <2>2. One(work.scan) = One(app.work.scan) - One(kind = "ScanFinished")
    <3> DEFINE x == One(work.scan)
               y == One(app.work.scan)
               z == One(kind = "ScanFinished")
    <3>1. x = 0 /\ y = 1 /\ z = 1
      BY <1>6, <1>7
    <3> HIDE DEF x, y, z
    <3>2. x = y - z
      BY <3>1
    <3> QED BY <3>2 DEF x, y, z
  <2>3. One(work.apply # None) = One(app.work.apply # None) - One(kind = "ApplyFinished")
    BY <1>3, <1>6, <1>7
  <2> QED BY <1>3, <1>4, <1>5, <2>1, <2>2, <2>3, ReportCounts
<1>9. Spent' /\ stale' \subseteq db
  BY <1>1, SpentOn DEF IInv, Stored
<1> QED BY <1>1, <1>3, <1>4, <1>8, <1>9, WorkerKeeps

\* A scan ends.
LEMMA ScanEndsKeeps == ASSUME IInv, ScanEnds PROVE IInv'
<1>1. app.work.scan /\ UNCHANGED <<stale, left>>
  BY DEF ScanEnds
<1>2. PICK c \in {"Completed", "Cancelled"} : c = "Completed"
  OBVIOUS
<1>3. PICK d \in {"Completed", "Cancelled"} : d = "Cancelled"
  OBVIOUS
<1>4. CASE \E s \in Scans \ (db \cup {app.cur, app.dedup}) :
             Reports([app.work EXCEPT !.scan = FALSE], Event("ScanFinished", 0, 0, "Completed", s))
  <2>1. PICK s \in Scans : Reports([app.work EXCEPT !.scan = FALSE], Event("ScanFinished", 0, 0, c, s))
    BY <1>2, <1>4
  <2>2. s \in ScanOrNone
    BY DEF ScanOrNone
  <2> QED BY <1>1, <2>1, <2>2, ScanReports
<1>5. CASE Reports([app.work EXCEPT !.scan = FALSE], Event("ScanFinished", 0, 0, "Cancelled", None))
  <2>1. Reports([app.work EXCEPT !.scan = FALSE], Event("ScanFinished", 0, 0, d, None)) /\ None \in ScanOrNone
    BY <1>3, <1>5 DEF ScanOrNone
  <2> QED BY <1>1, <2>1, ScanReports
<1> QED BY <1>4, <1>5 DEF ScanEnds

\* The batch reports once, and before its report no settlement is owed: its marks may go stale.
LEMMA ApplyReports ==
    ASSUME IInv, app.work.apply # None, NEW res \in Batches,
           Reports([app.work EXCEPT !.apply = None], Event("ApplyFinished", 0, 0, res, app.work.apply)),
           Spent', stale' \subseteq db
    PROVE  IInv'
<1> DEFINE work == [app.work EXCEPT !.apply = None]
           e == Event("ApplyFinished", 0, 0, res, app.work.apply)
<1>1. Reports(work, e)
  OBVIOUS
<1>2. app.work \in Works
  BY GoodIs DEF IInv, WindowShape
<1>3. /\ work \in Works /\ work.moves = app.work.moves /\ work.purges = app.work.purges /\ work.probes = app.work.probes
      /\ work.scan = app.work.scan /\ work.apply = None
  BY <1>2 DEF Works, ScanOrNone
<1>4. e \in Events /\ e.kind = "ApplyFinished" /\ "ApplyFinished" \in Outcome /\ e.res = res /\ e.scan = app.work.apply
  BY <1>2 DEF Event, Events, Kind, Results, Outcome, Batches, Works
<1> HIDE DEF work, e
<1>5. PICK kind \in Outcome : kind = "ApplyFinished"
  BY <1>4
<1>6. /\ One(kind = "MoveDone") = 0 /\ One(kind = "Purged") = 0 /\ One(kind = "Probe") = 0
      /\ One(kind = "ScanFinished") = 0 /\ One(kind = "ApplyFinished") = 1
  BY <1>5 DEF One
<1>7. One(app.work.apply # None) = 1 /\ One(work.apply # None) = 0 /\ One(app.work.scan) \in Nat
  BY <1>3 DEF One
<1>8. Counts([app EXCEPT !.work = work], Append(inbox, e))
  <2>1. /\ work.moves = app.work.moves - One(kind = "MoveDone") /\ work.purges = app.work.purges - One(kind = "Purged")
        /\ work.probes = app.work.probes - One(kind = "Probe")
    BY <1>2, <1>3, <1>6 DEF Works
  <2>2. One(work.scan) = One(app.work.scan) - One(kind = "ScanFinished")
    BY <1>3, <1>6, <1>7
  <2>3. One(work.apply # None) = One(app.work.apply # None) - One(kind = "ApplyFinished")
    BY <1>6, <1>7
  <2> QED BY <1>3, <1>4, <1>5, <2>1, <2>2, <2>3, ReportCounts
<1>9. app.last.owed = None
  <2>1. One(app.apply) = 1 + Count(inbox, "ApplyFinished") /\ Count(inbox, "ApplyFinished") \in Nat
    BY <1>7, CountIs DEF IInv, Counts, Posted
  <2>2. app.apply
    BY <2>1 DEF One
  <2> QED BY <2>2 DEF IInv, Lands, OwesOK
<1> QED BY <1>1, <1>3, <1>4, <1>8, <1>9, WorkerKeeps

\* A batch ends.
LEMMA ApplyEndsKeeps == ASSUME IInv, ApplyEnds PROVE IInv'
<1>1. PICK res \in Batches :
         /\ Reports([app.work EXCEPT !.apply = None], Event("ApplyFinished", 0, 0, res, app.work.apply))
         /\ \/ stale' = IF res = "Finished" THEN stale \cup ({app.work.apply} \cap db) ELSE stale
            \/ res = "Finished" /\ UNCHANGED stale
  BY DEF ApplyEnds, Batches
<1>2. left' = left /\ signals' = signals /\ app.work.apply # None
  BY <1>1 DEF ApplyEnds, Reports
<1>3. Spent' /\ stale' \subseteq db
  BY <1>1, <1>2, SpentOn DEF IInv, Stored
<1> QED BY <1>1, <1>2, <1>3, ApplyReports

\* A batch panics.
LEMMA ApplyPanicsKeeps == ASSUME IInv, ApplyPanics PROVE IInv'
<1>1. /\ Reports([app.work EXCEPT !.apply = None], Event("ApplyFinished", 0, 0, "Failed", app.work.apply))
      /\ stale' \in {stale, stale \cup ({app.work.apply} \cap db)}
      /\ Spend("workerPanic") /\ "workerPanic" \in Kinds \ {"kill"} /\ app.work.apply # None
      /\ signals' = signals
  BY DEF ApplyPanics, Kinds, Reports
<1>2. Spent' /\ stale' \subseteq db
  BY <1>1, SpentOn DEF IInv, Stored
<1>3. PICK res \in Batches : res = "Failed"
  BY DEF Batches
<1> QED BY <1>1, <1>2, <1>3, ApplyReports

-----------------------------------------------------------------------------
(* The invariant is inductive                                              *)

\* It holds at the start.
LEMMA StartKeeps == Init => IInv
<1> SUFFICES ASSUME Init PROVE IInv
  OBVIOUS
<1>1. /\ app.stage = "None" /\ app.screen = "panels" /\ app.owed = None /\ app.cur = None /\ app.dedup = None
      /\ app.owes = None /\ app.plan = NoPlan /\ app.act = 0 /\ app.cache = << >> /\ app.spawn = << >>
      /\ app.moves = 0 /\ app.purges = 0 /\ app.probes = 0 /\ app.scan = FALSE /\ app.apply = FALSE
      /\ app.work = [scan |-> FALSE, apply |-> None, moves |-> 0, purges |-> 0, probes |-> 0]
  BY DEF Init
<1>2. /\ app.req = 0 /\ app.marked = 0 /\ app.planning = 0 /\ app.reconcile = 0 /\ app.settling = 0
      /\ app.pending = {} /\ app.ledger = {} /\ app.groups = {} /\ app.covering = {}
      /\ app.gate = Settled /\ app.open = NoOpen
      /\ app.fleet = "Idle" /\ app.actor = 0 /\ app.born = << >> /\ app.queue = << >>
      /\ app.last = [scan |-> None, owed |-> None]
  BY DEF Init
<1>3. app.quit = FALSE /\ app.keyQuit = FALSE /\ app.late = FALSE
  BY DEF Init
<1>4. DOMAIN app = Fields
  BY DEF Init, Fields
<1>5. /\ thread = << >> /\ inbox = << >> /\ pc = "pass" /\ db = {} /\ stale = {}
      /\ signals = [requested |-> FALSE, count |-> 0] /\ left \in {[given |-> b, now |-> b] : b \in Budgets}
  BY DEF Init
<1>6. None \in ScanOrNone
  BY DEF ScanOrNone
<1>7. WindowShape(app)
  <2>1. app.plan \in [scan : ScanOrNone, valid : BOOLEAN] /\ ~app.plan.valid /\ app.work \in Works
        /\ app.last \in [scan : ScanOrNone, owed : ScanOrNone]
    BY <1>1, <1>2, <1>6 DEF NoPlan, Works
  <2>2. DOMAIN app.cache = {}
    BY <1>1, NothingCached
  <2> QED BY <1>1, <1>6, <2>1, <2>2 DEF WindowShape
<1>8. RequestShape(app)
  <2>1. app.gate \in [st : {"Settled", "Blocked", "Reloading"}, waits : SUBSET (0..app.req)]
        /\ app.open \in [req : 0..app.req, scan : ScanOrNone, show : BOOLEAN]
    BY <1>2, <1>6 DEF Settled, NoOpen
  <2> QED BY <1>2, <2>1 DEF RequestShape
<1>9. FleetShape(app) /\ ~TerminalOwed(app)
  <2>1. app.born \in Seq(Roles) /\ app.queue \in Seq(Seq(RequestsTo(app.req))) /\ Len(app.queue) = Len(app.born)
        /\ Len(app.born) = 0
    BY <1>2
  <2> QED BY <1>2, <2>1 DEF FleetShape, TerminalOwed
<1>10. DOMAIN thread = {} /\ DOMAIN app.born = {} /\ DOMAIN app.queue = {} /\ DOMAIN inbox = {}
  BY <1>2, <1>5
<1>11. Good(app)
  BY <1>2, <1>4, <1>7, <1>8, <1>9, <1>10 DEF Good, Loose, Shape, Housed
<1>12. Hosted
  BY <1>10 DEF Hosted
<1>13. Lands(app, inbox)
  BY <1>1, <1>2, <1>10 DEF Lands, BoxOK, OwesOK
<1>14. Posted(inbox)
  BY <1>5, <1>10 DEF Posted
<1>15. Counts(app, inbox)
  <2>1. \A kind : Count(inbox, kind) = 0
    <3> SUFFICES ASSUME NEW kind PROVE Count(inbox, kind) = 0
      OBVIOUS
    <3>1. {m \in DOMAIN inbox : inbox[m].kind = kind} = {}
      BY <1>10
    <3> QED BY <3>1, FS_EmptySet DEF Count
  <2>2. app.work.moves = 0 /\ app.work.purges = 0 /\ app.work.probes = 0 /\ app.work.scan = FALSE /\ app.work.apply = None
    BY <1>1
  <2>3. One(app.scan) = 0 /\ One(app.apply) = 0 /\ One(app.work.scan) = 0 /\ One(app.work.apply # None) = 0
    BY <1>1, <2>2 DEF One
  <2>4. /\ Count(inbox, "MoveDone") = 0 /\ Count(inbox, "Purged") = 0 /\ Count(inbox, "Probe") = 0
        /\ Count(inbox, "ScanFinished") = 0 /\ Count(inbox, "ApplyFinished") = 0
    BY <2>1
  <2>5. One(app.scan) = One(app.work.scan) + Count(inbox, "ScanFinished")
    <3> DEFINE x == One(app.scan)
               y == One(app.work.scan)
               z == Count(inbox, "ScanFinished")
    <3>1. x = 0 /\ y = 0 /\ z = 0
      BY <2>3, <2>4
    <3> HIDE DEF x, y, z
    <3>2. x = y + z
      BY <3>1
    <3> QED BY <3>2 DEF x, y, z
  <2>6. One(app.apply) = One(app.work.apply # None) + Count(inbox, "ApplyFinished")
    <3> DEFINE x == One(app.apply)
               y == One(app.work.apply # None)
               z == Count(inbox, "ApplyFinished")
    <3>1. x = 0 /\ y = 0 /\ z = 0
      BY <2>3, <2>4
    <3> HIDE DEF x, y, z
    <3>2. x = y + z
      BY <3>1
    <3> QED BY <3>2 DEF x, y, z
  <2>7. /\ app.moves = app.work.moves + Count(inbox, "MoveDone")
        /\ app.purges = app.work.purges + Count(inbox, "Purged")
        /\ app.probes = app.work.probes + Count(inbox, "Probe")
    BY <1>1, <2>2, <2>4
  <2> QED BY <2>5, <2>6, <2>7 DEF Counts
<1>16. Spent
  <2>1. PICK b \in Budgets : left = [given |-> b, now |-> b]
    BY <1>5
  <2>2. b \in [Kinds -> Nat] /\ "kill" \in Kinds
    BY ConstantsOK DEF Kinds
  <2>3. b["kill"] \in Nat
    BY <2>2
  <2>4. Kills = 0
    BY <2>1, <2>3 DEF Kills
  <2> QED BY <1>5, <2>1, <2>2, <2>4 DEF Spent
<1>17. Stored /\ Exits
  BY <1>1, <1>2, <1>3, <1>5 DEF Stored, Exits, Leaving, Way, ProducersBusy, NoOpen
<1> QED BY <1>11, <1>12, <1>13, <1>14, <1>15, <1>16, <1>17 DEF IInv

\* And every step keeps it.
LEMMA NextKeeps == IInv /\ [Next]_vars => IInv'
<1> SUFFICES ASSUME IInv, [Next]_vars PROVE IInv'
  OBVIOUS
<1>1. CASE Loop
  BY <1>1, PassKeeps, PassLosesTerminalKeeps, EndKeeps, HandleKeeps, TimeoutKeeps DEF Loop
<1>2. CASE Press
  BY <1>2, KeyCdKeeps, KeyMarkKeeps, KeyAskClearKeeps, KeyClearKeeps, KeyPlanKeeps, KeyConfirmKeeps, KeyDeclineKeeps,
     KeyStopKeeps, KeyBackKeeps, KeyScanKeeps, KeyMoveKeeps, KeyPurgeKeeps, KeyQuitKeeps, KeyRoleKeeps DEF Press
<1>3. CASE Work
  BY <1>3, ApplyEndsKeeps, ApplyPanicsKeeps, ScanEndsKeeps, MoveEndsKeeps, PurgeEndsKeeps, ProbeAnswersKeeps DEF Work
<1>4. CASE Signal
  BY <1>4, SignalKeeps
<1>5. CASE UNCHANGED vars
  <2>1. UNCHANGED <<app, thread, inbox, stale, db, signals, left, pc>>
    BY <1>5 DEF vars
  <2>2. Spent' /\ Stored'
    BY <2>1, SpentOn DEF IInv, Stored
  <2>3. Exits'
    BY <2>1 DEF IInv, Exits, Leaving, Way, ProducersBusy
  <2> QED BY <2>1, <2>2, <2>3, Resting DEF IInv
<1>6. ASSUME NEW i \in DOMAIN thread, Serve(i) \/ ActorPanics(i) PROVE IInv'
  BY <1>6, ServeShutdownKeeps, ServeRefusalKeeps, ServeOpenKeeps, ServeReadKeeps, ServeWriteKeeps, ServeFaultKeeps,
     ServeSwapKeeps, PanicTerminalKeeps, ActorPanicsKeeps DEF Serve
<1> QED BY <1>1, <1>2, <1>3, <1>4, <1>5, <1>6 DEF Next, Ended

\* The window, the actors, the inbox and the work under way belong together, at every step.
THEOREM Invariant == Spec => []IInv
<1> QED BY StartKeeps, NextKeeps, PTL DEF Spec

-----------------------------------------------------------------------------
(* What follows                                                            *)

\* Whatever the events and their order, what waits names a request that was given out, everything
\* in a queue is something a handler sends, and no count of work goes below zero.
THEOREM Types == Spec => []TypeOK
<1>1. IInv => TypeOK
  <2> SUFFICES ASSUME IInv PROVE TypeOK
    OBVIOUS
  <2>1. Good(app) /\ Hosted /\ Posted(inbox) /\ Counts(app, inbox) /\ Stored /\ Exits
    BY DEF IInv
  <2>2. WindowShape(app) /\ RequestShape(app) /\ FleetShape(app)
    BY <2>1 DEF Good, Loose, Shape
  <2>3. DOMAIN thread = DOMAIN app.born /\ DOMAIN app.queue = DOMAIN app.born
    <3>1. app.queue \in Seq(Seq(RequestsTo(app.req))) /\ app.born \in Seq(Roles) /\ Len(app.queue) = Len(app.born)
      BY <2>2 DEF FleetShape
    <3> QED BY <2>1, <3>1, LenProperties DEF Hosted
  <2>4. \A i \in DOMAIN thread : \A k \in 1..Len(app.queue[i]) : app.queue[i][k] \in Requests
    <3> SUFFICES ASSUME NEW i \in DOMAIN thread, NEW k \in 1..Len(app.queue[i]) PROVE app.queue[i][k] \in Requests
      OBVIOUS
    <3>1. app.queue[i] \in Seq(RequestsTo(app.req))
      BY <2>1, <2>3, QueueIs
    <3>2. app.queue[i][k] \in RequestsTo(app.req)
      BY <3>1, ElementOfSeq
    <3>3. app.req \in Nat
      BY <2>2 DEF RequestShape
    <3> QED BY <3>2, <3>3 DEF RequestsTo, Requests, Asks, Ids, ScanOrNone
  <2>5. app.moves \in Nat /\ app.purges \in Nat /\ app.probes \in Nat
    <3>1. app.work \in Works /\ inbox \in Seq(Events)
      BY <2>1, <2>2 DEF WindowShape, Posted
    <3>2. app.work.moves \in Nat /\ app.work.purges \in Nat /\ app.work.probes \in Nat
      BY <3>1 DEF Works
    <3>3. \A kind : Count(inbox, kind) \in Nat
      BY <3>1, CountIs
    <3> QED BY <2>1, <3>2, <3>3 DEF Counts
  <2>6. {app.owed, app.cur, app.dedup, app.owes, app.plan.scan, app.open.scan} \subseteq Scans \cup {None}
    BY <2>2 DEF WindowShape, RequestShape, ScanOrNone
  <2>7. app.pending \cup app.ledger \cup app.groups \cup {r.req : r \in app.covering} \cup app.gate.waits
          \cup {app.marked, app.planning, app.reconcile, app.settling, app.open.req} \subseteq Ids
    <3>1. app.gate.waits \subseteq Ids /\ app.open.req \in Ids
      BY <2>2 DEF RequestShape, Ids
    <3>2. {r.req : r \in app.covering} \subseteq Ids
      BY <2>2 DEF RequestShape, Ids
    <3> QED BY <2>2, <3>1, <3>2 DEF RequestShape, Ids
  <2>8. app.stage \in {"None", "Producers", "Settling", "Draining", "Done"}
        /\ app.screen \in {"panels", "confirm", "clear", "resume", "scanning", "applying", "summary", "browser"}
    BY <2>2 DEF WindowShape
  <2>9. app.fleet \in {"Idle", "Live", "Draining"} /\ app.actor \in 0..Len(app.born)
    BY <2>2 DEF FleetShape
  <2>10. db \subseteq Scans /\ stale \subseteq db /\ pc \in {"pass", "event", "ended"}
    BY <2>1 DEF Stored, Exits
  <2> QED BY <2>3, <2>4, <2>5, <2>6, <2>7, <2>8, <2>9, <2>10 DEF TypeOK
<1> QED BY <1>1, Invariant, PTL

\* Whatever role was asked for and whichever actor panicked, a successor is spawned only when its
\* predecessor has dropped its queue and its connection.
THEOREM OneActorAtATime == Spec => []OneActor
<1>1. IInv => OneActor
  <2> SUFFICES ASSUME IInv PROVE OneActor
    OBVIOUS
  <2> DEFINE s == {i \in DOMAIN thread : thread[i].st # "ended"}
  <2>1. s \subseteq {app.actor}
    BY DEF IInv, Hosted
  <2> HIDE DEF s
  <2>2. IsFiniteSet({app.actor}) /\ Cardinality({app.actor}) = 1
    BY FS_Singleton
  <2>3. Cardinality(s) <= 1
    BY <2>1, <2>2, FS_Subset
  <2> QED BY <2>3 DEF OneActor, s
<1> QED BY <1>1, Invariant, PTL

\* However the end was asked for, and whatever was under way then, the process ends under no batch,
\* and, unless a key quit it, with every outcome recorded and every settlement answered.
THEOREM ExitWaitsForWork == Spec => []ExitWaits
<1>1. IInv => ExitWaits
  <2> SUFFICES ASSUME IInv, pc = "ended", Kills < 2, ~app.late
               PROVE  /\ app.work.apply = None /\ ~app.apply
                      /\ \/ app.keyQuit
                         \/ /\ ~app.work.scan /\ app.work.moves = 0 /\ app.work.purges = 0
                            /\ \A e \in Range(inbox) : e.kind \notin Outcomes
                            /\ app.owed = None
    BY DEF ExitWaits
  <2>1. Counts(app, inbox) /\ Spent /\ Exits /\ inbox \in Seq(Events) /\ app.work \in Works
    BY GoodIs DEF IInv, Posted, WindowShape
  <2>2. app.quit /\ signals.count <= 1 /\ (app.quit => app.keyQuit \/ app.stage = "Done")
    BY <2>1 DEF Exits, Spent, Leaving
  <2>3. app.stage = "Done" => ~app.scan /\ ~app.apply /\ ~(app.moves > 0) /\ ~(app.purges > 0) /\ app.owed = None
    BY <2>1, <2>2 DEF Exits, Leaving, ProducersBusy
  <2>4. ~app.apply
    BY <2>1, <2>2, <2>3 DEF Exits
  <2>5. /\ Count(inbox, "MoveDone") \in Nat /\ Count(inbox, "Purged") \in Nat
        /\ Count(inbox, "ScanFinished") \in Nat /\ Count(inbox, "ApplyFinished") \in Nat
        /\ app.work.moves \in Nat /\ app.work.purges \in Nat /\ app.work.scan \in BOOLEAN
    BY <2>1, CountIs DEF Works
  <2>6. app.work.apply = None /\ Count(inbox, "ApplyFinished") = 0
    <3>1. One(app.apply) = 0 /\ One(app.apply) = One(app.work.apply # None) + Count(inbox, "ApplyFinished")
      BY <2>1, <2>4 DEF Counts, One
    <3>2. CASE app.work.apply # None
      <4>1. One(app.work.apply # None) = 1
        BY <3>2 DEF One
      <4> QED BY <2>5, <3>1, <4>1
    <3>3. CASE app.work.apply = None
      <4>1. One(app.work.apply # None) = 0
        BY <3>3 DEF One
      <4> QED BY <2>5, <3>1, <3>3, <4>1
    <3> QED BY <3>2, <3>3
  <2>7. ASSUME app.stage = "Done"
        PROVE  /\ ~app.work.scan /\ app.work.moves = 0 /\ app.work.purges = 0
               /\ Count(inbox, "MoveDone") = 0 /\ Count(inbox, "Purged") = 0 /\ Count(inbox, "ScanFinished") = 0
    <3>1. app.work.moves = 0 /\ Count(inbox, "MoveDone") = 0
      BY <2>1, <2>3, <2>5, <2>7 DEF Counts
    <3>2. app.work.purges = 0 /\ Count(inbox, "Purged") = 0
      BY <2>1, <2>3, <2>5, <2>7 DEF Counts
    <3>3. One(app.scan) = 0 /\ One(app.scan) = One(app.work.scan) + Count(inbox, "ScanFinished")
      BY <2>1, <2>3, <2>7 DEF Counts, One
    <3>4. ~app.work.scan /\ Count(inbox, "ScanFinished") = 0
      <4>1. CASE app.work.scan
        <5>1. One(app.work.scan) = 1
          BY <4>1 DEF One
        <5> QED BY <2>5, <3>3, <5>1
      <4>2. CASE ~app.work.scan
        <5>1. One(app.work.scan) = 0
          BY <4>2 DEF One
        <5> QED BY <2>5, <3>3, <4>2, <5>1
      <4> QED BY <4>1, <4>2
    <3> QED BY <3>1, <3>2, <3>4
  <2>8. ASSUME app.stage = "Done", NEW e \in Range(inbox) PROVE e.kind \notin Outcomes
    <3>1. PICK m \in DOMAIN inbox : e = inbox[m]
      BY DEF Range
    <3>2. \A kind \in Outcomes : Count(inbox, kind) = 0
      BY <2>6, <2>7, <2>8 DEF Outcomes
    <3>3. \A kind \in Outcomes : inbox[m].kind # kind
      BY <2>1, <3>2, CountIs
    <3> QED BY <3>1, <3>3
  <2> QED BY <2>2, <2>3, <2>4, <2>6, <2>7, <2>8
<1> QED BY <1>1, Invariant, PTL

\* Whatever was opened, lost or poisoned between the key and the write, the actor changes the marks
\* of the scan on screen, a mark is answered or given up, and the warning is up
\* while marks a batch carried out stand in the scan its settlement was addressed to.
THEOREM MarksAreHonest == Spec => []MarksHonest
<1>1. IInv => WritesLand
  <2> SUFFICES ASSUME IInv, NEW i \in DOMAIN thread, NEW q \in Range(app.queue[i]), q.kind \in Writes,
                      thread[i].st = "running", thread[i].active # Inactive, thread[i].active.act = q.act
               PROVE  thread[i].active.scan = q.scan
    BY DEF WritesLand
  <2>1. PICK k \in DOMAIN app.queue[i] : q = app.queue[i][k]
    BY DEF Range
  <2>2. i \in DOMAIN app.queue
    <3>1. app.queue \in Seq(Seq(RequestsTo(app.req))) /\ app.born \in Seq(Roles) /\ Len(app.queue) = Len(app.born)
      BY GoodIs DEF IInv, FleetShape
    <3> QED BY <3>1, LenProperties DEF IInv, Hosted
  <2>3. Runs(i) /\ Active(i) = thread[i].active
    BY DEF Runs, Active
  <2>4. AsksWell(app, inbox, i)
    BY <2>2, <2>3 DEF IInv, Lands
  <2> QED BY <2>1, <2>3, <2>4 DEF AsksWell
<1>2. IInv => PendingOwed
  BY DEF IInv, Good, Loose, PendingOwed, TerminalOwed
<1>3. IInv => MarksTruth
  <2>1. IInv /\ app.last.owed \in stale => app.last.owed # None
    BY ConstantsOK DEF IInv, Stored
  <2> QED BY <2>1 DEF IInv, Lands, OwesOK, MarksTruth
<1>4. IInv => MarksHonest
  BY <1>1, <1>2, <1>3 DEF MarksHonest
<1> QED BY <1>4, Invariant, PTL

=============================================================================
