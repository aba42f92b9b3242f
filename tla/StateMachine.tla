---------------------------- MODULE StateMachine ----------------------------
(***************************************************************************)
(* processors/state_machine.rs: the single owner of the server's view of   *)
(* the oven.  Its reducers take the state and one input and return the     *)
(* next state with the effects to dispatch, in order; so do these.  The    *)
(* processor takes one input at a time, so a reduction is one step.        *)
(*                                                                         *)
(* Recipes are loaded and resolve.  The published read model is a copy of  *)
(* the state, and is left out.                                             *)
(***************************************************************************)
EXTENDS Messages

CONSTANTS
    Local,                  \* SmState::local: local or cloud mode
    MaxPendingControls      \* MAX_PENDING_CONTROLS

ASSUME StateMachineAssumption ==
    /\ Local \in BOOLEAN
    /\ MaxPendingControls \in Nat \ {0}
    /\ None \notin Status

VARIABLES
    sm,         \* SmState
    announced   \* ids of the failed commands the last reduction announced

smVars == <<sm, announced>>

\* The preheat's stage id is its recipe's.  `near`: near_since is set.
PreheatWatch == [recipe: CookOrNone, near: BOOLEAN, reached: BOOLEAN]
ASSUME NoneIsNoWatch == None \notin PreheatWatch

SmState == [
    connectivity: {"disconnected", "connected", "discovered"},
    lifecycle: {"Idle", "StartPending", "Cooking", "StopPending"},
    start: CookOrNone,                      \* pending.start
    stop: Requests \cup {None},             \* pending.stop
    controls: Seq(Requests),                \* pending.controls
    status: Status \cup {None},
    oven_cook: CookOrNone,
    current_cook: CurrentCook \cup {None},
    history: Seq(HistoryEntry),
    turned_off: CookOrNone,
    watch: PreheatWatch \cup {None} ]       \* preheat_watch

SmInitState == [
    connectivity |-> "disconnected", lifecycle |-> "Idle",
    start |-> None, stop |-> None, controls |-> <<>>,
    status |-> None, oven_cook |-> None, current_cook |-> None,
    history |-> <<>>, turned_off |-> None, watch |-> None ]

SmInit == sm = SmInitState /\ announced = {}

SmTypeOK == sm \in SmState /\ announced \subseteq Ids

-----------------------------------------------------------------------------
(* A reduction: the state so far and the effects so far.                   *)

Reduction == [sm: SmState, ws: Seq(WsCommand), store: Seq(StoreCommand),
              failed: SUBSET Ids]

On(s) == [sm |-> s, ws |-> <<>>, store |-> <<>>, failed |-> {}]
Send(r, cmd) == [r EXCEPT !.ws = Append(@, cmd)]
Ask(r, cmd) == [r EXCEPT !.store = Append(@, cmd)]
Fail(r, id) == [r EXCEPT !.failed = {id}]
SetLifecycle(r, lifecycle) == [r EXCEPT !.sm.lifecycle = lifecycle]

OvenCooking(s) == s.status # None /\ IsCooking(s.status)
CookerKnown(s) == s.connectivity = "discovered"

\* Mutant of FetchCurrentCook: always for the oven's cook.
FetchOvenCook(r) == Ask(r, [kind |-> "fetch", cook |-> r.sm.oven_cook])

\* While a start is pending the oven's cook is the one being replaced.
FetchCurrentCook(r) ==
    Ask(r, [kind |-> "fetch",
            cook |-> IF r.sm.lifecycle = "StartPending" THEN None ELSE r.sm.oven_cook])
RefreshHistory(r) == Ask(r, [kind |-> "history"])

Newest(controls) ==
    IF Len(controls) > MaxPendingControls THEN Tail(controls) ELSE controls
SendControl(r, cmd) ==
    Send([r EXCEPT !.sm.controls = Newest(Append(@, cmd.id))], cmd)

-----------------------------------------------------------------------------
(* Client commands.                                                        *)

CanStart(s) == CookerKnown(s)

\* No guard on the lifecycle: a start may replace a running cook, and may
\* overtake a start or a stop that is still pending.
Start(s, cook, turnOff) ==
    LET seeded == [cook |-> cook, title |-> "started", turnOff |-> turnOff]
        r == On([s EXCEPT !.start = cook, !.lifecycle = "StartPending",
                          !.current_cook = seeded])
    IN Ask(Send(r, Command("start", cook)),
           [kind |-> "started", cook |-> cook, turnOff |-> turnOff])

CanStop(s) ==
    /\ s.lifecycle # "Idle"
    /\ s.status # None => IsCooking(s.status)
    /\ CookerKnown(s)

LampIsOn(s) == s.status # None /\ s.status.lamp

\* In local mode a lit lamp goes off first: an idle oven ignores SET_LAMP.
Stop(r, lampId, stopId) ==
    LET dark == IF Local /\ LampIsOn(r.sm) THEN SendControl(r, Command("lampOff", lampId)) ELSE r
    IN Send([dark EXCEPT !.sm.stop = stopId, !.sm.lifecycle = "StopPending"],
            Command("stop", stopId))

CanControl(s, kind) ==
    /\ Local /\ CookerKnown(s)
    /\ kind = "nextStage" =>
         OvenCooking(s) /\ s.oven_cook # None /\ s.status.stage < LastStage

\* A control that changes the stages travels as a lamp control does.
Control(s, kind, id) ==
    IF kind = "nextStage" THEN NextStage(s.oven_cook, s.status.stage + 1, id)
    ELSE Command(kind, id)

\* link_current_cook: the cook shown, whichever the journal has.
LinkShown(s) ==
    Ask(On([s EXCEPT !.current_cook.title = "saved"]), [kind |-> "link"])

-----------------------------------------------------------------------------
(* Oven reports: apply_apo_state, one operator per paragraph of it.        *)

IdleToCooking(r, status, lampId) ==
    LET seenBefore == r.sm.status # None
        cooking == [r EXCEPT !.sm.start = None, !.sm.lifecycle = "Cooking"]
        lit == IF Local /\ seenBefore /\ ~status.lamp
                 THEN SendControl(cooking, Command("lampOn", lampId))
                 ELSE cooking
    IN RefreshHistory(FetchCurrentCook(lit))

\* pending.start is not touched here.
CookingToIdle(r) ==
    LET asked == RefreshHistory(r)
    IN [asked EXCEPT !.sm.stop = None, !.sm.current_cook = None, !.sm.lifecycle = "Idle"]

Edge(r, status, lampId) ==
    IF IsCooking(status)
      THEN IF ~OvenCooking(r.sm) THEN IdleToCooking(r, status, lampId)
           ELSE IF Timer(r.sm.status) # Timer(status) THEN FetchCurrentCook(r)
           ELSE r
      ELSE IF OvenCooking(r.sm) THEN CookingToIdle(r) ELSE r

\* The start is taken to have failed silently; nothing is announced.
RollBackStart(r, status) ==
    IF ~IsCooking(status) /\ r.sm.lifecycle = "StartPending"
      THEN [r EXCEPT !.sm.start = None, !.sm.lifecycle = "Idle"]
      ELSE r

DropStaleCook(r, status) ==
    IF ~IsCooking(status) /\ r.sm.lifecycle = "Idle"
      THEN [r EXCEPT !.sm.current_cook = None]
      ELSE r

\* The recipe of the current cook says to turn the oven off at its end, and
\* the oven's last stage has ended.  Once per cook: the cook counts as turned
\* off even if stop_cook then refuses.
TurnOffIsDue(s) ==
    /\ Local /\ s.lifecycle = "Cooking"
    /\ s.status # None /\ s.oven_cook # None /\ s.current_cook # None
    /\ s.current_cook.turnOff
    /\ s.turned_off # s.oven_cook
    /\ s.status.stage = LastStage /\ s.status.ended

TurnOffWhenDone(r, lampId, stopId) ==
    IF TurnOffIsDue(r.sm)
      THEN LET once == [r EXCEPT !.sm.turned_off = r.sm.oven_cook]
           IN IF CanStop(once.sm) THEN Stop(once, lampId, stopId) ELSE once
      ELSE r

\* Mutant of ReportToStore: only a running cook is reported.
ReportCooksOnly(s, cook) ==
    IF s.lifecycle # "StartPending" /\ cook # None
      THEN Ask(On(s), [kind |-> "reported", cook |-> cook])
      ELSE On(s)

\* The report goes to the store ahead of everything else it leads to, but not
\* while a start is pending.
ReportToStore(s, cook) ==
    IF s.lifecycle # "StartPending"
      THEN Ask(On(s), [kind |-> "reported", cook |-> cook])
      ELSE On(s)

ApplyApoState(r, status, lampId, onId, stopId) ==
    LET edged   == Edge(r, status, onId)
        settled == DropStaleCook(RollBackStart(edged, status), status)
    IN TurnOffWhenDone([settled EXCEPT !.sm.status = status], lampId, stopId)

-----------------------------------------------------------------------------
(* Preheats: settle_preheat, ahead of the rest of a report.                *)

Preheating(status, cook) ==
    Local /\ IsCooking(status) /\ cook \in PreheatCooks /\ status.stage = 1

\* Mutant of WatchFor: a cook that replaces another inherits its watch.
WatchForAny(s, cook) ==
    IF s.watch # None THEN s.watch
    ELSE [recipe |-> RecipeOf(cook), near |-> FALSE, reached |-> FALSE]

\* The watch goes by stage id: a preheat of another id starts afresh.
WatchFor(s, cook) ==
    IF s.watch # None /\ s.watch.recipe = RecipeOf(cook) THEN s.watch
    ELSE [recipe |-> RecipeOf(cook), near |-> FALSE, reached |-> FALSE]

\* Reached: the oven says so, or it stayed near for PREHEAT_SETTLE_WINDOW,
\* which takes an earlier report that was near.
Watch(s, status, cook, windowOver) ==
    LET w == WatchFor(s, cook)
    IN IF ~Preheating(status, cook) THEN None
       ELSE IF status.ended THEN [w EXCEPT !.reached = TRUE]
       ELSE IF w.reached THEN w
       ELSE [w EXCEPT !.near = status.near,
                      !.reached = w.near /\ status.near /\ windowOver]

\* Mutant of ShownStatus: only the report that settles it shows as waiting.
ShownOnceStatus(s, watch, status, cook) ==
    IF watch # None /\ watch.reached /\ ~WatchFor(s, cook).reached /\ cook \in WaitingCooks
      THEN [status EXCEPT !.ended = TRUE]
      ELSE status

\* This report and every later one of the preheat shows as waiting.
ShownStatus(s, watch, status, cook) ==
    IF watch # None /\ watch.reached /\ cook \in WaitingCooks
      THEN [status EXCEPT !.ended = TRUE]
      ELSE status

\* The server starts the next stage, once, if it doesn't wait for the user.
StartsNextStage(s, watch, status, cook) ==
    /\ watch # None /\ watch.reached /\ ~WatchFor(s, cook).reached
    /\ ~status.ended /\ cook \notin WaitingCooks

\* The next stage's control is dispatched last, but no report that settles a
\* preheat sends anything else: it is no edge, and not of a last stage.
ReduceReport(s, status, cook, windowOver, id, onId, stopId) ==
    LET watch    == Watch(s, status, cook, windowOver)
        reported == [ReportToStore(s, cook) EXCEPT !.sm.oven_cook = cook, !.sm.watch = watch]
        settled  == IF StartsNextStage(s, watch, status, cook)
                      THEN SendControl(reported, NextStage(cook, 2, id))
                      ELSE reported
    IN ApplyApoState(settled, ShownStatus(s, watch, status, cook), id, onId, stopId)

-----------------------------------------------------------------------------
(* Acks: apply_command_ack.                                                *)

\* In local mode the ack follows the report it was found in, so a start over
\* a running cook is confirmed here: it has no idle -> cooking edge.
StartAcked(s) ==
    FetchCurrentCook(
        IF Local /\ OvenCooking(s)
          THEN On([s EXCEPT !.start = None, !.lifecycle = "Cooking"])
          ELSE On(s))

\* Mutant of StartFailed: the tracker is read after it was cleared.
StartFailedCleared(s) ==
    LET r == On([s EXCEPT !.start = None, !.lifecycle = "Idle"]) IN Fail(r, r.sm.start)

StartFailed(s) ==
    Fail(On([s EXCEPT !.start = None, !.lifecycle = "Idle"]), s.start)

StopFailed(s) ==
    Fail(On([s EXCEPT !.stop = None, !.lifecycle = "Cooking"]), s.stop)

ControlAcked(s, id, ok) ==
    LET r == On([s EXCEPT !.controls = RemoveFirst(@, id)])
    IN IF ok THEN r ELSE Fail(r, id)

\* A positive stop ack changes nothing: the idle report ends the cook.
ApplyCommandAck(s, id, ok) ==
    IF id = s.start THEN IF ok THEN StartAcked(s) ELSE StartFailed(s)
    ELSE IF id = s.stop /\ ~ok THEN StopFailed(s)
    ELSE IF id \in Range(s.controls) THEN ControlAcked(s, id, ok)
    ELSE On(s)

-----------------------------------------------------------------------------
(* Link and store events, ticks.                                           *)

\* Mutant of ApplyLink: a cooker id survives both.
ApplyLinkKept(s, kind) ==
    On([s EXCEPT !.connectivity = IF @ = "discovered" THEN @ ELSE kind])

\* A cooker id survives a Connected, not a Disconnected.
ApplyLink(s, kind) ==
    On([s EXCEPT !.connectivity =
          IF kind = "connected" /\ @ # "disconnected" THEN @ ELSE kind])

ApplyStoreEvent(s, evt) ==
    CASE evt.kind = "fetched" -> On([s EXCEPT !.current_cook = evt.cook])
      [] evt.kind = "history" -> On([s EXCEPT !.history = evt.entries])
      [] evt.kind = "patched" -> FetchCurrentCook(On(s))

TickIsDue(s) == s.lifecycle \in {"Cooking", "StartPending"}

-----------------------------------------------------------------------------
(* The processor: one reduction, then its effects are dispatched in order. *)

Perform(r) ==
    /\ sm' = r.sm
    /\ wsCmd' = wsCmd \o r.ws
    /\ storeCmd' = storeCmd \o r.store
    /\ announced' = r.failed

StartCook(cook, turnOff) ==
    CanStart(sm) /\ Perform(Start(sm, cook, turnOff)) /\ UNCHANGED <<wsEvt, storeEvt>>

StopCook(lampId, stopId) ==
    CanStop(sm) /\ Perform(Stop(On(sm), lampId, stopId)) /\ UNCHANGED <<wsEvt, storeEvt>>

ControlCook(kind, id) ==
    CanControl(sm, kind) /\ Perform(SendControl(On(sm), Control(sm, kind, id)))
        /\ UNCHANGED <<wsEvt, storeEvt>>

LinkCurrentCook ==
    sm.current_cook # None /\ Perform(LinkShown(sm)) /\ UNCHANGED <<wsEvt, storeEvt>>

TakeApoState(lampId, onId, stopId) ==
    /\ wsEvt # <<>> /\ Head(wsEvt).kind = "state"
    /\ \E windowOver \in BOOLEAN :
         Perform(ReduceReport(sm, Head(wsEvt).status, Head(wsEvt).cook, windowOver,
                              lampId, onId, stopId))
    /\ wsEvt' = Tail(wsEvt)
    /\ UNCHANGED storeEvt

TakeAck ==
    /\ wsEvt # <<>> /\ Head(wsEvt).kind = "ack"
    /\ Perform(ApplyCommandAck(sm, Head(wsEvt).id, Head(wsEvt).ok))
    /\ wsEvt' = Tail(wsEvt)
    /\ UNCHANGED storeEvt

TakeLink ==
    /\ wsEvt # <<>> /\ Head(wsEvt).kind \in {"connected", "disconnected", "discovered"}
    /\ Perform(ApplyLink(sm, Head(wsEvt).kind))
    /\ wsEvt' = Tail(wsEvt)
    /\ UNCHANGED storeEvt

TakeStoreEvent ==
    /\ storeEvt # <<>>
    /\ Perform(ApplyStoreEvent(sm, Head(storeEvt)))
    /\ storeEvt' = Tail(storeEvt)
    /\ UNCHANGED wsEvt

CurrentCookTick ==
    TickIsDue(sm) /\ Perform(FetchCurrentCook(On(sm))) /\ UNCHANGED <<wsEvt, storeEvt>>

HistoryTick == Perform(RefreshHistory(On(sm))) /\ UNCHANGED <<wsEvt, storeEvt>>
=============================================================================
