-------------------------------- MODULE Panel --------------------------------
(***************************************************************************)
(* The panel: the screens of pico/src/state.rs, decided by pico-core's     *)
(* fsm.rs, over its API task, with a user, a network that loses requests   *)
(* and answers, and the server as the panel sees it over HTTP.             *)
(***************************************************************************)
EXTENDS ApiClient

CONSTANTS
    OfflineThreshold,   \* OFFLINE_THRESHOLD
    MenuTimeout,        \* MENU_INACTIVITY_TIMEOUT_SECS
    StopConfirm,        \* STOP_CONFIRM_TIMEOUT_SECS
    Confirm,            \* START_STOP_CONFIRM_TIMEOUT_SECS
    DimDelay,           \* AppState::idle_dim_delay
    Budgets             \* bound: how many inputs, outages of the network, and changes on
                        \* the server's side the panel didn't ask for, one behavior has,
                        \* by what the server says as it begins

\* What the server says of the oven, and what it says as a behavior begins.
Fresh(mode, ready) ==
    [known |-> TRUE, status |-> [mode |-> mode, ready |-> ready, stale |-> FALSE],
     cook |-> mode = "cooking"]

Views ==
    {Fresh("idle", FALSE), Fresh("cooking", FALSE), Fresh("cooking", TRUE),
     [Fresh("idle", FALSE) EXCEPT !.known = FALSE]}

ASSUME PanelAssumption ==
    /\ {OfflineThreshold, MenuTimeout, StopConfirm, Confirm, DimDelay} \subseteq Nat \ {0}
    /\ \A view \in Views : Budgets[view] \subseteq [{"inputs", "outages", "surprises"} -> Nat]

VARIABLES
    app,        \* AppState, with the handler's own variables
    server,     \* what the server's /status and /current-cook say
    reachable,  \* the network is up
    accepted,   \* actions the server accepted that the oven has not done yet
    left        \* what the bounds still allow

vars == <<apiVars, app, server, reachable, accepted, left>>

Screens == {"Offline", "UpstreamStale", "Idle", "Cooking", "BrowseRecipes",
            "StartPending", "ConfirmStop", "StopPending", "AwaitNextStage"}

\* `index`: BrowseRecipes.  `timer`: ticks until the handler's deadline.
\* `looking`: the handler is about to read the snapshot.
App == [at: Screens, index: 0..MaxRecipes, timer: Nat \cup {None}, dimmed: BOOLEAN,
        looking: BOOLEAN]
\* `known`: the server has a state of the oven (else 503).
Server == [known: BOOLEAN, status: Status, cook: BOOLEAN]

TypeOK ==
    /\ ApiTypeOK
    /\ app \in App
    /\ server \in Server /\ reachable \in BOOLEAN
    /\ accepted \in Seq(Actions)
    /\ left \in [{"inputs", "outages", "surprises"} -> Nat]

Spend(kind) == left[kind] > 0 /\ left' = [left EXCEPT ![kind] = @ - 1]

-----------------------------------------------------------------------------
(* fsm.rs: what a snapshot says.                                           *)

Offline == snap.fails >= OfflineThreshold
SeesCook == snap.cook \/ (snap.status # None /\ snap.status.mode # "idle")
SeesStale ==
    IF snap.missing # None THEN snap.missing >= Grace
    ELSE snap.status # None /\ snap.status.stale
Prompts == snap.status # None /\ snap.status.ready
Baseline == IF SeesCook THEN "Cooking" ELSE "Idle"

\* What each handler makes of the snapshot, in the order it asks.
Look ==
    LET at == app.at
    IN IF Offline THEN "Offline"
       ELSE IF at = "Offline" THEN Baseline
       ELSE IF at = "UpstreamStale" THEN IF SeesStale THEN at ELSE Baseline
       ELSE IF at \in {"Idle", "Cooking", "AwaitNextStage"} /\ SeesStale THEN "UpstreamStale"
       ELSE IF SeesCook
         THEN IF at \in {"Idle", "BrowseRecipes", "StartPending"} THEN "Cooking"
              ELSE IF at = "Cooking" /\ Prompts THEN "AwaitNextStage"
              ELSE IF at = "AwaitNextStage" /\ ~Prompts THEN "Cooking"
              ELSE at
         ELSE IF at \in {"Cooking", "AwaitNextStage", "ConfirmStop", "StopPending"} THEN "Idle"
              ELSE IF at = "BrowseRecipes" /\ snap.recipes = 0 THEN "Idle"
              ELSE at

-----------------------------------------------------------------------------
(* state.rs: the handlers.                                                 *)

TimerOf(screen) ==
    CASE screen = "Idle"                           -> DimDelay
      [] screen = "BrowseRecipes"                  -> MenuTimeout
      [] screen = "ConfirmStop"                    -> StopConfirm
      [] screen \in {"StartPending", "StopPending"} -> Confirm
      [] OTHER                                     -> None

\* These three render first, and read the snapshot only once it changes.
WaitsFirst == {"Offline", "StartPending", "StopPending"}

\* execute.
Enters(screen) ==
    app' = [at |-> screen, index |-> IF screen = "BrowseRecipes" THEN 1 ELSE 0,
            timer |-> TimerOf(screen), dimmed |-> FALSE, looking |-> screen \notin WaitsFirst]

Running == task = "draining"    \* the other task of the executor

Looks ==
    /\ ~Running /\ (app.looking \/ unseen)
    /\ IF Look = app.at
         THEN app' = [app EXCEPT !.looking = FALSE, !.index = Earlier(@, snap.recipes)]
         ELSE Enters(Look)
    /\ unseen' = (app.looking /\ unseen)
    /\ UNCHANGED <<commands, queue, staged, snap, task, call, waiting, server, reachable, accepted, left>>

Stays(handler) == app' = handler /\ UNCHANGED apiVars
Goes(screen) == Enters(screen) /\ UNCHANGED apiVars

IdleInput ==
    /\ app.at = "Idle"
    /\ \/ snap.recipes > 0 /\ Goes("BrowseRecipes")
       \/ Stays([app EXCEPT !.timer = DimDelay, !.dimmed = FALSE, !.looking = TRUE])

CookingInput == app.at \in {"Cooking", "AwaitNextStage"} /\ Goes("ConfirmStop")

\* The prompt stays until a poll shows that the oven moved on.
NextStageInput ==
    /\ app.at = "AwaitNextStage" /\ Send("ApiNextStage", None)
    /\ app' = [app EXCEPT !.looking = TRUE]

BrowseInput ==
    /\ app.at = "BrowseRecipes"
    /\ \/ Stays([app EXCEPT !.index = Earlier(@ + 1, snap.recipes),
                            !.timer = MenuTimeout, !.looking = TRUE])
       \/ app.index = 1 /\ Goes("Idle")
       \/ app.index > 1 /\ Stays([app EXCEPT !.index = @ - 1, !.timer = MenuTimeout,
                                             !.looking = TRUE])
       \/ app.index \in 1..snap.recipes /\ Send("ApiStart", app.index) /\ Enters("StartPending")

ConfirmInput ==
    /\ app.at = "ConfirmStop"
    /\ \/ Send("ApiStop", None) /\ Enters("StopPending")
       \/ Goes("Cooking")
       \/ Stays([app EXCEPT !.timer = StopConfirm, !.looking = TRUE])

\* The other screens drain the input and ignore it.
UserInput ==
    /\ ~Running /\ ~app.looking /\ Spend("inputs")
    /\ IdleInput \/ CookingInput \/ NextStageInput \/ BrowseInput \/ ConfirmInput
    /\ UNCHANGED <<server, reachable, accepted>>

TimerFires ==
    /\ ~Running /\ ~app.looking /\ app.timer = 0
    /\ CASE app.at = "Idle" ->
              Stays([app EXCEPT !.timer = None, !.dimmed = TRUE, !.looking = TRUE])
         [] app.at \in {"BrowseRecipes", "StartPending"} -> Goes("Idle")
         [] app.at \in {"ConfirmStop", "StopPending"} -> Goes("Cooking")
    /\ UNCHANGED <<server, reachable, accepted, left>>

-----------------------------------------------------------------------------
(* The server over the network.                                            *)

Answered(kind) ==
    CASE kind = "PollStatus" ->
           IF server.known THEN [Failed EXCEPT !.is = "ok", !.status = server.status]
           ELSE [Failed EXCEPT !.is = "absent"]
      [] kind = "PollCurrentCook" ->
           [Failed EXCEPT !.is = IF server.cook THEN "ok" ELSE "absent"]
      [] kind = "PollRecipes" -> [Failed EXCEPT !.is = "ok", !.recipes = MaxRecipes]
      [] OTHER -> Failed

Accepts(kind) ==
    IF kind \in Polls THEN UNCHANGED <<server, accepted>>
    ELSE /\ accepted' = Append(accepted, kind)
         /\ server' = [server EXCEPT !.cook = @ \/ kind = "ApiStart"]

Arrives ==
    /\ reachable
    /\ Accepts(call.kind)
    /\ call' = [call EXCEPT !.at = "back", !.answer = Answered(call.kind)]

\* The request is lost in an outage, or its answer is.
Lost ==
    /\ ~reachable
    /\ Accepts(call.kind) \/ UNCHANGED <<server, accepted>>
    /\ call' = [call EXCEPT !.at = "lost"]

Network ==
    /\ task = "calling" /\ call.at = "out"
    /\ Arrives \/ Lost
    /\ UNCHANGED <<commands, queue, staged, snap, unseen, task, waiting, app, reachable, left>>

Outage ==
    /\ \/ reachable /\ reachable' = FALSE /\ Spend("outages")
       \/ ~reachable /\ reachable' = TRUE /\ UNCHANGED left
    /\ UNCHANGED <<apiVars, app, server, accepted>>

OvenActs ==
    /\ accepted # <<>>
    /\ server' = CASE Head(accepted) = "ApiStart" -> Fresh("cooking", FALSE)
                   [] Head(accepted) = "ApiStop"  -> Fresh("idle", FALSE)
                   [] Head(accepted) = "ApiNextStage" ->
                        [server EXCEPT !.status.ready = FALSE]
    /\ accepted' = Tail(accepted)
    /\ UNCHANGED <<apiVars, app, reachable, left>>

\* The server's own view may be stale: the oven or its link is gone.
AnyView == Views \cup {[view EXCEPT !.status.stale = TRUE] : view \in Views}

\* Another client or the oven starts, stops or ends a stage; the oven or its
\* link goes or comes back; the server restarts.
Surprise ==
    /\ Spend("surprises")
    /\ server' \in AnyView \ {server}
    /\ UNCHANGED <<apiVars, app, reachable, accepted>>

-----------------------------------------------------------------------------

\* Time passes only when both tasks wait.
Tick ==
    /\ ApiAtRest /\ ~unseen /\ ~app.looking /\ app.timer # 0
    /\ ApiTick
    /\ app' = IF app.timer = None THEN app ELSE [app EXCEPT !.timer = @ - 1]
    /\ UNCHANGED <<server, reachable, accepted, left>>

Api == ApiStep /\ ~app.looking /\ UNCHANGED <<app, server, reachable, accepted, left>>

Init ==
    /\ ApiInit
    /\ app = [at |-> "Idle", index |-> 0, timer |-> DimDelay, dimmed |-> FALSE, looking |-> TRUE]
    /\ server \in Views
    /\ reachable = TRUE /\ accepted = <<>>
    /\ left \in Budgets[server]

Next == Looks \/ UserInput \/ TimerFires \/ Api \/ Network \/ Outage \/ OvenActs \/ Surprise \/ Tick

Spec == Init /\ [][Next]_vars

-----------------------------------------------------------------------------
\* The place of an action in the order of the presses.
Waits(kind) == \E i \in DOMAIN waiting : waiting[i].kind = kind
Place(kind) == CHOOSE i \in DOMAIN waiting : waiting[i].kind = kind
Starts == call = None /\ call' # None /\ call'.kind \in Actions

(***************************************************************************)
(* A call that does something is made once per press, for the recipe that  *)
(* was pressed last, and a stop never overtakes a start that was pressed   *)
(* before it nor the other way round: although presses wait in a channel   *)
(* and in a queue that is ordered by time and merges presses of a kind,    *)
(* and calls time out and are not retried.                                 *)
(***************************************************************************)
CallsAnswerPresses ==
    [][Starts =>
         /\ Waits(call'.kind)
         /\ waiting[Place(call'.kind)].recipe = call'.recipe
         /\ call'.kind # "ApiNextStage" =>
              \A i \in 1..(Place(call'.kind) - 1) : waiting[i].kind = "ApiNextStage"]_vars

(***************************************************************************)
(* A press waits for no more than the call in progress, one poll of the    *)
(* recipes and the calls for the presses before it: polls of the oven      *)
(* that are due, or overdue, are put off.                                  *)
(***************************************************************************)
PressesGoOutInTime ==
    \A i \in DOMAIN waiting : waiting[i].age <= CallTimeout * (2 + waiting[i].ahead)

(***************************************************************************)
(* Once the user, the network and the oven leave it alone, the panel comes *)
(* to show what the server says, and keeps showing it: over an outage it   *)
(* showed as offline, actions that were lost, given up or carried out      *)
(* late, and a cook and a status that are polled apart.                    *)
(***************************************************************************)
ShowsServer ==
    app.at = IF ~server.known \/ server.status.stale THEN "UpstreamStale"
             ELSE IF ~server.cook THEN "Idle"
             ELSE IF server.status.ready THEN "AwaitNextStage" ELSE "Cooking"
CatchesUp == <>[](IF reachable THEN ShowsServer ELSE app.at = "Offline")

\* Both tasks and their timers run, calls end, and the oven does what the
\* server accepted; an outage need not end.
Fairness ==
    /\ WF_vars(Looks) /\ WF_vars(TimerFires) /\ WF_vars(Api) /\ WF_vars(Network)
    /\ WF_vars(OvenActs) /\ WF_vars(Tick)
FairSpec == Spec /\ Fairness
=============================================================================
