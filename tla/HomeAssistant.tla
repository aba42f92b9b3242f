---------------------------- MODULE HomeAssistant ---------------------------
(***************************************************************************)
(* processors/mqtt.rs and mqtt/milestones.rs: the oven in Home Assistant.  *)
(* The processor looks at the read model, the cook progress and the link   *)
(* whenever one of the first two changes and every POLL_INTERVAL, and      *)
(* publishes what differs from what it published last; milestones are the  *)
(* edges between two looks.  The broker comes and goes, and may forget     *)
(* what it retained.                                                       *)
(*                                                                         *)
(* Left out: discovery, the recipe select, the manual draft and commands,  *)
(* and the client's queue: a publish while the broker is away is not       *)
(* delivered, as every connect publishes all of it again.                  *)
(***************************************************************************)
EXTENDS CookProgress

VARIABLES
    looked,     \* Processor::last_snapshot, with last_state and next_stage_ready
    broker,     \* up, and whether what it retains is what was published last
    connack,    \* Incoming::Connected waits in the processor's channel
    said        \* how often each cook's start and end were announced

haVars == <<looked, broker, connack, said>>

\* What a look takes in.  The state topic is the status with its progress, and
\* the milestones' Snapshot is worked out from it and the current cook.
Look == [connected: BOOLEAN, status: Status \cup {None}, progress: Progress \cup {None},
         titled: CookOrNone]

HaTypeOK ==
    /\ looked \in Look \cup {None}
    /\ broker \in [up: BOOLEAN, available: BOOLEAN, state: BOOLEAN, ready: BOOLEAN]
    /\ connack \in BOOLEAN
    /\ said \in [Cooks -> [started: 0..2, ended: 0..2]]

Lost == [up |-> FALSE, available |-> FALSE, state |-> FALSE, ready |-> FALSE]

HaInit ==
    /\ looked = None
    /\ broker = Lost
    /\ connack = FALSE
    /\ said = [c \in Cooks |-> [started |-> 0, ended |-> 0]]

-----------------------------------------------------------------------------
(* Snapshots and milestones.                                               *)

\* Mutant of CookOf: an oven that is away has no cook.
CookOfConnected(look) ==
    IF look.connected /\ IsCooking(look.status) THEN look.status.cook ELSE None

CookOf(look) == IF IsCooking(look.status) THEN look.status.cook ELSE None

\* protocol::cook_done: pending on the last stage, which only local mode says.
Done(look) ==
    /\ follow /\ IsCooking(look.status) /\ look.status.pending
    /\ look.status.index = Len(Stages[look.status.cook])

\* Without progress the stage is the oven's.
StageOf(look) == IF look.progress # None THEN look.progress.index
                 ELSE IF look.status # None THEN look.status.index ELSE None
Ready(look) == look.progress # None /\ look.progress.ready

\* The stage's kind is that of the current cook's stage.
AtPreheat(look) ==
    /\ look.titled # None /\ StageOf(look) \in 1..Len(Stages[look.titled])
    /\ Stages[look.titled][StageOf(look)].kind = "preheat"

\* The edges within one cook.
StageEdges(prev, next) ==
    (IF None \notin {StageOf(prev), StageOf(next)} /\ StageOf(prev) # StageOf(next)
       THEN {IF AtPreheat(prev) THEN "preheat_done" ELSE "stage_started"} ELSE {})
    \cup (IF ~Ready(prev) /\ Ready(next) THEN {"stage_waiting"} ELSE {})
    \cup (IF ~Done(prev) /\ Done(next) THEN {"cook_done"} ELSE {})

\* milestones().  While the oven is away its last state stands.
Milestones(prev, next) ==
    IF ~next.connected
      THEN IF prev.connected /\ CookOf(prev) # None THEN {"oven_lost"} ELSE {}
      ELSE CASE CookOf(prev) = None /\ CookOf(next) # None -> {"cook_started"}
             [] CookOf(prev) # None /\ CookOf(next) = None ->
                  IF Done(prev) THEN {} ELSE {"cook_stopped"}
             [] CookOf(prev) # None /\ CookOf(next) # None ->
                  IF CookOf(prev) # CookOf(next) THEN {"cook_started"}
                  ELSE StageEdges(prev, next)
             [] OTHER -> {}

\* The start is of the new cook, an end of the one that was.
Counted(prev, next) ==
    [c \in Cooks |->
       [started |-> said[c].started
                      + (IF c = CookOf(next) /\ "cook_started" \in Milestones(prev, next)
                           THEN 1 ELSE 0),
        ended   |-> said[c].ended
                      + (IF c = CookOf(prev) /\ Milestones(prev, next) \cap
                                                  {"cook_done", "cook_stopped"} # {}
                           THEN 1 ELSE 0)]]

-----------------------------------------------------------------------------
(* The processor.                                                          *)

Published(look) == [look EXCEPT !.titled = None]
Differs(prev, next) == prev = None \/ Published(prev) # Published(next)
NextStage(look) == Ready(look) /\ look.connected
ReadyDiffers(prev, next) == prev = None \/ NextStage(prev) # NextStage(next)

\* on_change: a topic that differs, or is forced, is published, and retained
\* if the broker is there.  The first look is the baseline: a server restarted
\* mid-cook announces nothing.
Changed(next, forced, kept) ==
    /\ looked' = next
    /\ broker' = [kept EXCEPT
         !.state = IF forced \/ Differs(looked, next) THEN kept.up ELSE @,
         !.ready = IF forced \/ ReadyDiffers(looked, next) THEN kept.up ELSE @]
    /\ said' = IF looked = None THEN said ELSE Counted(looked, next)

Looking(model, connected) ==
    [connected |-> connected, status |-> model.status,
     progress |-> IF model.status = None THEN None ELSE progress,
     titled |-> IF model.cook = None THEN None ELSE model.cook.cook]

OnChange(model, connected) ==
    Changed(Looking(model, connected), FALSE, broker) /\ UNCHANGED connack

\* Mutant of OnConnected: only what changed meanwhile is published.
OnConnectedUnforced(model, connected) ==
    /\ connack
    /\ connack' = FALSE
    /\ Changed(Looking(model, connected), FALSE,
               [broker EXCEPT !.available = broker.up])

\* on_connected: all of it is published, whatever the broker still has.
OnConnected(model, connected) ==
    /\ connack
    /\ connack' = FALSE
    /\ Changed(Looking(model, connected), TRUE,
               [broker EXCEPT !.available = broker.up])

-----------------------------------------------------------------------------
(* The broker (external) and the client's event loop.                      *)

\* drive(): a ConnAck is handed to the processor.
BrokerConnects ==
    /\ ~broker.up
    /\ broker' = [broker EXCEPT !.up = TRUE]
    /\ connack' = TRUE
    /\ UNCHANGED <<looked, said>>

\* The connection is lost: the last will says so.  A broker that restarts may
\* have lost what it retained.
BrokerLost ==
    /\ broker.up
    /\ \/ broker' = Lost
       \/ broker' = [broker EXCEPT !.up = FALSE, !.available = FALSE]
    /\ UNCHANGED <<looked, connack, said>>
=============================================================================
