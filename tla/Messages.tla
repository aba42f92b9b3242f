------------------------------ MODULE Messages ------------------------------
(***************************************************************************)
(* The message contracts of runtime/types.rs and the four mpsc channels    *)
(* that main.rs creates between the processors.                            *)
(*                                                                         *)
(* Identifiers are fresh UUIDs in the code.  A start draws two of them, a  *)
(* request id and a cook id; one model value stands for both.              *)
(***************************************************************************)
EXTENDS Integers, Sequences, SequencesExt

CONSTANTS
    Cooks,      \* cook ids, each also the request id of the start that drew it
    Requests,   \* request ids of stops and controls
    None,       \* Option::None
    LastStage,      \* stages per cook; the last one is where a cook is done
    PreheatCooks,   \* cooks whose first stage is a preheat, with a stage after it
    WaitingCooks,   \* cooks whose second stage waits for the user
    SameRecipe      \* all cooks are of one recipe, or each of its own

ASSUME MessagesAssumption ==
    /\ LastStage \in Nat \ {0}
    /\ Cooks \cap Requests = {}
    /\ None \notin Cooks \cup Requests
    /\ PreheatCooks \cup WaitingCooks \subseteq Cooks
    /\ PreheatCooks \cup WaitingCooks # {} => LastStage > 1
    /\ SameRecipe \in BOOLEAN
    /\ SameRecipe => {PreheatCooks, WaitingCooks} \subseteq {{}, Cooks}

VARIABLES
    wsCmd,      \* state machine -> oven link (WsCommand)
    wsEvt,      \* oven link -> state machine (WsEvent, through its forwarder)
    storeCmd,   \* state machine -> store (StoreCommand)
    storeEvt    \* store -> state machine (StoreEvent, through its forwarder)

Ids == Cooks \cup Requests
CookOrNone == Cooks \cup {None}

\* A stage's id is made when its recipe is saved (local_store::normalize), so
\* cooks of one recipe share their stage ids.
RecipeOf(cook) == IF SameRecipe THEN None ELSE cook

\* What the rest of the server reads of an OvenStatus.  Stage 0 is the idle
\* mode.  `ended` on the last stage is cook_done, or the probe at its target;
\* before it, stage_transition_pending_user_action.  `near`: a preheat within
\* preheat_tolerance_c of its setpoint.
Status == [stage: 0..LastStage, ended: BOOLEAN, lamp: BOOLEAN, near: BOOLEAN]
IsCooking(status) == status.stage # 0
\* The timer's total: the stage's, and none once the last stage has ended.
Timer(status) ==
    IF status.stage = LastStage /\ status.ended THEN 0 ELSE status.stage

Controls == {"lampOn", "lampOff", "nextStage"}
WsCommand ==
    [kind: {"start"}, id: Cooks]
        \cup [kind: {"stop", "lampOn", "lampOff"}, id: Requests]
        \cup [kind: {"nextStage"}, id: Requests, recipe: CookOrNone, stage: 1..LastStage]
Command(kind, id) == [kind |-> kind, id |-> id]
\* CMD_APO_START_STAGE names the stage to start.
NextStage(cook, stage, id) ==
    [kind |-> "nextStage", id |-> id, recipe |-> RecipeOf(cook), stage |-> stage]

LinkEvent == [kind: {"connected", "disconnected", "discovered"}]
StateEvent == [kind: {"state"}, status: Status, cook: CookOrNone]
AckEvent == [kind: {"ack"}, id: Ids, ok: BOOLEAN]
WsEvent == LinkEvent \cup StateEvent \cup AckEvent

Link(kind) == [kind |-> kind]
Ack(id, ok) == [kind |-> "ack", id |-> id, ok |-> ok]
ApoState(status, cook) == [kind |-> "state", status |-> status, cook |-> cook]

\* A title: the one given with the start, "[manual]", or the one that the
\* running cook was saved under as a recipe.
Titles == {"started", "manual", "saved"}
CurrentCook == [cook: Cooks, title: Titles, turnOff: BOOLEAN]
\* `endedNow`: dated when it was recorded, not by the cook's last report.
HistoryEntry == [cook: Cooks, title: Titles, endedNow: BOOLEAN]

StoreCommand ==
    [kind: {"fetch", "reported"}, cook: CookOrNone]
        \cup [kind: {"started"}, cook: Cooks, turnOff: BOOLEAN]
        \cup [kind: {"history", "link"}]
StoreEvent ==
    [kind: {"fetched"}, cook: CurrentCook \cup {None}]
        \cup [kind: {"patched"}]
        \cup [kind: {"history"}, entries: Seq(HistoryEntry)]

channels == <<wsCmd, wsEvt, storeCmd, storeEvt>>

ChannelsTypeOK ==
    /\ wsCmd \in Seq(WsCommand)
    /\ wsEvt \in Seq(WsEvent)
    /\ storeCmd \in Seq(StoreCommand)
    /\ storeEvt \in Seq(StoreEvent)
=============================================================================
