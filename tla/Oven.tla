-------------------------------- MODULE Oven --------------------------------
(***************************************************************************)
(* The oven itself, as processors/device.rs uses it and                    *)
(* docs/oven-cloud-emulation.md records it: it runs one cook at a time,    *)
(* carries out the commands of its session in order, lists the ids it has  *)
(* handled, and can be worked from its own panel at any moment.            *)
(***************************************************************************)
EXTENDS Messages

CONSTANT LampPreference     \* the lamp comes on by itself as a cook starts

ASSUME OvenAssumption == LampPreference \in BOOLEAN

VARIABLES
    oven,        \* the oven's own state
    begun,       \* cook ids drawn so far, by the server or by the panel
    inbox,       \* commands sent on this session, not handled yet
    processed    \* processedCommandIds, since the last report that arrived

ovenVars == <<oven, begun, inbox, processed>>

OvenState == [cook: CookOrNone, stage: 0..LastStage, ended: BOOLEAN, lamp: BOOLEAN]

OvenTypeOK ==
    /\ oven \in OvenState
    /\ begun \subseteq Cooks
    /\ inbox \in Seq(WsCommand)
    /\ processed \subseteq Ids

OvenInit ==
    /\ oven = [cook |-> None, stage |-> 0, ended |-> FALSE, lamp |-> FALSE]
    /\ begun = {}
    /\ inbox = <<>>
    /\ processed = {}

\* Only the temperature of a preheat matters to the server.
Reports ==
    [stage: {oven.stage}, ended: {oven.ended}, lamp: {oven.lamp},
     near: IF oven.cook \in PreheatCooks /\ oven.stage = 1 THEN BOOLEAN ELSE {FALSE}]

Run(cook) ==
    [cook |-> cook, stage |-> 1, ended |-> FALSE, lamp |-> oven.lamp \/ LampPreference]
Off == [cook |-> None, stage |-> 0, ended |-> FALSE, lamp |-> oven.lamp]
StartStage(recipe, stage) ==
    IF oven.cook # None /\ RecipeOf(oven.cook) = recipe
      THEN [cook |-> oven.cook, stage |-> stage, ended |-> FALSE, lamp |-> oven.lamp]
      ELSE oven

\* Mutant of Hold: there is always a next stage.
HoldForUser == oven.stage = 1 /\ oven.cook \in WaitingCooks
\* A stage that has ended holds if it is the last, or the next waits for the user.
Hold == oven.stage = LastStage \/ (oven.stage = 1 /\ oven.cook \in WaitingCooks)

\* SET_LAMP has no effect on an idle oven.
Lamp(on) == IF oven.cook = None THEN oven ELSE [oven EXCEPT !.lamp = on]

Effect(cmd) ==
    CASE cmd.kind = "start"     -> Run(cmd.id)
      [] cmd.kind = "stop"      -> Off
      [] cmd.kind = "lampOn"    -> Lamp(TRUE)
      [] cmd.kind = "lampOff"   -> Lamp(FALSE)
      [] cmd.kind = "nextStage" -> StartStage(cmd.recipe, cmd.stage)

OvenHandles ==
    /\ inbox # <<>>
    /\ oven' = Effect(Head(inbox))
    /\ processed' = processed \cup {Head(inbox).id}
    /\ inbox' = Tail(inbox)
    /\ UNCHANGED begun

\* A command the firmware refuses or loses is never listed as handled.
OvenDrops ==
    /\ inbox # <<>>
    /\ inbox' = Tail(inbox)
    /\ UNCHANGED <<oven, begun, processed>>

PanelStart ==
    /\ \E cook \in Cooks \ begun :
         /\ oven' = Run(cook)
         /\ begun' = begun \cup {cook}
    /\ UNCHANGED <<inbox, processed>>

PanelStop ==
    /\ oven.cook # None
    /\ oven' = Off
    /\ UNCHANGED <<begun, inbox, processed>>

\* A stage's timer or probe ends, or a preheat is at its setpoint.
StageEnds ==
    /\ oven.cook # None /\ ~oven.ended
    /\ oven' = IF Hold THEN [oven EXCEPT !.ended = TRUE] ELSE [oven EXCEPT !.stage = @ + 1]
    /\ UNCHANGED <<begun, inbox, processed>>

OvenOnItsOwn == OvenDrops \/ PanelStart \/ PanelStop \/ StageEnds
=============================================================================
