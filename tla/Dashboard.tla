----------------------------- MODULE Dashboard ------------------------------
(***************************************************************************)
(* The way from the read model to Home Assistant in local mode: the MQTT   *)
(* processor (HomeAssistant) reads the read model and the cook progress,   *)
(* and the progress task (CookProgress) makes the second of the first in   *)
(* its own time.  Progress has the hops between them; here they are one.   *)
(*                                                                         *)
(* The oven, started from its own app, reports each of its states; links   *)
(* to it and to the broker come and go.                                    *)
(***************************************************************************)
EXTENDS HomeAssistant

CONSTANTS
    MaxReplaced,    \* bound: cooks started over a running one
    MaxOutages      \* bound: losses of the broker and of the oven together

VARIABLES
    model,      \* the read model: [status, cook]
    unseen,     \* what of it the progress task has not taken yet
    begun,      \* the cooks begun so far
    replaced,   \* how many of them replaced a running one
    online,     \* Liveness::connected()
    outages     \* how many losses there were

modelVars == <<model, unseen, begun, replaced>>
linkVars == <<online, outages>>
vars == <<modelVars, linkVars, cpVars, haVars>>

TypeOK ==
    /\ CpTypeOK /\ HaTypeOK
    /\ model \in [status: Status \cup {None}, cook: CurrentCook \cup {None}]
    /\ unseen \subseteq {"status", "cook"}
    /\ begun \subseteq Cooks /\ replaced \in 0..MaxReplaced
    /\ online \in BOOLEAN /\ outages \in 0..MaxOutages

Init ==
    /\ follow = TRUE
    /\ CpInit /\ HaInit
    /\ model = [status |-> None, cook |-> None]
    /\ unseen = {} /\ begun = {} /\ replaced = 0
    /\ online = TRUE /\ outages = 0

-----------------------------------------------------------------------------
(* The oven's reports (external), as the state machine publishes them.     *)

Cooking == IsCooking(model.status)
Last == model.status.index = Len(Stages[model.status.cook])
At(c, i, phase) ==
    [cook |-> c, index |-> i, stage |-> Stages[c][i], phase |-> phase,
     pending |-> phase = "over" /\ (i = Len(Stages[c]) \/ Stages[c][i + 1].user)]

\* An idle report ends the current cook; another keeps it.
Publishes(status) ==
    /\ model' = [status |-> status, cook |-> IF status.cook = None THEN None ELSE model.cook]
    /\ unseen' = {"status", "cook"}

Reports(status) ==
    /\ online
    /\ Publishes(status)
    /\ UNCHANGED <<begun, replaced, linkVars, cpVars, haVars>>

Begins(c) ==
    /\ online
    /\ c \notin begun
    /\ begun' = begun \cup {c}
    /\ replaced' = IF Cooking THEN replaced + 1 ELSE replaced
    /\ replaced' <= MaxReplaced
    /\ Publishes(At(c, 1, "fresh"))
    /\ UNCHANGED <<linkVars, cpVars, haVars>>

StageEnds ==
    /\ Cooking
    /\ model.status.phase # "over"
    /\ Reports(At(model.status.cook, model.status.index, "over"))

NextBegins ==
    /\ Cooking
    /\ model.status.phase = "over" /\ ~Last
    /\ Reports(At(model.status.cook, model.status.index + 1, "fresh"))

Idles == model.status # IdleStatus /\ Reports(IdleStatus)

\* CurrentCookFetched: the record of the oven's cook.
Fetched ==
    /\ Cooking
    /\ model.cook # [cook |-> model.status.cook, key |-> "record"]
    /\ model' = [model EXCEPT !.cook = [cook |-> model.status.cook, key |-> "record"]]
    /\ unseen' = {"status", "cook"}
    /\ UNCHANGED <<begun, replaced, linkVars, cpVars, haVars>>

-----------------------------------------------------------------------------

TakesStatus ==
    /\ "status" \in unseen
    /\ unseen' = unseen \ {"status"}
    /\ OnStatus(model.status, FALSE, FALSE)
    /\ UNCHANGED <<model, begun, replaced, linkVars, haVars>>

TakesCook ==
    /\ "cook" \in unseen
    /\ unseen' = unseen \ {"cook"}
    /\ OnCurrentCook(model.cook, model.status)
    /\ UNCHANGED <<model, begun, replaced, linkVars, haVars>>

\* Woken by a change of either, by the poll, or by a connect.
Looks == OnChange(model, online) /\ UNCHANGED <<modelVars, linkVars, cpVars>>
Connected == OnConnected(model, online) /\ UNCHANGED <<modelVars, linkVars, cpVars>>

-----------------------------------------------------------------------------
(* Links.                                                                  *)

OvenLost ==
    /\ online /\ outages < MaxOutages
    /\ online' = FALSE /\ outages' = outages + 1
    /\ UNCHANGED <<modelVars, cpVars, haVars>>

OvenBack ==
    /\ ~online /\ online' = TRUE
    /\ UNCHANGED <<modelVars, outages, cpVars, haVars>>

BrokerGone ==
    /\ outages < MaxOutages
    /\ BrokerLost
    /\ outages' = outages + 1
    /\ UNCHANGED <<modelVars, online, cpVars>>

BrokerBack == BrokerConnects /\ UNCHANGED <<modelVars, linkVars, cpVars>>

Next ==
    \/ \E c \in Cooks : Begins(c)
    \/ StageEnds \/ NextBegins \/ Idles \/ Fetched
    \/ TakesStatus \/ TakesCook \/ Looks \/ Connected
    \/ OvenLost \/ OvenBack \/ BrokerGone \/ BrokerBack

Spec == Init /\ [][Next]_vars

\* The processor runs and its client reconnects; nothing is asked of the rest.
FairSpec == Spec /\ WF_vars(Looks) /\ WF_vars(Connected) /\ WF_vars(BrokerBack)

-----------------------------------------------------------------------------

\* A cook is announced as started once, and as ended once, by cook_done or by
\* cook_stopped but not both, however often the broker and the oven come and
\* go (milestones.rs: edges, not states).
AnnouncedOnce == \A c \in Cooks : said[c].started <= 1 /\ said[c].ended <= 1

\* Home Assistant's topics end up retained as the server serves them, with the
\* processor available, though the broker forgets and changes happen while it
\* is away (mqtt.rs: on_connected).
TopicsCatchUp ==
    <>[](broker = [up |-> TRUE, available |-> TRUE, state |-> TRUE, ready |-> TRUE]
         /\ looked = Looking(model, online))

\* stage_started says that a stage after the first began ("Any later stage
\* begins, by timer or by the user": docs/oven-offline-plan.md).
StageNewsIsLater ==
    [][ looked # None /\ "stage_started" \in Milestones(looked, looked')
          => looked'.status.index > 1 ]_looked
=============================================================================
