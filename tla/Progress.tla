------------------------------ MODULE Progress ------------------------------
(***************************************************************************)
(* How an oven's stage becomes the progress that the server serves: the    *)
(* state machine publishes its read model (state_machine.rs), a fan-out    *)
(* task splits it into two watch channels (main.rs), and the cook-progress *)
(* task hears of both.  A watch channel holds its last value, and whether  *)
(* its receiver has seen it; every hop is a task of its own.               *)
(*                                                                         *)
(* The oven is the environment.  Of the state machine only what reaches    *)
(* the read model is here; StateMachine has the rest.                      *)
(***************************************************************************)
EXTENDS CookProgress

CONSTANTS
    LocalCooks,     \* bound: the cooks a server in local mode sees, as they are started
    CloudCooks,     \* bound: those that one in cloud mode sees
    ServerCooks,    \* bound: those that the server may start; the app may start all
    LeftOut,        \* bound: whether the cloud leaves the stage out of a status
    MaxReplaced     \* bound: starts over a running cook

ASSUME LeftOutAssumption == LeftOut \subseteq BOOLEAN

VARIABLES
    oven,       \* the oven's cook, stage and what its timer or heat do
    used,       \* how far each cook got: each starts once
    replaced,   \* how many of them replaced a running one
    sm,         \* the state machine's status, current cook and pending start
    fetch,      \* the cook whose record the store is about to answer with
    seed,       \* CookProgressMsg::StartedFromRecipe in its channel
    model,      \* the read model published last
    unseen,     \* the channels whose latest value the task has not seen
    fanning,    \* the fan-out's snapshot, its status sent and its cook not
    shown,      \* the status and current-cook channels
    lent        \* history: in cloud mode, the tracker was told of another cook's status

ovenVars  == <<oven, used, replaced>>
smVars    == <<sm, fetch, seed, model>>
watchVars == <<unseen, fanning, shown>>
vars == <<ovenVars, smVars, watchVars, cpVars, lent>>

Off == [cook |-> None, stage |-> None, phase |-> "fresh"]
Model == [status: Status \cup {None}, cook: CurrentCook \cup {None}]
Channels == {"model", "status", "cook"}

TypeOK ==
    /\ CpTypeOK
    /\ oven \in {Off} \cup [cook: Cooks, stage: Indexes, phase: {"fresh", "running", "over"}]
    /\ replaced \in 0..MaxReplaced
    /\ sm \in [status: Status \cup {None}, cook: CurrentCook \cup {None}, start: CookOrNone]
    /\ used \in [Cooks -> {"no", "sent", "begun"}]
    /\ fetch \in CookOrNone /\ seed \in CookOrNone
    /\ model \in Model /\ shown \in Model
    /\ unseen \subseteq Channels
    /\ fanning \in {<<>>} \cup {<<c>> : c \in CurrentCook \cup {None}}
    /\ lent \in BOOLEAN

Init ==
    /\ follow \in BOOLEAN
    /\ CpInit
    /\ oven = Off /\ replaced = 0 /\ used = [c \in Cooks |-> "no"]
    /\ sm = [status |-> None, cook |-> None, start |-> None]
    /\ fetch = None /\ seed = None
    /\ model = [status |-> None, cook |-> None] /\ shown = model
    /\ unseen = {} /\ fanning = <<>> /\ lent = FALSE

-----------------------------------------------------------------------------
(* The oven (external).                                                    *)

Stage == Stages[oven.cook][oven.stage]
Last == oven.stage = Len(Stages[oven.cook])
NextWaits == ~Last /\ Stages[oven.cook][oven.stage + 1].user

\* What the oven reports; the cloud may leave the stage out of it.
Reports ==
    IF oven.cook = None THEN {IdleStatus}
    ELSE {[cook |-> oven.cook, index |-> IF out THEN None ELSE oven.stage, stage |-> Stage,
           phase |-> oven.phase, pending |-> oven.phase = "over" /\ (Last \/ NextWaits)] :
            out \in IF follow THEN {FALSE} ELSE LeftOut}

\* A start of the next cook: over a running one, MaxReplaced times.
Starts(c, how) ==
    /\ LET cooks == IF follow THEN LocalCooks ELSE CloudCooks
       IN \E i \in DOMAIN cooks : /\ cooks[i] = c
                                  /\ \A j \in 1..i - 1 : used[cooks[j]] # "no"
    /\ used[c] = "no"
    /\ used' = [used EXCEPT ![c] = how]
    /\ replaced' = IF oven.cook # None THEN replaced + 1 ELSE replaced
    /\ replaced' <= MaxReplaced

\* A start reaches the oven, from its own app or from the server.
Begins(c) ==
    /\ \/ Starts(c, "begun")
       \/ sm.start = c /\ used[c] = "sent"
            /\ used' = [used EXCEPT ![c] = "begun"] /\ UNCHANGED replaced
    /\ oven' = [cook |-> c, stage |-> 1, phase |-> "fresh"]
    /\ UNCHANGED <<smVars, watchVars, cpVars, lent>>

\* The stage runs, or is over.  Local mode looks at neither timer nor heat.
Runs ==
    /\ oven.cook # None
    /\ oven.phase # "over"
    /\ oven' = [oven EXCEPT !.phase = IF @ = "fresh" /\ ~follow THEN "running" ELSE "over"]
    /\ UNCHANGED <<used, replaced, smVars, watchVars, cpVars, lent>>

\* The next stage begins, by itself or by the user.
MovesOn ==
    /\ oven.cook # None
    /\ oven.phase = "over" /\ ~Last
    /\ oven' = [oven EXCEPT !.stage = @ + 1, !.phase = "fresh"]
    /\ UNCHANGED <<used, replaced, smVars, watchVars, cpVars, lent>>

Stops ==
    /\ oven.cook # None
    /\ oven' = Off
    /\ UNCHANGED <<used, replaced, smVars, watchVars, cpVars, lent>>

-----------------------------------------------------------------------------
(* The state machine, as far as its read model goes.                       *)

PublishModel(s) ==
    /\ model' = [status |-> s.status, cook |-> s.cook]
    /\ unseen' = unseen \cup {"model"}

\* start_cook seeds the current cook; nothing is published yet.  POST /start
\* then tells the progress task; other starts do not.
ServerStarts(c) ==
    /\ c \in ServerCooks /\ sm.start = None
    /\ Starts(c, "sent")
    /\ sm' = [sm EXCEPT !.cook = [cook |-> c, key |-> "placeholder"], !.start = c]
    /\ \E posted \in BOOLEAN : seed' = IF posted THEN c ELSE seed
    /\ UNCHANGED <<oven, fetch, model, watchVars, cpVars, lent>>

\* apply_apo_state.  An idle report ends the cook and rolls back a start; a
\* cook's first report confirms one.
Reported(status) ==
    [sm EXCEPT !.status = status,
               !.cook = IF IsIdle(status) THEN None ELSE @,
               !.start = IF IsCooking(sm.status) /\ IsCooking(status) THEN @ ELSE None]

\* The record is fetched at a cook's first report and when the timer's total
\* changes, for a stage of another look; not while a start is pending.
FetchIsDue(status) ==
    /\ IsCooking(status)
    /\ IsCooking(sm.status) => sm.start = None /\ status.stage.look # sm.status.stage.look

Report ==
    /\ \E status \in Reports :
         /\ sm' = Reported(status)
         /\ fetch' = IF FetchIsDue(status) THEN status.cook ELSE fetch
    /\ PublishModel(sm')
    /\ UNCHANGED <<ovenVars, seed, fanning, shown, cpVars, lent>>

\* apply_command_ack of a start over a running cook, which follows the report
\* it was found in; and the periodic tick, which then fetches too.
Refresh ==
    /\ IsCooking(sm.status)
    /\ sm.start \in {None, sm.status.cook}
    /\ fetch = None
    /\ sm.cook # [cook |-> sm.status.cook, key |-> "record"]
    /\ fetch' = sm.status.cook
    /\ sm' = [sm EXCEPT !.start = None]
    /\ UNCHANGED <<ovenVars, seed, model, watchVars, cpVars, lent>>

\* CurrentCookFetched: the store's record, whatever has happened since.
Fetched ==
    /\ fetch # None
    /\ fetch' = None
    /\ sm' = [sm EXCEPT !.cook = [cook |-> fetch, key |-> "record"]]
    /\ PublishModel(sm')
    /\ UNCHANGED <<ovenVars, seed, fanning, shown, cpVars, lent>>

-----------------------------------------------------------------------------
(* The tasks downstream of it.                                             *)

\* read-model-fanout: one snapshot, two sends.
FansStatus ==
    /\ "model" \in unseen /\ fanning = <<>>
    /\ fanning' = <<model.cook>>
    /\ shown' = [shown EXCEPT !.status = model.status]
    /\ unseen' = (unseen \ {"model"}) \cup {"status"}
    /\ UNCHANGED <<ovenVars, smVars, cpVars, lent>>

FansCook ==
    /\ fanning # <<>>
    /\ fanning' = <<>>
    /\ shown' = [shown EXCEPT !.cook = fanning[1]]
    /\ unseen' = unseen \cup {"cook"}
    /\ UNCHANGED <<ovenVars, smVars, cpVars, lent>>

\* In cloud mode a status of another cook is taken for one of the tracker's own.
Lends(status, c) == ~follow /\ IsCooking(status) /\ status.cook # c

TakesStatus ==
    /\ "status" \in unseen
    /\ \E hot \in Heat(shown.status), held \in BOOLEAN : OnStatus(shown.status, hot, held)
    /\ lent' = (tracker' # None /\ (lent \/ Lends(shown.status, tracker.cook)))
    /\ unseen' = unseen \ {"status"}
    /\ UNCHANGED <<ovenVars, smVars, fanning, shown>>

TakesCook ==
    /\ "cook" \in unseen
    /\ OnCurrentCook(shown.cook, shown.status)
    /\ lent' = (tracker' # None
                /\ IF Tracks(shown.cook) THEN lent ELSE Lends(shown.status, shown.cook.cook))
    /\ unseen' = unseen \ {"cook"}
    /\ UNCHANGED <<ovenVars, smVars, fanning, shown>>

TakesSeed ==
    /\ seed # None
    /\ OnStartedFromRecipe(seed)
    /\ seed' = None /\ lent' = FALSE
    /\ UNCHANGED <<ovenVars, sm, fetch, model, watchVars>>

Next ==
    \/ \E c \in Cooks : Begins(c) \/ ServerStarts(c)
    \/ Runs \/ MovesOn \/ Stops
    \/ Report \/ Refresh \/ Fetched
    \/ FansStatus \/ FansCook
    \/ TakesStatus \/ TakesCook \/ TakesSeed

Spec == Init /\ [][Next]_vars

\* The oven reports, and the tasks run; ProgressCatchesUp is about local mode.
Fairness ==
    /\ WF_vars(follow /\ Report) /\ WF_vars(follow /\ Refresh) /\ WF_vars(follow /\ Fetched)
    /\ WF_vars(follow /\ FansStatus) /\ WF_vars(follow /\ FansCook)
    /\ WF_vars(follow /\ TakesStatus) /\ WF_vars(follow /\ TakesCook)
    /\ WF_vars(follow /\ TakesSeed)

FairSpec == Spec /\ Fairness

-----------------------------------------------------------------------------

\* Local mode: once the oven goes on as it is, the progress is the oven's own,
\* whatever starts, replacements, fetches and seeds came before it; a start the
\* oven has not answered shows its own cook (cook_progress.rs: follow_oven,
\* on_current_cook).
OvensProgress ==
    IF oven.cook = None THEN None
    ELSE [cook |-> oven.cook, index |-> oven.stage,
          ready |-> oven.phase = "over" /\ NextWaits]
ProgressCatchesUp == <>[](follow /\ sm.start = None => progress = OvensProgress)

\* Cloud mode, while the tracker was told only its own cook's statuses: a timed
\* stage is said to be over only when the oven's is, or it has moved on; a timer
\* parked before it ran is not mistaken for one that ran (cook_progress.rs:
\* timer_has_run).  One that was told of a running timer of the cook it replaces
\* takes that for its own, and may say so early; the record's tracker corrects it.
ReadyIsEarned ==
    /\ ~follow /\ ~lent /\ progress # None /\ oven.cook # None
    /\ progress.cook = oven.cook /\ progress.ready
    /\ Stages[oven.cook][progress.index].timed
    => oven.stage > progress.index \/ (oven.stage = progress.index /\ oven.phase = "over")
=============================================================================
