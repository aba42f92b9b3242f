---------------------------- MODULE CookProgress ----------------------------
(***************************************************************************)
(* cook_progress.rs: the task that says which stage a cook is at and       *)
(* whether the next one waits for the user.  In local mode it follows the  *)
(* oven's own stage and flag; in cloud mode it infers both.  It hears of   *)
(* statuses and of the current cook over two watch channels that nothing   *)
(* orders, and of starts over a third.                                     *)
(*                                                                         *)
(* A stage is [kind, look, timed, user]: `look` stands for its target and  *)
(* duration, which the inference compares; a stage is timed or a preheat.  *)
(* In a status, `phase` says what its timer or its temperature do: a       *)
(* timer is parked at its full duration both before it runs and after.     *)
(***************************************************************************)
EXTENDS Integers, Sequences, FiniteSets

CONSTANTS
    Cooks,
    Stages,         \* [Cooks -> Seq(stage)]
    None

ASSUME ProgressAssumption ==
    /\ None \notin Cooks \cup Nat
    /\ \A c \in Cooks : Stages[c] \in Seq([kind: {"preheat", "cook"}, look: Nat,
                                           timed: BOOLEAN, user: BOOLEAN])
    /\ \A c \in Cooks : Len(Stages[c]) > 0

VARIABLES
    follow,     \* CookProgressTask::follow_oven: local mode
    tracker,    \* CookProgressTask::tracker
    progress    \* progress_tx: what GET /status and MQTT read

cpVars == <<follow, tracker, progress>>

CookOrNone == Cooks \cup {None}
Indexes == UNION {1..Len(Stages[c]) : c \in Cooks}
StagesAll == UNION {{Stages[c][i] : i \in 1..Len(Stages[c])} : c \in Cooks}

\* OvenStatus; cook = None is an idle oven.  `index` is None when the oven
\* names no stage; `pending` is stageTransitionPendingUserAction.
IdleStatus == [cook |-> None, index |-> None, stage |-> None, phase |-> "fresh",
               pending |-> FALSE]
Status == {IdleStatus} \cup
    [cook: Cooks, index: Indexes \cup {None}, stage: StagesAll,
     phase: {"fresh", "running", "over"}, pending: BOOLEAN]

\* CurrentCook: `key` is started_at, the state machine's at the start and the
\* store's from then on.
CurrentCook == [cook: Cooks, key: {"placeholder", "record"}]

Tracker == {t \in [cook: Cooks, key: {"pending", "placeholder", "record"}, index: Indexes,
                   ready: BOOLEAN, crossed: BOOLEAN, ran: BOOLEAN] :
              t.index <= Len(Stages[t.cook])}
Progress == [cook: Cooks, index: Indexes, ready: BOOLEAN]
ASSUME NoneIsNoRecord == None \notin Status \cup Tracker

CpTypeOK ==
    /\ follow \in BOOLEAN
    /\ tracker \in Tracker \cup {None}
    /\ progress \in Progress \cup {None}

CpInit == tracker = None /\ progress = None

-----------------------------------------------------------------------------

IsCooking(status) == status # None /\ status.cook # None
IsIdle(status) == status # None /\ status.cook = None
HasNext(t) == t.index < Len(Stages[t.cook])
Running(status) == status.stage.timed /\ status.phase = "running"

AdvanceTo(t, i) == [t EXCEPT !.index = i, !.ready = FALSE, !.crossed = FALSE, !.ran = FALSE]

\* infer_stage_index: the only stage that looks like the oven's, or else the
\* first of its kind.
InferStage(c, status) ==
    LET alike == {i \in 1..Len(Stages[c]) :
                    /\ Stages[c][i].kind = status.stage.kind
                    /\ Stages[c][i].look = status.stage.look}
        kin   == {i \in 1..Len(Stages[c]) : Stages[c][i].kind = status.stage.kind}
    IN IF Cardinality(alike) = 1 THEN CHOOSE i \in alike : TRUE
       ELSE IF kin = {} THEN 1
       ELSE CHOOSE i \in kin : \A j \in kin : i <= j

\* The oven's own index, unless it is none of this cook's.
ObservedStage(c, status) ==
    IF status.index \in 1..Len(Stages[c]) THEN status.index ELSE InferStage(c, status)

\* Mutant of FollowOven: an index past this cook's stages is taken.
FollowOvenUnchecked(t, status) ==
    LET at == IF status.index \notin {t.index, None} THEN AdvanceTo(t, status.index) ELSE t
    IN [at EXCEPT !.ready = status.pending /\ HasNext(at)]

\* Mutant of FollowOven: pending on the last stage counts as a wait.
FollowOvenAlways(t, status) ==
    LET at == IF status.index \in 1..Len(Stages[t.cook]) /\ status.index # t.index
                THEN AdvanceTo(t, status.index) ELSE t
    IN [at EXCEPT !.ready = status.pending]

\* follow_oven: pending on the last stage is the end of the cook, not a wait.
FollowOven(t, status) ==
    LET at == IF status.index \in 1..Len(Stages[t.cook]) /\ status.index # t.index
                THEN AdvanceTo(t, status.index) ELSE t
    IN [at EXCEPT !.ready = status.pending /\ HasNext(at)]

NewTracker(c, key, i) ==
    [cook |-> c, key |-> key, index |-> i, ready |-> FALSE, crossed |-> FALSE, ran |-> FALSE]

Shown(t) == IF t = None THEN None ELSE [cook |-> t.cook, index |-> t.index, ready |-> t.ready]

\* The tracker changes, and is published.
Publish(t) == tracker' = t /\ progress' = Shown(t)

\* The tracker changes what only it knows.
Note(t) == tracker' = t /\ UNCHANGED progress

-----------------------------------------------------------------------------
(* The handlers.                                                           *)

\* on_started_from_recipe, whatever the oven is doing.
OnStartedFromRecipe(c) == Publish(NewTracker(c, "pending", 1)) /\ UNCHANGED follow

\* A tracker for a cook it did not have; a status of None still builds one.
Rebuilt(cook, status) ==
    LET t == NewTracker(cook.cook, cook.key,
                        IF IsCooking(status) THEN ObservedStage(cook.cook, status) ELSE 1)
    IN IF follow /\ status # None THEN FollowOven(t, status) ELSE t

Refreshed(status) ==
    IF follow /\ status # None THEN FollowOven(tracker, status) ELSE tracker

Tracks(cook) == tracker # None /\ tracker.cook = cook.cook /\ tracker.key = cook.key

\* on_current_cook, with the latest status: an idle oven has no cook, whatever
\* the store says; the same cook keeps its stage; another one is inferred.
OnCurrentCook(cook, status) ==
    /\ CASE cook = None    -> Publish(None)
         [] cook # None /\ IsIdle(status) ->
              IF tracker # None THEN Publish(None) ELSE UNCHANGED <<tracker, progress>>
         [] cook # None /\ ~IsIdle(status) /\ Tracks(cook) -> Publish(Refreshed(status))
         [] OTHER          -> Publish(Rebuilt(cook, status))
    /\ UNCHANGED follow

\* The next stage has begun: its timer runs, or it needs nobody and is seen.
NextHasBegun(status) ==
    LET next == Stages[tracker.cook][tracker.index + 1]
        timerStarted == next.timed /\ Running(status)
    IN timerStarted
       \/ (~next.user /\ ObservedStage(tracker.cook, status) = tracker.index + 1)

\* The oven's temperature against the target of the tracker's stage.  Of the
\* stage the oven is at, the status says it; of another it could be anything.
Heat(status) ==
    IF tracker # None /\ IsCooking(status)
         /\ status.stage = Stages[tracker.cook][tracker.index]
         /\ ~status.stage.timed
      THEN {status.phase # "fresh"}
      ELSE BOOLEAN

\* What a status tells of the tracker's stage; a preheat crosses its target
\* and may fall below it again.
Evaluated(status, hot) ==
    [tracker EXCEPT !.ran = @ \/ Running(status),
                    !.crossed = IF Stages[tracker.cook][tracker.index].timed THEN @ ELSE hot]

\* Mutant of StageComplete: a timer parked before it ran counts as over.
StageCompleteParked(status, hot, held) ==
    IF Stages[tracker.cook][tracker.index].timed
      THEN status.stage.timed /\ ~Running(status)
      ELSE tracker.crossed /\ hot /\ held

\* evaluate_stage_completion.  A timer is over when it is parked after having
\* run; a preheat when it was held for PREHEAT_STABILITY_WINDOW.
StageComplete(status, hot, held) ==
    IF Stages[tracker.cook][tracker.index].timed
      THEN Evaluated(status, hot).ran /\ status.stage.timed /\ ~Running(status)
      ELSE tracker.crossed /\ hot /\ held

\* Cloud mode.  Nothing is announced of the last stage: the oven ends it.
InferProgress(status, hot, held) ==
    IF tracker.ready
      THEN IF HasNext(tracker) /\ NextHasBegun(status)
             THEN Publish(AdvanceTo(tracker, tracker.index + 1))
             ELSE UNCHANGED <<tracker, progress>>
      ELSE IF StageComplete(status, hot, held) /\ HasNext(tracker)
             THEN Publish([Evaluated(status, hot) EXCEPT !.ready = TRUE])
             ELSE Note(Evaluated(status, hot))

\* on_status.
OnStatus(status, hot, held) ==
    /\ UNCHANGED follow
    /\ CASE status = None \/ tracker = None -> UNCHANGED <<tracker, progress>>
         [] IsIdle(status) /\ tracker # None -> Publish(None)
         [] IsCooking(status) /\ tracker # None /\ follow ->
              LET t == FollowOven(tracker, status)
              IN IF t # tracker THEN Publish(t) ELSE UNCHANGED <<tracker, progress>>
         [] IsCooking(status) /\ tracker # None /\ ~follow ->
              InferProgress(status, hot, held)
=============================================================================
