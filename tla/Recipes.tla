------------------------------- MODULE Recipes -------------------------------
(***************************************************************************)
(* A recipe's stages on their way round: from what a client sets up        *)
(* (steps.js, mqtt/manual.rs), through the checks (local_store.rs), to the *)
(* oven (recipe.rs, protocol/stages.rs) and back into a cook that can be   *)
(* saved as a recipe (types.rs, protocol/stages.rs).                       *)
(*                                                                         *)
(* Temperatures are in tenths of a degree Celsius.  Titles, racks and vents *)
(* go along unchanged and are left out.                                    *)
(***************************************************************************)
EXTENDS Integers, Sequences, FiniteSets

CONSTANT None

Elements == {"top", "rear", "bottom"}
Maybe(S) == S \cup {None}

\* The three ways a stage is named: a UUID, with `ios-` before it, with
\* `-preheat` after it.
StageId == [of: Nat, ios: BOOLEAN, preheat: BOOLEAN]

\* `timed`, `probed`: timer_added, probe_added.  A prompt is blank, a note,
\* or longer than PROMPT_MAX_CHARS.
Stage ==
    [id: Maybe(StageId), kind: {"preheat", "cook"}, temp: Int, wet: BOOLEAN,
     duration: Maybe(Nat), timed: Maybe(BOOLEAN), probed: Maybe(BOOLEAN), target: Maybe(Int),
     steam: Nat, fan: Nat, waits: Maybe(BOOLEAN), elements: [Elements -> Maybe(BOOLEAN)],
     off: Maybe(BOOLEAN), prompt: Maybe({"blank", "note", "long"})]

Setpoints == [celsius: Int, fahrenheit: Int]

ASSUME NoneIsNothing ==
    None \notin Int \cup BOOLEAN \cup StageId \cup Setpoints \cup {"blank", "note", "long"}

EndsItself(stage) == stage.timed = TRUE \/ stage.probed = TRUE
On(stage) == {e \in Elements : stage.elements[e] = TRUE}

-----------------------------------------------------------------------------
(* Setpoints: whole degrees of both scales.                                *)

Rounded(a, b) == (2 * a + b) \div (2 * b)
Setpoint(temp) == [celsius |-> Rounded(temp, 10), fahrenheit |-> Rounded(18 * temp + 3200, 100)]

CelsiusOf(setpoint) == 10 * setpoint.celsius
FromSetpoint(setpoint) ==
    LET fine == Rounded(100 * (setpoint.fahrenheit - 32), 18)
    IN IF fine - CelsiusOf(setpoint) \in (-10)..10 THEN fine ELSE CelsiusOf(setpoint)

\* A temperature that is set to the same degrees when it has been read back.
Stable(temp) == Setpoint(FromSetpoint(Setpoint(temp))) = Setpoint(temp)

-----------------------------------------------------------------------------
(* What clients set up.                                                    *)

\* steps.js, toStages: a step is a cook stage, a preheat, or both, and then
\* the preheat shares the cook's settings.
Shared(step) ==
    IF None \in {step.preheat, step.cook} THEN step.preheat
    ELSE [step.preheat EXCEPT !.temp = step.cook.temp, !.wet = step.cook.wet,
              !.steam = step.cook.steam, !.fan = step.cook.fan, !.elements = step.cook.elements]
Tidied(stage) ==
    [stage EXCEPT
        !.duration = IF stage.timed = TRUE THEN @ ELSE None,
        !.target = IF stage.probed = TRUE THEN @ ELSE None,
        !.prompt = IF stage.waits = TRUE /\ @ \notin {None, "blank"} THEN @ ELSE None]
ToStages(steps) ==
    LET parts[i \in 0..Len(steps)] ==
            IF i = 0 THEN <<>>
            ELSE parts[i - 1] \o SelectSeq(<<Shared(steps[i]), steps[i].cook>>, LAMBDA s : s # None)
        stages == parts[Len(steps)]
    IN [i \in DOMAIN stages |->
          [Tidied(stages[i]) EXCEPT
              !.off = IF @ = TRUE /\ i = Len(stages) /\ EndsItself(stages[i]) THEN TRUE ELSE None]]

\* mqtt/manual.rs: the one step Home Assistant sets up field by field.
Draft ==
    [temp: 250..2500, wet: BOOLEAN, steam: 0..100,
     elements: {on \in SUBSET Elements : Cardinality(on) \in 1..2},
     preheat: {"none", "wait", "go"}, ends: {"timer", "probe", "user"},
     mins: 1..1440, target: 10..1000, off: BOOLEAN]

ManualStages(draft) ==
    LET timer == draft.ends = "timer"
        probe == draft.ends = "probe"
        cook == [id |-> None, kind |-> "cook", temp |-> draft.temp, wet |-> draft.wet,
                 duration |-> IF timer THEN 60 * draft.mins ELSE None, timed |-> timer,
                 probed |-> probe, target |-> IF probe THEN draft.target ELSE None,
                 steam |-> draft.steam, fan |-> 100, waits |-> draft.preheat = "wait",
                 elements |-> [e \in Elements |-> e \in draft.elements],
                 off |-> IF draft.off /\ (timer \/ probe) THEN TRUE ELSE None, prompt |-> None]
        preheat == [cook EXCEPT !.kind = "preheat", !.duration = None, !.timed = FALSE,
                                !.probed = FALSE, !.target = None, !.waits = FALSE, !.off = None]
    IN IF draft.preheat = "none" THEN <<cook>> ELSE <<preheat, cook>>

\* What stages of both are like: a cook stage ends on its timer if it has one,
\* else on its probe if it has a target, else by the user; every element is on
\* or off; temperatures go by whole degrees of the scale that is shown, which
\* are stable; and UUIDs tell stages apart.
Uuid(stages, i) == IF stages[i].id = None THEN i ELSE stages[i].id.of
ClientMade(stages) ==
    /\ stages \in Seq(Stage)
    /\ \A i \in DOMAIN stages :
         LET s == stages[i]
         IN /\ s.duration # 0
            /\ s.kind = "cook" => /\ s.timed = TRUE <=> s.duration # None
                                  /\ s.probed = TRUE <=> s.duration = None /\ s.target # None
            /\ s.elements \in [Elements -> BOOLEAN]
            /\ Stable(s.temp) /\ (s.target # None => Stable(s.target))
            /\ s.id # None => ~s.id.preheat
            /\ \A j \in DOMAIN stages : i # j => Uuid(stages, i) # Uuid(stages, j)

-----------------------------------------------------------------------------
(* normalize: what a recipe must satisfy, and what is put right.           *)

Trimmed(prompt) == IF prompt = "blank" THEN None ELSE prompt

Valid(stages) ==
    /\ stages # <<>>
    /\ \A i \in DOMAIN stages :
         LET s == stages[i]
         IN /\ s.temp \in 250..(IF s.wet THEN 1000 ELSE 2500)
            /\ s.steam <= 100 /\ s.fan <= 100
            /\ s.timed = TRUE => s.duration \notin {None, 0}
            /\ s.probed = TRUE => s.target # None
            /\ s.target # None => s.target \in 10..1000
            /\ ~(s.timed = TRUE /\ s.probed = TRUE)
            /\ s.kind = "preheat" => ~EndsItself(s)
            /\ s.off = TRUE => i = Len(stages) /\ EndsItself(s)
            /\ Trimmed(s.prompt) \in {None, "note"}
            /\ Trimmed(s.prompt) # None => s.waits = TRUE
            /\ Cardinality(On(s)) \in 1..2

\* Ids made here are told from those given by what they are numbered.
Normal(stages) ==
    [i \in DOMAIN stages |->
       [stages[i] EXCEPT
           !.off = IF @ = TRUE THEN TRUE ELSE None,
           !.prompt = Trimmed(@),
           !.fan = IF "rear" \in On(stages[i]) \/ stages[i].steam > 0 THEN 100 ELSE @,
           !.id = IF @ = None THEN [of |-> i, ios |-> TRUE, preheat |-> FALSE] ELSE @]]

-----------------------------------------------------------------------------
(* To the oven: start, start_stages_json.                                  *)

\* rewrite_preheat_stage_ids, then normalize_stage_id_for_ws.
OvenIds(stages) ==
    LET Id(i) ==
            IF /\ stages[i].kind = "preheat" /\ i < Len(stages)
               /\ stages[i + 1].kind # "preheat"
              THEN [stages[i + 1].id EXCEPT !.preheat = TRUE]
              ELSE stages[i].id
    IN [i \in DOMAIN stages |-> [stages[i] EXCEPT !.id = [Id(i) EXCEPT !.ios = TRUE]]]

\* A stage ends on its timer if it has one, else on its probe; the flags it
\* is sent with say the same, and the oven does not give them back.
SentStage(s) ==
    [id |-> s.id, kind |-> s.kind, waits |-> s.waits = TRUE, wet |-> s.wet,
     setpoint |-> Setpoint(s.temp), elements |-> [e \in Elements |-> s.elements[e] # FALSE],
     fan |-> s.fan, steam |-> s.steam, timer |-> s.duration,
     probe |-> IF s.duration = None /\ s.target # None THEN Setpoint(s.target) ELSE None]
Sent(stages) == [i \in DOMAIN stages |-> SentStage(stages[i])]

\* CookExtras::from_stages: what the oven does not keep.
Extras(stages) ==
    LET noted == {i \in DOMAIN stages : stages[i].prompt # None}
        Last(id) == CHOOSE i \in noted : stages[i].id = id /\ \A j \in noted : stages[j].id = id => j <= i
    IN [off |-> stages[Len(stages)].off = TRUE,
        prompts |-> [id \in {stages[i].id : i \in noted} |-> stages[Last(id)].prompt]]

\* control: the active stage's setpoint; the active stage's timer, or the
\* next one's while a preheat runs.
WithTemperature(raw, active, temp) == [raw EXCEPT ![active].setpoint = Setpoint(temp)]
TimerStage(raw, active) == IF raw[active].kind = "preheat" THEN active + 1 ELSE active
WithTimer(raw, active, secs) == [raw EXCEPT ![TimerStage(raw, active)].timer = secs]

-----------------------------------------------------------------------------
(* And back: stage_from_json, CookExtras::apply, restore_end_flags.        *)

StageFromJson(raw) ==
    [id |-> raw.id, kind |-> raw.kind, temp |-> FromSetpoint(raw.setpoint), wet |-> raw.wet,
     duration |-> raw.timer, timed |-> None, probed |-> None,
     target |-> IF raw.probe = None THEN None ELSE FromSetpoint(raw.probe),
     steam |-> raw.steam, fan |-> raw.fan, waits |-> raw.waits, elements |-> raw.elements,
     off |-> None, prompt |-> None]

PromptOf(extras, id) == IF id \in DOMAIN extras.prompts THEN extras.prompts[id] ELSE None
Applied(extras, stages) ==
    [i \in DOMAIN stages |->
       [stages[i] EXCEPT !.off = IF i = Len(stages) /\ extras.off THEN TRUE ELSE @,
                         !.prompt = PromptOf(extras, stages[i].id)]]

\* Mutant of RestoreEnd: a target counts although the stage has a timer.
RestoreEndBoth(stage) ==
    IF stage.kind = "preheat" \/ stage.timed # None \/ stage.probed # None THEN stage
    ELSE [stage EXCEPT !.timed = stage.duration \notin {None, 0}, !.probed = stage.target # None]

RestoreEnd(stage) ==
    IF stage.kind = "preheat" \/ stage.timed # None \/ stage.probed # None THEN stage
    ELSE LET timer == stage.duration \notin {None, 0}
         IN [stage EXCEPT !.timed = timer, !.probed = ~timer /\ stage.target # None]

\* handle_save_current_cook: fresh ids and the ends restored.
ToSave(stages) == [i \in DOMAIN stages |-> RestoreEnd([stages[i] EXCEPT !.id = None])]

-----------------------------------------------------------------------------
\* What a cook does, ids apart: how each stage heats, and how it ends.
Behavior(raw, extras) ==
    [i \in DOMAIN raw |->
       [stage |-> [raw[i] EXCEPT !.id = None, !.probe = IF raw[i].timer = None THEN @ ELSE None],
        prompt |-> PromptOf(extras, raw[i].id), off |-> extras.off /\ i = Len(raw)]]
=============================================================================
