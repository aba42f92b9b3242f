-------------------------------- MODULE Input --------------------------------
(***************************************************************************)
(* The panel's knob: pico/src/input.rs with pico-core's button.rs and      *)
(* encoder.rs.  Two tasks read pins that bounce, at times that the         *)
(* executor's other tasks delay, and put events in a channel that drops    *)
(* them when full.  Times are in units of the sampling interval.           *)
(***************************************************************************)
EXTENDS Integers, Sequences, SequencesExt

CONSTANTS
    PressTime,          \* PRESS_MS
    MaxStep,            \* MAX_STEP_MS
    MaxStall,           \* bound: the longest time between two samples
    PerDetent,          \* TRANSITIONS_PER_DETENT
    MaxSkip,            \* bound: quarter-turns of the shaft between two samples
    InputSize           \* capacity of InputChannel

ASSUME InputAssumption ==
    /\ {PressTime, MaxStep, MaxStall, PerDetent, MaxSkip, InputSize} \subseteq Nat \ {0}
    /\ 2 * MaxStep <= PressTime

VARIABLES
    low,        \* the button's line: contact
    button,     \* rot_enc_button_task: its Debouncer, while the line is sampled
    shaft,      \* the shaft's quarter-turn, and whether an edge was seen
    decoder,    \* rotary_encoder_task: its QuadratureDecoder
    events,     \* InputChannel
    seen        \* history: what was sampled and turned since the last event

inputVars == <<low, button, shaft, decoder, events, seen>>

Clip(n, bound) == IF n > bound THEN bound ELSE n
\* The samples of an excursion start afresh.
Afresh == [seen EXCEPT !.low = 0, !.high = 0, !.lows = 0, !.highs = 0]

InputTypeOK ==
    /\ low \in BOOLEAN
    /\ button \in [sampling: BOOLEAN, charge: 0..PressTime, pressed: BOOLEAN]
    /\ shaft \in [at: 0..3, moves: 0..MaxSkip]
    /\ decoder \in [prev: 0..3, accum: (1 - PerDetent)..(PerDetent - 1)]
    /\ events \in Seq({"EncoderCW", "EncoderCCW", "EncoderButton"})
    /\ Len(events) <= InputSize
    /\ seen \in [low: 0..PressTime, high: 0..PressTime, lows: 0..1, highs: 0..1,
                 cw: 0..PerDetent, ccw: 0..PerDetent]

\* try_send.
Emit(event) == events' = IF Len(events) < InputSize THEN Append(events, event) ELSE events

-----------------------------------------------------------------------------
(* The button.  One Debouncer per excursion of the line.                   *)

Bounces == low' = ~low /\ UNCHANGED <<button, shaft, decoder, events, seen>>

\* wait_for_low.
Arms ==
    /\ ~button.sampling /\ low
    /\ button' = [sampling |-> TRUE, charge |-> 0, pressed |-> FALSE]
    /\ seen' = Afresh
    /\ UNCHANGED <<low, shaft, decoder, events>>

\* Mutant of Step: a late sample counts in full.
StepUncapped(elapsed) == elapsed
Step(elapsed) == Clip(elapsed, MaxStep)

\* Mutant of Charged: no ceiling.
ChargedOn(elapsed) ==
    IF low THEN button.charge + Step(elapsed)
    ELSE IF button.charge > Step(elapsed) THEN button.charge - Step(elapsed) ELSE 0
Charged(elapsed) ==
    IF low THEN Clip(button.charge + Step(elapsed), PressTime)
    ELSE IF button.charge > Step(elapsed) THEN button.charge - Step(elapsed) ELSE 0

\* What the line read, in a row and since the last press or release.
Notes(elapsed, turned) ==
    LET step == Clip(elapsed, MaxStep)
    IN seen' = [seen EXCEPT
         !.low = IF low THEN Clip(@ + step, PressTime) ELSE 0,
         !.high = IF low THEN 0 ELSE Clip(@ + step, PressTime),
         !.lows = IF turned THEN 0 ELSE IF low THEN 1 ELSE @,
         !.highs = IF turned THEN 0 ELSE IF low THEN @ ELSE 1]

\* Debouncer::sample, and what the task does with the verdict.
Samples ==
    /\ button.sampling
    /\ \E elapsed \in 1..MaxStall :
         LET charge == Charged(elapsed)
             presses == ~button.pressed /\ charge >= PressTime
         IN /\ button' = [sampling |-> presses \/ charge > 0, charge |-> charge,
                          pressed |-> (button.pressed \/ presses) /\ charge > 0]
            /\ IF presses THEN Emit("EncoderButton") ELSE UNCHANGED events
            /\ Notes(elapsed, button'.pressed # button.pressed)
    /\ UNCHANGED <<low, shaft, decoder>>

-----------------------------------------------------------------------------
(* The encoder: positions 0..3 are the Gray codes 00, 10, 11, 01 of the    *)
(* pins, in clockwise order.                                               *)

Turns(by) ==
    /\ shaft.moves < MaxSkip
    /\ shaft' = [at |-> (shaft.at + by) % 4, moves |-> shaft.moves + 1]
    /\ seen' = IF by = 1 THEN [seen EXCEPT !.cw = Clip(@ + 1, PerDetent)]
               ELSE [seen EXCEPT !.ccw = Clip(@ + 1, PerDetent)]
    /\ UNCHANGED <<low, button, decoder, events>>

\* Mutant of Direction: a missed quarter-turn counts as one clockwise.
DirectionGuessed(prev, curr) ==
    CASE prev = curr -> 0 [] (prev + 3) % 4 = curr -> -1 [] OTHER -> 1

\* QEM: two quarter-turns at once are dropped.
Direction(prev, curr) ==
    CASE (prev + 1) % 4 = curr -> 1 [] (prev + 3) % 4 = curr -> -1 [] OTHER -> 0

\* QuadratureDecoder::update, on an edge of either pin.
Decodes ==
    /\ shaft.moves > 0
    /\ LET dir == Direction(decoder.prev, shaft.at)
           from == IF decoder.accum * dir < 0 THEN 0 ELSE decoder.accum
           accum == from + dir
           ticks == accum \in {PerDetent, 0 - PerDetent}
       IN /\ decoder' = [prev |-> shaft.at, accum |-> IF ticks THEN 0 ELSE accum]
          /\ IF ticks
               THEN /\ Emit(IF accum > 0 THEN "EncoderCW" ELSE "EncoderCCW")
                    /\ seen' = [seen EXCEPT !.cw = 0, !.ccw = 0]
               ELSE UNCHANGED <<events, seen>>
    /\ shaft' = [shaft EXCEPT !.moves = 0]
    /\ UNCHANGED <<low, button>>

-----------------------------------------------------------------------------

\* Input::recv, in the state task.
Receives ==
    /\ events # <<>> /\ events' = Tail(events)
    /\ UNCHANGED <<low, button, shaft, decoder, seen>>

InputInit ==
    /\ low = FALSE
    /\ button = [sampling |-> FALSE, charge |-> 0, pressed |-> FALSE]
    /\ shaft = [at |-> 0, moves |-> 0]
    /\ decoder = [prev |-> 0, accum |-> 0]
    /\ events = <<>>
    /\ seen = [low |-> 0, high |-> 0, lows |-> 0, highs |-> 0, cw |-> 0, ccw |-> 0]

InputNext == Bounces \/ Arms \/ Samples \/ Turns(1) \/ Turns(3) \/ Decodes \/ Receives

InputSpec == InputInit /\ [][InputNext]_inputVars

-----------------------------------------------------------------------------

(***************************************************************************)
(* A press, and a release after it, take two samples that say so, however  *)
(* late the samples are and however the line chatters in between: one bad  *)
(* sample cannot make a press, nor split one press into two.               *)
(***************************************************************************)
TwoSamplesEach ==
    [][/\ ~button.pressed /\ button'.pressed => low /\ seen.lows >= 1
       /\ button.pressed /\ ~button'.pressed => ~low /\ seen.highs >= 1]_inputVars

(***************************************************************************)
(* A line that reads low for PRESS_MS is a press whatever came before, and *)
(* one that reads high for as long is let go.  It is the samples' time     *)
(* that counts: a late one is worth MAX_STEP_MS, however late it is.       *)
(***************************************************************************)
HeldIsPressed ==
    /\ seen.low = PressTime => button.pressed
    /\ seen.high = PressTime => ~button.sampling

(***************************************************************************)
(* A tick in a direction takes a detent's quarter-turns that way since the *)
(* tick before, also when the shaft is turned to and fro, and faster than  *)
(* it is sampled.                                                          *)
(***************************************************************************)
TicksAreTurns ==
    [][seen.cw + seen.ccw > 0 /\ seen'.cw + seen'.ccw = 0 =>
         IF decoder.accum > 0 THEN seen.cw = PerDetent ELSE seen.ccw = PerDetent]_inputVars
=============================================================================
