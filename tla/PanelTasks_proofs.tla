-------------------------- MODULE PanelTasks_proofs --------------------------
(***************************************************************************)
(* What the panel's tasks promise: the knob, the display and the memory by *)
(* themselves, and then all as tasks of the panel, where a step of another *)
(* task leaves their state alone.                                          *)
(***************************************************************************)
EXTENDS PanelTasks, SequenceTheorems, TLAPS

-----------------------------------------------------------------------------
(***************************************************************************)
(* The knob.  For every interval, detent and delay:                        *)
(*                                                                         *)
(* The button's capacitor holds at least the time the line has just read   *)
(* low, and with the time it has just read high it holds no more than      *)
(* PRESS_MS; what it holds came from a sample since the last press or      *)
(* release (Debounced).  The decoder never counts further than the shaft   *)
(* was turned, as long as it misses one quarter-turn at most (Followed).   *)
(***************************************************************************)

DebouncedAt(charge, pressed, lowTime, highTime, lows, highs) ==
    /\ lowTime <= charge
    /\ charge = PressTime => pressed
    /\ highTime + charge <= PressTime
    /\ charge = 0 => highTime = 0
    /\ pressed => charge > 0
    /\ ~pressed /\ lows = 0 => charge = 0
    /\ pressed /\ highs = 0 => charge = PressTime
Debounced ==
    /\ ~button.sampling => button.charge = 0 /\ ~button.pressed /\ seen.low = 0
    /\ button.sampling =>
         DebouncedAt(button.charge, button.pressed, seen.low, seen.high, seen.lows, seen.highs)

\* The quarter-turns each way since the last tick cover what is counted, and
\* `n` that are not counted yet.
Cw(n) == seen.cw >= n /\ (decoder.accum > 0 => seen.cw >= decoder.accum + n)
Ccw(n) == seen.ccw >= n /\ (decoder.accum < 0 => seen.ccw >= n - decoder.accum)
Followed ==
    /\ Cw(0) /\ Ccw(0)
    /\ shaft.moves = 0 => shaft.at = decoder.prev
    /\ shaft.moves = 1 => \/ shaft.at = (decoder.prev + 1) % 4 /\ Cw(1)
                          \/ shaft.at = (decoder.prev + 3) % 4 /\ Ccw(1)
    /\ shaft.moves = 2 => shaft.at \in {decoder.prev, (decoder.prev + 2) % 4}

Buttons == [sampling: BOOLEAN, charge: 0..PressTime, pressed: BOOLEAN]
Events == {"EncoderCW", "EncoderCCW", "EncoderButton"}
Seen == [low: 0..PressTime, high: 0..PressTime, lows: 0..1, highs: 0..1,
         cw: 0..PerDetent, ccw: 0..PerDetent]

-----------------------------------------------------------------------------
(* Each task's step, and its types.                                        *)

LEMMA EmitKeeps ==
    ASSUME InputTypeOK, NEW event \in Events, Emit(event)
    PROVE  events' \in Seq(Events) /\ Len(events') <= InputSize
<1>1. events \in Seq(Events) /\ Len(events) <= InputSize /\ event \in Events
  BY DEF InputTypeOK, Emit, Events
<1>2. CASE Len(events) < InputSize
  <2>1. events' = Append(events, event)
    BY <1>2 DEF Emit
  <2>2. Append(events, event) \in Seq(Events) /\ Len(Append(events, event)) = Len(events) + 1
    BY <1>1, AppendProperties
  <2>3. Len(events) \in Nat /\ InputSize \in Nat
    BY <1>1, LenProperties, InputAssumption
  <2> QED BY <1>2, <2>1, <2>2, <2>3
<1>3. CASE ~(Len(events) < InputSize)
  BY <1>1, <1>3 DEF Emit
<1> QED BY <1>2, <1>3

\* A sample, as numbers.
LEMMA Sampled ==
    ASSUME InputTypeOK, Debounced, Samples
    PROVE  \E step \in 1..MaxStep :
             LET charge == IF low THEN Clip(button.charge + step, PressTime)
                           ELSE IF button.charge > step THEN button.charge - step ELSE 0
                 presses == ~button.pressed /\ charge >= PressTime
                 turned == button'.pressed # button.pressed
             IN /\ button.sampling
                /\ button' = [sampling |-> presses \/ charge > 0, charge |-> charge,
                              pressed |-> (button.pressed \/ presses) /\ charge > 0]
                /\ presses => Emit("EncoderButton")
                /\ ~presses => events' = events
                /\ seen' = [seen EXCEPT
                     !.low = IF low THEN Clip(@ + step, PressTime) ELSE 0,
                     !.high = IF low THEN 0 ELSE Clip(@ + step, PressTime),
                     !.lows = IF turned THEN 0 ELSE IF low THEN 1 ELSE @,
                     !.highs = IF turned THEN 0 ELSE IF low THEN @ ELSE 1]
                /\ UNCHANGED <<low, shaft, decoder>>
<1>1. PICK elapsed \in 1..MaxStall :
         LET charge == Charged(elapsed)
             presses == ~button.pressed /\ charge >= PressTime
         IN /\ button' = [sampling |-> presses \/ charge > 0, charge |-> charge,
                          pressed |-> (button.pressed \/ presses) /\ charge > 0]
            /\ IF presses THEN Emit("EncoderButton") ELSE UNCHANGED events
            /\ Notes(elapsed, button'.pressed # button.pressed)
  BY DEF Samples
<1> DEFINE step == Clip(elapsed, MaxStep)
<1>2. step \in 1..MaxStep
  BY InputAssumption DEF Clip
<1> HIDE DEF step
<1>3. Step(elapsed) = step
  BY DEF Step, step
<1>4. button.sampling /\ UNCHANGED <<low, shaft, decoder>>
  BY DEF Samples
<1> WITNESS step \in 1..MaxStep
<1> QED BY <1>1, <1>3, <1>4 DEF Charged, Notes, step

\* What a sample promises, from the capacitor's state before it.
LEMMA SamplesKeeps ==
    ASSUME InputTypeOK, Debounced, Samples
    PROVE  /\ InputTypeOK' /\ Debounced'
           /\ ~button.pressed /\ button'.pressed => low /\ seen.lows >= 1
           /\ button.pressed /\ ~button'.pressed => ~low /\ seen.highs >= 1
           /\ UNCHANGED <<shaft, decoder>> /\ seen'.cw = seen.cw /\ seen'.ccw = seen.ccw
<1> DEFINE charge(step) == IF low THEN Clip(button.charge + step, PressTime)
                           ELSE IF button.charge > step THEN button.charge - step ELSE 0
           presses(step) == ~button.pressed /\ charge(step) >= PressTime
           turned == button'.pressed # button.pressed
<1>1. PICK step \in 1..MaxStep :
        /\ button.sampling
        /\ button' = [sampling |-> presses(step) \/ charge(step) > 0, charge |-> charge(step),
                      pressed |-> (button.pressed \/ presses(step)) /\ charge(step) > 0]
        /\ presses(step) => Emit("EncoderButton")
        /\ ~presses(step) => events' = events
        /\ seen' = [seen EXCEPT
             !.low = IF low THEN Clip(@ + step, PressTime) ELSE 0,
             !.high = IF low THEN 0 ELSE Clip(@ + step, PressTime),
             !.lows = IF turned THEN 0 ELSE IF low THEN 1 ELSE @,
             !.highs = IF turned THEN 0 ELSE IF low THEN @ ELSE 1]
        /\ UNCHANGED <<low, shaft, decoder>>
  BY Sampled
<1>2. /\ PressTime \in Nat /\ MaxStep \in Nat /\ PressTime > 0 /\ 2 * MaxStep <= PressTime
      /\ step \in Nat /\ step > 0 /\ 2 * step <= PressTime
  BY InputAssumption
<1>3. button \in Buttons /\ seen \in Seen /\ low \in BOOLEAN
  BY DEF InputTypeOK, Buttons, Seen
<1> DEFINE c == charge(step)
<1>4. /\ low => c = IF button.charge + step > PressTime THEN PressTime ELSE button.charge + step
      /\ ~low => c = IF button.charge > step THEN button.charge - step ELSE 0
  BY DEF Clip
<1>5. c \in 0..PressTime
  BY <1>2, <1>3, <1>4 DEF Buttons
<1>6. /\ button'.sampling = (presses(step) \/ c > 0) /\ button'.charge = c
      /\ button'.pressed = ((button.pressed \/ presses(step)) /\ c > 0)
  BY <1>1
<1>7. /\ seen'.low = IF low THEN Clip(seen.low + step, PressTime) ELSE 0
      /\ seen'.high = IF low THEN 0 ELSE Clip(seen.high + step, PressTime)
      /\ seen'.lows = IF turned THEN 0 ELSE IF low THEN 1 ELSE seen.lows
      /\ seen'.highs = IF turned THEN 0 ELSE IF low THEN seen.highs ELSE 1
      /\ seen'.cw = seen.cw /\ seen'.ccw = seen.ccw
  BY <1>1, <1>3 DEF Seen
<1>8. InputTypeOK'
  <2>1. button' \in Buttons
    BY <1>1, <1>5 DEF Buttons
  <2>2. Clip(seen.low + step, PressTime) \in 0..PressTime /\ Clip(seen.high + step, PressTime) \in 0..PressTime
    BY <1>2, <1>3 DEF Clip, Seen
  <2>3. seen' \in Seen
    <3> DEFINE l == IF low THEN Clip(seen.low + step, PressTime) ELSE 0
               i == IF low THEN 0 ELSE Clip(seen.high + step, PressTime)
               m == IF turned THEN 0 ELSE IF low THEN 1 ELSE seen.lows
               n == IF turned THEN 0 ELSE IF low THEN seen.highs ELSE 1
    <3>1. l \in 0..PressTime /\ i \in 0..PressTime /\ m \in 0..1 /\ n \in 0..1
      BY <1>2, <1>3, <2>2 DEF Seen
    <3>2. seen' = [seen EXCEPT !.low = l, !.high = i, !.lows = m, !.highs = n]
      BY <1>1
    <3> HIDE DEF l, i, m, n
    <3> QED BY <1>3, <3>1, <3>2 DEF Seen
  <2>4. events' \in Seq(Events) /\ Len(events') <= InputSize
    BY <1>1, EmitKeeps DEF InputTypeOK, Events
  <2> QED BY <1>1, <2>1, <2>3, <2>4 DEF InputTypeOK, Buttons, Events, Seen
<1> HIDE DEF c
<1>9. presses(step) <=> ~button.pressed /\ c >= PressTime
  BY DEF c
<1> HIDE DEF presses, turned
<1>10. turned <=> button'.pressed # button.pressed
  BY DEF turned
<1>11. /\ button.charge \in Nat /\ button.pressed \in BOOLEAN
       /\ seen.low \in Nat /\ seen.high \in Nat /\ seen.lows \in 0..1 /\ seen.highs \in 0..1
       /\ button'.pressed \in BOOLEAN /\ c \in Nat
  BY <1>2, <1>3, <1>5, <1>6 DEF Buttons, Seen
<1>12. DebouncedAt(button.charge, button.pressed, seen.low, seen.high, seen.lows, seen.highs)
  BY <1>1, <1>3, <1>11 DEF Debounced, DebouncedAt
<1>13. button'.pressed <=> (button.pressed \/ c >= PressTime) /\ c > 0
  BY <1>6, <1>9
<1>14. button'.sampling <=> (~button.pressed /\ c >= PressTime) \/ c > 0
  BY <1>6, <1>9
<1> DEFINE p == button'.pressed
           l == seen'.low
           h == seen'.high
           ls == seen'.lows
           hs == seen'.highs
<1>15. /\ low => l = Clip(seen.low + step, PressTime) /\ h = 0
       /\ ~low => l = 0 /\ h = Clip(seen.high + step, PressTime)
       /\ ls = IF p # button.pressed THEN 0 ELSE IF low THEN 1 ELSE seen.lows
       /\ hs = IF p # button.pressed THEN 0 ELSE IF low THEN seen.highs ELSE 1
  BY <1>7, <1>10
<1>16. /\ button'.sampling => DebouncedAt(c, p, l, h, ls, hs)
       /\ ~button'.sampling => c = 0 /\ ~p /\ l = 0
       /\ ~button.pressed /\ p => low /\ seen.lows >= 1
       /\ button.pressed /\ ~p => ~low /\ seen.highs >= 1
  <2> HIDE DEF p, l, h, ls, hs
  <2>1. CASE low
    BY <1>2, <1>4, <1>11, <1>12, <1>13, <1>14, <1>15, <2>1 DEF DebouncedAt, Clip, p
  <2>2. CASE ~low
    BY <1>2, <1>4, <1>11, <1>12, <1>13, <1>14, <1>15, <2>2 DEF DebouncedAt, Clip, p
  <2> QED BY <1>3, <2>1, <2>2
<1>17. Debounced'
  BY <1>5, <1>6, <1>11, <1>14, <1>16 DEF Debounced, DebouncedAt
<1> QED BY <1>1, <1>7, <1>8, <1>16, <1>17

-----------------------------------------------------------------------------
(* The encoder.                                                            *)

LEMMA Quarters ==
    ASSUME NEW p \in 0..3
    PROVE  /\ (p + 1) % 4 = (IF p = 3 THEN 0 ELSE p + 1)
           /\ (p + 2) % 4 = (IF p >= 2 THEN p - 2 ELSE p + 2)
           /\ (p + 3) % 4 = (IF p = 0 THEN 3 ELSE p - 1)
<1>1. p = 0 \/ p = 1 \/ p = 2 \/ p = 3
  OBVIOUS
<1> QED BY <1>1

LEMMA TurnsKeeps ==
    ASSUME InputTypeOK, NEW by \in {1, 3}, Turns(by)
    PROVE  /\ InputTypeOK'
           /\ Debounced => Debounced'
           /\ MaxSkip <= 2 /\ Followed => Followed'
<1>1. /\ shaft.moves < MaxSkip
      /\ shaft' = [at |-> (shaft.at + by) % 4, moves |-> shaft.moves + 1]
      /\ seen' = IF by = 1 THEN [seen EXCEPT !.cw = Clip(@ + 1, PerDetent)]
                 ELSE [seen EXCEPT !.ccw = Clip(@ + 1, PerDetent)]
      /\ UNCHANGED <<low, button, decoder, events>>
  BY DEF Turns
<1>2. /\ shaft.at \in 0..3 /\ shaft.moves \in 0..MaxSkip /\ seen \in Seen
      /\ decoder.prev \in 0..3 /\ decoder.accum \in (1 - PerDetent)..(PerDetent - 1)
      /\ PerDetent \in Nat /\ PerDetent > 0 /\ MaxSkip \in Nat
  BY InputAssumption DEF InputTypeOK, Seen
<1>3. (shaft.at + by) % 4 \in 0..3
  BY <1>2, Quarters
<1>4. Clip(seen.cw + 1, PerDetent) \in 0..PerDetent /\ Clip(seen.ccw + 1, PerDetent) \in 0..PerDetent
  BY <1>2 DEF Clip, Seen
<1>5. InputTypeOK'
  <2>1. seen' \in Seen
    BY <1>1, <1>2, <1>4 DEF Seen
  <2>2. shaft' \in [at: 0..3, moves: 0..MaxSkip]
    BY <1>1, <1>2, <1>3
  <2> QED BY <1>1, <2>1, <2>2 DEF InputTypeOK, Seen
<1>6. Debounced => Debounced'
  BY <1>1, <1>2 DEF Debounced, DebouncedAt, Seen
<1>7. ASSUME MaxSkip <= 2, Followed PROVE Followed'
  <2>1. /\ shaft'.at = (shaft.at + by) % 4 /\ shaft'.moves = shaft.moves + 1
        /\ shaft.moves \in {0, 1} /\ decoder' = decoder
    BY <1>1, <1>2, <1>7
  <2>2. /\ by = 1 => seen'.cw = Clip(seen.cw + 1, PerDetent) /\ seen'.ccw = seen.ccw
        /\ by = 3 => seen'.ccw = Clip(seen.ccw + 1, PerDetent) /\ seen'.cw = seen.cw
    BY <1>1, <1>2 DEF Seen
  <2>3. (Cw(0) /\ Ccw(0))' /\ (by = 1 => Cw(1)') /\ (by = 3 => Ccw(1)')
    BY <1>2, <1>7, <2>1, <2>2 DEF Followed, Cw, Ccw, Clip, Seen
  <2>4. CASE shaft.moves = 0
    BY <1>2, <1>7, <2>1, <2>3, <2>4 DEF Followed
  <2>5. CASE shaft.moves = 1
    <3>1. shaft'.at \in {decoder'.prev, (decoder'.prev + 2) % 4}
      BY <1>2, <1>7, <2>1, <2>5, Quarters DEF Followed
    <3> QED BY <2>1, <2>3, <2>5, <3>1 DEF Followed
  <2> QED BY <2>1, <2>4, <2>5
<1> QED BY <1>5, <1>6, <1>7

LEMMA DecodesKeeps ==
    ASSUME InputTypeOK, Decodes
    PROVE  /\ InputTypeOK'
           /\ Debounced => Debounced'
           /\ MaxSkip <= 2 /\ Followed =>
                /\ Followed'
                /\ PerDetent > 1 /\ seen.cw + seen.ccw > 0 /\ seen'.cw + seen'.ccw = 0 =>
                     IF decoder.accum > 0 THEN seen.cw = PerDetent ELSE seen.ccw = PerDetent
<1> DEFINE dir == Direction(decoder.prev, shaft.at)
           from == IF decoder.accum * dir < 0 THEN 0 ELSE decoder.accum
           accum == from + dir
           ticks == accum \in {PerDetent, 0 - PerDetent}
<1>1. /\ shaft.moves > 0
      /\ decoder' = [prev |-> shaft.at, accum |-> IF ticks THEN 0 ELSE accum]
      /\ ticks => /\ Emit(IF accum > 0 THEN "EncoderCW" ELSE "EncoderCCW")
                  /\ seen' = [seen EXCEPT !.cw = 0, !.ccw = 0]
      /\ ~ticks => UNCHANGED <<events, seen>>
      /\ shaft' = [shaft EXCEPT !.moves = 0]
      /\ UNCHANGED <<low, button>>
  BY DEF Decodes
<1>2. /\ shaft \in [at: 0..3, moves: 0..MaxSkip] /\ seen \in Seen
      /\ decoder.prev \in 0..3 /\ decoder.accum \in (1 - PerDetent)..(PerDetent - 1)
      /\ PerDetent \in Nat /\ PerDetent > 0 /\ MaxSkip \in Nat
  BY InputAssumption DEF InputTypeOK, Seen
<1>3. dir \in {-1, 0, 1}
  BY DEF Direction
<1> HIDE DEF dir
<1>4. /\ dir = 0 => accum = decoder.accum
      /\ dir = 1 => accum = (IF decoder.accum < 0 THEN 0 ELSE decoder.accum) + 1
      /\ dir = -1 => accum = (IF decoder.accum > 0 THEN 0 ELSE decoder.accum) - 1
  BY <1>2, <1>3
<1> HIDE DEF accum
<1>5. /\ accum \in (0 - PerDetent)..PerDetent
      /\ ~ticks => accum \in (1 - PerDetent)..(PerDetent - 1)
  BY <1>2, <1>3, <1>4
<1> HIDE DEF ticks
<1>6. InputTypeOK'
  <2>1. decoder' \in [prev: 0..3, accum: (1 - PerDetent)..(PerDetent - 1)]
    BY <1>1, <1>2, <1>5
  <2>2. shaft' \in [at: 0..3, moves: 0..MaxSkip]
    BY <1>1, <1>2
  <2>3. seen' \in Seen
    <3>1. CASE ticks
      <4>1. 0 \in 0..PerDetent
        BY <1>2
      <4> QED BY <1>1, <1>2, <3>1, <4>1 DEF Seen
    <3>2. CASE ~ticks
      BY <1>1, <1>2, <3>2
    <3> QED BY <3>1, <3>2
  <2>4. events' \in Seq(Events) /\ Len(events') <= InputSize
    BY <1>1, EmitKeeps DEF InputTypeOK, Events
  <2> QED BY <1>1, <2>1, <2>2, <2>3, <2>4 DEF InputTypeOK, Events, Seen
<1>7. Debounced => Debounced'
  BY <1>1, <1>2 DEF Debounced, DebouncedAt, Seen
<1>8. ASSUME MaxSkip <= 2, Followed
      PROVE  /\ Followed'
             /\ PerDetent > 1 /\ seen.cw + seen.ccw > 0 /\ seen'.cw + seen'.ccw = 0 =>
                  IF decoder.accum > 0 THEN seen.cw = PerDetent ELSE seen.ccw = PerDetent
  <2>1. /\ shaft'.at = shaft.at /\ shaft'.moves = 0 /\ decoder'.prev = shaft.at
        /\ decoder'.accum = IF ticks THEN 0 ELSE accum
    BY <1>1, <1>2
  <2>2. /\ ticks => seen'.cw = 0 /\ seen'.ccw = 0
        /\ ~ticks => seen'.cw = seen.cw /\ seen'.ccw = seen.ccw
    BY <1>1, <1>2 DEF Seen
  <2>3. /\ dir = 1 => shaft.moves = 1 /\ Cw(1)
        /\ dir = -1 => shaft.moves = 1 /\ Ccw(1)
    <3>1. shaft.moves \in {1, 2}
      BY <1>1, <1>2, <1>8
    <3> QED BY <1>2, <1>8, <3>1, Quarters DEF Followed, Direction, dir
  <2>4. /\ accum > 0 => seen.cw >= accum
        /\ accum < 0 => seen.ccw >= 0 - accum
    BY <1>2, <1>3, <1>4, <1>8, <2>3 DEF Followed, Cw, Ccw, Seen
  <2>5. Followed'
    BY <1>2, <1>5, <2>1, <2>2, <2>4 DEF Followed, Cw, Ccw, Seen
  <2>6. ASSUME PerDetent > 1, ticks
        PROVE  IF decoder.accum > 0 THEN seen.cw = PerDetent ELSE seen.ccw = PerDetent
    <3>1. accum = PerDetent \/ accum = 0 - PerDetent
      BY <2>6 DEF ticks
    <3> QED BY <1>2, <1>3, <1>4, <2>4, <2>6, <3>1 DEF Seen
  <2> QED BY <1>2, <2>2, <2>5, <2>6 DEF Seen
<1> QED BY <1>6, <1>7, <1>8

-----------------------------------------------------------------------------
LEMMA InputStart == ASSUME InputInit PROVE InputTypeOK /\ Debounced /\ Followed
<1>1. {PressTime, PerDetent, MaxSkip, InputSize} \subseteq Nat \ {0}
  BY InputAssumption
<1>2. InputTypeOK
  <2>1. /\ button \in Buttons /\ seen \in Seen
        /\ shaft \in [at: 0..3, moves: 0..MaxSkip]
    BY <1>1 DEF InputInit, Buttons, Seen
  <2>2. decoder \in [prev: 0..3, accum: (1 - PerDetent)..(PerDetent - 1)]
    BY <1>1 DEF InputInit
  <2>3. events \in Seq(Events) /\ Len(events) <= InputSize
    BY <1>1 DEF InputInit
  <2> QED BY <2>1, <2>2, <2>3 DEF InputInit, InputTypeOK, Buttons, Seen, Events
<1>3. Debounced
  BY <1>1 DEF InputInit, Debounced, DebouncedAt
<1>4. Followed
  BY <1>1 DEF InputInit, Followed, Cw, Ccw
<1> QED BY <1>2, <1>3, <1>4

\* The steps of neither of the pins' tasks.
LEMMA OthersKeep ==
    ASSUME InputTypeOK, Debounced, Bounces \/ Arms \/ Receives \/ UNCHANGED inputVars
    PROVE  /\ InputTypeOK' /\ Debounced' /\ (Followed => Followed')
           /\ button'.pressed = button.pressed
           /\ seen'.cw = seen.cw /\ seen'.ccw = seen.ccw
<1>1. PressTime \in Nat /\ seen \in Seen
  BY InputAssumption DEF InputTypeOK, Seen
<1>2. CASE Bounces \/ Receives \/ UNCHANGED inputVars
  <2>1. UNCHANGED <<button, shaft, decoder, seen>> /\ low' \in BOOLEAN
    BY <1>2 DEF Bounces, Receives, inputVars, InputTypeOK
  <2>2. events' \in Seq(Events) /\ Len(events') <= InputSize
    <3>1. events \in Seq(Events) /\ Len(events) <= InputSize /\ InputSize \in Nat
      BY InputAssumption DEF InputTypeOK, Events
    <3>2. CASE events' = events
      BY <3>1, <3>2
    <3>3. CASE events # <<>> /\ events' = Tail(events)
      BY <3>1, <3>3
    <3> QED BY <1>2, <3>2, <3>3 DEF Bounces, Receives, inputVars
  <2> QED BY <2>1, <2>2 DEF InputTypeOK, Events, Debounced, DebouncedAt, Followed, Cw, Ccw
<1>3. CASE Arms
  <2>1. /\ ~button.sampling /\ UNCHANGED <<low, shaft, decoder, events>>
        /\ button' = [sampling |-> TRUE, charge |-> 0, pressed |-> FALSE]
        /\ seen' = [seen EXCEPT !.low = 0, !.high = 0, !.lows = 0, !.highs = 0]
    BY <1>3 DEF Arms, Afresh
  <2>2. /\ seen'.cw = seen.cw /\ seen'.ccw = seen.ccw
        /\ seen'.low = 0 /\ seen'.high = 0
    BY <1>1, <2>1 DEF Seen
  <2>3. seen' \in Seen /\ button' \in Buttons
    <3>1. 0 \in 0..PressTime /\ 0 \in 0..1
      BY <1>1
    <3> QED BY <1>1, <2>1, <3>1 DEF Seen, Buttons
  <2>4. InputTypeOK'
    BY <2>1, <2>3 DEF InputTypeOK, Seen, Buttons
  <2>5. PressTime > 0 /\ ~button.pressed
    BY <2>1, InputAssumption DEF Debounced, DebouncedAt
  <2>6. button'.sampling /\ button'.charge = 0 /\ ~button'.pressed
    BY <2>1
  <2>7. Debounced'
    BY <1>1, <2>2, <2>3, <2>5, <2>6 DEF Debounced, DebouncedAt, Buttons, Seen
  <2>8. button'.pressed = button.pressed
    BY <2>3, <2>5, <2>6 DEF InputTypeOK, Buttons
  <2> QED BY <2>1, <2>2, <2>4, <2>7, <2>8 DEF Followed, Cw, Ccw
<1> QED BY <1>2, <1>3

LEMMA InputStep ==
    ASSUME InputTypeOK, Debounced, [InputNext]_inputVars
    PROVE  InputTypeOK' /\ Debounced' /\ (MaxSkip <= 2 /\ Followed => Followed')
<1>1. CASE Samples
  BY <1>1, SamplesKeeps DEF Followed, Cw, Ccw
<1> QED BY <1>1, OthersKeep, TurnsKeeps, DecodesKeeps DEF InputNext

(***************************************************************************)
(* The Debouncer's charge stays in its range, the decoder's count below a  *)
(* detent, and the channel within its capacity.                            *)
(***************************************************************************)
THEOREM KnobTypes == InputSpec => [](InputTypeOK /\ Debounced)
<1>1. InputInit => InputTypeOK /\ Debounced
  BY InputStart
<1>2. InputTypeOK /\ Debounced /\ [InputNext]_inputVars => (InputTypeOK /\ Debounced)'
  BY InputStep
<1> QED BY <1>1, <1>2, PTL DEF InputSpec

(***************************************************************************)
(* A line that reads low for PRESS_MS, sampled however late, is a press,   *)
(* and one that reads high for as long is let go (Debouncer::sample).      *)
(***************************************************************************)
THEOREM HeldPresses == InputSpec => []HeldIsPressed
<1>1. InputTypeOK /\ Debounced => HeldIsPressed
  BY InputAssumption DEF InputTypeOK, Debounced, DebouncedAt, HeldIsPressed
<1> QED BY <1>1, KnobTypes, PTL

(***************************************************************************)
(* No press and no release hangs on one sample (MAX_STEP_MS).              *)
(***************************************************************************)
THEOREM NoGlitch == InputSpec => TwoSamplesEach
<1>1. InputTypeOK /\ Debounced /\ [InputNext]_inputVars =>
        [/\ ~button.pressed /\ button'.pressed => low /\ seen.lows >= 1
         /\ button.pressed /\ ~button'.pressed => ~low /\ seen.highs >= 1]_inputVars
  <2> SUFFICES ASSUME InputTypeOK, Debounced, [InputNext]_inputVars
               PROVE  /\ ~button.pressed /\ button'.pressed => low /\ seen.lows >= 1
                      /\ button.pressed /\ ~button'.pressed => ~low /\ seen.highs >= 1
    OBVIOUS
  <2>1. CASE Samples
    BY <2>1, SamplesKeeps
  <2>2. CASE Turns(1) \/ Turns(3) \/ Decodes
    BY <2>2 DEF Turns, Decodes
  <2> QED BY <2>1, <2>2, OthersKeep DEF InputNext
<1> QED BY <1>1, KnobTypes, PTL DEF InputSpec, TwoSamplesEach

(***************************************************************************)
(* A tick is a detent's quarter-turns in its direction, for detents of any *)
(* length, as long as no more than two quarter-turns fall between reads:   *)
(* a third one looks like one back, to any decoder of two pins.            *)
(***************************************************************************)
THEOREM TicksCount == ASSUME MaxSkip <= 2, PerDetent > 1 PROVE InputSpec => TicksAreTurns
<1> DEFINE IInv == InputTypeOK /\ Debounced /\ Followed
<1>1. InputInit => IInv
  BY InputStart
<1>2. IInv /\ [InputNext]_inputVars => IInv'
  BY InputStep
<1>3. IInv /\ [InputNext]_inputVars =>
        [seen.cw + seen.ccw > 0 /\ seen'.cw + seen'.ccw = 0 =>
           IF decoder.accum > 0 THEN seen.cw = PerDetent ELSE seen.ccw = PerDetent]_inputVars
  <2> SUFFICES ASSUME IInv, [InputNext]_inputVars,
                      seen.cw + seen.ccw > 0, seen'.cw + seen'.ccw = 0
               PROVE  IF decoder.accum > 0 THEN seen.cw = PerDetent ELSE seen.ccw = PerDetent
    OBVIOUS
  <2>1. CASE Turns(1) \/ Turns(3)
    <3>1. seen \in Seen /\ PerDetent \in Nat /\ PerDetent > 0
      BY InputAssumption DEF InputTypeOK, Seen
    <3>2. seen'.cw + seen'.ccw > 0
      BY <2>1, <3>1 DEF Turns, Clip, Seen
    <3> QED BY <3>2
  <2>2. CASE Decodes
    BY <2>2, DecodesKeeps
  <2>3. CASE Samples
    BY <2>3, SamplesKeeps
  <2> QED BY <2>1, <2>2, <2>3, OthersKeep DEF InputNext
<1> HIDE DEF IInv
<1> QED BY <1>1, <1>2, <1>3, PTL DEF InputSpec, TicksAreTurns

-----------------------------------------------------------------------------
(***************************************************************************)
(* The display.  For every view, text, width, speed and delay, the LCD     *)
(* shows what its rows' animations are at.                                 *)
(*                                                                         *)
(* The argument: the glass has the cells that RowState holds to be sent    *)
(* (Sent), and those are the window of the animation the row has, if it    *)
(* has one: a step that leaves a row's cells out does so only if its text  *)
(* and its offset stay (Shows).                                            *)
(***************************************************************************)

IsAnim(x) == {"text", "offset"} \subseteq DOMAIN x
IsRow(row) == {"anim", "last"} \subseteq DOMAIN row
IsAnimator(a) == {"row0", "row1", "slot"} \subseteq DOMAIN a

Cells(f) == f = [c \in Columns |-> f[c]]

\* What was sent is on the glass.
Sent(row, shown) ==
    /\ IsRow(row) /\ Cells(shown)
    /\ row.last # None => row.last = <<shown>>

\* What is sent is the animation's window.
Shows(row) ==
    row.anim # None =>
        \E x : /\ IsAnim(x) /\ row.anim = <<x>>
               /\ row.last = <<Padded(x.text, x.offset)>>

IInv ==
    /\ IsAnimator(animator)
    /\ DOMAIN glass = Rows
    /\ \A row \in Rows : Sent(animator[row], glass[row]) /\ Shows(animator[row])

-----------------------------------------------------------------------------
LEMMA SomeIsNotNone == \A x : <<x>> # None /\ <<x>>[1] = x
  BY DEF None

LEMMA MovedKeeps == ASSUME NEW x, IsAnim(x) PROVE IsAnim(Moved(x)) /\ Moved(x).text = x.text
<1>1. IsAnim(Held(x)) /\ Held(x).text = x.text
  BY DEF Held, IsAnim
<1>2. IsAnim(Jumped(x)) /\ Jumped(x).text = x.text
  BY DEF Jumped, IsAnim
<1>3. IsAnim(Wrapped(x)) /\ Wrapped(x).text = x.text
  BY DEF Wrapped, IsAnim
<1> QED BY <1>1, <1>2, <1>3 DEF Moved

\* RowState::advance: a row that showed its animation does so again.
LEMMA AdvancedShows ==
    ASSUME NEW row, NEW text, IsRow(row), Shows(row)
    PROVE  LET next == Advanced(row, text)
           IN /\ IsRow(next) /\ Shows(next) /\ next.anim # None
              /\ \E cells : next.last = <<cells>> /\ Cells(cells)
<1> DEFINE anim == Moved(Animated(row, text))
           next == Advanced(row, text)
<1>1. IsAnim(Animated(row, text)) /\ Animated(row, text).text = text
  <2>1. CASE SameText(row, text)
    BY <2>1, SomeIsNotNone DEF SameText, Animated, Shows
  <2>2. CASE ~SameText(row, text)
    <3>1. Animated(row, text) = NewAnim(text)
      BY <2>2 DEF SameText, Animated
    <3>2. IsAnim(NewAnim(text)) /\ NewAnim(text).text = text
      BY DEF NewAnim, IsAnim
    <3> QED BY <3>1, <3>2
  <2> QED BY <2>1, <2>2
<1>2. IsAnim(anim) /\ anim.text = text
  BY <1>1, MovedKeeps
<1>3. \A x, offset : Cells(Padded(x, offset))
  BY DEF Cells, Padded
<1>4. CASE Skips(row, text)
  <2>1. next = [anim |-> <<anim>>, last |-> row.last]
    BY <1>4 DEF Advanced
  <2>2. anim = Animated(row, text)
    BY <1>1, <1>4 DEF Skips, Moved
  <2>3. row.anim # None /\ row.anim[1].text = text /\ anim = row.anim[1]
    BY <1>4, <2>2 DEF Skips, SameText, Animated
  <2>4. row.last = <<Padded(anim.text, anim.offset)>>
    BY <2>3, SomeIsNotNone DEF Shows
  <2> HIDE DEF anim, next
  <2>5. IsRow(next) /\ next.anim = <<anim>> /\ next.last = <<Padded(anim.text, anim.offset)>>
    BY <2>1, <2>4 DEF IsRow
  <2> QED BY <1>2, <1>3, <2>5, SomeIsNotNone DEF Shows, next
<1>5. CASE ~Skips(row, text)
  <2>1. next = [anim |-> <<anim>>, last |-> <<Padded(text, anim.offset)>>]
    BY <1>5 DEF Advanced
  <2> HIDE DEF anim, next
  <2>2. IsRow(next) /\ next.anim = <<anim>> /\ next.last = <<Padded(anim.text, anim.offset)>>
    BY <1>2, <2>1 DEF IsRow
  <2> QED BY <1>2, <1>3, <2>2, SomeIsNotNone DEF Shows, next
<1> QED BY <1>4, <1>5

\* write_frame: what is left out is on the glass already.
LEMMA GlassFollows ==
    ASSUME NEW row \in Rows, NEW before, NEW after, Sent(before, glass[row]),
           NEW cells, after.last = <<cells>>, Cells(cells)
    PROVE  Written(row, before, after) = cells
<1>1. \A c \in Columns : c \notin Changed(before, after) => glass[row][c] = cells[c]
  BY SomeIsNotNone DEF Sent, Changed
<1>2. \A c \in Columns : after.last[1][c] = cells[c]
  BY SomeIsNotNone
<1>3. Written(row, before, after) = [c \in Columns |-> cells[c]]
  BY <1>1, <1>2 DEF Written
<1> QED BY <1>3 DEF Cells

\* Time passes, and a slot's turn ends: what was sent stays sent.
LEMMA RestsShow ==
    ASSUME NEW row, NEW d, IsRow(row), Shows(row)
    PROVE  LET old == RowElapse(row, d)
           IN /\ IsRow(old) /\ Shows(old)
              /\ IsRow(Restarted(old)) /\ Shows(Restarted(old))
<1> DEFINE old == RowElapse(row, d)
<1>1. /\ old.last = row.last
      /\ old.anim = IF row.anim = None THEN None ELSE <<Elapse(row.anim[1], d)>>
  BY DEF RowElapse, IsRow
<1>2. IsRow(old)
  BY DEF IsRow, RowElapse
<1> HIDE DEF old
<1>3. IsRow(Restarted(old)) /\ Restarted(old).anim = None
  BY <1>2 DEF IsRow, Restarted
<1>4. Shows(old)
  <2>1. CASE row.anim = None
    BY <1>1, <2>1 DEF Shows
  <2>2. CASE row.anim # None
    <3>1. PICK x : IsAnim(x) /\ row.anim = <<x>> /\ row.last = <<Padded(x.text, x.offset)>>
      BY <2>2 DEF Shows
    <3>2. IsAnim(Elapse(x, d)) /\ Elapse(x, d).text = x.text /\ Elapse(x, d).offset = x.offset
      BY <3>1 DEF IsAnim, Elapse
    <3>3. old.anim = <<Elapse(x, d)>>
      BY <1>1, <2>2, <3>1, SomeIsNotNone
    <3> QED BY <1>1, <3>1, <3>2, <3>3 DEF Shows
  <2> QED BY <2>1, <2>2
<1> QED BY <1>2, <1>3, <1>4 DEF Shows, old

-----------------------------------------------------------------------------
LEMMA RowStep ==
    ASSUME NEW row \in Rows, NEW text, NEW before, NEW old, NEW after,
           Sent(before, glass[row]), IsRow(old), Shows(old),
           after = Advanced(old, text)
    PROVE  Sent(after, Written(row, before, after)) /\ Shows(after)
<1>1. PICK cells : after.last = <<cells>> /\ Cells(cells)
  BY AdvancedShows
<1>2. Written(row, before, after) = cells
  BY <1>1, GlassFollows
<1>3. IsRow(after) /\ Shows(after)
  BY AdvancedShows
<1> HIDE DEF Cells
<1> QED BY <1>1, <1>2, <1>3 DEF Sent

LEMMA RenderKeeps ==
    ASSUME IInv, NEW view, NEW fetched, NEW d, Render(view, fetched, d)
    PROVE  IInv'
<1> DEFINE plan == Plan(view, fetched)
           a == [animator EXCEPT !.row0 = RowElapse(@, d), !.row1 = RowElapse(@, d)]
           b == Chosen(a, plan.slots)
<1>1. /\ IsAnimator(animator)
      /\ \A row \in Rows : Sent(animator[row], glass[row]) /\ Shows(animator[row])
      /\ \A row \in Rows : IsRow(animator[row])
  BY DEF IInv, Sent
<1>2. /\ IsAnimator(a)
      /\ a.row0 = RowElapse(animator.row0, d) /\ a.row1 = RowElapse(animator.row1, d)
  BY <1>1 DEF IsAnimator
<1>3. /\ animator' = [b EXCEPT !.row0 = Advanced(@, plan.row0),
                              !.row1 = Advanced(@, plan.slots[b.slot])]
      /\ glass' = [row \in Rows |-> Written(row, animator[row], animator'[row])]
  BY DEF Render, Ticked
<1> HIDE DEF a, plan
<1>4. /\ IsAnimator(b) /\ b.row0 = a.row0
      /\ b.row1 = a.row1 \/ b.row1 = Restarted(a.row1)
  BY <1>2 DEF Chosen, IsAnimator
<1> HIDE DEF b
<1>5. /\ IsAnimator(animator')
      /\ animator'.row0 = Advanced(b.row0, plan.row0)
      /\ animator'.row1 = Advanced(b.row1, plan.slots[b.slot])
  BY <1>3, <1>4 DEF IsAnimator
<1>6. IsRow(b.row0) /\ Shows(b.row0) /\ IsRow(b.row1) /\ Shows(b.row1)
  BY <1>1, <1>2, <1>4, RestsShow DEF Rows
<1>7. \A row \in Rows : Sent(animator'[row], glass'[row]) /\ Shows(animator'[row])
  <2>1. \A row \in Rows : glass'[row] = Written(row, animator[row], animator'[row])
    BY <1>3
  <2>2. Sent(animator'["row0"], glass'["row0"]) /\ Shows(animator'["row0"])
    BY <1>1, <1>5, <1>6, <2>1, RowStep DEF Rows
  <2>3. Sent(animator'["row1"], glass'["row1"]) /\ Shows(animator'["row1"])
    BY <1>1, <1>5, <1>6, <2>1, RowStep DEF Rows
  <2> QED BY <2>2, <2>3 DEF Rows
<1>8. \A row \in Rows : (Sent(animator[row], glass[row]) /\ Shows(animator[row]))'
  BY <1>7 DEF Sent, Shows
<1> QED BY <1>3, <1>5, <1>8 DEF IInv, IsAnimator

LEMMA ScreenStart == ASSUME ScreenInit PROVE IInv
<1>1. \A row \in Rows : animator[row] = [anim |-> None, last |-> None]
  BY DEF ScreenInit, Animator, Rows
<1>2. \A row \in Rows : IsRow(animator[row]) /\ animator[row].anim = None /\ animator[row].last = None
  BY <1>1 DEF IsRow
<1>3. DOMAIN glass = Rows /\ \A row \in Rows : glass[row] = [c \in Columns |-> Blank]
  BY DEF ScreenInit
<1>4. IsAnimator(animator)
  BY DEF ScreenInit, Animator, IsAnimator
<1> QED BY <1>2, <1>3, <1>4 DEF IInv, Sent, Shows, Cells

(***************************************************************************)
(* The cells that changed_spans and RowState::advance leave out are on the *)
(* LCD already, whatever texts, ticks and views came before.               *)
(***************************************************************************)
THEOREM GlassIsCurrent == ScreenSpec => []GlassShows
<1>1. ScreenInit => IInv
  BY ScreenStart
<1>2. IInv /\ [ScreenNext]_screenVars => IInv'
  <2>1. CASE ScreenNext
    BY <2>1, RenderKeeps DEF ScreenNext, ShowsView, SetsBacklight, Ticks
  <2>2. CASE UNCHANGED screenVars
    BY <2>2 DEF screenVars, IInv, Sent, Shows
  <2> QED BY <2>1, <2>2
<1>3. IInv => GlassShows
  <2> SUFFICES ASSUME IInv, NEW row \in Rows, NEW i \in DOMAIN animator[row].anim
               PROVE  glass[row] = Padded(animator[row].anim[i].text, animator[row].anim[i].offset)
    BY DEF GlassShows
  <2>1. Sent(animator[row], glass[row]) /\ Shows(animator[row])
    BY DEF IInv
  <2>2. animator[row].anim # None
    BY DEF None
  <2>3. PICK x : animator[row].anim = <<x>> /\ animator[row].last = <<Padded(x.text, x.offset)>>
    BY <2>1, <2>2 DEF Shows
  <2>4. i = 1 /\ animator[row].anim[i] = x
    BY <2>3
  <2>5. animator[row].last = <<glass[row]>>
    BY <2>1, <2>3, SomeIsNotNone DEF Sent
  <2> QED BY <2>3, <2>4, <2>5, SomeIsNotNone
<1> QED BY <1>1, <1>2, <1>3, PTL DEF ScreenSpec

-----------------------------------------------------------------------------
(***************************************************************************)
(* Whose turn it is on the bottom row, and what of its text was seen.      *)
(*                                                                         *)
(* The argument: what has been seen of a marquee is a prefix of it, all of *)
(* it up to the end of the window: a jump leaves out no cell, so that the  *)
(* tail is seen last.  A text that fits is seen at once, and the reader    *)
(* has it for as long as it is shown.  The animation and the reading start *)
(* anew together: a slot that ends its turn is another one than the next.  *)
(***************************************************************************)

Reach(text) == IF Fits(text) THEN 0 ELSE Overflow(text)

AnimOK(x) ==
    /\ {"text", "offset", "stepped", "pause", "shown", "complete"} \subseteq DOMAIN x
    /\ IsSeq(x.text)
    /\ x.offset \in 0..Reach(x.text)
    /\ x.stepped \in 0..ScrollStep /\ x.pause \in 0..EndPause
    /\ x.shown \in 0..MinSlotHold /\ x.complete \in BOOLEAN

RowOK(row) == IsRow(row) /\ (row.anim # None => row.anim = <<row.anim[1]>> /\ AnimOK(row.anim[1]))

\* What was `seen` of the text of an animation, and for how long it is up.
Had(x, seen_, time) ==
    /\ seen_ \subseteq DOMAIN x.text
    /\ Fits(x.text) => /\ seen_ = DOMAIN x.text /\ x.shown <= time
                       /\ x.complete => time >= MinSlotHold
    /\ ~Fits(x.text) => /\ 1..(x.offset + Width) \subseteq seen_
                        /\ x.complete => seen_ = DOMAIN x.text

InView(x) == {c \in DOMAIN x.text : c - x.offset \in Columns}

Turned ==
    /\ IsAnimator(animator)
    /\ current \in Views \cup {Connecting} /\ age \in 0..MaxAge
    /\ reader.text \in 0..MinSlotHold
    /\ animator.slot \in Nat \ {0}
    /\ \A row \in Rows : RowOK(animator[row])
    /\ animator.row1.anim # None =>
         /\ animator.slot \in DOMAIN Slots /\ Bottom = Slots[animator.slot]
         /\ Had(animator.row1.anim[1], reader.seen, reader.text)

-----------------------------------------------------------------------------
LEMMA Measures ==
    /\ {Width, MinSlotHold, ScrollStep, CharScrollCount, Second} \subseteq Nat \ {0}
    /\ {EndPause, MaxAge, MaxLate} \subseteq Nat
    /\ CharScrollCount <= Width
  BY LcdAssumption, ScreenAssumption

LEMMA TextLength == ASSUME NEW text, IsSeq(text) PROVE Len(text) \in Nat /\ DOMAIN text = 1..Len(text)
  BY DEF IsSeq

\* The plan of a view has texts to show, one at least for the bottom row.
LEMMA PlanTexts ==
    ASSUME NEW view \in Views \cup {Connecting}, NEW fetched
    PROVE  LET plan == Plan(view, fetched)
           IN /\ IsSeq(plan.row0)
              /\ Len(plan.slots) \in Nat \ {0} /\ DOMAIN plan.slots = 1..Len(plan.slots)
              /\ \A i \in DOMAIN plan.slots : IsSeq(plan.slots[i])
<1> DEFINE timers == [i \in 1..Len(view.timer) |-> TimerSlot(view.timer[i], fetched)]
           S == {view.slots[i] : i \in DOMAIN view.slots} \cup {timers[i] : i \in DOMAIN timers}
<1>1. \A c : IsSeq(<<c>>)
  <2> TAKE c
  <2>1. {<<c>>[i] : i \in DOMAIN <<c>>} = {c}
    OBVIOUS
  <2> QED BY <2>1 DEF IsSeq
<1>2. /\ IsSeq(view.row0) /\ IsSeq(view.slots) /\ view.timer \in Seq(Nat)
      /\ \A i \in DOMAIN view.slots : IsSeq(view.slots[i])
      /\ Len(view.slots) + Len(view.timer) > 0
  <2>1. CASE view \in Views
    BY <2>1, ScreenAssumption
  <2>2. CASE view = Connecting
    <3> DEFINE blank == <<Blank>>
    <3>1. view.row0 = blank /\ view.slots = <<blank>> /\ view.timer = <<>>
      BY <2>2 DEF Connecting
    <3>a. IsSeq(blank)
      BY <1>1
    <3> HIDE DEF blank
    <3>2. IsSeq(view.row0) /\ IsSeq(view.slots)
      BY <1>1, <3>1, <3>a
    <3>3. Len(view.slots) = 1 /\ \A i \in DOMAIN view.slots : IsSeq(view.slots[i])
      BY <3>1, <3>a
    <3>4. view.timer \in Seq(Nat) /\ Len(view.timer) = 0
      BY <3>1
    <3> QED BY <3>2, <3>3, <3>4
  <2> QED BY <2>1, <2>2
<1>3. Len(view.timer) \in Nat
  BY <1>2
<1>4. timers \in Seq(S) /\ Len(timers) = Len(view.timer) /\ DOMAIN timers = 1..Len(timers)
  <2>1. timers \in [1..Len(view.timer) -> S]
    OBVIOUS
  <2> QED BY <1>3, <2>1, SeqDef
<1>5. view.slots \in Seq(S) /\ Len(view.slots) \in Nat /\ DOMAIN view.slots = 1..Len(view.slots)
  BY <1>2, SeqMonotonic, LenProperties DEF IsSeq
<1>6. \A text \in S : IsSeq(text)
  <2> SUFFICES ASSUME NEW i \in DOMAIN timers PROVE IsSeq(timers[i])
    BY <1>2
  <2>1. timers[i] = TimerSlot(view.timer[i], fetched)
    OBVIOUS
  <2> QED BY <1>1, <2>1 DEF TimerSlot
<1>7. Plan(view, fetched).row0 = view.row0 /\ Plan(view, fetched).slots = view.slots \o timers
  BY DEF Plan
<1> HIDE DEF timers, S
<1>8. /\ view.slots \o timers \in Seq(S)
      /\ Len(view.slots \o timers) = Len(view.slots) + Len(timers)
  BY <1>4, <1>5, ConcatProperties
<1>9. \A i \in 1..Len(view.slots \o timers) : (view.slots \o timers)[i] \in S
  BY <1>8, ElementOfSeq
<1>10. /\ DOMAIN (view.slots \o timers) = 1..Len(view.slots \o timers)
       /\ Len(view.slots \o timers) \in Nat
  BY <1>8, LenProperties
<1>11. Len(view.slots \o timers) > 0
  BY <1>2, <1>3, <1>4, <1>5, <1>8
<1> DEFINE slots == view.slots \o timers
<1> HIDE DEF slots
<1>12. Len(slots) \in Nat \ {0} /\ DOMAIN slots = 1..Len(slots)
  BY <1>10, <1>11 DEF slots
<1>13. \A i \in DOMAIN slots : IsSeq(slots[i])
  BY <1>6, <1>9, <1>10 DEF slots
<1>14. Plan(view, fetched).slots = slots
  BY <1>7 DEF slots
<1> QED BY <1>2, <1>7, <1>12, <1>13, <1>14

-----------------------------------------------------------------------------
LEMMA NewStands ==
    ASSUME NEW text, IsSeq(text)
    PROVE  LET x == Moved(NewAnim(text))
           IN AnimOK(x) /\ x.text = text /\ x.offset = 0 /\ x.shown = 0 /\ x.complete = FALSE
<1> DEFINE new == NewAnim(text)
<1>1. /\ AnimOK(new) /\ new.text = text /\ new.offset = 0 /\ new.shown = 0 /\ new.complete = FALSE
      /\ new.stepped = 0
  BY Measures, TextLength DEF NewAnim, AnimOK, Reach, Fits, Overflow
<1> HIDE DEF new
<1>2. ~Steps(new)
  BY <1>1, Measures DEF Steps
<1>3. CASE Fits(text)
  <2>1. Moved(new) = Held(new)
    BY <1>1, <1>3 DEF Moved
  <2>2. /\ Held(new).text = text /\ Held(new).offset = 0 /\ Held(new).stepped = 0
        /\ Held(new).pause = 0 /\ Held(new).shown = 0
        /\ Held(new).complete = (new.complete \/ new.shown = MinSlotHold)
        /\ DOMAIN Held(new) = DOMAIN new
    BY <1>1 DEF Held, AnimOK
  <2>3. Held(new).complete = FALSE
    BY <1>1, <2>2, Measures
  <2> QED BY <1>1, <2>1, <2>2, <2>3, Measures DEF AnimOK, new
<1>4. CASE ~Fits(text)
  BY <1>1, <1>2, <1>4 DEF Moved, new
<1> QED BY <1>3, <1>4

LEMMA ElapseStands ==
    ASSUME NEW x, AnimOK(x), NEW d \in Nat
    PROVE  LET y == Elapse(x, d)
           IN /\ AnimOK(y) /\ y.text = x.text /\ y.offset = x.offset /\ y.complete = x.complete
              /\ y.shown = Least(x.shown + d, MinSlotHold)
<1>1. /\ Elapse(x, d).text = x.text /\ Elapse(x, d).offset = x.offset
      /\ Elapse(x, d).complete = x.complete
      /\ Elapse(x, d).shown = Least(x.shown + d, MinSlotHold)
      /\ Elapse(x, d).stepped = Least(x.stepped + d, ScrollStep)
      /\ Elapse(x, d).pause = IF x.pause > d THEN x.pause - d ELSE 0
      /\ DOMAIN Elapse(x, d) = DOMAIN x
  BY DEF Elapse, AnimOK
<1>2. \A a \in Nat, b \in Nat : Least(a + d, b) \in 0..b
  BY DEF Least
<1> QED BY <1>1, <1>2, Measures DEF AnimOK

LEMMA MovedStands ==
    ASSUME NEW x, AnimOK(x)
    PROVE  AnimOK(Moved(x)) /\ Moved(x).text = x.text
<1>1. Len(x.text) \in Nat
  BY TextLength DEF AnimOK
<1>2. CASE Fits(x.text)
  <2>1. Moved(x) = Held(x)
    BY <1>2 DEF Moved
  <2>2. /\ Held(x).text = x.text /\ Held(x).offset = 0 /\ Held(x).stepped = 0
        /\ Held(x).pause = 0 /\ Held(x).shown = x.shown
        /\ Held(x).complete = (x.complete \/ x.shown = MinSlotHold)
        /\ DOMAIN Held(x) = DOMAIN x
    BY DEF Held, AnimOK
  <2>3. Held(x).complete \in BOOLEAN
    BY <2>2, Zenon
  <2> QED BY <1>2, <2>1, <2>2, <2>3, Measures DEF AnimOK, Reach
<1>3. CASE ~Fits(x.text) /\ ~Steps(x)
  BY <1>3 DEF Moved
<1>4. CASE ~Fits(x.text) /\ Steps(x) /\ x.offset < Overflow(x.text)
  <2> DEFINE offset == Least(x.offset + CharScrollCount, Overflow(x.text))
             y == Jumped(x)
  <2>1. Moved(x) = y
    BY <1>4 DEF Moved
  <2>2. /\ y.text = x.text /\ y.offset = offset /\ y.stepped = 0 /\ y.shown = x.shown
        /\ y.pause = (IF offset = Overflow(x.text) THEN EndPause ELSE x.pause)
        /\ y.complete = (x.complete \/ offset = Overflow(x.text))
        /\ DOMAIN y = DOMAIN x
    BY DEF Jumped, AnimOK
  <2>3. y.complete \in BOOLEAN
    BY <2>2, Zenon
  <2>4. offset \in 0..Overflow(x.text)
    BY <1>1, <1>4, Measures DEF Least, Overflow, Fits, AnimOK, Reach
  <2> HIDE DEF y, offset
  <2> QED BY <1>4, <2>1, <2>2, <2>3, <2>4, Measures DEF AnimOK, Reach
<1>5. CASE ~Fits(x.text) /\ Steps(x) /\ ~(x.offset < Overflow(x.text))
  <2>1. Moved(x) = Wrapped(x)
    BY <1>5 DEF Moved
  <2>2. /\ Wrapped(x).text = x.text /\ Wrapped(x).offset = 0 /\ Wrapped(x).stepped = 0
        /\ Wrapped(x).pause = EndPause /\ Wrapped(x).shown = x.shown
        /\ Wrapped(x).complete = x.complete /\ DOMAIN Wrapped(x) = DOMAIN x
    BY DEF Wrapped, AnimOK
  <2> QED BY <1>1, <1>5, <2>1, <2>2, Measures DEF AnimOK, Reach, Fits, Overflow
<1> QED BY <1>2, <1>3, <1>4, <1>5

\* RowState::advance gives the row the text it is told to show.
LEMMA AdvancedStands ==
    ASSUME NEW row, NEW text, RowOK(row), IsSeq(text)
    PROVE  LET next == Advanced(row, text)
           IN /\ RowOK(next) /\ next.anim = <<Moved(Animated(row, text))>>
              /\ next.anim[1].text = text
<1> DEFINE next == Advanced(row, text)
<1>1. IsRow(next) /\ next.anim = <<Moved(Animated(row, text))>>
  BY DEF Advanced, IsRow
<1>2. AnimOK(Moved(Animated(row, text))) /\ Moved(Animated(row, text)).text = text
  <2>1. CASE SameText(row, text)
    BY <2>1, MovedStands DEF SameText, Animated, RowOK
  <2>2. CASE ~SameText(row, text)
    <3>1. Animated(row, text) = NewAnim(text)
      BY <2>2 DEF SameText, Animated
    <3> QED BY <3>1, NewStands
  <2> QED BY <2>1, <2>2
<1> HIDE DEF next
<1> QED BY <1>1, <1>2, SomeIsNotNone DEF RowOK, next

-----------------------------------------------------------------------------
\* A text that comes up: its first window is seen, and a text that fits is.
LEMMA HadAtFirst ==
    ASSUME NEW x, AnimOK(x), x.offset = 0, x.shown = 0, x.complete = FALSE
    PROVE  Had(x, InView(x), 0)
<1>1. Len(x.text) \in Nat /\ DOMAIN x.text = 1..Len(x.text)
  BY TextLength DEF AnimOK
<1>2. InView(x) = {c \in 1..Len(x.text) : c \in 1..Width}
  BY <1>1 DEF InView, Columns
<1> QED BY <1>1, <1>2, Measures DEF Had, Fits

\* A text that stays: nothing of it is left out.
LEMMA HadOn ==
    ASSUME NEW x, AnimOK(x), NEW seen_, NEW time \in 0..MinSlotHold, Had(x, seen_, time),
           NEW d \in Nat
    PROVE  LET y == Moved(Elapse(x, d))
           IN Had(y, InView(y) \cup seen_, Least(time + d, MinSlotHold))
<1> DEFINE e == Elapse(x, d)
           y == Moved(e)
           later == Least(time + d, MinSlotHold)
<1>1. /\ AnimOK(e) /\ e.text = x.text /\ e.offset = x.offset /\ e.complete = x.complete
      /\ e.shown = Least(x.shown + d, MinSlotHold)
  BY ElapseStands
<1>2. AnimOK(y) /\ y.text = x.text
  BY <1>1, MovedStands
<1>3. Len(x.text) \in Nat /\ DOMAIN x.text = 1..Len(x.text)
  BY TextLength DEF AnimOK
<1>4. later \in Nat /\ (time >= MinSlotHold => later >= MinSlotHold)
  BY Measures DEF Least
<1> HIDE DEF e, later
<1>5. InView(y) \subseteq DOMAIN x.text
  BY <1>2 DEF InView
<1>6. ASSUME Fits(x.text) PROVE Had(y, InView(y) \cup seen_, later)
  <2>1. y = Held(e)
    BY <1>1, <1>6 DEF Moved
  <2>2. y.shown = e.shown /\ y.complete = (e.complete \/ e.shown = MinSlotHold)
    BY <1>1, <2>1 DEF Held, AnimOK
  <2>3. x.shown <= time /\ x.shown \in Nat /\ (x.complete => time >= MinSlotHold)
    BY <1>6, Measures DEF Had, AnimOK
  <2>4. e.shown <= later /\ (e.shown = MinSlotHold => later >= MinSlotHold)
    BY <1>1, <2>3, Measures DEF Least, later
  <2>5. y.complete => later >= MinSlotHold
    BY <1>1, <1>4, <2>2, <2>3, <2>4
  <2>6. InView(y) \cup seen_ = DOMAIN y.text
    BY <1>2, <1>5, <1>6 DEF Had
  <2> HIDE DEF y
  <2> QED BY <1>2, <1>6, <2>2, <2>4, <2>5, <2>6 DEF Had
<1>7. ASSUME ~Fits(x.text) PROVE Had(y, InView(y) \cup seen_, later)
  <2>1. /\ seen_ \subseteq DOMAIN x.text
        /\ 1..(x.offset + Width) \subseteq seen_ /\ (x.complete => seen_ = DOMAIN x.text)
    BY <1>7 DEF Had
  <2>2. x.offset \in Nat /\ Width \in Nat
    BY <1>1, <1>3, <1>7, Measures DEF AnimOK, Reach, Fits, Overflow
  <2>3. /\ y.offset \in Nat /\ y.offset <= x.offset + Width
        /\ y.complete => (x.complete \/ y.offset + Width = Len(x.text))
    <3>1. CASE ~Steps(e)
      BY <1>1, <1>7, <2>2, <3>1 DEF Moved
    <3>2. CASE Steps(e) /\ e.offset < Overflow(x.text)
      <4>1. y = Jumped(e)
        BY <1>1, <1>7, <3>2 DEF Moved
      <4>2. /\ y.offset = Least(x.offset + CharScrollCount, Overflow(x.text))
            /\ y.complete = (x.complete \/ y.offset = Overflow(x.text))
        BY <1>1, <4>1 DEF Jumped, AnimOK
      <4> HIDE DEF y
      <4>3. y.complete => (x.complete \/ y.offset = Overflow(x.text))
        BY <4>2, Zenon
      <4>4. /\ y.offset \in Nat /\ y.offset <= x.offset + Width
            /\ y.offset = Overflow(x.text) => y.offset + Width = Len(x.text)
        <5>1. y.offset = Least(x.offset + CharScrollCount, Overflow(x.text))
          BY <4>2
        <5>2. Overflow(x.text) = Len(x.text) - Width /\ Overflow(x.text) \in Nat
          BY <1>3, <1>7, <2>2 DEF Overflow, Fits
        <5>3. CharScrollCount \in Nat /\ CharScrollCount <= Width
          BY Measures
        <5>4. y.offset \in Nat /\ y.offset <= x.offset + Width
          BY <2>2, <5>1, <5>2, <5>3 DEF Least
        <5> QED BY <1>3, <2>2, <5>2, <5>4
      <4> QED BY <4>3, <4>4
    <3>3. CASE Steps(e) /\ ~(e.offset < Overflow(x.text))
      <4>1. y = Wrapped(e)
        BY <1>1, <1>7, <3>3 DEF Moved
      <4>2. y.offset = 0 /\ y.complete = x.complete
        BY <1>1, <4>1 DEF Wrapped, AnimOK
      <4> QED BY <2>2, <4>2
    <3> QED BY <3>1, <3>2, <3>3
  <2> HIDE DEF y
  <2>4. InView(y) = {c \in 1..Len(x.text) : c - y.offset \in 1..Width}
    BY <1>2, <1>3 DEF InView, Columns
  <2>5. y.offset + Width <= Len(x.text)
    BY <1>2, <1>3, <1>7, <2>2 DEF AnimOK, Reach, Fits, Overflow
  <2>6. 1..(y.offset + Width) \subseteq InView(y) \cup seen_
    <3> SUFFICES ASSUME NEW c \in 1..(y.offset + Width), c \notin InView(y)
                 PROVE  c \in 1..(x.offset + Width)
      BY <2>1
    <3>1. c <= y.offset
      BY <1>3, <2>2, <2>3, <2>4, <2>5
    <3> QED BY <2>2, <2>3, <3>1
  <2>7. InView(y) \cup seen_ \subseteq DOMAIN x.text
    BY <1>5, <2>1
  <2>8. y.complete => InView(y) \cup seen_ = DOMAIN x.text
    <3>1. CASE x.complete
      BY <2>1, <2>7, <3>1
    <3>2. CASE y.offset + Width = Len(x.text)
      BY <1>3, <2>6, <2>7, <3>2
    <3> QED BY <2>3, <3>1, <3>2
  <2> QED BY <1>2, <1>7, <2>6, <2>7, <2>8 DEF Had
<1> QED BY <1>6, <1>7 DEF e, y, later

-----------------------------------------------------------------------------
\* A row that time passes for.
LEMMA RestsStand ==
    ASSUME NEW row, RowOK(row), NEW d \in Nat
    PROVE  LET old == RowElapse(row, d)
           IN /\ RowOK(old) /\ RowOK(Restarted(old)) /\ Restarted(old).anim = None
              /\ old.anim = IF row.anim = None THEN None ELSE <<Elapse(row.anim[1], d)>>
<1> DEFINE old == RowElapse(row, d)
<1>1. /\ IsRow(old)
      /\ old.anim = IF row.anim = None THEN None ELSE <<Elapse(row.anim[1], d)>>
  BY DEF RowElapse, RowOK, IsRow
<1>2. row.anim # None => AnimOK(Elapse(row.anim[1], d))
  BY ElapseStands DEF RowOK
<1> HIDE DEF old
<1>3. IsRow(Restarted(old)) /\ Restarted(old).anim = None
  BY <1>1 DEF IsRow, Restarted
<1>4. RowOK(old)
  BY <1>1, <1>2, SomeIsNotNone DEF RowOK
<1> QED BY <1>1, <1>3, <1>4 DEF RowOK, old

\* The slot after one, of several, is another.
LEMMA SlotAfter ==
    ASSUME NEW n \in Nat, n > 1, NEW s \in Nat \ {0}
    PROVE  (s % n) + 1 \in 1..n /\ (s % n) + 1 # s
<1>1. s % n \in 0..(n - 1)
  OBVIOUS
<1>2. CASE s < n
  <2>1. s % n = s
    BY <1>2
  <2> QED BY <1>1, <2>1
<1>3. CASE s = n
  <2>1. s % n = 0
    BY <1>3
  <2> QED BY <1>1, <1>3, <2>1
<1>4. CASE s > n
  BY <1>1, <1>4
<1> QED BY <1>2, <1>3, <1>4

\* The rotation: a slot of the plan, and either the one it had, with the row
\* as it was, or another one and a row that starts anew.
LEMMA ChosenStands ==
    ASSUME NEW a, IsAnimator(a), a.slot \in Nat \ {0}, NEW slots, Len(slots) \in Nat \ {0}
    PROVE  LET b == Chosen(a, slots)
           IN /\ IsAnimator(b) /\ b.row0 = a.row0 /\ b.slot \in 1..Len(slots)
              /\ \/ b.slot = a.slot /\ b.row1 = a.row1
                 \/ b.slot # a.slot /\ b.row1 = Restarted(a.row1)
              /\ b.slot # a.slot /\ a.slot <= Len(slots) => CycleDone(a.row1)
<1> DEFINE b == Chosen(a, slots)
<1>1. CASE Rotates(a, slots)
  <2>1. b = [a EXCEPT !.slot = NextSlot(a, slots), !.row1 = Restarted(@)]
    BY <1>1 DEF Chosen
  <2>2. IsAnimator(b) /\ b.row0 = a.row0 /\ b.slot = NextSlot(a, slots) /\ b.row1 = Restarted(a.row1)
    BY <2>1 DEF IsAnimator
  <2>3. CycleDone(a.row1) /\ Len(slots) > 1
    BY <1>1 DEF Rotates
  <2>4. NextSlot(a, slots) \in 1..Len(slots) /\ NextSlot(a, slots) # a.slot
    BY <2>3, SlotAfter DEF NextSlot
  <2> HIDE DEF b
  <2> QED BY <2>2, <2>3, <2>4 DEF b
<1>2. CASE ~Rotates(a, slots) /\ a.slot > Len(slots)
  <2>1. b = [a EXCEPT !.slot = Len(slots), !.row1 = Restarted(@)]
    BY <1>2 DEF Chosen
  <2>2. IsAnimator(b) /\ b.row0 = a.row0 /\ b.slot = Len(slots) /\ b.row1 = Restarted(a.row1)
    BY <2>1 DEF IsAnimator
  <2> HIDE DEF b
  <2> QED BY <1>2, <2>2 DEF b
<1>3. CASE ~Rotates(a, slots) /\ ~(a.slot > Len(slots))
  BY <1>3 DEF Chosen
<1> QED BY <1>1, <1>2, <1>3

LEMMA RenderTurns ==
    ASSUME Turned, NEW view \in Views \cup {Connecting}, NEW fetched \in 0..MaxAge, NEW d \in Nat,
           Render(view, fetched, d)
    PROVE  /\ Turned'
           /\ animator.row1.anim # None /\ animator'.slot # animator.slot
                /\ animator.slot <= Len(Slots')
              => animator.row1.anim[1].complete
<1> DEFINE plan == Plan(view, fetched)
           a == [animator EXCEPT !.row0 = RowElapse(@, d), !.row1 = RowElapse(@, d)]
           b == Chosen(a, plan.slots)
           text == plan.slots[b.slot]
           x == animator.row1.anim[1]
           y == Moved(Animated(b.row1, text))
<1>1. /\ IsAnimator(animator) /\ animator.slot \in Nat \ {0}
      /\ RowOK(animator.row0) /\ RowOK(animator.row1)
      /\ reader.text \in 0..MinSlotHold
  BY DEF Turned, Rows
<1>2. /\ IsAnimator(a) /\ a.slot = animator.slot
      /\ a.row0 = RowElapse(animator.row0, d) /\ a.row1 = RowElapse(animator.row1, d)
  BY <1>1 DEF IsAnimator
<1>3. /\ animator' = [b EXCEPT !.row0 = Advanced(@, plan.row0), !.row1 = Advanced(@, text)]
      /\ current' = view /\ age' = fetched /\ Reads(d)
  BY DEF Render, Ticked
<1>4. /\ IsSeq(plan.row0) /\ Len(plan.slots) \in Nat \ {0} /\ DOMAIN plan.slots = 1..Len(plan.slots)
      /\ \A i \in DOMAIN plan.slots : IsSeq(plan.slots[i])
  BY PlanTexts
<1>5. Slots' = plan.slots
  BY <1>3 DEF Slots
<1> HIDE DEF a, plan
<1>6. /\ IsAnimator(b) /\ b.row0 = a.row0 /\ b.slot \in 1..Len(plan.slots)
      /\ \/ b.slot = a.slot /\ b.row1 = a.row1
         \/ b.slot # a.slot /\ b.row1 = Restarted(a.row1)
      /\ b.slot # a.slot /\ a.slot <= Len(plan.slots) => CycleDone(a.row1)
  BY <1>1, <1>2, <1>4, ChosenStands
<1> HIDE DEF b
<1>7. IsSeq(text)
  BY <1>4, <1>6
<1>a. RowOK(a.row0) /\ RowOK(a.row1) /\ RowOK(Restarted(a.row1))
  BY <1>1, <1>2, RestsStand
<1>b. Restarted(a.row1).anim = None
  <2>1. Restarted(RowElapse(animator.row1, d)).anim = None
    BY <1>1, RestsStand
  <2> QED BY <1>2, <2>1
<1>8. RowOK(b.row0) /\ RowOK(b.row1)
  BY <1>6, <1>a
<1> HIDE DEF text
<1>9. /\ IsAnimator(animator') /\ animator'.slot = b.slot
      /\ animator'.row0 = Advanced(b.row0, plan.row0) /\ animator'.row1 = Advanced(b.row1, text)
  BY <1>3, <1>6 DEF IsAnimator
<1>10. /\ RowOK(animator'.row0) /\ RowOK(animator'.row1)
       /\ animator'.row1.anim = <<y>> /\ y.text = text
  BY <1>4, <1>7, <1>8, <1>9, AdvancedStands, SomeIsNotNone
<1>11. animator'.row1.anim # None /\ animator'.row1.anim[1] = y /\ AnimOK(y)
  BY <1>10, SomeIsNotNone DEF RowOK
<1> DEFINE sameSlot == animator'.slot = animator.slot
           sameText == sameSlot /\ SameText(animator.row1, text)
<1> HIDE DEF y
<1>12. /\ reader'.seen = InView(y) \cup (IF sameText THEN reader.seen ELSE {})
       /\ reader'.text = (IF sameText THEN Least(reader.text + d, MinSlotHold) ELSE 0)
  <2>1. reader' = [
          seen |-> {c \in DOMAIN y.text : c - y.offset \in Columns}
                     \cup (IF sameText THEN reader.seen ELSE {}),
          text |-> IF sameText THEN Least(reader.text + d, MinSlotHold) ELSE 0]
    BY <1>3, <1>10, <1>11 DEF Reads
  <2> QED BY <2>1 DEF InView
<1>13. Had(y, reader'.seen, reader'.text) /\ reader'.text \in 0..MinSlotHold
  <2>1. CASE sameText
    <3>1. animator.row1.anim # None /\ x.text = text /\ AnimOK(x)
      BY <1>1, <2>1 DEF SameText, RowOK
    <3>2. b.row1 = a.row1 /\ a.row1.anim = <<Elapse(x, d)>>
      BY <1>1, <1>2, <1>6, <1>9, <2>1, <3>1, RestsStand
    <3>3. Elapse(x, d).text = text
      BY <3>1, ElapseStands
    <3>4. y = Moved(Elapse(x, d))
      BY <3>2, <3>3, SomeIsNotNone DEF y, Animated
    <3>5. Had(x, reader.seen, reader.text)
      BY <3>1 DEF Turned
    <3>6. Had(y, InView(y) \cup reader.seen, Least(reader.text + d, MinSlotHold))
      BY <1>1, <3>1, <3>4, <3>5, HadOn
    <3>7. Least(reader.text + d, MinSlotHold) \in 0..MinSlotHold
      BY <1>1, Measures DEF Least
    <3> QED BY <1>12, <2>1, <3>6, <3>7
  <2>2. CASE ~sameText
    <3>1. Animated(b.row1, text) = NewAnim(text)
      <4>1. CASE b.row1 = Restarted(a.row1)
        BY <1>b, <4>1 DEF Animated
      <4>2. CASE b.row1 = a.row1 /\ b.slot = a.slot
        <5>1. ~SameText(animator.row1, text)
          BY <1>2, <1>9, <2>2, <4>2
        <5>2. a.row1.anim = IF animator.row1.anim = None THEN None ELSE <<Elapse(x, d)>>
          BY <1>1, <1>2, RestsStand
        <5>3. animator.row1.anim # None => Elapse(x, d).text = x.text /\ x.text # text
          BY <1>1, <5>1, ElapseStands DEF RowOK, SameText
        <5>4. b.row1.anim # None => b.row1.anim[1].text # text
          BY <4>2, <5>2, <5>3, SomeIsNotNone
        <5> QED BY <5>4 DEF Animated
      <4> QED BY <1>6, <4>1, <4>2
    <3>2. AnimOK(y) /\ y.offset = 0 /\ y.shown = 0 /\ y.complete = FALSE
      BY <1>7, <3>1, NewStands DEF y
    <3>3. reader'.seen = InView(y) /\ reader'.text = 0
      BY <1>12, <2>2
    <3>4. Had(y, InView(y), 0)
      BY <3>2, HadAtFirst
    <3>5. 0 \in 0..MinSlotHold
      BY Measures
    <3> QED BY <3>3, <3>4, <3>5
  <2> QED BY <2>1, <2>2
<1>14. Turned'
  <2>1. current' \in Views \cup {Connecting} /\ age' \in 0..MaxAge
    BY <1>3
  <2>2. \A row \in Rows : RowOK(animator'[row])
    BY <1>10 DEF Rows
  <2>3. /\ animator'.slot \in DOMAIN Slots' /\ animator'.slot \in Nat \ {0}
        /\ animator'.row1.anim[1].text = Slots'[animator'.slot]
    BY <1>4, <1>5, <1>6, <1>9, <1>10, <1>11 DEF text
  <2>4. IsAnimator(animator') /\ reader'.text \in 0..MinSlotHold
        /\ Had(animator'.row1.anim[1], reader'.seen, reader'.text)
    BY <1>9, <1>11, <1>12, <1>13
  <2> QED BY <2>1, <2>2, <2>3, <2>4 DEF Turned, Bottom
<1>15. ASSUME animator.row1.anim # None, animator'.slot # animator.slot,
              animator.slot <= Len(Slots')
       PROVE  x.complete
  <2>1. CycleDone(a.row1)
    BY <1>2, <1>5, <1>6, <1>9, <1>15
  <2>2. a.row1.anim = <<Elapse(x, d)>>
    BY <1>1, <1>2, <1>15, RestsStand
  <2>3. Elapse(x, d).complete = x.complete
    BY <1>1, <1>15, ElapseStands DEF RowOK
  <2>4. a.row1.anim[1].complete
    BY <2>1 DEF CycleDone
  <2> QED BY <2>2, <2>3, <2>4, SomeIsNotNone
<1> QED BY <1>14, <1>15

LEMMA TurnedAtFirst == ASSUME ScreenInit PROVE Turned
<1>1. animator = Animator /\ current = Connecting /\ age = 0 /\ reader.text = 0
  BY DEF ScreenInit
<1>2. \A row \in Rows : animator[row] = [anim |-> None, last |-> None]
  BY <1>1 DEF Animator, Rows
<1>3. \A row \in Rows : RowOK(animator[row]) /\ animator[row].anim = None
  BY <1>2 DEF RowOK, IsRow
<1>4. animator.slot = 1 /\ IsAnimator(animator)
  BY <1>1 DEF Animator, IsAnimator
<1> QED BY <1>1, <1>3, <1>4, Measures DEF Turned, Rows

LEMMA TurnedStep ==
    ASSUME Turned, [ScreenNext]_screenVars
    PROVE  /\ Turned'
           /\ animator.row1.anim # None /\ animator'.slot # animator.slot
                /\ animator.slot <= Len(Slots')
              => animator.row1.anim[1].complete
<1>1. \A d \in 0..MaxLate : d \in Nat /\ Older(d) \in 0..MaxAge
  BY Measures DEF Older, Least, Turned
<1>2. CASE ShowsView
  <2>1. PICK view \in Views, d \in 0..MaxLate : Render(view, 0, d)
    BY <1>2 DEF ShowsView
  <2>2. 0 \in 0..MaxAge
    BY Measures
  <2> QED BY <1>1, <2>1, <2>2, RenderTurns
<1>3. CASE SetsBacklight \/ Ticks
  <2>1. PICK d \in 0..MaxLate : Render(current, Older(d), d)
    BY <1>3 DEF SetsBacklight, Ticks
  <2>2. current \in Views \cup {Connecting}
    BY DEF Turned
  <2> QED BY <1>1, <2>1, <2>2, RenderTurns
<1>4. CASE UNCHANGED screenVars
  <2>1. /\ current' = current /\ age' = age /\ animator' = animator /\ reader' = reader
        /\ Slots' = Slots
    BY <1>4 DEF screenVars, Slots
  <2> QED BY <2>1 DEF Turned, Bottom
<1> QED BY <1>2, <1>3, <1>4 DEF ScreenNext

(***************************************************************************)
(* What LcdAnimator keeps is of the plan it was last given, and no window  *)
(* is past the end of its text (visible_window would panic), for every     *)
(* view, width and speed.                                                  *)
(***************************************************************************)
THEOREM ScreenTypes == ScreenSpec => []ScreenTypeOK
<1>1. Turned => ScreenTypeOK
  <2> SUFFICES ASSUME Turned PROVE ScreenTypeOK
    OBVIOUS
  <2>1. \A row \in Rows : \A i \in DOMAIN animator[row].anim :
          AnimOK(animator[row].anim[i])
    <3> SUFFICES ASSUME NEW row \in Rows, NEW i \in DOMAIN animator[row].anim
                 PROVE  AnimOK(animator[row].anim[i])
      OBVIOUS
    <3>1. RowOK(animator[row]) /\ animator[row].anim # None
      BY DEF Turned, None
    <3>2. animator[row].anim = <<animator[row].anim[1]>> /\ AnimOK(animator[row].anim[1])
      BY <3>1 DEF RowOK
    <3>3. i = 1
      BY <3>2
    <3> QED BY <3>2, <3>3
  <2> QED BY <2>1 DEF Turned, ScreenTypeOK, AnimOK, Reach
<1> QED BY <1>1, TurnedAtFirst, TurnedStep, PTL DEF ScreenSpec

(***************************************************************************)
(* A slot's turn ends when all of its text has been on the LCD, for its    *)
(* hold if it fits (RowAnim::cycle_done), however late the ticks are and   *)
(* whichever views come between.                                           *)
(***************************************************************************)
THEOREM TurnsAreHad == ScreenSpec => TurnIsHad
<1> DEFINE IsHad == animator.row1.anim # None /\ animator'.slot # animator.slot
                      /\ animator.slot <= Len(Slots')
                    => /\ reader.seen = DOMAIN Bottom
                       /\ Fits(Bottom) => reader.text >= MinSlotHold
<1>1. Turned /\ [ScreenNext]_screenVars => [IsHad]_screenVars
  <2> SUFFICES ASSUME Turned, [ScreenNext]_screenVars, animator.row1.anim # None,
                      animator'.slot # animator.slot, animator.slot <= Len(Slots')
               PROVE  /\ reader.seen = DOMAIN Bottom
                      /\ Fits(Bottom) => reader.text >= MinSlotHold
    OBVIOUS
  <2>1. animator.row1.anim[1].complete
    BY TurnedStep
  <2>2. Had(animator.row1.anim[1], reader.seen, reader.text)
    BY DEF Turned
  <2> QED BY <2>1, <2>2 DEF Had, Bottom
<1> QED BY <1>1, TurnedAtFirst, TurnedStep, PTL DEF ScreenSpec, TurnIsHad

-----------------------------------------------------------------------------
(***************************************************************************)
(* The memory.  Its invariant follows the words of the region through the  *)
(* boot: which of them the run before wrote, and which the boot has.       *)
(***************************************************************************)

Early == {"counting", "zeroing", "classifying", "appending", "clearing"}

\* What is true of a phase by itself: the magic word is there from the check
\* on, the panic handler zeroes only what the boot did not check yet, a run leaves marks once it is ready, and the watchdog feeds it later.
Booted ==
    /\ phase # "counting" => ram.magic
    /\ ~ram.magic => ~owed /\ told = <<>>
    /\ phase = "zeroing" => told = <<>> /\ (owed => dying # "no")
    /\ dying # "no" => ram.magic
    /\ dying = "zeroing" => phase = "counting" /\ ~owed /\ told = <<>>
    /\ run.ready <=> phase \notin Early
    /\ ~run.ready => ~run.net /\ run.fails = 0
    /\ run.fed # -1 => phase \in Watched

\* Whether the region holds what it should.
Valid == ~torn /\ ram.magic /\ ~Zeroing

\* A panic that was not shown is in the counts, also when its handler is cut.
Counted ==
    Valid =>
        /\ ram.panics >= ram.shown
        /\ owed \/ dying # "no" => ram.panics > ram.shown
        /\ phase \in Watched /\ dying = "no" => ram.panics = ram.shown

\* Until it is shown, its message is the one that is there, if the handler came
\* to the message's end.
Worded == owed /\ ~cut /\ dying \notin {"counted", "writing"} => ram.msg = ram.panics

\* All but the slot that is written next hold what was told.
RingKept ==
    Valid =>
        /\ Len(told) = Earlier(ram.head, RingSize)
        /\ \A i \in 1..(RingSize - 1) :
             i <= ram.head => ram.ring[(ram.head + RingSize - i) % RingSize] = told[i]

\* The run's marks in the region, and what its stage and the watchdog say.
Marked ==
    /\ run.ready => /\ ram.net = run.net /\ ram.fails = run.fails
                    /\ run.fed # -1 => ram.uptime = run.fed
    /\ phase \in Watched => ~bitten
    /\ phase \in {"wifi", "dhcp"} => ram.state \in {"wifi", "dhcp"}
    /\ phase = "running" => ram.state = "screen"

\* The marks of the run before, until the boot has told them.
Remembered ==
    Valid /\ last.ready =>
        /\ (phase = "counting" /\ dying = "no") \/ phase \in {"classifying", "appending"} =>
             /\ ram.net = last.net /\ ram.fails = last.fails
             /\ last.fed # -1 => ram.uptime = last.fed
        /\ last.fed # -1 =>
             /\ phase \in {"counting", "classifying"} /\ dying = "no" => Classified \in last.ends
             /\ phase = "appending" => ram.reason \in last.ends

Memorised == Booted /\ Counted /\ Worded /\ RingKept /\ Marked /\ Remembered

-----------------------------------------------------------------------------
(* Slots of the ring.                                                      *)

LEMMA Modulus ==
    ASSUME NEW n \in Nat \ {0}, NEW a \in Nat
    PROVE  /\ a \div n \in Nat /\ a % n \in 0..(n - 1)
           /\ a = (n * (a \div n)) + (a % n)
  OBVIOUS

LEMMA Spread ==
    ASSUME NEW n \in Nat \ {0}, NEW p \in Int, NEW q \in Int, NEW m \in Int,
           (n * q) - (n * p) = m
    PROVE  /\ 0 < m => m >= n
           /\ (0 - n < m /\ m < n) => m = 0
<1>1. (n * q) - (n * p) = n * (q - p)
  OBVIOUS
<1>2. q - p <= 0 => n * (q - p) <= 0
  OBVIOUS
<1>3. q - p >= 1 => n * (q - p) >= n
  OBVIOUS
<1>4. q - p <= 0 - 1 => n * (q - p) <= 0 - n
  OBVIOUS
<1>5. q - p = 0 => n * (q - p) = 0
  OBVIOUS
<1>6. q - p <= 0 - 1 \/ q - p = 0 \/ q - p >= 1
  OBVIOUS
<1> DEFINE e == n * (q - p)
<1>7. e \in Int /\ e = m
  BY <1>1
<1> HIDE DEF e
<1> QED BY <1>2, <1>3, <1>4, <1>5, <1>6, <1>7 DEF e

LEMMA SlotAgain == ASSUME NEW n \in Nat \ {0}, NEW h \in Nat PROVE (h + n) % n = h % n
<1> DEFINE p == h \div n
           q == (h + n) \div n
           r == h % n
           s == (h + n) % n
<1>0. h \in Nat /\ h + n \in Nat
  OBVIOUS
<1>1. /\ p \in Nat /\ r \in 0..(n - 1) /\ h = (n * p) + r
      /\ q \in Nat /\ s \in 0..(n - 1) /\ h + n = (n * q) + s
  BY <1>0, Modulus, Zenon
<1> HIDE DEF p, q, r, s
<1>2. (n * q) - (n * (p + 1)) = r - s
  BY <1>1
<1>3. r - s = 0
  BY <1>1, <1>2, Spread
<1> QED BY <1>1, <1>3 DEF r, s

LEMMA OtherSlot ==
    ASSUME NEW n \in Nat \ {0}, NEW h \in Nat, NEW i \in 1..(n - 1)
    PROVE  (h + n - i) % n # h % n
<1> SUFFICES ASSUME (h + n - i) % n = h % n PROVE FALSE
  OBVIOUS
<1> DEFINE p == h \div n
           q == (h + n - i) \div n
           r == h % n
<1>0. h \in Nat /\ h + n - i \in Nat
  OBVIOUS
<1>1. /\ p \in Nat /\ r \in 0..(n - 1) /\ h = (n * p) + r
      /\ q \in Nat /\ h + n - i = (n * q) + r
  BY <1>0, Modulus, Zenon
<1> HIDE DEF p, q, r
<1>2. (n * q) - (n * p) = n - i
  BY <1>1
<1> QED BY <1>1, <1>2, Spread

-----------------------------------------------------------------------------
(* Types.                                                                  *)

LEMMA RestartsTypes ==
    ASSUME PersistTypeOK, NEW ends \in SUBSET Reasons, Restarts(ends)
    PROVE  /\ phase' \in Phases /\ dying' \in Handler /\ run' \in Run /\ last' \in Run
           /\ cut' \in BOOLEAN /\ torn' \in BOOLEAN /\ resets' \in 0..MaxResets
<1>1. NewRun \in Run
  BY PersistAssumption DEF Run, NewRun
<1>2. [run EXCEPT !.ends = ends, !.up = 0] \in Run
  <2>1. 0 \in 0..MaxUptime
    BY PersistAssumption
  <2> QED BY <2>1 DEF PersistTypeOK, Run
<1>3. cut' \in BOOLEAN /\ torn' \in BOOLEAN
  BY Zenon DEF Restarts
<1>4. resets' \in 0..MaxResets
  BY PersistAssumption DEF PersistTypeOK, Restarts
<1> QED BY <1>1, <1>2, <1>3, <1>4 DEF Restarts, Phases, Handler

LEMMA RegionTypes ==
    /\ Zeroed \in Region /\ Garbage \in Region
    /\ ram \in Region => LastRun \in Entry /\ Slot \in 0..(RingSize - 1) /\ ram.head \in Nat
<1>1. NoEntry \in Entry
  BY PersistAssumption DEF Entry, NoEntry, Reasons
<1>2. Zeroed \in Region
  BY <1>1, PersistAssumption DEF Region, Zeroed, NoMessage, Reasons, Stages
<1>3. Garbage \in Region
  BY <1>2 DEF Garbage, Mixed, Region
<1>4. ASSUME ram \in Region PROVE LastRun \in Entry /\ Slot \in 0..(RingSize - 1) /\ ram.head \in Nat
  BY <1>4, PersistAssumption DEF Region, Entry, LastRun, Slot
<1> QED BY <1>2, <1>3, <1>4

LEMMA TellsNewest ==
    ASSUME PersistTypeOK, Tells
    PROVE  /\ told' \in Seq(Entry) /\ Len(told') = Earlier(Len(told) + 1, RingSize)
           /\ Len(told') \in 1..RingSize /\ told'[1] = LastRun
           /\ \A i \in 1..Len(told') : i > 1 => told'[i] = told[i - 1]
<1> DEFINE c == <<LastRun>> \o told
           m == Earlier(Len(told) + 1, RingSize)
<1>0. LastRun \in Entry /\ told \in Seq(Entry) /\ RingSize \in Nat \ {0}
  BY RegionTypes, PersistAssumption DEF PersistTypeOK
<1>1. /\ c \in Seq(Entry) /\ Len(c) = Len(told) + 1 /\ Len(told) \in Nat
      /\ c[1] = LastRun /\ \A i \in 2..(Len(told) + 1) : c[i] = told[i - 1]
  <2> HIDE DEF Entry, LastRun
  <2> QED BY <1>0
<1>2. m \in 1..RingSize /\ m <= Len(told) + 1
  BY <1>0, <1>1 DEF Earlier
<1>3. told' = SubSeq(c, 1, m)
  BY DEF Tells
<1> HIDE DEF c, m
<1>4. 1 \in Int /\ m \in Int /\ \A i \in 1..m : c[i] \in Entry
  BY <1>1, <1>2
<1>5. /\ told' \in Seq(Entry) /\ Len(told') = IF 1 <= m THEN (m - 1) + 1 ELSE 0
      /\ \A i \in 1..((m - 1) + 1) : told'[i] = c[(1 + i) - 1]
  BY ONLY <1>3, <1>4, SubSeqProperties
<1>6. Len(told') = m /\ \A i \in 1..m : told'[i] = c[i]
  BY <1>2, <1>5
<1>7. m = Earlier(Len(told) + 1, RingSize)
  BY DEF m
<1>8. told'[1] = LastRun
  BY ONLY <1>1, <1>2, <1>6
<1>9. \A i \in 1..m : i > 1 => told'[i] = told[i - 1]
  BY ONLY <1>1, <1>2, <1>6
<1>10. /\ told' \in Seq(Entry) /\ Len(told') = m /\ m \in 1..RingSize
       /\ told'[1] = LastRun
       /\ \A i \in 1..m : i > 1 => told'[i] = told[i - 1]
  BY <1>2, <1>5, <1>6, <1>8, <1>9
<1> HIDE DEF Entry, LastRun, Earlier
<1> QED BY ONLY <1>7, <1>10

LEMMA MemoryTypes == PersistTypeOK /\ [PersistNext]_persistVars => PersistTypeOK'
<1> SUFFICES ASSUME PersistTypeOK, [PersistNext]_persistVars PROVE PersistTypeOK'
  OBVIOUS
<1>0. CASE UNCHANGED persistVars
  BY <1>0 DEF PersistTypeOK, persistVars
<1>1. CASE PowerCycle
  <2>1. Restarts({"ColdBoot"}) /\ {"ColdBoot"} \in SUBSET Reasons
    BY <1>1 DEF PowerCycle, Reasons
  <2>2. ram' \in Region /\ told' \in Seq(Entry) /\ Len(told') <= RingSize
    BY <1>1, RegionTypes, PersistAssumption DEF PowerCycle
  <2> QED BY <1>1, <2>1, <2>2, RestartsTypes DEF PersistTypeOK, PowerCycle
<1>2. CASE PinReset
  <2>1. PICK ends \in SUBSET Reasons : Restarts(ends)
    BY <1>2 DEF PinReset, Reasons
  <2> QED BY <1>2, <2>1, RestartsTypes DEF PersistTypeOK, PinReset
<1>3. CASE WatchdogBites
  <2>1. PICK ends \in SUBSET Reasons : Restarts(ends)
    BY <1>3 DEF WatchdogBites, Reasons
  <2> QED BY <1>3, <2>1, RestartsTypes DEF PersistTypeOK, WatchdogBites
<1>4. CASE Panics
  <2>1. ram' \in Region
    <3>1. CASE ram' = [ram EXCEPT !.panics = @ + 1]
      BY <3>1 DEF PersistTypeOK, Region
    <3>2. CASE ram' = [ram EXCEPT !.magic = TRUE]
      BY <3>2 DEF PersistTypeOK, Region
    <3> QED BY <1>4, <3>1, <3>2 DEF Panics, Counts
  <2> QED BY <1>4, <2>1 DEF PersistTypeOK, Panics, Counts, Handler
<1>a. CASE PanicZeroes
  <2>1. PICK r \in Region : ram' = [r EXCEPT !.panics = @ + 1]
    BY <1>a, RegionTypes DEF PanicZeroes, Counts
  <2>2. ram' \in Region
    BY <2>1 DEF Region
  <2> QED BY <1>a, <2>2 DEF PersistTypeOK, PanicZeroes, Counts, Handler
<1>b. CASE WritesMessage
  <2>1. ram' \in Region
    BY <1>b DEF PersistTypeOK, WritesMessage, Region, NoMessage, Mixed
  <2> QED BY <1>b, <2>1 DEF PersistTypeOK, WritesMessage, Handler
<1>5. CASE PanicResets
  <2>1. Restarts({"Panic"}) /\ {"Panic"} \in SUBSET Reasons
    BY <1>5 DEF PanicResets, Reasons
  <2> QED BY <1>5, <2>1, RestartsTypes DEF PersistTypeOK, PanicResets
<1>6. CASE GivesUp
  <2>1. Restarts({"InitTimeout"}) /\ {"InitTimeout"} \in SUBSET Reasons
    BY <1>6 DEF GivesUp, Reasons
  <2> QED BY <1>6, <2>1, RestartsTypes DEF PersistTypeOK, GivesUp
<1>7. ASSUME Boots, UNCHANGED <<dying, cut, torn, resets>> PROVE PersistTypeOK'
  <2>1. CASE ChecksMagic
    <3>1. ram' \in Region
      BY <2>1 DEF PersistTypeOK, ChecksMagic, Region
    <3> QED BY <1>7, <2>1, <3>1 DEF PersistTypeOK, ChecksMagic, Phases
  <2>2. CASE Zeroes
    <3>1. ram' \in Region
      BY <2>2, RegionTypes DEF Zeroes, Region, Reasons
    <3> QED BY <1>7, <2>2, <3>1 DEF PersistTypeOK, Zeroes, Phases
  <2>3. CASE Classifies
    <3>1. ram' \in Region
      BY <2>3 DEF PersistTypeOK, Classifies, Region, Classified, Reasons
    <3> QED BY <1>7, <2>3, <3>1 DEF PersistTypeOK, Classifies, Phases
  <2>4. CASE Appends
    <3>1. LastRun \in Entry /\ Slot \in 0..(RingSize - 1)
      BY RegionTypes DEF PersistTypeOK
    <3>2. CASE UNCHANGED <<phase, told>> /\ ram' = [ram EXCEPT !.ring[Slot] = LastRun]
      <4>1. ram' \in Region
        BY <3>1, <3>2 DEF PersistTypeOK, Region
      <4> QED BY <1>7, <2>4, <3>2, <4>1 DEF PersistTypeOK, Appends
    <3>3. CASE phase' = "clearing" /\ Tells /\ ram' = [ram EXCEPT !.head = @ + 1]
      <4>1. ram' \in Region
        BY <3>3 DEF PersistTypeOK, Region
      <4>2. told' \in Seq(Entry) /\ Len(told') <= RingSize
        BY <3>3, TellsNewest, PersistAssumption
      <4> QED BY <1>7, <2>4, <3>3, <4>1, <4>2 DEF PersistTypeOK, Appends, Phases
    <3> QED BY <2>4, <3>2, <3>3 DEF Appends, RingAppend
  <2>5. CASE Clears
    <3>0. 0 \in 0..MaxFails
      BY PersistAssumption
    <3>1. ram' \in Region
      BY <2>5, <3>0 DEF PersistTypeOK, Clears, Cleared, Region
    <3>2. run' \in Run
      BY <2>5 DEF PersistTypeOK, Clears, Run
    <3> QED BY <1>7, <2>5, <3>1, <3>2 DEF PersistTypeOK, Clears, Phases
  <2>6. CASE ShowsRecovery
    <3>1. ram' \in Region /\ owed' \in BOOLEAN
      BY <2>6 DEF PersistTypeOK, ShowsRecovery, Region
    <3> QED BY <1>7, <2>6, <3>1 DEF PersistTypeOK, ShowsRecovery, Phases
  <2>7. CASE JoinsWifi \/ GetsLease
    <3>1. ram' \in Region
      BY <2>7 DEF PersistTypeOK, JoinsWifi, GetsLease, Reaches, Region, Stages
    <3> QED BY <1>7, <2>7, <3>1 DEF PersistTypeOK, JoinsWifi, GetsLease, Reaches, Phases
  <2>8. CASE NetworkUp
    <3>1. ram' \in Region /\ run' \in Run
      BY <2>8 DEF PersistTypeOK, NetworkUp, Region, Stages, Run
    <3> QED BY <1>7, <2>8, <3>1 DEF PersistTypeOK, NetworkUp, Phases
  <2> QED BY <1>7, <2>1, <2>2, <2>3, <2>4, <2>5, <2>6, <2>7, <2>8 DEF Boots
<1>8. ASSUME Works, UNCHANGED <<dying, cut, torn, resets>> PROVE PersistTypeOK'
  <2>1. CASE Feeds
    <3>1. ram' \in Region /\ run' \in Run
      BY <2>1 DEF PersistTypeOK, Feeds, Region, Run
    <3> QED BY <1>8, <2>1, <3>1 DEF PersistTypeOK, Feeds
  <2>2. CASE TimePasses
    <3>1. run' \in Run
      BY <2>2, PersistAssumption DEF PersistTypeOK, TimePasses, Run
    <3> QED BY <1>8, <2>2, <3>1 DEF PersistTypeOK, TimePasses
  <2>3. CASE ApiCounts
    <3>1. ram' \in Region /\ run' \in Run
      BY <2>3 DEF PersistTypeOK, ApiCounts, Region, Run
    <3> QED BY <1>8, <2>3, <3>1 DEF PersistTypeOK, ApiCounts
  <2> QED BY <1>8, <2>1, <2>2, <2>3 DEF Works
<1> QED BY <1>0, <1>1, <1>2, <1>3, <1>4, <1>a, <1>b, <1>5, <1>6, <1>7, <1>8 DEF PersistNext

-----------------------------------------------------------------------------
(* Steps.                                                                  *)

\* A reset that the memory survives.
Warm == \E ends \in SUBSET Reasons : Restarts(ends) /\ UNCHANGED <<ram, told, owed>>

\* A step of the panic handler.
Dies == Panics \/ PanicZeroes \/ WritesMessage

LEMMA MemorySteps ==
    ASSUME PersistNext
    PROVE  \/ PowerCycle \/ Warm \/ Dies
           \/ (Boots \/ Works) /\ dying = "no" /\ dying' = "no" /\ UNCHANGED <<cut, torn>>
<1>1. PinReset \/ WatchdogBites \/ PanicResets \/ GivesUp => Warm
  BY DEF PinReset, WatchdogBites, PanicResets, GivesUp, Warm, Reasons
<1> QED BY <1>1 DEF PersistNext, Dies

LEMMA WarmValid ==
    ASSUME Warm
    PROVE  /\ Valid' => Valid
           /\ ~cut' => ~cut /\ dying \notin {"counted", "writing"}
           /\ phase' = "counting" /\ dying' = "no" /\ run' = NewRun /\ UNCHANGED <<ram, told, owed>>
<1>1. PICK ends \in SUBSET Reasons : Restarts(ends) /\ UNCHANGED <<ram, told, owed>>
  BY DEF Warm
<1>2. (~torn' => ~torn /\ ~Zeroing) /\ (~cut' => ~cut /\ dying \notin {"counted", "writing"})
  BY <1>1, Zenon DEF Restarts
<1> QED BY <1>1, <1>2 DEF Restarts, Valid

\* The handler zeroes the region, or it leaves what is not of the panic alone.
LEMMA HandlerSteps ==
    ASSUME PersistTypeOK, Booted, Dies
    PROVE  /\ UNCHANGED <<bitten, phase, run, last, told, torn>>
           /\ dying' # "no" /\ ram'.magic
           /\ \/ /\ phase = "counting" /\ ~ram.magic /\ dying' = "zeroing" /\ owed' = owed
              \/ /\ dying = "zeroing" /\ dying' = "counted"
                 /\ ram'.panics = 1 /\ ram'.shown = 0 /\ ram'.head = 0
              \/ /\ ram.magic /\ "zeroing" \notin {dying, dying'}
                 /\ ram'.panics = (IF dying = "no" THEN ram.panics + 1 ELSE ram.panics)
                 /\ dying' \in {"counted", "writing"} \/ ram'.msg = ram.panics
                 /\ dying = "no" => dying' = "counted"
                 /\ ram'.shown = ram.shown /\ ram'.head = ram.head /\ ram'.ring = ram.ring
                 /\ ram'.net = ram.net /\ ram'.fails = ram.fails /\ ram'.uptime = ram.uptime
                 /\ ram'.state = ram.state /\ ram'.reason = ram.reason
<1>1. CASE Panics /\ ram.magic
  BY <1>1 DEF Panics, Counts, PersistTypeOK, Region
<1>2. CASE Panics /\ ~ram.magic
  BY <1>2 DEF Panics, Booted, PersistTypeOK, Region
<1>3. CASE PanicZeroes
  BY <1>3 DEF PanicZeroes, Counts, Zeroed
<1>4. CASE WritesMessage
  BY <1>4 DEF WritesMessage, Booted, PersistTypeOK, Region
<1> QED BY <1>1, <1>2, <1>3, <1>4 DEF Dies

LEMMA BootedKeeps == ASSUME PersistTypeOK, Booted, PersistNext PROVE Booted'
<1>1. CASE PowerCycle
  BY <1>1 DEF Booted, PowerCycle, Restarts, NewRun, Garbage, Zeroed, Early
<1>2. CASE Warm
  BY <1>2, WarmValid DEF Booted, NewRun, Early
<1>3. CASE Dies
  <2>1. dying' = "zeroing" => phase = "counting" /\ ~owed' /\ told = <<>>
    BY <1>3, HandlerSteps DEF Booted
  <2> QED BY <1>3, <2>1, HandlerSteps DEF Booted
<1>4. CASE Boots /\ dying = "no" /\ dying' = "no"
  <2> USE <1>4
  <2>1. CASE ChecksMagic
    BY <2>1 DEF Booted, ChecksMagic, PersistTypeOK, Region, Early, Watched
  <2>2. CASE Zeroes
    BY <2>2 DEF Booted, Zeroes, Zeroed, PersistTypeOK, Early, Watched
  <2>3. CASE Classifies
    BY <2>3 DEF Booted, Classifies, PersistTypeOK, Region, Early, Watched
  <2>4. CASE Appends
    <3>1. ram'.magic
      BY <2>4 DEF Booted, Appends, RingAppend, PersistTypeOK, Region
    <3> QED BY <2>4, <3>1 DEF Booted, Appends, RingAppend, Early, Watched
  <2>5. CASE Clears
    <3>1. ram'.magic = ram.magic
      BY <2>5 DEF Clears, Cleared, PersistTypeOK, Region
    <3>2. run'.ready /\ run'.fed = run.fed
      BY <2>5 DEF Clears, PersistTypeOK, Run
    <3> QED BY <2>5, <3>1, <3>2 DEF Booted, Clears, Early, Watched
  <2>6. CASE ShowsRecovery
    <3>1. ram'.magic = ram.magic
      BY <2>6 DEF ShowsRecovery, PersistTypeOK, Region
    <3> QED BY <2>6, <3>1 DEF Booted, ShowsRecovery, Early, Watched
  <2>7. CASE JoinsWifi \/ GetsLease
    <3>1. ram'.magic = ram.magic
      BY <2>7 DEF JoinsWifi, GetsLease, Reaches, PersistTypeOK, Region
    <3> QED BY <2>7, <3>1 DEF Booted, JoinsWifi, GetsLease, Reaches, Early, Watched
  <2>8. CASE NetworkUp
    <3>1. ram'.magic = ram.magic
      BY <2>8 DEF NetworkUp, PersistTypeOK, Region
    <3>2. run'.ready = run.ready /\ run'.fed = run.fed
      BY <2>8 DEF NetworkUp, PersistTypeOK, Run
    <3> QED BY <2>8, <3>1, <3>2 DEF Booted, NetworkUp, Early, Watched
  <2> QED BY <2>1, <2>2, <2>3, <2>4, <2>5, <2>6, <2>7, <2>8 DEF Boots
<1>5. CASE Works /\ dying = "no" /\ dying' = "no"
  <2>1. ram'.magic = ram.magic
    BY <1>5 DEF Works, Feeds, TimePasses, ApiCounts, PersistTypeOK, Region
  <2>2. /\ run'.ready = run.ready /\ run'.net = run.net
        /\ run'.fails = run.fails \/ phase = "running"
        /\ run'.fed = run.fed \/ phase \in Watched
    BY <1>5 DEF Works, Feeds, TimePasses, ApiCounts, PersistTypeOK, Run
  <2>3. UNCHANGED <<phase, told, owed>> /\ dying = "no" /\ dying' = "no"
    BY <1>5 DEF Works, Feeds, TimePasses, ApiCounts
  <2>4. phase = "running" => phase \notin Early
    BY DEF Early
  <2> QED BY <1>5, <2>1, <2>2, <2>3, <2>4 DEF Booted, Works, Feeds, TimePasses, ApiCounts
<1> QED BY <1>1, <1>2, <1>3, <1>4, <1>5, MemorySteps

LEMMA CountedKeeps == ASSUME PersistTypeOK, Booted, Counted, PersistNext PROVE Counted'
<1>1. CASE PowerCycle
  BY <1>1 DEF Counted, Valid, Zeroing, PowerCycle, Garbage, Zeroed
<1>2. CASE Warm
  <2>1. (Valid' => Valid) /\ phase' = "counting" /\ dying' = "no" /\ UNCHANGED <<ram, owed>>
    BY <1>2, WarmValid
  <2> QED BY <2>1 DEF Counted, Watched
<1>3. CASE Dies
  <2>1. ram.panics \in Nat /\ ram.shown \in Nat
    BY DEF PersistTypeOK, Region
  <2>2. phase' = "zeroing" <=> phase = "zeroing"
    BY <1>3, HandlerSteps
  <2> QED BY <1>3, <2>1, <2>2, HandlerSteps DEF Counted, Valid, Zeroing
<1>4. CASE (Boots \/ Works) /\ dying = "no" /\ dying' = "no" /\ UNCHANGED <<cut, torn>>
  <2> USE <1>4
  <2>0. ram.panics \in Nat /\ ram.shown \in Nat
    BY DEF PersistTypeOK, Region
  <2>1. CASE ChecksMagic
    <3>1. ram'.panics = ram.panics /\ ram'.shown = ram.shown
      BY <2>1 DEF ChecksMagic, PersistTypeOK, Region
    <3> QED BY <2>1, <3>1 DEF Counted, Valid, Zeroing, ChecksMagic, Watched
  <2>2. CASE Zeroes
    BY <2>2 DEF Booted, Counted, Valid, Zeroing, Zeroes, Zeroed, Watched
  <2>3. CASE ShowsRecovery
    <3>1. ram'.panics = ram.panics /\ ram'.magic = ram.magic
          /\ ram'.shown = (IF ram.panics > ram.shown THEN ram.panics ELSE ram.shown)
          /\ (ram.panics > ram.shown => ~owed')
      BY <2>3 DEF ShowsRecovery, PersistTypeOK, Region
    <3> QED BY <2>0, <2>3, <3>1 DEF Counted, Valid, Zeroing, ShowsRecovery, Watched
  <2>4. CASE Classifies \/ Appends \/ Clears \/ JoinsWifi \/ GetsLease \/ NetworkUp \/ Works
    <3>1. ram'.panics = ram.panics /\ ram'.shown = ram.shown /\ ram'.magic = ram.magic
      <4>1. CASE Classifies \/ Appends \/ Clears
        BY <4>1 DEF Classifies, Appends, RingAppend, Clears, Cleared, PersistTypeOK, Region
      <4>2. CASE JoinsWifi \/ GetsLease \/ NetworkUp
        BY <4>2 DEF JoinsWifi, GetsLease, Reaches, NetworkUp, PersistTypeOK, Region
      <4>3. CASE Works
        BY <4>3 DEF Works, Feeds, TimePasses, ApiCounts, PersistTypeOK, Region
      <4> QED BY <2>4, <4>1, <4>2, <4>3
    <3>2. owed' = owed /\ (phase' \in Watched <=> phase \in Watched)
          /\ (phase' = "zeroing" <=> phase = "zeroing")
      BY <2>4 DEF Classifies, Appends, RingAppend, Clears, JoinsWifi, GetsLease, Reaches,
                  NetworkUp, Works, Feeds, TimePasses, ApiCounts, Watched
    <3> QED BY <3>1, <3>2 DEF Counted, Valid, Zeroing
  <2> QED BY <2>1, <2>2, <2>3, <2>4 DEF Boots
<1> QED BY <1>1, <1>2, <1>3, <1>4, MemorySteps

LEMMA WordedKeeps == ASSUME PersistTypeOK, Booted, Worded, PersistNext PROVE Worded'
<1>1. CASE PowerCycle
  BY <1>1 DEF Worded, PowerCycle
<1>2. CASE Warm
  BY <1>2, WarmValid DEF Worded
<1>3. CASE Dies
  BY <1>3, HandlerSteps DEF Worded, Booted
<1>4. CASE (Boots \/ Works) /\ dying = "no" /\ dying' = "no" /\ UNCHANGED <<cut, torn>>
  <2> USE <1>4
  <2>1. CASE Zeroes
    BY <2>1 DEF Zeroes, Worded, Booted
  <2>2. CASE ChecksMagic \/ Classifies \/ Appends \/ Clears
    BY <2>2 DEF ChecksMagic, Classifies, Appends, RingAppend, Clears, Cleared, Worded,
                PersistTypeOK, Region
  <2>3. CASE ShowsRecovery
    <3>1. ram'.msg = ram.msg /\ ram'.panics = ram.panics /\ (owed' => owed)
      BY <2>3 DEF ShowsRecovery, PersistTypeOK, Region
    <3> QED BY <3>1 DEF Worded
  <2>4. CASE JoinsWifi \/ GetsLease \/ NetworkUp
    BY <2>4 DEF JoinsWifi, GetsLease, Reaches, NetworkUp, Worded, PersistTypeOK, Region
  <2>5. CASE Works
    BY <2>5 DEF Works, Feeds, TimePasses, ApiCounts, Worded, PersistTypeOK, Region
  <2> QED BY <2>1, <2>2, <2>3, <2>4, <2>5 DEF Boots
<1> QED BY <1>1, <1>2, <1>3, <1>4, MemorySteps

LEMMA RingKeptKeeps == ASSUME PersistTypeOK, Booted, RingKept, PersistNext PROVE RingKept'
<1> DEFINE At(h, i) == (h + RingSize - i) % RingSize
<1>0. /\ RingSize \in Nat \ {0} /\ ram.head \in Nat /\ ram'.head \in Nat
      /\ Len(told) \in Nat /\ LastRun \in Entry
      /\ ram.ring \in [0..(RingSize - 1) -> Entry]
  <2>1. PersistTypeOK'
    BY MemoryTypes
  <2>2. LastRun \in Entry
    BY RegionTypes DEF PersistTypeOK
  <2>3. Len(told) \in Nat
    BY DEF PersistTypeOK
  <2> QED BY <2>1, <2>2, <2>3, PersistAssumption DEF PersistTypeOK, Region
<1>1. CASE PowerCycle
  BY <1>1 DEF RingKept, Valid, Zeroing, PowerCycle, Garbage, Zeroed
<1>2. CASE Warm
  BY <1>2, WarmValid DEF RingKept
<1>3. CASE told' = <<>> /\ (Valid' => ram'.head = 0)
  BY <1>0, <1>3 DEF RingKept, Earlier
<1>4. CASE (Valid' => Valid) /\ UNCHANGED told /\ ram'.head = ram.head /\ ram'.ring = ram.ring
  BY <1>4 DEF RingKept
<1>5. CASE Dies
  <2>1. UNCHANGED told /\ (Valid' => Valid \/ (ram'.head = 0 /\ told = <<>>))
    BY <1>5, HandlerSteps DEF Valid, Zeroing, Booted
  <2>2. CASE Valid' => Valid
    <3>1. Valid' => ram'.head = ram.head /\ ram'.ring = ram.ring
      BY <1>5, <2>2, HandlerSteps DEF Valid, Zeroing
    <3> QED BY <2>1, <2>2, <3>1 DEF RingKept
  <2> QED BY <1>3, <2>1, <2>2
<1>6. CASE (Boots \/ Works) /\ dying = "no" /\ dying' = "no" /\ torn' = torn
  <2>1. CASE ChecksMagic
    <3>1. ram'.head = ram.head /\ ram'.ring = ram.ring
      BY <2>1 DEF ChecksMagic, PersistTypeOK, Region
    <3> QED BY <1>4, <1>6, <2>1, <3>1 DEF ChecksMagic, Valid, Zeroing
  <2>2. CASE Zeroes
    <3>1. ram'.head = 0
      BY <2>2 DEF Zeroes, Zeroed
    <3> QED BY <1>3, <2>2, <3>1 DEF Zeroes, Booted
  <2>3. CASE Appends
    <3> USE <2>3
    <3>1. (Valid' => Valid) /\ Slot = At(ram.head, 0)
      <4>1. Slot = (ram.head + RingSize) % RingSize
        BY <1>0, SlotAgain DEF Slot
      <4>2. ram.head + RingSize - 0 = ram.head + RingSize
        BY <1>0
      <4>3. ram'.magic = ram.magic
        BY DEF Appends, RingAppend, PersistTypeOK, Region
      <4> QED BY <1>6, <4>1, <4>2, <4>3 DEF Appends, RingAppend, Valid, Zeroing
    <3>2. CASE UNCHANGED told /\ ram' = [ram EXCEPT !.ring[Slot] = LastRun]
      <4>1. ram'.head = ram.head /\ ram'.ring = [ram.ring EXCEPT ![Slot] = LastRun]
        BY <3>2 DEF PersistTypeOK, Region
      <4>2. ASSUME NEW i \in 1..(RingSize - 1) PROVE ram'.ring[At(ram.head, i)] = ram.ring[At(ram.head, i)]
        <5>1. At(ram.head, i) # Slot
          BY <1>0, OtherSlot DEF Slot
        <5> HIDE DEF At
        <5> QED BY <1>0, <4>1, <5>1
      <4> QED BY <3>1, <3>2, <4>1, <4>2 DEF RingKept
    <3>3. CASE Tells /\ ram' = [ram EXCEPT !.head = @ + 1] /\ ram.ring[Slot] = LastRun
      <4>1. ram'.head = ram.head + 1 /\ ram'.ring = ram.ring
        BY <3>3 DEF PersistTypeOK, Region
      <4> SUFFICES ASSUME Valid' PROVE RingKept'
        BY DEF RingKept
      <4>2. Len(told) = Earlier(ram.head, RingSize)
        BY <3>1 DEF RingKept
      <4>3. Len(told') = Earlier(ram'.head, RingSize)
        BY <1>0, <3>3, <4>1, <4>2, TellsNewest DEF Earlier
      <4>4. ASSUME NEW i \in 1..(RingSize - 1), i <= ram'.head
            PROVE  ram'.ring[At(ram'.head, i)] = told'[i]
        <5>1. i \in 1..Len(told')
          BY <1>0, <4>3, <4>4 DEF Earlier
        <5>2. CASE i = 1
          <6>1. ram'.head + RingSize - i = ram.head + RingSize - 0
            BY <1>0, <4>1, <5>2
          <6>2. At(ram'.head, i) = At(ram.head, 0)
            BY <6>1
          <6> HIDE DEF At
          <6> QED BY <3>1, <3>3, <4>1, <5>2, <6>2, TellsNewest
        <5>3. CASE i > 1
          <6>0. i - 1 \in 1..(RingSize - 1) /\ i - 1 <= ram.head
            BY <1>0, <4>1, <4>4, <5>3
          <6>1. ram'.head + RingSize - i = ram.head + RingSize - (i - 1)
            BY <1>0, <4>1
          <6>2. At(ram'.head, i) = At(ram.head, i - 1)
            BY <6>1
          <6>3. ram.ring[At(ram.head, i - 1)] = told[i - 1]
            BY <3>1, <6>0 DEF RingKept
          <6> HIDE DEF At
          <6> QED BY <3>3, <4>1, <5>1, <5>3, <6>2, <6>3, TellsNewest
        <5> QED BY <5>2, <5>3
      <4> QED BY <4>3, <4>4 DEF RingKept
    <3> QED BY <3>2, <3>3 DEF Appends, RingAppend
  <2>4. CASE Classifies \/ Clears \/ ShowsRecovery \/ JoinsWifi \/ GetsLease \/ NetworkUp \/ Works
    <3>1. ram'.head = ram.head /\ ram'.ring = ram.ring /\ ram'.magic = ram.magic
      <4>1. CASE Classifies \/ Clears \/ ShowsRecovery
        BY <4>1 DEF Classifies, ShowsRecovery, Clears, Cleared, PersistTypeOK, Region
      <4>2. CASE JoinsWifi \/ GetsLease \/ NetworkUp
        BY <4>2 DEF JoinsWifi, GetsLease, Reaches, NetworkUp, PersistTypeOK, Region
      <4>3. CASE Works
        BY <4>3 DEF Works, Feeds, TimePasses, ApiCounts, PersistTypeOK, Region
      <4> QED BY <2>4, <4>1, <4>2, <4>3
    <3>2. UNCHANGED told /\ (phase' = "zeroing" <=> phase = "zeroing")
      BY <2>4 DEF Classifies, Clears, ShowsRecovery, JoinsWifi, GetsLease, Reaches,
                  NetworkUp, Works, Feeds, TimePasses, ApiCounts
    <3> QED BY <1>4, <1>6, <3>1, <3>2 DEF Valid, Zeroing
  <2> QED BY <1>6, <2>1, <2>2, <2>3, <2>4 DEF Boots
<1> QED BY <1>1, <1>2, <1>5, <1>6, MemorySteps

LEMMA MarkedKeeps == ASSUME PersistTypeOK, Booted, Marked, PersistNext PROVE Marked'
<1>1. CASE PowerCycle \/ Warm
  <2>1. ~run'.ready /\ phase' = "counting"
    BY <1>1, WarmValid DEF PowerCycle, Restarts, NewRun
  <2> QED BY <2>1 DEF Marked, Watched
<1>3. CASE Dies
  <2>1. phase = "counting" => ~run.ready
    BY DEF Booted, Early
  <2>2. dying = "zeroing" => phase = "counting"
    BY DEF Booted
  <2> QED BY <1>3, <2>1, <2>2, HandlerSteps DEF Marked, Watched
<1>4. CASE Boots /\ dying = "no" /\ dying' = "no"
  <2>1. CASE ChecksMagic \/ Zeroes \/ Classifies \/ Appends
    <3>1. run' = run /\ ~run.ready /\ phase' \in Early
      BY <2>1 DEF ChecksMagic, Zeroes, Classifies, Appends, RingAppend, Booted, Early
    <3> QED BY <3>1 DEF Marked, Early, Watched
  <2>2. CASE Clears
    <3>1. ~ram'.net /\ ram'.net \in BOOLEAN /\ ram'.fails = 0
      BY <2>2, MemoryTypes DEF Clears, Cleared, PersistTypeOK, Region
    <3>2. ~run'.net /\ run'.net \in BOOLEAN /\ run'.fails = 0 /\ run'.fed = -1
      BY <2>2, MemoryTypes DEF Clears, PersistTypeOK, Run, Booted, Early, Watched
    <3> QED BY <2>2, <3>1, <3>2 DEF Clears, Marked, Watched
  <2>3. CASE ShowsRecovery
    <3>1. ram'.net = ram.net /\ ram'.fails = ram.fails /\ ram'.uptime = ram.uptime
      BY <2>3 DEF ShowsRecovery, PersistTypeOK, Region
    <3> QED BY <2>3, <3>1 DEF ShowsRecovery, Marked
  <2>4. CASE JoinsWifi \/ GetsLease
    <3>1. /\ ram'.net = ram.net /\ ram'.fails = ram.fails /\ ram'.uptime = ram.uptime
          /\ ram'.state \in {"wifi", "dhcp"}
      BY <2>4 DEF JoinsWifi, GetsLease, Reaches, PersistTypeOK, Region
    <3>2. phase \in Watched /\ phase' \in {"wifi", "dhcp"} /\ UNCHANGED <<run, bitten>>
      BY <2>4 DEF JoinsWifi, GetsLease, Reaches, Watched
    <3> QED BY <3>1, <3>2 DEF Marked
  <2>5. CASE NetworkUp
    <3>1. ram'.net = TRUE /\ ram'.fails = ram.fails /\ ram'.uptime = ram.uptime /\ ram'.state = "screen"
      BY <2>5 DEF NetworkUp, PersistTypeOK, Region
    <3>2. run'.net = TRUE /\ run'.fails = run.fails /\ run'.fed = run.fed /\ run'.ready = run.ready
      BY <2>5 DEF NetworkUp, PersistTypeOK, Run
    <3> QED BY <2>5, <3>1, <3>2 DEF NetworkUp, Marked, Watched
  <2> QED BY <1>4, <2>1, <2>2, <2>3, <2>4, <2>5 DEF Boots
<1>5. CASE Works
  <2>0. UNCHANGED <<phase, bitten>>
    BY <1>5 DEF Works, Feeds, TimePasses, ApiCounts
  <2>1. CASE Feeds
    <3>1. /\ ram'.net = ram.net /\ ram'.fails = ram.fails /\ ram'.uptime = run.up
          /\ ram'.state = ram.state
      BY <2>1 DEF Feeds, PersistTypeOK, Region
    <3>2. /\ run'.net = run.net /\ run'.fails = run.fails /\ run'.fed = run.up
          /\ run'.ready = run.ready
      BY <2>1 DEF Feeds, PersistTypeOK, Run
    <3> QED BY <2>0, <3>1, <3>2 DEF Marked
  <2>2. CASE TimePasses
    <3>2. /\ run'.net = run.net /\ run'.fails = run.fails /\ run'.fed = run.fed
          /\ run'.ready = run.ready
      BY <2>2 DEF TimePasses, PersistTypeOK, Run
    <3> QED BY <2>0, <2>2, <3>2 DEF Marked, TimePasses
  <2>3. CASE ApiCounts
    <3>0. PICK n : ram' = [ram EXCEPT !.fails = n] /\ run' = [run EXCEPT !.fails = n]
      BY <2>3 DEF ApiCounts
    <3>1. /\ ram'.net = ram.net /\ ram'.fails = n /\ ram'.uptime = ram.uptime
          /\ ram'.state = ram.state
      BY <3>0 DEF PersistTypeOK, Region
    <3>2. /\ run'.net = run.net /\ run'.fails = n /\ run'.fed = run.fed
          /\ run'.ready = run.ready
      BY <3>0 DEF PersistTypeOK, Run
    <3> QED BY <2>0, <3>1, <3>2 DEF Marked
  <2> QED BY <1>5, <2>1, <2>2, <2>3 DEF Works
<1> QED BY <1>1, <1>3, <1>4, <1>5, MemorySteps

LEMMA RememberedKeeps ==
    ASSUME PersistTypeOK, Booted, Counted, Marked, Remembered, PersistNext
    PROVE  Remembered'
<1>0. ram.panics \in Nat /\ ram.shown \in Nat
  BY DEF PersistTypeOK, Region
<1>1. CASE PowerCycle
  BY <1>1 DEF Remembered, Valid, Zeroing, PowerCycle, Garbage, Zeroed
<1>2. ASSUME NEW ends \in SUBSET Reasons, Restarts(ends), UNCHANGED ram,
             Valid /\ phase \in Watched /\ run.fed # -1 => Classified' \in ends
      PROVE  Remembered'
  <2>1. /\ phase' = "counting"
        /\ last'.ready = run.ready /\ last'.net = run.net /\ last'.fails = run.fails
        /\ last'.fed = run.fed /\ last'.ends = ends
    BY <1>2 DEF Restarts, PersistTypeOK, Run
  <2>2. Valid' => Valid
    <3>1. ~torn' => ~torn /\ ~Zeroing
      BY <1>2, Zenon DEF Restarts
    <3> QED BY <1>2, <3>1 DEF Valid, Zeroing
  <2> QED BY <1>2, <2>1, <2>2 DEF Remembered, Marked, Booted
<1>3. CASE PinReset
  <2> DEFINE ends == IF dying # "no" THEN {"Panic"}
                     ELSE IF phase \in BringUp THEN {"InitTimeout", "OtherSoftReset"}
                     ELSE {"OtherSoftReset"}
  <2>1. Restarts(ends) /\ ends \in SUBSET Reasons /\ ~bitten' /\ ram' = ram
    BY <1>3 DEF PinReset, Reasons
  <2>2. Valid /\ phase \in Watched /\ run.fed # -1 => Classified' \in ends
    BY <1>0, <2>1 DEF Classified, Counted, Marked, Watched, BringUp
  <2> HIDE DEF ends
  <2> QED BY <1>2, <2>1, <2>2
<1>4. CASE WatchdogBites
  <2> DEFINE ends == IF dying # "no" THEN {"Panic"} ELSE {"WatchdogTimeout"}
  <2>1. Restarts(ends) /\ ends \in SUBSET Reasons /\ bitten' /\ ram' = ram
    BY <1>4 DEF WatchdogBites, Reasons
  <2>2. Valid /\ phase \in Watched /\ run.fed # -1 => Classified' \in ends
    BY <1>0, <2>1 DEF Classified, Counted
  <2> HIDE DEF ends
  <2> QED BY <1>2, <2>1, <2>2
<1>5. CASE PanicResets
  <2>1. Restarts({"Panic"}) /\ {"Panic"} \in SUBSET Reasons /\ dying # "no" /\ ram' = ram
    BY <1>5 DEF PanicResets, Reasons
  <2>2. Valid => Classified' \in {"Panic"}
    BY <1>0, <2>1 DEF Classified, Counted
  <2> QED BY <1>2, <2>1, <2>2
<1>6. CASE GivesUp
  <2>1. /\ Restarts({"InitTimeout"}) /\ {"InitTimeout"} \in SUBSET Reasons
        /\ dying = "no" /\ phase \in {"wifi", "dhcp"} /\ ram' = ram /\ bitten' = bitten
    BY <1>6 DEF GivesUp, Reasons
  <2>2. Valid => Classified' \in {"InitTimeout"}
    BY <1>0, <2>1 DEF Classified, Counted, Marked, Watched
  <2> QED BY <1>2, <2>1, <2>2
<1>7. CASE Dies
  <2>1. phase' = phase /\ dying' # "no" /\ last' = last
    BY <1>7, HandlerSteps
  <2>2. CASE phase = "counting"
    BY <2>1, <2>2 DEF Remembered
  <2>3. CASE phase # "counting"
    <3>1. (Valid' => Valid) /\ ram'.net = ram.net /\ ram'.fails = ram.fails
          /\ ram'.uptime = ram.uptime /\ ram'.reason = ram.reason
      BY <1>7, <2>3, HandlerSteps DEF Valid, Zeroing, Booted
    <3> QED BY <2>1, <2>3, <3>1 DEF Remembered
  <2> QED BY <2>2, <2>3
<1>8. CASE (Boots \/ Works) /\ dying = "no" /\ dying' = "no" /\ UNCHANGED <<cut, torn>>
  <2> USE <1>8
  <2>1. CASE ChecksMagic
    <3>1. CASE ram.magic
      <4>1. ram' = ram
        BY <2>1, <3>1 DEF ChecksMagic, PersistTypeOK, Region
      <4>2. phase = "counting" /\ phase' = "classifying" /\ UNCHANGED <<bitten, last>>
        BY <2>1, <3>1 DEF ChecksMagic
      <4>3. (Valid' => Valid) /\ Classified' = Classified
        BY <4>1, <4>2 DEF Valid, Zeroing, Classified
      <4> QED BY <4>1, <4>2, <4>3 DEF Remembered
    <3>2. CASE ~ram.magic
      BY <2>1, <3>2 DEF ChecksMagic, Remembered, Valid, Zeroing
    <3> QED BY <3>1, <3>2
  <2>2. CASE Classifies
    <3>1. /\ ram'.net = ram.net /\ ram'.fails = ram.fails /\ ram'.uptime = ram.uptime
          /\ ram'.magic = ram.magic /\ ram'.reason = Classified
      BY <2>2 DEF Classifies, PersistTypeOK, Region
    <3> QED BY <2>2, <3>1 DEF Classifies, Remembered, Valid, Zeroing
  <2>3. CASE Appends /\ phase' = phase
    <3>1. /\ ram'.net = ram.net /\ ram'.fails = ram.fails /\ ram'.uptime = ram.uptime
          /\ ram'.magic = ram.magic /\ ram'.reason = ram.reason
      BY <2>3 DEF Appends, RingAppend, PersistTypeOK, Region
    <3> QED BY <2>3, <3>1 DEF Appends, Remembered, Valid, Zeroing
  <2>4. CASE phase' \notin {"counting", "classifying", "appending"}
    BY <2>4 DEF Remembered
  <2>5. CASE TimePasses
    BY <2>5 DEF TimePasses, Remembered, Valid, Zeroing, Classified
  <2> QED BY <2>1, <2>2, <2>3, <2>4, <2>5
       DEF Boots, Works, Zeroes, Appends, RingAppend, Clears, ShowsRecovery, JoinsWifi, GetsLease,
           Reaches, NetworkUp, Feeds, ApiCounts, Watched
<1>9. \/ PowerCycle \/ PinReset \/ WatchdogBites \/ Dies \/ PanicResets \/ GivesUp
      \/ (Boots \/ Works) /\ dying = "no" /\ dying' = "no" /\ UNCHANGED <<cut, torn>>
  BY DEF PersistNext, Dies
<1> QED BY <1>1, <1>3, <1>4, <1>5, <1>6, <1>7, <1>8, <1>9, Zenon

-----------------------------------------------------------------------------
(* What the memory promises.                                               *)

LEMMA MemoryStart == PersistInit => PersistTypeOK /\ Memorised
<1> SUFFICES ASSUME PersistInit PROVE PersistTypeOK /\ Memorised
  OBVIOUS
<1>1. NewRun \in Run
  BY PersistAssumption DEF Run, NewRun
<1>a. [NewRun EXCEPT !.ends = {"ColdBoot"}] \in Run
  BY <1>1 DEF Run, Reasons
<1>b. resets \in 0..MaxResets /\ Len(told) <= RingSize /\ told \in Seq(Entry)
  BY PersistAssumption DEF PersistInit
<1>2. PersistTypeOK
  BY <1>1, <1>a, <1>b, RegionTypes DEF PersistInit, PersistTypeOK, Phases, Handler
<1>3. ~ram.magic /\ phase = "counting" /\ dying = "no" /\ ~owed /\ told = <<>>
  BY DEF PersistInit, Garbage, Zeroed
<1>4. run = NewRun
  BY DEF PersistInit
<1> QED BY <1>2, <1>3, <1>4
     DEF Memorised, Booted, Counted, Worded, RingKept, Marked, Remembered, Valid, Zeroing,
         NewRun, Early, Watched

LEMMA MemoryStep ==
    PersistTypeOK /\ Memorised /\ [PersistNext]_persistVars => PersistTypeOK' /\ Memorised'
<1> SUFFICES ASSUME PersistTypeOK, Memorised, [PersistNext]_persistVars
             PROVE  PersistTypeOK' /\ Memorised'
  OBVIOUS
<1>1. PersistTypeOK'
  BY MemoryTypes
<1>2. CASE PersistNext
  <2>1. Booted /\ Counted /\ Worded /\ RingKept /\ Marked /\ Remembered
    BY DEF Memorised
  <2>2. Booted' /\ Counted' /\ Worded' /\ RingKept' /\ Marked' /\ Remembered'
    BY <1>2, <2>1, BootedKeeps, CountedKeeps, WordedKeeps, RingKeptKeeps, MarkedKeeps,
       RememberedKeeps, Zenon
  <2> QED BY <1>1, <2>2 DEF Memorised
<1>3. CASE UNCHANGED persistVars
  BY <1>1, <1>3 DEF persistVars, Memorised, Booted, Counted, Worded, RingKept, Marked,
                   Remembered, Valid, Zeroing, Classified
<1> QED BY <1>1, <1>2, <1>3

(***************************************************************************)
(* The invariant of the memory (pico/src/persist.rs): resets between any   *)
(* two of its words included.                                              *)
(***************************************************************************)
THEOREM MemoryHolds == PersistSpec => [](PersistTypeOK /\ Memorised)
  BY MemoryStart, MemoryStep, PTL DEF PersistSpec

(***************************************************************************)
(* The recovery view is on the screen before the panel works again, with   *)
(* the last panic's message unless a reset fell between that panic's count *)
(* and its message (record_and_reset), whatever else a reset cuts.         *)
(***************************************************************************)
THEOREM NoPanicUnseen == PersistSpec => []PanicsShown
<1>1. PersistTypeOK /\ Memorised => PanicsShown
  <2> SUFFICES ASSUME PersistTypeOK, Memorised, dying = "no", ~torn
               PROVE  /\ phase \in Watched => ~owed
                      /\ phase = "recovering" /\ owed =>
                            ram.panics > ram.shown /\ (~cut => ram.msg = ram.panics)
    BY DEF PanicsShown
  <2>1. phase \in Watched \cup {"recovering"} => Valid
    BY DEF Memorised, Booted, Valid, Zeroing, Watched
  <2>2. ram.panics \in Nat /\ ram.shown \in Nat
    BY DEF PersistTypeOK, Region
  <2> QED BY <2>1, <2>2 DEF Memorised, Counted, Worded
<1> QED BY <1>1, MemoryHolds, PTL

(***************************************************************************)
(* ring_read gives what the boots wrote, newest first: a reset inside      *)
(* ring_append costs at most the oldest entry.                             *)
(***************************************************************************)
THEOREM RingIsKept == PersistSpec => []RingKeeps
<1>1. PersistTypeOK /\ Memorised => RingKeeps
  <2> SUFFICES ASSUME PersistTypeOK, Memorised, ~Zeroing, ram.magic, ~torn,
                      NEW i \in DOMAIN RingRead, i < RingSize
               PROVE  i \in DOMAIN told /\ RingRead[i] = told[i]
    BY DEF RingKeeps
  <2>1. RingKept /\ Valid
    BY DEF Memorised, Valid, Zeroing
  <2>2. RingSize \in Nat \ {0} /\ ram.head \in Nat /\ told \in Seq(Entry)
    BY PersistAssumption DEF PersistTypeOK, Region
  <2>3. i \in 1..Earlier(ram.head, RingSize)
        /\ RingRead[i] = ram.ring[(ram.head + RingSize - i) % RingSize]
    BY DEF RingRead
  <2>4. i \in 1..(RingSize - 1) /\ i <= ram.head
    BY <2>2, <2>3 DEF Earlier
  <2>5. DOMAIN told = 1..Len(told)
    BY <2>2
  <2> QED BY <2>1, <2>3, <2>4, <2>5 DEF RingKept
<1> QED BY <1>1, MemoryHolds, PTL

(***************************************************************************)
(* What the boot puts in the ring is how the run before it ended, whatever *)
(* ended it and whenever (init_at_boot, classify_reset).                   *)
(***************************************************************************)
THEOREM LastRunIsTold == PersistSpec => BootTellsLastRun
<1>1. ASSUME PersistTypeOK, Memorised, PersistNext,
             phase = "appending", phase' = "clearing", last.ready, ~torn
      PROVE  LET entry == told'[1]
             IN /\ entry.net = last.net /\ entry.fails = last.fails
                /\ last.fed # -1 => entry.reason \in last.ends /\ entry.uptime = last.fed
  <2>1. Appends /\ Tells
    BY <1>1 DEF PersistNext, PowerCycle, PinReset, WatchdogBites, Panics, PanicZeroes,
                WritesMessage, PanicResets, GivesUp, Restarts, Boots, Works, ChecksMagic, Zeroes,
                Classifies, Appends, RingAppend, Clears, ShowsRecovery,
                JoinsWifi, GetsLease, Reaches, NetworkUp, Feeds, TimePasses, ApiCounts
  <2>2. told'[1] = LastRun
    BY <1>1, <2>1, TellsNewest
  <2>3. Valid
    BY <1>1 DEF Memorised, Booted, Valid, Zeroing
  <2> QED BY <1>1, <2>2, <2>3 DEF Memorised, Remembered, LastRun
<1>2. PersistTypeOK /\ Memorised /\ [PersistNext]_persistVars =>
        [phase = "appending" /\ phase' = "clearing" /\ last.ready /\ ~torn =>
           LET entry == told'[1]
           IN /\ entry.net = last.net /\ entry.fails = last.fails
              /\ last.fed # -1 => entry.reason \in last.ends /\ entry.uptime = last.fed]_persistVars
  BY <1>1
<1> QED BY <1>2, MemoryHolds, PTL DEF PersistSpec, BootTellsLastRun

-----------------------------------------------------------------------------
(* The panel they are tasks of.                                            *)

(***************************************************************************)
(* The panel implements the knob, the memory and the display by themselves *)
(* (pico/src/input.rs, persist.rs, display.rs): they share nothing.        *)
(***************************************************************************)
THEOREM TasksAlone == Spec => InputSpec /\ PersistSpec /\ ScreenSpec
<1>1. Init => InputInit /\ PersistInit /\ ScreenInit
  BY DEF Init
<1>2. [Next]_vars => [InputNext]_inputVars /\ [PersistNext]_persistVars /\ [ScreenNext]_screenVars
  BY DEF Next, Knob, Memory, Display, Displays, vars
<1> QED BY <1>1, <1>2, PTL DEF Spec, InputSpec, PersistSpec, ScreenSpec

(***************************************************************************)
(* What the tasks keep has the ranges their code gives it, for every       *)
(* timing, every text and every reset.                                     *)
(***************************************************************************)
THEOREM PanelTasksTypes == Spec => []TypeOK
<1> DEFINE Follows == followed \in {"knob", "memory", "display"}
<1>1. Init => Follows
  BY DEF Init
<1>2. Follows /\ [Next]_vars => Follows'
  BY DEF Next, Knob, Memory, Display, Displays, vars
<1>3. InputSpec => []InputTypeOK
  BY KnobTypes, PTL
<1>4. PersistSpec => []PersistTypeOK
  BY MemoryHolds, PTL
<1>5. InputTypeOK /\ PersistTypeOK /\ ScreenTypeOK /\ Follows => TypeOK
  BY DEF TypeOK
<1> HIDE DEF Follows
<1> QED BY <1>1, <1>2, <1>3, <1>4, <1>5, TasksAlone, ScreenTypes, PTL DEF Spec

(***************************************************************************)
(* The properties of the run, for every timing, every text and every reset.*)
(***************************************************************************)
THEOREM PanelTasksSafe ==
    Spec => /\ [](HeldIsPressed /\ GlassShows /\ PanicsShown /\ RingKeeps)
            /\ TwoSamplesEach /\ BootTellsLastRun /\ TurnIsHad
  BY TasksAlone, HeldPresses, NoGlitch, GlassIsCurrent, TurnsAreHad, NoPanicUnseen, RingIsKept,
     LastRunIsTold, PTL
=============================================================================
