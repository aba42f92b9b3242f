--------------------------------- MODULE Lcd ---------------------------------
(***************************************************************************)
(* lcd_plan.rs: what a character LCD shows.  A screen is planned as a top  *)
(* row and the texts that take turns on the bottom one; the animator       *)
(* resolves a plan against the clock, and says which cells to write.       *)
(*                                                                         *)
(* A text is a sequence of cells; which words a view is made of is left    *)
(* out.  Instants are kept as the time since, or until, them, as far as    *)
(* the code compares it.                                                   *)
(***************************************************************************)
EXTENDS Integers, Sequences, TLC

CONSTANTS
    Blank,          \* the cell ' '
    Width,          \* LCD_WIDTH
    MinSlotHold,    \* MIN_SLOT_HOLD
    ScrollStep,     \* SCROLL_STEP
    CharScrollCount,\* CHAR_SCROLL_COUNT
    EndPause,       \* END_PAUSE
    Second          \* a second, in the unit of the others

ASSUME LcdAssumption ==
    /\ {Width, MinSlotHold, ScrollStep, CharScrollCount, Second} \subseteq Nat \ {0}
    /\ EndPause \in Nat

None == <<>>
Least(a, b) == IF a < b THEN a ELSE b
Columns == 1..Width

-----------------------------------------------------------------------------
(* The plan of a view, `age` after it was fetched.                         *)

\* A view has a timer or not: its countdown is the last slot, and goes on
\* between polls.
TimerLeft(timer, age) == IF timer > age \div Second THEN timer - age \div Second ELSE 0
TimerSlot(timer, age) == <<ToString(TimerLeft(timer, age))>>

Plan(view, age) ==
    [row0 |-> view.row0,
     slots |-> view.slots
                 \o [i \in 1..Len(view.timer) |-> TimerSlot(view.timer[i], age)]]

-----------------------------------------------------------------------------
(* One row: RowAnim and RowState.                                          *)

Fits(text) == Len(text) <= Width
Overflow(text) == Len(text) - Width

\* The cells that a text fills from an offset on, padded with blanks.
Padded(text, offset) ==
    [c \in Columns |-> IF offset + c <= Len(text) THEN text[offset + c] ELSE Blank]

NewAnim(text) ==
    [text |-> text, offset |-> 0, stepped |-> 0, pause |-> EndPause, shown |-> 0,
     complete |-> FALSE]

\* `stepped`: the time since last_step_at; `pause`: until pause_until;
\* `shown`: since shown_at.
Elapse(anim, d) ==
    [anim EXCEPT !.stepped = Least(@ + d, ScrollStep),
                 !.pause = IF @ > d THEN @ - d ELSE 0,
                 !.shown = Least(@ + d, MinSlotHold)]

\* At most one jump a tick, however late it is.
Steps(anim) == ~Fits(anim.text) /\ anim.pause = 0 /\ anim.stepped = ScrollStep

Held(anim) ==
    [anim EXCEPT !.offset = 0, !.stepped = 0, !.pause = 0,
                 !.complete = @ \/ anim.shown = MinSlotHold]

\* Mutant of Jumped: the last jump is a whole one.
JumpedPast(anim) ==
    LET offset == anim.offset + CharScrollCount
    IN [anim EXCEPT !.offset = offset, !.stepped = 0,
                    !.pause = IF offset >= Overflow(anim.text) THEN EndPause ELSE @,
                    !.complete = @ \/ offset >= Overflow(anim.text)]

\* Mutant of Jumped: the turn counts as had before the tail is on the panel.
JumpedDone(anim) ==
    LET offset == Least(anim.offset + CharScrollCount, Overflow(anim.text))
    IN [anim EXCEPT !.offset = offset, !.stepped = 0,
                    !.pause = IF offset = Overflow(anim.text) THEN EndPause ELSE @,
                    !.complete = TRUE]

Jumped(anim) ==
    LET offset == Least(anim.offset + CharScrollCount, Overflow(anim.text))
    IN [anim EXCEPT !.offset = offset, !.stepped = 0,
                    !.pause = IF offset = Overflow(anim.text) THEN EndPause ELSE @,
                    !.complete = @ \/ offset = Overflow(anim.text)]

Wrapped(anim) == [anim EXCEPT !.offset = 0, !.stepped = 0, !.pause = EndPause]

\* visible_window, but for the window itself.
Moved(anim) ==
    IF Fits(anim.text) THEN Held(anim)
    ELSE IF ~Steps(anim) THEN anim
    ELSE IF anim.offset < Overflow(anim.text) THEN Jumped(anim)
    ELSE Wrapped(anim)

CycleDone(row) == row.anim # None /\ row.anim[1].complete /\ row.anim[1].pause = 0

\* The animation of a row that is to show a text: its own goes on, unless it
\* is of another text.
Animated(row, text) ==
    IF row.anim # None /\ row.anim[1].text = text THEN row.anim[1] ELSE NewAnim(text)
SameText(row, text) == row.anim # None /\ row.anim[1].text = text

\* Mutant of Skips: a row whose text changed is skipped like one that did not.
SkipsAny(row, text) == row.last # None /\ ~Fits(text) /\ ~Steps(Animated(row, text))

\* A marquee that has not stepped has nothing new to show.
Skips(row, text) == SameText(row, text) /\ ~Fits(text) /\ ~Steps(Animated(row, text))

\* RowState::advance: the row, and the cells to write.  changed_spans gives
\* the runs of the columns that differ, all of them for the first time.
Advanced(row, text) ==
    LET anim == Moved(Animated(row, text))
        cells == Padded(text, anim.offset)
    IN IF Skips(row, text) THEN [anim |-> <<anim>>, last |-> row.last]
       ELSE [anim |-> <<anim>>, last |-> <<cells>>]

Changed(row, next) ==
    {c \in Columns : row.last = None \/ row.last[1][c] # next.last[1][c]}

Restarted(row) == [row EXCEPT !.anim = None]
RowElapse(row, d) ==
    [row EXCEPT !.anim = IF @ = None THEN None ELSE <<Elapse(@[1], d)>>]

-----------------------------------------------------------------------------
(* LcdAnimator: two rows, and whose turn it is on the bottom one.          *)

Animator == [row0 |-> [anim |-> None, last |-> None],
             row1 |-> [anim |-> None, last |-> None],
             slot |-> 1]

Rotates(a, slots) == Len(slots) > 1 /\ CycleDone(a.row1)

\* Mutant of NextSlot: the last slot keeps its turn.
NextSlotKept(a, slots) == Least(a.slot + 1, Len(slots))

NextSlot(a, slots) == (a.slot % Len(slots)) + 1

\* The rotation is chosen first; a plan that lost slots gives the last one.
Chosen(a, slots) ==
    IF Rotates(a, slots)
      THEN [a EXCEPT !.slot = NextSlot(a, slots), !.row1 = Restarted(@)]
      ELSE IF a.slot > Len(slots)
             THEN [a EXCEPT !.slot = Len(slots), !.row1 = Restarted(@)]
             ELSE a

Ticked(a, plan, d) ==
    LET b == Chosen([a EXCEPT !.row0 = RowElapse(@, d), !.row1 = RowElapse(@, d)],
                    plan.slots)
    IN [b EXCEPT !.row0 = Advanced(@, plan.row0),
                 !.row1 = Advanced(@, plan.slots[b.slot])]
=============================================================================
