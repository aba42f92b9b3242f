------------------------------- MODULE Screen --------------------------------
(***************************************************************************)
(* The panel's display task (display.rs) with the character LCD (lcd.rs):  *)
(* it draws the view it was last given every 50 ms, and at once when it is *)
(* given another one or another backlight policy.  The LCD keeps the cells *)
(* that are not written, so the glass shows the last of all that was sent. *)
(***************************************************************************)
EXTENDS Lcd

CONSTANTS
    Views,          \* bound: the views that the panel's screens give it
    Still,          \* those after which no other one comes
    MaxAge,         \* bound: how long a timer goes on between polls
    MaxLate         \* bound: how late a tick may be

VARIABLES
    current,        \* display_task: the view it draws
    age,            \* since that view's data was fetched (timer_age_secs)
    animator,       \* LcdAnimator
    glass,          \* the cells on the LCD, per row
    reader          \* who reads the bottom row: which cells of its text were
                    \* seen, and for how long it is up

screenVars == <<current, age, animator, glass, reader>>

Rows == {"row0", "row1"}
Connecting == [row0 |-> <<Blank>>, slots |-> <<<<Blank>>>>, timer |-> <<>>]
Slots == Plan(current, age).slots

IsSeq(s) == s \in Seq({s[i] : i \in DOMAIN s})

\* LcdPlan: `row1_slots` is never empty.  A marquee jumps over no cell.
ASSUME ScreenAssumption ==
    /\ {MaxAge, MaxLate} \subseteq Nat
    /\ CharScrollCount <= Width
    /\ \A view \in Views :
         /\ IsSeq(view.row0) /\ IsSeq(view.slots) /\ view.timer \in Seq(Nat)
         /\ \A i \in DOMAIN view.slots : IsSeq(view.slots[i])
         /\ Len(view.slots) + Len(view.timer) > 0

Bottom == animator.row1.anim[1].text

\* A window past the end of its text would be a panic.
ScreenTypeOK ==
    /\ current \in Views \cup {Connecting}
    /\ age \in 0..MaxAge
    /\ reader.text \in 0..MinSlotHold
    /\ \A row \in Rows :
         \A i \in DOMAIN animator[row].anim :
            LET anim == animator[row].anim[i]
            IN /\ anim.offset \in 0..(IF Fits(anim.text) THEN 0 ELSE Overflow(anim.text))
               /\ anim.stepped \in 0..ScrollStep /\ anim.pause \in 0..EndPause
               /\ anim.shown \in 0..MinSlotHold /\ anim.complete \in BOOLEAN
    /\ animator.row1.anim # None =>
         animator.slot \in DOMAIN Slots /\ Bottom = Slots[animator.slot]

ScreenInit ==
    /\ current = Connecting /\ age = 0
    /\ animator = Animator
    /\ glass = [row \in Rows |-> [c \in Columns |-> Blank]]
    /\ reader = [seen |-> {}, text |-> 0]

-----------------------------------------------------------------------------

\* write_frame: the cells of the frame go to the LCD.
Written(row, before, after) ==
    [c \in Columns |-> IF c \in Changed(before, after) THEN after.last[1][c]
                       ELSE glass[row][c]]

\* What a tick lets a reader of the bottom row see.
Reads(d) ==
    LET anim == animator'.row1.anim[1]
        sameText == animator'.slot = animator.slot /\ SameText(animator.row1, anim.text)
        inView == {c \in DOMAIN anim.text : c - anim.offset \in Columns}
    IN reader' = [
         seen |-> inView \cup (IF sameText THEN reader.seen ELSE {}),
         text |-> IF sameText THEN Least(reader.text + d, MinSlotHold) ELSE 0]

\* DisplayBackend::render, `d` after the last time.
Render(view, fetched, d) ==
    /\ current' = view
    /\ age' = fetched
    /\ animator' = Ticked(animator, Plan(view, fetched), d)
    /\ glass' = [row \in Rows |-> Written(row, animator[row], animator'[row])]
    /\ Reads(d)

Older(d) == Least(age + d, MaxAge)

\* One turn of the loop of display_task: a view, a backlight policy, a tick.
ShowsView ==
    /\ current \notin Still
    /\ \E view \in Views, d \in 0..MaxLate : Render(view, 0, d)

SetsBacklight == \E d \in 0..MaxLate : Render(current, Older(d), d)

Ticks == \E d \in 1..MaxLate : Render(current, Older(d), d)

ScreenNext == ShowsView \/ SetsBacklight \/ Ticks

ScreenSpec == ScreenInit /\ [][ScreenNext]_screenVars

\* The task's timer fires; nothing is asked of the clients of the display.
ScreenFairness == WF_screenVars(Ticks)

-----------------------------------------------------------------------------

(***************************************************************************)
(* Whatever was sent and left out since the LCD was cleared, it shows what *)
(* the animation of each row is at: a frame has only the cells that differ *)
(* from what was sent before (changed_spans), and a marquee that has not   *)
(* stepped sends nothing (RowState::advance).                              *)
(***************************************************************************)
GlassShows ==
    \A row \in Rows :
        \A i \in DOMAIN animator[row].anim :
            glass[row] = Padded(animator[row].anim[i].text, animator[row].anim[i].offset)

(***************************************************************************)
(* A text gives way to the next slot only when all of it has been on the   *)
(* LCD, and a text that fits only after its hold (RowAnim::cycle_done:     *)
(* "shown in its entirety"), over late ticks and views that come and go.   *)
(***************************************************************************)
TurnIsHad ==
    [][animator.row1.anim # None /\ animator'.slot # animator.slot
         /\ animator.slot <= Len(Slots')
         => /\ reader.seen = DOMAIN Bottom
            /\ Fits(Bottom) => reader.text >= MinSlotHold]_screenVars

(***************************************************************************)
(* Once the view stays and no text of it counts down, each of its slots    *)
(* has a turn, again and again (LcdAnimator::tick).  A countdown is left   *)
(* out: its text is another one every second, less than MIN_SLOT_HOLD, so  *)
(* that its row starts afresh (RowState::advance) and keeps the turn.      *)
(***************************************************************************)
TurnsComeRound ==
    \A view \in {v \in Still : v.timer = None} :
        \A k \in 1..Len(Plan(view, 0).slots) :
            current = view ~> animator.slot = k
=============================================================================
