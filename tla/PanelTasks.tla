----------------------------- MODULE PanelTasks ------------------------------
(***************************************************************************)
(* The panel's tasks beside the one that runs its screens (Panel): the     *)
(* knob, the display, and the boot with what survives a reset.  They share *)
(* no state with each other, so that what one of them does is seen with    *)
(* the other two at rest: a behaviour follows one of them.                 *)
(***************************************************************************)
EXTENDS Input, Persist, Screen

VARIABLE followed

vars == <<inputVars, persistVars, screenVars, followed>>

TypeOK ==
    /\ InputTypeOK /\ PersistTypeOK /\ ScreenTypeOK
    /\ followed \in {"knob", "memory", "display"}

Init == InputInit /\ PersistInit /\ ScreenInit /\ followed \in {"knob", "memory", "display"}

Displays(step) == followed = "display" /\ step /\ UNCHANGED <<inputVars, persistVars, followed>>

Knob == followed = "knob" /\ InputNext /\ UNCHANGED <<persistVars, screenVars, followed>>
Memory == followed = "memory" /\ PersistNext /\ UNCHANGED <<inputVars, screenVars, followed>>
Display == Displays(ScreenNext)

Next == Knob \/ Memory \/ Display

Spec == Init /\ [][Next]_vars

\* The display's timer fires.
FairSpec == Spec /\ WF_vars(Displays(Ticks))
=============================================================================
