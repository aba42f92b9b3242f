---------------------------- MODULE MCDashboard -----------------------------
EXTENDS Dashboard, TLC
CONSTANTS bread, steak

Preheat == [kind |-> "preheat", look |-> 1, timed |-> FALSE, user |-> FALSE]
Cook(waits) == [kind |-> "cook", look |-> 2, timed |-> TRUE, user |-> waits]

\* A preheat and a stage that waits for the user; and one stage.
MCStages == bread :> <<Preheat, Cook(TRUE)>> @@ steak :> <<Cook(FALSE)>>
=============================================================================
