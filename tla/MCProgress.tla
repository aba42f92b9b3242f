----------------------------- MODULE MCProgress -----------------------------
EXTENDS Progress, TLC
CONSTANTS bread, toast, steak, stew

Preheat == [kind |-> "preheat", look |-> 1, timed |-> FALSE, user |-> FALSE]
Cook(waits) == [kind |-> "cook", look |-> 2, timed |-> TRUE, user |-> waits]

\* A preheat and a stage that waits for the user; one stage; and two stages that
\* look alike, of which the second waits.
MCStages ==
    bread :> <<Preheat, Cook(TRUE)>> @@ toast :> <<Cook(FALSE)>>
    @@ steak :> <<Cook(FALSE)>> @@ stew :> <<Cook(FALSE), Cook(TRUE)>>

\* The second may replace the first: one with fewer stages than the oven was at,
\* and one whose first stage has a timer that the oven has yet to run.
MCLocalCooks == <<bread, toast>>
MCCloudCooks == <<steak, stew>>
=============================================================================
