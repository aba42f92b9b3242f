------------------------------- MODULE MCPanel -------------------------------
(* A small instance of Panel: the source's times in ticks of a few seconds. *)
EXTENDS Panel
Budget(inputs, outages, surprises) ==
    [inputs |-> inputs, outages |-> outages, surprises |-> surprises]
\* A start or a stop takes two inputs; from an idle or a running cook four
\* start and stop one.  A next stage takes one.
MCBudgets ==
    [view \in Views |->
       IF view \in {Fresh("idle", FALSE), Fresh("cooking", FALSE)}
         THEN {Budget(4, 0, 0), Budget(2, 1, 0), Budget(2, 0, 1)}
         ELSE {Budget(3, 0, 0), Budget(1, 1, 0)}]
=============================================================================
