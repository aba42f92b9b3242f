--------------------------- MODULE MCLocalServer ---------------------------
(***************************************************************************)
(* LocalServer on small instances.                                         *)
(***************************************************************************)
EXTENDS LocalServer, TLC

CookSymmetry == Permutations(Cooks)

Budget(acts, connects, ticks, surprises, crashes, failures) ==
    [acts |-> acts, connects |-> connects, ticks |-> ticks, surprises |-> surprises,
     crashes |-> crashes, failures |-> failures]

\* A client that stops or saves the cook; the oven's own panel and lost
\* commands; or a crash and a failed file operation.
ActOrFaults ==
    {Budget(1, 1, 0, 0, 0, 0), Budget(0, 1, 1, 1, 0, 0), Budget(0, 1, 0, 0, 1, 1)}
\* A client that acts, or the timers.
ActOrTicks == {Budget(1, 1, 0, 0, 0, 0), Budget(0, 1, 1, 0, 0, 0)}
\* The oven comes back, or the timers.
ReconnectOrTicks == {Budget(0, 2, 0, 0, 0, 0), Budget(0, 1, 1, 0, 0, 0)}
=============================================================================
