----------------------------- MODULE CommandLink -----------------------------
(***************************************************************************)
(* What the state machine relies on of the link to the oven, whatever      *)
(* happens to the connection: a command reaches the oven at most once, is  *)
(* answered exactly once, and is answered "ok" only if the oven handled    *)
(* it.  A failure says nothing: the oven may handle a command later.       *)
(***************************************************************************)
EXTENDS Naturals

CONSTANT Ids

VARIABLES
    outcome,    \* what the issuer of each command knows of it
    handled     \* per command, how often the oven carried it out

vars == <<outcome, handled>>

Outcomes == {"unissued", "waiting", "ok", "failed"}

Init ==
    /\ outcome = [id \in Ids |-> "unissued"]
    /\ handled = [id \in Ids |-> 0]

Issue(id) ==
    /\ outcome[id] = "unissued"
    /\ outcome' = [outcome EXCEPT ![id] = "waiting"]
    /\ UNCHANGED handled

Handle(id) ==
    /\ outcome[id] # "unissued"
    /\ handled[id] = 0
    /\ handled' = [handled EXCEPT ![id] = 1]
    /\ UNCHANGED outcome

Answer(id) ==
    /\ outcome[id] = "waiting"
    /\ \E result \in {"ok", "failed"} :
         /\ result = "ok" => handled[id] = 1
         /\ outcome' = [outcome EXCEPT ![id] = result]
    /\ UNCHANGED handled

Next == \E id \in Ids : Issue(id) \/ Handle(id) \/ Answer(id)

Spec == Init /\ [][Next]_vars
=============================================================================
