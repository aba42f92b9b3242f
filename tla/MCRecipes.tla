------------------------------ MODULE MCRecipes ------------------------------
(* Small instances of RecipeLibrary: requests that meet over one recipe, and *)
(* a cook of each shape and at each temperature that is saved.              *)
EXTENDS RecipeLibrary, TLC
CONSTANTS bread, h1, h2, h3

Nothing == [op |-> "none"]
Plan(first, second, third, ends) ==
    [asks |-> h1 :> first @@ h2 :> second @@ h3 :> third, crashes |-> ends]

\* As the editor has them: one element, and no settings that do not apply.
Plain ==
    [id |-> None, kind |-> "cook", temp |-> 1800, wet |-> FALSE, duration |-> None,
     timed |-> FALSE, probed |-> FALSE, target |-> None, steam |-> 0, fan |-> 50,
     waits |-> FALSE, elements |-> [e \in Elements |-> e = "rear"], off |-> None, prompt |-> None]
MCTitles == {"", "old", "new"}
\* A file added by hand, with ids of its own.
MCLibrary ==
    bread :> [title |-> "old",
              stages |-> <<[Plain EXCEPT !.kind = "preheat"],
                           [Plain EXCEPT !.id = [of |-> 11, ios |-> FALSE, preheat |-> FALSE],
                                         !.timed = TRUE, !.duration = 600]>>]

Manual(stages) == [op |-> "manual", stages |-> stages]
Save == [op |-> "save", title |-> "new"]
Races ==
    <<[op |-> "update", id |-> bread, title |-> "new", stages |-> None],
      [op |-> "update", id |-> bread, title |-> None, stages |-> <<Plain>>],
      [op |-> "update", id |-> bread, title |-> "", stages |-> None],
      [op |-> "delete", id |-> bread], [op |-> "start"], Save,
      [op |-> "create", title |-> "new", stages |-> <<Plain>>]>>
RacePlans ==
    {Plan(Races[i], Races[j], Nothing, 1) : i, j \in DOMAIN Races}
        \cup {Plan(Races[t[1]], Races[t[2]], Races[t[3]], 0) :
                t \in {t \in [1..3 -> DOMAIN Races] : t[1] < t[2] /\ t[2] < t[3]}}

\* Whole degrees of either scale.
Temps == {10 * c : c \in 25..250} \cup {Rounded(100 * (f - 32), 18) : f \in 77..482}
Drafts ==
    [temp: {550}, wet: BOOLEAN, steam: {0, 30}, elements: {{"rear"}, {"top"}, {"top", "bottom"}},
     preheat: {"none", "wait", "go"}, ends: {"timer", "probe", "user"}, mins: {30}, target: {628},
     off: BOOLEAN]
Degrees == [temp: Temps, wet: {FALSE}, steam: {0}, elements: {{"rear"}}, preheat: {"go"},
            ends: {"timer"}, mins: {30}, target: {600}, off: {FALSE}]

Heats == {[Plain EXCEPT !.kind = "preheat", !.waits = w, !.prompt = "note"] : w \in BOOLEAN}
Cooks ==
    {[Plain EXCEPT !.timed = (end = "timer"), !.duration = IF end = "timer" THEN 600 ELSE None,
                   !.probed = (end = "probe"), !.target = IF end = "user" THEN None ELSE 600,
                   !.waits = w, !.prompt = "note", !.off = off] :
        end \in {"timer", "probe", "user"}, w \in BOOLEAN, off \in {TRUE, None}}
Steps == [preheat: {None} \cup Heats, cook: Cooks]
Edited == {ToStages(<<s>>) : s \in Steps} \cup {ToStages(<<s, t>>) : s, t \in {step \in Steps : step.cook.waits}}

Meddled == {draft \in Drafts : ~draft.off /\ draft.elements = {"rear"} /\ draft.steam = 0}
\* 200 degrees is dry heat, and more than a wet-bulb stage has.
Meddles == {Nothing, [op |-> "temperature", temp |-> 777], [op |-> "temperature", temp |-> 2000],
            [op |-> "timer", secs |-> 90]}
\* Sous vide above its range, and a recipe without a title.
Refused == {Manual(<<[Plain EXCEPT !.wet = TRUE]>>),
            [op |-> "create", title |-> "", stages |-> <<Plain>>]}
CookPlans ==
    {Plan(Manual(ManualStages(draft)), Save, Nothing, 0) : draft \in Drafts}
        \cup {Plan(Manual(ManualStages(draft)), Save, m, 0) : draft \in Meddled, m \in Meddles}
        \cup {Plan(Manual(ManualStages(draft)), Save, Nothing, 0) : draft \in Degrees}
        \cup {Plan(Manual(stages), Save, Nothing, 0) : stages \in Edited}
        \cup {Plan(Manual(ToStages(<<[preheat |-> heat, cook |-> None]>>)), Save, m, 0) :
                heat \in Heats, m \in Meddles}
        \cup {Plan(op, Save, Nothing, 0) : op \in Refused}
MCPlans == RacePlans \cup CookPlans

\* What the proof of SameCookAgain asks of requests, these satisfy.
ASSUME PlansAreClients == FromClients
=============================================================================
