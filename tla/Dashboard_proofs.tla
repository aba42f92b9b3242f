-------------------------- MODULE Dashboard_proofs ---------------------------
(***************************************************************************)
(* Dashboard: a cook is announced as started once and as ended once, for   *)
(* any cooks and stages, however often links are lost and whatever the     *)
(* progress task does meanwhile.                                           *)
(*                                                                         *)
(* A cook that was begun and is not the oven's any more does not come back *)
(* to the read model, and one that is done there stays done.  So a start   *)
(* that was announced is of a cook that is looked at or has gone, and an   *)
(* end that was announced is of a cook that is done or has gone, in the    *)
(* read model and in what was looked at last.                              *)
(***************************************************************************)
EXTENDS Dashboard, TLAPS

ModelCook == CookOf(model)
ModelDone == Done(model)
LookedAt(c) == looked # None /\ CookOf(looked) = c

Counts ==
    /\ DOMAIN said = Cooks
    /\ \A c \in Cooks : /\ DOMAIN said[c] = {"started", "ended"}
                        /\ said[c].started \in {0, 1} /\ said[c].ended \in {0, 1}

\* The oven's cook has begun, and is at one of its stages.
ModelOK ==
    /\ follow = TRUE /\ begun \subseteq Cooks
    /\ model = [status |-> model.status, cook |-> model.cook]
    /\ Cooking => /\ ModelCook \in Cooks /\ ModelCook \in begun
                  /\ \E i \in Nat, phase \in {"fresh", "over"} : model.status = At(ModelCook, i, phase)

LookedOK ==
    \A c \in Cooks : LookedAt(c) => c \in begun /\ (ModelCook = c /\ Done(looked) => ModelDone)

\* The first look announces nothing.
Announced ==
    \A c \in Cooks :
        /\ said[c].started = 1 => c \in begun /\ (ModelCook = c => looked = None \/ LookedAt(c))
        /\ said[c].ended = 1 => /\ c \in begun
                                /\ ModelCook = c => ModelDone
                                /\ LookedAt(c) => Done(looked)

IInv == Counts /\ ModelOK /\ LookedOK /\ Announced

-----------------------------------------------------------------------------
\* The read model goes on: to another cook that was not begun, to none, or
\* with the same one, which is not done any less.
LEMMA ModelKeeps ==
    ASSUME IInv, ModelOK', UNCHANGED <<looked, said, follow>>, begun \subseteq begun',
           ModelCook' \in begun => ModelCook' = ModelCook,
           ModelCook' = ModelCook /\ ModelDone => ModelDone'
    PROVE  IInv'
<1>1. Counts'
  BY DEF IInv, Counts
<1>2. \A c : (LookedAt(c)' <=> LookedAt(c)) /\ (Done(looked)' <=> Done(looked))
  BY DEF LookedAt, CookOf, Done
<1>3. LookedOK'
  BY <1>2 DEF IInv, LookedOK
<1>4. Announced'
  BY <1>2 DEF IInv, Announced
<1> QED BY <1>1, <1>3, <1>4 DEF IInv

\* A report of a cook's stage.
LEMMA Reported ==
    ASSUME follow' = TRUE, begun' \subseteq Cooks, NEW c \in Cooks, NEW i \in Nat, NEW phase \in {"fresh", "over"},
           Publishes(At(c, i, phase)), c \in begun'
    PROVE  ModelOK' /\ ModelCook' \in {c, None}
<1>1. model' = [status |-> At(c, i, phase), cook |-> model'.cook]
  BY DEF Publishes
<1>2. model'.status.cook = c /\ ModelCook' \in {c, None}
  BY <1>1 DEF At, ModelCook, CookOf
<1>3. Cooking' => ModelCook' = c
  BY <1>2 DEF Cooking, ModelCook, CookOf
<1> QED BY <1>1, <1>2, <1>3 DEF ModelOK

LEMMA OvenKeeps ==
    ASSUME IInv, \/ \E c \in Cooks : Begins(c)
                 \/ StageEnds \/ NextBegins \/ Idles \/ Fetched
    PROVE  IInv'
<1>0. UNCHANGED <<looked, said, follow>> /\ follow = TRUE
  BY DEF Begins, StageEnds, NextBegins, Idles, Reports, Fetched, haVars, cpVars, IInv, ModelOK
<1>1. ASSUME NEW c \in Cooks, Begins(c) PROVE IInv'
  <2>1. /\ c \notin begun /\ begun' = begun \cup {c} /\ Publishes(At(c, 1, "fresh"))
        /\ begun' \subseteq Cooks
    BY <1>1 DEF Begins, IInv, ModelOK
  <2>2. ModelOK' /\ ModelCook' \in {c, None}
    BY <1>0, <2>1, Reported
  <2>3. ModelCook' \notin begun
    BY <2>1, <2>2, ProgressAssumption DEF IInv, ModelOK
  <2>4. ModelDone => ModelCook \in begun
    BY DEF IInv, ModelOK, Cooking, ModelDone, Done
  <2> QED BY <1>0, <2>1, <2>2, <2>3, <2>4, ModelKeeps
<1>2. ASSUME StageEnds \/ NextBegins PROVE IInv'
  <2>1. PICK i \in Nat, phase \in {"fresh", "over"} : model.status = At(ModelCook, i, phase)
    BY <1>2 DEF StageEnds, NextBegins, IInv, ModelOK
  <2>2. /\ ModelCook \in Cooks /\ ModelCook \in begun /\ ModelCook = model.status.cook
        /\ begun' = begun /\ begun' \subseteq Cooks
    BY <1>2 DEF StageEnds, NextBegins, Reports, IInv, ModelOK, ModelCook, CookOf, Cooking
  <2>3. model.status.index = i /\ model.status.phase = phase /\ (model.status.pending => phase = "over")
    <3>1. model.status.index = i /\ model.status.phase = phase
      BY <2>1 DEF At
    <3>2. model.status.pending =
            (phase = "over" /\ (i = Len(Stages[ModelCook]) \/ Stages[ModelCook][i + 1].user))
      BY <2>1 DEF At
    <3> QED BY <3>1, <3>2, Zenon
  <2>4. ~ModelDone
    <3>1. CASE StageEnds
      BY <2>3, <3>1 DEF StageEnds, ModelDone, Done
    <3>2. CASE NextBegins
      BY <3>2 DEF NextBegins, Last, ModelDone, Done
    <3> QED BY <1>2, <3>1, <3>2
  <2>5. PICK j \in {i, i + 1}, next \in {"fresh", "over"} : Publishes(At(ModelCook, j, next))
    BY <1>2, <2>2, <2>3 DEF StageEnds, NextBegins, Reports
  <2>6. ModelOK' /\ ModelCook' \in {ModelCook, None}
    <3>1. j \in Nat
      BY <2>1, <2>5
    <3> QED BY <1>0, <2>2, <2>5, <3>1, Reported
  <2>7. ModelCook' \in begun => ModelCook' = ModelCook
    BY <2>2, <2>6, ProgressAssumption
  <2> QED BY <1>0, <2>2, <2>4, <2>6, <2>7, ModelKeeps
<1>3. CASE Idles
  <2>1. model' = [status |-> IdleStatus, cook |-> model'.cook] /\ begun' = begun
    BY <1>3 DEF Idles, Reports, Publishes
  <2>2. ModelCook' = None /\ ~Cooking'
    BY <2>1 DEF ModelCook, CookOf, IsCooking, IdleStatus, Cooking
  <2>3. ModelOK' /\ None \notin begun
    BY <1>0, <2>1, <2>2, ProgressAssumption DEF IInv, ModelOK
  <2>4. ModelDone => ModelCook # None
    BY ProgressAssumption DEF IInv, ModelOK, ModelDone, Done, Cooking
  <2> QED BY <1>0, <2>1, <2>2, <2>3, <2>4, ModelKeeps
<1>4. CASE Fetched
  <2>1. model' = [status |-> model.status, cook |-> model'.cook] /\ begun' = begun
    BY <1>4 DEF Fetched, IInv, ModelOK
  <2>2. ModelCook' = ModelCook /\ ModelDone' = ModelDone /\ Cooking' = Cooking
    BY <1>0, <2>1 DEF ModelCook, CookOf, ModelDone, Done, Cooking
  <2>3. ModelOK'
    BY <1>0, <2>1, <2>2 DEF IInv, ModelOK
  <2> QED BY <1>0, <2>1, <2>2, <2>3, ModelKeeps
<1> QED BY <1>1, <1>2, <1>3, <1>4

-----------------------------------------------------------------------------
\* What a look announces of a cook, and when.
LEMMA StartIsNew ==
    ASSUME NEW prev, NEW next, "cook_started" \in Milestones(prev, next)
    PROVE  CookOf(next) # None /\ CookOf(prev) # CookOf(next)
BY DEF Milestones, StageEdges

LEMMA EndIsNew ==
    ASSUME NEW prev, NEW next, Milestones(prev, next) \cap {"cook_done", "cook_stopped"} # {}
    PROVE  /\ CookOf(prev) # None /\ ~Done(prev)
           /\ CookOf(next) = None \/ (CookOf(next) = CookOf(prev) /\ Done(next))
BY DEF Milestones, StageEdges

LEMMA LooksKeep ==
    ASSUME IInv, Looks \/ Connected
    PROVE  IInv'
<1> DEFINE next == Looking(model, online)
<1>1. /\ UNCHANGED <<model, begun, follow>> /\ looked' = next
      /\ said' = IF looked = None THEN said ELSE Counted(looked, next)
  BY DEF Looks, Connected, OnChange, OnConnected, Changed, modelVars, cpVars
<1>2. CookOf(next) = ModelCook /\ (Done(next) <=> ModelDone)
  BY DEF Looking, CookOf, Done, ModelCook, ModelDone
<1>3. ModelOK' /\ ModelCook' = ModelCook /\ (ModelDone' <=> ModelDone)
  BY <1>1 DEF IInv, ModelOK, ModelCook, ModelDone, CookOf, Done, Cooking
<1>4. \A c : LookedAt(c)' => ModelCook = c /\ (Done(looked)' <=> ModelDone)
  BY <1>1, <1>2 DEF LookedAt, CookOf, Done
<1>5. LookedOK'
  <2> SUFFICES ASSUME NEW c \in Cooks, LookedAt(c)'
               PROVE  c \in begun' /\ (ModelCook' = c /\ Done(looked)' => ModelDone')
    BY DEF LookedOK
  <2>1. ModelCook = c /\ (Done(looked)' <=> ModelDone)
    BY <1>4
  <2>2. c \in begun
    BY <2>1, ProgressAssumption DEF IInv, ModelOK, Cooking, ModelCook, CookOf
  <2> QED BY <1>1, <1>3, <2>1, <2>2
<1>6. \A c : ModelCook = c => looked' = None \/ LookedAt(c)'
  BY <1>1, <1>2 DEF LookedAt, CookOf
<1>7. Counts' /\ Announced'
  <2>1. CASE looked = None
    <3>1. said' = said
      BY <1>1, <2>1
    <3>2. Counts'
      BY <3>1 DEF IInv, Counts
    <3>3. Announced'
      BY <1>1, <1>3, <1>4, <1>6, <2>1, <3>1 DEF IInv, Announced
    <3> QED BY <3>2, <3>3
  <2>2. CASE looked # None
    <3>1. said' = Counted(looked, next)
      BY <1>1, <2>2
    <3> HIDE DEF next
    <3>2. ASSUME NEW c \in Cooks
          PROVE  /\ DOMAIN said'[c] = {"started", "ended"}
                 /\ \/ said'[c].started = said[c].started
                    \/ said'[c].started = said[c].started + 1 /\ ModelCook = c /\ ~LookedAt(c)
                 /\ \/ said'[c].ended = said[c].ended
                    \/ /\ said'[c].ended = said[c].ended + 1 /\ LookedAt(c) /\ ~Done(looked)
                       /\ ModelCook = c => ModelDone
      <4> DEFINE starts == c = CookOf(next) /\ "cook_started" \in Milestones(looked, next)
                 ends == c = CookOf(looked)
                         /\ Milestones(looked, next) \cap {"cook_done", "cook_stopped"} # {}
      <4>1. said'[c] = [started |-> said[c].started + (IF starts THEN 1 ELSE 0),
                        ended |-> said[c].ended + (IF ends THEN 1 ELSE 0)]
        BY <3>1 DEF Counted
      <4>2. said[c].started \in {0, 1} /\ said[c].ended \in {0, 1}
        BY DEF IInv, Counts
      <4>3. starts => ModelCook = c /\ ~LookedAt(c)
        BY <1>2, StartIsNew DEF LookedAt
      <4>4. ends => LookedAt(c) /\ ~Done(looked) /\ (ModelCook = c => ModelDone)
        BY <1>2, <2>2, EndIsNew, ProgressAssumption DEF LookedAt
      <4> QED BY <4>1, <4>2, <4>3, <4>4
    <3>3. DOMAIN said' = Cooks
      BY <3>1 DEF Counted
    <3>4. ASSUME NEW c \in Cooks
          PROVE  /\ said'[c].started \in {0, 1} /\ said'[c].ended \in {0, 1}
                 /\ said'[c].started = 1 => c \in begun
                 /\ said'[c].ended = 1 => c \in begun /\ (ModelCook = c => ModelDone)
      <4>1. /\ said[c].started \in {0, 1} /\ said[c].ended \in {0, 1}
            /\ said[c].started = 1 => c \in begun /\ (ModelCook = c => LookedAt(c))
            /\ said[c].ended = 1 => /\ c \in begun /\ (ModelCook = c => ModelDone)
                                    /\ LookedAt(c) => Done(looked)
            /\ LookedAt(c) => c \in begun
        BY <2>2 DEF IInv, Counts, Announced, LookedOK
      <4>2. ModelCook = c => c \in begun
        BY ProgressAssumption DEF IInv, ModelOK, Cooking, ModelCook, CookOf
      <4> QED BY <3>2, <4>1, <4>2
    <3>5. Counts'
      BY <3>2, <3>3, <3>4 DEF Counts
    <3>6. Announced'
      BY <1>1, <1>3, <1>4, <1>6, <3>4 DEF Announced
    <3> QED BY <3>5, <3>6
  <2> QED BY <2>1, <2>2
<1> QED BY <1>3, <1>5, <1>7 DEF IInv

-----------------------------------------------------------------------------
LEMMA Start == ASSUME Init PROVE IInv
<1>1. ~Cooking /\ looked = None
  BY DEF Init, HaInit, Cooking, IsCooking
<1>2. Counts /\ ModelOK /\ LookedOK
  BY <1>1 DEF Init, HaInit, Counts, ModelOK, LookedOK, LookedAt
<1>3. Announced
  BY DEF Init, HaInit, Announced
<1> QED BY <1>2, <1>3 DEF IInv

LEMMA Step == ASSUME IInv, [Next]_vars PROVE IInv'
<1>1. CASE (\E c \in Cooks : Begins(c)) \/ StageEnds \/ NextBegins \/ Idles \/ Fetched
  BY <1>1, OvenKeeps
<1>2. CASE Looks \/ Connected
  BY <1>2, LooksKeep
<1>3. CASE \/ TakesStatus \/ TakesCook \/ OvenLost \/ OvenBack \/ BrokerGone \/ BrokerBack
           \/ UNCHANGED vars
  <2>1. UNCHANGED <<model, begun, looked, said, follow>>
    BY <1>3 DEF TakesStatus, TakesCook, OvenLost, OvenBack, BrokerGone, BrokerBack, BrokerLost,
                BrokerConnects, OnStatus, OnCurrentCook, vars, modelVars, linkVars, cpVars, haVars
  <2> QED BY <2>1 DEF IInv, Counts, ModelOK, LookedOK, LookedAt, Announced, ModelCook, ModelDone,
                      CookOf, Done, Cooking
<1> QED BY <1>1, <1>2, <1>3 DEF Next

\* IInv is inductive: the read model's cooks come once, and what was announced
\* of one is of a cook that is looked at, done or gone.
THEOREM Invariant == Spec => []IInv
BY Start, Step, PTL DEF Spec

(***************************************************************************)
(* A cook is announced as started at most once, and as ended at most once, *)
(* by cook_done or by cook_stopped but not both, however often the broker  *)
(* and the oven come and go (milestones.rs: edges, not states).            *)
(***************************************************************************)
THEOREM AnnouncesOnce == Spec => []AnnouncedOnce
<1>1. IInv => AnnouncedOnce
  BY DEF IInv, Counts, AnnouncedOnce
<1> QED BY <1>1, Invariant, PTL
=============================================================================
