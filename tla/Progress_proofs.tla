--------------------------- MODULE Progress_proofs ---------------------------
(***************************************************************************)
(* Progress: in cloud mode a timed stage is said to be over only when the  *)
(* oven's is (ReadyIsEarned), for any cooks that replace each other, any   *)
(* stages and any order of the tasks between the oven and the progress,    *)
(* as long as the tracker was told only its own cook's statuses.           *)
(*                                                                         *)
(* A place is how far a cook is: the stage and what its timer does, as a   *)
(* number, zero where nothing is said of it.  What the tasks have seen of  *)
(* a cook lags behind the oven, so that the places of the status shown, of *)
(* the one published and of the oven grow in this order; and what the      *)
(* tracker claims of the cook is behind the first.  A cook that was        *)
(* replaced or stopped does not come back, and no more is said of it.      *)
(***************************************************************************)
EXTENDS Progress, FiniteSetTheorems, WellFoundedInduction, TLAPS

Phases == {"fresh", "running", "over"}
Rank(phase) == IF phase = "fresh" THEN 0 ELSE IF phase = "running" THEN 1 ELSE 2
Place(i, phase) == 3 * i + Rank(phase)

\* A status is the oven's at stage i of its cook, which it may leave out.
IsAt(status, i) ==
    /\ i \in 1..Len(Stages[status.cook])
    /\ status.index \in {i, None}
    /\ status.stage = Stages[status.cook][i]
    /\ status.phase \in Phases

\* The place of a cook that a status tells of: none, if it is of another.
SeenAt(status, c, p) ==
    IF IsCooking(status) /\ status.cook = c
      THEN \E i \in 1..Len(Stages[c]) : IsAt(status, i) /\ p = Place(i, status.phase)
      ELSE p = 0
OvenPlace(c) == IF oven.cook = c THEN Place(oven.stage, oven.phase) ELSE 0

\* What a tracker claims of a place, and no more than that.
Timed(t) == Stages[t.cook][t.index].timed
IsTracker(t) ==
    /\ t \in [cook: Cooks, key: {"pending", "placeholder", "record"}, index: Nat,
              ready: BOOLEAN, crossed: BOOLEAN, ran: BOOLEAN]
    /\ t.index \in 1..Len(Stages[t.cook])
Behind(t, p) ==
    /\ IsTracker(t)
    /\ t.index = 1 \/ 3 * t.index <= p
    /\ Timed(t) /\ t.ran => 3 * t.index + 1 <= p
    /\ Timed(t) /\ t.ready => 3 * t.index + 2 <= p

IsCook(c) == c \in [cook: Cooks, key: {"placeholder", "record"}] \cup {None}
IsSeen(status) == IsCooking(status) => status.cook \in Cooks /\ used[status.cook] = "begun"
Mentions ==
    /\ sm = [status |-> sm.status, cook |-> sm.cook, start |-> sm.start]
    /\ model = [status |-> model.status, cook |-> model.cook]
    /\ shown = [status |-> shown.status, cook |-> shown.cook]
    /\ sm.status = model.status
    /\ IsSeen(model.status) /\ IsSeen(shown.status)
    /\ IsCook(sm.cook) /\ IsCook(model.cook) /\ IsCook(shown.cook)
    /\ fanning # <<>> => IsCook(fanning[1])
    /\ fetch \in CookOrNone /\ seed \in CookOrNone

OvenOK ==
    /\ used \in [Cooks -> {"no", "sent", "begun"}]
    /\ \/ oven = Off
       \/ /\ oven \in [cook: Cooks, stage: Nat, phase: Phases]
          /\ oven.stage \in 1..Len(Stages[oven.cook])
          /\ used[oven.cook] = "begun"

TrackerOK == (tracker # None => IsTracker(tracker)) /\ progress = Shown(tracker)

\* Of a cook that is not over, what is seen of it is in order, and a tracker that
\* heard only its own cook's statuses claims no more than the last that it heard.
Live(c) == oven.cook = c \/ used[c] # "begun"
Chain(c, a, b) ==
    /\ SeenAt(shown.status, c, a) /\ SeenAt(model.status, c, b)
    /\ a <= b /\ b <= OvenPlace(c)
    /\ tracker # None /\ tracker.cook = c /\ ~lent => Behind(tracker, a)
InOrder == \A c \in Cooks : Live(c) => \E a, b \in Nat : Chain(c, a, b)

CloudInv == OvenOK /\ Mentions /\ TrackerOK /\ InOrder
IInv == follow \/ CloudInv

-----------------------------------------------------------------------------
(* Places.                                                                 *)

LEMMA StagesAre ==
    ASSUME NEW c \in Cooks
    PROVE  /\ Len(Stages[c]) \in Nat /\ Len(Stages[c]) > 0
           /\ \A j \in 1..Len(Stages[c]) :
                Stages[c][j] \in [kind: {"preheat", "cook"}, look: Nat, timed: BOOLEAN, user: BOOLEAN]
<1> DEFINE S == [kind: {"preheat", "cook"}, look: Nat, timed: BOOLEAN, user: BOOLEAN]
<1>1. Stages[c] \in Seq(S) /\ Len(Stages[c]) > 0
  BY ProgressAssumption
<1> HIDE DEF S
<1>2. Len(Stages[c]) \in Nat /\ Len(Stages[c]) > 0 /\ \A j \in 1..Len(Stages[c]) : Stages[c][j] \in S
  BY ONLY <1>1
<1> QED BY <1>2 DEF S

LEMMA Least ==
    ASSUME NEW S \in SUBSET Nat, S # {}
    PROVE  \E m \in S : \A n \in S : m <= n
<1> DEFINE R == OpToRel(<, Nat)
<1>1. PICK m \in S : \A n \in S : <<n, m>> \notin R
  <2>1. IsWellFoundedOn(R, Nat)
    BY NatLessThanWellFounded
  <2> HIDE DEF R
  <2> QED BY <2>1, WFMin
<1>2. \A n \in S : ~(n < m)
  BY <1>1 DEF OpToRel
<1> QED BY <1>2

\* infer_stage_index never names a stage the oven has not come to.
LEMMA InferredIsBehind ==
    ASSUME NEW status, status.cook \in Cooks, NEW i, IsAt(status, i)
    PROVE  InferStage(status.cook, status) \in 1..i
<1> DEFINE c == status.cook
           n == Len(Stages[c])
           alike == {j \in 1..n : /\ Stages[c][j].kind = status.stage.kind
                                  /\ Stages[c][j].look = status.stage.look}
           kin == {j \in 1..n : Stages[c][j].kind = status.stage.kind}
<1>1. n \in Nat /\ i \in 1..n /\ i \in alike /\ i \in kin /\ alike \subseteq 1..n /\ kin \subseteq 1..n
  BY ProgressAssumption DEF IsAt
<1>2. InferStage(c, status) =
        IF Cardinality(alike) = 1 THEN CHOOSE j \in alike : TRUE
        ELSE IF kin = {} THEN 1 ELSE CHOOSE j \in kin : \A k \in kin : j <= k
  BY DEF InferStage
<1> HIDE DEF alike, kin, n
<1>3. CASE Cardinality(alike) = 1
  <2>1. IsFiniteSet(alike)
    <3>1. IsFiniteSet(1..n)
      BY <1>1, FS_Interval
    <3> QED BY <1>1, <3>1, FS_Subset
  <2>2. PICK x : alike = {x}
    BY <1>3, <2>1, FS_Singleton
  <2>3. (CHOOSE j \in alike : TRUE) \in alike
    BY <1>1
  <2> QED BY <1>1, <1>2, <1>3, <2>2, <2>3
<1>4. CASE Cardinality(alike) # 1
  <2>1. \E j \in kin : \A k \in kin : j <= k
    BY <1>1, Least
  <2>2. InferStage(c, status) = CHOOSE j \in kin : \A k \in kin : j <= k
    BY <1>1, <1>2, <1>4
  <2> DEFINE x == InferStage(c, status)
  <2>3. x \in kin /\ x <= i
    BY <1>1, <2>1, <2>2
  <2> HIDE DEF x
  <2>4. x \in 1..i
    BY <1>1, <2>3
  <2> QED BY <2>4 DEF x
<1> QED BY <1>3, <1>4

LEMMA ObservedIsBehind ==
    ASSUME NEW status, status.cook \in Cooks, NEW i, IsAt(status, i)
    PROVE  ObservedStage(status.cook, status) \in 1..i
<1>1. Len(Stages[status.cook]) \in Nat /\ None \notin Nat
  BY ProgressAssumption
<1> QED BY <1>1, InferredIsBehind DEF ObservedStage, IsAt

LEMMA PlacesGrow ==
    ASSUME NEW a \in Nat, NEW b \in Nat, a <= b, NEW t, Behind(t, a)
    PROVE  Behind(t, b)
BY DEF Behind, IsTracker

LEMMA NewIsBehind ==
    ASSUME NEW c \in Cooks, NEW key \in {"pending", "placeholder", "record"}, NEW p \in Nat,
           NEW i \in 1..Len(Stages[c]), i = 1 \/ 3 * i <= p
    PROVE  Behind(NewTracker(c, key, i), p)
<1>1. Len(Stages[c]) \in Nat
  BY ProgressAssumption
<1> QED BY <1>1 DEF Behind, IsTracker, NewTracker

-----------------------------------------------------------------------------
(* The progress task.                                                      *)

LEMMA TrackerIsSome ==
    ASSUME NEW t \in [cook: Cooks, key: {"pending", "placeholder", "record"}, index: Nat,
                      ready: BOOLEAN, crossed: BOOLEAN, ran: BOOLEAN],
           t.index \in 1..Len(Stages[t.cook])
    PROVE  t # None
<1>1. t.index \in Indexes /\ Len(Stages[t.cook]) \in Nat
  BY StagesAre DEF Indexes
<1>2. t \in Tracker
  BY <1>1 DEF Tracker
<1> QED BY <1>2, NoneIsNoRecord

\* Whatever the status, the tracker stays one of its cook, and is published.
LEMMA InferTyped ==
    ASSUME tracker # None, IsTracker(tracker), progress = Shown(tracker), NEW status,
           NEW hot \in BOOLEAN, NEW held, InferProgress(status, hot, held)
    PROVE  IsTracker(tracker') /\ tracker'.cook = tracker.cook /\ progress' = Shown(tracker')
<1> DEFINE T == [cook: Cooks, key: {"pending", "placeholder", "record"}, index: Nat,
                 ready: BOOLEAN, crossed: BOOLEAN, ran: BOOLEAN]
           n == Len(Stages[tracker.cook])
           e == Evaluated(status, hot)
<1>1. tracker \in T /\ n \in Nat /\ tracker.index \in 1..n
      /\ Stages[tracker.cook][tracker.index].timed \in BOOLEAN
  <2>1. tracker \in T /\ tracker.index \in 1..n
    BY DEF IsTracker
  <2>2. tracker.cook \in Cooks
    BY <2>1
  <2>3. n \in Nat /\ \A j \in 1..n : Stages[tracker.cook][j] \in
          [kind: {"preheat", "cook"}, look: Nat, timed: BOOLEAN, user: BOOLEAN]
    BY <2>2, StagesAre
  <2> HIDE DEF n
  <2> QED BY <2>1, <2>3
<1> HIDE DEF n
<1>2. e \in T /\ e.cook = tracker.cook /\ e.index = tracker.index /\ e.ready = tracker.ready
  BY <1>1 DEF Evaluated, Running
<1> HIDE DEF e
<1>3. CASE Publish(AdvanceTo(tracker, tracker.index + 1)) /\ HasNext(tracker)
  <2> DEFINE next == tracker.index + 1
  <2>1. next \in Nat /\ next \in 1..n
    BY <1>1, <1>3 DEF HasNext, n
  <2> HIDE DEF next
  <2>2. tracker' = AdvanceTo(tracker, next) /\ progress' = Shown(tracker')
    BY <1>3 DEF Publish, next
  <2>3. tracker' \in T /\ tracker'.cook = tracker.cook /\ tracker'.index = next
    BY ONLY <1>1, <2>1, <2>2 DEF AdvanceTo
  <2> QED BY <2>1, <2>2, <2>3 DEF IsTracker, n
<1>4. CASE Publish([e EXCEPT !.ready = TRUE])
  <2>1. tracker' = [e EXCEPT !.ready = TRUE] /\ progress' = Shown(tracker')
    BY <1>4 DEF Publish
  <2>2. tracker' \in T /\ tracker'.cook = tracker.cook /\ tracker'.index = tracker.index
    BY ONLY <1>2, <2>1
  <2> QED BY <1>1, <2>1, <2>2 DEF IsTracker, n
<1>5. CASE Note(e)
  <2>1. tracker' = e /\ progress' = progress /\ e # None /\ IsTracker(e)
    <3>1. e # None
      BY <1>1, <1>2, TrackerIsSome DEF n
    <3> QED BY <1>1, <1>2, <1>5, <3>1 DEF Note, IsTracker, n
  <2> QED BY <1>2, <2>1 DEF Shown
<1>6. CASE UNCHANGED <<tracker, progress>>
  BY <1>6
<1> QED BY <1>3, <1>4, <1>5, <1>6 DEF InferProgress, e

\* A status evaluated in cloud mode: a timer that runs, or ran and is parked,
\* is that of the tracker's stage or of a later one.
LEMMA InferKeeps ==
    ASSUME tracker # None, IsCooking(shown.status), shown.status.cook = tracker.cook,
           NEW i, IsAt(shown.status, i), NEW p \in Nat, p = Place(i, shown.status.phase),
           Behind(tracker, p), NEW hot \in BOOLEAN, NEW held,
           InferProgress(shown.status, hot, held)
    PROVE  Behind(tracker', p)
<1> DEFINE c == tracker.cook
           n == Len(Stages[c])
           k == tracker.index
           runs == Running(shown.status)
           e == Evaluated(shown.status, hot)
<1>1. /\ n \in Nat /\ c \in Cooks /\ k \in 1..n /\ i \in 1..n
      /\ tracker \in [cook: Cooks, key: {"pending", "placeholder", "record"}, index: Nat,
                       ready: BOOLEAN, crossed: BOOLEAN, ran: BOOLEAN]
      /\ \A j \in 1..n : Stages[c][j] \in [kind: {"preheat", "cook"}, look: Nat,
                                            timed: BOOLEAN, user: BOOLEAN]
  <2>1. c \in Cooks /\ k \in 1..n /\ IsTracker(tracker)
    BY DEF Behind, IsTracker
  <2>2. i \in 1..n
    BY DEF IsAt
  <2>4. n \in Nat /\ \A j \in 1..n : Stages[c][j] \in [kind: {"preheat", "cook"}, look: Nat,
                                                      timed: BOOLEAN, user: BOOLEAN]
    BY <2>1, StagesAre
  <2>5. tracker \in [cook: Cooks, key: {"pending", "placeholder", "record"}, index: Nat,
                     ready: BOOLEAN, crossed: BOOLEAN, ran: BOOLEAN]
    BY <2>1 DEF IsTracker
  <2> QED BY ONLY <2>1, <2>2, <2>4, <2>5
<1>2. shown.status.stage = Stages[c][i] /\ shown.status.phase \in Phases
  BY DEF IsAt
<1>3. /\ runs <=> (Stages[c][i].timed /\ p = 3 * i + 1)
      /\ runs \in BOOLEAN
      /\ 3 * i <= p /\ p <= 3 * i + 2
      /\ Stages[c][i].timed /\ ~runs => p \in {3 * i, 3 * i + 2}
  BY <1>1, <1>2 DEF Running, Phases, Place, Rank
<1>4. /\ k <= i
      /\ Stages[c][k].timed /\ tracker.ran => 3 * k + 1 <= p
      /\ Stages[c][k].timed /\ tracker.ready => 3 * k + 2 <= p
  BY <1>1, <1>3 DEF Behind, Timed
<1> HIDE DEF runs
<1>5. /\ e \in [cook: Cooks, key: {"pending", "placeholder", "record"}, index: Nat,
                 ready: BOOLEAN, crossed: BOOLEAN, ran: BOOLEAN]
      /\ e.cook = c /\ e.index = k /\ e.ready = tracker.ready
      /\ e.ran <=> (tracker.ran \/ runs)
  BY <1>1, <1>3 DEF Evaluated, runs
<1> HIDE DEF e
<1>6. Behind(e, p)
  BY <1>1, <1>3, <1>4, <1>5 DEF Behind, IsTracker, Timed
<1>7. CASE tracker.ready /\ HasNext(tracker) /\ NextHasBegun(shown.status)
  <2>1. k + 1 <= i
    <3>1. CASE runs
      BY <1>1, <1>3, <1>4, <1>7, <3>1
    <3>2. CASE ~runs
      <4>1. ObservedStage(c, shown.status) = k + 1
        BY <1>7, <3>2 DEF NextHasBegun, runs
      <4> QED BY <1>1, <4>1, ObservedIsBehind
    <3> QED BY <3>1, <3>2
  <2>2. tracker' = AdvanceTo(tracker, k + 1) /\ progress' = Shown(tracker')
    BY <1>7 DEF InferProgress, Publish
  <2>3. /\ tracker' \in [cook: Cooks, key: {"pending", "placeholder", "record"}, index: Nat,
                         ready: BOOLEAN, crossed: BOOLEAN, ran: BOOLEAN]
        /\ tracker'.cook = c /\ tracker'.index = k + 1 /\ ~tracker'.ready /\ ~tracker'.ran
    <3> DEFINE next == k + 1
    <3>1. next \in Nat
      BY <1>1
    <3> HIDE DEF next
    <3>2. tracker' = AdvanceTo(tracker, next)
      BY <2>2 DEF next
    <3>3. tracker'.cook = c /\ tracker'.index = next /\ ~tracker'.ready /\ ~tracker'.ran
      BY ONLY <1>1, <3>2 DEF AdvanceTo
    <3>4. tracker' \in [cook: Cooks, key: {"pending", "placeholder", "record"}, index: Nat,
                        ready: BOOLEAN, crossed: BOOLEAN, ran: BOOLEAN]
      BY ONLY <1>1, <3>1, <3>2 DEF AdvanceTo
    <3> QED BY <3>3, <3>4 DEF next
  <2>4. k + 1 \in 1..n /\ 3 * (k + 1) <= p
    BY <1>1, <1>3, <2>1
  <2>5. Behind(tracker', p)
    BY <2>3, <2>4 DEF Behind, IsTracker
  <2> QED BY <2>5
<1>8. CASE tracker.ready /\ ~(HasNext(tracker) /\ NextHasBegun(shown.status))
  BY <1>8 DEF InferProgress
<1>9. CASE ~tracker.ready /\ StageComplete(shown.status, hot, held) /\ HasNext(tracker)
  <2>1. tracker' = [e EXCEPT !.ready = TRUE] /\ progress' = Shown(tracker')
    BY <1>9 DEF InferProgress, Publish, e
  <2>2. Stages[c][k].timed => 3 * k + 2 <= p
    <3>1. ASSUME Stages[c][k].timed PROVE e.ran /\ Stages[c][i].timed /\ ~runs
      BY <1>2, <1>9, <3>1 DEF StageComplete, e, runs
    <3> QED BY <1>1, <1>3, <1>4, <1>5, <3>1
  <2>3. Behind(tracker', p) /\ tracker'.cook = c
    BY <1>5, <1>6, <2>1, <2>2 DEF Behind, IsTracker, Timed
  <2> QED BY <2>3
<1>10. CASE ~tracker.ready /\ ~(StageComplete(shown.status, hot, held) /\ HasNext(tracker))
  BY <1>5, <1>6, <1>10 DEF InferProgress, Note, e
<1> QED BY <1>7, <1>8, <1>9, <1>10

\* infer_stage_index names a stage of the cook, whatever the status.
LEMMA InferredIsStage ==
    ASSUME NEW c \in Cooks, NEW status
    PROVE  ObservedStage(c, status) \in 1..Len(Stages[c])
<1> DEFINE n == Len(Stages[c])
           alike == {j \in 1..n : /\ Stages[c][j].kind = status.stage.kind
                                  /\ Stages[c][j].look = status.stage.look}
           kin == {j \in 1..n : Stages[c][j].kind = status.stage.kind}
<1>1. n \in Nat /\ n > 0 /\ alike \subseteq 1..n /\ kin \subseteq 1..n
  BY StagesAre
<1>2. InferStage(c, status) =
        IF Cardinality(alike) = 1 THEN CHOOSE j \in alike : TRUE
        ELSE IF kin = {} THEN 1 ELSE CHOOSE j \in kin : \A k \in kin : j <= k
  BY DEF InferStage
<1>3. ObservedStage(c, status) = IF status.index \in 1..n THEN status.index ELSE InferStage(c, status)
  BY DEF ObservedStage
<1> HIDE DEF alike, kin, n
<1>4. CASE Cardinality(alike) = 1
  <2>1. alike # {}
    BY <1>4, FS_EmptySet
  <2>2. InferStage(c, status) \in alike
    BY <1>2, <1>4, <2>1
  <2> QED BY <1>1, <1>3, <2>2 DEF n
<1>5. CASE Cardinality(alike) # 1 /\ kin # {}
  <2>1. \E j \in kin : \A k \in kin : j <= k
    BY <1>1, <1>5, Least
  <2>2. InferStage(c, status) \in kin
    BY <1>2, <1>5, <2>1
  <2> QED BY <1>1, <1>3, <2>2 DEF n
<1>6. CASE Cardinality(alike) # 1 /\ kin = {}
  BY <1>1, <1>2, <1>3, <1>6 DEF n
<1> QED BY <1>4, <1>5, <1>6

\* A new current cook: its stage is inferred from the latest status.
LEMMA RebuiltIsTracker ==
    ASSUME ~follow, NEW cook \in [cook: Cooks, key: {"placeholder", "record"}], NEW status
    PROVE  IsTracker(Rebuilt(cook, status)) /\ Rebuilt(cook, status).cook = cook.cook
<1> DEFINE i == IF IsCooking(status) THEN ObservedStage(cook.cook, status) ELSE 1
<1>1. Rebuilt(cook, status) = NewTracker(cook.cook, cook.key, i)
  BY DEF Rebuilt
<1>2. cook.cook \in Cooks /\ cook.key \in {"placeholder", "record"}
      /\ Len(Stages[cook.cook]) \in Nat /\ Len(Stages[cook.cook]) > 0
  BY StagesAre
<1>3. i \in 1..Len(Stages[cook.cook])
  BY <1>2, InferredIsStage
<1> HIDE DEF i
<1> QED BY <1>1, <1>2, <1>3 DEF IsTracker, NewTracker

LEMMA RebuiltIsBehind ==
    ASSUME ~follow, NEW p \in Nat, NEW cook \in [cook: Cooks, key: {"placeholder", "record"}],
           SeenAt(shown.status, cook.cook, p), ~Lends(shown.status, cook.cook)
    PROVE  Behind(Rebuilt(cook, shown.status), p)
<1> DEFINE c == cook.cook
           i == IF IsCooking(shown.status) THEN ObservedStage(c, shown.status) ELSE 1
<1>1. Rebuilt(cook, shown.status) = NewTracker(c, cook.key, i)
  BY DEF Rebuilt
<1>2. c \in Cooks /\ Len(Stages[c]) \in Nat /\ Len(Stages[c]) > 0
  BY StagesAre
<1>3. i \in 1..Len(Stages[c]) /\ (i = 1 \/ 3 * i <= p)
  <2>1. CASE IsCooking(shown.status)
    <3>1. shown.status.cook = c
      BY <2>1 DEF Lends
    <3>2. PICK j \in 1..Len(Stages[c]) :
            IsAt(shown.status, j) /\ p = Place(j, shown.status.phase)
      BY <2>1, <3>1 DEF SeenAt
    <3>3. i \in 1..j
      BY <1>2, <2>1, <3>1, <3>2, ObservedIsBehind
    <3>4. 3 * j <= p
      BY <1>2, <3>2 DEF Place, Rank
    <3> HIDE DEF i
    <3> QED BY <1>2, <3>2, <3>3, <3>4
  <2>2. CASE ~IsCooking(shown.status)
    BY <1>2, <2>2
  <2> QED BY <2>1, <2>2
<1> HIDE DEF i
<1> QED BY <1>1, <1>2, <1>3, NewIsBehind

\* What the progress task leaves: of a place at which the status shown sees a
\* cook, a tracker of that cook alone claims no more than before.
LEMMA StatusKeeps ==
    ASSUME ~follow, TrackerOK, TakesStatus
    PROVE  /\ TrackerOK'
           /\ \A c \in Cooks, p \in Nat :
                 /\ SeenAt(shown.status, c, p)
                 /\ tracker # None /\ tracker.cook = c /\ ~lent => Behind(tracker, p)
                 => (tracker' # None /\ tracker'.cook = c /\ ~lent' => Behind(tracker', p))
<1>1. PICK hot \in Heat(shown.status), held \in BOOLEAN : OnStatus(shown.status, hot, held)
  BY DEF TakesStatus
<1>2. lent' = (tracker' # None /\ (lent \/ Lends(shown.status, tracker.cook)))
  BY DEF TakesStatus
<1>3. CASE UNCHANGED <<tracker, progress>>
  BY <1>2, <1>3 DEF TrackerOK
<1>4. CASE Publish(None)
  BY <1>4 DEF TrackerOK, Publish, Shown
<1>5. CASE IsCooking(shown.status) /\ tracker # None
  <2>1. InferProgress(shown.status, hot, held) /\ hot \in BOOLEAN
    BY <1>1, <1>5 DEF OnStatus, IsCooking, IsIdle, Heat
  <2>2. IsTracker(tracker') /\ tracker'.cook = tracker.cook /\ progress' = Shown(tracker')
    BY <1>5, <2>1, InferTyped DEF TrackerOK
  <2>3. ASSUME NEW c \in Cooks, NEW p \in Nat, SeenAt(shown.status, c, p),
               tracker # None /\ tracker.cook = c /\ ~lent => Behind(tracker, p),
               tracker' # None, tracker'.cook = c, ~lent'
        PROVE  Behind(tracker', p)
    <3>1. tracker.cook = c /\ Behind(tracker, p) /\ shown.status.cook = c
      BY <1>2, <1>5, <2>2, <2>3 DEF Lends
    <3>2. PICK i \in 1..Len(Stages[c]) : IsAt(shown.status, i) /\ p = Place(i, shown.status.phase)
      BY <1>5, <2>3, <3>1 DEF SeenAt
    <3> QED BY <1>5, <2>1, <3>1, <3>2, InferKeeps
  <2> QED BY <2>2, <2>3 DEF TrackerOK
<1>6. CASE ~(IsCooking(shown.status) /\ tracker # None)
  BY <1>1, <1>3, <1>4, <1>6 DEF OnStatus, IsCooking, IsIdle
<1> QED BY <1>5, <1>6

LEMMA CookKeeps ==
    ASSUME ~follow, TrackerOK, IsCook(shown.cook), TakesCook
    PROVE  /\ TrackerOK'
           /\ \A c \in Cooks, p \in Nat :
                 /\ SeenAt(shown.status, c, p)
                 /\ tracker # None /\ tracker.cook = c /\ ~lent => Behind(tracker, p)
                 => (tracker' # None /\ tracker'.cook = c /\ ~lent' => Behind(tracker', p))
<1>1. OnCurrentCook(shown.cook, shown.status)
  BY DEF TakesCook
<1>2. lent' = (tracker' # None
               /\ IF Tracks(shown.cook) THEN lent ELSE Lends(shown.status, shown.cook.cook))
  BY DEF TakesCook
<1>3. CASE shown.cook = None \/ IsIdle(shown.status)
  <2>1. CASE Publish(None)
    BY <2>1 DEF TrackerOK, Publish, Shown
  <2>2. CASE UNCHANGED <<tracker, progress>> /\ tracker = None
    BY <2>2 DEF TrackerOK
  <2> QED BY <1>1, <1>3, <2>1, <2>2 DEF OnCurrentCook
<1>4. CASE shown.cook # None /\ ~IsIdle(shown.status) /\ Tracks(shown.cook)
  <2>1. Refreshed(shown.status) = tracker
    BY DEF Refreshed
  <2>2. tracker # None /\ tracker' = tracker /\ progress' = Shown(tracker)
    BY <1>1, <1>4, <2>1 DEF OnCurrentCook, Tracks, Publish
  <2>3. ~lent' => ~lent
    BY <1>2, <1>4, <2>2
  <2> QED BY <2>2, <2>3 DEF TrackerOK
<1>5. CASE shown.cook # None /\ ~IsIdle(shown.status) /\ ~Tracks(shown.cook)
  <2> DEFINE t == Rebuilt(shown.cook, shown.status)
  <2>1. shown.cook \in [cook: Cooks, key: {"placeholder", "record"}]
    BY <1>5 DEF IsCook
  <2>2. tracker' = t /\ progress' = Shown(t)
    BY <1>1, <1>5 DEF OnCurrentCook, Publish
  <2>3. IsTracker(t) /\ t.cook = shown.cook.cook
    BY <2>1, RebuiltIsTracker
  <2>4. ASSUME NEW p \in Nat, SeenAt(shown.status, shown.cook.cook, p), tracker' # None, ~lent'
        PROVE  Behind(t, p)
    <3>1. ~Lends(shown.status, shown.cook.cook)
      BY <1>2, <1>5, <2>4
    <3> QED BY <2>1, <2>4, <3>1, RebuiltIsBehind
  <2> HIDE DEF t
  <2> QED BY <2>2, <2>3, <2>4 DEF TrackerOK
<1> QED BY <1>3, <1>4, <1>5

LEMMA SeedKeeps ==
    ASSUME seed \in CookOrNone, TakesSeed
    PROVE  TrackerOK' /\ (tracker' # None => \A p \in Nat : Behind(tracker', p))
<1> DEFINE t == NewTracker(seed, "pending", 1)
<1>1. seed \in Cooks /\ tracker' = t /\ progress' = Shown(t)
  BY DEF TakesSeed, OnStartedFromRecipe, Publish, CookOrNone
<1>2. 1 \in 1..Len(Stages[seed])
  BY <1>1, StagesAre
<1>3. \A p \in Nat : Behind(t, p)
  BY <1>1, <1>2, NewIsBehind
<1>4. IsTracker(t)
  <2>1. 0 \in Nat
    OBVIOUS
  <2> QED BY <1>3, <2>1 DEF Behind
<1> HIDE DEF t
<1> QED BY <1>1, <1>3, <1>4 DEF TrackerOK

-----------------------------------------------------------------------------
(* The steps, in cloud mode.                                               *)

\* What is said of a cook that has begun can still be said of it.
LEMMA MentionsStay ==
    ASSUME Mentions, UNCHANGED <<sm, model, shown, fanning, fetch, seed>>,
           \A c \in Cooks : used[c] = "begun" => used'[c] = "begun"
    PROVE  Mentions'
BY DEF Mentions, IsSeen, IsCook

\* A cook stays in order while its own place at the oven grows.
LEMMA OrderStays ==
    ASSUME InOrder, UNCHANGED <<shown, model, tracker, lent>>,
           \A c \in Cooks : Live(c)' => /\ Live(c) /\ OvenPlace(c)' \in Nat
                                        /\ \A b \in Nat : b <= OvenPlace(c) => b <= OvenPlace(c)'
    PROVE  InOrder'
<1> SUFFICES ASSUME NEW c \in Cooks, Live(c)' PROVE \E a, b \in Nat : Chain(c, a, b)'
  BY DEF InOrder
<1>1. PICK a \in Nat, b \in Nat : Chain(c, a, b)
  BY DEF InOrder
<1>2. Chain(c, a, b)'
  BY <1>1 DEF Chain
<1> QED BY <1>2

LEMMA OvenKeeps ==
    ASSUME ~follow, CloudInv, (\E c \in Cooks : Begins(c)) \/ Runs \/ MovesOn \/ Stops
    PROVE  CloudInv'
<1>0. UNCHANGED <<sm, model, shown, fanning, fetch, seed, tracker, progress, lent>>
  BY DEF Begins, Runs, MovesOn, Stops, smVars, watchVars, cpVars
<1>1. TrackerOK'
  BY <1>0 DEF CloudInv, TrackerOK
<1>2. ASSUME NEW d \in Cooks, Begins(d) PROVE CloudInv'
  <2>1. used[d] \in {"no", "sent"} /\ used' = [used EXCEPT ![d] = "begun"]
    BY <1>2 DEF Begins, Starts
  <2>2. oven' = [cook |-> d, stage |-> 1, phase |-> "fresh"]
    BY <1>2 DEF Begins
  <2>3. OvenOK'
    BY <2>1, <2>2, StagesAre DEF CloudInv, OvenOK, Phases
  <2>4. Mentions'
    BY <1>0, <2>1, MentionsStay DEF CloudInv, OvenOK
  <2>5. ASSUME NEW c \in Cooks, Live(c)'
        PROVE  /\ Live(c) /\ OvenPlace(c)' \in Nat
               /\ \A b \in Nat : b <= OvenPlace(c) => b <= OvenPlace(c)'
    <3>1. CASE c = d
      <4>1. oven.cook # d
        BY <2>1, ProgressAssumption DEF CloudInv, OvenOK, Off
      <4>2. OvenPlace(c) = 0 /\ OvenPlace(c)' = 3
        BY <2>2, <3>1, <4>1 DEF OvenPlace, Place, Rank
      <4> QED BY <2>1, <3>1, <4>2 DEF Live
    <3>2. CASE c # d
      <4>1. used[c] # "begun" /\ used'[c] = used[c]
        BY <2>1, <2>2, <2>5, <3>2 DEF CloudInv, OvenOK, Live
      <4>2. oven.cook # c
        BY <4>1, ProgressAssumption DEF CloudInv, OvenOK, Off
      <4>3. OvenPlace(c) = 0 /\ OvenPlace(c)' = 0
        BY <2>2, <3>2, <4>2 DEF OvenPlace
      <4> QED BY <4>1, <4>3 DEF Live
    <3> QED BY <3>1, <3>2
  <2>6. InOrder'
    BY <1>0, <2>5, OrderStays DEF CloudInv
  <2> QED BY <1>1, <2>3, <2>4, <2>6 DEF CloudInv
<1>3. ASSUME Runs \/ MovesOn \/ Stops PROVE CloudInv'
  <2>1. used' = used
    BY <1>3 DEF Runs, MovesOn, Stops
  <2>2. /\ oven \in [cook: Cooks, stage: Nat, phase: Phases]
        /\ oven.stage \in 1..Len(Stages[oven.cook]) /\ used[oven.cook] = "begun"
        /\ Len(Stages[oven.cook]) \in Nat /\ oven.cook # None
    BY <1>3, StagesAre DEF CloudInv, OvenOK, Off, Runs, MovesOn, Stops
  <2>3. Mentions'
    BY <1>0, <2>1, MentionsStay DEF CloudInv
  <2>4. ASSUME oven' \in [cook: Cooks, stage: Nat, phase: Phases], oven'.cook = oven.cook,
               oven'.stage \in 1..Len(Stages[oven.cook]),
               Place(oven.stage, oven.phase) <= Place(oven'.stage, oven'.phase)
        PROVE  CloudInv'
    <3>1. OvenOK'
      BY <2>1, <2>2, <2>4 DEF CloudInv, OvenOK
    <3>2. Place(oven.stage, oven.phase) \in Nat /\ Place(oven'.stage, oven'.phase) \in Nat
      BY <2>2, <2>4 DEF Place, Rank
    <3>3. ASSUME NEW c \in Cooks, Live(c)'
          PROVE  /\ Live(c) /\ OvenPlace(c)' \in Nat
                 /\ \A b \in Nat : b <= OvenPlace(c) => b <= OvenPlace(c)'
      <4>1. Live(c)
        BY <2>1, <2>4, <3>3 DEF Live
      <4>2. OvenPlace(c)' = IF oven.cook = c THEN Place(oven'.stage, oven'.phase) ELSE 0
        BY <2>4 DEF OvenPlace
      <4>3. OvenPlace(c) = IF oven.cook = c THEN Place(oven.stage, oven.phase) ELSE 0
        BY DEF OvenPlace
      <4> QED BY <2>4, <3>2, <4>1, <4>2, <4>3
    <3>4. InOrder'
      BY <1>0, <3>3, OrderStays DEF CloudInv
    <3> QED BY <1>1, <2>3, <3>1, <3>4 DEF CloudInv
  <2>5. CASE Runs
    <3>1. /\ oven' \in [cook: Cooks, stage: Nat, phase: Phases]
          /\ oven'.cook = oven.cook /\ oven'.stage = oven.stage
          /\ oven.phase # "over" /\ oven'.phase \in {"running", "over"}
          /\ oven.phase = "running" => oven'.phase = "over"
      BY <2>2, <2>5 DEF Runs, Phases
    <3>2. Place(oven.stage, oven.phase) <= Place(oven'.stage, oven'.phase)
      BY <2>2, <3>1 DEF Place, Rank, Phases
    <3> QED BY <2>2, <2>4, <3>1, <3>2
  <2>6. CASE MovesOn
    <3> DEFINE next == oven.stage + 1
    <3>1. next \in Nat /\ oven.phase = "over" /\ next \in 1..Len(Stages[oven.cook])
      BY <2>2, <2>6 DEF MovesOn, Last
    <3>2. oven' = [oven EXCEPT !.stage = next, !.phase = "fresh"]
      BY <2>6 DEF MovesOn
    <3>3. Place(oven.stage, oven.phase) <= Place(next, "fresh")
      BY <2>2 DEF Place, Rank, Phases
    <3> HIDE DEF next
    <3>4. /\ oven'.cook = oven.cook /\ oven'.stage = next /\ oven'.phase = "fresh"
          /\ oven' \in [cook: Cooks, stage: Nat, phase: Phases]
      BY ONLY <2>2, <3>1, <3>2 DEF Phases
    <3> QED BY <2>4, <3>1, <3>3, <3>4
  <2>7. CASE Stops
    <3>1. oven' = Off
      BY <2>7 DEF Stops
    <3>2. OvenOK'
      BY <2>1, <3>1 DEF CloudInv, OvenOK
    <3>3. ASSUME NEW c \in Cooks, Live(c)'
          PROVE  /\ Live(c) /\ OvenPlace(c)' \in Nat
                 /\ \A b \in Nat : b <= OvenPlace(c) => b <= OvenPlace(c)'
      <4>1. oven'.cook # c /\ used[c] # "begun"
        BY <2>1, <3>1, <3>3, ProgressAssumption DEF Live, Off
      <4>2. oven.cook # c
        BY <2>2, <4>1
      <4> QED BY <4>1, <4>2 DEF Live, OvenPlace
    <3>4. InOrder'
      BY <1>0, <3>3, OrderStays DEF CloudInv
    <3> QED BY <1>1, <2>3, <3>2, <3>4 DEF CloudInv
  <2> QED BY <1>3, <2>5, <2>6, <2>7
<1> QED BY <1>2, <1>3

\* The oven's report is of its place.
LEMMA ReportsMatch ==
    ASSUME ~follow, OvenOK, NEW status \in Reports
    PROVE  /\ \A c \in Cooks : SeenAt(status, c, OvenPlace(c)) /\ OvenPlace(c) \in Nat
           /\ IsCooking(status) => status.cook = oven.cook /\ oven.cook \in Cooks
<1>1. CASE oven.cook = None
  <2>1. status = IdleStatus
    BY <1>1 DEF Reports
  <2>2. ~IsCooking(status)
    BY <2>1 DEF IsCooking, IdleStatus
  <2>3. \A c \in Cooks : OvenPlace(c) = 0
    BY <1>1, ProgressAssumption DEF OvenPlace
  <2> QED BY <2>2, <2>3 DEF SeenAt
<1>2. CASE oven.cook # None
  <2>1. /\ oven.cook \in Cooks /\ oven.stage \in 1..Len(Stages[oven.cook]) /\ oven.phase \in Phases
        /\ oven.stage \in Nat
    BY <1>2 DEF OvenOK, Off
  <2>2. PICK index \in {oven.stage, None}, pending \in BOOLEAN :
          status = [cook |-> oven.cook, index |-> index, stage |-> Stages[oven.cook][oven.stage],
                    phase |-> oven.phase, pending |-> pending]
    BY <1>2 DEF Reports, Stage
  <2>3. /\ status.cook = oven.cook /\ status.index \in {oven.stage, None}
        /\ status.stage = Stages[oven.cook][oven.stage] /\ status.phase = oven.phase
    BY <2>2
  <2>4. IsAt(status, oven.stage)
    BY <2>1, <2>3 DEF IsAt
  <2>5. IsCooking(status)
    <3>1. oven.stage \in Indexes /\ Stages[oven.cook][oven.stage] \in StagesAll
      BY <2>1 DEF Indexes, StagesAll
    <3>2. status \in Status
      BY <2>1, <2>2, <3>1 DEF Status, Phases
    <3> QED BY <1>2, <2>3, <3>2, NoneIsNoRecord DEF IsCooking
  <2>6. Place(oven.stage, oven.phase) \in Nat
    BY <2>1 DEF Place, Rank
  <2>7. ASSUME NEW c \in Cooks PROVE SeenAt(status, c, OvenPlace(c)) /\ OvenPlace(c) \in Nat
    <3>1. CASE c = oven.cook
      <4>1. OvenPlace(c) = Place(oven.stage, status.phase) /\ OvenPlace(c) \in Nat
        BY <2>3, <2>6, <3>1 DEF OvenPlace
      <4>2. \E i \in 1..Len(Stages[c]) : IsAt(status, i) /\ OvenPlace(c) = Place(i, status.phase)
        BY <2>1, <2>4, <3>1, <4>1
      <4>3. SeenAt(status, c, OvenPlace(c))
        BY <4>2, <2>5, <2>3, <3>1, Zenon DEF SeenAt
      <4> QED BY <4>1, <4>3
    <3>2. CASE c # oven.cook
      BY <2>3, <3>2 DEF SeenAt, OvenPlace
    <3> QED BY <3>1, <3>2
  <2> QED BY <2>1, <2>3, <2>7
<1> QED BY <1>1, <1>2

LEMMA ServerKeeps ==
    ASSUME ~follow, CloudInv, (\E c \in Cooks : ServerStarts(c)) \/ Report \/ Refresh \/ Fetched
    PROVE  CloudInv'
<1>0. UNCHANGED <<oven, shown, fanning, tracker, progress, lent>> /\ Mentions
  BY DEF ServerStarts, Report, Refresh, Fetched, watchVars, cpVars, ovenVars, CloudInv
<1>1. TrackerOK' /\ \A c : OvenPlace(c)' = OvenPlace(c)
  BY <1>0 DEF CloudInv, TrackerOK, OvenPlace
<1>2. ASSUME UNCHANGED used, model'.status = model.status PROVE OvenOK' /\ InOrder'
  BY <1>0, <1>1, <1>2 DEF CloudInv, OvenOK, InOrder, Live, Chain
<1>3. ASSUME NEW c \in Cooks, ServerStarts(c) PROVE CloudInv'
  <2>1. /\ used[c] = "no" /\ used' = [used EXCEPT ![c] = "sent"]
        /\ sm' = [sm EXCEPT !.cook = [cook |-> c, key |-> "placeholder"], !.start = c]
        /\ seed' \in {c, seed} /\ UNCHANGED <<fetch, model>>
    BY <1>3 DEF ServerStarts, Starts
  <2>2. OvenOK'
    BY <1>0, <2>1 DEF CloudInv, OvenOK
  <2>3. /\ sm' = [status |-> sm'.status, cook |-> sm'.cook, start |-> sm'.start]
        /\ sm'.status = sm.status /\ sm'.cook = [cook |-> c, key |-> "placeholder"]
    BY <1>0, <2>1 DEF Mentions
  <2>4. Mentions'
    BY <1>0, <2>1, <2>3 DEF CloudInv, OvenOK, Mentions, IsSeen, IsCook, CookOrNone
  <2>5. \A d \in Cooks : Live(d)' => Live(d)
    BY <1>0, <2>1 DEF Live, CloudInv, OvenOK
  <2>6. InOrder'
    BY <1>0, <1>1, <2>1, <2>5 DEF CloudInv, InOrder, Chain
  <2> QED BY <1>1, <2>2, <2>4, <2>6 DEF CloudInv
<1>4. CASE Report
  <2>1. PICK status \in Reports :
          sm' = Reported(status) /\ fetch' = IF FetchIsDue(status) THEN status.cook ELSE fetch
    BY <1>4 DEF Report
  <2>2. /\ \A c \in Cooks : SeenAt(status, c, OvenPlace(c)) /\ OvenPlace(c) \in Nat
        /\ IsCooking(status) => status.cook = oven.cook /\ oven.cook \in Cooks
    BY <2>1, ReportsMatch DEF CloudInv
  <2>3. used' = used /\ seed' = seed /\ OvenOK'
    BY <1>0, <1>4 DEF Report, ovenVars, CloudInv, OvenOK
  <2>4. IsSeen(status)
    BY <2>2, ProgressAssumption DEF IsSeen, CloudInv, OvenOK, Off
  <2>5. /\ sm' = [status |-> sm'.status, cook |-> sm'.cook, start |-> sm'.start]
        /\ sm'.status = status /\ sm'.cook \in {None, sm.cook}
    BY <1>0, <2>1 DEF Mentions, Reported
  <2>6. model' = [status |-> status, cook |-> sm'.cook]
    BY <1>4, <2>5 DEF Report, PublishModel
  <2>7. fetch' \in CookOrNone
    BY <1>0, <2>1, <2>2 DEF Mentions, FetchIsDue, CookOrNone
  <2>8. Mentions'
    BY <1>0, <2>3, <2>4, <2>5, <2>6, <2>7 DEF Mentions, IsSeen, IsCook
  <2>9. ASSUME NEW c \in Cooks, Live(c)' PROVE \E a, b \in Nat : Chain(c, a, b)'
    <3>1. PICK a \in Nat, b \in Nat : Chain(c, a, b)
      BY <1>0, <2>3, <2>9 DEF CloudInv, InOrder, Live
    <3>2. Chain(c, a, OvenPlace(c))'
      BY <1>0, <1>1, <2>2, <2>6, <3>1 DEF Chain
    <3> QED BY <1>1, <2>2, <3>2
  <2> QED BY <1>1, <2>3, <2>8, <2>9 DEF CloudInv, InOrder
<1>5. CASE Refresh
  <2>1. /\ sm' = [sm EXCEPT !.start = None] /\ fetch' = sm.status.cook /\ model' = model
        /\ IsCooking(sm.status) /\ used' = used /\ seed' = seed
    BY <1>5 DEF Refresh, ovenVars
  <2>2. /\ sm' = [status |-> sm'.status, cook |-> sm'.cook, start |-> sm'.start]
        /\ sm'.status = sm.status /\ sm'.cook = sm.cook
    BY <1>0, <2>1 DEF Mentions
  <2>3. Mentions'
    BY <1>0, <2>1, <2>2 DEF Mentions, IsSeen, IsCook, CookOrNone
  <2> QED BY <1>1, <1>2, <2>1, <2>3 DEF CloudInv
<1>6. CASE Fetched
  <2>1. /\ fetch # None /\ fetch' = None /\ used' = used /\ seed' = seed
        /\ sm' = [sm EXCEPT !.cook = [cook |-> fetch, key |-> "record"]]
    BY <1>6 DEF Fetched, ovenVars
  <2>2. /\ sm' = [status |-> sm'.status, cook |-> sm'.cook, start |-> sm'.start]
        /\ sm'.status = sm.status /\ sm'.cook = [cook |-> fetch, key |-> "record"]
    BY <1>0, <2>1 DEF Mentions
  <2>3. model' = [status |-> model.status, cook |-> sm'.cook]
    BY <1>0, <1>6, <2>2 DEF Fetched, PublishModel, Mentions
  <2>4. Mentions'
    BY <1>0, <2>1, <2>2, <2>3 DEF Mentions, IsSeen, IsCook, CookOrNone
  <2> QED BY <1>1, <1>2, <2>1, <2>3, <2>4 DEF CloudInv
<1> QED BY <1>3, <1>4, <1>5, <1>6

LEMMA TasksKeep ==
    ASSUME ~follow, CloudInv, FansStatus \/ FansCook \/ TakesStatus \/ TakesCook \/ TakesSeed
    PROVE  CloudInv'
<1>1. /\ UNCHANGED <<oven, used, sm, fetch, model>>
      /\ OvenOK' /\ \A c : (Live(c)' <=> Live(c)) /\ OvenPlace(c)' = OvenPlace(c)
  BY DEF FansStatus, FansCook, TakesStatus, TakesCook, TakesSeed, ovenVars, smVars, CloudInv,
         OvenOK, OvenPlace, Live
<1>2. Mentions /\ TrackerOK
  BY DEF CloudInv
<1>3. CASE FansStatus
  <2>1. /\ fanning' = <<model.cook>> /\ shown' = [shown EXCEPT !.status = model.status]
        /\ UNCHANGED <<seed, tracker, progress, lent>>
    BY <1>3 DEF FansStatus, smVars, cpVars
  <2>2. shown' = [status |-> model.status, cook |-> shown.cook]
    BY <1>2, <2>1 DEF Mentions
  <2>3. Mentions' /\ TrackerOK'
    BY <1>1, <1>2, <2>1, <2>2 DEF Mentions, IsSeen, IsCook, TrackerOK
  <2>4. ASSUME NEW c \in Cooks, Live(c)' PROVE \E a, b \in Nat : Chain(c, a, b)'
    <3>1. PICK a \in Nat, b \in Nat : Chain(c, a, b)
      BY <1>1, <2>4 DEF CloudInv, InOrder
    <3>2. Behind(tracker, a) => Behind(tracker, b)
      BY <3>1, PlacesGrow DEF Chain
    <3>3. Chain(c, b, b)'
      BY <1>1, <2>1, <2>2, <3>1, <3>2 DEF Chain
    <3> QED BY <3>3
  <2> QED BY <1>1, <2>3, <2>4 DEF CloudInv, InOrder
<1>4. CASE FansCook
  <2>1. /\ fanning # <<>> /\ fanning' = <<>> /\ shown' = [shown EXCEPT !.cook = fanning[1]]
        /\ UNCHANGED <<seed, tracker, progress, lent>>
    BY <1>4 DEF FansCook, smVars, cpVars
  <2>2. shown' = [status |-> shown.status, cook |-> fanning[1]]
    BY <1>2, <2>1 DEF Mentions
  <2>3. Mentions' /\ TrackerOK'
    BY <1>1, <1>2, <2>1, <2>2 DEF Mentions, IsSeen, IsCook, TrackerOK
  <2>4. InOrder'
    BY <1>1, <2>1, <2>2 DEF CloudInv, InOrder, Chain
  <2> QED BY <1>1, <2>3, <2>4 DEF CloudInv
<1>5. ASSUME UNCHANGED <<shown, fanning>>, seed' \in {seed, None}, TrackerOK',
             \A c \in Cooks, p \in Nat :
                 /\ SeenAt(shown.status, c, p)
                 /\ tracker # None /\ tracker.cook = c /\ ~lent => Behind(tracker, p)
                 => (tracker' # None /\ tracker'.cook = c /\ ~lent' => Behind(tracker', p))
      PROVE  CloudInv'
  <2>1. Mentions'
    BY <1>1, <1>2, <1>5 DEF Mentions, IsSeen, IsCook, CookOrNone
  <2>2. ASSUME NEW c \in Cooks, Live(c)' PROVE \E a, b \in Nat : Chain(c, a, b)'
    <3>1. PICK a \in Nat, b \in Nat : Chain(c, a, b)
      BY <1>1, <2>2 DEF CloudInv, InOrder
    <3>2. Chain(c, a, b)'
      BY <1>1, <1>5, <3>1 DEF Chain
    <3> QED BY <3>2
  <2> QED BY <1>1, <1>5, <2>1, <2>2 DEF CloudInv, InOrder
<1>6. CASE TakesStatus
  <2>1. UNCHANGED <<shown, fanning, seed>>
    BY <1>6 DEF TakesStatus, smVars
  <2> QED BY <1>2, <1>5, <1>6, <2>1, StatusKeeps
<1>7. CASE TakesCook
  <2>1. UNCHANGED <<shown, fanning, seed>>
    BY <1>7 DEF TakesCook, smVars
  <2>2. IsCook(shown.cook)
    BY <1>2 DEF Mentions
  <2> QED BY <1>2, <1>5, <1>7, <2>1, <2>2, CookKeeps
<1>8. CASE TakesSeed
  <2>1. UNCHANGED <<shown, fanning>> /\ seed' = None
    BY <1>8 DEF TakesSeed, watchVars
  <2>2. TrackerOK' /\ (tracker' # None => \A p \in Nat : Behind(tracker', p))
    BY <1>2, <1>8, SeedKeeps DEF Mentions
  <2> QED BY <1>5, <2>1, <2>2
<1> QED BY <1>3, <1>4, <1>6, <1>7, <1>8

LEMMA Start == ASSUME Init PROVE IInv
<1>1. OvenOK
  BY DEF Init, OvenOK
<1>2. Mentions
  BY DEF Init, CpInit, Mentions, IsSeen, IsCook, IsCooking, CookOrNone
<1>3. TrackerOK
  BY DEF Init, CpInit, TrackerOK, Shown
<1>4. \A c \in Cooks : Chain(c, 0, 0)
  BY ProgressAssumption DEF Init, CpInit, Chain, SeenAt, IsCooking, OvenPlace, Off
<1> QED BY <1>1, <1>2, <1>3, <1>4 DEF IInv, CloudInv, InOrder

LEMMA FollowStays == ASSUME [Next]_vars PROVE follow' = follow
BY DEF Next, Begins, ServerStarts, Runs, MovesOn, Stops, Report, Refresh, Fetched, FansStatus,
       FansCook, TakesStatus, TakesCook, TakesSeed, OnStatus, OnCurrentCook, OnStartedFromRecipe,
       vars, cpVars

LEMMA Step == ASSUME IInv, [Next]_vars PROVE IInv'
<1>1. CASE follow
  BY <1>1, FollowStays DEF IInv
<1>2. CASE ~follow
  <2>1. CloudInv
    BY <1>2 DEF IInv
  <2>2. CASE (\E c \in Cooks : Begins(c)) \/ Runs \/ MovesOn \/ Stops
    BY <1>2, <2>1, <2>2, OvenKeeps DEF IInv
  <2>3. CASE (\E c \in Cooks : ServerStarts(c)) \/ Report \/ Refresh \/ Fetched
    BY <1>2, <2>1, <2>3, ServerKeeps DEF IInv
  <2>4. CASE FansStatus \/ FansCook \/ TakesStatus \/ TakesCook \/ TakesSeed
    BY <1>2, <2>1, <2>4, TasksKeep DEF IInv
  <2>5. CASE UNCHANGED vars
    BY <2>1, <2>5 DEF IInv, vars, ovenVars, smVars, watchVars, cpVars, CloudInv, OvenOK, Mentions,
                      IsSeen, IsCook, TrackerOK, InOrder, Live, Chain, OvenPlace
  <2> QED BY <2>2, <2>3, <2>4, <2>5 DEF Next
<1> QED BY <1>1, <1>2

-----------------------------------------------------------------------------
\* IInv is inductive: in cloud mode, for each cook that is not over, the places
\* of the oven, of the status published and of the one shown are in order, and a
\* tracker that heard of this cook alone claims no more than the last of them.
THEOREM Invariant == Spec => []IInv
BY Start, Step, PTL DEF Spec

(***************************************************************************)
(* In cloud mode, of a tracker that was told only its own cook's statuses, *)
(* a timed stage is said to be over only when the oven's is, or the oven   *)
(* has moved on: a timer parked before it ran is not mistaken for one that *)
(* ran (cook_progress.rs: timer_has_run).                                  *)
(***************************************************************************)
THEOREM ReadyWhenOver == Spec => []ReadyIsEarned
<1>1. IInv => ReadyIsEarned
  <2> SUFFICES ASSUME IInv, ~follow, ~lent, progress # None, oven.cook # None,
                      progress.cook = oven.cook, progress.ready,
                      Stages[oven.cook][progress.index].timed
               PROVE  oven.stage > progress.index
                      \/ (oven.stage = progress.index /\ oven.phase = "over")
    BY DEF ReadyIsEarned
  <2>1. CloudInv
    BY DEF IInv
  <2>2. oven \in [cook: Cooks, stage: Nat, phase: Phases]
    BY <2>1 DEF CloudInv, OvenOK, Off
  <2>3. /\ tracker # None /\ tracker.cook = oven.cook
        /\ tracker.index = progress.index /\ tracker.ready = progress.ready
    BY <2>1 DEF CloudInv, TrackerOK, Shown
  <2>4. PICK a \in Nat, b \in Nat : Chain(oven.cook, a, b)
    BY <2>1, <2>2 DEF CloudInv, InOrder, Live
  <2>5. Behind(tracker, a)
    BY <2>3, <2>4 DEF Chain
  <2>6. progress.index \in Nat /\ 3 * progress.index + 2 <= a
    BY <2>3, <2>5 DEF Behind, IsTracker, Timed
  <2>7. Place(oven.stage, oven.phase) \in Nat
    BY <2>2 DEF Place, Rank
  <2>8. a <= Place(oven.stage, oven.phase)
    BY <2>4, <2>7 DEF Chain, OvenPlace
  <2> QED BY <2>2, <2>6, <2>8 DEF Place, Rank, Phases
<1> QED BY <1>1, Invariant, PTL
=============================================================================
