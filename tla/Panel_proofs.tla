----------------------------- MODULE Panel_proofs -----------------------------
(***************************************************************************)
(* Panel: every call that does something answers a press, in the order of  *)
(* the presses and for the recipe pressed last (CallsAnswerPresses), and a *)
(* press goes out in time (PressesGoOutInTime), for any screens, network   *)
(* and server.                                                             *)
(***************************************************************************)
EXTENDS Panel, SequenceTheorems, TLAPS

\* The screens that have a deadline, and the answers to a call.
TimerOK == app.at \in {"Offline", "UpstreamStale", "Cooking", "AwaitNextStage"} => app.timer = None
AnswerOK == call # None => (call.at = "back" => call.answer \in Answer)
Typed == TypeOK /\ TimerOK /\ AnswerOK

\* What waits, in the order of the presses: the actions in the queue, then
\* those still in the channel.
Ordered(actions, n, channel, m, presses, w) ==
    /\ n <= w
    /\ \A i \in 1..n : presses[i].kind = actions[i]
    /\ \A j \in 1..m : \E i \in 1..w : presses[i].kind = channel[j].kind
    /\ \A i, j \in 1..w : presses[i].kind = presses[j].kind => i = j
    /\ \A i \in 1..w : i > n =>
         \E j \in 1..m :
           /\ channel[j].kind = presses[i].kind
           /\ \A h \in 1..j : \E g \in 1..i : presses[g].kind = channel[h].kind
InOrder ==
    Ordered(queue.actions, Len(queue.actions), commands, Len(commands), waiting, Len(waiting))

\* The recipe of a start: of the last one in the channel, or else staged.
IsLastStart(channel, m, j) ==
    /\ channel[j].kind = "ApiStart"
    /\ \A h \in 1..m : h > j => channel[h].kind # "ApiStart"
Kept(channel, m, presses, w, recipe) ==
    /\ \A i \in 1..w :
         IF presses[i].kind = "ApiStart"
           THEN /\ presses[i].recipe \in Recipes
                /\ \A j \in 1..m :
                     IsLastStart(channel, m, j) => channel[j].recipe = presses[i].recipe
                /\ (\A j \in 1..m : channel[j].kind # "ApiStart") => recipe = presses[i].recipe
           ELSE presses[i].recipe = None
    /\ \A j \in 1..m :
         IF channel[j].kind = "ApiStart" THEN channel[j].recipe \in Recipes
         ELSE channel[j].recipe = None
RecipeKept == Kept(commands, Len(commands), waiting, Len(waiting), staged)

\* Actions are due at once, and are so since they left the channel.
DueAt(i) == queue.due[queue.actions[i]]
DueInOrder ==
    /\ \A i \in 1..Len(queue.actions) : DueAt(i) <= 0 /\ 0 - DueAt(i) <= waiting[i].age
    /\ \A i, j \in 1..Len(queue.actions) : i < j => DueAt(i) <= DueAt(j)

\* What a press may wait for: the call in progress, the calls for the presses
\* before it, and a poll of the recipes.
Wait(n) == CallTimeout * n
Precedes(i) ==
    i <= Len(queue.actions) =>
      "PollRecipes" \in queue.polls /\ queue.due["PollRecipes"] <= DueAt(i)
CallLeft == IF call = None THEN 0 ELSE call.left
InTime ==
    \A i \in 1..Len(waiting) :
      /\ waiting[i].age + CallLeft + Wait(i - 1) + (IF Precedes(i) THEN CallTimeout ELSE 0)
           <= Wait(2 + waiting[i].ahead)
      /\ waiting[i].ahead <= 2

IInv == Typed /\ InOrder /\ RecipeKept /\ DueInOrder /\ InTime

-----------------------------------------------------------------------------
(* The operators on sequences and on the queue.                            *)

LEMMA MinIsOne ==
    ASSUME NEW I \in SUBSET Nat, 1 \in I, 0 \notin I
    PROVE  Min(I) = 1
<1>1. \A x \in I : 1 <= x
  OBVIOUS
<1>2. \A x \in I : (\A y \in I : x <= y) => x = 1
  BY <1>1
<1> QED BY <1>1, <1>2 DEF Min

\* What is at the front is removed.
LEMMA RemoveHead ==
    ASSUME NEW S, NEW s \in Seq(S), s # <<>>
    PROVE  RemoveAt(s, 1) = Tail(s)
<1>1. Len(s) \in Nat /\ Len(s) > 0
  BY EmptySeq, LenProperties
<1>2. SubSeq(s, 1, 0) = <<>>
  BY <1>1, SubSeqEmpty
<1>3. SubSeq(s, 2, Len(s)) = Tail(s)
  BY <1>1, TailIsSubSeq
<1>4. Tail(s) \in Seq(S)
  BY HeadTailProperties
<1> QED BY <1>2, <1>3, <1>4, ConcatEmptySeq DEF RemoveAt

LEMMA RemoveFirstHead ==
    ASSUME NEW S, NEW s \in Seq(S), s # <<>>
    PROVE  RemoveFirst(s, Head(s)) = Tail(s)
<1> DEFINE I == {i \in 1..Len(s) : s[i] = Head(s)}
<1>1. Len(s) \in Nat /\ Len(s) > 0 /\ s[1] = Head(s)
  BY EmptySeq, LenProperties, HeadTailProperties
<1>2. I \in SUBSET Nat /\ 1 \in I /\ 0 \notin I
  BY <1>1
<1>3. Min(I) = 1
  BY <1>2, MinIsOne
<1>4. SelectInSeq(s, LAMBDA v : v = Head(s)) = IF I # {} THEN Min(I) ELSE 0
  BY DEF SelectInSeq
<1> HIDE DEF I
<1>5. RemoveFirst(s, Head(s)) = RemoveAt(s, SelectInSeq(s, LAMBDA v : v = Head(s)))
  BY <1>1 DEF RemoveFirst
<1> QED BY <1>2, <1>3, <1>4, <1>5, RemoveHead

LEMMA RemoveFirstPress ==
    ASSUME NEW S, NEW s \in Seq(S), s # <<>>, NEW kind, s[1].kind = kind
    PROVE  Served(s, kind) = Tail(s)
<1> DEFINE I == {i \in 1..Len(s) : s[i].kind = kind}
<1>1. Len(s) \in Nat /\ Len(s) > 0
  BY EmptySeq, LenProperties
<1>2. I \in SUBSET Nat /\ 1 \in I /\ 0 \notin I
  BY <1>1
<1>3. Min(I) = 1
  BY <1>2, MinIsOne
<1>4. SelectInSeq(s, LAMBDA press : press.kind = kind) = IF I # {} THEN Min(I) ELSE 0
  BY DEF SelectInSeq
<1>5. \E i \in 1..Len(s) : s[i].kind = kind
  BY <1>1
<1> HIDE DEF I
<1>6. Served(s, kind) = RemoveAt(s, SelectInSeq(s, LAMBDA press : press.kind = kind))
  BY <1>5 DEF Served, RemoveFirstMatch
<1> QED BY <1>2, <1>3, <1>4, <1>6, RemoveHead

LEMMA RemoveFirstOther ==
    ASSUME NEW S, NEW s \in Seq(S), NEW e, \A i \in 1..Len(s) : s[i] # e
    PROVE  RemoveFirst(s, e) = s
BY DEF RemoveFirst

\* The queue without what was popped: a poll, or the first action.
LEMMA WithoutPoll ==
    ASSUME NEW q \in Queue, NEW kind \in Polls
    PROVE  Without(q, kind) = [polls |-> q.polls \ {kind}, actions |-> q.actions,
                               due |-> [q.due EXCEPT ![kind] = 0]]
<1>1. q.actions \in Seq(Actions)
  BY DEF Queue
<1>2. \A i \in 1..Len(q.actions) : q.actions[i] # kind
  BY <1>1, ElementOfSeq DEF Actions, Polls
<1>3. RemoveFirst(q.actions, kind) = q.actions
  BY <1>1, <1>2, RemoveFirstOther
<1> QED BY <1>3 DEF Without

LEMMA WithoutAction ==
    ASSUME NEW q \in Queue, q.actions # <<>>, NEW kind, kind = Head(q.actions)
    PROVE  /\ Without(q, kind) = [polls |-> q.polls, actions |-> Tail(q.actions),
                                  due |-> [q.due EXCEPT ![kind] = 0]]
           /\ kind \in Actions
<1>1. q.actions \in Seq(Actions) /\ q.polls \subseteq Polls
  BY DEF Queue
<1>2. kind \in Actions
  BY <1>1, HeadTailProperties
<1>3. RemoveFirst(q.actions, kind) = Tail(q.actions)
  BY <1>1, RemoveFirstHead
<1>4. q.polls \ {kind} = q.polls
  BY <1>1, <1>2 DEF Polls, Actions
<1> QED BY <1>2, <1>3, <1>4 DEF Without

LEMMA EnqueueType ==
    ASSUME NEW q \in Queue, NEW kind \in Kinds, NEW in \in Int
    PROVE  Enqueue(q, kind, in) \in Queue
<1>1. q.polls \in SUBSET Polls /\ q.actions \in Seq(Actions) /\ q.due \in [Kinds -> Int]
  BY DEF Queue
<1>2. kind \notin Polls => kind \in Actions
  BY DEF Kinds
<1> DEFINE e == Enqueue(q, kind, in)
<1>3. e.polls \in SUBSET Polls
  BY <1>1 DEF Enqueue
<1>4. e.actions \in Seq(Actions)
  BY <1>1, <1>2, AppendProperties DEF Enqueue
<1>5. e.due \in [Kinds -> Int]
  <2>1. (IF kind \in Queued(q) THEN Earlier(q.due[kind], in) ELSE in) \in Int
    BY <1>1 DEF Earlier
  <2> QED BY <1>1, <2>1 DEF Enqueue
<1>6. e = [polls |-> e.polls, actions |-> e.actions, due |-> e.due]
  BY DEF Enqueue
<1> SUFFICES e \in Queue
  OBVIOUS
<1> HIDE DEF e
<1> QED BY ONLY <1>3, <1>4, <1>5, <1>6 DEF Queue

LEMMA WithoutType ==
    ASSUME NEW q \in Queue, NEW kind \in Due(q)
    PROVE  /\ Without(q, kind) \in Queue
           /\ kind \in Kinds
           /\ kind \in Actions => q.actions # <<>> /\ kind = Head(q.actions)
<1>1. q.polls \in SUBSET Polls /\ q.actions \in Seq(Actions) /\ q.due \in [Kinds -> Int]
  BY DEF Queue
<1>2. \A a \in Range(q.actions) : a \in Actions /\ q.actions # <<>>
  <2> SUFFICES ASSUME NEW i \in DOMAIN q.actions
               PROVE  q.actions[i] \in Actions /\ q.actions # <<>>
    BY DEF Range
  <2> QED BY <1>1, ElementOfSeq, LenProperties, EmptySeq
<1>3. kind \in Kinds
  BY <1>1, <1>2 DEF Due, Queued, Kinds
<1>4. (q.due[kind] <= 0 /\ kind \in q.polls) \/ (kind \in Range(q.actions) /\ kind \in Actions)
  BY <1>2 DEF Due, Queued
<1>5. kind \in Actions => q.actions # <<>> /\ kind = Head(q.actions)
  <2>1. kind \in Actions => kind \notin Polls
    BY DEF Actions, Polls
  <2> QED BY <1>1, <1>2, <1>4, <2>1 DEF Due
<1>6. [q.due EXCEPT ![kind] = 0] \in [Kinds -> Int]
  BY <1>1, <1>3
<1> SUFFICES Without(q, kind) \in Queue
  BY <1>3, <1>5
<1>7. CASE kind \in Polls
  BY <1>1, <1>6, <1>7, WithoutPoll DEF Queue
<1>8. CASE kind \in Actions
  <2>1. Without(q, kind) = [polls |-> q.polls, actions |-> Tail(q.actions),
                            due |-> [q.due EXCEPT ![kind] = 0]]
    BY <1>5, <1>8, WithoutAction
  <2>2. Tail(q.actions) \in Seq(Actions)
    BY <1>1, <1>5, <1>8, HeadTailProperties
  <2> QED BY <1>1, <1>3, <1>5, <1>6, <1>8, <2>1, <2>2 DEF Queue
<1>9. kind \in Polls \/ kind \in Actions
  BY <1>3 DEF Kinds
<1> QED BY <1>7, <1>8, <1>9

-----------------------------------------------------------------------------
(* The types.                                                              *)

LEMMA Constants ==
    /\ MaxRecipes \in Nat /\ ChannelSize \in Nat /\ CallTimeout \in Nat
    /\ Refresh \in Nat /\ StartRefresh \in Nat /\ StatusEvery \in Nat /\ CookEvery \in Nat
    /\ RecipesEvery \in Nat /\ BackoffFails \in Nat /\ BackoffEvery \in Nat
    /\ MaxFails \in Nat /\ MaxLate \in Nat /\ Grace \in Nat
    /\ ChannelSize > 0 /\ CallTimeout > 0 /\ RecipesEvery > 0
    /\ MaxLate > 4 * CallTimeout
    /\ None \notin Int /\ None \notin Call
BY ApiClientAssumption, NoneIsNoRecord

LEMMA EarlierType ==
    ASSUME NEW n \in Nat, NEW a \in 0..n, NEW b \in 0..n
    PROVE  Earlier(a, b) \in 0..n
BY DEF Earlier

LEMMA CallType ==
    ASSUME NEW kind \in Kinds, NEW recipe \in Recipes \cup {None}, Calls(kind, recipe)
    PROVE  /\ call' \in Call /\ call' # None /\ task' = "calling"
           /\ call'.at = "out" /\ call'.kind = kind /\ call'.recipe = recipe
           /\ call'.left = CallTimeout
<1>1. call' = [kind |-> kind, recipe |-> recipe, left |-> CallTimeout,
               at |-> "out", answer |-> None]
  BY DEF Calls
<1>2. call' \in Call
  BY <1>1, Constants DEF Call
<1> QED BY <1>1, <1>2, Constants DEF Calls

LEMMA AfterStatusType ==
    ASSUME snap \in Snapshot, NEW a \in Answer
    PROVE  AfterStatus(a) \in Snapshot
<1> DEFINE f == Earlier(snap.fails + 1, MaxFails)
           m == IF snap.missing = None THEN 0 ELSE snap.missing
<1>1. f \in 0..MaxFails
  BY Constants DEF Snapshot, Earlier
<1>2. m \in (0..Grace) \cup {None}
  BY Constants DEF Snapshot
<1>3. a.is \in {"ok", "absent", "failed"} /\ a.status \in Status \cup {None}
  BY DEF Answer
<1>4. AfterStatus(a) =
        CASE a.is = "ok" ->
               [snap EXCEPT !.status = a.status, !.missing = None, !.fails = 0, !.success = TRUE]
          [] a.is = "absent" ->
               [snap EXCEPT !.status = None, !.missing = m, !.fails = 0, !.success = TRUE]
          [] a.is = "failed" -> [snap EXCEPT !.fails = f]
  BY DEF AfterStatus
<1>5. 0 \in 0..MaxFails
  BY Constants
<1> HIDE DEF f, m
<1>6. CASE a.is = "ok"
  BY <1>3, <1>4, <1>5, <1>6 DEF Snapshot
<1>7. CASE a.is = "absent"
  BY <1>2, <1>4, <1>5, <1>7 DEF Snapshot
<1>8. CASE a.is = "failed"
  BY <1>1, <1>4, <1>8 DEF Snapshot
<1> QED BY <1>3, <1>6, <1>7, <1>8

LEMMA AfterCookType ==
    ASSUME snap \in Snapshot, NEW a \in Answer
    PROVE  AfterCook(a) \in Snapshot
<1>1. (a.is = "ok") \in BOOLEAN
  OBVIOUS
<1> DEFINE b == a.is = "ok"
<1>2. AfterCook(a) = IF a.is = "failed" THEN snap ELSE [snap EXCEPT !.cook = b]
  BY DEF AfterCook
<1> HIDE DEF b
<1>3. b \in BOOLEAN
  BY <1>1 DEF b
<1> QED BY <1>2, <1>3 DEF Snapshot

LEMMA AfterRecipesType ==
    ASSUME snap \in Snapshot, NEW a \in Answer
    PROVE  AfterRecipes(a) \in Snapshot
BY DEF AfterRecipes, Snapshot, Answer

LEMMA AfterPollType ==
    ASSUME ApiTypeOK, NEW kind \in Polls, NEW a \in Answer, AfterPoll(kind, a)
    PROVE  snap' \in Snapshot /\ queue' \in Queue /\ unseen' \in BOOLEAN
<1>1. snap \in Snapshot /\ queue \in Queue
  BY DEF ApiTypeOK
<1>2. snap' \in Snapshot
  <2>1. AfterStatus(a) \in Snapshot /\ AfterCook(a) \in Snapshot /\ AfterRecipes(a) \in Snapshot
    BY <1>1, AfterStatusType, AfterCookType, AfterRecipesType
  <2> QED BY <2>1 DEF AfterPoll, Polls
<1>3. \A f : Interval(f) \in Int
  BY Constants DEF Interval
<1>4. Later(Interval(snap.fails), CookEvery) \in Int /\ Later(Interval(snap.fails), RecipesEvery) \in Int
  BY <1>3, Constants DEF Later
<1>5. PICK in \in Int : queue' = Enqueue(queue, kind, in)
  BY <1>3, <1>4 DEF AfterPoll, Polls
<1>6. kind \in Kinds
  BY DEF Kinds
<1>7. queue' \in Queue
  BY <1>1, <1>5, <1>6, EnqueueType
<1> QED BY <1>2, <1>7 DEF AfterPoll

LEMMA TakesCommandTyped ==
    ASSUME ApiTypeOK, AnswerOK, TakesCommand
    PROVE  ApiTypeOK' /\ AnswerOK'
<1>1. commands \in Seq(Command) /\ commands # <<>> /\ Len(commands) <= ChannelSize
  BY DEF ApiTypeOK, TakesCommand
<1>2. Head(commands) \in Command /\ Tail(commands) \in Seq(Command)
        /\ Len(Tail(commands)) = Len(commands) - 1
  BY <1>1, HeadTailProperties
<1>3. Len(Tail(commands)) <= ChannelSize
  BY <1>1, <1>2, Constants, LenProperties
<1>4. queue' \in Queue /\ staged' \in Recipes \cup {None}
  <2> DEFINE cmd == Head(commands)
  <2>1. cmd.kind \in Actions /\ cmd.recipe \in Recipes \cup {None}
    BY <1>2 DEF Command
  <2>2. cmd.kind \in Kinds /\ {"ApiStart", "PollStatus", "PollCurrentCook"} \subseteq Kinds
    BY <2>1 DEF Kinds, Polls, Actions
  <2>3. HandleCommand(cmd)
    BY DEF TakesCommand
  <2>4. queue \in Queue /\ staged \in Recipes \cup {None} /\ 0 \in Int /\ Refresh \in Int
    BY Constants DEF ApiTypeOK
  <2> HIDE DEF cmd
  <2>5. CASE cmd.kind = "ApiStart"
    BY <2>1, <2>2, <2>3, <2>4, <2>5, EnqueueType DEF HandleCommand
  <2>6. CASE cmd.kind # "ApiStart"
    <3>1. Enqueue(queue, cmd.kind, 0) \in Queue
      BY <2>2, <2>4, EnqueueType
    <3>2. RefreshSoon(Enqueue(queue, cmd.kind, 0)) \in Queue
      BY <2>2, <2>4, <3>1, EnqueueType DEF RefreshSoon
    <3> QED BY <2>3, <2>4, <2>6, <3>2 DEF HandleCommand
  <2> QED BY <2>5, <2>6
<1>5. AnswerOK'
  BY DEF TakesCommand, AnswerOK
<1> QED BY <1>2, <1>3, <1>4, <1>5 DEF TakesCommand, ApiTypeOK

LEMMA SelectTyped ==
    ASSUME ApiTypeOK, AnswerOK, Wakes \/ Parks
    PROVE  ApiTypeOK' /\ AnswerOK'
<1>1. task # "calling" /\ task' # "calling" /\ task' \in {"parked", "draining", "calling"}
  BY DEF Wakes, Parks
<1>2. UNCHANGED <<commands, queue, staged, snap, unseen, call, waiting>>
  BY DEF Wakes, Parks
<1>3. (task' = "calling") = (call' # None)
  <2>1. (task = "calling") = (call # None) /\ call' = call
    BY <1>2 DEF ApiTypeOK
  <2> QED BY <1>1, <2>1, Zenon
<1>4. AnswerOK'
  BY <1>2 DEF AnswerOK
<1> QED BY <1>1, <1>2, <1>3, <1>4 DEF ApiTypeOK

\* Once the channel is empty the first action in the queue is the press that
\* waited longest.
LEMMA QueuedIsWaiting ==
    ASSUME ApiTypeOK, InOrder, commands = <<>>
    PROVE  /\ Len(queue.actions) = Len(waiting)
           /\ \A i \in DOMAIN waiting : waiting[i].kind = queue.actions[i]
           /\ waiting \in Seq(Press) /\ queue.actions \in Seq(Actions)
<1>1. waiting \in Seq(Press) /\ queue.actions \in Seq(Actions)
  BY DEF ApiTypeOK, Queue
<1>2. DOMAIN commands = {}
  OBVIOUS
<1>3. Len(queue.actions) = Len(waiting)
  <2>1. Len(queue.actions) <= Len(waiting) /\ Len(queue.actions) \in Nat /\ Len(waiting) \in Nat
        /\ DOMAIN waiting = 1..Len(waiting)
    BY <1>1, LenProperties DEF InOrder, Ordered
  <2>2. ASSUME Len(queue.actions) < Len(waiting) PROVE FALSE
    <3>1. Len(waiting) \in DOMAIN waiting /\ Len(waiting) > Len(queue.actions)
      BY <2>1, <2>2
    <3> QED BY <1>2, <3>1 DEF InOrder, Ordered
  <2> QED BY <2>1, <2>2
<1>4. DOMAIN waiting = DOMAIN queue.actions
  BY <1>1, <1>3, LenProperties
<1> QED BY <1>1, <1>3, <1>4 DEF InOrder, Ordered

LEMMA ActionFront ==
    ASSUME ApiTypeOK, InOrder, commands = <<>>, NEW kind \in Due(queue), kind \in Actions
    PROVE  /\ queue.actions # <<>> /\ Head(queue.actions) = kind
           /\ waiting # <<>> /\ waiting[1].kind = kind
           /\ Without(queue, kind) = [polls |-> queue.polls, actions |-> Tail(queue.actions),
                                      due |-> [queue.due EXCEPT ![kind] = 0]]
           /\ Served(waiting, kind) = Tail(waiting)
<1>1. queue \in Queue /\ queue.actions # <<>> /\ Head(queue.actions) = kind
  BY WithoutType DEF ApiTypeOK
<1>2. /\ Len(queue.actions) = Len(waiting)
      /\ \A i \in DOMAIN waiting : waiting[i].kind = queue.actions[i]
      /\ waiting \in Seq(Press) /\ queue.actions \in Seq(Actions)
  BY QueuedIsWaiting
<1>3. Len(queue.actions) > 0 /\ Len(waiting) \in Nat /\ DOMAIN waiting = 1..Len(waiting)
  BY <1>1, <1>2, EmptySeq, LenProperties
<1>4. waiting # <<>> /\ waiting[1].kind = kind
  BY <1>1, <1>2, <1>3, HeadTailProperties
<1>5. Served(waiting, kind) = Tail(waiting)
  BY <1>2, <1>4, RemoveFirstPress
<1>6. Without(queue, kind) = [polls |-> queue.polls, actions |-> Tail(queue.actions),
                              due |-> [queue.due EXCEPT ![kind] = 0]]
  BY <1>1, WithoutAction
<1> QED BY <1>1, <1>4, <1>5, <1>6

LEMMA PopsTyped ==
    ASSUME ApiTypeOK, AnswerOK, InOrder, Pops
    PROVE  ApiTypeOK' /\ AnswerOK'
<1>1. task = "draining" /\ UNCHANGED <<commands, snap, unseen>>
  BY DEF Pops
<1>2. PICK kind \in Due(queue) : PopsPoll(kind) \/ PopsAction(kind)
  BY DEF Pops
<1>3. queue \in Queue /\ staged \in Recipes \cup {None} /\ waiting \in Seq(Press) /\ call = None
  <2>1. (task = "calling") = (call # None)
    BY DEF ApiTypeOK
  <2>2. call = None
    BY <1>1, <2>1
  <2> QED BY <2>2 DEF ApiTypeOK
<1>4. /\ Without(queue, kind) \in Queue /\ kind \in Kinds
  BY <1>3, WithoutType
<1>5. /\ queue' \in Queue /\ staged' \in Recipes \cup {None}
      /\ \/ UNCHANGED <<task, call>>
         \/ \E recipe \in Recipes \cup {None} : Calls(kind, recipe)
  <2>1. CASE PopsPoll(kind)
    <3>1. Enqueue(Without(queue, kind), kind, Refresh) \in Queue
      BY <1>4, Constants, EnqueueType
    <3>2. queue' \in Queue
      BY <1>4, <2>1, <3>1 DEF PopsPoll
    <3> QED BY <1>3, <2>1, <3>2 DEF PopsPoll
  <2>2. CASE PopsAction(kind)
    BY <1>3, <1>4, <2>2 DEF PopsAction
  <2> QED BY <1>2, <2>1, <2>2
<1>6. call' \in Call \cup {None} /\ (task' = "calling") = (call' # None)
      /\ task' \in {"parked", "draining", "calling"} /\ AnswerOK'
  <2>1. CASE UNCHANGED <<task, call>>
    BY <1>1, <1>3, <2>1 DEF AnswerOK
  <2>2. CASE \E recipe \in Recipes \cup {None} : Calls(kind, recipe)
    <3>1. call' \in Call /\ call' # None /\ task' = "calling" /\ call'.at = "out"
      BY <1>4, <2>2, CallType
    <3>2. (task' = "calling") = (call' # None)
      BY <3>1
    <3> QED BY <3>1, <3>2 DEF AnswerOK
  <2> QED BY <1>5, <2>1, <2>2
<1>7. waiting' \in Seq(Press)
  <2>1. CASE PopsPoll(kind)
    BY <1>3, <2>1 DEF PopsPoll
  <2>2. CASE PopsAction(kind)
    <3>1. waiting' = Served(waiting, kind)
      BY <2>2 DEF PopsAction
    <3>2. waiting # <<>> /\ waiting' = Tail(waiting)
      BY <2>2, <3>1, ActionFront DEF PopsAction, Pops
    <3> QED BY <1>3, <3>2, HeadTailProperties
  <2> QED BY <1>2, <2>1, <2>2
<1> QED BY <1>1, <1>5, <1>6, <1>7 DEF ApiTypeOK

LEMMA EndsTyped ==
    ASSUME ApiTypeOK, AnswerOK, CallEnds \/ CallFails
    PROVE  ApiTypeOK' /\ AnswerOK'
<1>1. task = "calling" /\ call # None /\ call \in Call
  <2>1. task = "calling" /\ (task = "calling") = (call # None) /\ call \in Call \cup {None}
    BY DEF ApiTypeOK, CallEnds, CallFails
  <2>2. call # None
    BY <2>1
  <2> QED BY <2>1, <2>2
<1>2. PICK a \in Answer : Ends(a)
  <2>1. Failed \in Answer
    BY Constants DEF Failed, Answer
  <2> QED BY <1>1, <2>1 DEF CallEnds, CallFails, AnswerOK
<1>3. task' = "draining" /\ call' = None /\ UNCHANGED <<commands, staged, waiting>>
  BY <1>2 DEF Ends
<1>4. snap' \in Snapshot /\ queue' \in Queue /\ unseen' \in BOOLEAN
  <2>1. CASE call.kind \in Polls
    BY <1>2, <2>1, AfterPollType DEF Ends
  <2>2. CASE call.kind \notin Polls
    <3>1. AfterAction(call.kind)
      BY <1>2, <2>2 DEF Ends
    <3>2. queue \in Queue /\ snap \in Snapshot /\ unseen \in BOOLEAN
      BY DEF ApiTypeOK
    <3>3. {"PollStatus", "PollCurrentCook"} \subseteq Kinds /\ Refresh \in Int /\ StartRefresh \in Int
      BY Constants DEF Kinds, Polls
    <3>4. Enqueue(Enqueue(queue, "PollStatus", Refresh), "PollCurrentCook", StartRefresh) \in Queue
      BY <3>2, <3>3, EnqueueType
    <3> QED BY <3>1, <3>2, <3>4 DEF AfterAction
  <2> QED BY <2>1, <2>2
<1>5. (task' = "calling") = (call' # None)
  BY <1>3
<1> QED BY <1>3, <1>4, <1>5 DEF ApiTypeOK, AnswerOK

LEMMA TickTyped ==
    ASSUME ApiTypeOK, AnswerOK, ApiAtRest, ApiTick
    PROVE  ApiTypeOK' /\ AnswerOK'
<1>1. UNCHANGED <<commands, staged, unseen, task>>
  BY DEF ApiTick
<1>2. queue' \in Queue
  <2> DEFINE d == [kind \in Kinds |->
                     IF kind \in Queued(queue) THEN Later(queue.due[kind] - 1, 0 - MaxLate) ELSE 0]
  <2>1. queue \in Queue /\ queue.due \in [Kinds -> Int]
    BY DEF ApiTypeOK, Queue
  <2>2. d \in [Kinds -> Int]
    BY <2>1, Constants DEF Later
  <2>3. queue' = [queue EXCEPT !.due = d]
    BY DEF ApiTick, Aged
  <2> HIDE DEF d
  <2> QED BY <2>1, <2>2, <2>3 DEF Queue
<1>3. snap' \in Snapshot
  <2>1. snap \in Snapshot
    BY DEF ApiTypeOK
  <2> DEFINE m == Earlier(snap.missing + 1, Grace)
  <2>2. snap.missing # None => m \in 0..Grace
    BY <2>1, Constants DEF Snapshot, Earlier
  <2>3. snap' = IF snap.missing = None THEN snap ELSE [snap EXCEPT !.missing = m]
    BY DEF ApiTick
  <2> HIDE DEF m
  <2> QED BY <2>1, <2>2, <2>3 DEF Snapshot
<1>4. call' \in Call \cup {None} /\ (task' = "calling") = (call' # None) /\ AnswerOK'
  <2>1. (task = "calling") = (call # None) /\ call \in Call \cup {None} /\ task' = task
    BY <1>1 DEF ApiTypeOK
  <2>2. CASE call = None
    <3>1. call' = None
      BY <2>2 DEF ApiTick
    <3>2. task' # "calling"
      BY <2>1, <2>2
    <3>3. (task' = "calling") = (call' # None)
      BY <3>1, <3>2
    <3> QED BY <3>1, <3>3 DEF AnswerOK
  <2>3. CASE call # None
    <3>1. call' = [call EXCEPT !.left = call.left - 1] /\ call \in Call /\ task' = "calling"
      BY <2>1, <2>3 DEF ApiTick
    <3>2. call.left > 0 /\ call.at # "back" /\ call.left \in 0..CallTimeout
      BY <2>1, <3>1 DEF ApiAtRest, Call
    <3>3. call.left - 1 \in 0..CallTimeout
      BY <3>2, Constants
    <3>4. call' \in Call /\ call'.at = call.at
      BY <3>1, <3>3 DEF Call
    <3>5. (task' = "calling") = (call' # None)
      BY <3>1, <3>4, Constants
    <3> QED BY <3>2, <3>4, <3>5 DEF AnswerOK
  <2> QED BY <2>2, <2>3
<1>5. waiting' \in Seq(Press)
  <2>1. waiting \in Seq(Press) /\ Len(waiting) \in Nat /\ DOMAIN waiting = 1..Len(waiting)
    BY LenProperties DEF ApiTypeOK
  <2>2. waiting' = [i \in 1..Len(waiting) |-> [waiting[i] EXCEPT !.age = Earlier(waiting[i].age + 1, MaxLate)]]
    BY <2>1 DEF ApiTick
  <2>3. ASSUME NEW i \in 1..Len(waiting)
        PROVE  [waiting[i] EXCEPT !.age = Earlier(waiting[i].age + 1, MaxLate)] \in Press
    <3>1. waiting[i] \in Press
      BY <2>1, ElementOfSeq
    <3> DEFINE age == Earlier(waiting[i].age + 1, MaxLate)
    <3>2. age \in 0..MaxLate
      BY <3>1, Constants DEF Press, Earlier
    <3> SUFFICES [waiting[i] EXCEPT !.age = age] \in Press
      OBVIOUS
    <3> HIDE DEF age
    <3> QED BY <3>1, <3>2 DEF Press
  <2> QED BY ONLY <2>1, <2>2, <2>3, IsASeq
<1> QED BY <1>1, <1>2, <1>3, <1>4, <1>5 DEF ApiTypeOK

\* A press that is sent, or is lost as the channel is full.
SentAs(kind, recipe) ==
    /\ commands' = Append(commands, [kind |-> kind, recipe |-> recipe])
    /\ waiting' = Rewait(kind, recipe)

LEMMA RewaitType ==
    ASSUME waiting \in Seq(Press), NEW kind \in Actions, NEW recipe \in Recipes \cup {None}
    PROVE  Rewait(kind, recipe) \in Seq(Press)
<1>1. Len(waiting) \in Nat /\ DOMAIN waiting = 1..Len(waiting)
  BY LenProperties
<1>2. CASE \E i \in DOMAIN waiting : waiting[i].kind = kind
  <2>1. Rewait(kind, recipe) =
          [i \in 1..Len(waiting) |->
             IF waiting[i].kind = kind THEN [waiting[i] EXCEPT !.recipe = recipe] ELSE waiting[i]]
    BY <1>1, <1>2 DEF Rewait
  <2>2. ASSUME NEW i \in 1..Len(waiting)
        PROVE  (IF waiting[i].kind = kind THEN [waiting[i] EXCEPT !.recipe = recipe]
                ELSE waiting[i]) \in Press
    <3>1. waiting[i] \in Press
      BY <1>1, ElementOfSeq
    <3> QED BY <3>1 DEF Press
  <2> QED BY ONLY <1>1, <2>1, <2>2, IsASeq
<1>3. CASE ~ \E i \in DOMAIN waiting : waiting[i].kind = kind
  <2>1. Rewait(kind, recipe) =
          Append(waiting, [kind |-> kind, recipe |-> recipe, age |-> 0, ahead |-> Len(waiting)])
    BY <1>3 DEF Rewait
  <2>2. [kind |-> kind, recipe |-> recipe, age |-> 0, ahead |-> Len(waiting)] \in Press
    BY <1>1, Constants DEF Press
  <2> QED BY <2>1, <2>2, AppendProperties
<1> QED BY <1>2, <1>3

LEMMA SendTyped ==
    ASSUME ApiTypeOK, AnswerOK, NEW kind \in Actions, NEW recipe \in Recipes \cup {None},
           Send(kind, recipe)
    PROVE  ApiTypeOK' /\ AnswerOK'
<1>1. UNCHANGED <<queue, staged, snap, unseen, task, call>>
  BY DEF Send
<1>2. commands \in Seq(Command) /\ Len(commands) <= ChannelSize /\ waiting \in Seq(Press)
  BY DEF ApiTypeOK
<1>3. commands' \in Seq(Command) /\ Len(commands') <= ChannelSize /\ waiting' \in Seq(Press)
  <2>1. CASE Len(commands) < ChannelSize
    <3>1. SentAs(kind, recipe)
      BY <2>1 DEF Send, SentAs
    <3>2. [kind |-> kind, recipe |-> recipe] \in Command
      BY DEF Command
    <3>3. commands' \in Seq(Command) /\ Len(commands') = Len(commands) + 1
      BY <1>2, <3>1, <3>2, AppendProperties DEF SentAs
    <3> QED BY <1>2, <2>1, <3>1, <3>3, RewaitType, Constants, LenProperties DEF SentAs
  <2>2. CASE ~(Len(commands) < ChannelSize)
    BY <1>2, <2>2 DEF Send
  <2> QED BY <2>1, <2>2
<1>4. AnswerOK'
  BY <1>1 DEF AnswerOK
<1> QED BY <1>1, <1>3, <1>4 DEF ApiTypeOK

\* What a screen that is entered looks like.
LEMMA EntersType ==
    ASSUME NEW screen \in Screens, Enters(screen),
           screen = "BrowseRecipes" => MaxRecipes > 0
    PROVE  app' \in App /\ TimerOK'
<1>1. {OfflineThreshold, MenuTimeout, StopConfirm, Confirm, DimDelay} \subseteq Nat \ {0}
  BY PanelAssumption
<1>2. TimerOf(screen) \in Nat \cup {None}
      /\ (screen \in {"Offline", "UpstreamStale", "Cooking", "AwaitNextStage"} =>
            TimerOf(screen) = None)
  BY <1>1 DEF TimerOf, Screens
<1> DEFINE looks == screen \notin WaitsFirst
           index == IF screen = "BrowseRecipes" THEN 1 ELSE 0
<1>4. app' = [at |-> screen, index |-> index, timer |-> TimerOf(screen),
              dimmed |-> FALSE, looking |-> looks]
  BY DEF Enters
<1>5. index \in 0..MaxRecipes /\ looks \in BOOLEAN
  BY Constants
<1> HIDE DEF looks, index
<1> QED BY <1>2, <1>4, <1>5 DEF App, TimerOK

\* What a step of the screens keeps of the API task, and the other way round.
ApiPart == ApiTypeOK /\ AnswerOK
ScreenPart == app \in App /\ TimerOK
WorldPart ==
    /\ server \in Server /\ reachable \in BOOLEAN /\ accepted \in Seq(Actions)
    /\ left \in [{"inputs", "outages", "surprises"} -> Nat]

LEMMA TypedParts == Typed = (ApiPart /\ ScreenPart /\ WorldPart)
BY Zenon DEF Typed, TypeOK, ApiPart, ScreenPart, WorldPart

LEMMA SameApi ==
    ASSUME ApiPart, UNCHANGED apiVars
    PROVE  ApiPart'
BY DEF ApiPart, ApiTypeOK, AnswerOK, apiVars

LEMMA SpendType ==
    ASSUME WorldPart, NEW kind \in {"inputs", "outages", "surprises"}, Spend(kind)
    PROVE  left' \in [{"inputs", "outages", "surprises"} -> Nat]
BY DEF WorldPart, Spend

LEMMA LooksTyped ==
    ASSUME Typed, Looks
    PROVE  Typed'
<1>1. ApiPart /\ ScreenPart /\ WorldPart
  BY TypedParts
<1>2. snap.recipes \in 0..MaxRecipes /\ app \in App
  BY <1>1 DEF ApiPart, ApiTypeOK, Snapshot, ScreenPart
<1>3. ScreenPart'
  <2>1. CASE Look = app.at
    <3> DEFINE index == Earlier(app.index, snap.recipes)
    <3>1. app' = [app EXCEPT !.looking = FALSE, !.index = index]
      BY <2>1 DEF Looks
    <3>2. index \in 0..MaxRecipes
      BY <1>2, Constants DEF App, Earlier
    <3> HIDE DEF index
    <3> QED BY <1>1, <1>2, <3>1, <3>2 DEF ScreenPart, TimerOK, App
  <2>2. CASE Look # app.at
    <3>1. Enters(Look)
      BY <2>2 DEF Looks
    <3>2. Look \in Screens /\ Look # "BrowseRecipes"
      BY <1>2, <2>2 DEF Look, Baseline, App, Screens
    <3> QED BY <3>1, <3>2, EntersType DEF ScreenPart
  <2> QED BY <2>1, <2>2
<1>4. ApiPart'
  <2>1. UNCHANGED <<commands, queue, staged, snap, task, call, waiting>>
    BY DEF Looks
  <2>2. unseen' \in BOOLEAN
    <3>1. unseen' = (app.looking /\ unseen)
      BY DEF Looks
    <3> QED BY <3>1, Zenon
  <2> QED BY <1>1, <2>1, <2>2 DEF ApiPart, ApiTypeOK, AnswerOK
<1>5. WorldPart'
  BY <1>1 DEF WorldPart, Looks
<1> QED
  <2>1. Typed' = (ApiPart' /\ ScreenPart' /\ WorldPart')
    BY Zenon DEF Typed, TypeOK, ApiPart, ScreenPart, WorldPart
  <2> QED BY <1>3, <1>4, <1>5, <2>1

LEMMA TypedAgain ==
    ASSUME ApiPart', ScreenPart', WorldPart'
    PROVE  Typed'
<1>1. Typed' = (ApiPart' /\ ScreenPart' /\ WorldPart')
  BY Zenon DEF Typed, TypeOK, ApiPart, ScreenPart, WorldPart
<1> QED BY <1>1

\* A handler that stays, and sets what the steps of the screens set.
LEMMA StaysType ==
    ASSUME ScreenPart, NEW index \in 0..MaxRecipes, NEW timer \in Nat \cup {None}, NEW dimmed \in BOOLEAN,
           app' = [app EXCEPT !.index = index, !.timer = timer, !.dimmed = dimmed, !.looking = TRUE],
           timer = app.timer
             \/ app.at \notin {"Offline", "UpstreamStale", "Cooking", "AwaitNextStage"}
    PROVE  ScreenPart'
BY DEF ScreenPart, TimerOK, App

LEMMA UserInputTyped ==
    ASSUME Typed, UserInput
    PROVE  Typed'
<1>1. ApiPart /\ ScreenPart /\ WorldPart
  BY TypedParts
<1>2. WorldPart'
  <2>1. left' \in [{"inputs", "outages", "surprises"} -> Nat]
    BY <1>1, SpendType DEF UserInput
  <2> QED BY <1>1, <2>1 DEF WorldPart, UserInput
<1> SUFFICES ApiPart' /\ ScreenPart'
  BY <1>2, TypedAgain
<1>3. {MenuTimeout, StopConfirm, DimDelay} \subseteq Nat
  BY PanelAssumption
<1>4. app \in App /\ snap.recipes \in 0..MaxRecipes /\ MaxRecipes \in Nat
  BY <1>1, Constants DEF ScreenPart, ApiPart, ApiTypeOK, Snapshot
<1>5. app.index \in 0..MaxRecipes /\ app.timer \in Nat \cup {None} /\ app.dimmed \in BOOLEAN
  BY <1>4 DEF App
<1>6. /\ ApiPart /\ UNCHANGED apiVars => ApiPart'
      /\ \A kind \in Actions, recipe \in Recipes \cup {None} : Send(kind, recipe) => ApiPart'
  BY <1>1, SameApi, SendTyped DEF ApiPart
<1>7. {"Idle", "Cooking", "ConfirmStop", "StartPending", "StopPending", "BrowseRecipes"}
        \subseteq Screens
  BY DEF Screens
<1>8. {"ApiStart", "ApiStop", "ApiNextStage"} \subseteq Actions
  BY DEF Actions
<1>a. CASE IdleInput
  <2>1. CASE snap.recipes > 0 /\ Goes("BrowseRecipes")
    BY <1>1, <1>4, <1>6, <1>7, <2>1, EntersType DEF Goes, ScreenPart
  <2>2. CASE Stays([app EXCEPT !.timer = DimDelay, !.dimmed = FALSE, !.looking = TRUE])
    <3>1. app' = [app EXCEPT !.index = app.index, !.timer = DimDelay, !.dimmed = FALSE, !.looking = TRUE]
      BY <1>4, <2>2 DEF Stays, App
    <3>2. ScreenPart'
      BY <1>1, <1>3, <1>5, <1>a, <3>1, StaysType DEF IdleInput
    <3> QED BY <1>1, <1>6, <2>2, <3>2 DEF Stays
  <2> QED BY <1>a, <2>1, <2>2 DEF IdleInput
<1>b. CASE CookingInput
  <2>1. Goes("ConfirmStop")
    BY <1>b DEF CookingInput
  <2> QED BY <1>1, <1>6, <1>7, <2>1, EntersType DEF Goes, ScreenPart
<1>c. CASE NextStageInput
  <2>1. ApiPart'
    BY <1>6, <1>8, <1>c DEF NextStageInput
  <2>2. app' = [app EXCEPT !.index = app.index, !.timer = app.timer, !.dimmed = app.dimmed, !.looking = TRUE]
    BY <1>4, <1>c DEF NextStageInput, App
  <2>3. ScreenPart'
    BY <1>1, <1>5, <2>2, StaysType
  <2> QED BY <2>1, <2>3
<1>d. CASE BrowseInput
  <2>1. CASE Stays([app EXCEPT !.index = Earlier(@ + 1, snap.recipes), !.timer = MenuTimeout,
                               !.looking = TRUE])
    <3> DEFINE index == Earlier(app.index + 1, snap.recipes)
    <3>1. index \in 0..MaxRecipes
      BY <1>4, <1>5 DEF Earlier
    <3>2. app' = [app EXCEPT !.index = index, !.timer = MenuTimeout, !.dimmed = app.dimmed, !.looking = TRUE]
      BY <1>4, <2>1 DEF Stays, App
    <3> HIDE DEF index
    <3>3. ScreenPart'
      BY <1>1, <1>3, <1>5, <1>d, <3>1, <3>2, StaysType DEF BrowseInput
    <3> QED BY <1>1, <1>6, <2>1, <3>3 DEF Stays
  <2>2. CASE Goes("Idle")
    BY <1>1, <1>6, <1>7, <2>2, EntersType DEF Goes, ScreenPart
  <2>3. CASE app.index > 1 /\ Stays([app EXCEPT !.index = @ - 1, !.timer = MenuTimeout,
                                                !.looking = TRUE])
    <3> DEFINE index == app.index - 1
    <3>1. index \in 0..MaxRecipes
      BY <1>4, <1>5, <2>3
    <3>2. app' = [app EXCEPT !.index = index, !.timer = MenuTimeout, !.dimmed = app.dimmed, !.looking = TRUE]
      BY <1>4, <2>3 DEF Stays, App
    <3> HIDE DEF index
    <3>3. ScreenPart'
      BY <1>1, <1>3, <1>5, <1>d, <3>1, <3>2, StaysType DEF BrowseInput
    <3> QED BY <1>1, <1>6, <2>3, <3>3 DEF Stays
  <2>4. CASE app.index \in 1..snap.recipes /\ Send("ApiStart", app.index) /\ Enters("StartPending")
    <3>1. app.index \in Recipes
      BY <1>4, <1>5, <2>4 DEF Recipes
    <3> QED BY <1>6, <1>7, <1>8, <2>4, <3>1, EntersType DEF ScreenPart
  <2> QED BY <1>d, <2>1, <2>2, <2>3, <2>4 DEF BrowseInput
<1>e. CASE ConfirmInput
  <2>1. CASE Send("ApiStop", None) /\ Enters("StopPending")
    BY <1>6, <1>7, <1>8, <2>1, EntersType DEF ScreenPart
  <2>2. CASE Goes("Cooking")
    BY <1>1, <1>6, <1>7, <2>2, EntersType DEF Goes, ScreenPart
  <2>3. CASE Stays([app EXCEPT !.timer = StopConfirm, !.looking = TRUE])
    <3>1. app' = [app EXCEPT !.index = app.index, !.timer = StopConfirm, !.dimmed = app.dimmed, !.looking = TRUE]
      BY <1>4, <2>3 DEF Stays, App
    <3>2. ScreenPart'
      BY <1>1, <1>3, <1>5, <1>e, <3>1, StaysType DEF ConfirmInput
    <3> QED BY <1>1, <1>6, <2>3, <3>2 DEF Stays
  <2> QED BY <1>e, <2>1, <2>2, <2>3 DEF ConfirmInput
<1> QED BY <1>a, <1>b, <1>c, <1>d, <1>e DEF UserInput

LEMMA TimerFiresTyped ==
    ASSUME Typed, TimerFires
    PROVE  Typed'
<1>1. ApiPart /\ ScreenPart /\ WorldPart
  BY TypedParts
<1>2. WorldPart'
  BY <1>1 DEF WorldPart, TimerFires
<1>3. ApiPart'
  <2>1. UNCHANGED apiVars
    <3>1. app.at \in {"Idle", "BrowseRecipes", "StartPending", "ConfirmStop", "StopPending"}
      BY <1>1, Constants DEF TimerFires, ScreenPart, TimerOK, App, Screens
    <3> QED BY <3>1 DEF TimerFires, Stays, Goes
  <2> QED BY <1>1, <2>1, SameApi
<1>4. ScreenPart'
  <2>1. app.at \in {"Idle", "BrowseRecipes", "StartPending", "ConfirmStop", "StopPending"}
    BY <1>1, Constants DEF TimerFires, ScreenPart, TimerOK, App, Screens
  <2>2. CASE app.at = "Idle"
    <3>1. app' = [app EXCEPT !.index = app.index, !.timer = None, !.dimmed = TRUE, !.looking = TRUE]
      BY <1>1, <2>2 DEF TimerFires, Stays, ScreenPart, App
    <3>2. app.index \in 0..MaxRecipes
      BY <1>1 DEF ScreenPart, App
    <3> QED BY <1>1, <2>2, <3>1, <3>2, StaysType
  <2>3. CASE app.at # "Idle"
    <3>1. Enters("Idle") \/ Enters("Cooking")
      BY <2>1, <2>3 DEF TimerFires, Goes
    <3>2. {"Idle", "Cooking"} \subseteq Screens
      BY DEF Screens
    <3> QED BY <3>1, <3>2, EntersType DEF ScreenPart
  <2> QED BY <2>2, <2>3
<1> QED BY <1>2, <1>3, <1>4, TypedAgain

\* A server that takes an action, or none.
LEMMA AcceptsType ==
    ASSUME WorldPart, NEW kind \in Kinds, Accepts(kind) \/ UNCHANGED <<server, accepted>>,
           UNCHANGED <<reachable, left>>
    PROVE  WorldPart'
<1>1. CASE UNCHANGED <<server, accepted>>
  BY <1>1 DEF WorldPart
<1>2. CASE kind \notin Polls /\ Accepts(kind)
  <2> DEFINE cook == server.cook \/ kind = "ApiStart"
  <2>1. server' = [server EXCEPT !.cook = cook] /\ accepted' = Append(accepted, kind)
    BY <1>2 DEF Accepts
  <2>2. cook \in BOOLEAN
    OBVIOUS
  <2> HIDE DEF cook
  <2>3. kind \in Actions
    BY <1>2 DEF Kinds
  <2>4. accepted' \in Seq(Actions)
    BY <2>1, <2>3, AppendProperties DEF WorldPart
  <2>5. server' \in Server
    BY <2>1, <2>2 DEF WorldPart, Server
  <2> QED BY <2>4, <2>5 DEF WorldPart
<1> QED BY <1>1, <1>2 DEF Accepts

LEMMA AnsweredType ==
    ASSUME server \in Server, NEW kind
    PROVE  Answered(kind) \in Answer
<1>1. Failed \in Answer /\ Failed = [is |-> "failed", status |-> None, recipes |-> 0]
  BY Constants DEF Failed, Answer
<1>2. server.status \in Status
  BY DEF Server
<1>3. MaxRecipes \in 0..MaxRecipes
  BY Constants
<1> QED BY <1>1, <1>2, <1>3, Zenon, SMT DEF Answered, Answer

LEMMA NetworkTyped ==
    ASSUME Typed, Network
    PROVE  Typed'
<1>1. ApiPart /\ ScreenPart /\ WorldPart
  BY TypedParts
<1>2. UNCHANGED <<commands, queue, staged, snap, unseen, task, waiting, app, reachable, left>>
      /\ task = "calling"
  BY DEF Network
<1>3. call \in Call /\ call # None
  <2>1. (task = "calling") = (call # None) /\ call \in Call \cup {None}
    BY <1>1 DEF ApiPart, ApiTypeOK
  <2>2. call # None
    BY <1>2, <2>1
  <2> QED BY <2>1, <2>2
<1>4. call.kind \in Kinds
  BY <1>3 DEF Call
<1>5. WorldPart'
  <2>1. Accepts(call.kind) \/ UNCHANGED <<server, accepted>>
    BY DEF Network, Arrives, Lost
  <2> QED BY <1>1, <1>2, <1>4, <2>1, AcceptsType
<1>6. call' \in Call /\ AnswerOK'
  <2>1. CASE Arrives
    <3> DEFINE a == Answered(call.kind)
    <3>1. a \in Answer
      BY <1>1, AnsweredType DEF WorldPart
    <3>2. call' = [call EXCEPT !.at = "back", !.answer = a]
      BY <2>1 DEF Arrives
    <3> HIDE DEF a
    <3>3. call' \in Call /\ call'.answer = a
      BY <1>3, <3>1, <3>2 DEF Call
    <3> QED BY <3>1, <3>3 DEF AnswerOK
  <2>2. CASE Lost
    <3>1. call' = [call EXCEPT !.at = "lost"]
      BY <2>2 DEF Lost
    <3>2. call' \in Call /\ call'.at = "lost"
      BY <1>3, <3>1 DEF Call
    <3> QED BY <3>2 DEF AnswerOK
  <2> QED BY <2>1, <2>2 DEF Network
<1>7. (task' = "calling") = (call' # None)
  <2>1. task' = "calling" /\ call' # None
    BY <1>2, <1>6, Constants
  <2> QED BY <2>1
<1>8. ApiPart'
  BY <1>1, <1>2, <1>6, <1>7 DEF ApiPart, ApiTypeOK
<1>9. ScreenPart'
  BY <1>1, <1>2 DEF ScreenPart, TimerOK
<1> QED BY <1>5, <1>8, <1>9, TypedAgain

LEMMA ViewsType == AnyView \subseteq Server
<1>1. \A mode \in {"idle", "cooking"}, ready \in BOOLEAN : Fresh(mode, ready) \in Server
  <2> TAKE mode \in {"idle", "cooking"}, ready \in BOOLEAN
  <2> DEFINE cook == mode = "cooking"
  <2>1. cook \in BOOLEAN
    OBVIOUS
  <2>2. Fresh(mode, ready) =
          [known |-> TRUE, status |-> [mode |-> mode, ready |-> ready, stale |-> FALSE], cook |-> cook]
    BY DEF Fresh
  <2> HIDE DEF cook
  <2> QED BY <2>1, <2>2 DEF Server, Status
<1>2. \A view \in Server : [view EXCEPT !.known = FALSE] \in Server
                           /\ [view EXCEPT !.status.stale = TRUE] \in Server
  BY DEF Server, Status
<1>3. Views \subseteq Server
  BY <1>1, <1>2 DEF Views
<1> QED BY <1>2, <1>3 DEF AnyView

LEMMA WorldTyped ==
    ASSUME Typed, Outage \/ OvenActs \/ Surprise
    PROVE  Typed'
<1>1. ApiPart /\ ScreenPart /\ WorldPart
  BY TypedParts
<1>2. UNCHANGED <<apiVars, app>>
  BY DEF Outage, OvenActs, Surprise
<1>3. ApiPart' /\ ScreenPart'
  BY <1>1, <1>2, SameApi DEF ScreenPart, TimerOK
<1>4. WorldPart'
  <2>1. CASE Outage
    <3>1. left' \in [{"inputs", "outages", "surprises"} -> Nat]
      BY <1>1, <2>1, SpendType DEF Outage, WorldPart
    <3> QED BY <1>1, <2>1, <3>1 DEF WorldPart, Outage
  <2>2. CASE OvenActs
    <3>1. Head(accepted) \in Actions /\ Tail(accepted) \in Seq(Actions)
      BY <1>1, <2>2, HeadTailProperties DEF WorldPart, OvenActs
    <3>2. server' \in Server
      <4>1. Fresh("cooking", FALSE) \in Server /\ Fresh("idle", FALSE) \in Server
        BY ViewsType DEF AnyView, Views
      <4>2. [server EXCEPT !.status.ready = FALSE] \in Server
        BY <1>1 DEF WorldPart, Server, Status
      <4> QED BY <2>2, <3>1, <4>1, <4>2 DEF OvenActs, Actions
    <3> QED BY <1>1, <2>2, <3>1, <3>2 DEF WorldPart, OvenActs
  <2>3. CASE Surprise
    <3>1. left' \in [{"inputs", "outages", "surprises"} -> Nat]
      BY <1>1, <2>3, SpendType DEF Surprise
    <3> QED BY <1>1, <2>3, <3>1, ViewsType DEF WorldPart, Surprise
  <2> QED BY <2>1, <2>2, <2>3
<1> QED BY <1>3, <1>4, TypedAgain

LEMMA TickTypedAll ==
    ASSUME Typed, Tick
    PROVE  Typed'
<1>1. ApiPart /\ ScreenPart /\ WorldPart
  BY TypedParts
<1>2. ApiPart'
  BY <1>1, TickTyped DEF ApiPart, Tick
<1>3. WorldPart'
  BY <1>1 DEF WorldPart, Tick
<1>4. ScreenPart'
  BY <1>1, Constants DEF ScreenPart, TimerOK, App, Tick
<1> QED BY <1>2, <1>3, <1>4, TypedAgain

LEMMA ApiTyped ==
    ASSUME Typed, InOrder, Api
    PROVE  Typed'
<1>1. ApiPart /\ ScreenPart /\ WorldPart
  BY TypedParts
<1>2. ApiPart'
  BY <1>1, TakesCommandTyped, SelectTyped, PopsTyped, EndsTyped DEF ApiPart, Api, ApiStep
<1>3. ScreenPart' /\ WorldPart'
  BY <1>1 DEF ScreenPart, TimerOK, WorldPart, Api
<1> QED BY <1>2, <1>3, TypedAgain

LEMMA TypedInit == Init => Typed
<1> SUFFICES ASSUME Init PROVE Typed
  OBVIOUS
<1>1. queue \in Queue /\ staged \in Recipes \cup {None} /\ commands \in Seq(Command)
      /\ waiting \in Seq(Press) /\ Len(commands) <= ChannelSize
  <2>1. queue = [polls |-> Polls, actions |-> <<>>, due |-> [kind \in Kinds |-> 0]]
    BY DEF Init, ApiInit
  <2>2. <<>> \in Seq(Actions) /\ [kind \in Kinds |-> 0] \in [Kinds -> Int]
    OBVIOUS
  <2>3. queue \in Queue
    BY <2>1, <2>2 DEF Queue
  <2> QED BY <2>3, Constants DEF Init, ApiInit
<1>2. snap \in Snapshot /\ unseen \in BOOLEAN /\ task = "parked" /\ call = None
  <2>1. snap = [status |-> None, cook |-> FALSE, recipes |-> 0, fails |-> 0,
                success |-> FALSE, missing |-> None]
    BY DEF Init, ApiInit
  <2>2. 0 \in 0..MaxRecipes /\ 0 \in 0..MaxFails
    BY Constants
  <2>3. snap \in Snapshot
    BY <2>1, <2>2 DEF Snapshot
  <2> QED BY <2>3 DEF Init, ApiInit
<1>3. (task = "calling") = (call # None)
  BY <1>2
<1>4. ApiPart
  BY <1>1, <1>2, <1>3 DEF ApiPart, ApiTypeOK, AnswerOK
<1>5. ScreenPart
  BY PanelAssumption, Constants DEF Init, ScreenPart, TimerOK, App, Screens
<1>6. WorldPart
  <2>1. Views \subseteq Server
    BY ViewsType DEF AnyView
  <2> QED BY <2>1, PanelAssumption DEF Init, WorldPart
<1> QED BY <1>4, <1>5, <1>6, TypedParts

LEMMA TypedStep ==
    ASSUME Typed, InOrder, [Next]_vars
    PROVE  Typed'
<1>1. CASE UNCHANGED vars
  <2>1. ApiPart /\ ScreenPart /\ WorldPart
    BY TypedParts
  <2>2. ApiPart'
    BY <1>1, <2>1, SameApi DEF vars
  <2>3. ScreenPart' /\ WorldPart'
    BY <1>1, <2>1 DEF ScreenPart, TimerOK, WorldPart, vars
  <2> QED BY <2>2, <2>3, TypedAgain
<1>2. CASE Next
  BY <1>2, LooksTyped, UserInputTyped, TimerFiresTyped, ApiTyped, NetworkTyped, WorldTyped,
     TickTypedAll DEF Next
<1> QED BY <1>1, <1>2

-----------------------------------------------------------------------------
(* The presses and the queue.                                              *)

\* A poll that is enqueued leaves the actions as they are.
LEMMA EnqueuePoll ==
    ASSUME NEW q \in Queue, NEW kind \in Polls, NEW in \in Int
    PROVE  /\ Enqueue(q, kind, in).actions = q.actions
           /\ Enqueue(q, kind, in) \in Queue
           /\ \A k \in Kinds \ {kind} :
                /\ Enqueue(q, kind, in).due[k] = q.due[k]
                /\ k \in Enqueue(q, kind, in).polls <=> k \in q.polls
           /\ kind \in q.polls => Enqueue(q, kind, in).due[kind] = Earlier(q.due[kind], in)
           /\ kind \notin q.polls => Enqueue(q, kind, in).due[kind] = in
<1>1. kind \in Kinds /\ q.due \in [Kinds -> Int] /\ q.actions \in Seq(Actions)
  BY DEF Kinds, Queue
<1>2. kind \in Queued(q) <=> kind \in q.polls
  <2>1. \A i \in DOMAIN q.actions : q.actions[i] # kind
    BY <1>1, LenProperties, ElementOfSeq DEF Actions, Polls
  <2> QED BY <2>1 DEF Queued, Range
<1> DEFINE d == IF kind \in Queued(q) THEN Earlier(q.due[kind], in) ELSE in
<1>3. Enqueue(q, kind, in) = [polls |-> q.polls \cup {kind}, actions |-> q.actions,
                              due |-> [q.due EXCEPT ![kind] = d]]
  BY DEF Enqueue
<1>4. d = IF kind \in q.polls THEN Earlier(q.due[kind], in) ELSE in
  BY <1>2
<1> HIDE DEF d
<1>5. /\ Enqueue(q, kind, in).actions = q.actions
      /\ \A k \in Kinds \ {kind} :
           /\ Enqueue(q, kind, in).due[k] = q.due[k]
           /\ k \in Enqueue(q, kind, in).polls <=> k \in q.polls
      /\ Enqueue(q, kind, in).due[kind] = d
  BY <1>1, <1>3
<1>6. Enqueue(q, kind, in) \in Queue
  BY <1>1, EnqueueType
<1> QED BY ONLY <1>4, <1>5, <1>6

\* An action that is enqueued at once is due last of the actions.
LEMMA EnqueueAction ==
    ASSUME NEW q \in Queue, NEW kind \in Actions
    PROVE  /\ Enqueue(q, kind, 0) \in Queue
           /\ Enqueue(q, kind, 0).polls = q.polls
           /\ Enqueue(q, kind, 0).actions =
                IF kind \in Range(q.actions) THEN q.actions ELSE Append(q.actions, kind)
           /\ \A k \in Kinds \ {kind} : Enqueue(q, kind, 0).due[k] = q.due[k]
           /\ Enqueue(q, kind, 0).due[kind] =
                IF kind \in Range(q.actions) THEN Earlier(q.due[kind], 0) ELSE 0
<1>1. kind \in Kinds /\ kind \notin Polls /\ q.due \in [Kinds -> Int] /\ q.polls \subseteq Polls
  BY DEF Kinds, Queue, Actions, Polls
<1>2. kind \in Queued(q) <=> kind \in Range(q.actions)
  BY <1>1 DEF Queued
<1> DEFINE d == IF kind \in Queued(q) THEN Earlier(q.due[kind], 0) ELSE 0
           a == IF kind \in Range(q.actions) THEN q.actions ELSE Append(q.actions, kind)
<1>3. Enqueue(q, kind, 0) = [polls |-> q.polls, actions |-> a, due |-> [q.due EXCEPT ![kind] = d]]
  BY <1>1 DEF Enqueue
<1>4. d = IF kind \in Range(q.actions) THEN Earlier(q.due[kind], 0) ELSE 0
  BY <1>2
<1>5. a = IF kind \in Range(q.actions) THEN q.actions ELSE Append(q.actions, kind)
  OBVIOUS
<1>6. Enqueue(q, kind, 0) \in Queue
  BY <1>1, EnqueueType
<1> HIDE DEF d, a
<1>7. /\ Enqueue(q, kind, 0).polls = q.polls /\ Enqueue(q, kind, 0).actions = a
      /\ \A k \in Kinds \ {kind} : Enqueue(q, kind, 0).due[k] = q.due[k]
      /\ Enqueue(q, kind, 0).due[kind] = d
  BY ONLY <1>1, <1>3
<1> QED BY ONLY <1>4, <1>5, <1>6, <1>7

\* What the presses see of a command that is taken.
LEMMA TakenQueue ==
    ASSUME ApiTypeOK, TakesCommand
    PROVE  LET k == commands[1].kind
           IN /\ commands # <<>> /\ commands' = Tail(commands) /\ UNCHANGED <<waiting, call, task>>
              /\ k \in Actions
              /\ queue'.actions = IF k \in Range(queue.actions) THEN queue.actions
                                  ELSE Append(queue.actions, k)
              /\ \A a \in Actions \ {k} : queue'.due[a] = queue.due[a]
              /\ queue'.due[k] = IF k \in Range(queue.actions) THEN Earlier(queue.due[k], 0) ELSE 0
              /\ queue'.due["PollRecipes"] = queue.due["PollRecipes"]
              /\ "PollRecipes" \in queue'.polls <=> "PollRecipes" \in queue.polls
              /\ staged' = IF k = "ApiStart" THEN commands[1].recipe ELSE staged
<1> DEFINE cmd == Head(commands)
           q == Enqueue(queue, cmd.kind, 0)
<1>1. queue \in Queue /\ commands \in Seq(Command) /\ commands # <<>>
  BY DEF ApiTypeOK, TakesCommand
<1>2. cmd = commands[1] /\ cmd \in Command
  BY <1>1, HeadTailProperties
<1>3. cmd.kind \in Actions
  BY <1>2 DEF Command
<1>4. /\ q \in Queue /\ q.polls = queue.polls
      /\ q.actions = IF cmd.kind \in Range(queue.actions) THEN queue.actions
                     ELSE Append(queue.actions, cmd.kind)
      /\ \A k \in Kinds \ {cmd.kind} : q.due[k] = queue.due[k]
      /\ q.due[cmd.kind] =
           IF cmd.kind \in Range(queue.actions) THEN Earlier(queue.due[cmd.kind], 0) ELSE 0
  BY <1>1, <1>3, EnqueueAction
<1>5. HandleCommand(cmd) /\ commands' = Tail(commands) /\ UNCHANGED <<waiting, call, task>>
  BY DEF TakesCommand
<1>6. staged' = IF cmd.kind = "ApiStart" THEN cmd.recipe ELSE staged
  BY <1>5 DEF HandleCommand
<1>7. /\ queue'.actions = q.actions
      /\ \A k \in Kinds \ {"PollStatus", "PollCurrentCook"} :
           queue'.due[k] = q.due[k] /\ (k \in queue'.polls <=> k \in q.polls)
  <2>1. CASE cmd.kind = "ApiStart"
    BY <1>5, <2>1 DEF HandleCommand
  <2>2. CASE cmd.kind # "ApiStart"
    <3> DEFINE r == Enqueue(q, "PollStatus", Refresh)
    <3>1. queue' = Enqueue(r, "PollCurrentCook", Refresh)
      BY <1>5, <2>2 DEF HandleCommand, RefreshSoon
    <3>2. {"PollStatus", "PollCurrentCook"} \subseteq Polls /\ Refresh \in Int
      BY Constants DEF Polls
    <3> HIDE DEF q, cmd
    <3>3. /\ r \in Queue /\ r.actions = q.actions
          /\ \A k \in Kinds \ {"PollStatus"} : r.due[k] = q.due[k] /\ (k \in r.polls <=> k \in q.polls)
      BY <1>4, <3>2, EnqueuePoll
    <3> HIDE DEF r
    <3>4. /\ queue'.actions = r.actions
          /\ \A k \in Kinds \ {"PollCurrentCook"} :
               queue'.due[k] = r.due[k] /\ (k \in queue'.polls <=> k \in r.polls)
      BY <3>1, <3>2, <3>3, EnqueuePoll
    <3> QED BY ONLY <3>3, <3>4
  <2> QED BY <2>1, <2>2
<1> HIDE DEF q
<1>8. Actions \subseteq Kinds \ {"PollStatus", "PollCurrentCook"}
      /\ "PollRecipes" \in Kinds \ ({"PollStatus", "PollCurrentCook"} \cup Actions)
  BY DEF Kinds, Polls, Actions
<1> HIDE DEF cmd
<1> QED BY ONLY <1>1, <1>2, <1>3, <1>4, <1>5, <1>6, <1>7, <1>8

LEMMA Lists ==
    ASSUME ApiTypeOK
    PROVE  /\ queue.actions \in Seq(Actions) /\ waiting \in Seq(Press) /\ commands \in Seq(Command)
           /\ Len(queue.actions) \in Nat /\ DOMAIN queue.actions = 1..Len(queue.actions)
           /\ Len(waiting) \in Nat /\ DOMAIN waiting = 1..Len(waiting)
           /\ Len(commands) \in Nat /\ DOMAIN commands = 1..Len(commands)
           /\ \A i \in DOMAIN queue.actions : queue.actions[i] \in Actions
           /\ \A i \in DOMAIN waiting : waiting[i] \in Press
           /\ \A i \in DOMAIN commands : commands[i] \in Command
           /\ queue.due \in [Kinds -> Int]
<1>1. queue.actions \in Seq(Actions) /\ waiting \in Seq(Press) /\ commands \in Seq(Command)
      /\ queue.due \in [Kinds -> Int]
  BY DEF ApiTypeOK, Queue
<1> QED BY <1>1, LenProperties, ElementOfSeq

\* The lists after a command is taken, as functions of those before.
LEMMA TakenLists ==
    ASSUME ApiTypeOK, TakesCommand, InOrder
    PROVE  LET k == commands[1].kind
               n == Len(queue.actions)
           IN /\ 1 \in DOMAIN commands
              /\ Len(commands') = Len(commands) - 1 /\ DOMAIN commands' = 1..Len(commands')
              /\ \A j \in DOMAIN commands' : j + 1 \in DOMAIN commands /\ commands'[j] = commands[j + 1]
              /\ DOMAIN queue'.actions = 1..Len(queue'.actions)
              /\ \/ /\ Len(queue'.actions) = n /\ queue'.actions = queue.actions
                    /\ \E i \in 1..n : queue.actions[i] = k /\ waiting[i].kind = k
                    /\ k \in Range(queue.actions)
                 \/ /\ Len(queue'.actions) = n + 1 /\ n + 1 \in DOMAIN waiting
                    /\ queue'.actions[n + 1] = k /\ waiting[n + 1].kind = k
                    /\ \A i \in 1..n : queue'.actions[i] = queue.actions[i] /\ queue.actions[i] # k
                    /\ k \notin Range(queue.actions)
<1> DEFINE k == commands[1].kind
           n == Len(queue.actions)
<1>1. /\ commands # <<>> /\ commands' = Tail(commands) /\ k \in Actions
      /\ queue'.actions = IF k \in Range(queue.actions) THEN queue.actions
                          ELSE Append(queue.actions, k)
  BY TakenQueue
<1>2. /\ queue.actions \in Seq(Actions) /\ commands \in Seq(Command)
      /\ n \in Nat /\ DOMAIN queue.actions = 1..n
      /\ Len(waiting) \in Nat /\ DOMAIN waiting = 1..Len(waiting)
      /\ Len(commands) \in Nat /\ DOMAIN commands = 1..Len(commands)
  BY Lists
<1>3. 1 \in DOMAIN commands
  BY <1>1, <1>2, EmptySeq
<1>4. /\ Len(commands') = Len(commands) - 1 /\ DOMAIN commands' = 1..Len(commands')
      /\ \A j \in DOMAIN commands' : j + 1 \in DOMAIN commands /\ commands'[j] = commands[j + 1]
  <2>1. commands' \in Seq(Command) /\ Len(commands') = Len(commands) - 1
        /\ \A j \in 1..Len(commands') : commands'[j] = commands[j + 1]
    BY <1>1, <1>2, HeadTailProperties
  <2> QED BY <1>2, <2>1, LenProperties
<1>5. \A i \in 1..n : waiting[i].kind = queue.actions[i]
  BY <1>2 DEF InOrder, Ordered
<1>6. CASE k \in Range(queue.actions)
  <2>1. PICK i \in 1..n : queue.actions[i] = k
    BY <1>2, <1>6 DEF Range
  <2>2. waiting[i].kind = k
    BY <1>5, <2>1
  <2> QED BY <1>1, <1>2, <1>3, <1>4, <1>6, <2>1, <2>2
<1>7. CASE k \notin Range(queue.actions)
  <2>1. queue'.actions = Append(queue.actions, k)
    BY <1>1, <1>7
  <2>2. /\ Len(queue'.actions) = n + 1 /\ queue'.actions[n + 1] = k
        /\ \A i \in 1..n : queue'.actions[i] = queue.actions[i]
        /\ DOMAIN queue'.actions = 1..Len(queue'.actions)
    <3>1. queue'.actions \in Seq(Actions)
      BY <1>1, <1>2, <2>1, AppendProperties
    <3> QED BY <1>1, <1>2, <2>1, <3>1, AppendProperties, LenProperties
  <2>3. \A i \in 1..n : queue.actions[i] # k
    BY <1>2, <1>7 DEF Range
  <2>4. PICK g \in DOMAIN waiting : waiting[g].kind = k
    BY <1>3 DEF InOrder, Ordered
  <2>5. g > n
    BY <1>2, <1>5, <2>3, <2>4
  <2>6. n + 1 \in DOMAIN waiting
    BY <1>2, <2>4, <2>5
  <2>7. PICK j \in DOMAIN commands :
          \A h \in 1..j : \E f \in 1..(n + 1) : waiting[f].kind = commands[h].kind
    <3>1. \A i \in 1..Len(waiting) : i > n =>
            \E j \in 1..Len(commands) :
              /\ commands[j].kind = waiting[i].kind
              /\ \A h \in 1..j : \E f \in 1..i : waiting[f].kind = commands[h].kind
      BY DEF InOrder, Ordered
    <3>2. n + 1 > n
      BY <1>2
    <3> HIDE DEF n, k
    <3> QED BY <1>2, <2>6, <3>1, <3>2
  <2>8. PICK f \in 1..(n + 1) : waiting[f].kind = k
    BY <1>2, <2>7
  <2>9. waiting[n + 1].kind = k
    <3>1. f \in 1..n => waiting[f].kind # k
      BY ONLY <1>5, <2>3
    <3>2. f \in 1..n \/ f = n + 1
      BY <1>2
    <3> QED BY <2>8, <3>1, <3>2
  <2> QED BY <1>2, <1>3, <1>4, <1>7, <2>2, <2>3, <2>6, <2>9
<1> QED BY ONLY <1>6, <1>7

LEMMA TakenInOrder ==
    ASSUME ApiTypeOK, TakesCommand, InOrder
    PROVE  InOrder'
<1> DEFINE k == commands[1].kind
           n == Len(queue.actions)
           n2 == Len(queue'.actions)
<1>1. waiting' = waiting
  BY TakenQueue
<1>2. /\ n \in Nat /\ DOMAIN queue.actions = 1..n
      /\ Len(waiting) \in Nat /\ DOMAIN waiting = 1..Len(waiting)
      /\ Len(commands) \in Nat /\ DOMAIN commands = 1..Len(commands)
  BY Lists
<1>3. /\ 1 \in 1..Len(commands)
      /\ Len(commands') = Len(commands) - 1 /\ DOMAIN commands' = 1..Len(commands')
      /\ \A j \in 1..Len(commands') : j + 1 \in 1..Len(commands) /\ commands'[j] = commands[j + 1]
      /\ DOMAIN queue'.actions = 1..n2
      /\ \/ /\ n2 = n /\ queue'.actions = queue.actions
            /\ \E i \in 1..n : queue.actions[i] = k /\ waiting[i].kind = k
         \/ /\ n2 = n + 1 /\ n + 1 \in 1..Len(waiting)
            /\ queue'.actions[n + 1] = k /\ waiting[n + 1].kind = k
            /\ \A i \in 1..n : queue'.actions[i] = queue.actions[i] /\ queue.actions[i] # k
  BY <1>2, TakenLists
<1>4. /\ n <= Len(waiting)
      /\ \A i \in 1..n : waiting[i].kind = queue.actions[i]
      /\ \A j \in 1..Len(commands) : \E i \in 1..Len(waiting) : waiting[i].kind = commands[j].kind
      /\ \A i, j \in 1..Len(waiting) : waiting[i].kind = waiting[j].kind => i = j
      /\ \A i \in 1..Len(waiting) : i > n =>
           \E j \in 1..Len(commands) :
             /\ commands[j].kind = waiting[i].kind
             /\ \A h \in 1..j : \E g \in 1..i : waiting[g].kind = commands[h].kind
  BY DEF InOrder, Ordered
<1>5. PICK f \in 1..n2 : waiting[f].kind = k /\ f \in 1..Len(waiting)
  BY <1>2, <1>3, <1>4
<1>6. n2 \in Nat /\ n2 >= n /\ n2 <= Len(waiting)
  BY <1>2, <1>3, <1>4
<1>7. \A i \in 1..n2 : waiting[i].kind = queue'.actions[i]
  BY <1>2, <1>3, <1>4
<1>8. \A j \in 1..Len(commands') : \E i \in 1..Len(waiting) : waiting[i].kind = commands'[j].kind
  <2> TAKE j \in 1..Len(commands')
  <2>1. j + 1 \in 1..Len(commands) /\ commands'[j] = commands[j + 1]
    BY <1>3
  <2> QED BY <1>2, <1>4, <2>1
<1>9. ASSUME NEW i \in 1..Len(waiting), i > n2
      PROVE  \E j \in 1..Len(commands') :
               /\ commands'[j].kind = waiting[i].kind
               /\ \A h \in 1..j : \E g \in 1..i : waiting[g].kind = commands'[h].kind
  <2>1. i > n
    BY <1>2, <1>6, <1>9
  <2>2. PICK j \in 1..Len(commands) :
          /\ commands[j].kind = waiting[i].kind
          /\ \A h \in 1..j : \E g \in 1..i : waiting[g].kind = commands[h].kind
    BY <1>4, <2>1
  <2>3. j # 1
    <3>1. f # i
      BY <1>5, <1>6, <1>9
    <3> QED BY <1>4, <1>5, <2>2, <3>1
  <2>4. j - 1 \in 1..Len(commands') /\ j \in Int
    BY <1>2, <1>3, <2>3
  <2>5. commands'[j - 1] = commands[j]
    BY <1>3, <2>4
  <2>6. ASSUME NEW h \in 1..(j - 1)
        PROVE  \E g \in 1..i : waiting[g].kind = commands'[h].kind
    <3>1. h \in 1..Len(commands') /\ h + 1 \in 1..j
      BY <1>2, <1>3, <2>4, <2>6
    <3>2. commands'[h] = commands[h + 1]
      BY <1>3, <3>1
    <3> QED BY <2>2, <3>1, <3>2
  <2> QED BY <2>2, <2>4, <2>5, <2>6
<1>10. Ordered(queue'.actions, n2, commands', Len(commands'), waiting, Len(waiting))
  BY ONLY <1>4, <1>6, <1>7, <1>8, <1>9 DEF Ordered
<1> QED BY <1>1, <1>10 DEF InOrder

\* The lists after a press was sent, as functions of those before.
LEMMA SentLists ==
    ASSUME ApiTypeOK, NEW kind \in Actions, NEW recipe \in Recipes \cup {None},
           SentAs(kind, recipe)
    PROVE  LET m == Len(commands)
               w == Len(waiting)
           IN /\ Len(commands') = m + 1 /\ DOMAIN commands' = 1..(m + 1)
              /\ commands'[m + 1].kind = kind /\ commands'[m + 1].recipe = recipe
              /\ \A j \in 1..m : commands'[j] = commands[j]
              /\ 1..Len(waiting)' = 1..Len(waiting')
              /\ \/ /\ Len(waiting') = w
                    /\ \E i \in 1..w : waiting[i].kind = kind
                    /\ \A i \in 1..w :
                         /\ waiting'[i].kind = waiting[i].kind
                         /\ waiting'[i].age = waiting[i].age
                         /\ waiting'[i].ahead = waiting[i].ahead
                         /\ waiting'[i].recipe =
                              IF waiting[i].kind = kind THEN recipe ELSE waiting[i].recipe
                 \/ /\ Len(waiting') = w + 1
                    /\ \A i \in 1..w : waiting[i].kind # kind /\ waiting'[i] = waiting[i]
                    /\ waiting'[w + 1] =
                         [kind |-> kind, recipe |-> recipe, age |-> 0, ahead |-> w]
<1> DEFINE m == Len(commands)
           w == Len(waiting)
<1>1. /\ commands' = Append(commands, [kind |-> kind, recipe |-> recipe])
      /\ waiting' = Rewait(kind, recipe)
  BY DEF SentAs
<1>2. /\ waiting \in Seq(Press) /\ commands \in Seq(Command)
      /\ w \in Nat /\ DOMAIN waiting = 1..w /\ m \in Nat /\ DOMAIN commands = 1..m
      /\ \A i \in 1..w : waiting[i] \in Press
  BY Lists
<1>3. /\ Len(commands') = m + 1 /\ DOMAIN commands' = 1..(m + 1)
      /\ commands'[m + 1].kind = kind /\ commands'[m + 1].recipe = recipe
      /\ \A j \in 1..m : commands'[j] = commands[j]
  <2>1. [kind |-> kind, recipe |-> recipe] \in Command
    BY DEF Command
  <2>2. commands' \in Seq(Command)
    BY <1>1, <1>2, <2>1, AppendProperties
  <2> QED BY <1>1, <1>2, <2>1, <2>2, AppendProperties, LenProperties
<1>4. CASE \E i \in 1..w : waiting[i].kind = kind
  <2>1. waiting' = [i \in 1..w |->
                      IF waiting[i].kind = kind THEN [waiting[i] EXCEPT !.recipe = recipe]
                      ELSE waiting[i]]
    BY <1>1, <1>2, <1>4 DEF Rewait
  <2>2. waiting' \in Seq(Press)
    BY <1>1, <1>2, RewaitType
  <2>3. 1..Len(waiting)' = 1..w /\ Len(waiting') = w /\ 1..Len(waiting)' = 1..Len(waiting')
    BY <1>2, <2>1, <2>2, LenProperties
  <2>4. ASSUME NEW i \in 1..w
        PROVE  /\ waiting'[i].kind = waiting[i].kind
               /\ waiting'[i].age = waiting[i].age
               /\ waiting'[i].ahead = waiting[i].ahead
               /\ waiting'[i].recipe =
                    IF waiting[i].kind = kind THEN recipe ELSE waiting[i].recipe
    <3>1. waiting'[i] = IF waiting[i].kind = kind THEN [waiting[i] EXCEPT !.recipe = recipe]
                        ELSE waiting[i]
      BY <2>1
    <3>2. waiting[i] \in Press
      BY <1>2
    <3> QED BY <3>1, <3>2 DEF Press
  <2> QED BY ONLY <1>3, <1>4, <2>3, <2>4
<1>5. CASE ~ \E i \in 1..w : waiting[i].kind = kind
  <2> DEFINE press == [kind |-> kind, recipe |-> recipe, age |-> 0, ahead |-> w]
  <2>1. waiting' = Append(waiting, press)
    BY <1>1, <1>2, <1>5 DEF Rewait
  <2>2. press \in Press
    BY <1>2, Constants DEF Press
  <2> HIDE DEF press
  <2>3. /\ Len(waiting') = w + 1 /\ waiting'[w + 1] = press
        /\ \A i \in 1..w : waiting'[i] = waiting[i]
        /\ 1..Len(waiting)' = 1..Len(waiting')
    <3>1. waiting' \in Seq(Press)
      BY <1>2, <2>1, <2>2, AppendProperties
    <3> QED BY <1>2, <2>1, <2>2, <3>1, AppendProperties, LenProperties
  <2> USE DEF press
  <2> QED BY ONLY <1>3, <1>5, <2>3
<1> QED BY ONLY <1>4, <1>5

LEMMA SentInOrder ==
    ASSUME ApiTypeOK, InOrder, NEW kind \in Actions, NEW recipe \in Recipes \cup {None},
           SentAs(kind, recipe), queue' = queue
    PROVE  InOrder'
<1> DEFINE m == Len(commands)
           w == Len(waiting)
           n == Len(queue.actions)
           v == Len(waiting')
<1>1. /\ w \in Nat /\ DOMAIN waiting = 1..w /\ m \in Nat /\ DOMAIN commands = 1..m
      /\ n \in Nat /\ DOMAIN queue.actions = 1..n
  BY Lists
<1>2. /\ Len(commands') = m + 1 /\ DOMAIN commands' = 1..(m + 1)
      /\ commands'[m + 1].kind = kind
      /\ \A j \in 1..m : commands'[j] = commands[j]
      /\ DOMAIN waiting' = 1..Len(waiting')
      /\ \A i \in 1..w : waiting'[i].kind = waiting[i].kind
      /\ \/ Len(waiting') = w /\ \E i \in 1..w : waiting[i].kind = kind
         \/ /\ Len(waiting') = w + 1 /\ waiting'[w + 1].kind = kind
            /\ \A i \in 1..w : waiting[i].kind # kind
  <2>1. /\ Len(commands') = m + 1 /\ DOMAIN commands' = 1..(m + 1)
        /\ commands'[m + 1].kind = kind
        /\ \A j \in 1..m : commands'[j] = commands[j]
        /\ DOMAIN waiting' = 1..Len(waiting')
    <3>1. Len(commands') = m + 1
      BY SentLists, Zenon
    <3>2. DOMAIN commands' = 1..(m + 1)
      BY SentLists, Zenon
    <3>3. commands'[m + 1].kind = kind
      BY SentLists, Zenon
    <3>4. \A j \in 1..m : commands'[j] = commands[j]
      BY SentLists, Zenon
    <3>5. DOMAIN waiting' = 1..Len(waiting')
      <4>1. waiting' \in Seq(Press)
        BY Lists, RewaitType DEF SentAs
      <4> QED BY <4>1, LenProperties
    <3> QED BY <3>1, <3>2, <3>3, <3>4, <3>5
  <2>2. \/ /\ Len(waiting') = w /\ \E i \in 1..w : waiting[i].kind = kind
           /\ \A i \in 1..w : waiting'[i].kind = waiting[i].kind
        \/ /\ Len(waiting') = w + 1
           /\ \A i \in 1..w : waiting[i].kind # kind /\ waiting'[i] = waiting[i]
           /\ waiting'[w + 1] = [kind |-> kind, recipe |-> recipe, age |-> 0, ahead |-> w]
    BY SentLists
  <2>3. CASE \E i \in 1..w : waiting[i].kind = kind
    <3>1. Len(waiting') = w /\ \A i \in 1..w : waiting'[i].kind = waiting[i].kind
      BY <2>2, <2>3
    <3> QED BY ONLY <2>1, <2>3, <3>1
  <2>4. CASE ~ \E i \in 1..w : waiting[i].kind = kind
    <3>1. /\ Len(waiting') = w + 1
          /\ \A i \in 1..w : waiting[i].kind # kind /\ waiting'[i] = waiting[i]
          /\ waiting'[w + 1] = [kind |-> kind, recipe |-> recipe, age |-> 0, ahead |-> w]
      BY <2>2, <2>4
    <3>2. waiting'[w + 1].kind = kind /\ \A i \in 1..w : waiting'[i].kind = waiting[i].kind
      BY ONLY <3>1
    <3> QED BY ONLY <2>1, <3>1, <3>2
  <2> QED BY ONLY <2>3, <2>4
<1>3. /\ n <= w
      /\ \A i \in 1..n : waiting[i].kind = queue.actions[i]
      /\ \A j \in 1..m : \E i \in 1..w : waiting[i].kind = commands[j].kind
      /\ \A i, j \in 1..w : waiting[i].kind = waiting[j].kind => i = j
      /\ \A i \in 1..w : i > n =>
           \E j \in 1..m :
             /\ commands[j].kind = waiting[i].kind
             /\ \A h \in 1..j : \E g \in 1..i : waiting[g].kind = commands[h].kind
  BY DEF InOrder, Ordered
<1>p. v = Len(waiting') /\ n = Len(queue'.actions) /\ m + 1 = Len(commands')
  BY <1>1, <1>2
<1>q. /\ DOMAIN commands' = 1..(m + 1)
      /\ commands'[m + 1].kind = kind
      /\ \A j \in 1..m : commands'[j] = commands[j]
      /\ \A i \in 1..w : waiting'[i].kind = waiting[i].kind
      /\ \/ v = w /\ \E i \in 1..w : waiting[i].kind = kind
         \/ /\ v = w + 1 /\ waiting'[w + 1].kind = kind
            /\ \A i \in 1..w : waiting[i].kind # kind
      /\ w \in Nat /\ m \in Nat /\ n \in Nat
  BY <1>1, <1>2
<1> HIDE DEF v, m, n, w
<1>4. v \in Nat /\ w <= v /\ v <= w + 1
  BY <1>q
<1>5. \A i, j \in 1..v : waiting'[i].kind = waiting'[j].kind => i = j
  <2>1. CASE v = w
    BY <1>q, <1>3, <2>1
  <2>2. CASE v = w + 1
    <3>1. \A i \in 1..v : i \in 1..w \/ i = w + 1
      BY <1>q, <2>2
    <3> QED BY <1>q, <1>3, <2>2, <3>1
  <2> QED BY <1>q, <2>1, <2>2
<1>6. \E i \in 1..v : waiting'[i].kind = kind
  BY <1>q
<1>7. \A j \in 1..(m + 1) : \E i \in 1..v : waiting'[i].kind = commands'[j].kind
  <2> TAKE j \in 1..(m + 1)
  <2>1. CASE j = m + 1
    BY <1>q, <1>6, <2>1
  <2>2. CASE j \in 1..m
    <3>1. PICK i \in 1..w : waiting[i].kind = commands[j].kind
      BY <1>3, <2>2
    <3>2. i \in 1..v
      BY <1>q, <1>4
    <3> QED BY <1>q, <2>2, <3>1, <3>2
  <2> QED BY <1>q, <2>1, <2>2
<1>8. \A i \in 1..n : waiting'[i].kind = queue.actions[i]
  BY <1>q, <1>3
<1>9. ASSUME NEW i \in 1..v, i > n
      PROVE  \E j \in 1..(m + 1) :
               /\ commands'[j].kind = waiting'[i].kind
               /\ \A h \in 1..j : \E g \in 1..i : waiting'[g].kind = commands'[h].kind
  <2>1. CASE i \in 1..w
    <3>1. PICK j \in 1..m :
            /\ commands[j].kind = waiting[i].kind
            /\ \A h \in 1..j : \E g \in 1..i : waiting[g].kind = commands[h].kind
      BY <1>3, <1>9, <2>1
    <3>2. ASSUME NEW h \in 1..j
          PROVE  \E g \in 1..i : waiting'[g].kind = commands'[h].kind
      <4>1. PICK g \in 1..i : waiting[g].kind = commands[h].kind
        BY <3>1
      <4>2. g \in 1..w /\ h \in 1..m
        BY <1>q, <2>1
      <4> QED BY <1>q, <4>1, <4>2
    <3>3. j \in 1..(m + 1)
      BY <1>q
    <3> QED BY <1>q, <2>1, <3>1, <3>2, <3>3
  <2>2. CASE i = w + 1
    <3>1. v = w + 1 /\ commands'[m + 1].kind = waiting'[i].kind /\ m + 1 \in 1..(m + 1)
      BY <1>q, <2>2
    <3>2. \A h \in 1..(m + 1) : \E g \in 1..i : waiting'[g].kind = commands'[h].kind
      BY <1>7, <2>2, <3>1
    <3> QED BY <3>1, <3>2
  <2> QED BY <1>q, <1>4, <2>1, <2>2
<1>11. n <= v
  BY <1>q, <1>3, <1>4
<1>12. Ordered(queue.actions, n, commands', m + 1, waiting', v)
  BY ONLY <1>5, <1>7, <1>8, <1>9, <1>11 DEF Ordered
<1> QED BY <1>p, <1>12 DEF InOrder

\* The first press goes out.
LEMMA PoppedLists ==
    ASSUME ApiTypeOK, InOrder, commands = <<>>, NEW kind \in Due(queue), PopsAction(kind)
    PROVE  /\ Len(queue.actions) = Len(waiting) /\ Len(waiting) > 0
           /\ queue.actions[1] = kind /\ waiting[1].kind = kind
           /\ queue' = [polls |-> queue.polls, actions |-> Tail(queue.actions),
                        due |-> [queue.due EXCEPT ![kind] = 0]]
           /\ Len(queue'.actions) = Len(waiting) - 1 /\ Len(waiting') = Len(waiting) - 1
           /\ \A i \in 1..(Len(waiting) - 1) :
                /\ queue'.actions[i] = queue.actions[i + 1]
                /\ waiting'[i] = waiting[i + 1]
<1>1. /\ queue.actions # <<>> /\ Head(queue.actions) = kind
      /\ waiting # <<>> /\ waiting[1].kind = kind
      /\ queue' = [polls |-> queue.polls, actions |-> Tail(queue.actions),
                   due |-> [queue.due EXCEPT ![kind] = 0]]
      /\ waiting' = Tail(waiting)
  BY ActionFront DEF PopsAction
<1>2. Len(queue.actions) = Len(waiting) /\ waiting \in Seq(Press) /\ queue.actions \in Seq(Actions)
      /\ Len(waiting) \in Nat
  BY QueuedIsWaiting, LenProperties
<1>3. Len(waiting) > 0 /\ queue.actions[1] = kind
  BY <1>1, <1>2, EmptySeq, HeadTailProperties
<1>4. queue'.actions = Tail(queue.actions)
  BY <1>1
<1>5. /\ Len(queue'.actions) = Len(waiting) - 1 /\ Len(waiting') = Len(waiting) - 1
      /\ \A i \in 1..(Len(waiting) - 1) :
           /\ queue'.actions[i] = queue.actions[i + 1]
           /\ waiting'[i] = waiting[i + 1]
  BY <1>1, <1>2, <1>4, HeadTailProperties
<1> QED BY ONLY <1>1, <1>2, <1>3, <1>5

LEMMA PoppedInOrder ==
    ASSUME ApiTypeOK, InOrder, commands = <<>>, commands' = commands, NEW kind \in Due(queue),
           PopsAction(kind)
    PROVE  InOrder'
<1> DEFINE w == Len(waiting)
<1>1. /\ Len(queue.actions) = w /\ w > 0 /\ w \in Nat
      /\ Len(queue'.actions) = w - 1 /\ Len(waiting') = w - 1
      /\ \A i \in 1..(w - 1) : queue'.actions[i] = queue.actions[i + 1] /\ waiting'[i] = waiting[i + 1]
  BY PoppedLists, Lists
<1>2. Len(commands') = 0
  BY EmptySeq
<1>3. /\ \A i \in 1..w : waiting[i].kind = queue.actions[i]
      /\ \A i, j \in 1..w : waiting[i].kind = waiting[j].kind => i = j
  BY <1>1 DEF InOrder, Ordered
<1> HIDE DEF w
<1>4. \A i \in 1..(w - 1) : i + 1 \in 1..w
  BY <1>1
<1>5. Ordered(queue'.actions, w - 1, commands', 0, waiting', w - 1)
  <2>1. \A i \in 1..(w - 1) : waiting'[i].kind = queue'.actions[i]
    BY <1>1, <1>3, <1>4
  <2>2. ASSUME NEW i \in 1..(w - 1), NEW j \in 1..(w - 1), waiting'[i].kind = waiting'[j].kind
        PROVE  i = j
    <3>1. i + 1 \in 1..w /\ j + 1 \in 1..w /\ waiting[i + 1].kind = waiting[j + 1].kind
      BY <1>1, <1>4, <2>2
    <3>2. i + 1 = j + 1
      BY <1>3, <3>1
    <3> QED BY <1>1, <3>2
  <2> QED BY <1>1, <2>1, <2>2 DEF Ordered
<1> QED BY <1>1, <1>2, <1>5 DEF InOrder

LEMMA SameOrder ==
    ASSUME ApiTypeOK, InOrder, commands' = commands, queue'.actions = queue.actions,
           Len(waiting') = Len(waiting),
           \A i \in 1..Len(waiting) : waiting'[i].kind = waiting[i].kind
    PROVE  InOrder'
<1> DEFINE w == Len(waiting)
           n == Len(queue.actions)
           m == Len(commands)
<1>1. /\ n <= w
      /\ \A i \in 1..n : waiting[i].kind = queue.actions[i]
      /\ \A j \in 1..m : \E i \in 1..w : waiting[i].kind = commands[j].kind
      /\ \A i, j \in 1..w : waiting[i].kind = waiting[j].kind => i = j
      /\ \A i \in 1..w : i > n =>
           \E j \in 1..m :
             /\ commands[j].kind = waiting[i].kind
             /\ \A h \in 1..j : \E g \in 1..i : waiting[g].kind = commands[h].kind
  BY DEF InOrder, Ordered
<1>2. n \in Nat /\ w \in Nat /\ \A i \in 1..w : waiting'[i].kind = waiting[i].kind
  BY Lists
<1>3. Len(queue'.actions) = n /\ Len(commands') = m /\ Len(waiting') = w
  OBVIOUS
<1> HIDE DEF w, n, m
<1>4. Ordered(queue.actions, n, commands, m, waiting', w)
  <2>1. \A i \in 1..n : i \in 1..w /\ waiting'[i].kind = queue.actions[i]
    BY <1>1, <1>2
  <2>2. \A j \in 1..m : \E i \in 1..w : waiting'[i].kind = commands[j].kind
    BY <1>1, <1>2
  <2>3. \A i, j \in 1..w : waiting'[i].kind = waiting'[j].kind => i = j
    BY <1>1, <1>2
  <2>4. ASSUME NEW i \in 1..w, i > n
        PROVE  \E j \in 1..m :
                 /\ commands[j].kind = waiting'[i].kind
                 /\ \A h \in 1..j : \E g \in 1..i : waiting'[g].kind = commands[h].kind
    <3>1. PICK j \in 1..m :
            /\ commands[j].kind = waiting[i].kind
            /\ \A h \in 1..j : \E g \in 1..i : waiting[g].kind = commands[h].kind
      BY <1>1, <2>4
    <3>2. \A g \in 1..i : waiting'[g].kind = waiting[g].kind
      BY <1>2
    <3> QED BY <1>2, <3>1, <3>2
  <2> QED BY <1>1, <2>1, <2>2, <2>3, <2>4 DEF Ordered
<1> QED BY <1>3, <1>4 DEF InOrder

\* What a poll that ends or is popped sees of the presses: nothing.
SamePresses ==
    /\ queue'.actions = queue.actions
    /\ \A a \in Actions : queue'.due[a] = queue.due[a]
    /\ UNCHANGED <<commands, staged, waiting>>

LEMMA EndsPresses ==
    ASSUME ApiTypeOK, CallEnds \/ CallFails
    PROVE  /\ SamePresses /\ call' = None /\ task' = "draining"
           /\ \/ /\ "PollRecipes" \in queue'.polls <=> "PollRecipes" \in queue.polls
                 /\ queue'.due["PollRecipes"] = queue.due["PollRecipes"]
              \/ /\ "PollRecipes" \in queue'.polls
                 /\ \/ queue'.due["PollRecipes"] > 0
                    \/ /\ "PollRecipes" \in queue.polls
                       /\ queue'.due["PollRecipes"] = queue.due["PollRecipes"]
<1>1. PICK a : Ends(a)
  BY DEF CallEnds, CallFails
<1>2. call' = None /\ task' = "draining" /\ UNCHANGED <<commands, staged, waiting>>
  BY <1>1 DEF Ends
<1>3. queue \in Queue /\ queue.due \in [Kinds -> Int]
      /\ Polls \subseteq Kinds /\ Actions \subseteq Kinds /\ Polls \cap Actions = {}
      /\ {"PollStatus", "PollCurrentCook", "PollRecipes"} \subseteq Polls
  BY DEF ApiTypeOK, Queue, Kinds, Polls, Actions
<1>4. CASE call.kind \in Polls
  <2>1. AfterPoll(call.kind, a)
    BY <1>1, <1>4 DEF Ends
  <2>2. \A f : Interval(f) \in Int /\ Interval(f) >= 0
    BY Constants DEF Interval
  <2>3. PICK in \in Int : /\ queue' = Enqueue(queue, call.kind, in)
                          /\ call.kind = "PollRecipes" => in > 0
    <3>1. Later(Interval(snap.fails), CookEvery) \in Int
          /\ Later(Interval(snap.fails), RecipesEvery) \in Int
          /\ Later(Interval(snap.fails), RecipesEvery) > 0
      BY <2>2, Constants DEF Later
    <3> QED BY <1>4, <2>1, <2>2, <3>1 DEF AfterPoll, Polls
  <2> DEFINE k == call.kind
  <2>4. /\ queue'.actions = queue.actions
        /\ \A o \in Kinds \ {k} : /\ queue'.due[o] = queue.due[o]
                                  /\ o \in queue'.polls <=> o \in queue.polls
        /\ k \in queue.polls => queue'.due[k] = Earlier(queue.due[k], in)
        /\ k \notin queue.polls => queue'.due[k] = in
    <3> DEFINE e == Enqueue(queue, k, in)
    <3>1. k \in Polls /\ queue \in Queue /\ in \in Int /\ queue' = e
      BY <1>3, <1>4, <2>3
    <3> HIDE DEF k
    <3>2. /\ e.actions = queue.actions
          /\ \A o \in Kinds \ {k} : e.due[o] = queue.due[o] /\ (o \in e.polls <=> o \in queue.polls)
          /\ k \in queue.polls => e.due[k] = Earlier(queue.due[k], in)
          /\ k \notin queue.polls => e.due[k] = in
      BY ONLY <3>1, EnqueuePoll
    <3> HIDE DEF e
    <3> QED BY ONLY <3>1, <3>2
  <2>5. k \in queue'.polls
    BY <1>4, <2>3 DEF Enqueue
  <2>6. k = "PollRecipes" /\ k \in queue.polls =>
          queue'.due[k] > 0 \/ queue'.due[k] = queue.due[k]
    BY <1>3, <2>3, <2>4 DEF Earlier
  <2>7. SamePresses
    <3>1. \A b \in Actions : queue'.due[b] = queue.due[b]
      BY <1>3, <1>4, <2>4
    <3> QED BY <1>2, <2>4, <3>1 DEF SamePresses
  <2> HIDE DEF k
  <2>8. CASE k = "PollRecipes"
    BY <1>2, <2>3, <2>4, <2>5, <2>6, <2>7, <2>8 DEF k
  <2>9. CASE k # "PollRecipes"
    <3>1. /\ "PollRecipes" \in queue'.polls <=> "PollRecipes" \in queue.polls
          /\ queue'.due["PollRecipes"] = queue.due["PollRecipes"]
      BY <1>3, <2>4, <2>9
    <3> QED BY <1>2, <2>7, <3>1
  <2> QED BY <2>8, <2>9
<1>5. CASE call.kind \notin Polls
  <2>1. AfterAction(call.kind)
    BY <1>1, <1>5 DEF Ends
  <2> DEFINE r == Enqueue(queue, "PollStatus", Refresh)
  <2>2. queue' = Enqueue(r, "PollCurrentCook", StartRefresh) \/ queue' = queue
    BY <2>1 DEF AfterAction
  <2>3. Refresh \in Int /\ StartRefresh \in Int
    BY Constants
  <2>4. /\ r \in Queue /\ r.actions = queue.actions
        /\ \A o \in Kinds \ {"PollStatus"} : r.due[o] = queue.due[o] /\ (o \in r.polls <=> o \in queue.polls)
    BY <1>3, <2>3, EnqueuePoll
  <2> HIDE DEF r
  <2>5. CASE queue' = Enqueue(r, "PollCurrentCook", StartRefresh)
    <3>1. /\ queue'.actions = r.actions
          /\ \A o \in Kinds \ {"PollCurrentCook"} :
               queue'.due[o] = r.due[o] /\ (o \in queue'.polls <=> o \in r.polls)
      <4> DEFINE e == Enqueue(r, "PollCurrentCook", StartRefresh)
      <4>1. /\ e.actions = r.actions
            /\ \A o \in Kinds \ {"PollCurrentCook"} :
                 e.due[o] = r.due[o] /\ (o \in e.polls <=> o \in r.polls)
        BY <1>3, <2>3, <2>4, EnqueuePoll
      <4>2. queue' = e
        BY <2>5
      <4> HIDE DEF e
      <4> QED BY ONLY <4>1, <4>2
    <3>2. \A o \in Kinds \ {"PollStatus", "PollCurrentCook"} :
               queue'.due[o] = queue.due[o] /\ (o \in queue'.polls <=> o \in queue.polls)
      BY <2>4, <3>1
    <3>3. \A b \in Actions : b \in Kinds \ {"PollStatus", "PollCurrentCook"}
      BY <1>3
    <3>4. "PollRecipes" \in Kinds \ {"PollStatus", "PollCurrentCook"}
      BY <1>3
    <3>5. SamePresses
      BY <1>2, <2>4, <3>1, <3>2, <3>3 DEF SamePresses
    <3> QED BY <1>2, <3>2, <3>4, <3>5
  <2>6. CASE queue' = queue
    BY <1>2, <2>6 DEF SamePresses
  <2> QED BY <2>2, <2>5, <2>6
<1> QED BY <1>4, <1>5

-----------------------------------------------------------------------------
(* The recipe of a start.                                                  *)

LEMMA TakenRecipe ==
    ASSUME ApiTypeOK, TakesCommand, InOrder, RecipeKept
    PROVE  RecipeKept'
<1> DEFINE m == Len(commands)
           w == Len(waiting)
           k == commands[1].kind
<1>1. /\ waiting' = waiting /\ staged' = IF k = "ApiStart" THEN commands[1].recipe ELSE staged
  BY TakenQueue
<1>2. /\ m \in Nat /\ 1 \in 1..m /\ Len(commands') = m - 1
      /\ \A j \in 1..(m - 1) : j + 1 \in 1..m /\ commands'[j] = commands[j + 1]
  BY Lists, TakenLists
<1>3. Kept(commands, m, waiting, w, staged)
  BY DEF RecipeKept
<1> HIDE DEF m, w, k
<1>4. \A j \in 1..(m - 1) : IsLastStart(commands', m - 1, j) => IsLastStart(commands, m, j + 1)
  <2> SUFFICES ASSUME NEW j \in 1..(m - 1), IsLastStart(commands', m - 1, j)
               PROVE  IsLastStart(commands, m, j + 1)
    OBVIOUS
  <2>1. commands[j + 1].kind = "ApiStart"
    BY <1>2 DEF IsLastStart
  <2>2. ASSUME NEW h \in 1..m, h > j + 1
        PROVE  commands[h].kind # "ApiStart"
    <3>1. h - 1 \in 1..(m - 1) /\ h - 1 > j /\ (h - 1) + 1 = h
      BY <1>2, <2>2
    <3>2. commands'[h - 1].kind # "ApiStart" /\ commands'[h - 1] = commands[h]
      BY <1>2, <3>1 DEF IsLastStart
    <3> QED BY <3>2
  <2> QED BY <2>1, <2>2 DEF IsLastStart
<1>5. ASSUME \A j \in 1..(m - 1) : commands'[j].kind # "ApiStart"
      PROVE  \A h \in 1..m : h # 1 => commands[h].kind # "ApiStart"
  <2> SUFFICES ASSUME NEW h \in 1..m, h # 1
               PROVE  commands[h].kind # "ApiStart"
    OBVIOUS
  <2>1. h - 1 \in 1..(m - 1) /\ (h - 1) + 1 = h
    BY <1>2
  <2> QED BY <1>2, <1>5, <2>1
<1>6. ASSUME NEW i \in 1..w, waiting[i].kind = "ApiStart",
             \A j \in 1..(m - 1) : commands'[j].kind # "ApiStart"
      PROVE  staged' = waiting[i].recipe
  <2>1. \A h \in 1..m : h # 1 => commands[h].kind # "ApiStart"
    BY <1>5, <1>6
  <2>2. CASE k = "ApiStart"
    <3>1. IsLastStart(commands, m, 1)
      BY <1>2, <2>1, <2>2 DEF IsLastStart, k
    <3> QED BY <1>1, <1>2, <1>3, <1>6, <2>2, <3>1 DEF Kept
  <2>3. CASE k # "ApiStart"
    <3>1. \A h \in 1..m : commands[h].kind # "ApiStart"
      BY <2>1, <2>3 DEF k
    <3> QED BY <1>1, <1>3, <1>6, <2>3, <3>1 DEF Kept
  <2> QED BY <2>2, <2>3
<1>7. Kept(commands', m - 1, waiting, w, staged')
  <2>1. \A j \in 1..(m - 1) :
          IF commands'[j].kind = "ApiStart" THEN commands'[j].recipe \in Recipes
          ELSE commands'[j].recipe = None
    BY <1>2, <1>3 DEF Kept
  <2>2. ASSUME NEW i \in 1..w, waiting[i].kind = "ApiStart"
        PROVE  /\ waiting[i].recipe \in Recipes
               /\ \A j \in 1..(m - 1) :
                    IsLastStart(commands', m - 1, j) => commands'[j].recipe = waiting[i].recipe
    <3>1. /\ waiting[i].recipe \in Recipes
          /\ \A j \in 1..m : IsLastStart(commands, m, j) => commands[j].recipe = waiting[i].recipe
      BY <1>3, <2>2 DEF Kept
    <3> QED BY <1>2, <1>4, <3>1
  <2>3. ASSUME NEW i \in 1..w, waiting[i].kind # "ApiStart"
        PROVE  waiting[i].recipe = None
    BY <1>3, <2>3 DEF Kept
  <2> QED BY <1>6, <2>1, <2>2, <2>3 DEF Kept
<1>8. Len(waiting') = w /\ Len(commands') = m - 1
  BY <1>1, <1>2 DEF w
<1> QED BY <1>1, <1>7, <1>8 DEF RecipeKept

LEMMA SentRecipe ==
    ASSUME ApiTypeOK, RecipeKept, NEW kind \in Actions, NEW recipe,
           IF kind = "ApiStart" THEN recipe \in Recipes ELSE recipe = None,
           SentAs(kind, recipe), staged' = staged
    PROVE  RecipeKept'
<1> DEFINE m == Len(commands)
           w == Len(waiting)
           v == Len(waiting')
<1>1. recipe \in Recipes \cup {None}
  OBVIOUS
<1>2. Len(commands') = m + 1 /\ m \in Nat /\ w \in Nat
  BY <1>1, SentLists, Lists, Zenon
<1>3. commands'[m + 1].kind = kind /\ commands'[m + 1].recipe = recipe
  BY <1>1, SentLists, Zenon
<1>4. \A j \in 1..m : commands'[j] = commands[j]
  BY <1>1, SentLists, Zenon
<1>5. \/ /\ v = w
         /\ \A i \in 1..w :
              /\ waiting'[i].kind = waiting[i].kind
              /\ waiting'[i].recipe = IF waiting[i].kind = kind THEN recipe ELSE waiting[i].recipe
      \/ /\ v = w + 1
         /\ \A i \in 1..w : waiting[i].kind # kind /\ waiting'[i] = waiting[i]
         /\ waiting'[w + 1] = [kind |-> kind, recipe |-> recipe, age |-> 0, ahead |-> w]
  BY <1>1, SentLists
<1>6. Kept(commands, m, waiting, w, staged)
  BY DEF RecipeKept
<1>7. v = Len(waiting') /\ Len(commands') = m + 1
  BY <1>2
<1> HIDE DEF m, w, v
\* Each press is the one just sent, or one that was there.
<1>8. \A i \in 1..v :
        \/ waiting'[i].kind = kind /\ waiting'[i].recipe = recipe
        \/ /\ i \in 1..w /\ waiting'[i].kind = waiting[i].kind /\ waiting[i].kind # kind
           /\ waiting'[i].recipe = waiting[i].recipe
  <2> TAKE i \in 1..v
  <2>1. CASE i \in 1..w
    BY <1>5, <2>1
  <2>2. CASE i \notin 1..w
    <3>1. v = w + 1 /\ i = w + 1
      BY <1>2, <1>5, <2>2
    <3> QED BY <1>2, <1>5, <3>1
  <2> QED BY <2>1, <2>2
<1>9. \A j \in 1..(m + 1) : j \in 1..m \/ j = m + 1
  BY <1>2
<1>10. m + 1 \in 1..(m + 1) /\ \A j \in 1..m : j \in 1..(m + 1) /\ m + 1 > j
  BY <1>2
<1>11. ASSUME NEW i \in 1..v
       PROVE  IF waiting'[i].kind = "ApiStart"
              THEN /\ waiting'[i].recipe \in Recipes
                   /\ \A j \in 1..(m + 1) :
                        IsLastStart(commands', m + 1, j) => commands'[j].recipe = waiting'[i].recipe
                   /\ (\A j \in 1..(m + 1) : commands'[j].kind # "ApiStart") =>
                        staged = waiting'[i].recipe
              ELSE waiting'[i].recipe = None
  <2>1. CASE kind = "ApiStart"
    <3>1. \A j \in 1..(m + 1) : IsLastStart(commands', m + 1, j) => j = m + 1
      BY <1>3, <1>9, <1>10, <2>1 DEF IsLastStart
    <3>2. CASE waiting'[i].kind = "ApiStart"
      <4>1. waiting'[i].recipe = recipe
        BY <1>8, <2>1, <3>2
      <4> QED BY <1>3, <1>10, <2>1, <3>1, <3>2, <4>1
    <3>3. CASE waiting'[i].kind # "ApiStart"
      <4>1. i \in 1..w /\ waiting[i].kind # "ApiStart" /\ waiting'[i].recipe = waiting[i].recipe
        BY <1>8, <2>1, <3>3
      <4> QED BY <1>6, <3>3, <4>1 DEF Kept
    <3> QED BY <3>2, <3>3
  <2>2. CASE kind # "ApiStart"
    <3>1. CASE waiting'[i].kind = "ApiStart"
      <4>1. i \in 1..w /\ waiting[i].kind = "ApiStart" /\ waiting'[i].recipe = waiting[i].recipe
        BY <1>8, <2>2, <3>1
      <4>2. /\ waiting[i].recipe \in Recipes
            /\ \A j \in 1..m : IsLastStart(commands, m, j) => commands[j].recipe = waiting[i].recipe
            /\ (\A j \in 1..m : commands[j].kind # "ApiStart") => staged = waiting[i].recipe
        BY <1>6, <4>1 DEF Kept
      <4>3. ASSUME NEW j \in 1..(m + 1), IsLastStart(commands', m + 1, j)
            PROVE  commands'[j].recipe = waiting'[i].recipe
        <5>1. j \in 1..m
          BY <1>3, <1>9, <2>2, <4>3 DEF IsLastStart
        <5>2. IsLastStart(commands, m, j)
          BY <1>4, <1>10, <4>3, <5>1 DEF IsLastStart
        <5> QED BY <1>4, <4>1, <4>2, <5>1, <5>2
      <4>4. ASSUME \A j \in 1..(m + 1) : commands'[j].kind # "ApiStart"
            PROVE  staged = waiting'[i].recipe
        BY <1>4, <1>10, <4>1, <4>2, <4>4
      <4> QED BY <3>1, <4>1, <4>2, <4>3, <4>4
    <3>2. CASE waiting'[i].kind # "ApiStart"
      <4>1. waiting'[i].recipe = recipe
            \/ (i \in 1..w /\ waiting[i].kind # "ApiStart" /\ waiting'[i].recipe = waiting[i].recipe)
        BY <1>8, <3>2
      <4> QED BY <1>6, <2>2, <3>2, <4>1 DEF Kept
    <3> QED BY <3>1, <3>2
  <2> QED BY <2>1, <2>2
<1>12. \A j \in 1..(m + 1) :
         IF commands'[j].kind = "ApiStart" THEN commands'[j].recipe \in Recipes
         ELSE commands'[j].recipe = None
  BY <1>3, <1>4, <1>6, <1>9 DEF Kept
<1>13. Kept(commands', m + 1, waiting', v, staged)
  BY <1>11, <1>12 DEF Kept
<1> QED BY <1>7, <1>13 DEF RecipeKept

LEMMA PoppedRecipe ==
    ASSUME ApiTypeOK, InOrder, RecipeKept, commands = <<>>, commands' = commands,
           NEW kind \in Due(queue), PopsAction(kind)
    PROVE  /\ RecipeKept'
           /\ kind = "ApiStart" => staged = waiting[1].recipe /\ staged \in Recipes
           /\ kind # "ApiStart" => waiting[1].recipe = None
<1> DEFINE w == Len(waiting)
<1>1. /\ w \in Nat /\ w > 0 /\ waiting[1].kind = kind /\ Len(waiting') = w - 1
      /\ \A i \in 1..(w - 1) : waiting'[i] = waiting[i + 1]
  BY PoppedLists, Lists
<1>2. Len(commands) = 0 /\ Len(commands') = 0
  BY EmptySeq
<1>3. Kept(commands, 0, waiting, w, staged)
  BY <1>2 DEF RecipeKept
<1>4. \A i, j \in 1..w : waiting[i].kind = waiting[j].kind => i = j
  BY DEF InOrder, Ordered
<1>5. staged' = IF kind = "ApiStart" THEN None ELSE staged
  BY DEF PopsAction
<1> HIDE DEF w
<1>6. 1 \in 1..w /\ \A i \in 1..(w - 1) : i + 1 \in 1..w /\ i + 1 # 1
  BY <1>1
<1>7. \A i \in 1..w :
        IF waiting[i].kind = "ApiStart"
          THEN waiting[i].recipe \in Recipes /\ staged = waiting[i].recipe
          ELSE waiting[i].recipe = None
  BY <1>3 DEF Kept
<1>8. ASSUME NEW i \in 1..(w - 1)
      PROVE  IF waiting'[i].kind = "ApiStart"
               THEN waiting'[i].recipe \in Recipes /\ staged' = waiting'[i].recipe
               ELSE waiting'[i].recipe = None
  <2>1. waiting'[i] = waiting[i + 1] /\ waiting[i + 1].kind # kind
    BY <1>1, <1>4, <1>6
  <2> QED BY <1>5, <1>6, <1>7, <2>1
<1>9. Kept(commands', 0, waiting', w - 1, staged')
  BY <1>8 DEF Kept
<1>10. RecipeKept'
  BY <1>1, <1>2, <1>9 DEF RecipeKept
<1> QED BY <1>1, <1>6, <1>7, <1>10

LEMMA SameRecipe ==
    ASSUME RecipeKept, commands' = commands, staged' = staged, Len(waiting') = Len(waiting),
           \A i \in 1..Len(waiting) :
             waiting'[i].kind = waiting[i].kind /\ waiting'[i].recipe = waiting[i].recipe
    PROVE  RecipeKept'
<1> DEFINE w == Len(waiting)
           m == Len(commands)
<1>1. Kept(commands, m, waiting, w, staged)
  BY DEF RecipeKept
<1>2. \A i \in 1..w : waiting'[i].kind = waiting[i].kind /\ waiting'[i].recipe = waiting[i].recipe
  OBVIOUS
<1> HIDE DEF w, m
<1>3. Kept(commands, m, waiting', w, staged)
  BY <1>1, <1>2 DEF Kept
<1> QED BY <1>3 DEF RecipeKept, w, m

-----------------------------------------------------------------------------
(* The queue and the time.                                                 *)

LEMMA PoppedPoll ==
    ASSUME ApiTypeOK, commands' = commands, NEW kind \in Due(queue), PopsPoll(kind)
    PROVE  /\ SamePresses
           /\ \/ /\ call' = call /\ queue'.due["PollRecipes"] = queue.due["PollRecipes"]
                 /\ "PollRecipes" \in queue'.polls <=> "PollRecipes" \in queue.polls
              \/ /\ kind = "PollRecipes" /\ Calls(kind, None) /\ "PollRecipes" \notin queue'.polls
              \/ /\ ~ActionInFlight /\ Calls(kind, None)
<1> DEFINE q == Without(queue, kind)
<1>1. /\ kind \in Polls /\ UNCHANGED <<staged, waiting>>
      /\ IF kind # "PollRecipes" /\ ActionInFlight
           THEN /\ queue' = Enqueue(q, kind, Refresh)
                /\ UNCHANGED <<task, call>>
           ELSE queue' = q /\ Calls(kind, None)
  BY DEF PopsPoll
<1>2. queue \in Queue /\ queue.due \in [Kinds -> Int] /\ kind \in Kinds
      /\ Actions \subseteq Kinds /\ Polls \cap Actions = {} /\ "PollRecipes" \in Kinds
  BY <1>1 DEF ApiTypeOK, Queue, Kinds, Polls, Actions
<1>3. q = [polls |-> queue.polls \ {kind}, actions |-> queue.actions,
           due |-> [queue.due EXCEPT ![kind] = 0]]
  BY <1>1, <1>2, WithoutPoll
<1>4. q \in Queue
  BY <1>2, WithoutType
<1> HIDE DEF q
<1>5. /\ q.actions = queue.actions
      /\ \A o \in Kinds \ {kind} : q.due[o] = queue.due[o] /\ (o \in q.polls <=> o \in queue.polls)
      /\ kind \notin q.polls
  BY ONLY <1>2, <1>3
<1>6. CASE kind # "PollRecipes" /\ ActionInFlight
  <2> DEFINE e == Enqueue(q, kind, Refresh)
  <2>1. queue' = e /\ call' = call
    BY <1>1, <1>6
  <2>2. Refresh \in Int
    BY Constants
  <2>3. /\ e.actions = q.actions
        /\ \A o \in Kinds \ {kind} : e.due[o] = q.due[o] /\ (o \in e.polls <=> o \in q.polls)
    BY ONLY <1>1, <1>4, <2>2, EnqueuePoll
  <2> HIDE DEF e
  <2>4. \A o \in Kinds \ {kind} :
          queue'.due[o] = queue.due[o] /\ (o \in queue'.polls <=> o \in queue.polls)
    BY ONLY <1>5, <2>1, <2>3
  <2>5. queue'.actions = queue.actions
    BY ONLY <1>5, <2>1, <2>3
  <2>6. SamePresses
    <3>1. \A a \in Actions : a \in Kinds \ {kind}
      BY <1>1, <1>2
    <3> QED BY <1>1, <2>4, <2>5, <3>1 DEF SamePresses
  <2> QED BY <1>2, <1>6, <2>1, <2>4, <2>6
<1>7. CASE ~(kind # "PollRecipes" /\ ActionInFlight)
  <2>1. queue' = q /\ Calls(kind, None)
    BY <1>1, <1>7
  <2>2. SamePresses
    <3>1. \A a \in Actions : a \in Kinds \ {kind}
      BY <1>1, <1>2
    <3> QED BY <1>1, <1>5, <2>1, <3>1 DEF SamePresses
  <2> QED BY <1>5, <1>7, <2>1, <2>2
<1> QED BY <1>6, <1>7

\* Presses that stand as they did keep their due times in order.
LEMMA SameDue ==
    ASSUME ApiTypeOK, DueInOrder, SamePresses
    PROVE  DueInOrder' /\ \A i \in 1..Len(queue.actions) : DueAt(i)' = DueAt(i)
<1>1. /\ \A i \in 1..Len(queue.actions) : queue.actions[i] \in Actions
  BY Lists
<1>2. queue'.actions = queue.actions /\ waiting' = waiting
      /\ \A a \in Actions : queue'.due[a] = queue.due[a]
  BY DEF SamePresses
<1>3. \A i \in 1..Len(queue.actions) : DueAt(i)' = DueAt(i)
  BY <1>1, <1>2 DEF DueAt
<1>4. DueInOrder'
  BY <1>2, <1>3 DEF DueInOrder
<1> QED BY <1>3, <1>4

LEMMA Waits2 ==
    /\ \A n \in Nat : Wait(n) \in Nat /\ Wait(n + 1) = Wait(n) + CallTimeout
    /\ \A n \in 0..2 : Wait(2 + n) < MaxLate
    /\ \A n \in Nat : Wait(2 + n) = Wait(n) + CallTimeout + CallTimeout
<1>1. CallTimeout \in Nat /\ CallTimeout > 0 /\ MaxLate \in Nat /\ MaxLate > 4 * CallTimeout
  BY Constants
<1>2. \A n \in Nat : Wait(n) \in Nat /\ Wait(n + 1) = Wait(n) + CallTimeout
  BY <1>1 DEF Wait
<1>3. \A n \in 0..2 : Wait(2 + n) < MaxLate
  <2> TAKE n \in 0..2
  <2>1. n = 0 \/ n = 1 \/ n = 2
    OBVIOUS
  <2>2. Wait(2) < MaxLate /\ Wait(3) < MaxLate /\ Wait(4) < MaxLate
    BY <1>1 DEF Wait
  <2> QED BY <2>1, <2>2
<1>4. \A n \in Nat : Wait(2 + n) = Wait(n) + CallTimeout + CallTimeout
  BY <1>1 DEF Wait
<1> QED BY <1>2, <1>3, <1>4

LEMMA CallLeftType ==
    ASSUME ApiTypeOK
    PROVE  CallLeft \in 0..CallTimeout
<1>1. call \in Call \cup {None} /\ CallTimeout \in Nat
  BY Constants DEF ApiTypeOK
<1> QED BY <1>1 DEF CallLeft, Call

LEMMA PressTypes ==
    ASSUME ApiTypeOK, NEW i \in 1..Len(waiting)
    PROVE  waiting[i].age \in 0..MaxLate /\ waiting[i].ahead \in Nat
BY Lists DEF Press

LEMMA NoLater ==
    ASSUME ApiTypeOK, InTime, waiting' = waiting, CallLeft' \in Int, CallLeft' <= CallLeft,
           \A i \in 1..Len(waiting) : Precedes(i)' => Precedes(i)
    PROVE  InTime'
<1> SUFFICES ASSUME NEW i \in 1..Len(waiting)
             PROVE  waiting[i].age + CallLeft' + Wait(i - 1)
                      + (IF Precedes(i)' THEN CallTimeout ELSE 0) <= Wait(2 + waiting[i].ahead)
  BY DEF InTime
<1> DEFINE p == IF Precedes(i) THEN CallTimeout ELSE 0
           q == IF Precedes(i)' THEN CallTimeout ELSE 0
<1>1. p \in Nat /\ q \in Nat /\ q <= p
  <2>1. CallTimeout \in Nat /\ CallTimeout >= 0
    BY Constants
  <2>2. Precedes(i)' => Precedes(i)
    OBVIOUS
  <2> HIDE DEF Precedes
  <2> QED BY <2>1, <2>2
<1>2. waiting[i].age + CallLeft + Wait(i - 1) + p <= Wait(2 + waiting[i].ahead)
  BY DEF InTime
<1>3. CallLeft \in Int /\ waiting[i].age \in Int /\ waiting[i].ahead \in Nat /\ i - 1 \in Nat
      /\ 2 + waiting[i].ahead \in Nat
  BY CallLeftType, PressTypes, Lists, Constants
<1>4. Wait(i - 1) \in Int /\ Wait(2 + waiting[i].ahead) \in Int
  <2>1. \A n \in Nat : Wait(n) \in Nat
    BY Waits2
  <2>2. i - 1 \in Nat /\ 2 + waiting[i].ahead \in Nat
    BY <1>3
  <2>3. Wait(i - 1) \in Nat /\ Wait(2 + waiting[i].ahead) \in Nat
    BY ONLY <2>1, <2>2
  <2> QED BY <2>3
<1> SUFFICES waiting[i].age + CallLeft' + Wait(i - 1) + q <= Wait(2 + waiting[i].ahead)
  OBVIOUS
<1> HIDE DEF p, q
<1>5. CallLeft' \in Int /\ CallLeft' <= CallLeft
  OBVIOUS
<1> QED BY ONLY <1>1, <1>2, <1>3, <1>4, <1>5

LEMMA TakenTime ==
    ASSUME ApiTypeOK, TakesCommand, InOrder, DueInOrder, InTime
    PROVE  DueInOrder' /\ InTime'
<1> DEFINE n == Len(queue.actions)
           n2 == Len(queue'.actions)
           k == commands[1].kind
<1>1. /\ UNCHANGED <<waiting, call>> /\ k \in Actions
      /\ \A a \in Actions \ {k} : queue'.due[a] = queue.due[a]
      /\ queue'.due[k] = IF k \in Range(queue.actions) THEN Earlier(queue.due[k], 0) ELSE 0
      /\ queue'.due["PollRecipes"] = queue.due["PollRecipes"]
      /\ "PollRecipes" \in queue'.polls <=> "PollRecipes" \in queue.polls
  BY TakenQueue
<1>2. \/ /\ n2 = n /\ queue'.actions = queue.actions
         /\ \E i \in 1..n : queue.actions[i] = k
         /\ k \in Range(queue.actions)
      \/ /\ n2 = n + 1 /\ n + 1 \in DOMAIN waiting
         /\ queue'.actions[n + 1] = k
         /\ \A i \in 1..n : queue'.actions[i] = queue.actions[i] /\ queue.actions[i] # k
         /\ k \notin Range(queue.actions)
  BY TakenLists
<1>3. n \in Nat /\ Len(waiting) \in Nat /\ DOMAIN waiting = 1..Len(waiting)
      /\ \A i \in 1..n : queue.actions[i] \in Actions
      /\ Actions \subseteq Kinds
  BY Lists DEF Kinds
<1>4. \A i \in 1..n : DueAt(i) \in Int /\ DueAt(i) <= 0 /\ 0 - DueAt(i) <= waiting[i].age
  <2>1. \A i \in 1..n : queue.actions[i] \in Kinds
    BY <1>3
  <2> QED BY <2>1, Lists DEF DueInOrder, DueAt
<1>5. \A i \in 1..n : DueAt(i)' = DueAt(i)
  <2> TAKE i \in 1..n
  <2>1. queue'.actions[i] = queue.actions[i]
    BY <1>2
  <2>2. CASE queue.actions[i] = k
    <3>1. k \in Range(queue.actions)
      BY <1>2, <2>2
    <3>2. queue'.due[k] = queue.due[k]
      BY <1>1, <1>4, <2>2, <3>1 DEF Earlier, DueAt
    <3> QED BY <2>1, <2>2, <3>2 DEF DueAt
  <2>3. CASE queue.actions[i] # k
    BY <1>1, <1>3, <2>1, <2>3 DEF DueAt
  <2> QED BY <2>2, <2>3
<1>6. n2 = n \/ (n2 = n + 1 /\ queue'.due[queue'.actions[n + 1]] = 0 /\ n + 1 \in 1..Len(waiting))
  BY <1>1, <1>2, <1>3
<1>7. n2 = Len(queue'.actions)
  OBVIOUS
<1> HIDE DEF n2, n, k
<1>8. \A i \in 1..n2 : i \in 1..n \/ (i = n + 1 /\ n2 = n + 1)
  BY <1>3, <1>6
<1>9. DueInOrder'
  <2>1. \A i \in 1..n2 : DueAt(i)' <= 0 /\ 0 - DueAt(i)' <= waiting[i].age
    <3> TAKE i \in 1..n2
    <3>1. CASE i \in 1..n
      BY <1>4, <1>5, <3>1
    <3>2. CASE i = n + 1 /\ n2 = n + 1
      <4>1. DueAt(i)' = 0 /\ i \in 1..Len(waiting)
        BY <1>3, <1>6, <3>2 DEF DueAt
      <4>2. waiting[i].age >= 0 /\ waiting[i].age \in Int
        BY <4>1, PressTypes, Constants
      <4> QED BY <4>1, <4>2
    <3> QED BY <1>8, <3>1, <3>2
  <2>2. ASSUME NEW i \in 1..n2, NEW j \in 1..n2, i < j
        PROVE  DueAt(i)' <= DueAt(j)'
    <3>1. i \in 1..n
      BY <1>3, <1>8, <2>2
    <3>2. CASE j \in 1..n
      <4>1. DueAt(i) <= DueAt(j)
        BY <2>2, <3>1, <3>2 DEF DueInOrder, n
      <4> QED BY <1>5, <3>1, <3>2, <4>1
    <3>3. CASE j = n + 1 /\ n2 = n + 1
      <4>1. DueAt(j)' = 0
        BY <1>3, <1>6, <3>3 DEF DueAt
      <4> QED BY <1>4, <1>5, <3>1, <4>1
    <3> QED BY <1>8, <3>2, <3>3
  <2> QED BY <1>1, <1>7, <2>1, <2>2 DEF DueInOrder
<1>10. InTime'
  <2>1. CallLeft' = CallLeft /\ waiting' = waiting
    BY <1>1 DEF CallLeft
  <2>2. CallLeft \in Int
    BY CallLeftType, Constants
  <2>3. ASSUME NEW i \in 1..Len(waiting), Precedes(i)', i <= n
        PROVE  "PollRecipes" \in queue.polls /\ queue.due["PollRecipes"] <= DueAt(i)
    <3>1. i \in 1..n /\ i <= Len(queue'.actions)
      BY <1>3, <1>6, <1>7, <2>3
    <3>2. "PollRecipes" \in queue'.polls /\ queue'.due["PollRecipes"] <= DueAt(i)'
      BY <2>3, <3>1 DEF Precedes
    <3> QED BY <1>1, <1>5, <3>1, <3>2
  <2>4. \A i \in 1..Len(waiting) : Precedes(i)' => Precedes(i)
    BY <2>3 DEF Precedes, n
  <2> QED BY <2>1, <2>2, <2>4, NoLater
<1> QED BY <1>9, <1>10

\* There are three kinds of presses.
LEMMA FewWait ==
    ASSUME ApiTypeOK, InOrder, NEW kind \in Actions,
           \A i \in 1..Len(waiting) : waiting[i].kind # kind
    PROVE  Len(waiting) <= 2
<1>1. Len(waiting) \in Nat /\ \A i \in 1..Len(waiting) : waiting[i].kind \in Actions
  BY Lists DEF Press
<1>2. \A i, j \in 1..Len(waiting) : waiting[i].kind = waiting[j].kind => i = j
  BY DEF InOrder, Ordered
<1>3. ASSUME Len(waiting) > 2 PROVE FALSE
  <2>1. 1 \in 1..Len(waiting) /\ 2 \in 1..Len(waiting) /\ 3 \in 1..Len(waiting)
    BY <1>1, <1>3
  <2>2. waiting[1].kind # waiting[2].kind /\ waiting[1].kind # waiting[3].kind
        /\ waiting[2].kind # waiting[3].kind
    BY <1>2, <2>1
  <2>3. waiting[1].kind \in Actions /\ waiting[2].kind \in Actions /\ waiting[3].kind \in Actions
        /\ waiting[1].kind # kind /\ waiting[2].kind # kind /\ waiting[3].kind # kind
    BY <1>1, <2>1
  <2> QED BY <2>2, <2>3 DEF Actions
<1> QED BY <1>1, <1>3

LEMMA SentTime ==
    ASSUME ApiTypeOK, InOrder, DueInOrder, InTime, NEW kind \in Actions,
           NEW recipe \in Recipes \cup {None}, SentAs(kind, recipe), UNCHANGED <<queue, call>>
    PROVE  DueInOrder' /\ InTime'
<1> DEFINE w == Len(waiting)
<1>1. \/ /\ Len(waiting') = w
         /\ \A i \in 1..w : waiting'[i].age = waiting[i].age /\ waiting'[i].ahead = waiting[i].ahead
      \/ /\ Len(waiting') = w + 1
         /\ \A i \in 1..w : waiting[i].kind # kind /\ waiting'[i] = waiting[i]
         /\ waiting'[w + 1] = [kind |-> kind, recipe |-> recipe, age |-> 0, ahead |-> w]
  BY SentLists
<1>2. w \in Nat /\ Len(queue.actions) \in Nat /\ Len(queue.actions) <= w
  BY Lists DEF InOrder, Ordered
<1>3. \A i \in 1..w : waiting'[i].age = waiting[i].age /\ waiting'[i].ahead = waiting[i].ahead
  BY <1>1
<1>4. DueInOrder'
  <2>1. \A i \in 1..Len(queue.actions) : waiting'[i].age = waiting[i].age
    BY <1>2, <1>3
  <2>2. \A i \in 1..Len(queue.actions) : DueAt(i)' = DueAt(i)
    BY DEF DueAt
  <2> QED BY <2>1, <2>2 DEF DueInOrder
<1>5. CallLeft' = CallLeft /\ \A i \in Nat : Precedes(i)' = Precedes(i)
  BY DEF CallLeft, Precedes, DueAt
<1>6. InTime'
  <2> SUFFICES ASSUME NEW i \in 1..Len(waiting')
               PROVE  /\ waiting'[i].age + CallLeft + Wait(i - 1)
                           + (IF Precedes(i) THEN CallTimeout ELSE 0) <= Wait(2 + waiting'[i].ahead)
                      /\ waiting'[i].ahead <= 2
    <3>1. \A i \in 1..Len(waiting') : Precedes(i)' = Precedes(i)
      BY <1>5
    <3> QED BY <1>5, <3>1 DEF InTime
  <2>1. CASE i \in 1..w
    BY <1>3, <2>1 DEF InTime
  <2>2. CASE i \notin 1..w
    <3>1. /\ Len(waiting') = w + 1 /\ i = w + 1
          /\ \A j \in 1..w : waiting[j].kind # kind
          /\ waiting'[w + 1] = [kind |-> kind, recipe |-> recipe, age |-> 0, ahead |-> w]
      BY <1>1, <1>2, <2>2
    <3>2. waiting'[i].age = 0 /\ waiting'[i].ahead = w
      BY <3>1
    <3>3. w <= 2
      BY <3>1, FewWait
    <3>4. Wait(i - 1) = Wait(w)
      BY <1>2, <3>1
    <3> DEFINE r == IF Precedes(i) THEN CallTimeout ELSE 0
    <3>5. r \in Nat /\ r <= CallTimeout /\ CallTimeout \in Nat
      BY Constants
    <3>6. CallLeft \in 0..CallTimeout
      BY CallLeftType
    <3>7. Wait(w) \in Nat /\ Wait(2 + w) = Wait(w) + CallTimeout + CallTimeout
      BY <1>2, Waits2
    <3> SUFFICES 0 + CallLeft + Wait(w) + r <= Wait(2 + w) /\ w <= 2
      BY <3>2, <3>4
    <3> HIDE DEF r, w
    <3> QED BY <3>3, <3>5, <3>6, <3>7
  <2> QED BY <2>1, <2>2
<1> QED BY <1>4, <1>6

LEMMA EndsTime ==
    ASSUME ApiTypeOK, AnswerOK, DueInOrder, InTime, CallEnds \/ CallFails
    PROVE  DueInOrder' /\ InTime'
<1>1. /\ SamePresses /\ call' = None
      /\ \/ /\ "PollRecipes" \in queue'.polls <=> "PollRecipes" \in queue.polls
            /\ queue'.due["PollRecipes"] = queue.due["PollRecipes"]
         \/ /\ "PollRecipes" \in queue'.polls
            /\ \/ queue'.due["PollRecipes"] > 0
               \/ /\ "PollRecipes" \in queue.polls
                  /\ queue'.due["PollRecipes"] = queue.due["PollRecipes"]
  BY EndsPresses
<1>2. DueInOrder' /\ \A i \in 1..Len(queue.actions) : DueAt(i)' = DueAt(i)
  BY <1>1, SameDue
<1>3. waiting' = waiting /\ queue'.actions = queue.actions /\ Len(queue.actions) \in Nat
  BY <1>1, Lists DEF SamePresses
<1>4. ASSUME NEW i \in 1..Len(waiting), Precedes(i)', i <= Len(queue.actions)
      PROVE  "PollRecipes" \in queue.polls /\ queue.due["PollRecipes"] <= DueAt(i)
  <2>1. i \in 1..Len(queue.actions)
    BY <1>3, <1>4
  <2>2. "PollRecipes" \in queue'.polls /\ queue'.due["PollRecipes"] <= DueAt(i)
    BY <1>2, <1>3, <1>4, <2>1 DEF Precedes
  <2>3. DueAt(i) <= 0 /\ DueAt(i) \in Int
    <3>1. queue.actions[i] \in Kinds
      BY <2>1, Lists DEF Kinds
    <3> QED BY <2>1, <3>1, Lists DEF DueInOrder, DueAt
  <2>4. queue'.due["PollRecipes"] \in Int
    <3>1. queue' \in Queue /\ "PollRecipes" \in Kinds
      BY EndsTyped DEF ApiTypeOK, Kinds, Polls
    <3> QED BY <3>1 DEF Queue
  <2> QED BY <1>1, <2>2, <2>3, <2>4
<1>5. CallLeft' = 0 /\ CallLeft \in 0..CallTimeout
  BY <1>1, CallLeftType DEF CallLeft
<1>6. \A i \in 1..Len(waiting) : Precedes(i)' => Precedes(i)
  BY <1>4 DEF Precedes
<1>7. InTime'
  BY <1>3, <1>5, <1>6, Constants, NoLater
<1> QED BY <1>2, <1>7

LEMMA DueIsLeast ==
    ASSUME ApiTypeOK, NEW kind \in Due(queue), NEW i \in 1..Len(queue.actions)
    PROVE  queue.due[kind] <= DueAt(i)
<1>1. queue.actions[i] \in Queued(queue)
  BY Lists DEF Queued, Range
<1> QED BY <1>1 DEF Due, DueAt

LEMMA PolledTime ==
    ASSUME ApiTypeOK, InOrder, DueInOrder, InTime, commands = <<>>, commands' = commands,
           call = None, NEW kind \in Due(queue), PopsPoll(kind)
    PROVE  DueInOrder' /\ InTime'
<1>1. /\ SamePresses
      /\ \/ /\ call' = call /\ queue'.due["PollRecipes"] = queue.due["PollRecipes"]
            /\ "PollRecipes" \in queue'.polls <=> "PollRecipes" \in queue.polls
         \/ /\ kind = "PollRecipes" /\ Calls(kind, None) /\ "PollRecipes" \notin queue'.polls
         \/ /\ ~ActionInFlight /\ Calls(kind, None)
  BY PoppedPoll
<1>2. DueInOrder' /\ \A i \in 1..Len(queue.actions) : DueAt(i)' = DueAt(i)
  BY <1>1, SameDue
<1>3. waiting' = waiting /\ queue'.actions = queue.actions /\ Len(queue.actions) = Len(waiting)
      /\ Len(waiting) \in Nat
  BY <1>1, QueuedIsWaiting, LenProperties DEF SamePresses
<1>4. CallLeft = 0
  BY DEF CallLeft
<1>5. CASE /\ call' = call /\ queue'.due["PollRecipes"] = queue.due["PollRecipes"]
           /\ "PollRecipes" \in queue'.polls <=> "PollRecipes" \in queue.polls
  <2>1. CallLeft' = 0
    BY <1>5 DEF CallLeft
  <2>2. ASSUME NEW i \in 1..Len(waiting), Precedes(i)'
        PROVE  Precedes(i)
    <3>1. i \in 1..Len(queue.actions) /\ i <= Len(queue'.actions)
      BY <1>3, <2>2
    <3> QED BY <1>2, <1>5, <2>2, <3>1 DEF Precedes
  <2> QED BY <1>2, <1>3, <1>4, <2>1, <2>2, NoLater
<1>6. CASE kind = "PollRecipes" /\ Calls(kind, None) /\ "PollRecipes" \notin queue'.polls
  <2>1. CallLeft' = CallTimeout
    <3>1. kind \in Kinds
      BY <1>6 DEF Kinds, Polls
    <3>2. call' # None /\ call'.left = CallTimeout
      BY <1>6, <3>1, CallType
    <3> QED BY <3>2 DEF CallLeft
  <2>2. ASSUME NEW i \in 1..Len(waiting)
        PROVE  Precedes(i) /\ ~Precedes(i)'
    <3>1. i \in 1..Len(queue.actions) /\ i <= Len(queue'.actions)
      BY <1>3
    <3>2. ~Precedes(i)'
      BY <1>6, <3>1 DEF Precedes
    <3>3. queue.due["PollRecipes"] <= DueAt(i)
      BY <1>6, <3>1, DueIsLeast
    <3>4. "PollRecipes" \in queue.polls
      <4>1. \A j \in DOMAIN queue.actions : queue.actions[j] # "PollRecipes"
        BY Lists DEF Actions
      <4> QED BY <1>6, <4>1 DEF Due, Queued, Range
    <3> QED BY <3>2, <3>3, <3>4 DEF Precedes
  <2> SUFFICES ASSUME NEW i \in 1..Len(waiting)
               PROVE  /\ waiting[i].age + CallTimeout + Wait(i - 1) + 0 <= Wait(2 + waiting[i].ahead)
                      /\ waiting[i].ahead <= 2
    BY <1>2, <1>3, <2>1, <2>2 DEF InTime
  <2>3. waiting[i].age + 0 + Wait(i - 1) + CallTimeout <= Wait(2 + waiting[i].ahead)
        /\ waiting[i].ahead <= 2
    BY <1>4, <2>2 DEF InTime
  <2>4. waiting[i].age \in Int /\ CallTimeout \in Int /\ i - 1 \in Nat
    BY PressTypes, Constants, <1>3
  <2>5. Wait(i - 1) \in Nat
    BY <2>4, Waits2
  <2> QED BY <2>3, <2>4, <2>5
<1>7. CASE ~ActionInFlight /\ Calls(kind, None)
  <2>1. Len(queue.actions) = 0
    BY <1>7, EmptySeq DEF ActionInFlight
  <2>2. Len(waiting) = 0
    BY <1>3, <2>1
  <2> QED BY <1>2, <1>3, <2>2 DEF InTime
<1> QED BY <1>1, <1>5, <1>6, <1>7

LEMMA PoppedTime ==
    ASSUME ApiTypeOK, InOrder, DueInOrder, InTime, commands = <<>>,
           commands' = commands, call = None, NEW kind \in Due(queue), PopsAction(kind)
    PROVE  DueInOrder' /\ InTime'
<1> DEFINE w == Len(waiting)
<1>1. /\ Len(queue.actions) = w /\ w > 0 /\ w \in Nat
      /\ queue.actions[1] = kind
      /\ queue' = [polls |-> queue.polls, actions |-> Tail(queue.actions),
                   due |-> [queue.due EXCEPT ![kind] = 0]]
      /\ Len(queue'.actions) = w - 1 /\ Len(waiting') = w - 1
      /\ \A i \in 1..(w - 1) : queue'.actions[i] = queue.actions[i + 1] /\ waiting'[i] = waiting[i + 1]
  BY PoppedLists, Lists
<1>2. /\ \A i \in 1..w : waiting[i].kind = queue.actions[i]
      /\ \A i, j \in 1..w : waiting[i].kind = waiting[j].kind => i = j
      /\ \A i \in 1..w : queue.actions[i] \in Actions
      /\ queue.due \in [Kinds -> Int] /\ Actions \subseteq Kinds
      /\ "PollRecipes" \in Kinds /\ "PollRecipes" \notin Actions
  BY <1>1, Lists DEF InOrder, Ordered, Kinds, Polls, Actions
<1>3. /\ \A i \in 1..w : DueAt(i) <= 0 /\ 0 - DueAt(i) <= waiting[i].age
      /\ \A i, j \in 1..w : i < j => DueAt(i) <= DueAt(j)
  BY <1>1 DEF DueInOrder
<1>4. CallLeft' \in Int /\ CallLeft' <= CallTimeout
  <2>1. kind \in Kinds
    BY <1>1, <1>2
  <2>2. CASE call' = call
    BY <2>2, Constants DEF CallLeft
  <2>3. CASE call' # call
    <3>1. PICK r \in Recipes \cup {None} : Calls(kind, r)
      <4>1. staged \in Recipes \cup {None}
        BY DEF ApiTypeOK
      <4> QED BY <2>3, <4>1 DEF PopsAction
    <3>2. call' # None /\ call'.left = CallTimeout
      BY <2>1, <3>1, CallType
    <3> QED BY <3>2, Constants DEF CallLeft
  <2> QED BY <2>2, <2>3
<1> HIDE DEF w
<1>5. \A i \in 1..(w - 1) : i + 1 \in 1..w /\ i + 1 # 1 /\ i \in Nat
  BY <1>1
<1>6. ASSUME NEW i \in 1..(w - 1)
      PROVE  DueAt(i)' = DueAt(i + 1) /\ waiting'[i] = waiting[i + 1]
  <2>1. queue.actions[i + 1] # kind
    <3>1. waiting[i + 1].kind # waiting[1].kind /\ 1 \in 1..w
      BY <1>1, <1>2, <1>5
    <3> QED BY <1>1, <1>2, <1>5, <3>1
  <2>2. queue'.due[queue.actions[i + 1]] = queue.due[queue.actions[i + 1]]
    BY <1>1, <1>2, <1>5, <2>1
  <2> QED BY <1>1, <2>2 DEF DueAt
<1>7. DueInOrder'
  <2>1. \A i \in 1..(w - 1) : DueAt(i)' <= 0 /\ 0 - DueAt(i)' <= waiting'[i].age
    <3> TAKE i \in 1..(w - 1)
    <3>1. DueAt(i)' = DueAt(i + 1) /\ waiting'[i] = waiting[i + 1]
      BY <1>6
    <3> QED BY <1>3, <1>5, <3>1
  <2>2. ASSUME NEW i \in 1..(w - 1), NEW j \in 1..(w - 1), i < j
        PROVE  DueAt(i)' <= DueAt(j)'
    <3>1. DueAt(i + 1) <= DueAt(j + 1)
      <4>1. i + 1 < j + 1
        BY <1>5, <2>2
      <4> QED BY <1>3, <1>5, <4>1
    <3> QED BY <1>6, <3>1
  <2> QED BY <1>1, <2>1, <2>2 DEF DueInOrder
<1>8. InTime'
  <2> SUFFICES ASSUME NEW i \in 1..(w - 1)
               PROVE  /\ waiting'[i].age + CallLeft' + Wait(i - 1)
                           + (IF Precedes(i)' THEN CallTimeout ELSE 0)
                           <= Wait(2 + waiting'[i].ahead)
                      /\ waiting'[i].ahead <= 2
    BY <1>1 DEF InTime
  <2>1. waiting'[i] = waiting[i + 1] /\ i + 1 \in 1..w /\ i \in Nat /\ i - 1 \in Nat
    BY <1>5, <1>6
  <2>2. Precedes(i)' => Precedes(i + 1)
    <3>1. i <= w - 1 /\ i + 1 <= w
      BY <1>1, <2>1
    <3>2. queue'.polls = queue.polls /\ queue'.due["PollRecipes"] = queue.due["PollRecipes"]
      <4>1. kind # "PollRecipes"
        <5>1. 1 \in 1..w
          BY <1>1
        <5> QED BY <1>1, <1>2, <5>1
      <4> QED BY <1>1, <1>2, <4>1
    <3> QED BY <1>1, <1>6, <3>1, <3>2 DEF Precedes
  <2> DEFINE p == IF Precedes(i + 1) THEN CallTimeout ELSE 0
             q == IF Precedes(i)' THEN CallTimeout ELSE 0
             a == waiting[i + 1].age
             b == waiting[i + 1].ahead
  <2>3. a + 0 + Wait((i + 1) - 1) + p <= Wait(2 + b) /\ b <= 2
    <3>1. CallLeft = 0 /\ i + 1 \in 1..Len(waiting)
      BY <2>1 DEF CallLeft, w
    <3> QED BY <3>1 DEF InTime
  <2>4. p \in Nat /\ q \in Nat /\ q <= p /\ CallTimeout \in Nat
    <3>1. CallTimeout \in Nat
      BY Constants
    <3> HIDE DEF Precedes
    <3> QED BY <2>2, <3>1
  <2>5. a \in Int /\ b \in Nat
    <3>1. i + 1 \in 1..Len(waiting)
      BY <2>1 DEF w
    <3> QED BY <3>1, PressTypes, Constants
  <2>6. Wait(i) = Wait(i - 1) + CallTimeout /\ Wait(i - 1) \in Nat
    <3>1. Wait((i - 1) + 1) = Wait(i - 1) + CallTimeout /\ Wait(i - 1) \in Nat
      BY <2>1, Waits2
    <3>2. (i - 1) + 1 = i
      BY <2>1
    <3> QED BY <3>1, <3>2
  <2>7. (i + 1) - 1 = i
    BY <2>1
  <2>8. Wait(2 + b) \in Nat
    <3>1. 2 + b \in Nat
      BY <2>5
    <3> QED BY <3>1, Waits2
  <2> SUFFICES a + CallLeft' + Wait(i - 1) + q <= Wait(2 + b) /\ b <= 2
    BY <2>1
  <2> HIDE DEF p, q, a, b
  <2>9. a + 0 + Wait(i) + p <= Wait(2 + b)
    BY <2>3, <2>7
  <2> QED BY <1>4, <2>3, <2>4, <2>5, <2>6, <2>8, <2>9
<1> QED BY <1>7, <1>8

\* Whoever waits finds something due: the task does not rest.
LEMMA SomethingIsDue ==
    ASSUME ApiTypeOK, InOrder, DueInOrder, commands = <<>>, Len(waiting) # 0
    PROVE  Due(queue) # {}
<1> DEFINE h == Head(queue.actions)
           d == queue.due
           earlier(k, o) == IF o \in queue.polls /\ d[o] <= d[k] THEN o ELSE k
           x == earlier(h, "PollStatus")
           y == earlier(x, "PollCurrentCook")
           z == earlier(y, "PollRecipes")
<1>1. /\ queue.actions \in Seq(Actions) /\ Len(queue.actions) > 0
      /\ Len(queue.actions) \in Nat /\ queue.actions # <<>>
  BY QueuedIsWaiting, LenProperties, EmptySeq
<1>2. h = queue.actions[1] /\ h \in Actions /\ h \in Queued(queue) /\ d[h] <= 0
  <2>1. h = queue.actions[1] /\ 1 \in 1..Len(queue.actions) /\ h \in Actions
    BY <1>1, HeadTailProperties
  <2>2. h \in Queued(queue)
    BY <2>1, Lists DEF Queued, Range
  <2>3. d[h] <= 0
    BY <2>1 DEF DueInOrder, DueAt
  <2> QED BY <2>1, <2>2, <2>3
<1>3. \A a \in Range(queue.actions) : d[h] <= d[a]
  <2> SUFFICES ASSUME NEW i \in 1..Len(queue.actions)
               PROVE  d[h] <= d[queue.actions[i]]
    BY Lists DEF Range
  <2>1. CASE i = 1
    <3>1. d[h] \in Int
      BY <1>2, Lists DEF Kinds
    <3> QED BY <1>2, <2>1, <3>1
  <2>2. CASE i # 1
    <3>1. 1 \in 1..Len(queue.actions) /\ 1 < i
      BY <1>1, <2>2
    <3> QED BY <1>2, <3>1 DEF DueInOrder, DueAt
  <2> QED BY <2>1, <2>2
<1>4. d \in [Kinds -> Int] /\ queue.polls \subseteq Polls /\ Actions \subseteq Kinds
      /\ Polls \subseteq Kinds /\ Polls \cap Actions = {}
      /\ Polls = {"PollStatus", "PollCurrentCook", "PollRecipes"}
  BY DEF ApiTypeOK, Queue, Kinds, Polls, Actions
<1>5. queue.polls \subseteq Queued(queue)
      /\ \A o \in Queued(queue) : o \in queue.polls \/ o \in Range(queue.actions)
  BY DEF Queued
<1> HIDE DEF h, d
<1>6. /\ x = h \/ x \in queue.polls
      /\ x \in Kinds /\ d[x] <= d[h]
      /\ "PollStatus" \in queue.polls => d[x] <= d["PollStatus"]
  BY <1>2, <1>4
<1> HIDE DEF x
<1>7. /\ y = h \/ y \in queue.polls
      /\ y \in Kinds /\ d[y] <= d[x]
      /\ "PollCurrentCook" \in queue.polls => d[y] <= d["PollCurrentCook"]
  BY <1>4, <1>6
<1> HIDE DEF y
<1>8. /\ z = h \/ z \in queue.polls
      /\ z \in Kinds /\ d[z] <= d[y]
      /\ "PollRecipes" \in queue.polls => d[z] <= d["PollRecipes"]
  BY <1>4, <1>7
<1> HIDE DEF z
<1>9. /\ d[h] \in Int /\ d[x] \in Int /\ d[y] \in Int /\ d[z] \in Int
      /\ \A o \in Kinds : d[o] \in Int
  BY <1>2, <1>4, <1>6, <1>7, <1>8
<1>10. d[z] <= d[h] /\ d[z] <= 0 /\ \A o \in queue.polls : d[z] <= d[o]
  <2>1. d[z] <= d[x] /\ d[z] <= d[h] /\ d[z] <= 0
    BY <1>2, <1>6, <1>7, <1>8, <1>9
  <2>2. ASSUME NEW o \in queue.polls
        PROVE  d[z] <= d[o]
    <3>1. d[o] \in Int /\ o \in Polls
      BY <1>4, <1>9
    <3>2. CASE o = "PollStatus"
      BY <1>6, <1>9, <2>1, <3>1, <3>2
    <3>3. CASE o = "PollCurrentCook"
      BY <1>7, <1>8, <1>9, <3>1, <3>3
    <3>4. CASE o = "PollRecipes"
      BY <1>8, <3>4
    <3> QED BY <1>4, <3>1, <3>2, <3>3, <3>4
  <2> QED BY <2>1, <2>2
<1>11. \A o \in Queued(queue) : d[z] <= d[o]
  <2> TAKE o \in Queued(queue)
  <2>1. CASE o \in queue.polls
    BY <1>10, <2>1
  <2>2. CASE o \in Range(queue.actions)
    <3>1. o \in Kinds
      <4>1. o \in Actions
        BY <2>2, Lists DEF Range
      <4> QED BY <1>4, <4>1
    <3> QED BY <1>3, <1>9, <1>10, <2>2, <3>1
  <2> QED BY <1>5, <2>1, <2>2
<1>12. z \in Queued(queue) /\ (z \in Actions => z = h)
  BY <1>2, <1>4, <1>5, <1>8
<1>13. z \in Due(queue)
  BY <1>10, <1>11, <1>12 DEF Due, h, d
<1> QED BY <1>13

\* The lists after time has passed.
LEMMA TickLists ==
    ASSUME ApiTypeOK, ApiTick
    PROVE  /\ queue'.actions = queue.actions /\ queue'.polls = queue.polls
           /\ \A k \in Queued(queue) : queue'.due[k] = Later(queue.due[k] - 1, 0 - MaxLate)
           /\ Len(waiting') = Len(waiting)
           /\ \A i \in 1..Len(waiting) :
                /\ waiting'[i].kind = waiting[i].kind /\ waiting'[i].recipe = waiting[i].recipe
                /\ waiting'[i].ahead = waiting[i].ahead
                /\ waiting'[i].age = Earlier(waiting[i].age + 1, MaxLate)
           /\ UNCHANGED <<commands, staged>>
<1>1. /\ queue \in Queue /\ \A k \in Queued(queue) : k \in Kinds
  <2>1. \A a \in Range(queue.actions) : a \in Actions
    BY Lists DEF Range
  <2> QED BY <2>1 DEF ApiTypeOK, Queue, Queued, Kinds
<1>2. /\ queue'.actions = queue.actions /\ queue'.polls = queue.polls
      /\ \A k \in Queued(queue) : queue'.due[k] = Later(queue.due[k] - 1, 0 - MaxLate)
  <2> DEFINE d == [kind \in Kinds |->
                     IF kind \in Queued(queue) THEN Later(queue.due[kind] - 1, 0 - MaxLate) ELSE 0]
  <2>1. queue' = [queue EXCEPT !.due = d]
    BY DEF ApiTick, Aged
  <2>2. \A k \in Queued(queue) : d[k] = Later(queue.due[k] - 1, 0 - MaxLate)
    BY <1>1
  <2> HIDE DEF d
  <2> QED BY <1>1, <2>1, <2>2 DEF Queue
<1>3. /\ DOMAIN waiting = 1..Len(waiting) /\ Len(waiting) \in Nat
      /\ \A i \in 1..Len(waiting) : waiting[i] \in Press
  BY Lists
<1>4. waiting' = [i \in 1..Len(waiting) |->
                    [waiting[i] EXCEPT !.age = Earlier(waiting[i].age + 1, MaxLate)]]
  BY <1>3 DEF ApiTick
<1>5. Len(waiting') = Len(waiting)
  <2>1. ASSUME NEW i \in 1..Len(waiting)
        PROVE  [waiting[i] EXCEPT !.age = Earlier(waiting[i].age + 1, MaxLate)] \in Press
    <3>1. waiting[i] \in Press
      BY <1>3
    <3> DEFINE age == Earlier(waiting[i].age + 1, MaxLate)
    <3>2. age \in 0..MaxLate
      BY <3>1, Constants DEF Press, Earlier
    <3> SUFFICES [waiting[i] EXCEPT !.age = age] \in Press
      OBVIOUS
    <3> HIDE DEF age
    <3> QED BY <3>1, <3>2 DEF Press
  <2>2. waiting' \in Seq(Press) /\ DOMAIN waiting' = 1..Len(waiting)
    BY <1>3, <1>4, <2>1, IsASeq
  <2> QED BY <1>3, <2>2, LenProperties
<1>6. ASSUME NEW i \in 1..Len(waiting)
      PROVE  /\ waiting'[i].kind = waiting[i].kind /\ waiting'[i].recipe = waiting[i].recipe
             /\ waiting'[i].ahead = waiting[i].ahead
             /\ waiting'[i].age = Earlier(waiting[i].age + 1, MaxLate)
  <2> DEFINE age == Earlier(waiting[i].age + 1, MaxLate)
  <2>1. waiting'[i] = [waiting[i] EXCEPT !.age = age] /\ waiting[i] \in Press
    BY <1>3, <1>4
  <2> HIDE DEF age
  <2>2. /\ waiting'[i].kind = waiting[i].kind /\ waiting'[i].recipe = waiting[i].recipe
        /\ waiting'[i].ahead = waiting[i].ahead /\ waiting'[i].age = age
    BY <2>1 DEF Press
  <2> QED BY <2>2 DEF age
<1> QED BY <1>2, <1>5, <1>6 DEF ApiTick

LEMMA TickTime ==
    ASSUME ApiTypeOK, InOrder, DueInOrder, InTime, ApiAtRest, ApiTick
    PROVE  DueInOrder' /\ InTime'
<1> DEFINE w == Len(waiting)
           n == Len(queue.actions)
<1>1. /\ queue'.actions = queue.actions /\ queue'.polls = queue.polls
      /\ \A k \in Queued(queue) : queue'.due[k] = Later(queue.due[k] - 1, 0 - MaxLate)
      /\ Len(waiting') = w
      /\ \A i \in 1..w : /\ waiting'[i].ahead = waiting[i].ahead
                         /\ waiting'[i].age = Earlier(waiting[i].age + 1, MaxLate)
  BY TickLists
<1>2. n \in Nat /\ w \in Nat /\ n <= w
  BY Lists DEF InOrder, Ordered
<1>3. \A i \in 1..n : queue.actions[i] \in Queued(queue) /\ queue.actions[i] \in Kinds
  BY Lists DEF Queued, Range, Kinds
<1>4. queue.due \in [Kinds -> Int] /\ "PollRecipes" \in Kinds
  BY Lists DEF Kinds, Polls
<1>5. \A i \in 1..n : /\ DueAt(i) \in Int /\ DueAt(i) <= 0 /\ 0 - DueAt(i) <= waiting[i].age
                      /\ DueAt(i)' = Later(DueAt(i) - 1, 0 - MaxLate)
  BY <1>1, <1>3, <1>4 DEF DueInOrder, DueAt
<1>6. \A i, j \in 1..n : i < j => DueAt(i) <= DueAt(j)
  BY DEF DueInOrder
<1>7. \A i \in 1..w : waiting[i].age \in 0..MaxLate /\ waiting[i].ahead \in Nat
  BY PressTypes
<1>8. MaxLate \in Nat /\ CallTimeout \in Nat
  BY Constants
<1>9. CASE call = None
  <2>1. commands = <<>> /\ Due(queue) = {}
    <3>1. (task = "calling") = (call # None)
      BY DEF ApiTypeOK
    <3>2. task # "calling"
      BY <1>9, <3>1
    <3> QED BY <3>2 DEF ApiAtRest
  <2>2. w = 0
    BY <2>1, SomethingIsDue
  <2>3. n = 0
    BY <1>2, <2>2
  <2> QED BY <1>1, <2>2, <2>3 DEF DueInOrder, InTime
<1>10. CASE call # None
  <2>1. CallLeft' = CallLeft - 1 /\ CallLeft \in Nat /\ CallLeft >= 1
    <3>1. (task = "calling") = (call # None) /\ call \in Call \cup {None}
      BY DEF ApiTypeOK
    <3>2. task = "calling" /\ call \in Call
      BY <1>10, <3>1
    <3>3. call.left \in Nat /\ call.left > 0
      BY <1>8, <3>2 DEF ApiAtRest, Call
    <3>4. call' = [call EXCEPT !.left = call.left - 1]
      BY <1>10 DEF ApiTick
    <3>5. call'.left = call.left - 1 /\ call' \in Call
      <4>1. call.left - 1 \in 0..CallTimeout
        BY <1>8, <3>2, <3>3 DEF Call
      <4> QED BY <3>2, <3>4, <4>1 DEF Call
    <3>6. call' # None
      BY <3>5, Constants
    <3> QED BY <1>10, <3>3, <3>5, <3>6 DEF CallLeft
  <2>2. ASSUME NEW i \in 1..w
        PROVE  /\ waiting[i].age + 1 < MaxLate
               /\ waiting'[i].age = waiting[i].age + 1
               /\ waiting[i].age + CallLeft + Wait(i - 1) + (IF Precedes(i) THEN CallTimeout ELSE 0)
                    <= Wait(2 + waiting[i].ahead)
               /\ waiting[i].ahead \in 0..2
    <3> DEFINE p == IF Precedes(i) THEN CallTimeout ELSE 0
               b == waiting[i].ahead
    <3>1. p \in Nat
      BY <1>8
    <3>2. waiting[i].age + CallLeft + Wait(i - 1) + p <= Wait(2 + b) /\ b <= 2
      BY DEF InTime
    <3>3. b \in 0..2
      BY <1>7, <3>2
    <3>4. Wait(2 + b) < MaxLate
      BY <3>3, Waits2
    <3>5. Wait(i - 1) \in Nat
      <4>1. i - 1 \in Nat
        BY <1>2
      <4> QED BY <4>1, Waits2
    <3>6. Wait(2 + b) \in Nat
      <4>1. 2 + b \in Nat
        BY <3>3
      <4> QED BY <4>1, Waits2
    <3> HIDE DEF p, b
    <3>7. waiting[i].age + 1 < MaxLate
      BY <1>7, <1>8, <2>1, <3>1, <3>2, <3>4, <3>5, <3>6
    <3>8. waiting'[i].age = waiting[i].age + 1
      BY <1>1, <1>7, <1>8, <3>7 DEF Earlier
    <3> QED BY <3>2, <3>3, <3>7, <3>8 DEF p, b
  <2>3. \A i \in 1..n : i \in 1..w /\ DueAt(i)' = DueAt(i) - 1
    <3> TAKE i \in 1..n
    <3>1. i \in 1..w
      BY <1>2
    <3>2. DueAt(i) - 1 >= 0 - MaxLate
      <4>1. DueAt(i) \in Int /\ 0 - DueAt(i) <= waiting[i].age
        BY <1>5
      <4>2. waiting[i].age \in Int /\ waiting[i].age + 1 < MaxLate
        BY <1>7, <2>2, <3>1
      <4> QED BY <1>8, <4>1, <4>2
    <3> QED BY <1>5, <1>8, <3>1, <3>2 DEF Later
  <2>4. DueInOrder'
    <3>1. \A i \in 1..n : DueAt(i)' <= 0 /\ 0 - DueAt(i)' <= waiting'[i].age
      <4> TAKE i \in 1..n
      <4>1. DueAt(i)' = DueAt(i) - 1 /\ waiting'[i].age = waiting[i].age + 1 /\ waiting[i].age \in Int
        BY <1>7, <2>2, <2>3
      <4> QED BY <1>5, <4>1
    <3>2. \A i, j \in 1..n : i < j => DueAt(i)' <= DueAt(j)'
      BY <1>5, <1>6, <2>3
    <3> QED BY <1>1, <3>1, <3>2 DEF DueInOrder
  <2>5. ASSUME NEW i \in 1..w, Precedes(i)'
        PROVE  Precedes(i)
    <3> SUFFICES ASSUME i <= n
                 PROVE  "PollRecipes" \in queue.polls /\ queue.due["PollRecipes"] <= DueAt(i)
      BY DEF Precedes
    <3>1. i \in 1..n
      BY <1>2
    <3>2. "PollRecipes" \in queue'.polls /\ queue'.due["PollRecipes"] <= DueAt(i)'
      BY <1>1, <2>5 DEF Precedes
    <3>3. "PollRecipes" \in Queued(queue) /\ "PollRecipes" \in queue.polls
      BY <1>1, <3>2 DEF Queued
    <3>4. queue'.due["PollRecipes"] = Later(queue.due["PollRecipes"] - 1, 0 - MaxLate)
      BY <1>1, <3>3
    <3>5. queue.due["PollRecipes"] \in Int
      BY <1>4
    <3>6. DueAt(i)' = DueAt(i) - 1 /\ DueAt(i) \in Int
      BY <1>5, <2>3, <3>1
    <3> QED BY <1>8, <3>2, <3>3, <3>4, <3>5, <3>6 DEF Later
  <2>6. InTime'
    <3> SUFFICES ASSUME NEW i \in 1..w
                 PROVE  /\ waiting'[i].age + CallLeft' + Wait(i - 1)
                             + (IF Precedes(i)' THEN CallTimeout ELSE 0)
                             <= Wait(2 + waiting'[i].ahead)
                        /\ waiting'[i].ahead <= 2
      BY <1>1 DEF InTime
    <3> DEFINE p == IF Precedes(i) THEN CallTimeout ELSE 0
               q == IF Precedes(i)' THEN CallTimeout ELSE 0
    <3>1. p \in Nat /\ q \in Nat /\ q <= p
      <4>1. Precedes(i)' => Precedes(i)
        BY <2>5
      <4> HIDE DEF Precedes
      <4> QED BY <1>8, <4>1
    <3>2. /\ waiting'[i].age = waiting[i].age + 1 /\ waiting'[i].ahead = waiting[i].ahead
          /\ waiting[i].age + CallLeft + Wait(i - 1) + p <= Wait(2 + waiting[i].ahead)
          /\ waiting[i].ahead \in 0..2 /\ waiting[i].age \in Int
      BY <1>1, <1>7, <2>2
    <3>3. Wait(i - 1) \in Nat
      <4>1. i - 1 \in Nat
        BY <1>2
      <4> QED BY <4>1, Waits2
    <3>4. Wait(2 + waiting[i].ahead) \in Nat
      <4>1. 2 + waiting[i].ahead \in Nat
        BY <3>2
      <4> QED BY <4>1, Waits2
    <3> SUFFICES waiting'[i].age + CallLeft' + Wait(i - 1) + q <= Wait(2 + waiting'[i].ahead)
                 /\ waiting'[i].ahead <= 2
      OBVIOUS
    <3> HIDE DEF p, q
    <3> DEFINE a == waiting[i].age
               c == CallLeft
               d == Wait(i - 1)
               e == Wait(2 + waiting[i].ahead)
    <3>5. a \in Int /\ c \in Int /\ d \in Int /\ e \in Int
      BY <2>1, <3>2, <3>3, <3>4
    <3>6. waiting'[i].age = a + 1 /\ CallLeft' = c - 1
      BY <2>1, <3>2
    <3>7. Wait(2 + waiting'[i].ahead) = e /\ waiting'[i].ahead <= 2
      BY <3>2
    <3>8. a + c + d + p <= e
      BY <3>2
    <3> SUFFICES a + 1 + (c - 1) + d + q <= e
      BY <3>6, <3>7
    <3> HIDE DEF a, c, d, e
    <3> QED BY ONLY <3>1, <3>5, <3>8
  <2> QED BY <2>4, <2>6
<1> QED BY <1>9, <1>10

-----------------------------------------------------------------------------
(* The steps.                                                              *)

Presses == InOrder /\ RecipeKept /\ DueInOrder /\ InTime

LEMMA SamePressesStep ==
    ASSUME ApiTypeOK, Presses, UNCHANGED <<commands, queue, staged, waiting>>,
           CallLeft' \in Int, CallLeft' <= CallLeft
    PROVE  Presses'
<1>1. InOrder'
  BY SameOrder DEF Presses
<1>2. RecipeKept'
  BY SameRecipe DEF Presses
<1>3. DueInOrder'
  <2>1. SamePresses
    BY DEF SamePresses
  <2> QED BY <2>1, SameDue DEF Presses
<1>4. InTime'
  <2>1. \A i \in 1..Len(waiting) : Precedes(i)' => Precedes(i)
    BY DEF Precedes, DueAt
  <2> QED BY <2>1, NoLater DEF Presses
<1> QED BY <1>1, <1>2, <1>3, <1>4 DEF Presses

LEMMA SendPresses ==
    ASSUME ApiTypeOK, Presses, NEW kind \in Actions, NEW recipe,
           IF kind = "ApiStart" THEN recipe \in Recipes ELSE recipe = None,
           Send(kind, recipe)
    PROVE  Presses'
<1>1. UNCHANGED <<queue, staged, call>> /\ recipe \in Recipes \cup {None}
  BY DEF Send
<1>2. CASE Len(commands) < ChannelSize
  <2>1. SentAs(kind, recipe)
    BY <1>2 DEF Send, SentAs
  <2>2. InOrder'
    BY <1>1, <2>1, SentInOrder DEF Presses
  <2>3. RecipeKept'
    BY <1>1, <2>1, SentRecipe DEF Presses
  <2>4. DueInOrder' /\ InTime'
    BY <1>1, <2>1, SentTime DEF Presses
  <2> QED BY <2>2, <2>3, <2>4 DEF Presses
<1>3. CASE ~(Len(commands) < ChannelSize)
  <2>1. UNCHANGED <<commands, waiting>>
    BY <1>3 DEF Send
  <2>2. CallLeft' = CallLeft /\ CallLeft \in Int
    BY <1>1, CallLeftType, Constants DEF CallLeft
  <2> QED BY <1>1, <2>1, <2>2, SamePressesStep
<1> QED BY <1>2, <1>3

LEMMA ApiPresses ==
    ASSUME ApiTypeOK, AnswerOK, Presses, ApiStep
    PROVE  Presses'
<1>1. CASE TakesCommand
  BY <1>1, TakenInOrder, TakenRecipe, TakenTime DEF Presses
<1>2. CASE Wakes \/ Parks
  <2>1. CallLeft' = CallLeft /\ CallLeft \in Int
    BY <1>2, CallLeftType, Constants DEF CallLeft, Wakes, Parks
  <2> QED BY <1>2, <2>1, SamePressesStep DEF Wakes, Parks
<1>3. CASE Pops
  <2>1. commands = <<>> /\ commands' = commands /\ call = None
    <3>1. (task = "calling") = (call # None) /\ task = "draining"
      BY <1>3 DEF ApiTypeOK, Pops
    <3>2. call = None
      BY <3>1
    <3> QED BY <1>3, <3>2 DEF Pops
  <2>2. PICK kind \in Due(queue) : PopsPoll(kind) \/ PopsAction(kind)
    BY <1>3 DEF Pops
  <2>3. CASE PopsPoll(kind)
    <3>1. SamePresses
      BY <2>1, <2>3, PoppedPoll
    <3>2. InOrder' /\ RecipeKept'
      BY <3>1, SameOrder, SameRecipe DEF SamePresses, Presses
    <3>3. DueInOrder' /\ InTime'
      BY <2>1, <2>3, PolledTime DEF Presses
    <3> QED BY <3>2, <3>3 DEF Presses
  <2>4. CASE PopsAction(kind)
    BY <2>1, <2>4, PoppedInOrder, PoppedRecipe, PoppedTime DEF Presses
  <2> QED BY <2>2, <2>3, <2>4
<1>4. CASE CallEnds \/ CallFails
  <2>1. SamePresses
    BY <1>4, EndsPresses
  <2>2. InOrder' /\ RecipeKept'
    BY <2>1, SameOrder, SameRecipe DEF SamePresses, Presses
  <2> QED BY <1>4, <2>2, EndsTime DEF Presses
<1> QED BY <1>1, <1>2, <1>3, <1>4 DEF ApiStep

LEMMA TickPresses ==
    ASSUME ApiTypeOK, Presses, ApiAtRest, ApiTick
    PROVE  Presses'
<1>1. /\ queue'.actions = queue.actions /\ UNCHANGED <<commands, staged>>
      /\ Len(waiting') = Len(waiting)
      /\ \A i \in 1..Len(waiting) :
           waiting'[i].kind = waiting[i].kind /\ waiting'[i].recipe = waiting[i].recipe
  BY TickLists
<1>2. InOrder' /\ RecipeKept'
  BY <1>1, SameOrder, SameRecipe DEF Presses
<1>3. DueInOrder' /\ InTime'
  BY TickTime DEF Presses
<1> QED BY <1>2, <1>3 DEF Presses

LEMMA UserPresses ==
    ASSUME Typed, Presses, UserInput
    PROVE  Presses'
<1>1. ApiTypeOK /\ snap.recipes \in 0..MaxRecipes /\ MaxRecipes \in Nat
  BY Constants DEF Typed, TypeOK, ApiTypeOK, Snapshot
<1>2. \/ UNCHANGED apiVars
      \/ \E recipe \in 1..snap.recipes : Send("ApiStart", recipe)
      \/ Send("ApiStop", None)
      \/ Send("ApiNextStage", None)
  BY DEF UserInput, IdleInput, CookingInput, NextStageInput, BrowseInput, ConfirmInput, Stays, Goes
<1>3. CASE UNCHANGED apiVars
  <2>1. CallLeft' = CallLeft /\ CallLeft \in Int
    BY <1>1, <1>3, CallLeftType, Constants DEF CallLeft, apiVars
  <2> QED BY <1>1, <1>3, <2>1, SamePressesStep DEF apiVars
<1>4. CASE \E recipe \in 1..snap.recipes : Send("ApiStart", recipe)
  <2>1. PICK recipe \in 1..snap.recipes : Send("ApiStart", recipe)
    BY <1>4
  <2>2. recipe \in Recipes /\ "ApiStart" \in Actions
    BY <1>1 DEF Recipes, Actions
  <2> QED BY <1>1, <2>1, <2>2, SendPresses
<1>5. CASE Send("ApiStop", None) \/ Send("ApiNextStage", None)
  <2>1. "ApiStop" \in Actions /\ "ApiNextStage" \in Actions
    BY DEF Actions
  <2> QED BY <1>1, <1>5, <2>1, SendPresses
<1> QED BY <1>2, <1>3, <1>4, <1>5

LEMMA PressesInit ==
    ASSUME Init
    PROVE  Presses
<1>1. /\ queue = [polls |-> Polls, actions |-> <<>>, due |-> [kind \in Kinds |-> 0]]
      /\ commands = <<>> /\ waiting = <<>>
  BY DEF Init, ApiInit
<1>2. Len(queue.actions) = 0 /\ Len(commands) = 0 /\ Len(waiting) = 0
  BY <1>1, EmptySeq
<1>3. InOrder
  BY <1>2 DEF InOrder, Ordered
<1>4. RecipeKept
  BY <1>2 DEF RecipeKept, Kept
<1>5. DueInOrder /\ InTime
  BY <1>2 DEF DueInOrder, InTime
<1> QED BY <1>3, <1>4, <1>5 DEF Presses

LEMMA PressesStep ==
    ASSUME Typed, Presses, [Next]_vars
    PROVE  Presses'
<1>1. ApiTypeOK /\ AnswerOK
  BY DEF Typed, TypeOK
<1>2. CallLeft \in Int
  BY <1>1, CallLeftType, Constants
<1>3. CASE Looks \/ TimerFires \/ Outage \/ OvenActs \/ Surprise \/ UNCHANGED vars
  <2>1. UNCHANGED <<commands, queue, staged, waiting, call>>
    <3>1. CASE TimerFires
      <4>1. app.at \in {"Idle", "BrowseRecipes", "StartPending", "ConfirmStop", "StopPending"}
        BY <3>1, Constants DEF TimerFires, Typed, TypeOK, TimerOK, App, Screens
      <4> QED BY <3>1, <4>1 DEF TimerFires, Stays, Goes, apiVars
    <3> QED BY <1>3, <3>1 DEF Looks, Outage, OvenActs, Surprise, vars, apiVars
  <2>2. CallLeft' = CallLeft
    BY <2>1 DEF CallLeft
  <2> QED BY <1>1, <1>2, <2>1, <2>2, SamePressesStep
<1>4. CASE Network
  <2>1. UNCHANGED <<commands, queue, staged, waiting>>
    BY <1>4 DEF Network
  <2>2. call \in Call /\ call # None
    <3>1. (task = "calling") = (call # None) /\ call \in Call \cup {None} /\ task = "calling"
      BY <1>1, <1>4 DEF ApiTypeOK, Network
    <3>2. call # None
      BY <3>1
    <3> QED BY <3>1, <3>2
  <2>3. Typed'
    BY <1>4, NetworkTyped
  <2>4. call' # None /\ call'.left = call.left
    <3>1. (task' = "calling") = (call' # None) /\ task' = "calling"
      BY <1>4, <2>3 DEF Typed, TypeOK, ApiTypeOK, Network
    <3>2. call' # None
      BY <3>1
    <3>3. call'.left = call.left
      BY <1>4, <2>2 DEF Network, Arrives, Lost, Call
    <3> QED BY <3>2, <3>3
  <2>5. CallLeft' = CallLeft
    BY <2>2, <2>4 DEF CallLeft
  <2> QED BY <1>1, <1>2, <2>1, <2>5, SamePressesStep
<1>5. CASE UserInput
  BY <1>5, UserPresses
<1>6. CASE Api
  BY <1>1, <1>6, ApiPresses DEF Api
<1>7. CASE Tick
  BY <1>1, <1>7, TickPresses DEF Tick
<1> QED BY <1>3, <1>4, <1>5, <1>6, <1>7 DEF Next

-----------------------------------------------------------------------------
(* The theorems.                                                           *)

(***************************************************************************)
(* The inductive invariant: the channel and the queue hold what waits, in  *)
(* the order of the presses, each start with the recipe pressed last, and  *)
(* each press within the time that the calls before it may still take.     *)
(***************************************************************************)
THEOREM Invariant == Spec => []IInv
<1>1. Init => IInv
  BY TypedInit, PressesInit DEF IInv, Presses
<1>2. IInv /\ [Next]_vars => IInv'
  BY TypedStep, PressesStep DEF IInv, Presses
<1> QED BY <1>1, <1>2, PTL DEF Spec

(***************************************************************************)
(* The panel's state is well-typed: the channel never holds more than its  *)
(* capacity, and the task is in a call exactly while it awaits one.        *)
(***************************************************************************)
THEOREM TypeCorrect == Spec => []TypeOK
<1>1. IInv => TypeOK
  BY DEF IInv, Typed
<1> QED BY <1>1, Invariant, PTL

(***************************************************************************)
(* A press waits for no more than the call in progress, one poll of the    *)
(* recipes and the calls for the presses before it: scheduler.rs pops what *)
(* is due first, and api_client.rs puts off the polls of the oven.         *)
(***************************************************************************)
THEOREM GoOutInTime == Spec => []PressesGoOutInTime
<1>1. IInv => PressesGoOutInTime
  <2> SUFFICES ASSUME IInv, NEW i \in DOMAIN waiting
               PROVE  waiting[i].age <= CallTimeout * (2 + waiting[i].ahead)
    BY DEF PressesGoOutInTime
  <2>1. ApiTypeOK
    BY DEF IInv, Typed, TypeOK
  <2>2. i \in 1..Len(waiting) /\ i - 1 \in Nat
    BY <2>1, LenProperties DEF ApiTypeOK
  <2>3. waiting[i].age \in Nat /\ waiting[i].ahead \in Nat
    BY <2>1, <2>2, PressTypes, Constants
  <2>4. CallLeft \in Nat /\ CallTimeout \in Nat
    BY <2>1, CallLeftType, Constants
  <2>5. Wait(i - 1) \in Nat /\ Wait(2 + waiting[i].ahead) \in Nat
    <3>1. 2 + waiting[i].ahead \in Nat
      BY <2>3
    <3>2. \A n \in Nat : Wait(n) \in Nat
      BY Waits2
    <3> QED BY <2>2, <3>1, <3>2
  <2>6. waiting[i].age + CallLeft + Wait(i - 1) + (IF Precedes(i) THEN CallTimeout ELSE 0)
          <= Wait(2 + waiting[i].ahead)
    BY <2>2 DEF IInv, InTime
  <2>7. waiting[i].age <= Wait(2 + waiting[i].ahead)
    BY ONLY <2>3, <2>4, <2>5, <2>6
  <2> QED BY <2>7 DEF Wait
<1> QED BY <1>1, Invariant, PTL

\* The call that a step starts is for the press at the front.
LEMMA StartsFront ==
    ASSUME IInv, Next, Starts
    PROVE  /\ Len(waiting) > 0 /\ DOMAIN waiting = 1..Len(waiting)
           /\ waiting[1].kind = call'.kind /\ waiting[1].recipe = call'.recipe
<1>1. ApiTypeOK /\ InOrder /\ RecipeKept
  BY DEF IInv, Typed, TypeOK
<1>2. call = None /\ call' # None /\ call'.kind \in Actions
  BY DEF Starts
<1>3. task # "calling"
  <2>1. (task = "calling") = (call # None)
    BY <1>1 DEF ApiTypeOK
  <2> QED BY <1>2, <2>1
<1>4. Pops
  <2>1. ~(Looks \/ Outage \/ OvenActs \/ Surprise)
    BY <1>2 DEF Looks, Outage, OvenActs, Surprise, apiVars
  <2>2. ~UserInput
    BY <1>2 DEF UserInput, IdleInput, CookingInput, NextStageInput, BrowseInput, ConfirmInput,
                Send, Stays, Goes, apiVars
  <2>3. ~TimerFires
    <3>1. TimerFires => app.at \in {"Idle", "BrowseRecipes", "StartPending", "ConfirmStop", "StopPending"}
      BY Constants DEF TimerFires, IInv, Typed, TypeOK, TimerOK, App, Screens
    <3> QED BY <1>2, <3>1 DEF TimerFires, Stays, Goes, apiVars
  <2>4. ~Network
    BY <1>3 DEF Network
  <2>5. ~Tick
    BY <1>2 DEF Tick, ApiTick
  <2>6. ~(TakesCommand \/ Wakes \/ Parks)
    BY <1>2 DEF TakesCommand, Wakes, Parks
  <2>7. ~(CallEnds \/ CallFails)
    BY <1>3 DEF CallEnds, CallFails
  <2> QED BY <2>1, <2>2, <2>3, <2>4, <2>5, <2>6, <2>7 DEF Next, Api, ApiStep
<1>5. commands = <<>> /\ commands' = commands
  BY <1>4 DEF Pops
<1>6. PICK kind \in Due(queue) : PopsPoll(kind) \/ PopsAction(kind)
  BY <1>4 DEF Pops
<1>7. ~PopsPoll(kind)
  <2>1. ASSUME PopsPoll(kind), UNCHANGED call PROVE FALSE
    BY <1>2, <2>1
  <2>2. ASSUME PopsPoll(kind), Calls(kind, None) PROVE FALSE
    <3>1. call'.kind = kind /\ kind \in Polls
      BY <2>2 DEF Calls, PopsPoll
    <3> QED BY <1>2, <3>1 DEF Polls, Actions
  <2> QED BY <2>1, <2>2 DEF PopsPoll
<1>8. PopsAction(kind)
  BY <1>6, <1>7
<1>9. Len(waiting) > 0 /\ waiting[1].kind = kind
  BY <1>1, <1>5, <1>8, PoppedLists
<1>10. DOMAIN waiting = 1..Len(waiting)
  BY <1>1, LenProperties DEF ApiTypeOK
<1>11. call'.kind = kind /\ waiting[1].recipe = call'.recipe
  <2>1. /\ kind = "ApiStart" => staged = waiting[1].recipe
        /\ kind # "ApiStart" => waiting[1].recipe = None
    BY <1>1, <1>5, <1>8, PoppedRecipe
  <2>2. CASE kind = "ApiStart"
    <3>1. Calls(kind, staged)
      BY <1>2, <1>8, <2>2 DEF PopsAction
    <3> QED BY <2>1, <2>2, <3>1 DEF Calls
  <2>3. CASE kind # "ApiStart"
    <3>1. Calls(kind, None)
      BY <1>8, <2>3 DEF PopsAction
    <3> QED BY <2>1, <2>3, <3>1 DEF Calls
  <2> QED BY <2>2, <2>3
<1> QED BY <1>9, <1>10, <1>11

(***************************************************************************)
(* A call that does something is made once per press, for the recipe that  *)
(* was pressed last, and a stop never overtakes a start that was pressed   *)
(* before it nor the other way round, however the presses wait in the      *)
(* channel and merge in the queue that is ordered by time.                 *)
(***************************************************************************)
THEOREM AnswersPresses == Spec => CallsAnswerPresses
<1> DEFINE Answers ==
      Starts =>
         /\ Waits(call'.kind)
         /\ waiting[Place(call'.kind)].recipe = call'.recipe
         /\ call'.kind # "ApiNextStage" =>
              \A i \in 1..(Place(call'.kind) - 1) : waiting[i].kind = "ApiNextStage"
<1>1. IInv /\ [Next]_vars => [Answers]_vars
  <2> SUFFICES ASSUME IInv, Next, Starts
               PROVE  /\ Waits(call'.kind)
                      /\ waiting[Place(call'.kind)].recipe = call'.recipe
                      /\ call'.kind # "ApiNextStage" =>
                           \A i \in 1..(Place(call'.kind) - 1) : waiting[i].kind = "ApiNextStage"
    OBVIOUS
  <2>1. /\ Len(waiting) > 0 /\ DOMAIN waiting = 1..Len(waiting)
        /\ waiting[1].kind = call'.kind /\ waiting[1].recipe = call'.recipe
    BY StartsFront
  <2>2. Len(waiting) \in Nat
    BY LenProperties DEF IInv, Typed, TypeOK, ApiTypeOK
  <2>3. 1 \in DOMAIN waiting
    BY <2>1, <2>2
  <2>4. \A i, j \in 1..Len(waiting) : waiting[i].kind = waiting[j].kind => i = j
    BY DEF IInv, InOrder, Ordered
  <2>5. Place(call'.kind) = 1
    BY <2>1, <2>3, <2>4 DEF Place
  <2> QED BY <2>1, <2>3, <2>5 DEF Waits
<1> QED BY <1>1, Invariant, PTL DEF Spec, CallsAnswerPresses
=============================================================================
