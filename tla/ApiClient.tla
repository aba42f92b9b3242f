------------------------------ MODULE ApiClient ------------------------------
(***************************************************************************)
(* The panel's API task: pico/src/api_client.rs with pico-core's           *)
(* scheduler.rs.  One task owns a queue of events, at most one per kind,   *)
(* and makes one HTTP call at a time: polls of the server and the actions  *)
(* the user asked for.                                                     *)
(*                                                                         *)
(* The executor is cooperative: from one await to the next the task runs   *)
(* alone.  So no other task moves between the end of a call and the start  *)
(* of the next ("draining").  Times are in ticks and relative to now.  A   *)
(* tick stands for many of the clock's instants, so polls due in one tick  *)
(* are popped in any order; but the clock moves on between two commands,   *)
(* so actions are popped in theirs.  (Priorities break exact ties only.)   *)
(***************************************************************************)
EXTENDS Integers, Sequences, SequencesExt

CONSTANTS
    MaxRecipes,     \* bound: the longest recipe list
    None,           \* Option::None
    ChannelSize,    \* capacity of CommandChannel
    CallTimeout,    \* API_CALL_TIMEOUT_SECS
    Refresh,        \* POST_ACTION_COOK_REFRESH_DELAY_SECS
    StartRefresh,   \* POST_START_CURRENT_COOK_REFRESH_DELAY_SECS
    StatusEvery,    \* NORMAL_POLL_INTERVAL_SECS
    CookEvery,      \* COOK_POLL_INTERVAL_SECS
    RecipesEvery,   \* RECIPE_POLL_INTERVAL_SECS
    BackoffFails,   \* POLL_BACKOFF_TIER1_FAILS (the further tiers only add to it)
    BackoffEvery,   \* POLL_BACKOFF_TIER1_SECS
    MaxFails,       \* bound: where fail_count saturates
    MaxLate,        \* bound: how far back the past is told apart
    Grace           \* UPSTREAM_STALE_GRACE_SECS

ASSUME ApiClientAssumption ==
    /\ MaxRecipes \in Nat /\ None \notin Int
    /\ {ChannelSize, CallTimeout, Refresh, StartRefresh, StatusEvery, CookEvery,
        RecipesEvery, BackoffFails, BackoffEvery, MaxFails, MaxLate, Grace} \subseteq Nat \ {0}
    /\ MaxLate > 4 * CallTimeout    \* more than a press should wait

\* A recipe is its place in the list.
Recipes == 1..MaxRecipes

Polls == {"PollStatus", "PollCurrentCook", "PollRecipes"}
Actions == {"ApiStart", "ApiStop", "ApiNextStage"}
Kinds == Polls \cup Actions

\* What the panel reads of an OvenStatus.  `ready`: the cook waits for the
\* user.  `stale`: the server's own view is older than the grace period.
Status == [mode: {"idle", "cooking"}, ready: BOOLEAN, stale: BOOLEAN]

VARIABLES
    commands,   \* CommandChannel
    queue,      \* EventQueue, with the ticks until each event in it is due
    staged,     \* pending_start_recipe_id
    snap,       \* ApiSnapshot, as published
    unseen,     \* StateWatch: the state task has not seen the last publication
    task,       \* what the task is doing
    call,       \* the HTTP call it awaits
    waiting     \* history: the presses no call was made for yet, oldest first

apiVars == <<commands, queue, staged, snap, unseen, task, call, waiting>>

Command == [kind: Actions, recipe: Recipes \cup {None}]
Queue == [polls: SUBSET Polls, actions: Seq(Actions), due: [Kinds -> Int]]
Snapshot == [status: Status \cup {None}, cook: BOOLEAN, recipes: 0..MaxRecipes,
             fails: 0..MaxFails, success: BOOLEAN, missing: (0..Grace) \cup {None}]
\* An answer to a poll; "absent" is 503 for a status and 204 for a cook.
Answer == [is: {"ok", "absent", "failed"}, status: Status \cup {None},
           recipes: 0..MaxRecipes]
\* `at`: the request or its answer is on its way, or will not arrive.
Call == [kind: Kinds, recipe: Recipes \cup {None}, left: 0..CallTimeout,
         at: {"out", "back", "lost"}, answer: Answer \cup {None}]
ASSUME NoneIsNoRecord == None \notin Call
Press == [kind: Actions, recipe: Recipes \cup {None}, age: 0..MaxLate,
          ahead: Nat]   \* presses that were waiting already

ApiTypeOK ==
    /\ commands \in Seq(Command) /\ Len(commands) <= ChannelSize
    /\ queue \in Queue
    /\ staged \in Recipes \cup {None}
    /\ snap \in Snapshot /\ unseen \in BOOLEAN
    /\ task \in {"parked", "draining", "calling"}
    /\ call \in Call \cup {None}
    /\ (task = "calling") = (call # None)
    /\ waiting \in Seq(Press)

-----------------------------------------------------------------------------
(* scheduler.rs: the event queue.                                          *)

Earlier(a, b) == IF a < b THEN a ELSE b
Later(a, b) == IF a < b THEN b ELSE a

Queued(q) == q.polls \cup Range(q.actions)
\* The only mode the task uses is EnqueueMode::PreferEarlier.
Enqueue(q, kind, in) ==
    [polls |-> IF kind \in Polls THEN q.polls \cup {kind} ELSE q.polls,
     actions |-> IF kind \in Polls \cup Range(q.actions) THEN q.actions
                 ELSE Append(q.actions, kind),
     due |-> [q.due EXCEPT ![kind] = IF kind \in Queued(q) THEN Earlier(@, in) ELSE in]]
Without(q, kind) ==
    [polls |-> q.polls \ {kind},
     actions |-> RemoveFirst(q.actions, kind),
     due |-> [q.due EXCEPT ![kind] = 0]]

\* Mutant of Due: actions due in one tick are popped in any order.
DueUnordered(q) ==
    {kind \in Queued(q) :
        q.due[kind] <= 0 /\ \A other \in Queued(q) : q.due[kind] <= q.due[other]}

\* soonest_index, if pop_due finds it due.
Due(q) ==
    {kind \in Queued(q) :
        /\ q.due[kind] <= 0
        /\ \A other \in Queued(q) : q.due[kind] <= q.due[other]
        /\ kind \in Actions => kind = Head(q.actions)}
Aged(q) ==
    [q EXCEPT !.due = [kind \in Kinds |->
        IF kind \in Queued(q) THEN Later(q.due[kind] - 1, 0 - MaxLate) ELSE 0]]

-----------------------------------------------------------------------------
(* ApiClient: what the state task calls.  A full channel drops the press.  *)

Rewait(kind, recipe) ==
    IF \E i \in DOMAIN waiting : waiting[i].kind = kind
      THEN [i \in DOMAIN waiting |->
              IF waiting[i].kind = kind THEN [waiting[i] EXCEPT !.recipe = recipe]
              ELSE waiting[i]]
      ELSE Append(waiting, [kind |-> kind, recipe |-> recipe, age |-> 0,
                            ahead |-> Len(waiting)])

Served(presses, kind) == RemoveFirstMatch(presses, LAMBDA press : press.kind = kind)

\* Mutant of Send: the channel takes one press more than it has room for.
SendOverfull(kind, recipe) ==
    /\ IF Len(commands) <= ChannelSize
         THEN /\ commands' = Append(commands, [kind |-> kind, recipe |-> recipe])
              /\ waiting' = Rewait(kind, recipe)
         ELSE UNCHANGED <<commands, waiting>>
    /\ UNCHANGED <<queue, staged, snap, unseen, task, call>>

Send(kind, recipe) ==
    /\ IF Len(commands) < ChannelSize
         THEN /\ commands' = Append(commands, [kind |-> kind, recipe |-> recipe])
              /\ waiting' = Rewait(kind, recipe)
         ELSE UNCHANGED <<commands, waiting>>
    /\ UNCHANGED <<queue, staged, snap, unseen, task, call>>

-----------------------------------------------------------------------------
(* The task between two awaits.                                            *)

ActionInFlight == staged # None \/ queue.actions # <<>>

\* queue_post_action_refresh.
RefreshSoon(q) == Enqueue(Enqueue(q, "PollStatus", Refresh), "PollCurrentCook", Refresh)

\* handle_command.
HandleCommand(cmd) ==
    IF cmd.kind = "ApiStart"
      THEN staged' = cmd.recipe /\ queue' = Enqueue(queue, "ApiStart", 0)
      ELSE staged' = staged /\ queue' = RefreshSoon(Enqueue(queue, cmd.kind, 0))

\* Out of the select: a command, or an event that is due.
TakesCommand ==
    /\ task \in {"parked", "draining"} /\ commands # <<>>
    /\ HandleCommand(Head(commands))
    /\ commands' = Tail(commands)
    /\ UNCHANGED <<snap, unseen, task, call, waiting>>

Wakes ==
    /\ task = "parked" /\ Due(queue) # {}
    /\ task' = "draining"
    /\ UNCHANGED <<commands, queue, staged, snap, unseen, call, waiting>>

Parks ==
    /\ task = "draining" /\ commands = <<>> /\ Due(queue) = {}
    /\ task' = "parked"
    /\ UNCHANGED <<commands, queue, staged, snap, unseen, call, waiting>>

Calls(kind, recipe) ==
    /\ task' = "calling"
    /\ call' = [kind |-> kind, recipe |-> recipe, left |-> CallTimeout,
                at |-> "out", answer |-> None]

\* Mutant of PopsPoll: a poll goes out whatever the user is waiting for.
PopsPollRegardless(kind) ==
    /\ kind \in Polls
    /\ queue' = Without(queue, kind) /\ Calls(kind, None)
    /\ UNCHANGED <<staged, waiting>>

\* Polls of the oven wait while an action does; recipes do not.
PopsPoll(kind) ==
    /\ kind \in Polls
    /\ IF kind # "PollRecipes" /\ ActionInFlight
         THEN /\ queue' = Enqueue(Without(queue, kind), kind, Refresh)
              /\ UNCHANGED <<task, call>>
         ELSE queue' = Without(queue, kind) /\ Calls(kind, None)
    /\ UNCHANGED <<staged, waiting>>

\* A start takes the recipe staged last.
PopsAction(kind) ==
    /\ kind \in Actions
    /\ queue' = Without(queue, kind)
    /\ IF kind = "ApiStart"
         THEN /\ staged' = None
              /\ IF staged # None THEN Calls(kind, staged) ELSE UNCHANGED <<task, call>>
         ELSE staged' = staged /\ Calls(kind, None)
    /\ waiting' = Served(waiting, kind)

\* Commands first, then one event: the drain loop.
Pops ==
    /\ task = "draining" /\ commands = <<>>
    /\ \E kind \in Due(queue) : PopsPoll(kind) \/ PopsAction(kind)
    /\ UNCHANGED <<commands, snap, unseen>>

-----------------------------------------------------------------------------
(* The end of a call.  A timeout and a failure differ in the log only.     *)

Failed == [is |-> "failed", status |-> None, recipes |-> 0]

\* Mutant of AfterStatus: a 503 keeps the last reading.
AfterStatusKept(answer) ==
    CASE answer.is = "ok" ->
           [snap EXCEPT !.status = answer.status, !.missing = None,
                        !.fails = 0, !.success = TRUE]
      [] answer.is = "absent" -> [snap EXCEPT !.fails = 0, !.success = TRUE]
      [] answer.is = "failed" -> [snap EXCEPT !.fails = Earlier(@ + 1, MaxFails)]

\* install_status; mark_oven_missing, for 503; record_fast_poll_*.
AfterStatus(answer) ==
    CASE answer.is = "ok" ->
           [snap EXCEPT !.status = answer.status, !.missing = None,
                        !.fails = 0, !.success = TRUE]
      [] answer.is = "absent" ->
           [snap EXCEPT !.status = None, !.missing = IF @ = None THEN 0 ELSE @,
                        !.fails = 0, !.success = TRUE]
      [] answer.is = "failed" -> [snap EXCEPT !.fails = Earlier(@ + 1, MaxFails)]

\* Only /status counts towards fail_count.
AfterCook(answer) ==
    IF answer.is = "failed" THEN snap ELSE [snap EXCEPT !.cook = answer.is = "ok"]

AfterRecipes(answer) ==
    IF answer.is = "ok" THEN [snap EXCEPT !.recipes = answer.recipes] ELSE snap

\* next_poll_interval_secs.
Interval(fails) == IF fails >= BackoffFails THEN BackoffEvery ELSE StatusEvery

AfterPoll(kind, answer) ==
    /\ snap' = CASE kind = "PollStatus"      -> AfterStatus(answer)
                 [] kind = "PollCurrentCook" -> AfterCook(answer)
                 [] kind = "PollRecipes"     -> AfterRecipes(answer)
    /\ queue' = Enqueue(queue, kind,
                  CASE kind = "PollStatus"      -> Interval(snap'.fails)
                    [] kind = "PollCurrentCook" -> Later(Interval(snap.fails), CookEvery)
                    [] kind = "PollRecipes"     -> Later(Interval(snap.fails), RecipesEvery))
    /\ unseen' = TRUE

AfterAction(kind) ==
    /\ queue' = IF kind = "ApiStart"
                  THEN Enqueue(Enqueue(queue, "PollStatus", Refresh),
                               "PollCurrentCook", StartRefresh)
                  ELSE queue
    /\ UNCHANGED <<snap, unseen>>

Ends(answer) ==
    /\ IF call.kind \in Polls THEN AfterPoll(call.kind, answer) ELSE AfterAction(call.kind)
    /\ task' = "draining" /\ call' = None
    /\ UNCHANGED <<commands, staged, waiting>>

CallEnds == task = "calling" /\ call.at = "back" /\ Ends(call.answer)

\* At the timeout or before: the connection fails, or the answer is no JSON.
CallFails == task = "calling" /\ call.at = "lost" /\ Ends(Failed)

-----------------------------------------------------------------------------

\* The first polls are staggered by fractions of a tick.
ApiInit ==
    /\ commands = <<>> /\ staged = None /\ task = "parked" /\ call = None
    /\ queue = [polls |-> Polls, actions |-> <<>>, due |-> [kind \in Kinds |-> 0]]
    /\ snap = [status |-> None, cook |-> FALSE, recipes |-> 0, fails |-> 0,
               success |-> FALSE, missing |-> None]
    /\ unseen = FALSE /\ waiting = <<>>

ApiStep == TakesCommand \/ Wakes \/ Parks \/ Pops \/ CallEnds \/ CallFails

\* Nothing in the task is due: only then may time pass.
ApiAtRest ==
    \/ task = "parked" /\ commands = <<>> /\ Due(queue) = {}
    \/ task = "calling" /\ call.left > 0 /\ call.at # "back"

ApiTick ==
    /\ queue' = Aged(queue)
    /\ call' = IF call = None THEN None ELSE [call EXCEPT !.left = @ - 1]
    /\ snap' = IF snap.missing = None THEN snap
               ELSE [snap EXCEPT !.missing = Earlier(@ + 1, Grace)]
    /\ waiting' = [i \in DOMAIN waiting |->
                     [waiting[i] EXCEPT !.age = Earlier(@ + 1, MaxLate)]]
    /\ UNCHANGED <<commands, staged, unseen, task>>
=============================================================================
