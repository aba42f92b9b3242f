# A TLA+ model of anova-oven-rs

anova-oven-rs runs an Anova Precision Oven without Anova's cloud, or through
it: a server (`crates/anova-oven-server`) that owns the connection to the oven,
clients of its HTTP API (a CLI, a web UI, Home Assistant over MQTT), and a
panel with its own firmware (`crates/anova-oven-pico`, with its logic in
`crates/anova-oven-pico-core`). These modules model the server in both of its
modes, what it derives and announces, its recipes, and the panel.

Server paths below are relative to `src/crates/anova-oven-server/src/`, panel
paths (`pico/...`, `pico-core/...`) to `src/crates/anova-oven-pico*/src/`,
unless they name another crate or `docs/`.

## 1. The system's parts

| Part | State | Operations | Talks to | What makes it hard |
|---|---|---|---|---|
| State machine, `processors/state_machine.rs` | lifecycle, connectivity, pending start/stop/controls, last report, current cook, history, recipes, preheat watch | start, stop, controls, link a cook to a recipe; reports, acks, link events, store events, two ticks, turn-off | commands from clients, `WsCommand`/`WsEvent` with the link, `StoreCommand`/`StoreEvent` with the store, watch channels to readers | answers of three kinds (ack, report, store event) that arrive in any order, with new commands between them |
| Device link, `processors/device.rs` (local mode) | one session, the commands sent and not acked | accept a connection, take a command, handle a frame, time a command out, watch for silence | the oven over TLS, the state machine | reconnects with commands in flight, deadlines racing reports, failed sends |
| Cloud link, `processors/ws.rs`, `liveness.rs` (cloud mode) | token, cooker id, last state frame, link health | connect, refresh, send, ack, state timeout | Anova's websocket, the state machine | half-open connections, expired tokens, replays of old states |
| Local store, `processors/local_store.rs` | `active-cook.json`, `history.jsonl`, recipe files, the last watched cook | journal a start, reconcile with a report, answer a fetch, append history; list, create, change and delete recipes | the disk, the state machine, the HTTP handlers | several file operations per request: crashes, failures and other requests between them |
| Firestore store, `processors/firestore.rs`, `firestore.rs` | token, titles | the same commands, answered by Firestore | HTTPS, the state machine | token refresh and a retry |
| Composition, `main.rs` | channels, tasks | startup tick, periodic ticks, forwarders, fan-out of the read model, exit when a critical task ends | everything | channel capacities, restart |
| Cook progress, `cook_progress.rs` | one tracker | follow the oven, advance, clear | read model, current cook | two watch channels that disagree for a while |
| MQTT, `processors/mqtt.rs`, `processors/mqtt/` | last published values, last snapshot | publish state, milestones, take commands | broker, state machine | edges between snapshots, retained topics the broker may forget |
| HTTP API, `processors/http.rs` | none | one state machine command per request; saving the running cook and changing a recipe take several steps | state machine, recipe files | reply timeouts, requests beside each other, a cook that changes between two steps |
| Stages and recipes, `protocol/stages.rs`, `manual.rs`, `local_store.rs::normalize`, `ui/assets/steps.js` | none | a recipe to the oven and back | everything | two temperature scales, end flags and ids that do not travel |
| Panel screens, `pico/state.rs`, `pico-core/fsm.rs` | screen, timers, dimming | one handler per screen | API task, input, displays | decisions on old data, confirmation timeouts |
| Panel API task, `pico/api_client.rs`, `pico-core/scheduler.rs` | queue of events, fail count | polls, actions, backoff | the HTTP API | one call at a time, presses behind polls |
| Knob, `pico/input.rs`, `pico-core/button.rs`, `encoder.rs` | a debouncer, a decoder | sample, decode | pins, the state task | bounces, late samples |
| Reset memory, `pico/persist.rs`, `pico-core/reset.rs` | a region of RAM kept over resets | boot, mark, panic | the boot, `/metrics` | resets between any two words written |
| LCD, `pico-core/lcd_plan.rs`, `pico/display.rs`, `pico/lcd.rs` | the animator's rows, the cells sent | draw, scroll, take turns | the state task | frames left out, texts that change under way |
| Graphic displays, CLI, oven log, telemetry, discovery, web pages | none or formatting | | | |

How a start goes: a client's `/start` reaches the state machine, which draws a
request id and a cook id, seeds the current cook, becomes `StartPending`, sends
`SendStart` to the link and `CookStarted` to the store. The link sends it to
the oven and keeps its id in `pending`. The oven lists ids it has handled in
its next `state` frame; the link passes the report on first and then an ack per
listed id. A report that shows the oven cooking (or, over a running cook, the
ack) makes the state machine `Cooking`; a failed ack, or an idle report, makes
it `Idle`. Every report also goes to the store, which keeps the journal in
step with the oven and writes a line of history when a cook ends. Each
reduction publishes a read model, of which a fan-out task makes the watch
channels that the progress task, MQTT and the HTTP handlers read. The panel
polls `/status` and `/current-cook`, and presses become requests of its API
task.

What each part must get right:

* **Device link:** each command is answered exactly once, "ok" only if the oven
  handled it, whatever the connection does.
* **State machine:** what it waits for is still on its way; a pending start
  ends; what it shows agrees with the last report.
* **Store:** a cook that was seen running is never lost; the journal follows
  the oven, except while a start is pending, when it holds that start.
* **Recipes:** a reader gets a whole recipe; the copy that cooks are started
  from is the files'; a cook that is saved does the same again.
* **Cloud link:** a connection does not hide a silent oven, an outage is timed
  from its start, an accepted command is sent.
* **Progress and MQTT:** they come round to what the oven does; a stage is not
  called over early, and a cook is announced once.
* **Panel:** a press is sent once and soon, no event comes from a glitch, the
  screens and the LCD show what there is, and a reset is remembered.

## 2. The modules

| Module | Models | Source |
|---|---|---|
| `Messages` | the messages and the four channels | `runtime/types.rs`, `main.rs` |
| `Oven` | the oven, as `device.rs` uses it (external) | |
| `Device` | the local link's loop, one action per arm of its `select!` | `processors/device.rs` |
| `CommandLink` | abstract: what the state machine relies on of the link | |
| `OvenLink` | `Device` and `Oven` under an arbitrary client | |
| `StateMachine` | the reducers, as operators from a state and an input to a state and its effects, and one action per input | `processors/state_machine.rs` |
| `LocalStore` | journal and history; a command as the sequence of the contents of the files after each of its file operations | `processors/local_store.rs` |
| `LocalServer` | local mode: state machine, link, store and oven with clients, crashes and failures | `main.rs`, `processors/http.rs` |
| `CloudLink` | the cloud link's task and link health | `processors/ws.rs`, `liveness.rs` |
| `Cloud` | cloud mode: the same `StateMachine` over `CloudLink`, with the cloud and its cache | |
| `CookProgress` | the tracker, as operators and one action per watch channel | `cook_progress.rs` |
| `Progress` | the hops from a report to the published progress | `cook_progress.rs`, `main.rs`, `state_machine.rs` |
| `HomeAssistant` | the MQTT processor's looks, milestones and retained topics | `processors/mqtt.rs`, `mqtt/milestones.rs`, `mqtt/app.rs` |
| `Dashboard` | `HomeAssistant` and `CookProgress` over the read model, with a broker that comes and goes | |
| `Recipes` | a recipe's stages on their way round: clients, checks, oven, and back | `protocol/stages.rs`, `manual.rs`, `local_store.rs`, `steps.js`, `recipe.rs` |
| `RecipeLibrary` | recipe files under requests that run beside each other, the state machine's copy of the list, and the running cook that is saved | `local_store.rs`, `http.rs`, `state_machine.rs` |
| `ApiClient` | the panel's API task | `pico/api_client.rs`, `pico-core/scheduler.rs` |
| `Panel` | the panel's screens over `ApiClient`, with a user, another client and a network | `pico/state.rs`, `pico-core/fsm.rs`, `anova-oven-api` |
| `Input` | the knob's two tasks | `pico/input.rs`, `pico-core/button.rs`, `encoder.rs` |
| `Persist` | the boot and what survives a reset | `pico/persist.rs`, `pico/main.rs`, `pico-core/reset.rs` |
| `Lcd`, `Screen` | the animator, and the display task with the glass | `pico-core/lcd_plan.rs`, `pico/display.rs`, `pico/lcd.rs` |
| `PanelTasks` | `Input`, `Persist` and `Screen` side by side | |
| `*_proofs` | theorems about `OvenLink`, `LocalServer`, `RecipeLibrary`, `Cloud`, `Progress`, `Dashboard`, `Panel`, and `PanelTasks` with `Input`, `Persist` and `Screen` | |
| `MC*` | the instances TLC checks | |

How state and actions correspond to the code:

* A reduction (`reduce_command`, `reduce_event`) with the dispatch of its
  effects is one step: the state machine takes one input at a time and nothing
  else writes its state. `Perform` is the end of each.
* Each `select!` arm of `device.rs` and of `ws.rs` is an action. Acks after one
  report have a step each in `Device`; nothing else of the loop happens between
  them (`acking # {}`).
* A command of the store is one step when all goes well. `Trail` gives the
  contents of the files after every file operation, so a failure (`FailCommand`)
  leaves any proper prefix and a crash (`StoreCrash`) any prefix at all.
* The forwarders of `main.rs` add no state: `wsEvt` and `storeEvt` stand for
  the processor's event channel and the forwarder's place in the state
  machine's queue. Order within a channel is kept, order between them is not.
* An id is a model value. A start draws two UUIDs (request and cook), modelled
  by one; other requests take any id that nothing refers to, so a small set
  suffices for a long run.
* A stage of `StateMachine` is a number up to `LastStage`, 0 for the idle mode.
  `ended` is `cook_done` or the probe at its target on the last stage, and
  `stage_transition_pending_user_action` before it. The first stage of a cook
  of `PreheatCooks` is a preheat, the second stage of one of `WaitingCooks`
  waits for the user. A temperature is reduced to `near`, within the tolerance
  of the setpoint, and ten seconds of nearness to a choice (`windowOver`) that
  needs an earlier report that was near. Stage ids are shared by cooks of one
  recipe (`SameRecipe`). A title is reduced to where it is from.
* `Progress` and `Dashboard` have stages with a kind, a look (what
  `stage_matches` compares), a timer and whether they wait for the user. A watch channel is
  its latest value and whether it was seen; the fan-out that sends the status
  and then the cook is two steps, so a reader may get one without the other.
* `RecipeLibrary` has one step per file operation of a request (open and empty
  the temporary file, write, rename, read, remove) and, because a file that is
  open keeps its identity when it is renamed, knows a file by who made it.
  `Recipes` holds the pure functions it uses: `ToStages` and `ManualStages`
  (what clients set up), `Valid` and `Normal` (the checks), the setpoints in whole
  degrees of both scales, and what the oven gives back.
* `Cloud` counts time in heartbeats of the oven: a state frame has an age, a
  token an age, a connection an age. Frames carry stamps that are compared for
  equality only and are taken from a small set again when nothing has them.
* `Panel` counts time in ticks and keeps deadlines as the time left. The
  executor is cooperative, so a task runs alone from one await to the next:
  `draining` keeps the network and the state task out between the end of one
  call and the start of the next.
* `Input` counts time in sampling intervals, `Screen` in fractions of a second.
  `Persist` has one step per word or group of words that a reset can separate.
  The three share no variable: `PanelTasks` follows one of them in a behaviour
  (`followed`) with the others at rest, which keeps every property of each and
  spares TLC the product. `PanelTasks_proofs!TasksAlone` proves that this is
  an implementation of each alone.

Left out of the modules, although in the functions they model: logging,
metrics, and the wording of titles, texts and answers.

## 3. What the runs check

| Run | Question | Properties |
|---|---|---|
| `link` | Does the local link keep `CommandLink`'s promise over reconnects, failed sends, refusals by the oven and deadlines racing reports? | `OnePlace`, `IInv`, `KeepsPromise`, `EveryCommandAnswered` |
| `server` | Two starts, one over the other, with a stop or a save of the running cook, or with a crash, a failed file operation and something done at the oven's panel or lost by the oven: do the trackers, the journal and the history agree with the oven at every interleaving, and is no cook that the oven was seen running lost? | `TypeOK`, `RequestsTracked`, `HistoryShown`, `JournalFollowsOven`, `JournalHoldsStart`, `SeenCookKept` |
| `live` | Does a pending start always end, over a two-stage cook with turn-off, a control or a stop? | `StartResolved` |
| `preheat` | Two cooks that begin with a preheat, before a stage that waits for the user and one that does not, over a reconnect: does a preheat count as reached only for a reason of its own, and does one that shows as waiting keep showing it? | `WaitingStays`, `ReachedWhenNear` |
| `cloud` | Over half-open and refused connections, an expiring token, an oven that drops off the cloud and a stop in flight: does silence show, is an outage timed from its start and ended only by the oven itself, and is a command the state machine accepts sent? | `TypeOK`, `SilenceShows`, `AcceptedIsSent`, `OnlyNewsRevives`, `OutageGrows`, `CatchesUp` |
| `progress` | Cooks that replace each other at the oven and in the cloud, started by the server and from the app, with status and current cook arriving apart: is a stage said to be over only when it is, while the tracker was told only its own cook's statuses, and does the progress come round to the oven's? | `ReadyIsEarned`, `ProgressCatchesUp` |
| `dashboard` | Over broker outages and snapshots that are skipped: is a cook announced once, and do the retained topics end up with what the server has? | `AnnouncedOnce`, `TopicsCatchUp` |
| `recipes` | Up to three requests that write, delete, save and start at once, with a crash in between, and every shape of cook that is saved while it runs: does a saved cook do the same again, is the list to start from the files', and is a recipe whole unless two requests write it at once? | `SameCookAgain`, `CacheIsCurrent`, `WholeUnlessOverlapped` |
| `panel` | A user and another client, over slow, failing and surprising answers: is each press sent once, for what was pressed, and soon, and does the panel come to show what the server has? | `TypeOK`, `PressesGoOutInTime`, `CallsAnswerPresses`, `CatchesUp` |
| `panel_tasks` | Late samples of a bouncing button and a knob turned to and fro, resets of every kind between any two words, and frames that are left out: are presses, turns, the reset history, the panic's message and the shown text what really happened? | `TypeOK`, `HeldIsPressed`, `TwoSamplesEach`, `TicksAreTurns`, `RingKeeps`, `PanicsShown`, `BootTellsLastRun`, `GlassShows`, `TurnIsHad`, `TurnsComeRound` |

Two runs find a disagreement of the code with a statement in the repository,
each by a shortest trace:

| Run | Statement | What happens |
|---|---|---|
| `torn_recipe` | `local_store.rs:435`: "Every write replaces a whole file atomically, so a concurrent read sees the old recipe or the new one." (`ReadsWhole`) | The temporary file is named after the recipe alone (`local_store.rs:727`). While one request has opened it, which empties it, another that has written it before renames it over the recipe: the recipe's file is empty until the first writes, and the list skips it. |
| `stage_news` | `docs/oven-offline-plan.md:566`: `stage_started` means "any later stage begins, by timer or by the user". (`StageNewsIsLater`) | A snapshot takes the cook's key from the status (`milestones.rs:47`) and the stage from the cook progress (`:49`), which is published after it. A cook in its second stage is replaced. The next snapshot has the new key, announced as `cook_started`, and still the old cook's stage; when the progress comes round to the new cook's first stage, the step from 2 to 1 under one key is announced as `stage_started` (`:152`, `before != after`). |

Every property was tried against a mutant of the code it is about
(`PROJECT.json`, "mutants"): a dropped guard, a missing reset, a swapped
order. The mutants stand beside the definitions they change, each under a
comment that says so.

### Bounds

Every run is exhaustive within these bounds. They limit when *new* work comes
in, never what a task does while it handles something.

| Bound | Meaning | Why it is enough |
|---|---|---|
| `Cooks` | cooks ever begun | two give every case of one cook replacing another; `progress` has two for each mode (`LocalCooks`, `CloudCooks`), of which the second replaces the first at any stage or follows its end; `live`, `link` and `cloud` are about one |
| `Requests` (6; 2 and 1 in `link` and `cloud`) | ids of stops and controls at a time | ids are used again once nothing refers to them; TLC would report a `CHOOSE` with none left |
| `LastStage`, `Stages` | stages of a cook | two give a stage that is not the last, for `nextStage`, the timer edge and a preheat; a cook with two stages that look alike is what stage inference has to tell apart |
| `MaxWsEvt`, `MaxWsCmd`, `MaxStore`, `MaxEvents`, `MaxWire` | messages in a queue beyond which no new report, connection, command or tick comes | the interleavings of two messages in different queues are there; queues grow past the bounds while something is handled |
| `Budgets` of `LocalServer` (`MCLocalServer`) | requests by clients, connections, whether the state machine's timers tick, surprises at the oven, crashes, failures per behaviour | a behaviour has one of a set of budgets, so that a client's request, something done at the oven while the timers tick, and a crash with a failed file operation are sets of behaviours of one run, not a product; in `preheat`, a connection before and one after an outage, or the timers |
| `Budgets` of `Panel` (`MCPanel`) | inputs, outages, surprises, for each state the server may be in at first | four inputs start a cook and stop it; two answer what an outage or another client leave; at first with a cook whose next stage waits, or with a server that knows no oven yet, an input less |
| `Plans` (`MCRecipes`) | what each request asks for, and crashes | all pairs of seven requests with a crash, all triples without, all shapes of a cook to be saved by one request, and those whose temperature (to 77.7 °C, or to 200 °C: dry heat, and too hot for a wet-bulb stage) or timer another request changes meanwhile |
| `MCRecipes!Temps` | temperatures | every whole degree of both scales between 25 and 250 °C |
| `MaxTroubles` (2), `TokenTtl`, `TokenLife`, `StateTimeout` | connections refused, lost or half-open, losses of the oven; times in heartbeats | two troubles make an outage that outlives a reconnect; the token expires while the link is up |
| `MaxReplaced` (1), `MaxOutages` (1) | starts over a running cook; losses of the broker or the oven | one of each at any point |
| `MaxStall`, `MaxSkip` | how late a sample is, how many quarter-turns it misses | a sample a whole `PRESS_MS` late, and a missed pair of transitions, are the worst that the decoders tell apart |
| `MaxResets` (3), `RingSize` (2) | resets | the cold boot appends nothing; the third reset is appended to a full ring, over its oldest entry. The clock of the run after the last reset is not followed: no boot reads it |
| `LeftOut` (`{TRUE}` in `progress`) | whether a status of the cloud leaves the stage out | without it the stage is inferred, which is the hard case; a status that has it goes by the index. `Progress_proofs` covers both |
| `MaxAge`, `MaxLate`, `Views` | how long a timer goes on between polls, how late a tick is, what is shown | texts that fit, scroll once and scroll twice, a countdown, and views with one to three slots, which replace each other at any time, also in the tick of a rotation. One view may stay for good (`Still`): it has three slots and no countdown |
| `HistoryLimit`, `MaxPendingControls`, the times of `Panel` and `Screen` | constants of the code, made small | their order is kept |

`link` has no budgets: `OvenConnects`, `SessionEnds`, refusals and deadlines
happen any number of times, and only ids and the length of the event queue
bound it. The `LocalServer` and `RecipeLibrary` configurations say
`CHECK_DEADLOCK FALSE`: with every budget spent, an idle oven and empty
queues, nothing is left to do. `server` uses the symmetry of `Cooks`, which no
definition tells apart and no liveness property is checked with.

### Fairness

Liveness is stated under weak fairness of the tasks, one conjunct per task
step, because each task loops over a `select!` or an await that takes what is
there, and a deadline is a timer. What else is asked of the environment:

| Run | Liveness | Asked for besides the tasks |
|---|---|---|
| `link` | `EveryCommandAnswered` | nothing: a command is answered by its deadline if by nothing else |
| `live` | `StartResolved` | nothing of the oven, the network, the clients or the store |
| `cloud` | `CatchesUp` | that a token can be had again (`LinkGetsToken`) and that the oven comes back to the cloud (`OvenBack`); reconnects come of the link's own loop |
| `progress` | `ProgressCatchesUp` | that the oven reports, as it does every few seconds. The property is about local mode, and fairness is asked of it only |
| `dashboard` | `TopicsCatchUp` | that the MQTT client reconnects in the end (`BrokerBack`); the processor's poll interval is `Looks` |
| `panel` | `CatchesUp` | that calls end, which `API_CALL_TIMEOUT_SECS` sees to, and that the oven does what the server accepted; an outage need not end |
| `panel_tasks` | `TurnsComeRound` | that the display's timer fires |

`StartResolved` is stated for `StartPending` only. The same is not true of
`StopPending`: a positive ack of a stop changes nothing, because the idle
report is to follow, and if a cook is started at the oven's panel before the
next report, or no state was seen before the stop, the lifecycle stays
`StopPending` until the next idle report. `RequestsTracked` says of it only
that the stop is known.

## 4. What is proved

The runs show the properties above on small instances. Of these, the following
hold for every value of the constants that the named assumptions of the modules
allow; `TLAPS` checks the proofs.

| Theorem | Statement | Assumptions |
|---|---|---|
| `OvenLink_proofs!TypeCorrect` | `Spec => []TypeOK` | `MessagesAssumption`, `OvenAssumption` |
| `OvenLink_proofs!Invariant`, `RequestInOnePlace` | `Spec => []IInv`, `[]OnePlace` | the same |
| `OvenLink_proofs!KeepsThePromise` | `Spec => KeepsPromise`: `OvenLink` implements `CommandLink` | the same |
| `RecipeLibrary_proofs!TypeCorrect`, `Invariant` | `Spec => []TypeOK`, `[]IInv` | `LibraryAssumption` |
| `RecipeLibrary_proofs!WholeRecipes` | `Spec => []WholeUnlessOverlapped` | the same |
| `RecipeLibrary_proofs!CacheCatchesUp` | `Spec => []CacheIsCurrent` | the same |
| `RecipeLibrary_proofs!SavedCookRunsAgain` | `Spec => []SameCookAgain` | the same, `NoneIsNothing` and `FromClients` (the requests are those the editor and Home Assistant make; see below) |
| `RecipeLibrary_proofs!WholeDegrees` | a whole degree Celsius or Fahrenheit, set and read back, is set to the same degrees again | none |
| `PanelTasks_proofs!KnobTypes`, `HeldPresses` | types of the knob's tasks; `InputSpec => []HeldIsPressed` | `InputAssumption` (two capped steps do not make a press) |
| `PanelTasks_proofs!NoGlitch` | `InputSpec => TwoSamplesEach` | the same |
| `PanelTasks_proofs!TicksCount` | `InputSpec => TicksAreTurns` | the same, `MaxSkip <= 2` and `PerDetent > 1` |
| `PanelTasks_proofs!GlassIsCurrent` | `ScreenSpec => []GlassShows` | `LcdAssumption` |
| `PanelTasks_proofs!ScreenTypes`, `TurnsAreHad` | `ScreenSpec => []ScreenTypeOK`, `ScreenSpec => TurnIsHad` | the same, and `ScreenAssumption` (a view has something for the bottom row; a jump is no longer than the row) |
| `PanelTasks_proofs!MemoryHolds`, `NoPanicUnseen`, `RingIsKept` | `PersistSpec => [](PersistTypeOK /\ Memorised)`; `[]PanicsShown`, `[]RingKeeps` | `PersistAssumption` (a ring has a slot) |
| `PanelTasks_proofs!LastRunIsTold` | `PersistSpec => BootTellsLastRun` | the same |
| `PanelTasks_proofs!TasksAlone`, `PanelTasksTypes`, `PanelTasksSafe` | the panel's tasks implement the knob, the memory and the display alone, and so keep their types and properties | all of these |
| `LocalServer_proofs!Invariant`, `SeenCooksKept` | `Spec => []IInv`; `Spec => SeenCookKept` | those of `LocalServer` and the modules it extends |
| `LocalServer_proofs!JournalInvariant`, `JournalIsTheOvens`, `JournalIsTheStarts`, `HistoryIsShown` | `Spec => []JInv`; `[]JournalFollowsOven`, `[]JournalHoldsStart`, `[]HistoryShown` | the same |
| `LocalServer_proofs!RequestsInvariant`, `RequestsAreTracked`, `ServerTypes` | `Spec /\ []EnoughIds => []RInv`; `[]RequestsTracked`, `[]TypeOK` | the same, and two ids that nothing refers to |
| `LocalServer_proofs!EndlessIds` (and the second half of the two before it) | `Spec => []RInv` | the same, and that `Requests` is infinite |
| `LocalServer_proofs!WaitingKeepsShowing` | `Spec /\ []EnoughIds => WaitingStays`, and `Spec => WaitingStays` if `Requests` is infinite | the same, `NoneIsNoWatch` |
| `LocalServer_proofs!ShownWhenNear` | the same of `ReachedWhenNear` | the same, and that each cook has a recipe of its own (`~SameRecipe`) |
| `Cloud_proofs!CloudInvariant`, `CloudTypes`, `SilenceIsShown`, `AcceptedAreSent` | `Spec => []CInv`; `[]TypeOK`, `[]SilenceShows`, `[]AcceptedIsSent` | those of `Cloud` and the modules it extends; a connection has room for the two frames the cloud greets with (`MaxWire >= 2`) |
| `Cloud_proofs!NewsRevives`, `OutagesGrow` | `Spec => OnlyNewsRevives`, `OutageGrows` | the same |
| `Progress_proofs!Invariant`, `ReadyWhenOver` | `Spec => []IInv`, `[]ReadyIsEarned` | `ProgressAssumption`, `NoneIsNoRecord`, `LeftOutAssumption` |
| `Dashboard_proofs!Invariant`, `AnnouncesOnce` | `Spec => []IInv`, `[]AnnouncedOnce` | `ProgressAssumption` |
| `Panel_proofs!Invariant`, `TypeCorrect`, `GoOutInTime` | `Spec => []IInv`, `[]TypeOK`, `[]PressesGoOutInTime` | `ApiClientAssumption` (ages are counted beyond four call timeouts: `MaxLate > 4 * CallTimeout`), `NoneIsNoRecord`, `PanelAssumption` |
| `Panel_proofs!AnswersPresses` | `Spec => CallsAnswerPresses` | the same |

`SavedCookRunsAgain` needs `FromClients`: a duration without `timer_added`, two
stages of one UUID, or one of the tenths of a degree between whole ones that
change when they are set and read back (`Stable` says which do not) come back as
something else. The editor and Home Assistant make none of these: their inputs
step by whole degrees of the shown scale, `toStages` drops what its flags do not
add (`steps.js:59`), and ids are not copied. Of a new temperature it asks no
more than that it is in the server's range, 25 to 250 °C (`http.rs:454`), in
any mode, and stable. Above 100 °C a wet-bulb stage cannot follow: the server
leaves it to the oven to clamp or refuse that (`http.rs:452`), and the model's
oven may do either. `MCRecipes` states `FromClients` as an assumption, so that
it holds of the requests of the run `recipes`.

`TicksCount` needs its two hypotheses: with three quarter-turns between two
reads the decoder sees one in the wrong direction, and with one quarter-turn
to a detent a tick says nothing of the way there.

The arguments:

* **`OvenLink`.** `OnePlace` alone is not inductive. `IInv` adds `Once` (no id
  occurs twice in the channel, in `pending` or in the acks on their way, so
  that taking one away takes the id away), `Delivery` (a command not yet before
  the oven, or still in its inbox, has not been handled, so that handling it is
  the first time) and `Honesty` (an "ok" on its way, an id about to be acked
  and an id the oven lists are of commands that were handled). The run `link`
  checks `IInv` as well. There is one lemma per action; the refinement maps the
  oven's handling of a command to `Handle`, the client's taking of an ack to
  `Answer`, its issue to `Issue`, and everything else to a stutter.
* **`RecipeLibrary`.** A file has one name at a time (`Apart`), and a request
  that has not opened its file has not named it (`Unused`). Without an overlap
  the temporary file that a request has open is the one of its recipe, and no
  other request's (`Owned`), so that it holds what the request did to it last
  (`Written`), which is whole by the time it is renamed over the recipe.
  For the state machine's list, `CacheInv` adds `Current`: unless a refresh is
  still to be asked for or to begin (`Reread`), no file has changed since the
  store began to read them last, so that what this scan has found so far, or
  else the last answer on its way, or else the list, is what the files say
  (`Fresh`). What makes it inductive is that only a rename and a removal change
  what a file says (`FilesSteady`, from `Unused`, `Apart` and `Owned`), and both
  leave their request with a refresh to ask for.
  For a cook that is saved, `CooksInv` follows the stages all the way round.
  What clients make (`ClientMade`) and `normalize` lets through is `Ready` once
  it is put right, and so are the recipes in the files, in the list and in the
  hands of requests on their way. `Ready` stages are sent as what the oven can
  run (`StartRuns`, `RawOK`), and a new temperature or timer leaves it that
  (`TemperatureRuns`, `TimerRuns`). From there the proof needs no history: what
  a report of such a cook is read as is let through when it is saved, put right
  it is `Ready`, and sent it does what the cook does (`ReportSaves`, `SaveOK`).
  Three things carry it. A preheat has the UUID of the stage it leads into and
  every other stage its own, so that prompts find their stages again
  (`OvenApart`, `PromptsBack`). A timer or a probe says how a stage ends, which
  is what the flags said that are not given back (`Restored`). And a setpoint in
  whole degrees comes back as itself (`WholeDegrees`), whatever scale it was
  picked in.
* **The knob.** The capacitor holds at least the time the line has just read
  low, and with the time it has just read high no more than `PRESS_MS`; what it
  holds came from a sample since the last press or release (`Debounced`). The
  decoder never counts further than the shaft was turned (`Followed`), case by
  case in the quarter-turns missed, on the arithmetic of `% 4`.
* **The display.** The glass has what `RowState` holds to be sent (`Sent`), and
  that is the window of the row's animation (`Shows`): a step that leaves cells
  out does so only if text and offset stay.
* **Turns on the bottom row.** What has been seen of a marquee is all of it up
  to the end of its window (`Had`, in `Turned`): a jump is no longer than the
  row, so that it leaves out no cell, and the animation is complete only when
  the window ends where the text does. A text that fits is seen at once, and is
  up for as long as its animation counts. The animation and the reading start
  anew together, since a turn that ends gives way to another slot
  (`ChosenStands`), and a plan that lost slots ends a turn without its being
  had, which `TurnIsHad` leaves out.
* **The memory.** `Memorised` follows the words of the region from a run over
  its end into the boot. A panic raises the count before anything else, so that
  the counts differ while one is owed to the reader (`Counted`), and a run that
  works has them equal. The message is that panic's from the write of its length
  on, and only the next panic writes another; so it is what the recovery view
  has, unless a reset came after the count and before the length (`Worded`, with
  `cut` for such a reset). While it runs, the region has its marks, and the stage
  and the watchdog's bit say where it is (`Marked`); the boot that follows finds
  these marks until it has told them, and `classify_reset` reads a reason from
  them that the run's end may be given (`Remembered`). `RingKept` lets only the
  slot that is written next differ from what was told: the others are at
  `(head - i) % RingSize` with `0 < i < RingSize`, which is another slot for a
  ring of any size (`OtherSlot`), and the head moves last. All of it is said of
  a region that is `Valid`, as a reset inside `zero_region` leaves one that is
  not and passes for one.
* **`LocalServer`.** The files after any file operation of a store command keep
  what was kept (`Good`, `TrailGood`), unless the command journals the start of
  a cook that the journal already has as seen: the new entry is not seen. It
  never comes to that. A start draws an id that nothing knows, as all that the
  state machine, the channels, the files and the oven mention was begun before
  (`Known`, `OnDisk`), and its message to the store is ahead of any other about
  its cook (`Fresh`). Of the reducers the proof needs only what they send: no
  start to the oven, and to the store nothing but questions about the oven's
  cook (`RedOK`). A crash or a failure leaves some element of the trail, a
  completed command the last.
* **The journal.** What the journal will hold is decided by the last command in
  the store's queue that says which cook there is: a start, a report, or a
  fetch that names a cook. `JInv` says that this command, or the journal if
  there is none, is about the start while one is pending (`AwaitsStart`) and
  otherwise about the cook the oven last reported (`FollowsOven`). The same
  holds of the queue ahead of every fetch that names a cook (`FetchesFollow`):
  the journal is that cook's by then, the fetch finishes nothing, and so the
  last history sent to the state machine, or the one it shows, is the one on
  disk (`ShowsHistory`). Each command of the store is followed through the
  files after each of its operations, as a crash leaves any of them.
* **The requests.** `RequestsTracked` is not inductive for three reasons, and
  `RInv` has a part for each. Were an id tracked twice, or as a stop and a
  control, one ack would leave a tracker without an answer (`Sound`). An "ok"
  for a pending start confirms it only if the oven is known to cook; else the
  ack is gone and the start still pending. It is known, as the ack is behind
  the report it was found in, and a report that shows an idle oven ends the
  start (`Heralded`). And an ack that is on its way when a start draws its id
  would be taken for the start's (`StartsBegun`; for stops and controls by
  the choice of ids). `TypeOK` is part of `RInv`, because a tracker is cleared
  by comparing fields of messages.
* **Preheats.** `WatchShows` ties the watch to what is shown: there is one exactly
  while the oven shows a preheat, it is of that preheat's stage, and for a cook
  that waits for the user "reached" and "shows as waiting" are the same. That a
  cook which does not wait never shows as waiting is not the server's doing: the
  oven holds no such preheat at its end, and `HeldFor` follows this from the oven
  through every report on its way. Of the reducers only that of a report touches
  the watch, the status or the oven's cook (`SmLeavesWatch`). `ShownWhenNear` is
  false without its hypothesis, as cooks of one recipe share the stage id.
* **Cloud mode.** `SilenceShows` needs to know how old a report can be that
  puts the deadline off. `Timed`: either no time has passed since the
  connection was made, or every report under way that would count as fresh is
  as young as the cloud's snapshot, for time passes only when nothing is under
  way. `OnlyNewsRevives` rests on the order of the frames: behind a report that
  is the cloud's latest none is older, and once the link has seen the latest
  one (`Seen`), whatever still comes has the stamp that `classify_state` knows
  as a replay; a new report has a stamp that nothing in use has. `AcceptedIsSent`
  compares two tasks: the state machine accepts a command once it has taken the
  `discovered` of this connection, with no `disconnected` behind it in its
  queue, and the link had the cooker's id when it sent that (`Here`). `TypeOK`
  comes along with the observation that the reducers of a report send the oven
  nothing in this mode.

* **`Progress`.** A place is the stage and what its timer does, as a number
  (`3 * i`, `+ 1` while it runs, `+ 2` when it is over), and 0 in a status of
  another cook. Of every cook that was not replaced or stopped (`Live`), the
  place in the status the task was shown is behind that in the status published
  last, and that one behind the oven's (`Chain`); no status has to carry its
  stage's number, which may be any that looks like it, so the places are known to
  exist only. A tracker of such a cook that was told of no other's status
  (`~lent`) is `Behind` the first: its stage is reached, `ran` says that the timer
  of that stage runs or ran, and `ready` that it is over. `infer_stage_index`
  keeps this because it names the one stage that looks like the oven's or the
  first of its kind, never a later one (`InferredIsBehind`); a timer seen running
  cannot be that of a stage which is over, so that what advances the tracker is
  of the next stage. A cook that begins has no place yet in what was published
  and shown, so its chain begins with zeros, and a tracker of it that was told
  of the cook before is `lent`. A cook that is replaced or stopped does not
  come back, and nothing more is claimed of it.
* **`Dashboard`.** A cook that has left the read model does not return to it,
  and one that is done there stays done until it leaves (`ModelKeeps`). So what
  was looked at last, being an earlier read model, is of that cook or of one
  that has gone (`LookedOK`), and what was announced of a cook cannot come about
  again (`Announced`). Whatever the progress task does, it has no part in it.
* **The panel's presses.** `waiting` is a history: a press that no call was made
  for yet. It is the queue's actions followed by those that are first in the
  channel (`InOrder`): no two waiting presses are of one kind, and a press of a
  kind that waits already takes no new place. So the action that is popped, the
  first in the queue, is of the oldest press. Its recipe is that of the last
  start in the channel, or else the one staged, and a start in the queue has one
  staged (`RecipeKept`). Actions are due at once and their due times go down in
  the order of the queue (`DueInOrder`). `InTime` is a budget: a press's age,
  what is left of the call in progress, a call for each press before it, and a
  poll of the recipes while one is due earlier (`Precedes`), come to no more
  than `2 + ahead` timeouts. A tick adds to the age what it takes from the call;
  a call starts with one press fewer ahead, or as the poll that `Precedes`, after
  which that poll is due later than any press; a poll of the oven that is due is
  put off and costs nothing. Time cannot pass while a press waits and no call is
  in progress, as something is due then (`SomethingIsDue`). At most three kinds
  wait, so no age comes to `MaxLate`, where it would stop counting. For the types,
  `TimerOK` says which screens have no deadline, and `AnswerOK` that a call that
  is back has an answer.

The id of a stop or a control is a `CHOOSE` of one that nothing refers to
(`NewId`), which says nothing if there is none; the code draws a UUID.
`RequestsInvariant` therefore has the hypothesis `EnoughIds`, that two are left
(a stop may send a lamp command ahead of it). `EndlessIds` shows that the
hypothesis holds by itself if `Requests` is infinite: in every state only
finitely many ids are in use. On the instance of `server` it holds too.

Only model-checked: all liveness, and that the requests of the two clients are
as `FromClients` has them (`ToStages` is a recursion over the editor's steps).
Liveness under fairness, `ENABLED` and induction over data are beyond this
prover. Every safety property of the runs that expect to pass is proved.

## 5. Observations

What the code does, found while modelling, where a document, a comment or a
neighbouring function suggests something else, or where a reader may be
surprised. The model does as the code does.

Local mode:

* Over a running cook there is no idle-to-cooking edge. After a failed start
  there the lifecycle is `Idle` while the oven cooks, the current cook is the
  refused recipe, and a stop is refused (`state_machine.rs:638`;
  `docs/oven-offline-plan.md:165`: "A later `state` puts it right if the oven
  did act").
* An idle report sent before the oven took the start clears the tracker; the
  failed ack then matches nothing and is not announced (`state_machine.rs:704`;
  `docs/oven-offline-plan.md:395`). If the oven carries the start out after
  all, the cook is journaled as a manual one, without its turn-off
  (`docs/architecture.md:297`).
* A start over a running cook records that cook in the history at once; if the
  start fails, it is journaled again and gets a second line when it ends
  (`docs/architecture.md:303`: "one line per cook").
* `turn_off_at_end` is read from the current cook, the cook to stop from the
  report; they can differ (`state_machine.rs:523`, `:536`).
* The preheat watch goes by stage id, which cooks of one recipe share: a cook
  that replaces another of its recipe inherits its `reached`
  (`state_machine.rs:755`; `docs/architecture.md:277`). In `preheat` each cook
  has a recipe of its own.
* Linking a saved recipe names no cook: after the oven's cook has changed,
  another one gets the title (`local_store.rs:273`; `docs/architecture.md:537`).

Cloud mode:

* Each connection restarts the state deadline, and the replay of an old state
  is checked before its age: reconnects more frequent than the state timeout
  keep a silent oven "online" (`liveness.rs:35` calls them routine).
* Commands wait in the channel over a reconnect and are sent late
  (`ws.rs:171`). The dial has no timeout.
* A start over a running cook stays `StartPending` until the oven is idle, and
  a stop that the oven drops leaves `StopPending`.
* `ManualCookTitleResolved` is sent with an empty `cook_key`, so the title is
  never applied (`processors/firestore.rs`; `state_machine.rs`). The retries of
  `set_cook_recipe_ref_with_retry` stop at the first error that is not an
  expired session (`firestore.rs:252`).

Progress and MQTT:

* The progress that `POST /start` seeds is dropped by the next read model
  (`main.rs:355`); in cloud mode the stage is inferred once per cook.
* In cloud mode a cook that replaces another may show the next-stage prompt
  before its own timer ran, which `timer_has_run` is there to prevent
  (`cook_progress.rs:56`: "Prevents a false-positive 'timer expired' firing
  when the oven reports `timer_current_secs == timer_total_secs` before the
  timer has actually started"). The task does not compare a status's cook with
  the tracker's: the oven runs a timer, `POST /start` of another cook seeds a
  tracker, and the running status of the cook being replaced is taken for the
  new one's (`cook_progress.rs:428`). The first stage of the new cook, parked at
  its full time, then counts as over. The tracker made from the store's record
  puts it right. `ReadyIsEarned` without `~lent` has this as its counterexample.
* Commands from the broker go through a channel of 32, publications through a
  queue of 64 that only the same task's polling empties (`mqtt.rs:180`).

Recipes:

* Two `PATCH`es at once lose one; a `PATCH` beside a `DELETE` brings the recipe
  back (`local_store.rs:513`).
* Some temperatures in tenths of a degree (180.4 °C) change their setpoint by one
  degree when they are saved from a cook; whole degrees of either scale are stable,
  which is what `Degrees` in `MCRecipes` checks.
* A heating element that is left out counts as off in `normalize`
  (`local_store.rs:672`) and is sent as on (`protocol/stages.rs:44`).
* `normalize` goes by `timer_added` and `probe_added`, the stages sent to the
  oven by the duration and the target.

Panel:

* A pending start or stop is given up after its timeout while its request is
  still in the queue, and `StartPending` ends with a cook that another client
  started. Impatient presses of the next stage fill the channel of four, and a
  stop after them is dropped. `/current-cook` failing keeps the last cook shown.
* "Half-clicks don't fire" (`pico-core/encoder.rs:19`) fails for a knob turned
  to and fro by two quarter-turns that are both missed.
* `zero_region` writes the magic first, so a reset in the middle of it leaves a
  region that counts as valid: the properties of `Persist` except that case
  (`torn`).
* A panic's count is written before its message, and the message before its
  length (`pico/persist.rs:547` to `:558`). A reset in between (the watchdog
  still runs, with interrupts off) leaves the new count with no message, with
  the one of an older panic, or with bytes of both, and the boot shows that as
  "the most recent panic message" (`:4`). `PanicsShown` asks for the panic's own
  message only where no reset fell there (`cut`).
* A slot of the LCD whose text changes every second starts over each time, so
  the rotation stays on it (`pico-core/lcd_plan.rs:427`, against `:40`):
  `TurnsComeRound` is about views that stay and show no countdown.

## 6. What is not modelled, and why

* **A restart of the server during a cook**, in `Dashboard`: `last_snapshot` is
  lost with the process, and a cook that is seen after an idle snapshot is
  announced again. `LocalServer` has restarts.
* **Channel capacities of `main.rs`** (32 and 128): that everyone waits on
  everyone takes more requests than an instance can hold, and with small
  capacities the answer is another system's.
* **Firestore**: its requests are answered by Anova's servers. `Cloud` has a
  store that fails every command, which changes nothing in the state machine.
* **TLS and the accept loop**, JSON encodings, discovery payloads, web pages,
  the CLI, the oven log, telemetry, metrics, the layout of views on the graphic
  displays, and drivers: data translation and input/output that keep no state
  the properties read.
* **Configuration**, display units, the lamp preference beyond one value,
  read-only queries, and reply timeouts of HTTP requests.

What a next step would be: the pages of the graphic displays
(`pico-core/view_plan.rs`).
