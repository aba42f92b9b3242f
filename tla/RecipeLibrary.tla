---------------------------- MODULE RecipeLibrary ----------------------------
(***************************************************************************)
(* The recipes of local mode: files that HTTP handlers create, change and  *)
(* delete beside each other, each file operation a step; the copy of the   *)
(* list the state machine starts cooks from; and the running cook, which   *)
(* can be saved as a recipe (http.rs, local_store.rs, state_machine.rs).   *)
(*                                                                         *)
(* The oven takes what it is sent at once, and the store journals it: what *)
(* can go wrong there is LocalServer's.                                    *)
(***************************************************************************)
EXTENDS Recipes

CONSTANTS
    Handlers,       \* requests in the air
    Kept,           \* recipes there are at first
    Titles,         \* what recipes are called; "" is blank
    Library,        \* what those recipes are: [Kept -> [title, stages]]
    Plans           \* bound: the requests of one behavior, and how often the process ends

\* A recipe is known by the request that creates it.
Ids == Kept \cup Handlers
IsDraft(r) == r.title \in Titles /\ r.stages \in Seq(Stage)

ASSUME LibraryAssumption ==
    /\ Kept \cap Handlers = {} /\ None \notin Ids
    /\ \A id \in Kept : IsDraft(Library[id])
    /\ \A p \in Plans :
         /\ DOMAIN p.asks = Handlers /\ p.crashes \in Nat
         /\ \A h \in Handlers :
              /\ p.asks[h].op = "create" => IsDraft(p.asks[h])
              /\ p.asks[h].op \in {"update", "delete"} => p.asks[h].id \in Ids

\* TEMPERATURE_RANGE_C, and set again as it was when it has been read back.
InRange(celsius) == celsius \in 250..2500 /\ Stable(celsius)

\* The requests of the editor, the app and Home Assistant, which SameCookAgain
\* is about.  handle_temperature and handle_timer refuse numbers outside these,
\* in any mode; but they take any tenth of a degree between, and these clients
\* ask for whole degrees of the scale they show, which are stable.
FromClients ==
    /\ \A id \in Kept : ClientMade(Library[id].stages) /\ Valid(Library[id].stages)
    /\ \A p \in Plans : \A h \in Handlers :
         LET ask == p.asks[h]
         IN /\ ask.op \in {"create", "manual"} => ClientMade(ask.stages)
            /\ ask.op = "update" => ask.stages = None \/ ClientMade(ask.stages)
            /\ ask.op = "save" => ask.title # ""
            /\ ask.op = "temperature" => InRange(ask.temp)
            /\ ask.op = "timer" => ask.secs \in Nat \ {0}

VARIABLES
    plan,       \* what each handler is asked
    work,       \* how far it is, and the file it is at
    held,       \* the recipe and the cook it goes on with
    named,      \* recipes/<id>.json: the file of that name (kept)
    temp,       \* recipes/<id>.json.tmp (kept)
    disk,       \* the writes whose bytes each file holds (kept); a file is known by
                \* who made it
    recipes,    \* the state machine's recipes
    refresh,    \* refreshes asked for, the store's scan (what is left to read, and
                \* what was found), and its answers
    oven,       \* the oven's cook, and what the journal says of it (external, kept)
    shown,      \* current_cook, and the cook it shows
    crashes,    \* how often it may still end
    overlap     \* two requests have written the same temporary file at once

files == <<named, temp, disk, overlap>>
vars == <<plan, work, held, files, recipes, refresh, oven, shown, crashes>>

\* A file without bytes, or with those of two writes, does not parse.
Readable(content) == Len(content) = 1
Content(id) == IF named[id] = None THEN <<>> ELSE disk[named[id]]
Present == {id \in Ids : Readable(Content(id))}

Over == {"done", "refused", "missing", "saved", "failed", "lost"}
Phases == {"new", "checks", "writes", "opened", "filled", "removes", "changed", "links"} \cup Over
NotStarted == [at |-> "new", path |-> None, fd |-> None]

TypeOK ==
    /\ work \in [Handlers -> [at: Phases, path: Maybe(Ids), fd: Maybe(Ids)]]
    /\ \A h \in Handlers :
         /\ work[h].at \in {"writes", "opened", "filled", "removes"} => work[h].path \in Ids
         /\ work[h].at \in {"opened", "filled"} => work[h].fd \in Ids
    /\ named \in [Ids -> Maybe(Ids)] /\ temp \in [Ids -> Maybe(Ids)]
    /\ DOMAIN disk = Ids
    /\ overlap \in BOOLEAN /\ crashes \in Nat

-----------------------------------------------------------------------------
(* RecipeFiles: write_atomically, step by step.                            *)

Goes(h, at) == work' = [work EXCEPT ![h].at = at] /\ UNCHANGED held
Writes(h, path, recipe) ==
    /\ work' = [work EXCEPT ![h].at = "writes", ![h].path = path]
    /\ held' = [held EXCEPT ![h].recipe = recipe]

\* A file that is not kept beside the one it replaces.
OpensInPlace(h) ==
    LET id == work[h].path
    IN /\ work[h].at = "writes"
       /\ named' = [named EXCEPT ![id] = h] /\ temp' = [temp EXCEPT ![id] = h]
       /\ disk' = [disk EXCEPT ![h] = <<>>]
       /\ work' = [work EXCEPT ![h].at = "opened", ![h].fd = h]
       /\ UNCHANGED <<held, overlap>>

\* File::create: an empty file, or the one of that name made empty.
Opens(h) ==
    LET id == work[h].path
        file == IF temp[id] = None THEN h ELSE temp[id]
    IN /\ work[h].at = "writes"
       /\ temp' = [temp EXCEPT ![id] = file]
       /\ disk' = [disk EXCEPT ![file] = <<>>]
       /\ work' = [work EXCEPT ![h].at = "opened", ![h].fd = file]
       /\ overlap' = (overlap \/ \E g \in Handlers \ {h} :
                        work[g].at \in {"opened", "filled"} /\ work[g].fd = file)
       /\ UNCHANGED <<held, named>>

\* Over another's bytes: they are all replaced, or some are left.
Fills(h) ==
    LET file == work[h].fd
    IN /\ work[h].at = "opened"
       /\ \E content \in {<<held[h].recipe>>, Append(disk[file], held[h].recipe)} :
            disk' = [disk EXCEPT ![file] = content]
       /\ Goes(h, "filled")
       /\ UNCHANGED <<named, temp, overlap>>

Renames(h) ==
    LET id == work[h].path
    IN /\ work[h].at = "filled"
       /\ IF temp[id] = None THEN Goes(h, "failed") /\ UNCHANGED <<named, temp>>
          ELSE /\ named' = [named EXCEPT ![id] = temp[id]]
               /\ temp' = [temp EXCEPT ![id] = None]
               /\ Goes(h, "changed")
       /\ UNCHANGED <<disk, overlap>>

\* normalize: `title` is trimmed by the client's form.
Checks(h, path, recipe) ==
    IF recipe.title # "" /\ Valid(recipe.stages)
      THEN Writes(h, path, [recipe EXCEPT !.stages = Normal(@)])
      ELSE Goes(h, "refused")

-----------------------------------------------------------------------------
(* The handlers.                                                           *)

Server == <<recipes, refresh>>
Cook == <<oven, shown>>
Asked(h, op) == work[h].at = "new" /\ plan[h].op = op

Creates(h) ==
    /\ Asked(h, "create")
    /\ Checks(h, h, [id |-> h, title |-> plan[h].title, stages |-> plan[h].stages])
    /\ UNCHANGED <<files, Server, Cook>>

\* find, and the patch laid over what was found.
Patched(recipe, patch) ==
    [recipe EXCEPT !.title = IF patch.title = None THEN @ ELSE patch.title,
                   !.stages = IF patch.stages = None THEN @ ELSE patch.stages]
Updates(h) ==
    /\ Asked(h, "update")
    /\ IF Readable(Content(plan[h].id)) THEN Checks(h, plan[h].id, Patched(Content(plan[h].id)[1], plan[h]))
       ELSE Goes(h, "missing")
    /\ UNCHANGED <<files, Server, Cook>>

Deletes(h) ==
    /\ Asked(h, "delete")
    /\ IF Readable(Content(plan[h].id))
         THEN /\ work' = [work EXCEPT ![h].at = "removes", ![h].path = plan[h].id]
              /\ UNCHANGED held
         ELSE Goes(h, "missing")
    /\ UNCHANGED <<files, Server, Cook>>

Removes(h) ==
    LET id == work[h].path
    IN /\ work[h].at = "removes"
       /\ named' = [named EXCEPT ![id] = None]
       /\ Goes(h, IF named[id] = None THEN "failed" ELSE "changed")
       /\ UNCHANGED <<temp, disk, overlap>>

FileStep(h) ==
    /\ Opens(h) \/ Fills(h) \/ Renames(h) \/ Removes(h)
    /\ UNCHANGED <<Server, Cook>>

\* The answer is sent without a refresh.
AnswersOnly(h) == refresh' = refresh
RefreshRecipes(h) == refresh' = [refresh EXCEPT !.asked = @ + 1]

Refreshes(h) ==
    /\ work[h].at = "changed"
    /\ RefreshRecipes(h)
    /\ Goes(h, IF plan[h].op = "save" THEN "links" ELSE "done")
    /\ UNCHANGED <<files, recipes, Cook>>

\* start: what the oven is sent, and the cook shown until its report.
Runs(id, stages) ==
    LET sent == OvenIds(stages)
    IN /\ oven' = [raw |-> Sent(sent), active |-> 1, recipe |-> id, extras |-> Extras(sent)]
       /\ shown' = [recipe |-> id, stages |-> sent, raw |-> Sent(sent), extras |-> Extras(sent)]

\* start_cook, for a recipe of the state machine's list.
Starts(h) ==
    /\ Asked(h, "start")
    /\ \/ recipes = {} /\ Goes(h, "missing") /\ UNCHANGED Cook
       \/ \E r \in recipes : Runs(r.id, r.stages) /\ Goes(h, "done")
    /\ UNCHANGED <<files, Server>>

\* start_manual_cook: the same checks, and no recipe.
StartsManual(h) ==
    /\ Asked(h, "manual")
    /\ IF Valid(plan[h].stages) THEN Runs(None, Normal(plan[h].stages)) /\ Goes(h, "done")
       ELSE UNCHANGED Cook /\ Goes(h, "refused")
    /\ UNCHANGED <<files, Server>>

\* A wet-bulb stage tops out lower than the server does: the oven clamps or
\* refuses that itself (external).
TooHot(stage, celsius) == stage.wet /\ celsius > 1000
Clamped(stage, celsius) == IF TooHot(stage, celsius) THEN 1000 ELSE celsius

SetsTemperature(h) ==
    /\ plan[h].op = "temperature" /\ oven # None
    /\ LET celsius == plan[h].temp
           stage == oven.raw[oven.active]
       IN \/ /\ oven' = [oven EXCEPT !.raw = WithTemperature(@, oven.active, Clamped(stage, celsius))]
             /\ Goes(h, "done")
          \/ TooHot(stage, celsius) /\ Goes(h, "refused") /\ UNCHANGED oven

SetsTimer(h) ==
    /\ plan[h].op = "timer" /\ oven # None
    /\ IF TimerStage(oven.raw, oven.active) \in DOMAIN oven.raw
         THEN /\ oven' = [oven EXCEPT !.raw = WithTimer(@, oven.active, plan[h].secs)]
              /\ Goes(h, "done")
         ELSE Goes(h, "refused") /\ UNCHANGED oven

Controls(h) ==
    /\ work[h].at = "new" /\ plan[h].op \in {"temperature", "timer"}
    /\ \/ SetsTemperature(h) \/ SetsTimer(h)
       \/ oven = None /\ Goes(h, "refused") /\ UNCHANGED oven
    /\ UNCHANGED <<files, Server, shown>>

\* handle_save_current_cook: the cook is read, then looked up in the files,
\* then saved, and the cook that runs by then is made the recipe's.
ReadsCook(h) ==
    /\ Asked(h, "save")
    /\ IF shown = None THEN Goes(h, "missing")
       ELSE /\ work' = [work EXCEPT ![h].at = "checks"]
            /\ held' = [held EXCEPT ![h].of = shown]
    /\ UNCHANGED <<files, Server, Cook>>

IsSaved(cook) == cook.recipe # None /\ Readable(Content(cook.recipe))
Saves(h) ==
    /\ work[h].at = "checks"
    /\ IF IsSaved(held[h].of) THEN Goes(h, "saved")
       ELSE Checks(h, h, [id |-> h, title |-> plan[h].title, stages |-> ToSave(held[h].of.stages)])
    /\ UNCHANGED <<files, Server, Cook>>

Links(h) ==
    /\ work[h].at = "links"
    /\ Goes(h, "done")
    /\ IF shown = None THEN UNCHANGED Cook
       ELSE shown' = [shown EXCEPT !.recipe = h] /\ oven' = [oven EXCEPT !.recipe = h]
    /\ UNCHANGED <<files, Server>>

Handles(h) ==
    /\ \/ Creates(h) \/ Updates(h) \/ Deletes(h) \/ FileStep(h) \/ Refreshes(h)
       \/ Starts(h) \/ StartsManual(h) \/ Controls(h) \/ ReadsCook(h) \/ Saves(h) \/ Links(h)
    /\ UNCHANGED <<plan, crashes>>

-----------------------------------------------------------------------------
(* The state machine's copy, through the store.                            *)

Rest == <<plan, work, held, files, Cook, crashes>>

\* read_dir, then each file in turn: one that is unreadable or gone by then
\* is skipped.
ScanBegins ==
    /\ refresh.asked > 0 /\ ~refresh.scanning
    /\ refresh' = [refresh EXCEPT !.asked = @ - 1, !.scanning = TRUE,
                                  !.left = {id \in Ids : named[id] # None}]
    /\ UNCHANGED <<Rest, recipes>>

Found(id) == IF Readable(Content(id)) THEN {Content(id)[1]} ELSE {}
ScanReads ==
    /\ refresh.scanning
    /\ \E id \in refresh.left :
         refresh' = [refresh EXCEPT !.left = @ \ {id}, !.found = @ \cup Found(id)]
    /\ UNCHANGED <<Rest, recipes>>

ScanEnds ==
    /\ refresh.scanning /\ refresh.left = {}
    /\ refresh' = [refresh EXCEPT !.scanning = FALSE, !.found = {},
                                  !.answers = Append(@, refresh.found)]
    /\ UNCHANGED <<Rest, recipes>>

RecipesRefreshed ==
    /\ refresh.answers # <<>>
    /\ recipes' = Head(refresh.answers)
    /\ refresh' = [refresh EXCEPT !.answers = Tail(@)]
    /\ UNCHANGED Rest

\* The oven's report and the fetch after it: its stages, with the journal's
\* extras laid over them.
OvenReports ==
    /\ oven # None
    /\ LET stages == [i \in DOMAIN oven.raw |-> StageFromJson(oven.raw[i])]
       IN shown' = [recipe |-> oven.recipe, stages |-> Applied(oven.extras, stages),
                    raw |-> oven.raw, extras |-> oven.extras]
    /\ UNCHANGED <<plan, work, held, files, Server, oven, crashes>>

OvenMovesOn ==
    /\ oven # None /\ oven.active < Len(oven.raw)
    /\ oven' = [oven EXCEPT !.active = @ + 1]
    /\ UNCHANGED <<plan, work, held, files, Server, shown, crashes>>

CookEnds ==
    /\ oven # None /\ oven' = None /\ shown' = None
    /\ UNCHANGED <<plan, work, held, files, Server, crashes>>

Startup == [asked |-> 1, scanning |-> FALSE, left |-> {}, found |-> {}, answers |-> <<>>]

\* The files, the oven and the journal are kept; requests are not.
Crash ==
    /\ crashes > 0 /\ crashes' = crashes - 1
    /\ work' = [h \in Handlers |->
                  IF work[h].at \in Over \cup {"new"} THEN work[h]
                  ELSE [work[h] EXCEPT !.at = "lost"]]
    /\ recipes' = {} /\ refresh' = Startup /\ shown' = None
    /\ UNCHANGED <<plan, held, files, oven>>

Init ==
    /\ \E p \in Plans : plan = p.asks /\ crashes = p.crashes
    /\ work = [h \in Handlers |-> NotStarted]
    /\ held = [h \in Handlers |-> [recipe |-> None, of |-> None]]
    /\ named = [id \in Ids |-> IF id \in Kept THEN id ELSE None]
    /\ temp = [id \in Ids |-> None]
    /\ disk = [id \in Ids |->
                 IF id \notin Kept THEN <<>>
                 ELSE <<[id |-> id, title |-> Library[id].title,
                         stages |-> Normal(Library[id].stages)]>>]
    /\ recipes = {} /\ refresh = Startup
    /\ oven = None /\ shown = None
    /\ overlap = FALSE

Next ==
    \/ \E h \in Handlers : Handles(h)
    \/ ScanBegins \/ ScanReads \/ ScanEnds \/ RecipesRefreshed
    \/ OvenReports \/ OvenMovesOn \/ CookEnds \/ Crash

Spec == Init /\ [][Next]_vars

-----------------------------------------------------------------------------
(***************************************************************************)
(* A running cook can be saved, and what is saved does the same again:     *)
(* each stage heats to the same setpoints and ends the same way, waits and *)
(* says the same, and the oven goes off at the end if it did.  It has been *)
(* through whole degrees of two scales, stages the oven gives back without *)
(* their flags, a journal, controls in the middle of it and ids of its own.*)
(***************************************************************************)
Again(stages) == Behavior(Sent(OvenIds(stages)), Extras(OvenIds(stages)))
SameCookAgain ==
    \A h \in Handlers : held[h].of # None =>
        /\ work[h].at # "refused"
        /\ held[h].recipe # None =>
             Again(held[h].recipe.stages) = Behavior(held[h].of.raw, held[h].of.extras)

(***************************************************************************)
(* Once the requests are answered and the refreshes are through, the       *)
(* recipes that can be started are those in the files: whatever was        *)
(* written, deleted or lost in between while the list was being read.      *)
(* (Two writes of one recipe at once are left out: see ReadsWhole.)        *)
(***************************************************************************)
Quiet ==
    /\ refresh = [Startup EXCEPT !.asked = 0]
    /\ \A h \in Handlers : work[h].at \in Over \cup {"new"}
CacheIsCurrent ==
    Quiet /\ ~overlap => recipes = {Content(id)[1] : id \in Present}

(***************************************************************************)
(* "Every write replaces a whole file atomically, so a concurrent read     *)
(* sees the old recipe or the new one" (RecipeFiles), and "so a crash      *)
(* never leaves a half-written file" (write_atomically).                   *)
(***************************************************************************)
ReadsWhole == \A id \in Ids : named[id] # None => Readable(Content(id))

(***************************************************************************)
(* A recipe that is there is whole, at every step of every write and after *)
(* a crash in the middle of one, as long as no two requests write the same *)
(* recipe at once.                                                         *)
(***************************************************************************)
WholeUnlessOverlapped == overlap \/ ReadsWhole
=============================================================================
