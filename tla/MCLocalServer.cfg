CONSTANTS
    Cooks = {c1, c2}
    Requests = {r1, r2, r3, r4, r5, r6}
    None = None
    LastStage = 1
    PreheatCooks = {}
    WaitingCooks = {}
    SameRecipe = FALSE
    LampPreference = TRUE
    Local = TRUE
    MaxPendingControls = 2
    HistoryLimit = 2
    RecipeFound = {TRUE}
    TurnOffChoices = {FALSE}
    ClientRequests = {"stop", "save"}
    MaxWsEvt = 1
    MaxWsCmd = 1
    MaxStore = 1
    Budgets <- ActOrFaults
SPECIFICATION Spec
INVARIANTS TypeOK RequestsTracked HistoryShown JournalFollowsOven JournalHoldsStart
PROPERTY SeenCookKept
CHECK_DEADLOCK FALSE
SYMMETRY CookSymmetry
