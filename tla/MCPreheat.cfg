CONSTANTS
    Cooks = {c1, c2}
    Requests = {r1, r2, r3, r4, r5, r6}
    None = None
    LastStage = 2
    PreheatCooks = {c1, c2}
    WaitingCooks = {c2}
    SameRecipe = FALSE
    LampPreference = TRUE
    Local = TRUE
    MaxPendingControls = 2
    HistoryLimit = 2
    RecipeFound = {TRUE, FALSE}
    TurnOffChoices = {FALSE}
    ClientRequests = {}
    MaxWsEvt = 1
    MaxWsCmd = 1
    MaxStore = 1
    Budgets <- ReconnectOrTicks
SPECIFICATION Spec
PROPERTIES WaitingStays ReachedWhenNear
CHECK_DEADLOCK FALSE
