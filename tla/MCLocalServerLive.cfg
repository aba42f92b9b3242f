CONSTANTS
    Cooks = {c1}
    Requests = {r1, r2, r3, r4, r5, r6}
    None = None
    LastStage = 2
    PreheatCooks = {}
    WaitingCooks = {}
    SameRecipe = FALSE
    LampPreference = TRUE
    Local = TRUE
    MaxPendingControls = 2
    HistoryLimit = 2
    RecipeFound = {TRUE}
    TurnOffChoices = {TRUE}
    ClientRequests = {"stop", "lampOff", "nextStage"}
    MaxWsEvt = 1
    MaxWsCmd = 1
    MaxStore = 1
    Budgets <- ActOrTicks
SPECIFICATION FairSpec
PROPERTY StartResolved
CHECK_DEADLOCK FALSE
