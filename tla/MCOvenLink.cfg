CONSTANTS
    Cooks = {c1}
    Requests = {r1, r2}
    None = None
    LastStage = 1
    PreheatCooks = {}
    WaitingCooks = {}
    SameRecipe = FALSE
    LampPreference = TRUE
    MaxWsEvt = 1
SPECIFICATION FairSpec
INVARIANTS OnePlace IInv
PROPERTIES KeepsPromise EveryCommandAnswered
