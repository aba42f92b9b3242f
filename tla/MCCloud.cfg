\* Two troubles, one cook, one stop; the token expires while the link is up.
SPECIFICATION FairSpec
CONSTANTS
    Cooks = {c1}
    Requests = {r1}
    None = None
    LastStage = 1
    PreheatCooks = {}
    WaitingCooks = {}
    SameRecipe = FALSE
    Local = FALSE
    MaxPendingControls = 1
    StateTimeout = 2
    TokenTtl = 2
    TokenLife = 3
    MaxDown = 1
    MaxWire = 2
    MaxEvents = 1
    MaxTroubles = 2
INVARIANT TypeOK
INVARIANT SilenceShows
INVARIANT AcceptedIsSent
PROPERTY OnlyNewsRevives
PROPERTY OutageGrows
PROPERTY CatchesUp
