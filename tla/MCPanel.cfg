\* The panel's screens and its API task beside a user and another client.
SPECIFICATION FairSpec
CONSTANTS
    None = None
    MaxRecipes = 1
    ChannelSize = 2
    CallTimeout = 1
    Refresh = 1
    StartRefresh = 1
    StatusEvery = 1
    CookEvery = 2
    RecipesEvery = 3
    BackoffFails = 2
    BackoffEvery = 2
    MaxFails = 2
    MaxLate = 5
    Grace = 2
    OfflineThreshold = 2
    MenuTimeout = 1
    StopConfirm = 1
    Confirm = 2
    DimDelay = 1
    Budgets <- MCBudgets
INVARIANTS TypeOK PressesGoOutInTime
PROPERTIES CallsAnswerPresses CatchesUp
