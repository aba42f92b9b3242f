SPECIFICATION FairSpec
CONSTANTS
    bread = bread
    toast = toast
    steak = steak
    stew = stew
    Cooks = {bread, toast, steak, stew}
    Stages <- MCStages
    None = None
    LocalCooks <- MCLocalCooks
    CloudCooks <- MCCloudCooks
    ServerCooks = {toast, stew}
    LeftOut = {TRUE}
    MaxReplaced = 1
INVARIANT ReadyIsEarned
PROPERTY ProgressCatchesUp
