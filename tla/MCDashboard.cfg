SPECIFICATION FairSpec
CONSTANTS
    bread = bread
    steak = steak
    Cooks = {bread, steak}
    Stages <- MCStages
    None = None
    MaxReplaced = 1
    MaxOutages = 1
INVARIANT AnnouncedOnce
PROPERTY TopicsCatchUp
