\* Three requests at once and a crash; the cooks that can be set up.
SPECIFICATION Spec
CONSTANTS
    None = None
    bread = bread
    h1 = h1
    h2 = h2
    h3 = h3
    Handlers = {h1, h2, h3}
    Kept = {bread}
    Titles <- MCTitles
    Library <- MCLibrary
    Plans <- MCPlans
INVARIANTS SameCookAgain CacheIsCurrent WholeUnlessOverlapped
CHECK_DEADLOCK FALSE
