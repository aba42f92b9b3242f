\* Requests that write, delete and save one recipe at once.
SPECIFICATION Spec
CONSTANTS
    None = None
    bread = bread
    h1 = h1
    h2 = h2
    h3 = h3
    Handlers = {h1, h2, h3}
    Kept = {bread}
    Titles <- MCTitles
    Library <- MCLibrary
    Plans <- RacePlans
INVARIANT ReadsWhole
CHECK_DEADLOCK FALSE
