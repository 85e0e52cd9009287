\* A tab that in the end stays connected.
SPECIFICATION FairSpec

CONSTANTS
    MaxEvents = 3
    MaxConns = 2
    StoreCap = 2
    BufSize = 1
    Recipes <- MCExample

PROPERTIES
    CatchesUp
    StaleHandlersLeave
