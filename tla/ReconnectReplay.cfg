\* Up to three connections, a store of two events, a buffer of one.
SPECIFICATION Spec

CONSTANTS
    MaxEvents = 3
    MaxConns = 3
    StoreCap = 2
    BufSize = 1
    Recipes <- MCBoth

INVARIANTS
    NoUnexplainedLoss
    OrderedAtMostTwice
    UnwantedOnlyReplayed
    TabInv
