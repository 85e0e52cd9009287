\* Buffers and a store that are never full.
SPECIFICATION Spec

CONSTANTS
    MaxEvents = 3
    MaxConns = 2
    StoreCap = 3
    BufSize = 12
    Recipes <- MCExample

INVARIANT
    Lossless
