\* Every helper against every kind of handler, and every order of options.
SPECIFICATION FairSpec

CONSTANTS
    Cases <- MCCases

INVARIANTS
    RequestAsConfigured
    CollectInv

PROPERTIES
    
    TestEnds
    TimeoutBounds

\* The test ends; its cleanup may wait for a handler that never returns.
CHECK_DEADLOCK FALSE
