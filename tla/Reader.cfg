\* Every source, cut into pieces in every way.
SPECIFICATION Spec

CONSTANTS
    Sources <- MCSources
    Count = 2
    ParseLimit = 100

INVARIANTS
    PrefixOfMeaning
    
    CapEnforced
    IDsEchoable
    

\* Reading ends.
CHECK_DEADLOCK FALSE
