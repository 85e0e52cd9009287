\* Two administrators close and shut down while handlers come and go.
SPECIFICATION Spec

CONSTANTS
    Subs = {c1, c2}
    Producers = {p1}
    Admins = {a1, a2}
    None = None
    Preds = {NilPred}
    NilPred = NilPred
    BufferOption = 1
    DefaultSubscriberBuffer = 2
    InitHooks = {{}}
    AdminCalls = {"close", "shutdown"}
    MaxMsgs = 1
    HookMsgs = 1
    PredResult <- MCPredResult
    c1 = c1
    c2 = c2
    p1 = p1
    a1 = a1
    a2 = a2

SYMMETRY SymSubsAdmins

INVARIANTS
    NoPanic
    NoOrphan
    DrainCoversSubscribers
    HubInv

PROPERTIES
    ImplementsTopic

\* The system may stop: every handler gone, every call returned.
CHECK_DEADLOCK FALSE
