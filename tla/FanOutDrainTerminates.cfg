\* Refutes: a drain waits for active subscribers only (fanout.go:337).
SPECIFICATION FairSpec

CONSTANTS
    Subs = {c1}
    Producers = {p1}
    Admins = {a1}
    None = None
    Preds = {NilPred}
    NilPred = NilPred
    BufferOption = 1
    DefaultSubscriberBuffer = 2
    InitHooks = {{}}
    AdminCalls = {"shutdown"}
    MaxMsgs = 1
    HookMsgs = 0
    PredResult <- MCPredResult
    c1 = c1
    p1 = p1
    a1 = a1

PROPERTIES
    DrainTerminates

\* The system may stop: every handler gone, every call returned.
CHECK_DEADLOCK FALSE
