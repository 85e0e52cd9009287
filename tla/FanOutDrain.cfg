\* Whether a drain ends while handlers leave and their hooks broadcast.
SPECIFICATION FairSpec

CONSTANTS
    Subs = {c1, c2}
    Producers = {}
    Admins = {a1}
    None = None
    Preds = {NilPred}
    NilPred = NilPred
    BufferOption = 1
    DefaultSubscriberBuffer = 2
    InitHooks = {{"onUnsubscribe"}}
    AdminCalls = {"shutdown"}
    MaxMsgs = 0
    HookMsgs = 3
    PredResult <- MCPredResult
    c1 = c1
    c2 = c2
    a1 = a1

PROPERTIES
    DeadlineHonoured
    StallsOnlyOnAbandoned

\* The system may stop: every handler gone, every call returned.
CHECK_DEADLOCK FALSE
