\* Handlers whose hooks broadcast to each other while the hub closes.
SPECIFICATION FairSpec

CONSTANTS
    Subs = {c1, c2}
    Producers = {}
    Admins = {a1}
    None = None
    Preds = {NilPred}
    NilPred = NilPred
    BufferOption = 1
    DefaultSubscriberBuffer = 2
    InitHooks = {{"onSubscribe", "onUnsubscribe"}}
    AdminCalls = {"close"}
    MaxMsgs = 0
    HookMsgs = 1
    PredResult <- MCPredResult
    c1 = c1
    c2 = c2
    a1 = a1


PROPERTIES
    CallsReturn
    HandlersEnd

\* The system may stop: every handler gone, every call returned.
CHECK_DEADLOCK FALSE
