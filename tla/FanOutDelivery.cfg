\* Who gets which message: batches interleaved with what unsubscribe hooks
\* send, filters, a buffer of one, a drop hook that comes and goes.
SPECIFICATION Spec

CONSTANTS
    Subs = {c1, c2}
    Producers = {p1}
    Admins = {a1}
    None = None
    Preds = {NilPred, Odd}
    NilPred = NilPred
    BufferOption = 0
    DefaultSubscriberBuffer = 1
    InitHooks = {{"onUnsubscribe"}}
    AdminCalls = {"onDrop", "close"}
    MaxMsgs = 2
    HookMsgs = 1
    PredResult <- MCPredResult
    c1 = c1
    c2 = c2
    p1 = p1
    a1 = a1
    Odd = Odd

SYMMETRY SymSubs

INVARIANTS
    TypeOK
    InOrder
    FilterRespected
    DeliveryInv

PROPERTIES
    NoSilentLoss
    ImplementsTopic

\* The system may stop: every handler gone, every call returned.
CHECK_DEADLOCK FALSE
