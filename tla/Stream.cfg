\* One request with two heartbeats, one of them with a context that never
\* ends, and a goroutine registering callbacks.
SPECIFICATION FairSpec

CONSTANTS
    Handler = h
    Heartbeats = {b1, b2}
    Registrars = {r}
    OwnCtx = {b1}
    HasFlusher = TRUE
    None = None
    MaxCallbacks = 2
    b1 = b1
    b2 = b2
    r = r

INVARIANTS
    StreamInv
    ExclusiveUse
    NoUseAfterFinish
    CallbackLedger

PROPERTIES
    HeartbeatsEnd
    CloseEnds

\* Heartbeats, handler and registrars all end.
CHECK_DEADLOCK FALSE
