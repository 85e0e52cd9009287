\* Two tabs, the producer and main: signal, deadline, exit.  The hooks take
\* the lock and send nothing; the producer's batch fills a buffer.
SPECIFICATION ServerFairSpec

CONSTANTS
    Subs = {c1, c2}
    Producers = {p1}
    Admins = {main}
    Main = main
    None = None
    Preds = {NilPred}
    NilPred = NilPred
    BufferOption = 1
    DefaultSubscriberBuffer = 2
    InitHooks = {{"onSubscribe", "onUnsubscribe"}}
    AdminCalls = {"shutdown"}
    MaxMsgs = 1
    EmitMsgs = 1
    HookMsgs = 0
    PredResult <- MCPredResult
    c1 = c1
    c2 = c2
    p1 = p1
    main = main

INVARIANTS
    GracefulExit

PROPERTIES
    ImplementsHub
    ExitsAfterSignal

\* The process exits.
CHECK_DEADLOCK FALSE
