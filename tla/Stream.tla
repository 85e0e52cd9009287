------------------------------- MODULE Stream -------------------------------
(***************************************************************************)
(* One SSE response (stream.go): the request handler that sends events,    *)
(* the heartbeat goroutines it starts and forgets, goroutines that register *)
(* disconnect callbacks, and the HTTP server that takes the ResponseWriter *)
(* back when the handler returns.                                          *)
(*                                                                         *)
(* The handler is the only goroutine that calls Send and Close, as in the  *)
(* documentation and the examples; it may close more than once (explicitly *)
(* and by defer) and may still send in between.  Using the ResponseWriter  *)
(* takes time: a goroutine whose pc is in UsePC is inside Write or Flush.  *)
(***************************************************************************)
EXTENDS Integers, Sequences

CONSTANTS
    Handler,       \* the request's handler goroutine
    Heartbeats,    \* goroutines started with go stream.Heartbeat(ctx, d)
    Registrars,    \* other goroutines that call OnDisconnect
    OwnCtx,        \* heartbeats given stream.Context(); others: a context
                   \* that never ends
    HasFlusher,    \* the ResponseWriter implements Flush
    None,
    MaxCallbacks   \* bound: OnDisconnect calls in all

Goroutines == {Handler} \cup Heartbeats \cup Registrars

ASSUME GoroutinesDisjoint ==
    /\ Handler \notin Heartbeats \cup Registrars
    /\ Heartbeats \cap Registrars = {}
    /\ None \notin Goroutines
ASSUME CtxAssumption == OwnCtx \subseteq Heartbeats
ASSUME FlusherAssumption == HasFlusher \in BOOLEAN
ASSUME CallbackAssumption == MaxCallbacks \in Nat

VARIABLES
    mu,            \* holder of s.mu
    closed,        \* s.closed
    onDisconnect,  \* s.onDisconnect: callbacks, numbered as registered
    callbacks,     \* Close's local copy of the list
    ctxDone,       \* the request's context is done
    finished,      \* the server has taken the ResponseWriter back
    pc,
    ret,           \* where OnDisconnect returns to
    leaving,       \* the handler is returning: Close runs by defer
    registered,    \* history: number of callbacks registered
    fired          \* history: callbacks that have run, in order

cbVars   == <<onDisconnect, callbacks, registered, fired>>
restVars == <<closed, cbVars, ctxDone, finished, ret, leaving>>
vars == <<mu, pc, restVars>>

UsePC  == {"sendWrite", "sendFlush", "hbWrite", "hbFlush", "closeFlush"}
LockPC == {"sendLock", "hbLock", "closeLock", "regLock"}
CritPC == UsePC \cup {"hbCheck", "append", "close", "take"}   \* holding s.mu
RestPC == {"run", "callbacks", "callback", "returned", "off", "hbSelect", "done", "free"}

\* NewStream has written the headers and the 200 status.
Init ==
    /\ mu = None
    /\ closed = FALSE
    /\ onDisconnect = <<>> /\ callbacks = <<>>
    /\ ctxDone = FALSE /\ finished = FALSE /\ leaving = FALSE
    /\ pc = [g \in Goroutines |-> CASE g = Handler      -> "run"
                                    [] g \in Heartbeats -> "off"
                                    [] OTHER            -> "free"]
    /\ ret = [g \in Goroutines |-> IF g = Handler THEN "run" ELSE "free"]
    /\ registered = 0 /\ fired = <<>>

Goto(g, label) == pc' = [pc EXCEPT ![g] = label]

\* Mutant: the caller does not take the mutex.
NoLock(g, label) ==
    /\ mu' = mu
    /\ Goto(g, label)

\* s.mu.Lock(), and what comes after it.
Lock(g, label) ==
    /\ mu = None
    /\ mu' = g
    /\ Goto(g, label)

\* s.mu.Unlock(), and what comes after it.
Unlock(g, label) ==
    /\ mu' = None
    /\ Goto(g, label)

-----------------------------------------------------------------------------
(* Send, and its wrappers SendData, SendJSON, SendLines, SendKeyed.         *)

\* A wrapper that cannot marshal its payload returns without sending: no step.
CallSend ==
    /\ pc[Handler] = "run"
    /\ Goto(Handler, "sendLock")
    /\ UNCHANGED <<mu, restVars>>

SendLock ==
    /\ pc[Handler] = "sendLock"
    /\ Lock(Handler, "sendWrite")
    /\ UNCHANGED restVars

\* WriteEvent succeeds, or fails or is cut short: the deferred unlock.
SendWrite ==
    /\ pc[Handler] = "sendWrite"
    /\ \/ HasFlusher /\ Goto(Handler, "sendFlush") /\ UNCHANGED mu
       \/ Unlock(Handler, "run")
    /\ UNCHANGED restVars

SendFlush ==
    /\ pc[Handler] = "sendFlush"
    /\ Unlock(Handler, "run")
    /\ UNCHANGED restVars

-----------------------------------------------------------------------------
(* Heartbeat.                                                               *)

\* go stream.Heartbeat(ctx, interval)
StartHeartbeat(b) ==
    /\ pc[b] = "off"
    /\ pc[Handler] = "run"
    /\ Goto(b, "hbSelect")
    /\ UNCHANGED <<mu, restVars>>

\* case <-ctx.Done()
HeartbeatDone(b) ==
    /\ pc[b] = "hbSelect"
    /\ b \in OwnCtx /\ ctxDone
    /\ Goto(b, "done")
    /\ UNCHANGED <<mu, restVars>>

\* case <-ticker.C, possible even when ctx.Done() is ready too
Tick(b) ==
    /\ pc[b] = "hbSelect"
    /\ Goto(b, "hbLock")
    /\ UNCHANGED <<mu, restVars>>

\* Mutant: the ping is written without the mutex.
HeartbeatNoLock(b) ==
    /\ pc[b] = "hbLock"
    /\ NoLock(b, "hbCheck")
    /\ UNCHANGED restVars

HeartbeatLock(b) ==
    /\ pc[b] = "hbLock"
    /\ Lock(b, "hbCheck")
    /\ UNCHANGED restVars

\* Mutant: the tick does not look at closed.
HeartbeatNoCheck(b) ==
    /\ pc[b] = "hbCheck"
    /\ Goto(b, "hbWrite") /\ UNCHANGED mu
    /\ UNCHANGED restVars

\* Mutant: a tick on a closed stream is skipped, but the loop goes on.
HeartbeatSkips(b) ==
    /\ pc[b] = "hbCheck"
    /\ IF closed
       THEN Unlock(b, "hbSelect")
       ELSE Goto(b, "hbWrite") /\ UNCHANGED mu
    /\ UNCHANGED restVars

HeartbeatCheck(b) ==
    /\ pc[b] = "hbCheck"
    /\ IF closed
       THEN Unlock(b, "done")
       ELSE Goto(b, "hbWrite") /\ UNCHANGED mu
    /\ UNCHANGED restVars

\* The ping is written (and flushed), or the write fails and the loop ends.
HeartbeatWrite(b) ==
    /\ pc[b] = "hbWrite"
    /\ \/ HasFlusher /\ Goto(b, "hbFlush") /\ UNCHANGED mu
       \/ ~HasFlusher /\ Unlock(b, "hbSelect")
       \/ Unlock(b, "done")
    /\ UNCHANGED restVars

HeartbeatFlush(b) ==
    /\ pc[b] = "hbFlush"
    /\ Unlock(b, "hbSelect")
    /\ UNCHANGED restVars

-----------------------------------------------------------------------------
(* OnDisconnect, Close, and the end of the request.                         *)


\* Called by a registrar, by the handler, or by a callback that Close runs.
CallOnDisconnect(g) ==
    /\ pc[g] \in {"run", "callback", "free"}
    /\ registered < MaxCallbacks
    /\ ret' = [ret EXCEPT ![g] = pc[g]]
    /\ Goto(g, "regLock")
    /\ UNCHANGED <<mu, closed, cbVars, ctxDone, finished, leaving>>

OnDisconnectLock(g) ==
    /\ pc[g] = "regLock"
    /\ Lock(g, "append")
    /\ UNCHANGED restVars

OnDisconnect(g) ==
    /\ pc[g] = "append"
    /\ registered' = registered + 1
    /\ onDisconnect' = Append(onDisconnect, registered + 1)
    /\ Unlock(g, ret[g])
    /\ UNCHANGED <<closed, callbacks, ctxDone, finished, ret, leaving, fired>>

\* The handler closes the stream explicitly and carries on.
CallClose ==
    /\ pc[Handler] = "run"
    /\ Goto(Handler, "closeLock")
    /\ UNCHANGED <<mu, restVars>>

\* The handler leaves its loop (client gone, Send failed, channel closed);
\* its deferred Close runs.
Leave ==
    /\ pc[Handler] = "run"
    /\ leaving' = TRUE
    /\ Goto(Handler, "closeLock")
    /\ UNCHANGED <<mu, closed, cbVars, ctxDone, finished, ret>>

CloseLock ==
    /\ pc[Handler] = "closeLock"
    /\ Lock(Handler, "close")
    /\ UNCHANGED restVars

\* Mutant: closed is never set.
CloseForgets ==
    /\ pc[Handler] = "close"
    /\ Goto(Handler, IF HasFlusher THEN "closeFlush" ELSE "take")
    /\ UNCHANGED <<mu, restVars>>

CloseMark ==
    /\ pc[Handler] = "close"
    /\ closed' = TRUE
    /\ Goto(Handler, IF HasFlusher THEN "closeFlush" ELSE "take")
    /\ UNCHANGED <<mu, cbVars, ctxDone, finished, ret, leaving>>

CloseFlush ==
    /\ pc[Handler] = "closeFlush"
    /\ Goto(Handler, "take")
    /\ UNCHANGED <<mu, restVars>>

\* Mutant: the list is copied but not cleared.
TakeKeepsList ==
    /\ pc[Handler] = "take"
    /\ callbacks' = onDisconnect
    /\ Unlock(Handler, "callbacks")
    /\ UNCHANGED <<closed, onDisconnect, registered, fired, ctxDone, finished, ret, leaving>>

\* Mutant: the callbacks run before the mutex is released.
TakeKeepsLock ==
    /\ pc[Handler] = "take"
    /\ callbacks' = onDisconnect
    /\ onDisconnect' = <<>>
    /\ Goto(Handler, "callbacks")
    /\ UNCHANGED <<mu, closed, registered, fired, ctxDone, finished, ret, leaving>>

\* Take the list and release the mutex.
TakeCallbacks ==
    /\ pc[Handler] = "take"
    /\ callbacks' = onDisconnect
    /\ onDisconnect' = <<>>
    /\ Unlock(Handler, "callbacks")
    /\ UNCHANGED <<closed, registered, fired, ctxDone, finished, ret, leaving>>

FireCallback ==
    /\ pc[Handler] = "callbacks"
    /\ callbacks # <<>>
    /\ fired' = Append(fired, Head(callbacks))
    /\ callbacks' = Tail(callbacks)
    /\ Goto(Handler, "callback")
    /\ UNCHANGED <<mu, closed, onDisconnect, registered, ctxDone, finished, ret, leaving>>

CallbackReturns ==
    /\ pc[Handler] = "callback"
    /\ Goto(Handler, "callbacks")
    /\ UNCHANGED <<mu, restVars>>

CloseReturns ==
    /\ pc[Handler] = "callbacks"
    /\ callbacks = <<>>
    /\ Goto(Handler, IF leaving THEN "returned" ELSE "run")
    /\ UNCHANGED <<mu, restVars>>

\* The client goes away.
RequestDone ==
    /\ ~ctxDone
    /\ ctxDone' = TRUE
    /\ UNCHANGED <<mu, pc, closed, cbVars, finished, ret, leaving>>

\* net/http, after ServeHTTP: cancel the context, finish the response.
ServerFinish ==
    /\ pc[Handler] = "returned"
    /\ ~finished
    /\ ctxDone' = TRUE
    /\ finished' = TRUE
    /\ UNCHANGED <<mu, pc, closed, cbVars, ret, leaving>>

-----------------------------------------------------------------------------
HandlerStep ==
    \/ SendLock \/ SendWrite \/ SendFlush
    \/ CloseLock \/ CloseMark \/ CloseFlush \/ TakeCallbacks
    \/ FireCallback \/ CallbackReturns \/ CloseReturns

HeartbeatStep(b) ==
    \/ HeartbeatDone(b) \/ Tick(b) \/ HeartbeatLock(b) \/ HeartbeatCheck(b)
    \/ HeartbeatWrite(b) \/ HeartbeatFlush(b)

Next ==
    \/ CallSend \/ CallClose \/ Leave \/ HandlerStep
    \/ \E b \in Heartbeats : StartHeartbeat(b) \/ HeartbeatStep(b)
    \/ \E g \in {Handler} \cup Registrars :
        CallOnDisconnect(g) \/ OnDisconnectLock(g) \/ OnDisconnect(g)
    \/ RequestDone \/ ServerFinish

Spec == Init /\ [][Next]_vars

(***************************************************************************)
(* A runnable goroutine runs, the ticker ticks, and a goroutine that waits  *)
(* for the mutex gets it (sync.Mutex's starvation mode).  What the handler  *)
(* decides to call, and when the client leaves, is not fair.               *)
(***************************************************************************)
Fairness ==
    /\ WF_vars(HandlerStep) /\ SF_vars(SendLock) /\ SF_vars(CloseLock)
    /\ \A b \in Heartbeats : WF_vars(HeartbeatStep(b)) /\ SF_vars(HeartbeatLock(b))
    /\ \A g \in {Handler} \cup Registrars :
        SF_vars(OnDisconnectLock(g)) /\ WF_vars(OnDisconnect(g))
    /\ WF_vars(ServerFinish)

FairSpec == Spec /\ Fairness

-----------------------------------------------------------------------------
(* Safety.                                                                  *)

\* The values of the stream's fields and of each goroutine's place.
TypeOK ==
    /\ mu \in Goroutines \cup {None}
    /\ closed \in BOOLEAN /\ ctxDone \in BOOLEAN
    /\ finished \in BOOLEAN /\ leaving \in BOOLEAN
    /\ onDisconnect \in Seq(Nat) /\ callbacks \in Seq(Nat) /\ fired \in Seq(Nat)
    /\ registered \in Nat
    /\ pc \in [Goroutines -> CritPC \cup LockPC \cup RestPC]
    /\ ret \in [Goroutines -> {"run", "callback", "free"}]

\* The ResponseWriter, which is not safe for concurrent use, is never inside
\* a Write or a Flush of two goroutines at once.
ExclusiveUse ==
    \A g, h \in Goroutines : pc[g] \in UsePC /\ pc[h] \in UsePC => g = h

\* Nobody is writing to or flushing a ResponseWriter that the server has
\* taken back, although heartbeats outlive the handler that started them.
NoUseAfterFinish == finished => \A g \in Goroutines : pc[g] \notin UsePC

\* The callbacks registered so far are, in registration order: those that
\* have run, those the current Close still has to run, those waiting for the
\* next Close.  None is lost, run twice or overtaken, also when callbacks
\* register callbacks or the stream is closed again.
CallbackLedger ==
    (fired \o callbacks) \o onDisconnect = [i \in 1..registered |-> i]

-----------------------------------------------------------------------------
(* Why: the inductive invariant.                                            *)

HandlerPC ==
    {"run", "sendLock", "sendWrite", "sendFlush", "closeLock", "close", "closeFlush",
     "take", "callbacks", "callback", "returned", "regLock", "append"}
HeartbeatPC == {"off", "hbSelect", "hbLock", "hbCheck", "hbWrite", "hbFlush", "done"}

\* Each goroutine stays in its own code.
PlaceInv ==
    /\ pc[Handler] \in HandlerPC /\ ret[Handler] \in {"run", "callback"}
    /\ \A b \in Heartbeats : pc[b] \in HeartbeatPC
    /\ \A r \in Registrars : pc[r] \in {"free", "regLock", "append"} /\ ret[r] = "free"

\* The handler is past the critical section of a Close (in one of its
\* callbacks, perhaps inside the OnDisconnect that callback called).
InCallbacks ==
    \/ pc[Handler] \in {"callbacks", "callback"}
    \/ pc[Handler] \in {"regLock", "append"} /\ ret[Handler] = "callback"

\* Whoever is in a critical section holds the mutex; a ping is only written
\* on a stream that is not closed; a stream is closed before its handler
\* returns, and the response is finished after that.
StreamInv ==
    /\ \A g \in Goroutines : pc[g] \in CritPC <=> mu = g
    /\ \A b \in Heartbeats : pc[b] \in {"hbWrite", "hbFlush"} => ~closed
    /\ InCallbacks \/ pc[Handler] \in {"closeFlush", "take", "returned"} => closed
    /\ finished => pc[Handler] = "returned"
    /\ callbacks # <<>> => InCallbacks

-----------------------------------------------------------------------------
(* Liveness, under FairSpec.                                                *)

\* A heartbeat goroutine ends once the stream is closed, even when the
\* context it was given never is: it is not leaked.
HeartbeatsEnd ==
    \A b \in Heartbeats : closed /\ pc[b] # "off" ~> pc[b] = "done"

\* Close returns, whatever the callbacks register while it runs.
CloseEnds == pc[Handler] = "closeLock" ~> pc[Handler] \in {"run", "returned"}
=============================================================================
