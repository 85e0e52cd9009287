------------------------------- MODULE Server -------------------------------
(***************************************************************************)
(* The example server's life (example/datastar/main.go) around the hub of  *)
(* module FanOut: requests are accepted while the listener is open, their  *)
(* handlers subscribe and forward, the producer emits, and a signal, or a  *)
(* listener that fails, makes main shut the HTTP server and then the hub   *)
(* down under one deadline and exit, ending every goroutine.               *)
(*                                                                         *)
(* net/http is external: Server.Shutdown closes the listener, leaves       *)
(* running handlers and their contexts alone, and returns when the last    *)
(* one has returned or the context it was given is done.                   *)
(***************************************************************************)
EXTENDS FanOut

CONSTANTS
    Main,      \* main's goroutine
    EmitMsgs   \* messages in a batch of the producer: two in the code, the
               \* event and the total

ASSUME MainAssumption == Admins = {Main}
ASSUME EmitAssumption == EmitMsgs \in 0 .. MaxMsgs

VARIABLES
    main,      \* where main is: "serve", "http", "hub" or "exited"
    listener,  \* of http.Server: "starting", "open" or "closed"
    stopped,   \* ctx is done: a signal came, or stop() was called
    producing, \* startProducer's loop runs
    conns,     \* requests accepted whose handlers have not returned
    expired,   \* shutdownCtx is done
    httpErr    \* httpServer.Shutdown returned an error

serverVars == <<main, listener, stopped, producing, conns, expired, httpErr>>
allVars == <<vars, serverVars>>

ServerInit ==
    /\ Init
    /\ main = "serve" /\ listener = "starting" /\ stopped = FALSE
    /\ producing = TRUE /\ conns = {} /\ expired = FALSE /\ httpErr = FALSE

Running == main # "exited"
-----------------------------------------------------------------------------
(* Requests *)

\* ListenAndServe gets its port, unless the server is already shut down.
Listen ==
    /\ listener = "starting"
    /\ listener' = "open"
    /\ UNCHANGED <<vars, main, stopped, producing, conns, expired, httpErr>>

\* It fails, to get its port or later to accept: it closes the listener, and
\* the goroutine logs the error and calls stop().
ListenFails ==
    /\ listener \in {"starting", "open"}
    /\ listener' = "closed" /\ stopped' = TRUE
    /\ UNCHANGED <<vars, main, producing, conns, expired, httpErr>>

\* Mutant: requests come in after the listener is closed.
AcceptAlways(c) ==
    /\ pc[c] = "new" /\ c \notin conns
    /\ conns' = conns \cup {c}
    /\ UNCHANGED <<vars, main, listener, stopped, producing, expired, httpErr>>

Accept(c) ==
    /\ listener = "open"
    /\ pc[c] = "new" /\ c \notin conns
    /\ conns' = conns \cup {c}
    /\ UNCHANGED <<vars, main, listener, stopped, producing, expired, httpErr>>

\* eventsHandler up to its subscription: it returns early when a write to the
\* stream fails, and otherwise subscribes.
WriteFails(c) ==
    /\ c \in conns /\ pc[c] = "new"
    /\ conns' = conns \ {c}
    /\ UNCHANGED <<vars, main, listener, stopped, producing, expired, httpErr>>

SubscribeForRequest(c) ==
    /\ c \in conns
    /\ CallSubscribe(c)
    /\ UNCHANGED serverVars

\* Mutant: the handler returns without its deferred Unsubscribe.
ReturnsSubscribed(c) ==
    /\ c \in conns /\ pc[c] \in {"loop", "gone"}
    /\ Goto(c, "gone")
    /\ conns' = conns \ {c}
    /\ UNCHANGED <<hubVars, lockVars, chanVars, sendVars, admVars, history>>
    /\ UNCHANGED <<main, listener, stopped, producing, expired, httpErr>>

\* The handler has run its deferred Unsubscribe and stream.Close.
HandlerReturns(c) ==
    /\ c \in conns /\ pc[c] = "gone"
    /\ conns' = conns \ {c}
    /\ UNCHANGED <<vars, main, listener, stopped, producing, expired, httpErr>>
-----------------------------------------------------------------------------
(* The producer *)

\* emit broadcasts a batch, at once and then on each tick.
Emit(p) ==
    /\ producing
    /\ CallBroadcast(p, EmitMsgs)
    /\ UNCHANGED serverVars

\* case <-ctx.Done(), looked at only after the first emit.
StopProducer ==
    /\ producing /\ stopped
    /\ \A p \in Producers : pc[p] = "idle" /\ next[p] > 0
    /\ producing' = FALSE
    /\ UNCHANGED <<vars, main, listener, stopped, conns, expired, httpErr>>
-----------------------------------------------------------------------------
(* main *)

Signal ==
    /\ ~stopped
    /\ stopped' = TRUE
    /\ UNCHANGED <<vars, main, listener, producing, conns, expired, httpErr>>

\* <-ctx.Done(), then httpServer.Shutdown(shutdownCtx) closes the listener.
HttpShutdown ==
    /\ main = "serve" /\ stopped
    /\ main' = "http" /\ listener' = "closed"
    /\ UNCHANGED <<vars, stopped, producing, conns, expired, httpErr>>

HttpDrained == main = "http" /\ conns = {}

\* Mutant: httpServer.Shutdown gets a context without a deadline.
HttpNeverExpires == FALSE

HttpExpired == main = "http" /\ expired

\* httpServer.Shutdown returns, with or without an error; main goes on to
\* broadcaster.Shutdown(shutdownCtx).
HubShutdown ==
    /\ \/ HttpDrained /\ UNCHANGED httpErr
       \/ HttpExpired /\ httpErr' = TRUE
    /\ main' = "hub"
    /\ CallShutdown(Main)
    /\ UNCHANGED <<listener, stopped, producing, conns, expired>>

\* The deadline of shutdownCtx.
Timeout ==
    /\ main \in {"http", "hub"} /\ ~expired
    /\ expired' = TRUE
    /\ UNCHANGED <<vars, main, listener, stopped, producing, conns, httpErr>>

\* broadcaster.Shutdown finds it done.
HubTimeout ==
    /\ expired
    /\ CtxDone(Main)
    /\ UNCHANGED serverVars

\* main returns: the process, and every goroutine with it, is gone.
Exit ==
    /\ main = "hub" /\ pc[Main] = "idle"
    /\ main' = "exited"
    /\ UNCHANGED <<vars, listener, stopped, producing, conns, expired, httpErr>>

MainStep == HttpShutdown \/ HubShutdown \/ Exit
-----------------------------------------------------------------------------
\* The hub's goroutines.  A handler whose request has ended leaves its loop.
HubStep ==
    /\ \/ \E g \in Goroutines : AcquireW(g)
       \/ \E c \in Subs : Disconnect(c) \/ HandlerStep(c)
       \/ \E g \in Senders : CastStep(g)
       \/ AdminStep(Main)
    /\ UNCHANGED serverVars

Environment ==
    \/ Listen \/ ListenFails \/ Signal \/ Timeout \/ HubTimeout \/ StopProducer
    \/ \E c \in Subs :
          Accept(c) \/ WriteFails(c) \/ SubscribeForRequest(c) \/ HandlerReturns(c)
    \/ \E p \in Producers : Emit(p)

ServerNext == Running /\ (HubStep \/ Environment \/ MainStep)

ServerSpec == ServerInit /\ [][ServerNext]_allVars

(***************************************************************************)
(* Goroutines run until the process ends, a contended lock is won in the   *)
(* end, and deadlines pass.  Requests, writes, signals and clients that    *)
(* leave are not fair.                                                     *)
(***************************************************************************)
HandlerRuns(c) ==
    \/ SubscribeForRequest(c) \/ HandlerReturns(c)
    \/ (HandlerStep(c) \/ CastStep(c)) /\ UNCHANGED serverVars

MainRuns == MainStep \/ (AdminStep(Main) /\ UNCHANGED serverVars)

ServerFairness ==
    /\ \A g \in Subs \cup Admins : SF_allVars(Running /\ AcquireW(g) /\ UNCHANGED serverVars)
    /\ \A c \in Subs : WF_allVars(Running /\ HandlerRuns(c))
    /\ \A p \in Producers : WF_allVars(Running /\ CastStep(p) /\ UNCHANGED serverVars)
    /\ WF_allVars(Running /\ MainRuns)
    /\ SF_allVars(Running /\ Deadline(Main) /\ UNCHANGED serverVars)
    /\ WF_allVars(Running /\ (Timeout \/ HubTimeout))

ServerFairSpec == ServerSpec /\ ServerFairness
-----------------------------------------------------------------------------
\* Every behaviour of the server is one of the hub: what is proved of the hub
\* holds in the server.
ImplementsHub == Spec

\* If httpServer.Shutdown returns without an error the exit is clean: every
\* request that was accepted has been served to its end, no handler is left
\* subscribed, and the hub is closed -- even if the deadline passes before
\* the hub's turn, because there is nothing left to drain.
GracefulExit ==
    main = "exited" /\ ~httpErr =>
        /\ conns = {} /\ subscribers = {} /\ nilMap
        /\ \A c \in Subs : pc[c] \in {"new", "gone"}

\* Why the exit is clean.  Shutting down closes the listener for good; only
\* accepted requests run handlers; without an error nobody is served when
\* the hub's turn comes, so its Shutdown has nobody to wait for, never gets to
\* select on the context, and ends by closing the hub.
ServerInv ==
    /\ main \in {"serve", "http", "hub", "exited"}
    /\ main # "serve" => listener = "closed"
    /\ \A c \in Subs \ conns : pc[c] \in {"new", "gone"}
    /\ main \in {"serve", "http"} => pc[Main] = "idle" /\ ~httpErr
    /\ pc[Main] \notin {"close", "set"}
    /\ pc[Main] \in {"idle", "begin"} => ~notDrained[Main]
    /\ main = "exited" => pc[Main] = "idle"
    /\ main \in {"hub", "exited"} /\ ~httpErr =>
        /\ conns = {}
        /\ \/ pc[Main] = "begin"
           \/ pc[Main] = "scan" /\ snap[Main] = {} /\ ~notDrained[Main]
           \/ pc[Main] = "finish"
           \/ pc[Main] = "idle" /\ nilMap

\* Whatever tabs, hooks and the producer do, the process ends once a signal
\* has come or the listener has failed: waiting handlers only use up the
\* deadline, and the hub's locks are free for its Shutdown.
ExitsAfterSignal == stopped ~> main = "exited"
=============================================================================
