---------------------------- MODULE ServerProofs ----------------------------
(***************************************************************************)
(* The example server uses the hub only as the hub's model allows, so the  *)
(* theorems about the hub hold in the server, whatever its tabs, signals   *)
(* and deadlines do; and an HTTP shutdown without an error makes its exit  *)
(* a clean one.                                                            *)
(***************************************************************************)
EXTENDS Server, FanOutProofs

USE DEF Senders, Goroutines

\* A step of the hub's goroutines in the server is one of the hub's.
LEMMA HubStepIsNext == HubStep => Next
  <1> USE MainAssumption DEF Goroutines
  <1>1. (\E g \in Goroutines : AcquireW(g)) => Next
    BY DEF Next
  <1>2. (\E c \in Subs : Disconnect(c) \/ HandlerStep(c)) => Next
    BY DEF Next
  <1>3. (\E g \in Senders : CastStep(g)) => Next
    BY DEF Next
  <1>4. AdminStep(Main) => Next
    BY DEF Next
  <1> QED BY <1>1, <1>2, <1>3, <1>4 DEF HubStep

\* What main does to the hub is to call Shutdown.
LEMMA MainStepIsNext == MainStep => [Next]_vars
  <1>1. HubShutdown => Next
    BY MainAssumption DEF HubShutdown, Next
  <1> QED BY <1>1 DEF MainStep, HttpShutdown, Exit

\* Requests subscribe, the producer broadcasts, the deadline ends Shutdown's
\* context; everything else around the hub leaves it alone.
LEMMA EnvironmentIsNext == Environment => [Next]_vars
  <1>1. ASSUME NEW c \in Subs, SubscribeForRequest(c) PROVE Next
    BY <1>1 DEF SubscribeForRequest, Next
  <1>2. ASSUME NEW p \in Producers, Emit(p) PROVE Next
    BY <1>2, EmitAssumption DEF Emit, Next
  <1>3. HubTimeout => Next
    BY MainAssumption DEF HubTimeout, Next
  <1>4. ASSUME NEW c \in Subs, Accept(c) \/ WriteFails(c) \/ HandlerReturns(c)
        PROVE  UNCHANGED vars
    BY <1>4 DEF Accept, WriteFails, HandlerReturns
  <1>5. Listen \/ ListenFails \/ Signal \/ Timeout \/ StopProducer => UNCHANGED vars
    BY DEF Listen, ListenFails, Signal, Timeout, StopProducer
  <1> QED BY <1>1, <1>2, <1>3, <1>4, <1>5 DEF Environment

\* Every behaviour of the server is a behaviour of the hub.
THEOREM ServerImplementsHub == ServerSpec => ImplementsHub
  <1>1. ServerInit => Init
    BY DEF ServerInit
  <1>2. [ServerNext]_allVars => [Next]_vars
    BY HubStepIsNext, MainStepIsNext, EnvironmentIsNext DEF ServerNext, allVars
  <1> QED BY <1>1, <1>2, PTL DEF ServerSpec, ImplementsHub, Spec

\* So no goroutine of the server panics on a closed channel ...
THEOREM ServerNeverPanics == ServerSpec => []NoPanic
  BY ServerImplementsHub, NeverPanics, PTL DEF ImplementsHub

\* ... and no tab's handler is left on a channel the hub has forgotten.
THEOREM ServerNeverOrphaned == ServerSpec => []NoOrphan
  BY ServerImplementsHub, NeverOrphaned, PTL DEF ImplementsHub

\* The server's tabs and its producer see a topic.
THEOREM ServerImplementsTopic == ServerSpec => ImplementsTopic
  BY ServerImplementsHub, HubImplementsTopic, PTL DEF ImplementsHub

-----------------------------------------------------------------------------
(* The clean exit.                                                          *)

\* Init establishes the server's invariant.
LEMMA InitServer == ServerInit => ServerInv
  BY MainAssumption, GoroutinesDisjoint DEF ServerInit, Init, ServerInv

\* A step of a handler or of a fan-out, of one of the goroutines that accepted
\* requests or the producer run, preserves it.
LEMMA GoroutineServer ==
  ASSUME TypeOK, ServerInv, NEW g \in Senders,
         pc[g] \notin {"new", "gone"}, pc' = [pc EXCEPT ![g] = pc'[g]],
         UNCHANGED <<nilMap, admVars>>, UNCHANGED serverVars
  PROVE  ServerInv'
<1> USE MainAssumption, GoroutinesDisjoint DEF serverVars, admVars
<1>1. pc'[Main] = pc[Main]
  BY DEF TypeOK, GoroutineType
<1>2. \A c \in Subs \ conns : pc'[c] = pc[c]
  BY DEF ServerInv, TypeOK, GoroutineType
<1> QED BY <1>1, <1>2 DEF ServerInv

\* A clean HTTP shutdown leaves nobody subscribed.
LEMMA NobodyLeft ==
  ASSUME TypeOK, HubInv, GoneInv, ServerInv, conns = {}
  PROVE  subscribers = {}
<1> SUFFICES ASSUME NEW c \in subscribers PROVE FALSE
  OBVIOUS
<1>1. c \in Subs /\ chan[c] = "open"
  BY DEF HubInv, NoOrphan, TypeOK, HubType
<1>2. pc[c] \in {"new", "gone"}
  BY <1>1 DEF ServerInv
<1> QED BY <1>1, <1>2 DEF HubInv, ChanInv, GoneInv

\* A step of main inside broadcaster.Shutdown preserves it: after a clean HTTP
\* shutdown the snapshot is empty and the drain is over at its first poll.
LEMMA AdminServer ==
  ASSUME TypeOK, HubInv, GoneInv, ServerInv, AdminStep(Main), main # "exited",
         UNCHANGED serverVars
  PROVE  ServerInv'
<1> USE MainAssumption, GoroutinesDisjoint DEF serverVars, Goto
<1> DEFINE Clean == /\ conns = {}
                    /\ \/ pc[Main] = "begin"
                       \/ pc[Main] = "scan" /\ snap[Main] = {} /\ ~notDrained[Main]
                       \/ pc[Main] = "finish"
                       \/ pc[Main] = "idle" /\ nilMap
           Reset == /\ pc[Main] \notin {"close", "set"}
                    /\ pc[Main] \in {"idle", "begin"} => ~notDrained[Main]
<1>1. SUFFICES pc[Main] # "idle" /\ (\A c \in Subs : pc'[c] = pc[c])
               /\ (~httpErr /\ Clean => Clean') /\ Reset'
  BY DEF ServerInv
<1> USE DEF TypeOK, GoroutineType
<1>2. CASE Close(Main)
  BY <1>2 DEF Close, ServerInv
<1>3. CASE \E h \in HookNames : SetHook(Main, h)
  BY <1>3 DEF SetHook, ServerInv
<1>4. CASE ShutdownBegin(Main)
  BY <1>4, NobodyLeft DEF ShutdownBegin, ShutdownReturns, ServerInv
<1>5. CASE \E c \in Subs : Scan(Main, c)
  BY <1>5 DEF Scan
<1>6. CASE ScanEnd(Main)
  BY <1>6 DEF ScanEnd
<1>7. CASE Deadline(Main)
  BY <1>7 DEF Deadline, ShutdownReturns
<1>8. CASE Repoll(Main)
  BY <1>8 DEF Repoll
<1>9. CASE ShutdownFinish(Main)
  BY <1>9 DEF ShutdownFinish, ShutdownReturns
<1> QED BY <1>2, <1>3, <1>4, <1>5, <1>6, <1>7, <1>8, <1>9 DEF AdminStep

\* What happens around the hub preserves it: requests come in only while main
\* serves, and only a handler that is done ends one.
LEMMA EnvironmentServer ==
  ASSUME TypeOK, ServerInv, Environment
  PROVE  ServerInv'
<1> USE MainAssumption, GoroutinesDisjoint DEF ServerInv
<1>1. CASE Listen \/ ListenFails \/ Signal \/ Timeout \/ StopProducer
  BY <1>1 DEF Listen, ListenFails, Signal, Timeout, StopProducer,
              vars, hubVars, admVars
<1>2. CASE HubTimeout
  BY <1>2 DEF HubTimeout, CtxDone, serverVars, hubVars
<1>3. ASSUME NEW c \in Subs, Accept(c) \/ WriteFails(c) \/ HandlerReturns(c)
      PROVE  ServerInv'
  BY <1>3 DEF Accept, WriteFails, HandlerReturns, vars, hubVars, admVars
<1>4. ASSUME NEW c \in Subs, SubscribeForRequest(c) PROVE ServerInv'
  BY <1>4 DEF SubscribeForRequest, CallSubscribe, Goto, serverVars, hubVars, admVars,
              TypeOK, GoroutineType
<1>5. ASSUME NEW p \in Producers, Emit(p) PROVE ServerInv'
  BY <1>5 DEF Emit, CallBroadcast, Goto, serverVars, hubVars, admVars,
              TypeOK, GoroutineType
<1> QED BY <1>1, <1>2, <1>3, <1>4, <1>5 DEF Environment

\* main's own steps preserve it.
LEMMA MainServer ==
  ASSUME TypeOK, ServerInv, MainStep
  PROVE  ServerInv'
<1> USE MainAssumption, GoroutinesDisjoint DEF ServerInv
<1>1. CASE HttpShutdown
  BY <1>1 DEF HttpShutdown, vars, hubVars, admVars
<1>2. CASE HubShutdown
  BY <1>2 DEF HubShutdown, HttpDrained, HttpExpired, CallShutdown, Goto, hubVars, admVars,
              TypeOK, GoroutineType
<1>3. CASE Exit
  BY <1>3 DEF Exit, vars, hubVars, admVars
<1> QED BY <1>1, <1>2, <1>3 DEF MainStep

\* Every step of the server preserves it.
LEMMA NextServer ==
  TypeOK /\ HubInv /\ GoneInv /\ ServerInv /\ [ServerNext]_allVars => ServerInv'
<1> SUFFICES ASSUME TypeOK, HubInv, GoneInv, ServerInv, [ServerNext]_allVars
             PROVE  ServerInv'
  OBVIOUS
<1>1. CASE UNCHANGED allVars
  BY <1>1 DEF allVars, vars, serverVars, hubVars, admVars, ServerInv
<1>2. ASSUME HubStep, main # "exited" PROVE ServerInv'
  <2>1. ASSUME NEW g \in Goroutines, AcquireW(g), UNCHANGED serverVars PROVE ServerInv'
    BY <2>1 DEF AcquireW, serverVars, hubVars, admVars, ServerInv
  <2>2. ASSUME NEW c \in Subs, Disconnect(c) \/ HandlerStep(c), UNCHANGED serverVars
        PROVE  ServerInv'
    BY <2>2, HandlerFrame, GoroutineServer
  <2>3. ASSUME NEW g \in Senders, CastStep(g), UNCHANGED serverVars PROVE ServerInv'
    BY <2>3, CastFrame, GoroutineServer DEF CastPC
  <2>4. ASSUME AdminStep(Main), UNCHANGED serverVars PROVE ServerInv'
    BY <1>2, <2>4, AdminServer
  <2> QED BY <1>2, <2>1, <2>2, <2>3, <2>4 DEF HubStep
<1> QED BY <1>1, <1>2, EnvironmentServer, MainServer DEF ServerNext, Running

\* The server's invariant holds in every reachable state.
THEOREM ServerInvariant == ServerSpec => []ServerInv
<1>1. ServerSpec => []TypeOK /\ []HubInv /\ []GoneInv
  BY ServerImplementsHub, TypeCorrect, HubInvariant, HandlersLeaveClosed, PTL
     DEF ImplementsHub
<1> QED BY <1>1, InitServer, NextServer, PTL DEF ServerSpec

\* If httpServer.Shutdown returns without an error, the process exits with
\* every request served, nobody subscribed and the hub closed, whatever the
\* deadline does in between.
THEOREM ExitIsGraceful == ServerSpec => []GracefulExit
<1>1. ServerSpec => []TypeOK /\ []HubInv
  BY ServerImplementsHub, TypeCorrect, HubInvariant, PTL DEF ImplementsHub
<1>2. TypeOK /\ HubInv /\ ServerInv => GracefulExit
  BY DEF HubInv, ChanInv, ServerInv, GracefulExit
<1> QED BY <1>1, <1>2, ServerInvariant, PTL
=============================================================================
