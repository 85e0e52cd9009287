---------------------------- MODULE StreamProofs ----------------------------
(***************************************************************************)
(* Proofs about Stream for any number of heartbeats and registrars.         *)
(***************************************************************************)
EXTENDS Stream, SequenceTheorems, TLAPS

USE GoroutinesDisjoint DEF Goroutines

-----------------------------------------------------------------------------
(* Type correctness.                                                        *)

\* Init establishes the type invariant.
LEMMA InitType == Init => TypeOK /\ PlaceInv
<1> SUFFICES ASSUME Init PROVE TypeOK /\ PlaceInv
  OBVIOUS
<1>1. pc[Handler] = "run" /\ ret[Handler] = "run"
  BY DEF Init
<1>2. \A b \in Heartbeats : pc[b] = "off"
  BY DEF Init
<1>3. \A r \in Registrars : pc[r] = "free" /\ ret[r] = "free"
  BY DEF Init
<1>4. pc \in [Goroutines -> CritPC \cup LockPC \cup RestPC]
      /\ ret \in [Goroutines -> {"run", "callback", "free"}]
  BY <1>1, <1>2, <1>3 DEF Init, RestPC
<1>5. TypeOK
  <2>1. mu = None /\ closed = FALSE /\ ctxDone = FALSE /\ finished = FALSE /\ leaving = FALSE
        /\ onDisconnect = <<>> /\ callbacks = <<>> /\ fired = <<>> /\ registered = 0
    BY DEF Init
  <2>2. onDisconnect \in Seq(Nat) /\ callbacks \in Seq(Nat) /\ fired \in Seq(Nat)
    BY <2>1
  <2>3. closed \in BOOLEAN /\ ctxDone \in BOOLEAN /\ finished \in BOOLEAN /\ leaving \in BOOLEAN
    BY <2>1
  <2>4. mu \in Goroutines \cup {None} /\ registered \in Nat
    BY <2>1
  <2> QED BY <1>4, <2>2, <2>3, <2>4 DEF TypeOK
<1>6. PlaceInv
  BY <1>1, <1>2, <1>3 DEF PlaceInv, HandlerPC, HeartbeatPC
<1> QED BY <1>5, <1>6

\* Every step preserves the type invariant, and keeps each goroutine in its
\* own code.
LEMMA NextType == TypeOK /\ PlaceInv /\ [Next]_vars => TypeOK' /\ PlaceInv'
<1> SUFFICES ASSUME TypeOK, PlaceInv, [Next]_vars PROVE TypeOK' /\ PlaceInv'
  OBVIOUS
<1> USE DEF TypeOK, PlaceInv, CritPC, UsePC, LockPC, RestPC, HandlerPC, HeartbeatPC,
            Goto, Lock, Unlock, restVars, cbVars
<1>1. CASE UNCHANGED vars
  BY <1>1 DEF vars
<1>2. CASE CallSend \/ CallClose \/ Leave
  BY <1>2 DEF CallSend, CallClose, Leave
<1>3. CASE SendLock \/ SendWrite \/ SendFlush
  BY <1>3, ZenonT(60) DEF SendLock, SendWrite, SendFlush
<1>4. CASE CloseLock \/ CloseMark \/ CloseFlush
  BY <1>4, ZenonT(60) DEF CloseLock, CloseMark, CloseFlush
<1>5. CASE TakeCallbacks
  BY <1>5 DEF TakeCallbacks
<1>6. CASE FireCallback
  BY <1>6 DEF FireCallback
<1>7. CASE CallbackReturns
  BY <1>7 DEF CallbackReturns
<1>12. CASE CloseReturns
  BY <1>12 DEF CloseReturns
<1>8. ASSUME NEW b \in Heartbeats, StartHeartbeat(b) \/ HeartbeatStep(b)
      PROVE  TypeOK' /\ PlaceInv'
  <2>1. CASE StartHeartbeat(b) \/ HeartbeatDone(b) \/ Tick(b) \/ HeartbeatLock(b)
    BY <2>1, ZenonT(60) DEF StartHeartbeat, HeartbeatDone, Tick, HeartbeatLock
  <2>2. CASE HeartbeatCheck(b) \/ HeartbeatFlush(b)
    BY <2>2, ZenonT(60) DEF HeartbeatCheck, HeartbeatFlush
  <2>3. CASE HeartbeatWrite(b)
    BY <2>3 DEF HeartbeatWrite
  <2> QED BY <1>8, <2>1, <2>2, <2>3 DEF HeartbeatStep
<1>9. ASSUME NEW g \in {Handler} \cup Registrars,
             CallOnDisconnect(g) \/ OnDisconnectLock(g)
      PROVE  TypeOK' /\ PlaceInv'
  <2>1. CASE OnDisconnectLock(g)
    BY <2>1 DEF OnDisconnectLock
  <2>2. CASE CallOnDisconnect(g)
    <3>1. TypeOK'
      BY <2>2 DEF CallOnDisconnect
    <3>2. CASE g = Handler
      BY <2>2, <3>1, <3>2 DEF CallOnDisconnect
    <3>3. CASE g \in Registrars
      BY <2>2, <3>1, <3>3 DEF CallOnDisconnect
    <3> QED BY <3>2, <3>3
  <2> QED BY <1>9, <2>1, <2>2
<1>10. ASSUME NEW g \in {Handler} \cup Registrars, OnDisconnect(g)
       PROVE  TypeOK' /\ PlaceInv'
  BY <1>10 DEF OnDisconnect
<1>11. CASE RequestDone \/ ServerFinish
  BY <1>11 DEF RequestDone, ServerFinish
<1> QED BY <1>1, <1>2, <1>3, <1>4, <1>5, <1>6, <1>7, <1>8, <1>9, <1>10, <1>11, <1>12
        DEF Next, HandlerStep

\* The stream's fields and goroutines stay within their types.
THEOREM TypeCorrect == Spec => [](TypeOK /\ PlaceInv)
  BY InitType, NextType, PTL DEF Spec

-----------------------------------------------------------------------------
(* The mutex and the closed flag.                                           *)

\* Init establishes the stream invariant.
LEMMA InitStream == Init => StreamInv
<1> SUFFICES ASSUME Init PROVE StreamInv
  OBVIOUS
<1>1. \A g \in Goroutines : pc[g] \in {"run", "off", "free"}
  BY DEF Init
<1>2. pc[Handler] = "run"
  BY DEF Init
<1> QED BY <1>1, <1>2 DEF Init, StreamInv, InCallbacks, CritPC, UsePC

\* Every step preserves the stream invariant.
LEMMA NextStream == TypeOK /\ PlaceInv /\ StreamInv /\ [Next]_vars => StreamInv'
<1> SUFFICES ASSUME TypeOK, PlaceInv, StreamInv, [Next]_vars PROVE StreamInv'
  OBVIOUS
<1> USE DEF TypeOK, PlaceInv, CritPC, UsePC, HandlerPC, HeartbeatPC,
            Goto, Lock, Unlock, restVars, cbVars, StreamInv, InCallbacks
<1>1. CASE UNCHANGED vars
  BY <1>1 DEF vars
<1>2. CASE CallSend \/ CallClose \/ Leave
  <2>1. CASE CallSend
    BY <2>1 DEF CallSend
  <2>2. CASE CallClose
    BY <2>2 DEF CallClose
  <2>3. CASE Leave
    BY <2>3 DEF Leave
  <2> QED BY <1>2, <2>1, <2>2, <2>3
<1>3. CASE SendLock \/ SendWrite \/ SendFlush
  BY <1>3, SMTT(60) DEF SendLock, SendWrite, SendFlush
<1>4. CASE CloseLock \/ CloseMark \/ CloseFlush
  <2>1. CASE CloseLock
    BY <2>1 DEF CloseLock
  <2>2. CASE CloseMark
    BY <2>2 DEF CloseMark
  <2>3. CASE CloseFlush
    BY <2>3 DEF CloseFlush
  <2> QED BY <1>4, <2>1, <2>2, <2>3
<1>5. CASE TakeCallbacks
  BY <1>5 DEF TakeCallbacks
<1>6. CASE FireCallback
  BY <1>6 DEF FireCallback
<1>7. CASE CallbackReturns
  BY <1>7 DEF CallbackReturns
<1>8. CASE CloseReturns
  BY <1>8 DEF CloseReturns
<1>9. ASSUME NEW b \in Heartbeats, StartHeartbeat(b) \/ HeartbeatStep(b)
      PROVE  StreamInv'
  <2>1. CASE StartHeartbeat(b) \/ HeartbeatDone(b) \/ Tick(b)
    BY <1>9, <2>1 DEF StartHeartbeat, HeartbeatDone, Tick
  <2>2. CASE HeartbeatLock(b)
    BY <2>2 DEF HeartbeatLock
  <2>3. CASE HeartbeatCheck(b)
    BY <2>3, SMTT(60) DEF HeartbeatCheck
  <2>4. CASE HeartbeatWrite(b)
    BY <2>4 DEF HeartbeatWrite
  <2>5. CASE HeartbeatFlush(b)
    BY <2>5 DEF HeartbeatFlush
  <2> QED BY <1>9, <2>1, <2>2, <2>3, <2>4, <2>5 DEF HeartbeatStep
<1>10. ASSUME NEW g \in {Handler} \cup Registrars, CallOnDisconnect(g) PROVE StreamInv'
  BY <1>10 DEF CallOnDisconnect
<1>11. ASSUME NEW g \in {Handler} \cup Registrars, OnDisconnectLock(g) PROVE StreamInv'
  BY <1>11 DEF OnDisconnectLock
<1>12. ASSUME NEW g \in {Handler} \cup Registrars, OnDisconnect(g) PROVE StreamInv'
  BY <1>12 DEF OnDisconnect
<1>13. CASE RequestDone \/ ServerFinish
  BY <1>13 DEF RequestDone, ServerFinish
<1> QED BY <1>1, <1>2, <1>3, <1>4, <1>5, <1>6, <1>7, <1>8, <1>9, <1>10, <1>11, <1>12, <1>13
        DEF Next, HandlerStep

\* The mutex and the closed flag do their job in every reachable state.
THEOREM StreamInvariant == Spec => [](TypeOK /\ PlaceInv /\ StreamInv)
  BY InitType, NextType, InitStream, NextStream, PTL DEF Spec

\* Two goroutines never use the ResponseWriter at once.
THEOREM UseIsExclusive == Spec => []ExclusiveUse
<1>1. StreamInv => ExclusiveUse
  BY DEF StreamInv, ExclusiveUse, CritPC
<1> QED BY <1>1, StreamInvariant, PTL

\* No goroutine uses the ResponseWriter once the server has finished it.
THEOREM NeverUsedAfterFinish == Spec => []NoUseAfterFinish
<1>1. TypeOK /\ PlaceInv /\ StreamInv => NoUseAfterFinish
  BY DEF StreamInv, PlaceInv, NoUseAfterFinish, UsePC, HeartbeatPC
<1> QED BY <1>1, StreamInvariant, PTL

-----------------------------------------------------------------------------
(* The callbacks.                                                           *)

\* Appending the next number to the sequence 1, ..., n.
LEMMA CountOn ==
  ASSUME NEW n \in Nat
  PROVE  Append([i \in 1..n |-> i], n + 1) = [i \in 1..(n + 1) |-> i]
<1> DEFINE s == [i \in 1..n |-> i]
           t == [i \in 1..(n + 1) |-> i]
<1>1. s \in Seq(Nat) /\ Len(s) = n /\ t \in Seq(Nat) /\ Len(t) = n + 1
  OBVIOUS
<1>2. Append(s, n + 1) \in Seq(Nat) /\ Len(Append(s, n + 1)) = n + 1
  BY <1>1
<1>3. \A i \in 1..(n + 1) : Append(s, n + 1)[i] = t[i]
  BY <1>1
<1> HIDE DEF s, t
<1>4. Append(s, n + 1) = t
  BY <1>1, <1>2, <1>3, SeqEqual
<1> QED BY <1>4 DEF s, t

\* Appending to the last of two sequences appends to their concatenation.
LEMMA AppendToConcat ==
  ASSUME NEW s \in Seq(Nat), NEW t \in Seq(Nat), NEW e \in Nat
  PROVE  s \o Append(t, e) = Append(s \o t, e)
<1>1. Append(t, e) = t \o <<e>> /\ Append(s \o t, e) = (s \o t) \o <<e>>
  BY AppendIsConcat, ConcatProperties
<1>2. <<e>> \in Seq(Nat)
  OBVIOUS
<1> QED BY <1>1, <1>2, ConcatAssociative

\* Moving the head of the second sequence to the end of the first.
LEMMA MoveHead ==
  ASSUME NEW s \in Seq(Nat), NEW t \in Seq(Nat), t # <<>>
  PROVE  Append(s, Head(t)) \o Tail(t) = s \o t
<1>1. Head(t) \in Nat /\ Tail(t) \in Seq(Nat) /\ <<Head(t)>> \in Seq(Nat)
  BY HeadTailProperties
<1>2. t = <<Head(t)>> \o Tail(t)
  <2>1. Len(t) = 1 + Len(Tail(t)) /\ \A i \in 1..Len(Tail(t)) : Tail(t)[i] = t[i + 1]
    BY HeadTailProperties
  <2>2. Head(t) = t[1]
    OBVIOUS
  <2> DEFINE u == <<Head(t)>> \o Tail(t)
  <2>3. u \in Seq(Nat) /\ Len(u) = 1 + Len(Tail(t))
    BY <1>1, ConcatProperties
  <2>4. \A i \in 1..Len(t) : t[i] = u[i]
    BY <1>1, <2>1, <2>2
  <2> HIDE DEF u
  <2>5. t = u
    BY <2>1, <2>3, <2>4, SeqEqual
  <2> QED BY <2>5 DEF u
<1>3. Append(s, Head(t)) = s \o <<Head(t)>>
  BY <1>1, AppendIsConcat
<1>4. (s \o <<Head(t)>>) \o Tail(t) = s \o (<<Head(t)>> \o Tail(t))
  BY <1>1, ConcatAssociative
<1> QED BY <1>2, <1>3, <1>4, Zenon

\* Every step keeps the ledger of callbacks.
LEMMA NextLedger ==
  TypeOK /\ PlaceInv /\ StreamInv /\ CallbackLedger /\ [Next]_vars => CallbackLedger'
<1> SUFFICES ASSUME TypeOK, PlaceInv, StreamInv, CallbackLedger, [Next]_vars
             PROVE  CallbackLedger'
  OBVIOUS
<1> USE DEF TypeOK
<1>1. CASE UNCHANGED cbVars
  BY <1>1 DEF cbVars, CallbackLedger
<1>2. ASSUME NEW g \in {Handler} \cup Registrars, OnDisconnect(g) PROVE CallbackLedger'
  <2>1. onDisconnect' = Append(onDisconnect, registered + 1) /\ registered' = registered + 1
        /\ UNCHANGED <<fired, callbacks>>
    BY <1>2 DEF OnDisconnect
  <2>2. fired \o callbacks \in Seq(Nat)
    BY ConcatProperties
  <2>3. (fired \o callbacks) \o Append(onDisconnect, registered + 1)
          = Append([i \in 1..registered |-> i], registered + 1)
    <3> DEFINE s == fired \o callbacks
    <3>1. s \in Seq(Nat) /\ registered + 1 \in Nat
      BY <2>2
    <3> HIDE DEF s
    <3>2. s \o Append(onDisconnect, registered + 1) = Append(s \o onDisconnect, registered + 1)
      BY <3>1, AppendToConcat, SMTT(60)
    <3> QED BY <3>2, Zenon DEF CallbackLedger, s
  <2>4. Append([i \in 1..registered |-> i], registered + 1) = [i \in 1..(registered + 1) |-> i]
    BY CountOn
  <2>5. (fired' \o callbacks') \o onDisconnect'
          = (fired \o callbacks) \o Append(onDisconnect, registered + 1)
    BY <2>1
  <2>6. [i \in 1..registered' |-> i] = [i \in 1..(registered + 1) |-> i]
    BY <2>1
  <2> QED BY <2>3, <2>4, <2>5, <2>6, Zenon DEF CallbackLedger
<1>3. CASE TakeCallbacks
  <2>1. callbacks = <<>>
    BY <1>3 DEF TakeCallbacks, StreamInv, InCallbacks
  <2>2. callbacks' = onDisconnect /\ onDisconnect' = <<>> /\ UNCHANGED <<fired, registered>>
    BY <1>3 DEF TakeCallbacks
  <2>3. (fired \o <<>>) \o onDisconnect = (fired \o onDisconnect) \o <<>>
    <3>1. fired \o <<>> = fired
      BY ConcatEmptySeq
    <3>2. fired \o onDisconnect \in Seq(Nat)
      BY ConcatProperties
    <3>3. (fired \o onDisconnect) \o <<>> = fired \o onDisconnect
      BY <3>2, ConcatEmptySeq
    <3> QED BY <3>1, <3>3
  <2> QED BY <2>1, <2>2, <2>3 DEF CallbackLedger
<1>4. CASE FireCallback
  <2>1. callbacks # <<>> /\ fired' = Append(fired, Head(callbacks))
        /\ callbacks' = Tail(callbacks) /\ UNCHANGED <<onDisconnect, registered>>
    BY <1>4 DEF FireCallback
  <2>2. fired' \o callbacks' = fired \o callbacks
    BY <2>1, MoveHead
  <2> QED BY <2>1, <2>2 DEF CallbackLedger
<1>5. UNCHANGED cbVars \/ TakeCallbacks \/ FireCallback
      \/ \E g \in {Handler} \cup Registrars : OnDisconnect(g)
  <2> USE DEF restVars
  <2>1. CASE UNCHANGED vars \/ CallSend \/ CallClose \/ Leave \/ RequestDone \/ ServerFinish
    BY <2>1 DEF vars, CallSend, CallClose, Leave, RequestDone, ServerFinish
  <2>2. CASE HandlerStep
    BY <2>2 DEF HandlerStep, SendLock, SendWrite, SendFlush, CloseLock, CloseMark,
                CloseFlush, CallbackReturns, CloseReturns
  <2>3. ASSUME NEW b \in Heartbeats, StartHeartbeat(b) \/ HeartbeatStep(b)
        PROVE  UNCHANGED cbVars
    BY <2>3 DEF HeartbeatStep, StartHeartbeat, HeartbeatDone, Tick, HeartbeatLock,
                HeartbeatCheck, HeartbeatWrite, HeartbeatFlush
  <2>4. ASSUME NEW g \in {Handler} \cup Registrars, CallOnDisconnect(g) \/ OnDisconnectLock(g)
        PROVE  UNCHANGED cbVars
    BY <2>4 DEF CallOnDisconnect, OnDisconnectLock
  <2> QED BY <2>1, <2>2, <2>3, <2>4 DEF Next
<1> QED BY <1>1, <1>2, <1>3, <1>4, <1>5

\* Every callback is run at most once and in registration order, and none is
\* lost between OnDisconnect and Close.
THEOREM CallbacksAccountedFor == Spec => []CallbackLedger
<1>1. Init => CallbackLedger
  <2> SUFFICES ASSUME Init PROVE CallbackLedger
    OBVIOUS
  <2>1. fired = <<>> /\ callbacks = <<>> /\ onDisconnect = <<>> /\ registered = 0
    BY DEF Init
  <2>2. [i \in 1..0 |-> i] = <<>>
    OBVIOUS
  <2>3. (<<>> \o <<>>) \o <<>> = <<>>
    OBVIOUS
  <2> QED BY <2>1, <2>2, <2>3 DEF CallbackLedger
<1> QED BY <1>1, StreamInvariant, NextLedger, PTL DEF Spec
=============================================================================
