---------------------------- MODULE FanOutProofs ----------------------------
(***************************************************************************)
(* Proofs about FanOut for any number of connections, producers and        *)
(* administrators, any buffer size, any predicates and any message bounds: *)
(* lock, channels and drain; who gets which message; and, at the end, that *)
(* the hub implements the topic.                                           *)
(***************************************************************************)
EXTENDS FanOutTopic, SequenceTheorems, TLAPS

USE DEF Senders, Goroutines

\* The capacity of a channel is a positive number whatever option was given.
LEMMA BufferPositive == EffectiveBufferSize \in Nat \ {0}
  BY BufferAssumption DEF EffectiveBufferSize

\* The message a sender is fanning out is a message.
LEMMA CurrentType == ASSUME TypeOK, NEW g \in Senders PROVE Current(g) \in Messages
  BY DEF TypeOK, GoroutineType, Current, Messages

\* Init establishes the type invariant.
LEMMA InitType == Init => TypeOK
<1> SUFFICES ASSUME Init PROVE TypeOK
  OBVIOUS
<1> USE HookAssumption, PredAssumption, GoroutinesDisjoint, BufferPositive
<1>1. HubType
  BY DEF Init, HubType
<1>2. ChanType
  BY DEF Init, ChanType
<1>3. BufType
  BY DEF Init, BufType
<1>4. GoroutineType
  BY DEF Init, GoroutineType, SubPC, AdmPC
<1> QED BY <1>1, <1>2, <1>3, <1>4 DEF TypeOK

-----------------------------------------------------------------------------
(* Type correctness, one lemma per kind of goroutine.                       *)

\* Winning the writer mutex preserves the type invariant.
LEMMA AcquireType == ASSUME TypeOK, NEW g \in Goroutines, AcquireW(g) PROVE TypeOK'
  BY DEF AcquireW, TypeOK, HubType, ChanType, BufType, GoroutineType,
         hubVars, chanVars, sendVars, admVars, history

\* A handler's step preserves the type invariant.
LEMMA HandlerType ==
  ASSUME TypeOK, NEW c \in Subs,
         CallSubscribe(c) \/ Disconnect(c) \/ UnsubscribeAgain(c) \/ HandlerStep(c)
  PROVE  TypeOK'
<1> USE DEF TypeOK, Goto
<1>1. CASE CallSubscribe(c)
  BY <1>1 DEF CallSubscribe, hubVars, lockVars, sendVars, admVars, history,
              HubType, ChanType, BufType, GoroutineType, SubPC
<1>2. CASE Disconnect(c) \/ UnsubscribeAgain(c) \/ ReceiveClosed(c)
  BY <1>2 DEF Disconnect, UnsubscribeAgain, ReceiveClosed, SubPC,
              hubVars, lockVars, chanVars, sendVars, admVars, history,
              HubType, ChanType, BufType, GoroutineType
<1>3. CASE SubscribeFilter(c)
  <2>1. HubType'
    BY <1>3 DEF SubscribeFilter, Reject, Register, UnlockW, HubType
  <2>2. ChanType' /\ BufType'
    BY <1>3 DEF SubscribeFilter, Reject, Register, ChanType, BufType, history
  <2>3. pc' \in [Goroutines -> SubPC \cup CastPC \cup AdmPC]
    BY <1>3 DEF SubscribeFilter, Reject, Register, GoroutineType, RunHook, SubPC, CastPC
  <2>4. last' \in [Senders -> Nat] /\ after' \in [Senders -> {"loop", "gone", "idle"}]
    BY <1>3, BoundAssumption DEF SubscribeFilter, Reject, Register, GoroutineType, RunHook
  <2> QED BY <1>3, <2>1, <2>2, <2>3, <2>4 DEF SubscribeFilter, GoroutineType, admVars
<1>4. CASE Receive(c)
  <2>1. HubType' /\ ChanType' /\ GoroutineType'
    BY <1>4 DEF Receive, HubType, ChanType, GoroutineType, hubVars, lockVars, sendVars, admVars
  <2>2. BufType'
    BY <1>4, BufferPositive DEF Receive, BufType
  <2> QED BY <2>1, <2>2
<1>5. CASE Unsubscribe(c)
  <2>1. HubType'
    BY <1>5 DEF Unsubscribe, UnlockW, HubType
  <2>2. ChanType' /\ BufType'
    BY <1>5 DEF Unsubscribe, ChanType, BufType, CloseChannels
  <2>3. pc' \in [Goroutines -> SubPC \cup CastPC \cup AdmPC]
    BY <1>5 DEF Unsubscribe, GoroutineType, RunHook, SubPC, CastPC
  <2>4. last' \in [Senders -> Nat] /\ after' \in [Senders -> {"loop", "gone", "idle"}]
    BY <1>5, BoundAssumption DEF Unsubscribe, GoroutineType, RunHook
  <2> QED BY <1>5, <2>1, <2>2, <2>3, <2>4 DEF Unsubscribe, GoroutineType, admVars
<1> QED BY <1>1, <1>2, <1>3, <1>4, <1>5 DEF HandlerStep

\* A broadcast, from the call to the return, preserves the type invariant.
LEMMA CastType ==
  ASSUME TypeOK, NEW g \in Senders,
         CastStep(g) \/ (g \in Producers /\ \E n \in 0..MaxMsgs : CallBroadcast(g, n))
  PROVE  TypeOK'
<1> USE DEF TypeOK, Goto
<1>1. CASE g \in Producers /\ \E n \in 0..MaxMsgs : CallBroadcast(g, n)
  BY <1>1, BoundAssumption DEF CallBroadcast, CastPC,
              hubVars, lockVars, chanVars, admVars, history,
              HubType, ChanType, BufType, GoroutineType
<1>2. CASE RLock(g)
  BY <1>2 DEF RLock, CastPC, hubVars, chanVars, sendVars, admVars, history,
              HubType, ChanType, BufType, GoroutineType
<1>3. CASE \E c \in Subs : Pick(g, c)
  <2> PICK c \in Subs : Pick(g, c)
    BY <1>3
  <2>1. HubType' /\ ChanType' /\ BufType'
    BY DEF Pick, hubVars, lockVars, chanVars, history, HubType, ChanType, BufType
  <2>2. visited' \in [Senders -> SUBSET Subs] /\ target' \in [Senders -> Subs \cup {None}]
    BY DEF Pick, GoroutineType
  <2> QED BY <2>1, <2>2 DEF Pick, admVars, GoroutineType
<1>4. CASE Send(g)
  <2>1. HubType' /\ ChanType'
    BY <1>4 DEF Send, HubType, ChanType, hubVars, lockVars
  <2>2. GoroutineType'
    BY <1>4 DEF Send, GoroutineType, admVars
  <2>3. target[g] \in Subs
    BY <1>4 DEF Send, GoroutineType
  <2> DEFINE c == target[g]
             m == Current(g)
  <2>4. m \in Messages
    BY CurrentType
  <2>5. CASE HasRoom(c)
    <3>1. buf' = [buf EXCEPT ![c] = Append(@, m)] /\ UNCHANGED <<rcvd, drops>>
      BY <1>4, <2>5 DEF Send
    <3>2. BufType'
      BY <3>1, <2>3, <2>4, <2>5, BufferPositive DEF BufType, HasRoom
    <3> QED BY <3>2, <2>1, <2>2
  <2>6. CASE ~HasRoom(c)
    <3>1. drops' = [drops EXCEPT ![c] = @ \cup {<<m, DropFate>>}] /\ UNCHANGED <<rcvd, buf>>
      BY <1>4, <2>6 DEF Send
    <3>2. <<m, DropFate>> \in Messages \X {"told", "untold"}
      BY <2>4 DEF DropFate
    <3>3. BufType'
      BY <3>1, <3>2, <2>3 DEF BufType
    <3> QED BY <3>3, <2>1, <2>2
  <2> QED BY <2>5, <2>6
<1>5. CASE EndPass(g)
  BY <1>5 DEF EndPass, hubVars, lockVars, chanVars, admVars, history,
              HubType, ChanType, BufType, GoroutineType
<1>6. CASE RUnlock(g)
  BY <1>6 DEF RUnlock, hubVars, chanVars, sendVars, admVars, history, SubPC, AdmPC,
              HubType, ChanType, BufType, GoroutineType
<1> QED BY <1>1, <1>2, <1>3, <1>4, <1>5, <1>6 DEF CastStep

\* An administrator's step preserves the type invariant.
LEMMA AdminType ==
  ASSUME TypeOK, NEW a \in Admins,
         CallClose(a) \/ CallSet(a) \/ CallShutdown(a) \/ CtxDone(a) \/ AdminStep(a)
  PROVE  TypeOK'
<1> USE DEF TypeOK, Goto, HubType, ChanType, BufType, GoroutineType, AdmPC
<1>1. CASE CallClose(a) \/ CallSet(a) \/ CallShutdown(a) \/ CtxDone(a) \/ Repoll(a)
  BY <1>1, ZenonT(60) DEF CallClose, CallSet, CallShutdown, CtxDone, Repoll,
              hubVars, lockVars, chanVars, sendVars, admVars, history
<1>2. CASE Close(a)
  BY <1>2 DEF Close, CloseChannels, UnlockW, sendVars, admVars
<1>3. CASE \E h \in HookNames : SetHook(a, h)
  BY <1>3 DEF SetHook, UnlockW, chanVars, sendVars, admVars, history
<1>4. CASE ShutdownBegin(a)
  <2>1. CASE nilMap
    BY <1>4, <2>1 DEF ShutdownBegin, ShutdownReturns, UnlockW, chanVars, sendVars, history
  <2>2. CASE ~nilMap
    BY <1>4, <2>2 DEF ShutdownBegin, UnlockW, chanVars, sendVars, history
  <2> QED BY <2>1, <2>2
<1>5. CASE (\E c \in Subs : Scan(a, c)) \/ ScanEnd(a)
  <2>1. CASE ScanEnd(a)
    BY <2>1 DEF ScanEnd, hubVars, lockVars, chanVars, sendVars, history
  <2>2. ASSUME NEW c \in Subs, Scan(a, c) PROVE TypeOK'
    <3>1. scanned' \in [Admins -> SUBSET Subs]
      BY <2>2 DEF Scan
    <3>2. notDrained' \in [Admins -> BOOLEAN]
      BY <2>2, Zenon DEF Scan
    <3> QED BY <2>2, <3>1, <3>2 DEF Scan, hubVars, lockVars, chanVars, sendVars, history
  <2> QED BY <1>5, <2>1, <2>2
<1>6. CASE Deadline(a)
  BY <1>6 DEF Deadline, ShutdownReturns, hubVars, lockVars, chanVars, sendVars, history
<1>7. CASE ShutdownFinish(a)
  BY <1>7 DEF ShutdownFinish, ShutdownReturns, CloseChannels, UnlockW, sendVars
<1> QED BY <1>1, <1>2, <1>3, <1>4, <1>5, <1>6, <1>7 DEF AdminStep

\* Every step preserves the type invariant.
LEMMA NextType == TypeOK /\ [Next]_vars => TypeOK'
<1> SUFFICES ASSUME TypeOK, [Next]_vars PROVE TypeOK'
  OBVIOUS
<1>1. CASE UNCHANGED vars
  BY <1>1 DEF vars, hubVars, lockVars, chanVars, sendVars, admVars, history,
              TypeOK, HubType, ChanType, BufType, GoroutineType
<1>2. CASE Next
  BY <1>2, AcquireType, HandlerType, CastType, AdminType DEF Next
<1> QED BY <1>1, <1>2

\* The type invariant holds in every state the hub can reach: in particular
\* no buffer ever exceeds the capacity of its channel.
THEOREM TypeCorrect == Spec => []TypeOK
  BY InitType, NextType, PTL DEF Spec

-----------------------------------------------------------------------------
(* The hub invariant.  A writer's critical section runs with no reader      *)
(* inside, so no pass is about to send (LockInv): removing and closing      *)
(* channels is then safe.                                                   *)

\* With the write lock held no sender is in the middle of a send.
LEMMA WriterAlone ==
  ASSUME TypeOK, LockInv, NEW g \in Goroutines, HoldsW(g)
  PROVE  \A s \in Senders : target[s] = None
  BY DEF LockInv, HoldsW, TypeOK, GoroutineType

\* The critical section of g, which ends with Unlock and leaves g outside the
\* write lock and outside the fan-out, preserves the lock's invariant.
LEMMA UnlockPreservesLock ==
  ASSUME TypeOK, LockInv, NEW g \in Goroutines, HoldsW(g), UnlockW,
         pc[g] \in WPC, NEW l, pc' = [pc EXCEPT ![g] = l], UNCHANGED target
  PROVE  LockInv'
<1> USE DEF TypeOK, HubType, GoroutineType
<1>1. \A s \in Senders : target'[s] = None
  BY WriterAlone
<1>2. g \notin rblocked
  BY DEF LockInv, WPC
<1> QED BY <1>1, <1>2, GoroutinesDisjoint DEF LockInv, UnlockW, HoldsW

\* Init establishes the hub invariant.
LEMMA InitHub == Init => HubInv
<1> SUFFICES ASSUME Init PROVE HubInv
  OBVIOUS
<1>1. DrainCoversSubscribers
  BY GoroutinesDisjoint DEF Init, DrainCoversSubscribers, DrainPC
<1> QED BY <1>1 DEF Init, HubInv, LockInv, ChanInv, NoOrphan, NoPanic

\* Winning the writer mutex preserves the hub invariant.
LEMMA AcquireHub ==
  ASSUME TypeOK, HubInv, NEW g \in Goroutines, AcquireW(g)
  PROVE  HubInv'
  BY GoroutinesDisjoint
     DEF AcquireW, HubInv, LockInv, ChanInv, NoOrphan, NoPanic, DrainCoversSubscribers,
         hubVars, chanVars, sendVars, admVars, history

\* A handler's step preserves the hub invariant.
LEMMA HandlerHub ==
  ASSUME TypeOK, HubInv, NEW c \in Subs,
         CallSubscribe(c) \/ Disconnect(c) \/ UnsubscribeAgain(c) \/ HandlerStep(c)
  PROVE  HubInv'
<1> USE GoroutinesDisjoint DEF HubInv, Goto
<1>1. CASE CallSubscribe(c) \/ Disconnect(c) \/ UnsubscribeAgain(c) \/ ReceiveClosed(c)
  <2>1. pc[c] \in {"new", "loop", "gone"} /\ pc' = [pc EXCEPT ![c] = pc'[c]]
        /\ pc'[c] \in {"subscribe", "unsubscribe"}
        /\ (pc'[c] = "subscribe" => pc[c] = "new")
        /\ UNCHANGED <<hubVars, lockVars, chan, buf, sendVars, admVars, history>>
    BY <1>1 DEF CallSubscribe, Disconnect, UnsubscribeAgain, ReceiveClosed, chanVars,
                TypeOK, GoroutineType
  <2>2. LockInv'
    BY <2>1 DEF LockInv, TypeOK, HubType, GoroutineType, WPC, hubVars, lockVars, sendVars
  <2>3. ChanInv' /\ NoOrphan' /\ NoPanic'
    BY <2>1 DEF ChanInv, NoOrphan, NoPanic, TypeOK, GoroutineType, hubVars, history
  <2>4. DrainCoversSubscribers'
    BY <2>1 DEF DrainCoversSubscribers, DrainPC, TypeOK, GoroutineType, hubVars, admVars
  <2> QED BY <2>2, <2>3, <2>4
<1>2. CASE Receive(c)
  BY <1>2 DEF Receive, LockInv, ChanInv, NoOrphan, NoPanic, DrainCoversSubscribers,
              hubVars, lockVars, sendVars, admVars
<1>3. CASE SubscribeFilter(c)
  <2> USE <1>3 DEF SubscribeFilter, Reject, Register
  <2>1. pc' = [pc EXCEPT ![c] = pc'[c]] /\ pc'[c] \in {"loop", "rlock"}
    BY DEF RunHook, TypeOK, GoroutineType
  <2>2. LockInv'
    BY <2>1, UnlockPreservesLock DEF WPC
  <2>3. chan[c] = "none" /\ c \notin subscribers
    BY DEF ChanInv, NoOrphan
  <2>4. ChanInv' /\ NoOrphan' /\ NoPanic'
    BY <2>1, <2>3 DEF ChanInv, NoOrphan, NoPanic, history, Rejecting,
                      TypeOK, ChanType, GoroutineType
  <2>5. DrainCoversSubscribers'
    BY <2>1 DEF DrainCoversSubscribers, Rejecting, admVars, TypeOK, GoroutineType
  <2> QED BY <2>2, <2>4, <2>5
<1>4. CASE Unsubscribe(c)
  <2> USE <1>4 DEF Unsubscribe
  <2>1. pc' = [pc EXCEPT ![c] = pc'[c]] /\ pc'[c] \in {"gone", "rlock"}
    BY DEF RunHook, TypeOK, GoroutineType
  <2>2. LockInv'
    BY <2>1, UnlockPreservesLock DEF WPC
  <2>3. ChanInv' /\ NoOrphan' /\ NoPanic'
    BY <2>1 DEF ChanInv, NoOrphan, NoPanic, CloseChannels, TypeOK, ChanType, GoroutineType
  <2>4. DrainCoversSubscribers'
    BY <2>1 DEF DrainCoversSubscribers, admVars, TypeOK, GoroutineType
  <2> QED BY <2>2, <2>3, <2>4
<1> QED BY <1>1, <1>2, <1>3, <1>4 DEF HandlerStep

\* A broadcast preserves the hub invariant: the channel a pass has picked is
\* registered, hence open, when the message is sent.
LEMMA CastHub ==
  ASSUME TypeOK, HubInv, NEW g \in Senders,
         CastStep(g) \/ (g \in Producers /\ \E n \in 0..MaxMsgs : CallBroadcast(g, n))
  PROVE  HubInv'
<1> USE GoroutinesDisjoint DEF HubInv, Goto
<1>1. CASE g \in Producers /\ \E n \in 0..MaxMsgs : CallBroadcast(g, n)
  <2>1. pc[g] = "idle" /\ pc' = [pc EXCEPT ![g] = "rlock"]
        /\ (\A s \in Senders : s # g => last'[s] = last[s])
        /\ UNCHANGED <<hubVars, lockVars, chanVars, next, target, admVars, history>>
    BY <1>1 DEF CallBroadcast, TypeOK, GoroutineType
  <2>2. LockInv'
    BY <2>1 DEF LockInv, TypeOK, HubType, GoroutineType, WPC, hubVars, lockVars
  <2> QED BY <1>1, <2>1, <2>2 DEF ChanInv, NoOrphan, NoPanic, DrainCoversSubscribers,
          TypeOK, GoroutineType, hubVars, chanVars, admVars, history
<1>2. CASE RLock(g)
  <2>1. LockInv'
    BY <1>2 DEF RLock, LockInv, TypeOK, HubType, GoroutineType, WPC, hubVars, sendVars
  <2> QED BY <1>2, <2>1 DEF RLock, ChanInv, NoOrphan, NoPanic, DrainCoversSubscribers,
          TypeOK, GoroutineType, hubVars, chanVars, admVars, history
<1>3. CASE \E c \in Subs : Pick(g, c)
  <2>1. LockInv'
    BY <1>3 DEF Pick, InPass, LockInv, TypeOK, GoroutineType, hubVars, lockVars
  <2> QED BY <1>3, <2>1 DEF Pick, ChanInv, NoOrphan, NoPanic, DrainCoversSubscribers,
          hubVars, chanVars, admVars, history
<1>4. CASE Send(g)
  <2>1. LockInv'
    BY <1>4 DEF Send, LockInv, TypeOK, GoroutineType, hubVars, lockVars
  <2>2. chan[target[g]] = "open"
    BY <1>4 DEF Send, LockInv, NoOrphan, TypeOK, GoroutineType
  <2>3. NoPanic'
    BY <1>4, <2>2 DEF Send, NoPanic
  <2> QED BY <1>4, <2>1, <2>3 DEF Send, ChanInv, NoOrphan, DrainCoversSubscribers,
          hubVars, admVars
<1>5. CASE EndPass(g)
  <2>1. LockInv'
    BY <1>5 DEF EndPass, PassDone, LockInv, TypeOK, GoroutineType, hubVars, lockVars
  <2> QED BY <1>5, <2>1 DEF EndPass, ChanInv, NoOrphan, NoPanic, DrainCoversSubscribers,
          hubVars, chanVars, admVars, history
<1>6. CASE RUnlock(g)
  <2>1. pc[g] = "cast" /\ pc' = [pc EXCEPT ![g] = after[g]]
        /\ after[g] \in {"loop", "gone", "idle"} /\ target[g] = None
    BY <1>6 DEF RUnlock, LockInv, TypeOK, GoroutineType
  <2>2. LockInv'
    BY <1>6, <2>1 DEF RUnlock, LockInv, TypeOK, HubType, GoroutineType, WPC, hubVars, sendVars
  <2> QED BY <1>6, <2>1, <2>2 DEF RUnlock, ChanInv, NoOrphan, NoPanic,
          DrainCoversSubscribers, DrainPC, TypeOK, GoroutineType,
          hubVars, chanVars, admVars, history
<1> QED BY <1>1, <1>2, <1>3, <1>4, <1>5, <1>6 DEF CastStep

\* Closing every registered channel and emptying the map leaves no channel
\* open, and closes none twice.
LEMMA CloseAllRegistered ==
  ASSUME TypeOK, HubInv, NEW a \in Admins, CloseChannels(subscribers),
         subscribers' = {}, nilMap' = TRUE, pc' = [pc EXCEPT ![a] = "idle"]
  PROVE  ChanInv' /\ NoOrphan' /\ NoPanic'
<1> USE DEF HubInv, CloseChannels
<1>1. NoPanic'
  BY DEF NoPanic, NoOrphan, TypeOK, HubType
<1>2. NoOrphan'
  BY DEF NoOrphan, TypeOK, ChanType
<1>3. ASSUME NEW c \in Subs, pc'[c] \in {"new", "subscribe"}
      PROVE  chan'[c] = "none"
  <2>1. pc[c] \in {"new", "subscribe"}
    BY <1>3, GoroutinesDisjoint DEF TypeOK, GoroutineType
  <2>2. chan[c] = "none" /\ c \notin subscribers
    BY <2>1 DEF ChanInv, NoOrphan
  <2> QED BY <2>2
<1> QED BY <1>1, <1>2, <1>3 DEF ChanInv

\* An administrator's step preserves the hub invariant: Close and the last
\* step of Shutdown close exactly the channels that are still registered.
LEMMA AdminHub ==
  ASSUME TypeOK, HubInv, NEW a \in Admins,
         CallClose(a) \/ CallSet(a) \/ CallShutdown(a) \/ CtxDone(a) \/ AdminStep(a)
  PROVE  HubInv'
<1> USE GoroutinesDisjoint DEF HubInv, Goto
<1>1. CASE CallClose(a) \/ CallSet(a) \/ CallShutdown(a)
  <2>1. pc[a] = "idle" /\ pc' = [pc EXCEPT ![a] = pc'[a]]
        /\ pc'[a] \in {"close", "set", "begin"}
        /\ UNCHANGED <<hubVars, lockVars, chanVars, sendVars, admVars, history>>
    BY <1>1 DEF CallClose, CallSet, CallShutdown, TypeOK, GoroutineType
  <2>2. LockInv'
    BY <2>1 DEF LockInv, TypeOK, HubType, GoroutineType, WPC, hubVars, lockVars, sendVars
  <2> QED BY <2>1, <2>2 DEF ChanInv, NoOrphan, NoPanic, DrainCoversSubscribers, DrainPC,
          TypeOK, GoroutineType, hubVars, chanVars, admVars, history
<1>2. CASE CtxDone(a) \/ \E c \in Subs : Scan(a, c)
  BY <1>2 DEF CtxDone, Scan, LockInv, ChanInv, NoOrphan, NoPanic, DrainCoversSubscribers,
          hubVars, lockVars, chanVars, sendVars, history
<1>3. CASE ScanEnd(a) \/ Repoll(a) \/ Deadline(a)
  <2>1. pc[a] \in {"scan", "select"} /\ pc' = [pc EXCEPT ![a] = pc'[a]]
        /\ pc'[a] \in {"scan", "select", "finish", "idle"}
        /\ (pc'[a] # "idle" => snap' = snap)
        /\ (\A b \in Admins : b # a => snap'[b] = snap[b])
        /\ UNCHANGED <<hubVars, lockVars, chanVars, sendVars, history>>
    <3>1. CASE ScanEnd(a)
      BY <3>1 DEF ScanEnd, TypeOK, GoroutineType
    <3>2. CASE Repoll(a)
      BY <3>2 DEF Repoll, admVars, TypeOK, GoroutineType
    <3>3. CASE Deadline(a)
      BY <3>3 DEF Deadline, ShutdownReturns, TypeOK, GoroutineType
    <3> QED BY <1>3, <3>1, <3>2, <3>3
  <2>2. LockInv'
    BY <2>1 DEF LockInv, TypeOK, HubType, GoroutineType, WPC, hubVars, lockVars, sendVars
  <2>3. DrainCoversSubscribers'
    BY <2>1 DEF DrainCoversSubscribers, DrainPC, TypeOK, GoroutineType, hubVars
  <2> QED BY <2>1, <2>2, <2>3 DEF ChanInv, NoOrphan, NoPanic,
          TypeOK, GoroutineType, hubVars, chanVars, history
<1>4. CASE Close(a)
  <2> USE <1>4 DEF Close
  <2>1. LockInv'
    BY UnlockPreservesLock DEF WPC, sendVars
  <2>2. ChanInv' /\ NoOrphan' /\ NoPanic'
    BY CloseAllRegistered DEF HubInv
  <2> QED BY <2>1, <2>2 DEF DrainCoversSubscribers
<1>5. CASE \E h \in HookNames : SetHook(a, h)
  <2>1. PICK h \in HookNames : SetHook(a, h)
    BY <1>5
  <2> USE <2>1 DEF SetHook
  <2>2. LockInv'
    BY UnlockPreservesLock DEF WPC, sendVars
  <2> QED BY <2>2 DEF ChanInv, NoOrphan, NoPanic, DrainCoversSubscribers, DrainPC,
          TypeOK, GoroutineType, chanVars, admVars, history
<1>6. CASE ShutdownBegin(a)
  <2> USE <1>6 DEF ShutdownBegin
  <2>1. pc' = [pc EXCEPT ![a] = pc'[a]] /\ pc'[a] \in {"idle", "scan"}
    BY DEF ShutdownReturns, TypeOK, GoroutineType
  <2>2. LockInv'
    BY <2>1, UnlockPreservesLock DEF WPC, sendVars
  <2>3. DrainCoversSubscribers'
    <3>1. CASE nilMap
      BY <3>1 DEF DrainCoversSubscribers
    <3>2. CASE ~nilMap
      BY <3>2, <2>1 DEF DrainCoversSubscribers, TypeOK, GoroutineType
    <3> QED BY <3>1, <3>2
  <2> QED BY <2>1, <2>2, <2>3 DEF ChanInv, NoOrphan, NoPanic, TypeOK, GoroutineType,
          chanVars, history
<1>7. CASE ShutdownFinish(a)
  <2> USE <1>7 DEF ShutdownFinish
  <2>1. LockInv'
    <3>1. pc' = [pc EXCEPT ![a] = "idle"]
      BY DEF ShutdownReturns
    <3> QED BY <3>1, UnlockPreservesLock DEF WPC, sendVars
  <2>2. StillTracked(a) = subscribers
    BY DEF StillTracked, DrainCoversSubscribers, DrainPC, ChanInv
  <2>3. ChanInv' /\ NoOrphan' /\ NoPanic'
    BY <2>2, CloseAllRegistered DEF HubInv, ShutdownReturns
  <2> QED BY <2>1, <2>3 DEF DrainCoversSubscribers
<1> QED BY <1>1, <1>2, <1>3, <1>4, <1>5, <1>6, <1>7 DEF AdminStep

\* Every step preserves the hub invariant.
LEMMA NextHub == TypeOK /\ HubInv /\ [Next]_vars => HubInv'
<1> SUFFICES ASSUME TypeOK, HubInv, [Next]_vars PROVE HubInv'
  OBVIOUS
<1>1. CASE UNCHANGED vars
  BY <1>1 DEF vars, hubVars, lockVars, chanVars, sendVars, admVars, history,
          HubInv, LockInv, ChanInv, NoOrphan, NoPanic, DrainCoversSubscribers
<1>2. CASE Next
  BY <1>2, AcquireHub, HandlerHub, CastHub, AdminHub DEF Next
<1> QED BY <1>1, <1>2

\* The hub invariant holds in every reachable state.
THEOREM HubInvariant == Spec => []HubInv
  BY InitType, NextType, InitHub, NextHub, PTL DEF Spec

\* No interleaving of any number of broadcasts, subscriptions, closes and
\* shutdowns sends on a closed channel or closes a channel twice.
THEOREM NeverPanics == Spec => []NoPanic
  BY HubInvariant, PTL DEF HubInv

\* An open channel is always registered: whoever reads it will be sent the
\* coming messages and will be told when the hub closes.
THEOREM NeverOrphaned == Spec => []NoOrphan
  BY HubInvariant, PTL DEF HubInv

\* Every Shutdown in progress waits for all that is still registered.
THEOREM DrainCovers == Spec => []DrainCoversSubscribers
  BY HubInvariant, PTL DEF HubInv

-----------------------------------------------------------------------------
(* Handlers leave closed channels behind.                                   *)

\* What a handler's own step may touch.
LEMMA HandlerFrame ==
  ASSUME TypeOK, NEW c \in Subs, Disconnect(c) \/ HandlerStep(c)
  PROVE  /\ pc[c] \in {"subscribe", "loop", "unsubscribe"}
         /\ pc' = [pc EXCEPT ![c] = pc'[c]]
         /\ UNCHANGED <<nilMap, admVars>>
<1> USE DEF Goto, TypeOK, GoroutineType
<1>1. CASE Disconnect(c) \/ ReceiveClosed(c)
  BY <1>1 DEF Disconnect, ReceiveClosed, hubVars
<1>2. CASE Receive(c)
  BY <1>2 DEF Receive, hubVars
<1>3. CASE SubscribeFilter(c)
  BY <1>3 DEF SubscribeFilter, Reject, Register, RunHook
<1>4. CASE Unsubscribe(c)
  BY <1>4 DEF Unsubscribe, RunHook
<1> QED BY <1>1, <1>2, <1>3, <1>4 DEF HandlerStep

\* What a step of a fan-out may touch.
LEMMA CastFrame ==
  ASSUME TypeOK, NEW g \in Senders, CastStep(g)
  PROVE  /\ pc[g] \in CastPC
         /\ pc' = [pc EXCEPT ![g] = pc'[g]]
         /\ pc'[g] \in {"cast", after[g]}
         /\ UNCHANGED <<nilMap, chan, after, admVars>>
<1> USE DEF Goto, TypeOK, GoroutineType, CastPC, InPass, hubVars, chanVars, sendVars
<1>1. CASE RLock(g)
  BY <1>1 DEF RLock
<1>2. CASE \E c \in Subs : Pick(g, c)
  BY <1>2 DEF Pick
<1>3. CASE Send(g)
  BY <1>3 DEF Send
<1>4. CASE EndPass(g)
  BY <1>4 DEF EndPass
<1>5. CASE RUnlock(g)
  BY <1>5 DEF RUnlock
<1> QED BY <1>1, <1>2, <1>3, <1>4, <1>5 DEF CastStep

\* Init establishes GoneInv.
LEMMA InitGone == Init => GoneInv
  BY DEF Init, GoneInv, CastPC

\* Every step preserves GoneInv: Unsubscribe closes the channel, or finds that
\* Close or Shutdown has.
LEMMA NextGone == TypeOK /\ HubInv /\ GoneInv /\ [Next]_vars => GoneInv'
<1> SUFFICES ASSUME TypeOK, HubInv, GoneInv, [Next]_vars PROVE GoneInv'
  OBVIOUS
<1> USE GoroutinesDisjoint DEF GoneInv
<1>1. CASE UNCHANGED vars
  BY <1>1 DEF vars, chanVars, sendVars
<1>2. ASSUME NEW g \in Goroutines, AcquireW(g) PROVE GoneInv'
  BY <1>2 DEF AcquireW, chanVars, sendVars
<1>3. ASSUME NEW c \in Subs,
             CallSubscribe(c) \/ Disconnect(c) \/ UnsubscribeAgain(c) \/ HandlerStep(c)
      PROVE  GoneInv'
  <2> USE DEF Goto, TypeOK, GoroutineType, ChanType, CastPC
  <2>1. CASE CallSubscribe(c)
    BY <2>1 DEF CallSubscribe, sendVars
  <2>2. CASE Disconnect(c) \/ UnsubscribeAgain(c) \/ ReceiveClosed(c)
    <3>1. pc[c] \in {"loop", "gone"} /\ pc' = [pc EXCEPT ![c] = "unsubscribe"]
          /\ UNCHANGED <<chan, after>>
      BY <2>2 DEF Disconnect, UnsubscribeAgain, ReceiveClosed, chanVars, sendVars
    <3> QED BY <3>1
  <2>3. CASE Receive(c)
    BY <2>3 DEF Receive, sendVars
  <2>4. CASE SubscribeFilter(c)
    <3>1. pc' = [pc EXCEPT ![c] = pc'[c]] /\ pc'[c] \in {"loop", "rlock"}
          /\ (pc'[c] = "rlock" => after'[c] = "loop")
          /\ (\A d \in Subs : d # c => after'[d] = after[d])
          /\ chan' = [chan EXCEPT ![c] = chan'[c]] /\ chan'[c] \in {"open", "closed"}
      BY <2>4 DEF SubscribeFilter, Reject, Register, RunHook
    <3> QED BY <3>1
  <2>5. CASE Unsubscribe(c)
    <3>1. pc' = [pc EXCEPT ![c] = pc'[c]] /\ pc'[c] \in {"gone", "rlock"}
          /\ (\A d \in Subs : d # c => after'[d] = after[d])
      BY <2>5 DEF Unsubscribe, RunHook
    <3>2. chan'[c] = "closed" /\ \A d \in Subs : d # c => chan'[d] = chan[d]
      BY <2>5 DEF Unsubscribe, CloseChannels, HubInv, NoOrphan
    <3> QED BY <3>1, <3>2
  <2> QED BY <1>3, <2>1, <2>2, <2>3, <2>4, <2>5 DEF HandlerStep
<1>4. ASSUME NEW g \in Senders, CastStep(g) PROVE GoneInv'
  BY <1>4, CastFrame DEF TypeOK, GoroutineType, CastPC
<1>5. ASSUME NEW p \in Producers, NEW n \in 0..MaxMsgs, CallBroadcast(p, n)
      PROVE  GoneInv'
  BY <1>5 DEF CallBroadcast, Goto, chanVars, TypeOK, GoroutineType
<1>6. ASSUME NEW a \in Admins,
             CallClose(a) \/ CallSet(a) \/ CallShutdown(a) \/ CtxDone(a) \/ AdminStep(a)
      PROVE  GoneInv'
  <2>1. \A c \in Subs : pc'[c] = pc[c] /\ after'[c] = after[c]
    BY <1>6 DEF CallClose, CallSet, CallShutdown, CtxDone, AdminStep, Close, SetHook,
                ShutdownBegin, Scan, ScanEnd, Deadline, Repoll, ShutdownFinish,
                ShutdownReturns, Goto, sendVars, TypeOK, GoroutineType
  <2>2. \A c \in Subs : chan'[c] \in {chan[c], "closed"}
    BY <1>6 DEF CallClose, CallSet, CallShutdown, CtxDone, AdminStep, Close, SetHook,
                ShutdownBegin, Scan, ScanEnd, Deadline, Repoll, ShutdownFinish,
                CloseChannels, chanVars
  <2> QED BY <2>1, <2>2
<1> QED BY <1>1, <1>2, <1>3, <1>4, <1>5, <1>6 DEF Next

\* A handler that has returned from its Unsubscribe never leaves an open
\* channel behind.
THEOREM HandlersLeaveClosed == Spec => []GoneInv
  BY InitGone, NextGone, TypeCorrect, HubInvariant, PTL DEF Spec

-----------------------------------------------------------------------------
(* Sequences.                                                               *)

\* Appending to the second of two sequences appends to their concatenation.
LEMMA ConcatAppend ==
  ASSUME NEW S, NEW s \in Seq(S), NEW t \in Seq(S), NEW e \in S
  PROVE  s \o Append(t, e) = Append(s \o t, e)
<1>1. Append(t, e) = t \o <<e>> /\ Append(s \o t, e) = (s \o t) \o <<e>>
  BY AppendIsConcat, ConcatProperties
<1>2. <<e>> \in Seq(S)
  OBVIOUS
<1> QED BY <1>1, <1>2, ConcatAssociative

\* Moving the head of the second sequence to the end of the first changes
\* nothing in their concatenation.
LEMMA ConcatMoveHead ==
  ASSUME NEW S, NEW s \in Seq(S), NEW t \in Seq(S), t # <<>>
  PROVE  Append(s, Head(t)) \o Tail(t) = s \o t
<1>1. Head(t) \in S /\ Tail(t) \in Seq(S) /\ <<Head(t)>> \in Seq(S)
  BY HeadTailProperties
<1>2. t = <<Head(t)>> \o Tail(t)
  BY <1>1, HeadTailProperties
<1>3. Append(s, Head(t)) = s \o <<Head(t)>>
  BY <1>1, AppendIsConcat
<1> QED BY <1>1, <1>2, <1>3, ConcatAssociative

\* What a channel has been given is a sequence of messages, each with its
\* sender and its number.
LEMMA StreamType ==
  ASSUME TypeOK, NEW c \in Subs
  PROVE  /\ Stream(c) \in Seq(Messages) /\ Len(Stream(c)) \in Nat
         /\ \A i \in 1..Len(Stream(c)) :
               /\ Stream(c)[i] \in Messages
               /\ Stream(c)[i][1] \in Senders /\ Stream(c)[i][2] \in Nat
<1>1. Stream(c) \in Seq(Messages)
  BY DEF TypeOK, BufType, Stream
<1> HIDE DEF Senders
<1>2. \A m \in Messages : m[1] \in Senders /\ m[2] \in Nat
  BY DEF Messages
<1> QED BY <1>1, <1>2

-----------------------------------------------------------------------------
(* The delivery invariant.                                                  *)

\* Init establishes the delivery invariant.
LEMMA InitDelivery == Init => DeliveryInv
<1> SUFFICES ASSUME Init PROVE DeliveryInv
  OBVIOUS
<1>1. \A c \in Subs : Stream(c) = <<>> /\ drops[c] = {}
  BY DEF Init, Stream
<1>2. PassInv /\ OfferedInv
  BY DEF Init, PassInv, OfferedInv, Offered
<1>3. NumberInv /\ InOrder /\ FilterRespected
  BY <1>1 DEF NumberInv, InOrder, FilterRespected
<1>4. UnmadeInv
  BY DEF Init, UnmadeInv
<1> QED BY <1>2, <1>3, <1>4 DEF DeliveryInv

\* A step that gives no channel a message, and under which a pass that has
\* begun keeps its lock, its batch, its hooks and its subscribers, preserves
\* the delivery invariant.  A predicate may change before its channel is made.
LEMMA QuietDelivery ==
  ASSUME TypeOK, HubInv, DeliveryInv,
         UNCHANGED <<next, visited, target, drops>>,
         \A c \in Subs : Stream(c)' = Stream(c),
         \A g \in Senders : visited[g] # {} =>
             g \in readers' /\ last'[g] = last[g] /\ hooks' = hooks
             /\ visited[g] \subseteq subscribers',
         \A c \in Subs : chan'[c] = "none" =>
             chan[c] = "none" /\ buf'[c] = buf[c] /\ rcvd'[c] = rcvd[c],
         \A c \in Subs : chan[c] # "none" => pred'[c] = pred[c]
  PROVE  DeliveryInv'
<1> USE DEF DeliveryInv
<1>1. \A g \in Senders : Current(g)' = Current(g) /\ Offered(g)' = Offered(g)
  BY DEF Current, Offered
<1>2. ASSUME NEW c \in subscribers, NEW m PROVE Matched(c, m)' <=> Matched(c, m)
  BY <1>2 DEF Matched, HubInv, NoOrphan, TypeOK, HubType
<1>3. PassInv'
  BY <1>1, <1>2 DEF PassInv
<1>4. OfferedInv'
  <2> SUFFICES ASSUME NEW g \in Senders, NEW c \in Offered(g)', Matched(c, Current(g))'
               PROVE  Given(c, Current(g))' \/ (<<Current(g), DropFate>> \in drops[c])'
    BY DEF OfferedInv
  <2>1. c \in Offered(g) /\ c \in subscribers /\ c \in Subs /\ visited[g] # {}
    BY <1>1 DEF PassInv, Offered, TypeOK, HubType
  <2>2. Matched(c, Current(g))
    BY <1>1, <1>2, <2>1
  <2>3. DropFate' = DropFate
    BY <2>1 DEF DropFate
  <2>4. Given(c, Current(g))' <=> Given(c, Current(g))
    BY <1>1, <2>1 DEF Given
  <2> QED BY <1>1, <2>1, <2>2, <2>3, <2>4 DEF OfferedInv
<1>5. NumberInv' /\ InOrder'
  BY <1>1, StreamType DEF NumberInv, InOrder
<1>6. UnmadeInv'
  BY DEF UnmadeInv
<1>7. FilterRespected'
  <2> SUFFICES ASSUME NEW c \in Subs
               PROVE  /\ \A i \in 1..Len(Stream(c)) : Matched(c, Stream(c)[i])'
                      /\ \A d \in drops[c] : Matched(c, d[1])'
    BY DEF FilterRespected
  <2>1. CASE chan[c] = "none"
    <3>1. Stream(c) = <<>> /\ drops[c] = {}
      BY <2>1 DEF UnmadeInv, Stream
    <3> QED BY <3>1
  <2>2. CASE chan[c] # "none"
    BY <2>2 DEF FilterRespected, Matched
  <2> QED BY <2>1, <2>2
<1> QED BY <1>3, <1>4, <1>5, <1>6, <1>7

\* A critical section of the write lock finds no pass begun.
LEMMA WriterFindsNoPass ==
  ASSUME TypeOK, PassInv, NEW g \in Goroutines, HoldsW(g)
  PROVE  \A s \in Senders : visited[s] = {}
  BY DEF PassInv, HoldsW, TypeOK, GoroutineType

\* A critical section of the write lock that touches no predicate, no buffer
\* and no sender's pass, and that un-makes no channel, preserves the delivery
\* invariant: no pass has begun.
LEMMA WriterDelivery ==
  ASSUME TypeOK, HubInv, DeliveryInv, NEW g \in Goroutines, HoldsW(g),
         UNCHANGED <<next, visited, target, buf, pred, rcvd, drops>>,
         \A c \in Subs : chan'[c] = "none" => chan[c] = "none"
  PROVE  DeliveryInv'
<1>1. \A s \in Senders : visited[s] = {}
  BY WriterFindsNoPass DEF DeliveryInv
<1>2. \A c \in Subs : Stream(c)' = Stream(c)
  BY DEF Stream
<1> QED BY <1>1, <1>2, QuietDelivery

\* A step outside the write lock that gives no channel a message, and lets go
\* of the read lock only after the last message, preserves it too.
LEMMA OutsideDelivery ==
  ASSUME TypeOK, HubInv, DeliveryInv,
         UNCHANGED <<next, visited, target, hubVars, chan, buf, rcvd, drops>>,
         \A g \in readers : g \in readers' \/ next[g] = last[g],
         \A g \in readers : last'[g] = last[g],
         \A c \in Subs : chan[c] # "none" => pred'[c] = pred[c]
  PROVE  DeliveryInv'
<1>1. ASSUME NEW g \in Senders, visited[g] # {}
      PROVE  g \in readers' /\ last'[g] = last[g]
  BY <1>1 DEF DeliveryInv, PassInv, TypeOK, GoroutineType
<1>2. \A c \in Subs : Stream(c)' = Stream(c)
  BY DEF Stream
<1>3. \A g \in Senders : visited[g] \subseteq subscribers
  BY DEF DeliveryInv, PassInv
<1> QED BY <1>1, <1>2, <1>3, QuietDelivery DEF hubVars

\* Winning the writer mutex preserves the delivery invariant.
LEMMA AcquireDelivery ==
  ASSUME TypeOK, HubInv, DeliveryInv, NEW g \in Goroutines, AcquireW(g)
  PROVE  DeliveryInv'
<1>1. \A s \in readers : last'[s] = last[s]
  BY DEF AcquireW, sendVars
<1> QED BY <1>1, OutsideDelivery DEF AcquireW, chanVars, sendVars, history

\* A handler's step preserves the delivery invariant.
LEMMA HandlerDelivery ==
  ASSUME TypeOK, HubInv, DeliveryInv, NEW c \in Subs,
         CallSubscribe(c) \/ Disconnect(c) \/ UnsubscribeAgain(c) \/ HandlerStep(c)
  PROVE  DeliveryInv'
<1>1. CASE CallSubscribe(c)
  <2>1. \A d \in Subs : chan[d] # "none" => pred'[d] = pred[d]
    BY <1>1 DEF CallSubscribe, HubInv, ChanInv, TypeOK, ChanType
  <2> QED BY <1>1, <2>1, OutsideDelivery DEF CallSubscribe, lockVars, sendVars, history
<1>2. CASE Disconnect(c) \/ UnsubscribeAgain(c) \/ ReceiveClosed(c)
  <2>1. UNCHANGED <<hubVars, lockVars, chanVars, sendVars, history>>
    BY <1>2 DEF Disconnect, UnsubscribeAgain, ReceiveClosed
  <2> QED BY <2>1, OutsideDelivery DEF lockVars, chanVars, sendVars, history
<1>3. CASE SubscribeFilter(c)
  <2>1. \A d \in Subs : chan'[d] = "none" => chan[d] = "none"
    BY <1>3 DEF SubscribeFilter, Reject, Register, TypeOK, ChanType
  <2> QED BY <1>3, <2>1, WriterDelivery DEF SubscribeFilter, history
<1>4. CASE Unsubscribe(c)
  <2>1. \A d \in Subs : chan'[d] = "none" => chan[d] = "none"
    BY <1>4 DEF Unsubscribe, CloseChannels, TypeOK, ChanType
  <2> QED BY <1>4, <2>1, WriterDelivery DEF Unsubscribe
<1>5. CASE Receive(c)
  <2> USE <1>5 DEF Receive
  <2>1. ASSUME NEW d \in Subs PROVE Stream(d)' = Stream(d)
    <3>1. CASE d = c
      <4>1. rcvd'[c] = Append(rcvd[c], Head(buf[c])) /\ buf'[c] = Tail(buf[c])
        BY DEF TypeOK, BufType
      <4>2. rcvd[c] \in Seq(Messages) /\ buf[c] \in Seq(Messages)
        BY DEF TypeOK, BufType
      <4>3. Append(rcvd[c], Head(buf[c])) \o Tail(buf[c]) = rcvd[c] \o buf[c]
        BY <4>2, ConcatMoveHead
      <4> QED BY <3>1, <4>1, <4>3, Zenon DEF Stream
    <3>2. CASE d # c
      BY <3>2 DEF Stream, TypeOK, BufType
    <3> QED BY <3>1, <3>2
  <2>2. chan[c] # "none"
    BY DEF DeliveryInv, UnmadeInv
  <2>3. \A d \in Subs : chan'[d] = "none" =>
            chan[d] = "none" /\ buf'[d] = buf[d] /\ rcvd'[d] = rcvd[d]
    BY <2>2 DEF TypeOK, BufType
  <2>4. \A g \in Senders : visited[g] # {} =>
            g \in readers /\ visited[g] \subseteq subscribers
    BY DEF DeliveryInv, PassInv
  <2> QED BY <2>1, <2>3, <2>4, QuietDelivery DEF hubVars, lockVars, sendVars
<1> QED BY <1>1, <1>2, <1>3, <1>4, <1>5 DEF HandlerStep

\* An administrator's step preserves the delivery invariant.
LEMMA AdminDelivery ==
  ASSUME TypeOK, HubInv, DeliveryInv, NEW a \in Admins,
         CallClose(a) \/ CallSet(a) \/ CallShutdown(a) \/ CtxDone(a) \/ AdminStep(a)
  PROVE  DeliveryInv'
<1>1. CASE CallClose(a) \/ CallSet(a) \/ CallShutdown(a) \/ CtxDone(a)
           \/ (\E c \in Subs : Scan(a, c)) \/ ScanEnd(a) \/ Deadline(a) \/ Repoll(a)
  <2>1. UNCHANGED <<hubVars, lockVars, chanVars, sendVars, history>>
    BY <1>1 DEF CallClose, CallSet, CallShutdown, CtxDone, Scan, ScanEnd, Deadline, Repoll
  <2> QED BY <2>1, OutsideDelivery DEF lockVars, chanVars, sendVars, history
<1>2. CASE Close(a)
  <2>1. \A d \in Subs : chan'[d] = "none" => chan[d] = "none"
    BY <1>2 DEF Close, CloseChannels, TypeOK, ChanType
  <2> QED BY <1>2, <2>1, WriterDelivery DEF Close, sendVars
<1>3. CASE \E h \in HookNames : SetHook(a, h)
  BY <1>3, WriterDelivery DEF SetHook, chanVars, sendVars, history
<1>4. CASE ShutdownBegin(a)
  BY <1>4, WriterDelivery DEF ShutdownBegin, chanVars, sendVars, history
<1>5. CASE ShutdownFinish(a)
  <2>1. \A d \in Subs : chan'[d] = "none" => chan[d] = "none"
    BY <1>5 DEF ShutdownFinish, CloseChannels, TypeOK, ChanType
  <2> QED BY <1>5, <2>1, WriterDelivery DEF ShutdownFinish, sendVars
<1> QED BY <1>1, <1>2, <1>3, <1>4, <1>5 DEF AdminStep

\* The predicate the fan-out asks is the one the properties speak of.
LEMMA WantsIsMatched == ASSUME NEW c, NEW m PROVE Wants(c, m) <=> Matched(c, m)
  BY DEF Wants, Matched, SafePredCall

\* Picking the next subscriber preserves the delivery invariant: one that is
\* filtered out does not want the message, any other becomes the target.
LEMMA PickDelivery ==
  ASSUME TypeOK, HubInv, DeliveryInv, NEW g \in Senders, NEW c \in Subs, Pick(g, c)
  PROVE  DeliveryInv'
<1> USE DEF DeliveryInv, Pick
<1>1. /\ \A d \in Subs : Stream(d)' = Stream(d)
      /\ \A s \in Senders : Current(s)' = Current(s)
      /\ DropFate' = DropFate
  BY DEF Stream, Current, DropFate, chanVars, history, hubVars
<1>2. \A d, m : Matched(d, m)' <=> Matched(d, m)
  BY DEF Matched, chanVars
<1>3. PassInv'
  BY <1>1, <1>2, WantsIsMatched
     DEF PassInv, InPass, TypeOK, HubType, GoroutineType, hubVars, lockVars
<1>4. \A s \in Senders :
        \A d \in Offered(s)' : d \in Offered(s) \/ (s = g /\ d = c /\ ~Matched(c, Current(g)))
  BY WantsIsMatched, GoroutinesDisjoint DEF Offered, TypeOK, GoroutineType
<1>5. \A s \in Senders : Offered(s) \subseteq Offered(s)'
  BY GoroutinesDisjoint DEF Offered, TypeOK, GoroutineType
<1>6. OfferedInv'
  <2> SUFFICES ASSUME NEW s \in Senders, NEW d \in Offered(s)', Matched(d, Current(s))'
               PROVE  Given(d, Current(s))' \/ (<<Current(s), DropFate>> \in drops[d])'
    BY DEF OfferedInv
  <2>1. d \in Offered(s) /\ Matched(d, Current(s))
    BY <1>1, <1>2, <1>4
  <2>2. d \in Subs
    BY <2>1 DEF Offered, TypeOK, GoroutineType
  <2>3. Given(d, Current(s))' <=> Given(d, Current(s))
    BY <1>1, <2>2 DEF Given
  <2> QED BY <1>1, <2>1, <2>3 DEF OfferedInv, history
<1>7. NumberInv'
  <2> SUFFICES ASSUME NEW d \in Subs, NEW i \in 1..Len(Stream(d)),
                      NEW m \in Messages, m = Stream(d)[i]
               PROVE  m[2] =< next[m[1]] \/ (m = Current(m[1]) /\ d \in Offered(m[1])')
    BY <1>1, StreamType DEF NumberInv
  <2>1. m[1] \in Senders
    BY StreamType
  <2> QED BY <1>5, <2>1 DEF NumberInv
<1>8. InOrder' /\ FilterRespected' /\ UnmadeInv'
  BY <1>1, <1>2 DEF InOrder, FilterRespected, UnmadeInv, chanVars, history
<1> QED BY <1>3, <1>6, <1>7, <1>8

\* The end of a pass preserves the delivery invariant: the message it was
\* about is one of the past.
LEMMA EndPassDelivery ==
  ASSUME TypeOK, HubInv, DeliveryInv, NEW g \in Senders, EndPass(g)
  PROVE  DeliveryInv'
<1> USE DEF DeliveryInv, EndPass
<1>1. \A d \in Subs : Stream(d)' = Stream(d)
  BY DEF Stream, chanVars, history
<1>2. \A d, m : Matched(d, m)' <=> Matched(d, m)
  BY DEF Matched, chanVars
<1>3. \A s \in Senders : s # g =>
        Current(s)' = Current(s) /\ Offered(s)' = Offered(s) /\ next'[s] = next[s]
  BY DEF Current, Offered, TypeOK, GoroutineType
<1>4. Offered(g)' = {} /\ target[g] = None /\ next'[g] = next[g] + 1
  BY DEF Offered, PassDone, TypeOK, GoroutineType
<1>5. PassInv'
  BY <1>2, <1>3, <1>4 DEF PassInv, TypeOK, GoroutineType, hubVars, lockVars
<1>6. OfferedInv'
  <2> SUFFICES ASSUME NEW s \in Senders, NEW d \in Offered(s)', Matched(d, Current(s))'
               PROVE  Given(d, Current(s))' \/ (<<Current(s), DropFate>> \in drops[d])'
    BY DEF OfferedInv
  <2>1. s # g /\ d \in Offered(s) /\ Matched(d, Current(s)) /\ Current(s)' = Current(s)
    BY <1>2, <1>3, <1>4
  <2>2. d \in Subs
    BY <2>1 DEF Offered, TypeOK, GoroutineType
  <2>3. Given(d, Current(s))' <=> Given(d, Current(s))
    BY <1>1, <2>1, <2>2 DEF Given
  <2>4. DropFate' = DropFate
    BY DEF DropFate, hubVars
  <2> QED BY <2>1, <2>3, <2>4 DEF OfferedInv, history
<1>7. NumberInv'
  <2> SUFFICES ASSUME NEW d \in Subs, NEW i \in 1..Len(Stream(d)),
                      NEW m \in Messages, m = Stream(d)[i]
               PROVE  m[2] =< next'[m[1]] \/ (m = Current(m[1])' /\ d \in Offered(m[1])')
    BY <1>1, StreamType DEF NumberInv
  <2>1. m[1] \in Senders /\ m[2] \in Nat /\ next[m[1]] \in Nat
    BY StreamType DEF TypeOK, GoroutineType
  <2>2. m[2] =< next[m[1]] \/ (m = Current(m[1]) /\ d \in Offered(m[1]))
    BY DEF NumberInv
  <2>3. CASE m[1] = g
    BY <2>1, <2>2, <2>3, <1>4 DEF Current
  <2>4. CASE m[1] # g
    BY <2>1, <2>2, <2>4, <1>3
  <2> QED BY <2>3, <2>4
<1>8. InOrder' /\ FilterRespected' /\ UnmadeInv'
  BY <1>1, <1>2 DEF InOrder, FilterRespected, UnmadeInv, chanVars, history
<1> QED BY <1>5, <1>6, <1>7, <1>8

\* What a send does to the streams: the target's grows by the message, or the
\* drop is charged to it; nothing else changes.
LEMMA SendEffect ==
  ASSUME TypeOK, HubInv, NEW g \in Senders, Send(g), NEW c \in Subs, target[g] = c
  PROVE  /\ \A d \in Subs : d # c => Stream(d)' = Stream(d) /\ drops'[d] = drops[d]
         /\ \/ /\ Stream(c)' = Append(Stream(c), Current(g))
               /\ drops' = drops
            \/ /\ Stream(c)' = Stream(c)
               /\ drops'[c] = drops[c] \cup {<<Current(g), DropFate>>}
<1>1. rcvd' = rcvd /\ rcvd[c] \in Seq(Messages) /\ buf[c] \in Seq(Messages)
  BY DEF Send, TypeOK, BufType
<1>2. CASE HasRoom(c)
  <2>1. buf' = [buf EXCEPT ![c] = Append(@, Current(g))] /\ drops' = drops
    BY <1>2 DEF Send
  <2>2. buf'[c] = Append(buf[c], Current(g)) /\ \A d \in Subs : d # c => buf'[d] = buf[d]
    BY <2>1 DEF TypeOK, BufType
  <2>3. rcvd[c] \o Append(buf[c], Current(g)) = Append(rcvd[c] \o buf[c], Current(g))
    <3>1. Current(g) \in Messages
      BY CurrentType
    <3>2. \A s, t \in Seq(Messages) : \A e \in Messages : s \o Append(t, e) = Append(s \o t, e)
      BY ConcatAppend
    <3> QED BY <1>1, <3>1, <3>2
  <2>4. \A d \in Subs : d # c => Stream(d)' = Stream(d)
    BY <1>1, <2>2, Zenon DEF Stream
  <2>5. Stream(c)' = Append(Stream(c), Current(g))
    BY <1>1, <2>2, <2>3, Zenon DEF Stream
  <2> QED BY <2>1, <2>4, <2>5
<1>3. CASE ~HasRoom(c)
  <2>1. drops' = [drops EXCEPT ![c] = @ \cup {<<Current(g), DropFate>>}] /\ buf' = buf
    BY <1>3 DEF Send
  <2>2. \A d \in Subs : Stream(d)' = Stream(d)
    BY <1>1, <2>1 DEF Stream
  <2> QED BY <2>1, <2>2 DEF TypeOK, BufType
<1> QED BY <1>2, <1>3

\* So whatever a channel was given stays given, the charged drops stay charged,
\* and the target has the message or the drop.
LEMMA SendGives ==
  ASSUME TypeOK, HubInv, NEW g \in Senders, Send(g), NEW c \in Subs, target[g] = c
  PROVE  /\ \A d \in Subs : \A m : Given(d, m) => Given(d, m)'
         /\ \A d \in Subs : drops[d] \subseteq drops'[d]
         /\ \A s \in Senders : Current(s)' = Current(s)
         /\ Given(c, Current(g))' \/ <<Current(g), DropFate>> \in drops'[c]
<1>1. \A d \in Subs : Stream(d) \in Seq(Messages)
  BY StreamType
<1>2. \A s \in Senders : Current(s)' = Current(s)
  BY DEF Send, Current
<1>3. CASE Stream(c)' = Append(Stream(c), Current(g)) /\ drops' = drops
  <2> DEFINE s == Stream(c)
  <2>1. /\ Len(Append(s, Current(g))) = Len(s) + 1
        /\ \A i \in 1..Len(s) : Append(s, Current(g))[i] = s[i]
        /\ Append(s, Current(g))[Len(s) + 1] = Current(g)
    BY <1>1, CurrentType, AppendProperties
  <2>2. \A m : Given(c, m) => Given(c, m)'
    BY <1>1, <1>3, <2>1 DEF Given
  <2>3. \A d \in Subs : \A m : d # c => (Given(d, m) => Given(d, m)')
    BY SendEffect DEF Given
  <2>4. Given(c, Current(g))'
    BY <1>2, <1>1, <1>3, <2>1 DEF Given
  <2> QED BY <1>2, <1>3, <2>2, <2>3, <2>4
<1>4. CASE /\ Stream(c)' = Stream(c)
           /\ drops'[c] = drops[c] \cup {<<Current(g), DropFate>>}
  BY <1>2, <1>4, SendEffect DEF Given
<1> QED BY <1>3, <1>4, SendEffect

\* A send preserves the delivery invariant.  The target is not among those
\* already offered the message, so the message is new to its channel and
\* larger than everything its sender has put there before.
LEMMA SendDelivery ==
  ASSUME TypeOK, HubInv, DeliveryInv, NEW g \in Senders, Send(g)
  PROVE  DeliveryInv'
<1> USE DEF DeliveryInv
<1>1. PICK c \in Subs : target[g] = c
  BY DEF Send, TypeOK, GoroutineType
<1>2. /\ \A d \in Subs : \A m : Given(d, m) => Given(d, m)'
      /\ \A d \in Subs : drops[d] \subseteq drops'[d]
      /\ \A s \in Senders : Current(s)' = Current(s)
      /\ Given(c, Current(g))' \/ <<Current(g), DropFate>> \in drops'[c]
  BY <1>1, SendGives
<1>3. /\ \A d \in Subs : d # c => Stream(d)' = Stream(d) /\ drops'[d] = drops[d]
      /\ \/ /\ Stream(c)' = Append(Stream(c), Current(g))
            /\ drops' = drops
         \/ /\ Stream(c)' = Stream(c)
            /\ drops'[c] = drops[c] \cup {<<Current(g), DropFate>>}
  BY <1>1, SendEffect
<1>4. /\ c \in visited[g] /\ c \in subscribers /\ Matched(c, Current(g))
      /\ c \notin Offered(g)
  BY <1>1, GoroutinesDisjoint DEF PassInv, Offered
<1>5. \A d, m : Matched(d, m)' <=> Matched(d, m)
  BY DEF Send, Matched
<1>6. /\ \A s \in Senders : Offered(s) \subseteq Offered(s)'
      /\ \A s \in Senders : \A d \in Offered(s)' : d \in Offered(s) \/ (s = g /\ d = c)
      /\ c \in Offered(g)'
  BY <1>1, <1>4, GoroutinesDisjoint DEF Offered, Send, TypeOK, GoroutineType
<1>7. PassInv'
  BY <1>2, <1>5 DEF PassInv, Send, TypeOK, GoroutineType, hubVars, lockVars
<1>8. OfferedInv'
  <2> SUFFICES ASSUME NEW s \in Senders, NEW d \in Offered(s)', Matched(d, Current(s))'
               PROVE  Given(d, Current(s))' \/ (<<Current(s), DropFate>> \in drops[d])'
    BY DEF OfferedInv
  <2>1. DropFate' = DropFate
    BY DEF DropFate, Send, hubVars
  <2>2. CASE s = g /\ d = c
    BY <1>2, <2>1, <2>2
  <2>3. CASE d \in Offered(s)
    <3>1. d \in Subs /\ Matched(d, Current(s))
      BY <1>2, <1>5, <2>3 DEF Offered, TypeOK, GoroutineType
    <3>2. Given(d, Current(s)) \/ <<Current(s), DropFate>> \in drops[d]
      BY <2>3, <3>1 DEF OfferedInv
    <3>3. Given(d, Current(s)) => Given(d, Current(s))'
      BY <1>2, <3>1 DEF Given
    <3> QED BY <1>2, <2>1, <3>1, <3>2, <3>3
  <2> QED BY <1>6, <2>2, <2>3
<1>9. UnmadeInv'
  <2>1. chan[c] # "none"
    BY <1>4 DEF HubInv, NoOrphan
  <2> QED BY <1>1, <1>3, <2>1 DEF UnmadeInv, Send, TypeOK, BufType
<1>10. ASSUME NEW d \in Subs, NEW i \in 1..Len(Stream(d)')
       PROVE  \/ i \in 1..Len(Stream(d)) /\ Stream(d)'[i] = Stream(d)[i]
              \/ d = c /\ i = Len(Stream(c)) + 1 /\ Stream(d)'[i] = Current(g)
  <2>1. Stream(c) \in Seq(Messages) /\ Current(g) \in Messages
    BY StreamType, CurrentType
  <2>2. CASE d = c /\ Stream(c)' = Append(Stream(c), Current(g))
    BY <2>1, <2>2, AppendProperties
  <2>3. CASE Stream(d)' = Stream(d)
    BY <2>3
  <2> QED BY <1>3, <2>2, <2>3
<1>11. NumberInv'
  <2> SUFFICES ASSUME NEW d \in Subs, NEW i \in 1..Len(Stream(d)'),
                      NEW m, m = Stream(d)'[i]
               PROVE  m[2] =< next[m[1]] \/ (m = Current(m[1])' /\ d \in Offered(m[1])')
    BY DEF NumberInv, Send
  <2>1. CASE i \in 1..Len(Stream(d)) /\ m = Stream(d)[i]
    <3>1. m[1] \in Senders
      BY <2>1, StreamType
    <3>2. m[2] =< next[m[1]] \/ (m = Current(m[1]) /\ d \in Offered(m[1]))
      BY <2>1 DEF NumberInv
    <3> QED BY <1>2, <1>6, <3>1, <3>2
  <2>2. CASE d = c /\ m = Current(g)
    <3>1. m[1] = g
      BY <2>2 DEF Current
    <3> QED BY <1>2, <1>6, <2>2, <3>1
  <2> QED BY <1>10, <2>1, <2>2
<1>12. InOrder'
  <2> SUFFICES ASSUME NEW d \in Subs,
                      NEW i \in 1..Len(Stream(d)'), NEW j \in 1..Len(Stream(d)'), i < j,
                      Stream(d)'[i][1] = Stream(d)'[j][1]
               PROVE  Stream(d)'[i][2] < Stream(d)'[j][2]
    BY DEF InOrder
  <2>1. Len(Stream(d)) \in Nat /\ next[g] \in Nat
    BY StreamType DEF TypeOK, GoroutineType
  <2>2. CASE /\ i \in 1..Len(Stream(d)) /\ Stream(d)'[i] = Stream(d)[i]
             /\ j \in 1..Len(Stream(d)) /\ Stream(d)'[j] = Stream(d)[j]
    BY <2>2 DEF InOrder
  <2>3. CASE /\ i \in 1..Len(Stream(d)) /\ Stream(d)'[i] = Stream(d)[i]
             /\ d = c /\ Stream(d)'[j] = Current(g)
    <3> DEFINE m == Stream(c)[i]
    <3>1. m[1] = g /\ m[2] \in Nat
      BY <2>3, StreamType DEF Current
    <3>2. m[2] =< next[g] \/ c \in Offered(g)
      BY <2>3, <3>1 DEF NumberInv
    <3>3. m[2] < next[g] + 1
      BY <1>4, <2>1, <3>1, <3>2
    <3> QED BY <2>3, <3>3 DEF Current
  <2>4. \/ i \in 1..Len(Stream(d)) /\ Stream(d)'[i] = Stream(d)[i]
        \/ d = c /\ i = Len(Stream(c)) + 1
    BY <1>10
  <2>5. \/ j \in 1..Len(Stream(d)) /\ Stream(d)'[j] = Stream(d)[j]
        \/ d = c /\ j = Len(Stream(c)) + 1 /\ Stream(d)'[j] = Current(g)
    BY <1>10
  <2> QED BY <2>1, <2>2, <2>3, <2>4, <2>5
<1>13. FilterRespected'
  <2>1. ASSUME NEW d \in Subs, NEW i \in 1..Len(Stream(d)')
        PROVE  Matched(d, Stream(d)'[i])
    <3>1. CASE i \in 1..Len(Stream(d)) /\ Stream(d)'[i] = Stream(d)[i]
      BY <3>1 DEF FilterRespected
    <3>2. CASE d = c /\ Stream(d)'[i] = Current(g)
      BY <1>4, <3>2
    <3> QED BY <1>10, <2>1, <3>1, <3>2
  <2>2. ASSUME NEW d \in Subs, NEW x \in drops'[d] PROVE Matched(d, x[1])
    <3>1. CASE x \in drops[d]
      BY <3>1 DEF FilterRespected
    <3>2. CASE d = c /\ x = <<Current(g), DropFate>>
      BY <1>4, <3>2
    <3> QED BY <1>3, <2>2, <3>1, <3>2
  <2> QED BY <1>5, <2>1, <2>2 DEF FilterRespected
<1> QED BY <1>7, <1>8, <1>9, <1>11, <1>12, <1>13

\* A broadcast, from the call to the return, preserves the delivery invariant.
LEMMA CastDelivery ==
  ASSUME TypeOK, HubInv, DeliveryInv, NEW g \in Senders,
         CastStep(g) \/ (g \in Producers /\ \E n \in 0..MaxMsgs : CallBroadcast(g, n))
  PROVE  DeliveryInv'
<1>1. CASE g \in Producers /\ \E n \in 0..MaxMsgs : CallBroadcast(g, n)
  <2>1. g \notin readers
    BY <1>1 DEF CallBroadcast, HubInv, LockInv
  <2>2. \A s \in readers : last'[s] = last[s]
    BY <1>1, <2>1 DEF CallBroadcast, TypeOK, HubType, GoroutineType
  <2> QED BY <1>1, <2>2, OutsideDelivery DEF CallBroadcast, lockVars, chanVars, history
<1>2. CASE RLock(g)
  <2>1. readers \subseteq readers' /\ last' = last
    BY <1>2 DEF RLock, sendVars
  <2> QED BY <1>2, <2>1, OutsideDelivery DEF RLock, chanVars, sendVars, history
<1>3. CASE RUnlock(g)
  <2>1. \A s \in readers : s \in readers' \/ next[s] = last[s]
    BY <1>3 DEF RUnlock
  <2> QED BY <1>3, <2>1, OutsideDelivery DEF RUnlock, chanVars, sendVars, history
<1> QED BY <1>1, <1>2, <1>3, PickDelivery, SendDelivery, EndPassDelivery DEF CastStep

\* Every step preserves the delivery invariant.
LEMMA NextDelivery == TypeOK /\ HubInv /\ DeliveryInv /\ [Next]_vars => DeliveryInv'
<1> SUFFICES ASSUME TypeOK, HubInv, DeliveryInv, [Next]_vars PROVE DeliveryInv'
  OBVIOUS
<1>1. CASE UNCHANGED vars
  BY <1>1, OutsideDelivery DEF vars, lockVars, chanVars, sendVars, history
<1>2. CASE Next
  BY <1>2, AcquireDelivery, HandlerDelivery, CastDelivery, AdminDelivery DEF Next
<1> QED BY <1>1, <1>2

\* The delivery invariant holds in every reachable state.
THEOREM DeliveryInvariant == Spec => []DeliveryInv
  BY InitType, NextType, InitHub, NextHub, InitDelivery, NextDelivery, PTL DEF Spec

\* Whatever senders, handlers and administrators do, a subscriber is given the
\* messages of each sender in the order they were broadcast, none twice.
THEOREM AlwaysInOrder == Spec => []InOrder
  BY DeliveryInvariant, PTL DEF DeliveryInv

\* No subscriber is ever given, or charged a drop for, a message that its
\* predicate did not match.
THEOREM FilterAlwaysRespected == Spec => []FilterRespected
  BY DeliveryInvariant, PTL DEF DeliveryInv

-----------------------------------------------------------------------------
(* No silent loss.                                                          *)

\* Only the end of a pass makes a message one of the past.
LEMMA NextChangesAtEnd ==
  ASSUME TypeOK, [Next]_vars, NEW g \in Senders, next'[g] # next[g]
  PROVE  EndPass(g)
<1> USE DEF sendVars
<1>1. CASE UNCHANGED vars
  BY <1>1 DEF vars
<1>2. ASSUME NEW a \in Goroutines, AcquireW(a) PROVE FALSE
  BY <1>2 DEF AcquireW
<1>3. ASSUME NEW c \in Subs,
             CallSubscribe(c) \/ Disconnect(c) \/ UnsubscribeAgain(c) \/ HandlerStep(c)
      PROVE  FALSE
  BY <1>3 DEF CallSubscribe, Disconnect, UnsubscribeAgain, HandlerStep, SubscribeFilter,
              Receive, ReceiveClosed, Unsubscribe
<1>4. ASSUME NEW s \in Senders, CastStep(s) PROVE EndPass(g)
  <2>1. CASE EndPass(s)
    <3>1. s = g
      BY <2>1 DEF EndPass, TypeOK, GoroutineType
    <3> QED BY <2>1, <3>1
  <2> QED BY <1>4, <2>1 DEF CastStep, RLock, Pick, Send, RUnlock
<1>5. ASSUME NEW p \in Producers, NEW n \in 0..MaxMsgs, CallBroadcast(p, n) PROVE FALSE
  BY <1>5 DEF CallBroadcast
<1>6. ASSUME NEW a \in Admins,
             CallClose(a) \/ CallSet(a) \/ CallShutdown(a) \/ CtxDone(a) \/ AdminStep(a)
      PROVE  FALSE
  BY <1>6 DEF CallClose, CallSet, CallShutdown, CtxDone, AdminStep, Close, SetHook,
              ShutdownBegin, Scan, ScanEnd, Deadline, Repoll, ShutdownFinish
<1> QED BY <1>1, <1>2, <1>3, <1>4, <1>5, <1>6 DEF Next

\* When the fan-out of a message ends, every subscriber registered that wants
\* it has it or was charged the drop, and onDrop was told if it was set.
THEOREM NeverSilentlyLost == Spec => NoSilentLoss
<1> DEFINE Lossless(g) ==
      \A c \in subscribers : Matched(c, Current(g)) =>
          \/ \E i \in 1..Len(Stream(c)) : Stream(c)[i] = Current(g)
          \/ <<Current(g), DropFate>> \in drops[c]
<1>1. ASSUME TypeOK, DeliveryInv, [Next]_vars, NEW g \in Senders, next'[g] # next[g]
      PROVE  Lossless(g)
  <2>1. EndPass(g)
    BY <1>1, NextChangesAtEnd
  <2>2. subscribers \subseteq Offered(g)
    BY <1>1, <2>1, GoroutinesDisjoint DEF EndPass, PassDone, Offered, TypeOK, HubType
  <2> QED BY <1>1, <2>2 DEF DeliveryInv, OfferedInv, Given
<1>2. TypeOK /\ DeliveryInv /\ [Next]_vars
        => [\A g \in Senders : next'[g] # next[g] => Lossless(g)]_vars
  BY <1>1
<1> QED BY <1>2, TypeCorrect, DeliveryInvariant, PTL DEF Spec, NoSilentLoss
-----------------------------------------------------------------------------
(* The hub implements the topic: initial states map to initial states, and   *)
(* every step of the hub maps to a step of the topic or to none.             *)

\* The topic's members are the registered subscribers.
LEMMA MembersAreSubscribers ==
  ASSUME TypeOK, HubInv PROVE Hub!Members = subscribers
  BY DEF Hub!Members, HubInv, NoOrphan, TypeOK, HubType

\* With the write lock held the topic is between two messages.
LEMMA WriterBetweenMessages ==
  ASSUME TypeOK, DeliveryInv, NEW g \in Goroutines, HoldsW(g)
  PROVE  Hub!BetweenMessages
<1>1. \A s \in Senders : visited[s] = {}
  BY WriterFindsNoPass DEF DeliveryInv
<1> QED BY <1>1 DEF Hub!BetweenMessages, OfferedTo, Offered

\* The filters of the topic change only where a channel is made.
LEMMA InterestKept ==
  ASSUME \A c \in Subs : chan'[c] = "none" <=> chan[c] = "none",
         \A c \in Subs : chan[c] # "none" => pred'[c] = pred[c]
  PROVE  Interest' = Interest
  BY DEF Interest

\* A step that leaves channels, buffers, drops and passes alone is none of the
\* topic's.
LEMMA HubStutters ==
  ASSUME UNCHANGED <<nilMap, draining, chan, buf, rcvd, drops, next>>,
         OfferedTo' = OfferedTo,
         \A c \in Subs : chan[c] # "none" => pred'[c] = pred[c]
  PROVE  UNCHANGED Hub!vars
<1>1. Interest' = Interest
  BY InterestKept
<1> QED BY <1>1 DEF Hub!vars, Phase, Dropped

\* The hub starts as a topic does.
LEMMA InitTopic == Init => Hub!Init
<1> SUFFICES ASSUME Init PROVE Hub!Init
  OBVIOUS
<1>1. Interest = [c \in Subs |-> NilPred] /\ Dropped = [c \in Subs |-> {}]
      /\ OfferedTo = [g \in Senders |-> {}]
  BY DEF Init, Interest, Dropped, OfferedTo, Offered
<1> QED BY <1>1 DEF Init, Hub!Init, Phase

\* Winning the writer mutex is no step of the topic.
LEMMA AcquireTopic == ASSUME NEW g \in Goroutines, AcquireW(g) PROVE UNCHANGED Hub!vars
<1>1. OfferedTo' = OfferedTo
  BY DEF AcquireW, sendVars, OfferedTo, Offered
<1> QED BY <1>1, HubStutters DEF AcquireW, hubVars, chanVars, sendVars, history

\* The critical section of Subscribe is a Join: accepted between two messages,
\* or turned away because the hub is draining or closed.
LEMMA SubscribeTopic ==
  ASSUME TypeOK, HubInv, DeliveryInv, NEW c \in Subs, SubscribeFilter(c)
  PROVE  Hub!Join(c)
<1> USE DEF SubscribeFilter, Reject, Register
<1>1. chan[c] = "none" /\ pred[c] \in Preds
  BY DEF HubInv, ChanInv, TypeOK, ChanType
<1>2. chan' = [chan EXCEPT ![c] = chan'[c]] /\ chan'[c] \in {"open", "closed"}
  BY DEF TypeOK, ChanType
<1>3. Interest' = [Interest EXCEPT ![c] = pred[c]]
  BY <1>1, <1>2 DEF Interest, TypeOK, ChanType
<1>4. Hub!BetweenMessages
  BY WriterBetweenMessages
<1>5. UNCHANGED <<Phase, buf, rcvd, Dropped, next, OfferedTo>>
  BY DEF Phase, Dropped, OfferedTo, Offered, history
<1>6. Phase = "open" <=> ~Rejecting
  BY DEF Phase, Rejecting
<1> QED BY <1>1, <1>3, <1>4, <1>5, <1>6 DEF Hub!Join

\* A critical section that closes the channels S of members is a Close of the
\* topic, if the topic's life moves on and is over only without members.
LEMMA ClosingTopic ==
  ASSUME TypeOK, HubInv, DeliveryInv, NEW g \in Goroutines, HoldsW(g),
         NEW S \in SUBSET subscribers,
         chan' = [c \in Subs |-> IF c \in S THEN "closed" ELSE chan[c]],
         UNCHANGED <<buf, pred, next, visited, target, rcvd, drops>>,
         nilMap => nilMap', draining => draining' \/ nilMap',
         nilMap' => S = subscribers
  PROVE  Hub!Next
<1>1. Hub!BetweenMessages /\ Hub!Members = subscribers
  BY WriterBetweenMessages, MembersAreSubscribers
<1>2. \A c \in Subs : chan'[c] = "none" <=> chan[c] = "none"
  BY DEF HubInv, NoOrphan, TypeOK, ChanType
<1>3. UNCHANGED <<Interest, buf, rcvd, Dropped, next, OfferedTo>>
  BY <1>2, InterestKept DEF Dropped, OfferedTo, Offered
<1>4. \E i, j \in 1 .. 3 : i <= j /\ Hub!Phases[i] = Phase /\ Hub!Phases[j] = Phase'
  <2>1. Hub!Phases[1] = "open" /\ Hub!Phases[2] = "refusing" /\ Hub!Phases[3] = "over"
    BY DEF Hub!Phases
  <2>2. CASE Phase = "open"
    <3>1. \E j \in 1 .. 3 : Hub!Phases[j] = Phase'
      BY <2>1 DEF Phase
    <3> QED BY <2>1, <2>2, <3>1
  <2>3. CASE Phase = "refusing"
    BY <2>1, <2>3 DEF Phase, TypeOK, HubType
  <2>4. CASE Phase = "over"
    BY <2>1, <2>4 DEF Phase
  <2> QED BY <2>2, <2>3, <2>4 DEF Phase
<1>5. Phase' = "over" => S = Hub!Members
  BY <1>1 DEF Phase
<1>6. Hub!Close(S)
  BY <1>1, <1>3, <1>4, <1>5 DEF Hub!Close
<1> QED BY <1>1, <1>6 DEF Hub!Next

\* A handler's step is a Join, a Take, its own leaving, or none of the topic's.
LEMMA HandlerTopic ==
  ASSUME TypeOK, HubInv, DeliveryInv, NEW c \in Subs,
         CallSubscribe(c) \/ Disconnect(c) \/ UnsubscribeAgain(c) \/ HandlerStep(c)
  PROVE  [Hub!Next]_(Hub!vars)
<1>1. CASE CallSubscribe(c)
  <2>1. \A d \in Subs : chan[d] # "none" => pred'[d] = pred[d]
    BY <1>1 DEF CallSubscribe, HubInv, ChanInv, TypeOK, ChanType
  <2>2. OfferedTo' = OfferedTo
    BY <1>1 DEF CallSubscribe, sendVars, OfferedTo, Offered
  <2> QED BY <1>1, <2>1, <2>2, HubStutters DEF CallSubscribe, hubVars, sendVars, history
<1>2. CASE Disconnect(c) \/ UnsubscribeAgain(c) \/ ReceiveClosed(c)
  <2>1. UNCHANGED <<hubVars, chanVars, sendVars, history>>
    BY <1>2 DEF Disconnect, UnsubscribeAgain, ReceiveClosed
  <2>2. OfferedTo' = OfferedTo
    BY <2>1 DEF sendVars, OfferedTo, Offered
  <2> QED BY <2>1, <2>2, HubStutters DEF hubVars, chanVars, sendVars, history
<1>3. CASE SubscribeFilter(c)
  BY <1>3, SubscribeTopic DEF Hub!Next
<1>4. CASE Receive(c)
  <2>1. UNCHANGED <<Phase, chan, Interest, Dropped, next, OfferedTo>>
    BY <1>4 DEF Receive, Phase, Interest, Dropped, OfferedTo, Offered, hubVars, sendVars
  <2>2. Hub!Take(c)
    BY <1>4, <2>1 DEF Receive, Hub!Take
  <2> QED BY <2>2 DEF Hub!Next
<1>5. CASE Unsubscribe(c)
  <2> USE <1>5 DEF Unsubscribe
  <2>1. CASE c \in subscribers
    <3>1. nilMap' => FALSE
      BY <2>1 DEF HubInv, ChanInv
    <3>2. {c} \in SUBSET subscribers
      BY <2>1
    <3>3. chan' = [d \in Subs |-> IF d \in {c} THEN "closed" ELSE chan[d]]
      BY <2>1 DEF CloseChannels
    <3> QED BY <3>1, <3>2, <3>3, ClosingTopic
  <2>2. CASE c \notin subscribers
    <3>1. OfferedTo' = OfferedTo
      BY DEF OfferedTo, Offered
    <3> QED BY <2>2, <3>1, HubStutters
  <2> QED BY <2>1, <2>2
<1> QED BY <1>1, <1>2, <1>3, <1>4, <1>5 DEF HandlerStep

\* An administrator's step moves the topic's life on, closing every channel
\* when it is over, or is none of the topic's.
LEMMA AdminTopic ==
  ASSUME TypeOK, HubInv, DeliveryInv, NEW a \in Admins,
         CallClose(a) \/ CallSet(a) \/ CallShutdown(a) \/ CtxDone(a) \/ AdminStep(a)
  PROVE  [Hub!Next]_(Hub!vars)
<1>1. CASE CallClose(a) \/ CallSet(a) \/ CallShutdown(a) \/ CtxDone(a)
           \/ (\E c \in Subs : Scan(a, c)) \/ ScanEnd(a) \/ Deadline(a) \/ Repoll(a)
           \/ (\E h \in HookNames : SetHook(a, h))
  <2>1. UNCHANGED <<nilMap, draining, chanVars, sendVars, history>>
    BY <1>1 DEF CallClose, CallSet, CallShutdown, CtxDone, Scan, ScanEnd, Deadline, Repoll,
                SetHook, hubVars
  <2>2. OfferedTo' = OfferedTo
    BY <2>1 DEF sendVars, OfferedTo, Offered
  <2> QED BY <2>1, <2>2, HubStutters DEF chanVars, sendVars, history
<1>2. CASE Close(a)
  <2>1. chan' = [c \in Subs |-> IF c \in subscribers THEN "closed" ELSE chan[c]]
    BY <1>2 DEF Close, CloseChannels
  <2> QED BY <1>2, <2>1, ClosingTopic DEF Close, sendVars
<1>3. CASE ShutdownBegin(a)
  <2>1. chan' = [c \in Subs |-> IF c \in {} THEN "closed" ELSE chan[c]]
    BY <1>3 DEF ShutdownBegin, chanVars, TypeOK, ChanType
  <2>2. CASE nilMap
    <3>1. OfferedTo' = OfferedTo
      BY <1>3 DEF ShutdownBegin, sendVars, OfferedTo, Offered
    <3> QED BY <1>3, <2>2, <3>1, HubStutters DEF ShutdownBegin, chanVars, sendVars, history
  <2>3. CASE ~nilMap
    <3>1. {} \in SUBSET subscribers
      OBVIOUS
    <3> QED BY <1>3, <2>1, <2>3, <3>1, ClosingTopic
            DEF ShutdownBegin, chanVars, sendVars, history
  <2> QED BY <2>2, <2>3
<1>4. CASE ShutdownFinish(a)
  <2>1. StillTracked(a) = subscribers
    BY <1>4 DEF ShutdownFinish, StillTracked, HubInv, DrainCoversSubscribers, DrainPC, ChanInv
  <2>2. chan' = [c \in Subs |-> IF c \in subscribers THEN "closed" ELSE chan[c]]
    BY <1>4, <2>1 DEF ShutdownFinish, CloseChannels
  <2> QED BY <1>4, <2>2, ClosingTopic DEF ShutdownFinish, sendVars
<1> QED BY <1>1, <1>2, <1>3, <1>4 DEF AdminStep

\* A registered subscriber is interested, in the topic, in what it matches.
LEMMA InterestedIsMatched ==
  ASSUME TypeOK, HubInv, NEW g \in Senders, NEW c \in subscribers
  PROVE  Hub!Interested(c, Hub!Message(g)) <=> Matched(c, Current(g))
<1>1. c \in Subs /\ chan[c] # "none"
  BY DEF HubInv, NoOrphan, TypeOK, HubType
<1>2. Interest[c] = pred[c] /\ Hub!Message(g) = Current(g)
  BY <1>1 DEF Interest, Hub!Message, Current
<1> QED BY <1>2 DEF Hub!Interested, Matched

\* Picking a subscriber that is filtered out is an offer it does not want;
\* picking one that will be sent to is no step of the topic yet.
LEMMA PickTopic ==
  ASSUME TypeOK, HubInv, DeliveryInv, NEW g \in Senders, NEW c \in Subs, Pick(g, c)
  PROVE  [Hub!Next]_(Hub!vars)
<1> USE DEF Pick
<1>1. c \in subscribers /\ c \notin visited[g] /\ target[g] = None /\ None \notin Subs
  BY GoroutinesDisjoint
<1>2. CASE Wants(c, Current(g))
  <2>1. OfferedTo' = OfferedTo
    BY <1>1, <1>2 DEF OfferedTo, Offered, TypeOK, GoroutineType
  <2> QED BY <2>1, HubStutters DEF hubVars, chanVars, history
<1>3. CASE ~Wants(c, Current(g))
  <2>1. OfferedTo' = [OfferedTo EXCEPT ![g] = @ \cup {c}]
    BY <1>1, <1>3 DEF OfferedTo, Offered, TypeOK, GoroutineType
  <2>2. c \in Hub!Members \ OfferedTo[g]
    BY <1>1, MembersAreSubscribers DEF OfferedTo, Offered
  <2>3. ~Hub!Interested(c, Hub!Message(g))
    BY <1>1, <1>3, InterestedIsMatched, WantsIsMatched
  <2>4. UNCHANGED <<Phase, chan, Interest, buf, rcvd, Dropped, next>>
    BY DEF Phase, Interest, Dropped, hubVars, chanVars, history
  <2>5. Hub!Offer(g, c)
    BY <2>1, <2>2, <2>3, <2>4 DEF Hub!Offer
  <2> QED BY <2>5 DEF Hub!Next
<1> QED BY <1>2, <1>3

\* A send is an offer to the target.
LEMMA SendTopic ==
  ASSUME TypeOK, HubInv, DeliveryInv, NEW g \in Senders, Send(g)
  PROVE  Hub!Next
<1>1. PICK c \in Subs : target[g] = c
  BY DEF Send, TypeOK, GoroutineType
<1>2. c \in subscribers /\ c \in visited[g] /\ Matched(c, Current(g)) /\ None \notin Subs
  BY <1>1, GoroutinesDisjoint DEF DeliveryInv, PassInv
<1>3. OfferedTo' = [OfferedTo EXCEPT ![g] = @ \cup {c}]
  <2>1. target' = [target EXCEPT ![g] = None] /\ visited' = visited
    BY DEF Send
  <2>2. visited[g] \in SUBSET Subs
    BY DEF TypeOK, GoroutineType
  <2>3. Offered(g)' = Offered(g) \cup {c}
    BY <1>1, <1>2, <2>1, <2>2 DEF Offered, TypeOK, GoroutineType
  <2>4. \A s \in Senders : s # g => Offered(s)' = Offered(s)
    BY <2>1 DEF Offered, TypeOK, GoroutineType
  <2> QED BY <2>3, <2>4 DEF OfferedTo
<1>4. c \in Hub!Members \ OfferedTo[g]
  BY <1>1, <1>2, MembersAreSubscribers DEF OfferedTo, Offered
<1>5. Hub!Interested(c, Hub!Message(g)) /\ Hub!Message(g) = Current(g)
  BY <1>2, InterestedIsMatched DEF Hub!Message, Current
<1>6. UNCHANGED <<Phase, chan, Interest, rcvd, next>>
  BY DEF Send, Phase, Interest, hubVars
<1>7. CASE HasRoom(c)
  <2>1. buf' = [buf EXCEPT ![c] = Append(@, Current(g))] /\ Dropped' = Dropped
    BY <1>1, <1>7 DEF Send, Dropped
  <2>2. Hub!Offer(g, c)
    BY <1>3, <1>4, <1>5, <1>6, <1>7, <2>1 DEF Hub!Offer, HasRoom
  <2> QED BY <2>2 DEF Hub!Next
<1>8. CASE ~HasRoom(c)
  <2>1. drops' = [drops EXCEPT ![c] = @ \cup {<<Current(g), DropFate>>}] /\ buf' = buf
    BY <1>1, <1>8 DEF Send
  <2>2. Dropped' = [Dropped EXCEPT ![c] = @ \cup {Current(g)}]
    <3>1. ASSUME NEW d \in Subs
          PROVE  Dropped'[d] = IF d = c THEN Dropped[d] \cup {Current(g)} ELSE Dropped[d]
      <4>1. CASE d = c
        <5>1. drops'[c] = drops[c] \cup {<<Current(g), DropFate>>}
          BY <2>1 DEF TypeOK, BufType
        <5>2. {x[1] : x \in drops'[c]} = {x[1] : x \in drops[c]} \cup {Current(g)}
          <6>1. <<Current(g), DropFate>>[1] = Current(g)
            OBVIOUS
          <6> QED BY <5>1, <6>1, Zenon
        <5> QED BY <4>1, <5>2 DEF Dropped
      <4>2. CASE d # c
        BY <2>1, <4>2 DEF Dropped, TypeOK, BufType
      <4> QED BY <4>1, <4>2
    <3> QED BY <3>1 DEF Dropped
  <2>3. Len(buf[c]) = EffectiveBufferSize
    BY <1>8, BufferPositive DEF HasRoom, TypeOK, BufType
  <2>4. Hub!Offer(g, c)
    BY <1>3, <1>4, <1>5, <1>6, <2>1, <2>2, <2>3 DEF Hub!Offer
  <2> QED BY <2>4 DEF Hub!Next
<1> QED BY <1>7, <1>8

\* The end of a pass is Done: every member has been offered the message.
LEMMA EndPassTopic ==
  ASSUME TypeOK, HubInv, DeliveryInv, NEW g \in Senders, EndPass(g)
  PROVE  Hub!Next
<1> USE DEF EndPass
<1>1. Hub!Members \subseteq OfferedTo[g]
  BY MembersAreSubscribers, GoroutinesDisjoint
     DEF PassDone, OfferedTo, Offered, TypeOK, HubType
<1>2. OfferedTo' = [OfferedTo EXCEPT ![g] = {}]
  BY DEF OfferedTo, Offered, TypeOK, GoroutineType
<1>3. UNCHANGED <<Phase, chan, Interest, buf, rcvd, Dropped>>
  BY DEF Phase, Interest, Dropped, hubVars, chanVars, history
<1>4. Hub!Done(g)
  BY <1>1, <1>2, <1>3 DEF Hub!Done
<1> QED BY <1>4 DEF Hub!Next

\* A sender's step is an Offer, a Done or none of the topic's.
LEMMA CastTopic ==
  ASSUME TypeOK, HubInv, DeliveryInv, NEW g \in Senders,
         CastStep(g) \/ (g \in Producers /\ \E n \in 0..MaxMsgs : CallBroadcast(g, n))
  PROVE  [Hub!Next]_(Hub!vars)
<1>1. CASE RLock(g) \/ RUnlock(g)
           \/ (g \in Producers /\ \E n \in 0..MaxMsgs : CallBroadcast(g, n))
  <2>1. UNCHANGED <<hubVars, chanVars, next, visited, target, history>>
    BY <1>1 DEF RLock, RUnlock, CallBroadcast, sendVars
  <2>2. OfferedTo' = OfferedTo
    BY <2>1 DEF OfferedTo, Offered
  <2> QED BY <2>1, <2>2, HubStutters DEF hubVars, chanVars, history
<1> QED BY <1>1, PickTopic, SendTopic, EndPassTopic DEF CastStep

\* Every step of the hub is one of the topic, or none.
LEMMA NextTopic ==
  TypeOK /\ HubInv /\ DeliveryInv /\ [Next]_vars => [Hub!Next]_(Hub!vars)
<1> SUFFICES ASSUME TypeOK, HubInv, DeliveryInv, [Next]_vars PROVE [Hub!Next]_(Hub!vars)
  OBVIOUS
<1>1. CASE UNCHANGED vars
  <2>1. OfferedTo' = OfferedTo
    BY <1>1 DEF vars, sendVars, OfferedTo, Offered
  <2> QED BY <1>1, <2>1, HubStutters DEF vars, hubVars, chanVars, sendVars, history
<1>2. CASE Next
  BY <1>2, AcquireTopic, HandlerTopic, CastTopic, AdminTopic DEF Next
<1> QED BY <1>1, <1>2

\* Broadcaster is a topic: a message is offered once to exactly the subscribers
\* registered when its fan-out begins, nobody comes or goes half way, a hub
\* that refuses never accepts again and is over only with every channel closed.
THEOREM HubImplementsTopic == Spec => ImplementsTopic
  BY InitTopic, NextTopic, TypeCorrect, HubInvariant, DeliveryInvariant, PTL
     DEF Spec, ImplementsTopic, Hub!Spec
=============================================================================
