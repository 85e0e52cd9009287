------------------------------- MODULE FanOut -------------------------------
(***************************************************************************)
(* The subscriber hub behind Broadcaster[T] (fanout.go, broadcaster.go).    *)
(*                                                                         *)
(* Three kinds of goroutine use one hub:                                   *)
(*   - a handler goroutine per SSE connection: it subscribes once, reads   *)
(*     its channel, and unsubscribes (deferred) when it leaves its loop;   *)
(*   - producers, which call Broadcast and BroadcastMany;                  *)
(*   - administrators, which call Close, Shutdown and the hook setters.    *)
(* A connection, its goroutine and its channel share one name c \in Subs.  *)
(*                                                                         *)
(* f.mu is a sync.RWMutex with Go's semantics: a writer first announces    *)
(* itself (later readers queue behind it), then waits for the readers      *)
(* inside; its Unlock lets every queued reader in.  What a goroutine does  *)
(* under the write lock is one action: readers and writers are excluded    *)
(* and receivers, who take no lock, commute with all of it but the closing *)
(* of their own channel.  What happens under the read lock, and the drain  *)
(* poll that takes no lock, is split into its individual channel accesses. *)
(***************************************************************************)
EXTENDS Integers, Sequences, FiniteSets

CONSTANTS
    Subs,                     \* one per Subscribe / SubscribeFilter call
    Producers,                \* goroutines that broadcast
    Admins,                   \* goroutines that close, shut down, set hooks
    None,                     \* "no goroutine" and "no channel"
    Preds,                    \* predicates a subscriber may pass
    NilPred,                  \* the nil predicate: no filtering
    PredResult(_, _),         \* user code: "true", "false" or "panic"
    BufferOption,             \* argument of WithBufferSize, 0 when not given
    DefaultSubscriberBuffer,  \* fallback capacity (64 in the code)
    InitHooks,                \* hook sets the application may start with
    AdminCalls,               \* "close", "shutdown" and the hooks they set
    MaxMsgs,                  \* bound: messages a producer sends in all
    HookMsgs                  \* messages a subscribe/unsubscribe hook sends

Senders == Subs \cup Producers
Goroutines == Senders \cup Admins
HookNames == {"onSubscribe", "onUnsubscribe", "onDrop"}
Messages == Senders \X (Nat \ {0})

ASSUME GoroutinesDisjoint ==
    /\ Subs \cap Producers = {}
    /\ Senders \cap Admins = {}
    /\ None \notin Goroutines
ASSUME SubsFinite == IsFiniteSet(Subs)
ASSUME BufferAssumption ==
    BufferOption \in Int /\ DefaultSubscriberBuffer \in Nat \ {0}
ASSUME HookAssumption == InitHooks \subseteq SUBSET HookNames
ASSUME BoundAssumption == MaxMsgs \in Nat /\ HookMsgs \in Nat
ASSUME PredAssumption == NilPred \in Preds

VARIABLES
    \* The hub's fields, all guarded by f.mu.
    nilMap,       \* f.subscribers == nil: the hub is closed
    subscribers,  \* keys of f.subscribers
    draining,     \* f.draining
    hooks,        \* hook fields that are not nil
    \* The lock.
    writer,       \* goroutine inside Lock(): waiting for readers, or holding
    readers,      \* goroutines holding the read lock
    rblocked,     \* readers queued behind the announced writer
    \* The channels.
    chan,         \* "none" (not made yet), "open" or "closed"
    buf,          \* buffered messages
    pred,         \* the predicate each subscriber registered
    \* The goroutines.
    pc,           \* where each goroutine is
    next, last,   \* sender: messages fanned out so far / by the end of the batch
    visited,      \* sender: subscribers this pass has picked
    target,       \* sender: subscriber the select is about to send to
    after,        \* sender: where to go when the fan-out returns
    snap,         \* Shutdown: the subs slice
    scanned,      \* Shutdown: entries this poll has looked at
    notDrained,   \* Shutdown: this poll met a non-empty buffer
    ctxDone,      \* Shutdown: the caller's context has fired
    \* What happened (history, read by no action).
    rcvd,         \* messages each handler has received, in order
    drops,        \* <<m, f>>: m was dropped; f: whether onDrop was told
    panicked      \* a send on, or a close of, a closed channel took place

hubVars  == <<nilMap, subscribers, draining, hooks>>
lockVars == <<writer, readers, rblocked>>
chanVars == <<chan, buf, pred>>
sendVars == <<next, last, visited, target, after>>
admVars  == <<snap, scanned, notDrained, ctxDone>>
history  == <<rcvd, drops, panicked>>
vars == <<hubVars, lockVars, chanVars, pc, sendVars, admVars, history>>

SubPC  == {"new", "subscribe", "loop", "unsubscribe", "gone"}
CastPC == {"rlock", "cast"}                 \* inside Broadcast(Many)
AdmPC  == {"idle", "close", "set", "begin", "scan", "select", "finish"}
WPC    == {"subscribe", "unsubscribe", "close", "set", "begin", "finish"}
DrainPC == {"scan", "select", "finish"}     \* Shutdown past its first unlock

Init ==
    /\ nilMap = FALSE
    /\ subscribers = {}
    /\ draining = FALSE
    /\ hooks \in InitHooks
    /\ writer = None /\ readers = {} /\ rblocked = {}
    /\ chan = [c \in Subs |-> "none"]
    /\ buf = [c \in Subs |-> <<>>]
    /\ pred = [c \in Subs |-> NilPred]
    /\ pc = [g \in Goroutines |-> IF g \in Subs THEN "new" ELSE "idle"]
    /\ next = [g \in Senders |-> 0]
    /\ last = [g \in Senders |-> 0]
    /\ visited = [g \in Senders |-> {}]
    /\ target = [g \in Senders |-> None]
    /\ after = [g \in Senders |-> IF g \in Subs THEN "loop" ELSE "idle"]
    /\ snap = [a \in Admins |-> {}]
    /\ scanned = [a \in Admins |-> {}]
    /\ notDrained = [a \in Admins |-> FALSE]
    /\ ctxDone = [a \in Admins |-> FALSE]
    /\ rcvd = [c \in Subs |-> <<>>]
    /\ drops = [c \in Subs |-> {}]
    /\ panicked = FALSE

-----------------------------------------------------------------------------
(* The RWMutex.                                                             *)

\* Lock(), first half: win the writer mutex and announce.
AcquireW(g) ==
    /\ pc[g] \in WPC
    /\ writer = None
    /\ writer' = g
    /\ UNCHANGED <<hubVars, readers, rblocked, chanVars, pc, sendVars, admVars, history>>

\* Mutant: the writer does not wait for the readers inside (a read lock taken
\* where the write lock is needed).
HoldsWWithReaders(g) == writer = g

\* Lock() has returned: no reader is inside any more.
HoldsW(g) == writer = g /\ readers = {}

\* Unlock(): the queued readers enter together.
UnlockW ==
    /\ writer' = None
    /\ readers' = rblocked
    /\ rblocked' = {}

\* RLock(): enter, or queue behind an announced writer.
RLock(g) ==
    /\ pc[g] = "rlock"
    /\ pc' = [pc EXCEPT ![g] = "cast"]
    /\ IF writer = None
       THEN readers' = readers \cup {g} /\ UNCHANGED rblocked
       ELSE rblocked' = rblocked \cup {g} /\ UNCHANGED readers
    /\ UNCHANGED <<hubVars, writer, chanVars, sendVars, admVars, history>>

Goto(g, label) == pc' = [pc EXCEPT ![g] = label]

\* Mutant: the map is dropped and nobody closes the channels.
ForgetChannels(S) == UNCHANGED <<chan, panicked>>

\* close(ch) for every channel of S; closing a channel twice panics.
CloseChannels(S) ==
    /\ chan' = [c \in Subs |-> IF c \in S THEN "closed" ELSE chan[c]]
    /\ panicked' = (panicked \/ \E c \in S : chan[c] = "closed")

-----------------------------------------------------------------------------
(* Subscribing.                                                             *)

EffectiveBufferSize ==
    IF BufferOption > 0 THEN BufferOption ELSE DefaultSubscriberBuffer

\* Subscribe() is SubscribeFilter(nil).
CallSubscribe(c) ==
    /\ pc[c] = "new"
    /\ \E p \in Preds : pred' = [pred EXCEPT ![c] = p]
    /\ Goto(c, "subscribe")
    /\ UNCHANGED <<hubVars, lockVars, chan, buf, sendVars, admVars, history>>

\* Mutant: Subscribe only refuses once the hub is closed.
RejectingClosedOnly == nilMap

Rejecting == nilMap \/ draining

\* The goroutine g runs hook h, if it was set when the lock was held, and
\* then continues at label.  The hooks the examples register broadcast.
RunHook(g, h, label) ==
    IF h \in hooks
    THEN /\ Goto(g, "rlock")
         /\ last' = [last EXCEPT ![g] = next[g] + HookMsgs]
         /\ after' = [after EXCEPT ![g] = label]
    ELSE /\ Goto(g, label)
         /\ UNCHANGED <<last, after>>

\* The early return: unlock and hand out a closed channel, no hook.
Reject(c) ==
    /\ Rejecting
    /\ UnlockW
    /\ chan' = [chan EXCEPT ![c] = "closed"]
    /\ Goto(c, "loop")
    /\ UNCHANGED <<subscribers, last, after>>

\* Mutant: the hook runs before the lock is released.
RegisterHookLocked(c) ==
    /\ ~Rejecting
    /\ chan' = [chan EXCEPT ![c] = "open"]
    /\ subscribers' = subscribers \cup {c}
    /\ RunHook(c, "onSubscribe", "loop")
    /\ UNCHANGED lockVars

\* Register the channel, unlock, then run the hook.
Register(c) ==
    /\ ~Rejecting
    /\ chan' = [chan EXCEPT ![c] = "open"]
    /\ subscribers' = subscribers \cup {c}
    /\ UnlockW
    /\ RunHook(c, "onSubscribe", "loop")

SubscribeFilter(c) ==
    /\ pc[c] = "subscribe"
    /\ HoldsW(c)
    /\ Reject(c) \/ Register(c)
    /\ UNCHANGED <<nilMap, draining, hooks, buf, pred, next, visited, target, admVars, history>>

\* case evt, ok := <-ch with ok: an open or closed channel yields its buffer.
Receive(c) ==
    /\ pc[c] = "loop"
    /\ buf[c] # <<>>
    /\ rcvd' = [rcvd EXCEPT ![c] = Append(@, Head(buf[c]))]
    /\ buf' = [buf EXCEPT ![c] = Tail(@)]
    /\ UNCHANGED <<hubVars, lockVars, chan, pred, pc, sendVars, admVars, drops, panicked>>

\* ok is false: the channel is closed and empty, the handler returns.
ReceiveClosed(c) ==
    /\ pc[c] = "loop"
    /\ buf[c] = <<>>
    /\ chan[c] = "closed"
    /\ Goto(c, "unsubscribe")
    /\ UNCHANGED <<hubVars, lockVars, chanVars, sendVars, admVars, history>>

\* The request's context is done, or stream.Send failed: the handler leaves
\* its loop with whatever is still buffered unread.
Disconnect(c) ==
    /\ pc[c] = "loop"
    /\ Goto(c, "unsubscribe")
    /\ UNCHANGED <<hubVars, lockVars, chanVars, sendVars, admVars, history>>

\* A second Unsubscribe of the same channel is a no-op the API allows.
UnsubscribeAgain(c) ==
    /\ pc[c] = "gone"
    /\ Goto(c, "unsubscribe")
    /\ UNCHANGED <<hubVars, lockVars, chanVars, sendVars, admVars, history>>

Unsubscribe(c) ==
    /\ pc[c] = "unsubscribe"
    /\ HoldsW(c)
    /\ \/ /\ c \in subscribers
          /\ subscribers' = subscribers \ {c}
          /\ CloseChannels({c})
          /\ RunHook(c, "onUnsubscribe", "gone")
       \/ /\ c \notin subscribers
          /\ Goto(c, "gone")
          /\ UNCHANGED <<subscribers, chan, panicked, last, after>>
    /\ UnlockW
    /\ UNCHANGED <<nilMap, draining, hooks, buf, pred, next, visited, target, admVars, rcvd, drops>>

-----------------------------------------------------------------------------
(* Broadcasting: sendAllLocked once per message, under the read lock.       *)

\* Broadcast(m) is a batch of one.
CallBroadcast(p, n) ==
    /\ pc[p] = "idle"
    /\ next[p] + n =< MaxMsgs
    /\ last' = [last EXCEPT ![p] = next[p] + n]
    /\ Goto(p, "rlock")
    /\ UNCHANGED <<hubVars, lockVars, chanVars, next, visited, target, after, admVars, history>>

\* Mutant: the message under way is kept in a field of the hub, which a second
\* sender inside the read lock overwrites.
CurrentShared(g) ==
    LET inside == {h \in readers : next[h] < last[h]}
        h == IF inside = {} THEN g ELSE CHOOSE k \in inside : TRUE
    IN  <<h, next[h] + 1>>

\* The message g is fanning out.
Current(g) == <<g, next[g] + 1>>

\* Mutant: a recovered panic counts as a match.
PanicMatches(p, m) == PredResult(p, m) # "false"

\* A predicate that panics is recovered and counts as "no match".
SafePredCall(p, m) == PredResult(p, m) = "true"

Wants(c, m) == pred[c] = NilPred \/ SafePredCall(pred[c], m)

InPass(g) == pc[g] = "cast" /\ g \in readers /\ next[g] < last[g]

\* The range over the map reaches c: filtered out, or about to be sent to.
Pick(g, c) ==
    /\ InPass(g)
    /\ target[g] = None
    /\ c \in subscribers \ visited[g]
    /\ visited' = [visited EXCEPT ![g] = @ \cup {c}]
    /\ IF Wants(c, Current(g))
       THEN target' = [target EXCEPT ![g] = c]
       ELSE UNCHANGED target
    /\ UNCHANGED <<hubVars, lockVars, chanVars, pc, next, last, after, admVars, history>>

\* safeDropCall, when the hook is set: its panics are swallowed.
DropFate == IF "onDrop" \in hooks THEN "told" ELSE "untold"

\* Mutant: off by one at the capacity.
HasRoomForOneMore(c) == Len(buf[c]) =< EffectiveBufferSize

HasRoom(c) == Len(buf[c]) < EffectiveBufferSize

\* select { case ch <- m: default: onDrop }; on a closed channel it panics.
Send(g) ==
    /\ InPass(g)
    /\ target[g] # None
    /\ LET c == target[g]
           m == Current(g)
       IN /\ panicked' = (panicked \/ chan[c] = "closed")
          /\ IF HasRoom(c)
             THEN /\ buf' = [buf EXCEPT ![c] = Append(@, m)]
                  /\ UNCHANGED drops
             ELSE /\ drops' = [drops EXCEPT ![c] = @ \cup {<<m, DropFate>>}]
                  /\ UNCHANGED buf
    /\ target' = [target EXCEPT ![g] = None]
    /\ UNCHANGED <<hubVars, lockVars, chan, pred, pc, next, last, visited, after, admVars, rcvd>>

\* Mutant: the loop ends (return, break) at the first subscriber it cannot
\* serve instead of going on to the next.
PassCutShort(g) == target[g] = None /\ (subscribers = {} \/ visited[g] # {})

\* The range over the map is exhausted.
PassDone(g) == target[g] = None /\ subscribers \subseteq visited[g]

EndPass(g) ==
    /\ InPass(g)
    /\ PassDone(g)
    /\ next' = [next EXCEPT ![g] = @ + 1]
    /\ visited' = [visited EXCEPT ![g] = {}]
    /\ UNCHANGED <<hubVars, lockVars, chanVars, pc, last, target, after, admVars, history>>

\* The batch is sent: the deferred RUnlock, and Broadcast(Many) returns.
RUnlock(g) ==
    /\ pc[g] = "cast" /\ g \in readers
    /\ next[g] = last[g]
    /\ readers' = readers \ {g}
    /\ Goto(g, after[g])
    /\ UNCHANGED <<hubVars, writer, rblocked, chanVars, sendVars, admVars, history>>

-----------------------------------------------------------------------------
(* Closing, draining, configuring.                                          *)

CallClose(a) ==
    /\ pc[a] = "idle"
    /\ "close" \in AdminCalls
    /\ Goto(a, "close")
    /\ UNCHANGED <<hubVars, lockVars, chanVars, sendVars, admVars, history>>

\* closeLocked: draining is left as it is.
Close(a) ==
    /\ pc[a] = "close"
    /\ HoldsW(a)
    /\ CloseChannels(subscribers)
    /\ subscribers' = {}
    /\ nilMap' = TRUE
    /\ UnlockW
    /\ Goto(a, "idle")
    /\ UNCHANGED <<draining, hooks, buf, pred, sendVars, admVars, rcvd, drops>>

\* OnSubscribe, OnUnsubscribe, OnDrop: set or clear (nil) one hook.
CallSet(a) ==
    /\ pc[a] = "idle"
    /\ AdminCalls \cap HookNames # {}
    /\ Goto(a, "set")
    /\ UNCHANGED <<hubVars, lockVars, chanVars, sendVars, admVars, history>>

SetHook(a, h) ==
    /\ pc[a] = "set"
    /\ h \in AdminCalls
    /\ HoldsW(a)
    /\ hooks' \in {hooks \cup {h}, hooks \ {h}}
    /\ UnlockW
    /\ Goto(a, "idle")
    /\ UNCHANGED <<nilMap, subscribers, draining, chanVars, sendVars, admVars, history>>

CallShutdown(a) ==
    /\ pc[a] = "idle"
    /\ "shutdown" \in AdminCalls
    /\ Goto(a, "begin")
    /\ UNCHANGED <<hubVars, lockVars, chanVars, sendVars, admVars, history>>

\* The context of a running Shutdown is cancelled or times out.
CtxDone(a) ==
    /\ pc[a] \in DrainPC \cup {"begin"}
    /\ ~ctxDone[a]
    /\ ctxDone' = [ctxDone EXCEPT ![a] = TRUE]
    /\ UNCHANGED <<hubVars, lockVars, chanVars, pc, sendVars, snap, scanned, notDrained, history>>

\* Shutdown returns: its locals are gone.
ShutdownReturns(a) ==
    /\ Goto(a, "idle")
    /\ snap' = [snap EXCEPT ![a] = {}]
    /\ scanned' = [scanned EXCEPT ![a] = {}]
    /\ notDrained' = [notDrained EXCEPT ![a] = FALSE]
    /\ ctxDone' = [ctxDone EXCEPT ![a] = FALSE]

\* First critical section: return when closed, else snapshot and mark.
ShutdownBegin(a) ==
    /\ pc[a] = "begin"
    /\ HoldsW(a)
    /\ \/ /\ nilMap
          /\ ShutdownReturns(a)
          /\ UNCHANGED draining
       \/ /\ ~nilMap
          /\ snap' = [snap EXCEPT ![a] = subscribers]
          /\ draining' = TRUE
          /\ Goto(a, "scan")
          /\ UNCHANGED <<scanned, notDrained, ctxDone>>
    /\ UnlockW
    /\ UNCHANGED <<nilMap, subscribers, hooks, chanVars, sendVars, history>>

\* waitForDrain reads one len(ch), without the lock.  The order of the slice
\* comes from ranging over a map; every order is allowed.
Scan(a, c) ==
    /\ pc[a] = "scan"
    /\ c \in snap[a] \ scanned[a]
    /\ scanned' = [scanned EXCEPT ![a] = @ \cup {c}]
    /\ notDrained' = [notDrained EXCEPT ![a] = @ \/ buf[c] # <<>>]
    /\ UNCHANGED <<hubVars, lockVars, chanVars, pc, sendVars, snap, ctxDone, history>>

\* Mutant: notDrained is declared outside the loop and never reset.
ScanEndNoReset(a) ==
    /\ pc[a] = "scan"
    /\ snap[a] \subseteq scanned[a]
    /\ Goto(a, IF notDrained[a] THEN "select" ELSE "finish")
    /\ scanned' = [scanned EXCEPT ![a] = {}]
    /\ UNCHANGED <<hubVars, lockVars, chanVars, sendVars, snap, notDrained, ctxDone, history>>

\* All buffers looked at: drained, or wait for the timer or the context.
ScanEnd(a) ==
    /\ pc[a] = "scan"
    /\ snap[a] \subseteq scanned[a]
    /\ Goto(a, IF notDrained[a] THEN "select" ELSE "finish")
    /\ scanned' = [scanned EXCEPT ![a] = {}]
    /\ notDrained' = [notDrained EXCEPT ![a] = FALSE]
    /\ UNCHANGED <<hubVars, lockVars, chanVars, sendVars, snap, ctxDone, history>>

\* Mutant: the select has no ctx.Done() case.
DeadlineIgnored(a) == FALSE

\* Mutant: a cancelled Shutdown accepts subscribers again.
DeadlineStopsDraining(a) ==
    /\ pc[a] = "select"
    /\ ctxDone[a]
    /\ ShutdownReturns(a)
    /\ draining' = FALSE
    /\ UNCHANGED <<nilMap, subscribers, hooks, lockVars, chanVars, sendVars, history>>

\* case <-ctx.Done(): return the error; draining stays TRUE.
Deadline(a) ==
    /\ pc[a] = "select"
    /\ ctxDone[a]
    /\ ShutdownReturns(a)
    /\ UNCHANGED <<hubVars, lockVars, chanVars, sendVars, history>>

\* case <-time.After(drainPollInterval): poll again.
Repoll(a) ==
    /\ pc[a] = "select"
    /\ Goto(a, "scan")
    /\ UNCHANGED <<hubVars, lockVars, chanVars, sendVars, admVars, history>>

\* Mutant: close the whole snapshot.
WholeSnapshot(a) == snap[a]

\* The snapshot entries that are still in the map.
StillTracked(a) == snap[a] \cap subscribers

\* Second critical section.
ShutdownFinish(a) ==
    /\ pc[a] = "finish"
    /\ HoldsW(a)
    /\ CloseChannels(StillTracked(a))
    /\ subscribers' = {}
    /\ nilMap' = TRUE
    /\ draining' = FALSE
    /\ UnlockW
    /\ ShutdownReturns(a)
    /\ UNCHANGED <<hooks, buf, pred, sendVars, rcvd, drops>>

-----------------------------------------------------------------------------
HandlerStep(c) ==
    SubscribeFilter(c) \/ Receive(c) \/ ReceiveClosed(c) \/ Unsubscribe(c)

CastStep(g) ==
    RLock(g) \/ (\E c \in Subs : Pick(g, c)) \/ Send(g) \/ EndPass(g) \/ RUnlock(g)

AdminStep(a) ==
    \/ Close(a) \/ (\E h \in HookNames : SetHook(a, h)) \/ ShutdownBegin(a)
    \/ (\E c \in Subs : Scan(a, c)) \/ ScanEnd(a)
    \/ Deadline(a) \/ Repoll(a) \/ ShutdownFinish(a)

Next ==
    \/ \E g \in Goroutines : AcquireW(g)
    \/ \E c \in Subs :
        CallSubscribe(c) \/ Disconnect(c) \/ UnsubscribeAgain(c) \/ HandlerStep(c)
    \/ \E g \in Senders : CastStep(g)
    \/ \E p \in Producers, n \in 0..MaxMsgs : CallBroadcast(p, n)
    \/ \E a \in Admins :
        CallClose(a) \/ CallSet(a) \/ CallShutdown(a) \/ CtxDone(a) \/ AdminStep(a)

Spec == Init /\ [][Next]_vars

(***************************************************************************)
(* Fairness: a runnable goroutine runs (the Go scheduler), which includes  *)
(* a handler that keeps reading its channel.  Calls, disconnections and    *)
(* the context's end come from outside and are not fair.  A contended      *)
(* Lock() is eventually won (sync.Mutex's starvation mode), and a select   *)
(* that finds ctx.Done() ready again and again eventually takes it.        *)
(***************************************************************************)
Fairness ==
    /\ \A g \in Goroutines : SF_vars(AcquireW(g))
    /\ \A c \in Subs : WF_vars(HandlerStep(c))
    /\ \A g \in Senders : WF_vars(CastStep(g))
    /\ \A a \in Admins : WF_vars(AdminStep(a)) /\ SF_vars(Deadline(a))

FairSpec == Spec /\ Fairness
-----------------------------------------------------------------------------
(* Safety.                                                                  *)

\* Everything a handler has been, or can still be, given by its channel.
Stream(c) == rcvd[c] \o buf[c]

HubType ==
    /\ nilMap \in BOOLEAN /\ draining \in BOOLEAN
    /\ subscribers \in SUBSET Subs
    /\ hooks \in SUBSET HookNames
    /\ writer \in Goroutines \cup {None}
    /\ readers \in SUBSET Senders /\ rblocked \in SUBSET Senders

ChanType ==
    /\ chan \in [Subs -> {"none", "open", "closed"}]
    /\ pred \in [Subs -> Preds]
    /\ panicked \in BOOLEAN

BufType ==
    /\ buf \in [Subs -> Seq(Messages)]
    /\ \A c \in Subs : Len(buf[c]) =< EffectiveBufferSize
    /\ rcvd \in [Subs -> Seq(Messages)]
    /\ drops \in [Subs -> SUBSET (Messages \X {"told", "untold"})]

GoroutineType ==
    /\ pc \in [Goroutines -> SubPC \cup CastPC \cup AdmPC]
    /\ next \in [Senders -> Nat] /\ last \in [Senders -> Nat]
    /\ visited \in [Senders -> SUBSET Subs]
    /\ target \in [Senders -> Subs \cup {None}]
    /\ after \in [Senders -> {"loop", "gone", "idle"}]
    /\ snap \in [Admins -> SUBSET Subs] /\ scanned \in [Admins -> SUBSET Subs]
    /\ notDrained \in [Admins -> BOOLEAN] /\ ctxDone \in [Admins -> BOOLEAN]

\* The values each field, lock, channel and goroutine variable may take; a
\* buffer never exceeds the capacity its channel was made with.
TypeOK == HubType /\ ChanType /\ BufType /\ GoroutineType

\* No goroutine ever sends on a closed channel or closes one twice, however
\* Broadcast, Unsubscribe, Close and the two halves of Shutdown interleave.
NoPanic == ~panicked

\* A channel is open exactly while it is registered: no handler is left
\* reading a channel that the hub has forgotten and nobody will close (the
\* reason Subscribe refuses during a drain, whose last step drops the map).
NoOrphan == \A c \in Subs : chan[c] = "open" <=> c \in subscribers

\* While a Shutdown waits, the subscribers still registered are among those
\* it waits for, and new ones are refused, until the hub is closed -- also
\* when another Shutdown gives up or a Close overtakes it.
DrainCoversSubscribers ==
    \A a \in Admins : pc[a] \in DrainPC =>
        nilMap \/ (draining /\ subscribers \subseteq snap[a])

\* The messages of one sender reach a subscriber in the order they were
\* broadcast and at most once, with other senders interleaved and with
\* messages missing where the buffer was full.
InOrder ==
    \A c \in Subs : \A i, j \in 1..Len(Stream(c)) :
        i < j /\ Stream(c)[i][1] = Stream(c)[j][1] => Stream(c)[i][2] < Stream(c)[j][2]

\* The user's predicate said yes to m, or there is none.
Matched(c, m) == pred[c] = NilPred \/ PredResult(pred[c], m) = "true"

\* A subscriber is only given, and only charged drops for, messages its
\* predicate matched; a panicking predicate matches nothing.
FilterRespected ==
    \A c \in Subs :
        /\ \A i \in 1..Len(Stream(c)) : Matched(c, Stream(c)[i])
        /\ \A d \in drops[c] : Matched(c, d[1])

\* When the fan-out of a message ends, every subscriber registered at that
\* moment that wants it has it, or it was counted as dropped and onDrop was
\* told (when set): one full, filtered or panicking subscriber never costs
\* another one its message.
NoSilentLoss ==
    [][\A g \in Senders : next'[g] # next[g] =>
        \A c \in subscribers : Matched(c, Current(g)) =>
            \/ \E i \in 1..Len(Stream(c)) : Stream(c)[i] = Current(g)
            \/ <<Current(g), DropFate>> \in drops[c]]_vars

-----------------------------------------------------------------------------
(* Why the safety properties hold: the inductive invariant.                 *)

\* The RWMutex does its job: an announced writer is a goroutine waiting for
\* the write lock, a goroutine inside the read lock is fanning out, readers
\* queue only behind a writer, and the channel a pass is about to send to is
\* still registered because no writer can get past that pass.
LockInv ==
    /\ writer # None => pc[writer] \in WPC
    /\ readers \cap rblocked = {}
    /\ \A g \in readers \cup rblocked : pc[g] = "cast"
    /\ writer = None => rblocked = {}
    /\ \A g \in Senders : target[g] # None =>
           g \in readers /\ target[g] \in subscribers /\ next[g] < last[g]

\* A channel is made by its own Subscribe call, and a closed hub is empty.
ChanInv ==
    /\ nilMap => subscribers = {}
    /\ \A c \in Subs : pc[c] \in {"new", "subscribe"} => chan[c] = "none"

\* Preserved by every step and strong enough for NoPanic and NoOrphan.
HubInv ==
    /\ LockInv
    /\ ChanInv
    /\ NoOrphan
    /\ DrainCoversSubscribers
    /\ NoPanic

\* A handler that is past its Subscribe has a channel, and one that is past
\* its Unsubscribe, its hook included, has left it closed.
GoneInv ==
    \A c \in Subs :
        /\ pc[c] \notin {"new", "subscribe"} => chan[c] # "none"
        /\ pc[c] = "gone" \/ (pc[c] \in CastPC /\ after[c] = "gone") => chan[c] = "closed"

\* A sender that has picked subscribers holds the read lock and has not
\* finished its batch; those it has picked are still registered, and the one
\* it is about to send to is one of them and wants the message.
PassInv ==
    \A g \in Senders :
        /\ visited[g] # {} => g \in readers /\ next[g] < last[g]
        /\ visited[g] \subseteq subscribers
        /\ target[g] # None => target[g] \in visited[g] /\ Matched(target[g], Current(g))

\* c's channel has been given m.
Given(c, m) == \E i \in 1..Len(Stream(c)) : Stream(c)[i] = m

\* The subscribers that g is done with for its current message.
Offered(g) == visited[g] \ {target[g]}

\* A subscriber that the pass has been to and that wants the message has it,
\* or was charged a drop.
OfferedInv ==
    \A g \in Senders : \A c \in Offered(g) :
        Matched(c, Current(g)) => Given(c, Current(g)) \/ <<Current(g), DropFate>> \in drops[c]

\* No channel holds a message whose turn is still to come.
NumberInv ==
    \A c \in Subs : \A i \in 1..Len(Stream(c)) :
        LET m == Stream(c)[i]
        IN  m[2] =< next[m[1]] \/ (m = Current(m[1]) /\ c \in Offered(m[1]))

\* Nothing is charged to a channel that has not been made.
UnmadeInv ==
    \A c \in Subs : chan[c] = "none" => buf[c] = <<>> /\ rcvd[c] = <<>> /\ drops[c] = {}

\* Preserved by every step that keeps HubInv, and strong enough for InOrder,
\* FilterRespected and NoSilentLoss.
DeliveryInv ==
    /\ PassInv
    /\ OfferedInv
    /\ NumberInv
    /\ UnmadeInv
    /\ InOrder
    /\ FilterRespected

-----------------------------------------------------------------------------
(* Liveness, under FairSpec.                                                *)

\* Every call that needs the lock gets through it: announced writers, queued
\* readers and hooks that broadcast never wait for each other for ever.
CallsReturn ==
    \A g \in Goroutines :
        pc[g] \in WPC \cup CastPC ~> pc[g] \in {"loop", "gone", "idle", "scan"}

\* Closing the hub ends every handler: it reads what is left in its buffer,
\* sees the closed channel and unsubscribes.  Handlers that were refused end
\* the same way.
HandlersEnd ==
    \A c \in Subs : (nilMap \/ chan[c] = "closed") /\ pc[c] = "loop" ~> pc[c] = "gone"

\* A Shutdown whose context fires returns.
DeadlineHonoured ==
    \A a \in Admins : ctxDone[a] ~> pc[a] = "idle"

\* Once broadcasting has ceased, the only thing that can hold a Shutdown up for
\* ever is a handler that has unsubscribed and left messages in its buffer: a
\* poll that was overtaken by receives and departures is always followed by
\* one that finds the truth.  Broadcasts that never cease may hold it up too,
\* as they reach the subscribers until the drain is complete.
StallsOnlyOnAbandoned ==
    \A a \in Admins :
        <>[](pc[a] \in DrainPC) /\ <>[](\A g \in Senders : pc[g] \notin CastPC) =>
            <>[](\E c \in snap[a] : c \notin subscribers /\ buf[c] # <<>>)

-----------------------------------------------------------------------------
(* What the documentation says and the code does not do (see README).       *)

\* fanout.go:337-340: Shutdown waits for every active subscriber's buffer to
\* be empty, then closes.  Stated of a fair run: it returns, because every
\* active subscriber keeps reading.
DrainTerminates == \A a \in Admins : pc[a] = "scan" ~> pc[a] = "idle"
=============================================================================
