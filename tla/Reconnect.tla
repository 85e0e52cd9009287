----------------------------- MODULE Reconnect -----------------------------
(***************************************************************************)
(* Reconnection with Last-Event-ID: the event store and Replay (replay.go, *)
(* example/datastar/store.go), the producer that stores and broadcasts     *)
(* (example/datastar/producer.go), the request handler that replays and    *)
(* then forwards (example/datastar/handlers.go), and one browser tab that  *)
(* loses its connection and reconnects.                                    *)
(*                                                                         *)
(* Feed events are their sequence numbers, 1 .. total: the decimal form is *)
(* the event's ID.  Meta is a message without an ID (subscriber count,     *)
(* replay banner, total): it takes a place in the buffers and nothing else.*)
(* The hub is the one of module FanOut, with Subscribe, Unsubscribe and    *)
(* the broadcast of one message to every subscriber as single steps.       *)
(*                                                                         *)
(* The tab's connections are numbered.  The handler of a connection that   *)
(* is gone may still be running, and subscribed, when the next one starts. *)
(***************************************************************************)
EXTENDS Integers, Sequences, SequencesExt

CONSTANTS
    MaxEvents,       \* bound: events the producer emits
    MaxConns,        \* bound: connections a tab opens
    StoreCap,        \* maxStoredEvents
    BufSize,         \* the hub's buffer per subscriber
    Recipes          \* <<alertsOnly, subscribeFirst, opens>>: what to consider

(* alertsOnly: the tab asks for ?filter=alerts.                            *)
(* subscribeFirst: FALSE for the example's handler, Replay and then        *)
(* Subscribe; TRUE for docs/guides/filters-and-fanout.md, SubscribeFilter  *)
(* and then ReplayFiltered.                                                *)
(* opens: bound on this tab's connections.                                 *)

ASSUME BoundsAssumption == MaxEvents \in Nat /\ MaxConns \in Nat
ASSUME SizeAssumption == StoreCap \in Nat \ {0} /\ BufSize \in Nat \ {0}
ASSUME RecipeAssumption == Recipes \subseteq BOOLEAN \X BOOLEAN \X (1 .. MaxConns)

VARIABLES
    recipe,    \* the recipe of this behaviour
    total,     \* startProducer's counter: the last event's sequence number
    alerts,    \* the events of category alert
    prod,      \* the producer: "idle", "evt" or "signal" (what it sends next)
    store,     \* memStore.events
    subs,      \* connections registered with the hub
    buf,       \* the channel of each connection
    pc,        \* the handler of each connection
    lastEventID, \* the Last-Event-ID header of each connection, 0 for none
    pending,   \* events returned by the store that Replay has still to send
    snapshot,  \* history: total when the store was read
    up,        \* connections whose transport works
    wire,      \* feed events written to a connection and not yet received
    cur,       \* the tab's latest connection, 0 before the first
    lastID,    \* the tab's last event ID, 0 for none
    got,       \* history: the feed events the tab has received, in order
    lost       \* history: <<cause, event>>, why the tab will not get an event
               \* unless it reconnects with an earlier Last-Event-ID

prodVars   == <<total, alerts, prod, store>>
replayVars == <<lastEventID, pending, snapshot>>
tabVars    == <<cur, lastID, got>>
vars == <<recipe, prodVars, subs, buf, pc, replayVars, up, wire, tabVars, lost>>

AlertsOnly     == recipe[1]
SubscribeFirst == recipe[2]
Opens          == recipe[3]

Conns  == 1 .. MaxConns
Meta   == 0
Events == 1 .. total

HandlerPC == {"none", "replay", "sending", "banner", "subscribe", "hook1",
              "hook2", "loop", "unsubscribe", "unhook", "done"}

Init ==
    /\ recipe \in Recipes
    /\ total = 0 /\ alerts = {} /\ prod = "idle" /\ store = <<>>
    /\ subs = {} /\ buf = [n \in Conns |-> <<>>]
    /\ pc = [n \in Conns |-> "none"]
    /\ lastEventID = [n \in Conns |-> 0]
    /\ pending = [n \in Conns |-> <<>>]
    /\ snapshot = [n \in Conns |-> 0]
    /\ up = {} /\ wire = [n \in Conns |-> <<>>]
    /\ cur = 0 /\ lastID = 0 /\ got = <<>>
    /\ lost = {}
-----------------------------------------------------------------------------
(* The hub *)

\* The filter of subscribeForRequest: events without an ID always pass.
Wanted(m) == m = Meta \/ ~AlertsOnly \/ m \in alerts

HasRoom(n) == Len(buf[n]) < BufSize

\* The read lock of BroadcastMany is held from the first message of a batch to
\* the last: nobody subscribes or unsubscribes in between.
ReadLocked == prod = "signal" \/ \E n \in Conns : pc[n] = "hook2"

\* sendAllLocked: a non-blocking send to every subscriber that wants m.
Broadcast(m) ==
    /\ buf' = [n \in Conns |-> IF n \in subs /\ Wanted(m) /\ HasRoom(n)
                                 THEN Append(buf[n], m) ELSE buf[n]]
    /\ lost' = IF m # Meta /\ cur \in subs /\ Wanted(m) /\ ~HasRoom(cur)
                 THEN lost \cup {<<"drop", m>>} ELSE lost

\* The last event whose broadcast has begun.
Broadcasted == IF prod = "evt" THEN total - 1 ELSE total
-----------------------------------------------------------------------------
(* The producer and the store *)

\* Append without the copy that drops the oldest events.
TrimForgotten(s) == s

\* Keep the newest StoreCap events.
Trim(s) == IF Len(s) > StoreCap
             THEN SubSeq(s, Len(s) - StoreCap + 1, Len(s)) ELSE s

\* What generateItem may draw for event k: an alert or not.  The category is
\* followed only if the tab asks for one.
GenerateItem(k) == IF AlertsOnly THEN SUBSET {k} ELSE {{}}

\* emit: count, draw an item, append it to the store.
EmitAppend ==
    /\ prod = "idle" /\ total < MaxEvents
    /\ total' = total + 1
    /\ \E a \in GenerateItem(total + 1) : alerts' = alerts \cup a
    /\ store' = Trim(Append(store, total + 1))
    /\ prod' = "evt"
    /\ UNCHANGED <<recipe, subs, buf, pc, replayVars, up, wire, tabVars, lost>>

\* BroadcastMany(evt, totalEventSignal(total)), message by message.
EmitBroadcast ==
    /\ prod = "evt"
    /\ Broadcast(total)
    /\ prod' = "signal"
    /\ UNCHANGED <<recipe, total, alerts, store, subs, pc, replayVars, up, wire, tabVars>>

EmitSignal ==
    /\ prod = "signal"
    /\ Broadcast(Meta)
    /\ prod' = "idle"
    /\ UNCHANGED <<recipe, total, alerts, store, subs, pc, replayVars, up, wire, tabVars>>

\* The loop that collects the members of K from s, in their order.
Keep(s, K) ==
    LET F[i \in 0 .. Len(s)] ==
          IF i = 0 THEN <<>>
          ELSE IF s[i] \in K THEN Append(F[i - 1], s[i]) ELSE F[i - 1]
    IN  F[Len(s)]

\* An off-by-one in the comparison, each way.
EventsAfterInclusive(id) == Keep(store, {k \in Events : k >= id})
EventsAfterSkips(id)     == Keep(store, {k \in Events : k > id + 1})

\* memStore.EventsAfter: an ID that is no number counts as 0.
EventsAfter(id) == Keep(store, {k \in Events : k > id})

\* Mutant: the predicate is forgotten on the way to the store.
MissedUnfiltered(id) == EventsAfter(id)

\* ReplayFiltered drops what the predicate refuses; Replay sends everything.
Missed(id) ==
    IF SubscribeFirst THEN Keep(EventsAfter(id), {k \in Events : Wanted(k)})
                      ELSE EventsAfter(id)
-----------------------------------------------------------------------------
(* The handler of connection n *)

\* Stream.Send of m succeeds while the connection works, and may seem to
\* succeed after it is gone; only feed events are followed to the tab.
SendOK(n, m) ==
    wire' = IF n \in up /\ m # Meta THEN [wire EXCEPT ![n] = Append(@, m)] ELSE wire

SendFails(n) == n \notin up /\ UNCHANGED wire

\* Where the handler goes once the missed events are dealt with, and once the
\* subscribe hook has run.
AfterReplay == IF SubscribeFirst THEN "loop" ELSE "subscribe"

AfterHook == IF SubscribeFirst THEN "replay" ELSE "loop"

\* replayMissedEvents without a Last-Event-ID.
SkipReplay(n) ==
    /\ pc[n] = "replay" /\ ~SubscribeFirst /\ lastEventID[n] = 0
    /\ pc' = [pc EXCEPT ![n] = AfterReplay]
    /\ UNCHANGED <<recipe, prodVars, subs, buf, replayVars, up, wire, tabVars, lost>>

\* The tab's losses as of now: what the store no longer holds.
Evicted(n) == {<<"evicted", k>> : k \in
                 {k \in Events : k > lastEventID[n] /\ k \notin ToSet(store)}}

\* Nothing to replay is mistaken for a failed write.
ReplayReadGivesUp(n) ==
    /\ pc[n] = "replay" /\ (SubscribeFirst \/ lastEventID[n] # 0)
    /\ pending' = [pending EXCEPT ![n] = Missed(lastEventID[n])]
    /\ snapshot' = [snapshot EXCEPT ![n] = total]
    /\ lost' = IF n = cur THEN lost \cup Evicted(n) ELSE lost
    /\ pc' = [pc EXCEPT ![n] = IF pending'[n] = <<>> THEN "done" ELSE "sending"]
    /\ UNCHANGED <<recipe, prodVars, subs, buf, lastEventID, up, wire, tabVars>>

\* Replay with nothing to send takes the handler straight on.
ReplayRead(n) ==
    /\ pc[n] = "replay" /\ (SubscribeFirst \/ lastEventID[n] # 0)
    /\ pending' = [pending EXCEPT ![n] = Missed(lastEventID[n])]
    /\ snapshot' = [snapshot EXCEPT ![n] = total]
    /\ lost' = IF n = cur THEN lost \cup Evicted(n) ELSE lost
    /\ pc' = [pc EXCEPT ![n] = IF pending'[n] = <<>> THEN AfterReplay ELSE "sending"]
    /\ UNCHANGED <<recipe, prodVars, subs, buf, lastEventID, up, wire, tabVars>>

\* The store fails; the guide's recipe carries on without looking at the error.
\* (The example's store never does.)
StoreFails(n) ==
    /\ pc[n] = "replay" /\ SubscribeFirst
    /\ lost' = IF n # cur THEN lost ELSE lost \cup
                 {<<"store", k>> : k \in (lastEventID[n] + 1) .. Broadcasted \ ToSet(buf[n])}
    /\ pc' = [pc EXCEPT ![n] = AfterReplay]
    /\ UNCHANGED <<recipe, prodVars, subs, buf, replayVars, up, wire, tabVars>>

\* After the last event the example's handler sends the banner.
ReplaySend(n) ==
    /\ pc[n] = "sending"
    /\ SendOK(n, Head(pending[n]))
    /\ pending' = [pending EXCEPT ![n] = Tail(@)]
    /\ pc' = [pc EXCEPT ![n] = IF Len(pending[n]) > 1 THEN "sending"
                               ELSE IF SubscribeFirst THEN "loop" ELSE "banner"]
    /\ UNCHANGED <<recipe, prodVars, subs, buf, lastEventID, snapshot, up, tabVars, lost>>

\* A failed replay is logged and the handler carries on.
ReplayFails(n) ==
    /\ pc[n] = "sending"
    /\ SendFails(n)
    /\ pending' = [pending EXCEPT ![n] = <<>>]
    /\ pc' = [pc EXCEPT ![n] = AfterReplay]
    /\ UNCHANGED <<recipe, prodVars, subs, buf, lastEventID, snapshot, up, tabVars, lost>>

\* replayEvent(n): if the write fails the handler returns, never subscribed.
ReplayBanner(n) ==
    /\ pc[n] = "banner"
    /\ \/ SendOK(n, Meta) /\ pc' = [pc EXCEPT ![n] = "subscribe"]
       \/ SendFails(n) /\ pc' = [pc EXCEPT ![n] = "done"]
    /\ UNCHANGED <<recipe, prodVars, subs, buf, replayVars, up, tabVars, lost>>

\* What the hub has already sent, and the replay did not cover, is not for n.
Unreached(n) ==
    IF SubscribeFirst THEN {}
    ELSE {<<IF lastEventID[n] = 0 THEN "first" ELSE "gap", k>> :
            k \in {k \in Events : snapshot[n] < k /\ k <= Broadcasted}}

Subscribe(n) ==
    /\ pc[n] = "subscribe" /\ ~ReadLocked
    /\ subs' = subs \cup {n}
    /\ pc' = [pc EXCEPT ![n] = "hook1"]
    /\ lost' = IF n = cur THEN lost \cup Unreached(n) ELSE lost
    /\ UNCHANGED <<recipe, prodVars, buf, replayVars, up, wire, tabVars>>

\* OnSubscribe: BroadcastMany(replayEvent(0), countEvent(...)).
SubscribeHook(n) ==
    /\ pc[n] \in {"hook1", "hook2"}
    /\ Broadcast(Meta)
    /\ pc' = [pc EXCEPT ![n] = IF pc[n] = "hook1" THEN "hook2" ELSE AfterHook]
    /\ UNCHANGED <<recipe, prodVars, subs, replayVars, up, wire, tabVars>>

\* The select loop: forward a message, or leave.
Forward(n) ==
    /\ pc[n] = "loop" /\ buf[n] # <<>>
    /\ buf' = [buf EXCEPT ![n] = Tail(@)]
    /\ \/ SendOK(n, Head(buf[n])) /\ UNCHANGED pc
       \/ SendFails(n) /\ pc' = [pc EXCEPT ![n] = "unsubscribe"]
    /\ UNCHANGED <<recipe, prodVars, subs, replayVars, up, tabVars, lost>>

\* The loop ranges over the channel and never looks at the context.
CtxDoneIgnored(n) == FALSE /\ pc[n] = "loop" /\ UNCHANGED vars

CtxDone(n) ==
    /\ pc[n] = "loop" /\ n \notin up
    /\ pc' = [pc EXCEPT ![n] = "unsubscribe"]
    /\ UNCHANGED <<recipe, prodVars, subs, buf, replayVars, up, wire, tabVars, lost>>

\* The deferred Unsubscribe, and its hook.
Unsubscribe(n) ==
    /\ pc[n] = "unsubscribe" /\ ~ReadLocked
    /\ subs' = subs \ {n}
    /\ buf' = [buf EXCEPT ![n] = <<>>]
    /\ pc' = [pc EXCEPT ![n] = "unhook"]
    /\ UNCHANGED <<recipe, prodVars, replayVars, up, wire, tabVars, lost>>

UnsubscribeHook(n) ==
    /\ pc[n] = "unhook"
    /\ Broadcast(Meta)
    /\ pc' = [pc EXCEPT ![n] = "done"]
    /\ UNCHANGED <<recipe, prodVars, subs, replayVars, up, wire, tabVars>>
-----------------------------------------------------------------------------
(* The tab and the network *)

\* The browser connects, and reconnects, with the last ID it has seen.  What
\* the new connection can still replay is not lost yet.
Connect ==
    /\ cur < Opens /\ (cur = 0 \/ cur \notin up)
    /\ cur' = cur + 1
    /\ up' = up \cup {cur'}
    /\ lastEventID' = [lastEventID EXCEPT ![cur'] = lastID]
    /\ pc' = [pc EXCEPT ![cur'] = IF SubscribeFirst THEN "subscribe" ELSE "replay"]
    /\ lost' = {l \in lost : l[2] <= lastID}
    /\ UNCHANGED <<recipe, prodVars, subs, buf, pending, snapshot, wire, lastID, got>>

\* EventSource dispatches an event and remembers its ID.
Receive ==
    /\ cur \in up /\ wire[cur] # <<>>
    /\ wire' = [wire EXCEPT ![cur] = Tail(@)]
    /\ lastID' = Head(wire[cur])
    /\ got' = Append(got, Head(wire[cur]))
    /\ UNCHANGED <<recipe, prodVars, subs, buf, pc, replayVars, up, cur, lost>>

\* The transport breaks: what was on its way is gone.  Bound: the last
\* connection holds.
Disconnect ==
    /\ cur \in up /\ cur < Opens
    /\ up' = up \ {cur}
    /\ wire' = [wire EXCEPT ![cur] = <<>>]
    /\ UNCHANGED <<recipe, prodVars, subs, buf, pc, replayVars, tabVars, lost>>

\* The bounds are used up and everything sent has arrived.
Quiet ==
    /\ total = MaxEvents /\ prod = "idle" /\ cur = Opens
    /\ \A n \in 1 .. cur : \/ pc[n] = "done"
                           \/ n = cur /\ pc[n] = "loop" /\ buf[n] = <<>> /\ wire[n] = <<>>
    /\ UNCHANGED vars

Produce == EmitAppend \/ EmitBroadcast \/ EmitSignal

Replay(n) ==
    \/ SkipReplay(n) \/ ReplayRead(n) \/ StoreFails(n)
    \/ ReplaySend(n) \/ ReplayFails(n) \/ ReplayBanner(n)

Handle(n) ==
    \/ Replay(n)
    \/ Subscribe(n) \/ SubscribeHook(n)
    \/ Forward(n) \/ CtxDone(n)
    \/ Unsubscribe(n) \/ UnsubscribeHook(n)

Next ==
    \/ Produce
    \/ \E n \in Conns : Handle(n)
    \/ Connect \/ Receive \/ Disconnect
    \/ Quiet

Spec == Init /\ [][Next]_vars

\* Goroutines run, the browser reads and reconnects; nothing makes a
\* connection break, or the producer's ticker fire.
Fairness ==
    /\ WF_vars(EmitBroadcast) /\ WF_vars(EmitSignal)
    /\ \A n \in Conns : WF_vars(Handle(n)) /\ SF_vars(Subscribe(n) \/ Unsubscribe(n))
    /\ WF_vars(Connect) /\ WF_vars(Receive)

FairSpec == Spec /\ Fairness
-----------------------------------------------------------------------------
TypeOK ==
    /\ recipe \in Recipes
    /\ total \in 0 .. MaxEvents /\ alerts \subseteq Events
    /\ prod \in {"idle", "evt", "signal"}
    /\ store \in Seq(Events) /\ Len(store) <= StoreCap
    /\ subs \subseteq Conns /\ up \subseteq Conns
    /\ buf \in [Conns -> Seq(0 .. total)] /\ wire \in [Conns -> Seq(Events)]
    /\ \A n \in Conns : Len(buf[n]) <= BufSize
    /\ pc \in [Conns -> HandlerPC]
    /\ lastEventID \in [Conns -> 0 .. total] /\ snapshot \in [Conns -> 0 .. total]
    /\ pending \in [Conns -> Seq(Events)]
    /\ cur \in 0 .. MaxConns /\ lastID \in 0 .. total /\ got \in Seq(Events)
    /\ lost \subseteq {"first", "gap", "evicted", "drop", "store"} \X Events

Received == ToSet(got)

LostBecause(k, causes) == \E c \in causes : <<c, k>> \in lost

\* Every event up to the tab's last ID has been received, was not asked for,
\* or is lost for one of the given causes.
Accounted(causes) ==
    \A k \in 1 .. lastID : k \in Received \/ ~Wanted(k) \/ LostBecause(k, causes)

\* The causes a recipe has.
Causes == IF SubscribeFirst THEN {"evicted", "drop", "store"}
                            ELSE {"first", "gap", "evicted", "drop"}

\* What a tab loses it loses for a known reason.  Subscribing before the
\* replay leaves only the two size limits, where the ring buffer had let the
\* event go or the subscriber's buffer was full, and a store that fails.  The
\* example's handler also loses what was over before the tab's first
\* connection, and what is broadcast between Replay's reading of the store and
\* the subscription.
NoUnexplainedLoss == Accounted(Causes)

\* Across any number of reconnections a tab of the example's server never
\* receives an older event after a newer one.  It receives an event a second
\* time only right after the first, and only one that was the newest in the
\* store when it reconnected: stored but not yet broadcast.
OrderedAtMostTwice ==
    ~SubscribeFirst =>
        \A i, j \in DOMAIN got : i < j =>
            \/ got[i] < got[j]
            \/ got[i] = got[j] /\ j = i + 1 /\ \E n \in Conns : got[i] = snapshot[n]

\* A tab that asks for alerts is sent other events only by the replay of the
\* example's handler, which does not filter, and never by a subscription or by
\* ReplayFiltered.
UnwantedOnlyReplayed ==
    \A k \in Received :
        \/ Wanted(k)
        \/ /\ ~SubscribeFirst
           /\ \E n \in Conns : lastEventID[n] # 0 /\ lastEventID[n] < k /\ k <= snapshot[n]

\* Why these three hold, for any number of events and connections.

\* The store holds the newest events, one after the other.
StoreInv == \A i \in DOMAIN store : store[i] = total - Len(store) + i

\* The handler of connection n has not been at the store yet.
Unread(n) ==
    pc[n] \in {"none", "replay"} \cup (IF SubscribeFirst THEN {"subscribe", "hook1", "hook2"} ELSE {})

\* Where the handler of n can be.  Until it has read the store it has written
\* nothing, and its Last-Event-ID is still the tab's; a handler whose
\* connection works does not leave.
HandlerOK(n) ==
    /\ n > cur => pc[n] = "none" /\ lastEventID[n] = 0
    /\ n \in subs <=> pc[n] \in {"hook1", "hook2", "loop", "unsubscribe"}
                        \cup (IF SubscribeFirst THEN {"replay", "sending"} ELSE {})
    /\ n \notin subs => buf[n] = <<>>
    /\ pc[n] = "sending" <=> pending[n] # <<>>
    /\ Unread(n) => snapshot[n] = 0 /\ wire[n] = <<>>
    /\ n \in up /\ Unread(n) => lastEventID[n] = lastID
    /\ n \in up => pc[n] \notin {"none", "unsubscribe", "unhook", "done"}
    /\ pc[n] = "banner" => ~SubscribeFirst

ConnInv == up \subseteq {cur} /\ cur <= Opens /\ \A n \in Conns : HandlerOK(n)

\* A subscriber's buffer holds wanted events, in order, already broadcast.
InBuf(s) ==
    \A i \in DOMAIN s :
        /\ s[i] <= Broadcasted /\ Wanted(s[i])
        /\ \A j \in DOMAIN s : i < j /\ s[j] # Meta => s[i] < s[j]

BufInv == 0 <= Broadcasted /\ \A n \in Conns : InBuf(buf[n])

\* A replay that does not filter covers k.
Replayed(k) ==
    /\ ~SubscribeFirst
    /\ \E n \in Conns : lastEventID[n] # 0 /\ lastEventID[n] < k /\ k <= snapshot[n]

\* What is on its way was asked for, or the replay does not filter.
WantedInv ==
    /\ \A k \in Received : Wanted(k) \/ Replayed(k)
    /\ \A n \in Conns :
         \A k \in ToSet(wire[n]) \cup ToSet(pending[n]) : Wanted(k) \/ Replayed(k)

\* In s no feed event comes before an older one, nor before itself unless
\* right after and in P.
Orderly(s, P) ==
    \A i, j \in DOMAIN s :
        i < j /\ s[i] # Meta /\ s[j] # Meta =>
            \/ s[i] < s[j]
            \/ s[i] = s[j] /\ s[i] \in P /\ \A m \in i + 1 .. j - 1 : s[m] = Meta

Once(s, k) == \A i, j \in DOMAIN s : s[i] = k /\ s[j] = k => i = j

Snapshots == {snapshot[n] : n \in Conns}

\* What comes twice was the newest in the store when a handler read it; an
\* event that is stored and not broadcast is there once at most, from a replay.
InLine(s) ==
    /\ Orderly(s, Snapshots)
    /\ prod = "evt" => Once(s, total) /\ (total \in ToSet(s) => total \in Snapshots)

\* All that connection n still has for the tab, in the order of arrival.
Coming(n) == wire[n] \o pending[n] \o buf[n]

\* What a tab of the example has received and what is coming are in order.
OrderInv ==
    ~SubscribeFirst =>
        /\ lastID = IF got = <<>> THEN 0 ELSE got[Len(got)]
        /\ InLine(got) /\ \A n \in up : InLine(got \o Coming(n))

\* Received, not asked for, or lost for a known reason.
Settled == {k \in Events : k \in Received \/ ~Wanted(k) \/ LostBecause(k, Causes)}

\* Each event of s finds the earlier ones in E or before it.
Told(s, E) == \A i \in DOMAIN s : \A k \in 1 .. s[i] : k \in E \/ \E j \in 1 .. i : s[j] = k

\* How far the events are that the handler of n answers for.
Horizon(n) == IF n \in subs THEN Broadcasted ELSE snapshot[n]

\* Once the store is read, what is coming leaves nothing out, and what is
\* behind the handler is settled or coming.
LossInv ==
    /\ NoUnexplainedLoss
    /\ \A n \in up : ~Unread(n) =>
         /\ Told(Coming(n), Settled)
         /\ 1 .. Horizon(n) \subseteq Settled \cup ToSet(Coming(n))

TabInv == TypeOK /\ StoreInv /\ ConnInv /\ BufInv /\ WantedInv /\ OrderInv /\ LossInv

\* Every event emitted reaches the tab sooner or later or is accounted for,
\* through disconnections, stale handlers and failed replays: a tab that stays
\* connected catches up.
CatchesUp ==
    \A k \in 1 .. MaxEvents :
        (k <= total) ~> \/ k \in Received \/ ~Wanted(k)
                        \/ LostBecause(k, {"first", "gap", "evicted", "drop"})

\* The handler of a broken connection leaves the hub.
StaleHandlersLeave ==
    \A n \in Conns : (n < cur) ~> (pc[n] = "done" /\ n \notin subs)

\* docs/guides/reconnection-and-retry.md: Last-Event-ID and Replay make
\* reconnection lossless.  Between the first and the last event that the tab
\* has received none is missing, unless the store had to let it go.
Lossless ==
    got # <<>> => \A k \in got[1] .. lastID : k \in Received \/ LostBecause(k, {"evicted"})
=============================================================================
