----------------------------- MODULE FanOutTopic -----------------------------
(***************************************************************************)
(* The hub implements the topic.  Registration, the write lock's critical  *)
(* sections and each send are a step of the topic; picking a subscriber    *)
(* whose send is still to come, locking, polling and returning are none.   *)
(***************************************************************************)
EXTENDS FanOut

Phase == IF nilMap THEN "over" ELSE IF draining THEN "refusing" ELSE "open"

\* A predicate counts once the channel is made, a drop whoever was told of
\* it, and a subscriber as offered when its send is done.
Interest  == [c \in Subs |-> IF chan[c] = "none" THEN NilPred ELSE pred[c]]
Dropped   == [c \in Subs |-> {d[1] : d \in drops[c]}]
OfferedTo == [g \in Senders |-> Offered(g)]

Hub == INSTANCE Topic WITH
    Capacity <- EffectiveBufferSize,
    phase    <- Phase,
    state    <- chan,
    interest <- Interest,
    queue    <- buf,
    taken    <- rcvd,
    dropped  <- Dropped,
    sent     <- next,
    offered  <- OfferedTo

\* However Subscribe, Unsubscribe, Broadcast, Close and the two halves of
\* Shutdown interleave under the RWMutex, what users of the hub see is a
\* topic: each message is offered once to exactly the subscribers registered
\* when its fan-out starts, nobody comes or goes half way, a hub that refuses
\* never accepts again, and it is over only with every channel closed.
ImplementsTopic == Hub!Spec
=============================================================================
