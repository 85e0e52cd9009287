-------------------------------- MODULE Topic --------------------------------
(***************************************************************************)
(* What a Broadcaster promises its users, without the locks, goroutines    *)
(* and polls it is made of: members with bounded queues, messages that are *)
(* offered to every member exactly once, and a life that only goes from    *)
(* open to refusing to over.                                               *)
(***************************************************************************)
EXTENDS Integers, Sequences

CONSTANTS
    Subs, Senders,     \* who may become a member, who may send
    Preds, NilPred,    \* filters a member may have; the one that lets all pass
    PredResult(_, _),  \* "true", "false" or "panic"
    Capacity           \* of a member's queue

VARIABLES
    phase,     \* "open", "refusing" (new members) or "over"
    state,     \* of each member: "none", "open" or "closed"
    interest,  \* its filter
    queue,     \* what it has still to take
    taken,     \* what it has taken
    dropped,   \* what it missed because its queue was full
    sent,      \* messages each sender is done with
    offered    \* members that have been offered the sender's current message

vars == <<phase, state, interest, queue, taken, dropped, sent, offered>>

Phases == <<"open", "refusing", "over">>

Members == {c \in Subs : state[c] = "open"}

\* No message is half way through the members.
BetweenMessages == \A s \in Senders : offered[s] = {}

Init ==
    /\ phase = "open"
    /\ state = [c \in Subs |-> "none"]
    /\ interest = [c \in Subs |-> NilPred]
    /\ queue = [c \in Subs |-> <<>>] /\ taken = [c \in Subs |-> <<>>]
    /\ dropped = [c \in Subs |-> {}]
    /\ sent = [s \in Senders |-> 0] /\ offered = [s \in Senders |-> {}]

\* Join between two messages, or be turned away with a closed channel.
Join(c) ==
    /\ state[c] = "none"
    /\ \E p \in Preds : interest' = [interest EXCEPT ![c] = p]
    /\ \/ phase = "open" /\ BetweenMessages /\ state' = [state EXCEPT ![c] = "open"]
       \/ phase # "open" /\ state' = [state EXCEPT ![c] = "closed"]
    /\ UNCHANGED <<phase, queue, taken, dropped, sent, offered>>

Message(s) == <<s, sent[s] + 1>>

Interested(c, m) == interest[c] = NilPred \/ PredResult(interest[c], m) = "true"

\* A member is offered the message once: it is queued if the member is
\* interested and has room, and dropped if there is no room.
Offer(s, c) ==
    /\ c \in Members \ offered[s]
    /\ offered' = [offered EXCEPT ![s] = @ \cup {c}]
    /\ \/ ~Interested(c, Message(s)) /\ UNCHANGED <<queue, dropped>>
       \/ /\ Interested(c, Message(s)) /\ Len(queue[c]) < Capacity
          /\ queue' = [queue EXCEPT ![c] = Append(@, Message(s))]
          /\ UNCHANGED dropped
       \/ /\ Interested(c, Message(s)) /\ Len(queue[c]) = Capacity
          /\ dropped' = [dropped EXCEPT ![c] = @ \cup {Message(s)}]
          /\ UNCHANGED queue
    /\ UNCHANGED <<phase, state, interest, taken, sent>>

\* A message is done with when every member has been offered it.
Done(s) ==
    /\ Members \subseteq offered[s]
    /\ sent' = [sent EXCEPT ![s] = @ + 1]
    /\ offered' = [offered EXCEPT ![s] = {}]
    /\ UNCHANGED <<phase, state, interest, queue, taken, dropped>>

\* Take the oldest message, also from a closed queue.
Take(c) ==
    /\ queue[c] # <<>>
    /\ taken' = [taken EXCEPT ![c] = Append(@, Head(queue[c]))]
    /\ queue' = [queue EXCEPT ![c] = Tail(@)]
    /\ UNCHANGED <<phase, state, interest, dropped, sent, offered>>

\* Between two messages, members leave and the topic moves on in its life.
\* It is over when the last member's channel is closed, and not before.
Close(S) ==
    /\ BetweenMessages
    /\ state' = [c \in Subs |-> IF c \in S THEN "closed" ELSE state[c]]
    /\ \E i, j \in 1 .. 3 : i <= j /\ Phases[i] = phase /\ Phases[j] = phase'
    /\ phase' = "over" => S = Members
    /\ UNCHANGED <<interest, queue, taken, dropped, sent, offered>>

Next ==
    \/ \E c \in Subs : Join(c) \/ Take(c)
    \/ \E s \in Senders : Done(s) \/ \E c \in Subs : Offer(s, c)
    \/ \E S \in SUBSET Members : Close(S)

Spec == Init /\ [][Next]_vars
=============================================================================
