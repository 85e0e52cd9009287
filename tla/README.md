# Verification of go-sse

TLA+ models of [go-sse](../src/README.md): a Go library for Server-Sent Events
(one-way event streams over HTTP) and the example server that ships with it.
TLC checks the models on small instances; TLAPS proves for every number of
goroutines, connections and events, every buffer size and every text the safety
properties of all parts: the hub and the topic it implements, the stream, the
example server, reconnection, the writer, the reader and the test helpers. Paths and line
numbers refer to `src/`.

## 1. The system

| Part | Source | State it keeps | Operations |
|---|---|---|---|
| **Broadcaster**, the hub | `fanout.go`, `broadcaster.go` | map of subscriber channels with predicates, `draining`, three hooks, an `RWMutex` | `Subscribe`, `SubscribeFilter`, `Unsubscribe`, `Broadcast`, `BroadcastMany`, `Close`, `Shutdown`, `Health`, `SubscriberCount`, `OnSubscribe`, `OnUnsubscribe`, `OnDrop` |
| **Stream**, one response | `stream.go` | mutex, `closed`, disconnect callbacks, the `ResponseWriter` | `NewStream`, `Send*`, `Heartbeat`, `OnDisconnect`, `Close`, `LastEventIDFromRequest` |
| **Replay** | `replay.go` | none | `Replay`, `ReplayFiltered` over an `EventStore` that may fail |
| **Wire format, writer** | `event.go` | none | `WriteEvent`, `WriteHeartbeat`, `WriteRetry`, `JoinLines`, `KeyedLines`, `ParseEventID` |
| **Wire format, reader** | `sseparse/reader.go` | BOM probe, scanner buffer, frame, sticky ID and retry time | `ReadEvents`, `ReadNEvents`, `StreamReader.Next` |
| **Example server** | `example/datastar/*.go` | ring-buffer store, event counter, the hub | producer loop, events handler, hooks, shutdown sequence |
| **Test helpers** | `ssetest/` | one test server and one response per call | `Collect`, `CollectWithRequest`, `CollectPost`, `CollectN`, `CollectWithTimeout`, request options |
| **Assertions, corpus** | `sseparse/{assert,search,corpus,gen_corpus}.go` | none | comparisons, list filters, test vectors |
| **Small examples, pages** | `example/server.go`, `example/htmx/`, `*_templ.go` | none of their own | events handlers, one `Broadcast` per POST |

How they meet. A request's handler makes a `Stream`, replays what the client
missed from the store, subscribes to the hub, and forwards each message from
its channel to the stream until the channel closes or the request ends.
Producers append to the store and then broadcast. Subscribe and unsubscribe
hooks run in the handler's goroutine after the lock is released, and broadcast
themselves. Heartbeats are goroutines that share the stream with the handler
and outlive it. An administrator closes or drains the hub; in the example that
is `main`, after a signal, once the HTTP server has been shut down or has used
up the common deadline. The browser remembers the last event ID it saw and sends
it when it reconnects. In a test, a `Collect` helper takes the browser's place.

What is hard, and what makes each part correct:

- *Hub.* Channels are closed by three different operations and sent to by a
  fourth; the drain polls without the lock over a snapshot. Correct: no send on
  and no second close of a closed channel (`NoPanic`); nobody left on a channel
  that nobody will close (`NoOrphan`, `HandlersEnd`); a drain knows all
  subscribers (`DrainCoversSubscribers`); per-sender order, filters and drops
  as promised (`InOrder`, `FilterRespected`, `NoSilentLoss`); no lock-up with
  hooks that call back (`CallsReturn`); `Shutdown` ends when its context does
  (`DeadlineHonoured`); and all together what a user may rely on, the `Topic`
  (`ImplementsTopic`).
- *Stream.* A `ResponseWriter` is neither safe for concurrent use nor usable
  after the handler returns, and heartbeats know neither. Correct:
  `ExclusiveUse`, `NoUseAfterFinish`, `HeartbeatsEnd`; callbacks run exactly
  once, in order, also when they register more (`CallbackLedger`, `CloseEnds`).
- *Reconnection.* Store, hub, socket and browser each hold part of the truth
  and change it separately. Correct: what a tab misses it misses for a known
  reason (`NoUnexplainedLoss`), what it gets is in order and repeated only in
  one window (`OrderedAtMostTwice`), what it did not ask for comes from one place
  (`UnwantedOnlyReplayed`), and it catches up (`CatchesUp`).
- *Writer.* Data comes with any mix of CR, LF and CRLF and leaves as one field per
  line. Correct: the bytes mean the events that were to be sent, no more and no
  less, with any number of heartbeats between them (`WrittenMeansDelivered`), and
  lines that are joined or given a key come apart again where they should
  (`JoinedLinesDivide`, `KeyedLinesDivide`).
- *Reader.* The network cuts the stream anywhere. Correct: the events do not
  depend on the cuts (`PrefixOfMeaning`), the three functions return what they
  promise (`ReturnsMeaning`), the line cap is exact (`CapEnforced`), and an ID that
  is read can be sent back (`IDsEchoable`).
- *Example server.* `http.Server.Shutdown` waits for handlers that wait for the
  hub, which is shut down next, under the same deadline. Correct: the process
  exits (`ExitsAfterSignal`), cleanly if the HTTP server drained
  (`GracefulExit`), and nothing in it does to the hub what the hub's model does
  not allow (`ImplementsHub`).
- *Test helpers.* Timeout, handler, connection and cleanup race. Correct: a test
  ends (`TestEnds`, `TimeoutBounds`), part of a stream is not handed over as the
  whole (`NoSilentTruncation`), and the handler sees the request that the options
  describe (`RequestAsConfigured`).

## 2. The modules

| Module | Models | Composed of |
|---|---|---|
| `FanOut` | the hub, its callers, the `RWMutex` | |
| `Topic` | what a user of the hub may rely on, without locks and goroutines | |
| `FanOutTopic` | the refinement mapping from the hub to the topic | `FanOut`, `Topic` |
| `MCFanOut` | the predicate and symmetry sets for TLC | `FanOutTopic` |
| `FanOutProofs` | theorems about `FanOut`: lock, channels, drain; who gets which message; the refinement | `FanOutTopic` |
| `Server` | the example's `main`: listener, requests, producer, signal, shutdown, exit | `FanOut` |
| `MCServer` | joins the two for TLC | `Server`, `MCFanOut` |
| `ServerProofs` | theorems about `Server` | `Server`, `FanOutProofs` |
| `Stream` | one response, its handler, heartbeats, registrars, the HTTP server | |
| `StreamProofs` | theorems about `Stream` | `Stream` |
| `Reconnect` | producer, store, `Replay`, handler, hub, network, browser tab | |
| `MCReconnect` | which handler, which filter, how many connections | `Reconnect` |
| `ReconnectProofs` | theorems about `Reconnect` | `Reconnect`, `Induction` |
| `WireFormat` | the functions of `event.go`; what a stream means, after the standard | |
| `WireFormatProofs` | theorems about `WireFormat`: what is written means what was to be sent | `WireFormat`, `Induction` |
| `Reader` | the reader over a connection | `WireFormat` |
| `MCReader` | the streams to read | `Reader` |
| `ReaderProofs` | theorems about `Reader` | `Reader`, `WireFormatProofs` |
| `Collect` | the `Collect` helpers, the handler under test, the connection between them | |
| `MCCollect` | the calls and handlers to consider | `Collect` |
| `CollectProofs` | theorems about `Collect` | `Collect`, `Induction` |
| `Induction` | lemmas on least elements, `Max`, `Min`, counting up and recursive functions, for the proofs above | |

### FanOut

A connection, its handler goroutine and its channel have one name. `subscribers`,
`nilMap`, `draining` and `hooks` are the fields of `fanOut`; `writer`, `readers`
and `rblocked` are the lock, with Go's semantics: a writer first announces
itself, later readers queue behind it, it enters when the readers inside have
left, and its `Unlock` lets the queued readers in. What runs under the write
lock is one action (`SubscribeFilter`, `Unsubscribe`, `Close`, `SetHook`,
`ShutdownBegin`, `ShutdownFinish`), because only receives can happen meanwhile
and they commute with it. What runs under the read lock is split: `Pick` is the
range reaching a subscriber and its predicate, `Send` is the `select` with its
`default`, `EndPass` ends the fan-out of one message. The drain is split into
one `Scan` per `len(ch)`, as it takes no lock. Hooks run after the unlock, in
the same goroutine (`RunHook`), and send `HookMsgs` messages, as those of the
example do.

User code is a parameter: `PredResult` says whether a predicate matches, refuses
or panics. Messages are `<<sender, number>>`. `Health` and `SubscriberCount`
only read and have no action. A hook that panics is outside the model: the code
recovers predicates and `onDrop` only, and those two are modelled.

### Topic, FanOutTopic

The topic has members with bounded queues. A message is offered to each member
exactly once and is done with when every member has been offered it; members
come and go, and the topic moves on in its life (`open`, `refusing`, `over`),
only between two messages; it is over exactly when the last channel is closed;
what is queued can be taken after that. `FanOutTopic` maps the hub to it: the
members are the open channels, `phase` is what `Health` reports, and a subscriber
has been offered the message once its send is past, so `Pick` is a step of the
topic only where the predicate says no. Locking, polling and returning are
stuttering.

### Server

Extends `FanOut`: a handler can subscribe only once its request is accepted, the
producer emits until the context is done, and the one administrator is `main`,
which calls `Shutdown` after `http.Server.Shutdown` has returned. `Timeout` is
the common deadline, `HubTimeout` the moment the hub's drain sees it. net/http is
external: `Shutdown` closes the listener, does not touch running handlers or
their contexts, and returns when the last has returned or its context is done.
`ListenAndServe` may fail at once or later (`ListenFails`). After `Exit` nothing
runs. The content of a batch is `EmitMsgs` messages; hooks send `HookMsgs`.

### Stream

Each critical section is split at its `Write` and `Flush`, so that "inside the
`ResponseWriter`" is a place where a goroutine can be (`UsePC`). `ServerFinish`
is net/http taking the response back after the handler returned. The handler
alone calls `Send` and `Close`, as documented and as in every example; it may
close several times and send in between. A callback may register another one
(`CallbackReturns`, `CallOnDisconnect`).

### Reconnect

Feed events are their sequence numbers, whose decimal form is their ID; `Meta`
is a message without an ID. `pc[n]` is the handler of the tab's `n`-th
connection. The hub is `FanOut`'s with coarser steps: a broadcast of one message
is one step, and nobody subscribes between the messages of a batch
(`ReadLocked`). `lost` is a history variable that records, at the step where it
happens, why the current connection will not deliver an event: `first` (over
before the tab's first connection), `gap` (broadcast between reading the store
and subscribing), `evicted`, `drop`, `store` (the store failed). `Connect` forgets the entries that the new
connection's Last-Event-ID asks for again. `recipe` selects the example's
handler (replay, then subscribe) or the one of
`docs/guides/filters-and-fanout.md` (subscribe, then `ReplayFiltered`, over a
store that may fail: `StoreFails`), and whether the tab filters. A
`FilteredEventStore` is not told apart: it returns what filtering the store's
events returns. A `Send` on a broken connection may fail or seem to
succeed, as with TCP.

### WireFormat, Reader

Text is a sequence of symbols: a byte that matters, a field name with or without
its colon (`FieldNames`, `Bare`), or a stretch of other text (`Symbol`). A line
that is a name without a colon is a field with the empty value, for the standard
(`IsField`) as for `parseSSEField` (`FieldOf`): `id` alone resets the last event
ID and `event` the type. `WireFormat` has the functions of `event.go`
(`Walk` is one turn of `forEachLine`'s loop, `WalkAll` the loop) and,
independently, `Meaning`: the events of a text according to the standard,
defined on the whole text and not by scanning. A line is known by the position
where it ends (`LineEnds`, `LineAt`); type, data, ID and retry time at a position
are read off the set of lines that count there (`TypeAt`, `DataAt`, `IDAt`,
`RetryAt`), and an event stands at each blank line that has data before it
(`Dispatching`). `Sent` is a stream of written events with heartbeats between
them, `Delivered` what it should mean, `Writable` the events for which it does.
`Reader`
is the machine: `Probe` (BOM), `ReadPending`, `ReadBytes` (any number of bytes),
`ReadError`, `TooLong` are what `bufio.Scanner` meets when it reads;
`SplitSSELines` is the split function; `ReadEvents`, `ReadNEvents`, `NextEvent`
are one line each for the function the caller uses. A retry time is a number:
`ParseLimit` is the first that `ParseUint` refuses, `source.uint` the number of
values of a `uint`, which is smaller on a 32-bit platform.

### Collect

`test` is where the test's goroutine is: in `Do`, reading, in the deferred
`closeBody` and `cancel`, in the cleanup that closes the server. The handler
under test is a record: how many events it sends, whether it returns after them,
whether it watches its context, and whether more events keep coming (so that a
`Send` on the dead connection fails). The handlers of the HTMX and the minimal
example are such records. The server may start the handler when the client has
given up already (`ServeHTTP`); a request whose path or header is invalid is
never sent (`Sendable`, `DoFails`). Closing the body, or the end of the request's
context, breaks the connection; the server notices sooner or later
(`ConnectionLost`). An option is a name with a value; the headers `Last-Event-ID`
and `Content-Type` are followed.

## 3. Runs

| Run | Shows | Bounds |
|---|---|---|
| `delivery` | `TypeOK`, `InOrder`, `FilterRespected`, `DeliveryInv`, `NoSilentLoss`, `ImplementsTopic` | 2 handlers whose unsubscribe hooks send a message, 1 producer with 2 messages in batches of 0 to 2, a predicate that matches, panics and refuses, capacity 1, a drop hook that comes and goes, `Close` |
| `shutdown` | `NoPanic`, `NoOrphan`, `DrainCoversSubscribers`, `HubInv`, `ImplementsTopic` | 2 handlers, 1 producer, 2 administrators that close and shut down repeatedly with deadlines |
| `hooks` | `CallsReturn`, `HandlersEnd` (fair) | 2 handlers whose hooks broadcast, `Close` |
| `drain` | `DeadlineHonoured`, `StallsOnlyOnAbandoned` (fair) | 2 handlers whose unsubscribe hooks send 3 messages, 1 administrator |
| `drain_terminates` | **refuted** `DrainTerminates` (fair) | 1 handler |
| `server` | `GracefulExit`, `ImplementsHub`, `ExitsAfterSignal` (fair) | 2 tabs, 1 message, buffers of 1, hooks that take the lock |
| `stream` | `StreamInv`, `ExclusiveUse`, `NoUseAfterFinish`, `CallbackLedger`, `HeartbeatsEnd`, `CloseEnds` (fair) | 2 heartbeats, one with a context that never ends, 1 registrar, 2 callbacks |
| `reconnect` | `NoUnexplainedLoss`, `OrderedAtMostTwice`, `UnwantedOnlyReplayed`, `TabInv` | 3 events, store of 2, capacity 1; the example with 3 connections, and filtered with 2; the guide's filtered recipe with 2 and a store that may fail |
| `reconnect_progress` | `CatchesUp`, `StaleHandlersLeave` (fair) | the example, 3 events, 2 connections |
| `reconnect_lossless` | **refuted** `Lossless` | store and buffers that never fill |
| `reader` | `PrefixOfMeaning`, `IDsEchoable`, `ReturnsMeaning`, `CapEnforced`, `ReaderInv` | some 7000 streams, count 2, below |
| `collect` | `RequestAsConfigured`, `CollectInv`, `NoSilentTruncation`, `TestEnds`, `TimeoutBounds` (fair) | every helper, counts 0 to 3, every kind of handler with 0 to 2 events, the examples' handlers, up to 3 of 8 options in every order, a path that does not parse |

Why the bounds are enough to be interesting. Two handlers are the least for one
subscriber's fate to depend on another; a capacity of one makes every second
message a drop; two administrators make `Close` overtake `Shutdown` and
`Shutdown` overtake `Shutdown`. In `delivery` three senders interleave, the
producer and a hook per handler; one predicate matches the producer's first
message, panics on the second and refuses what hooks send. In `drain` the hook of
the handler that leaves broadcasts a batch larger than the buffers while they are
polled. Three connections let two stale handlers coexist with the
current one; a store of two and three events make the ring wrap. In `server` one
message and buffers of one are enough for a drain to have something to wait for,
and two tabs for one to be in its subscription while the other leaves; its batch
of one message stands for the code's two, whose order `delivery` covers. Symmetry is
used in the two safety runs of the hub only: handlers, and administrators, are
interchangeable there.

The streams of the `reader` run: every text of up to five symbols of `data:`,
`id:`, `x`, CR, LF; texts after a BOM, two BOMs and part of one; up to three
events with each kind of field, its name with a colon or without, and each kind of
frame between them, on a connection that may break anywhere, read by all three
functions, `ReadNEvents` with a count of two, so that it meets errors before,
between and after the events it wants; retry times of
up to three digits against a `ParseUint` limit of 100 and a `uint` of 100 or of
10 values, in place of 2^64 and 2^32; every text of
up to six of `data:`, CR, LF with a cap of three symbols; a BOM longer than the cap
on a connection that breaks; and what `WriteEvent`
and `SendLines` of keyed lines write for data with every mix of line breaks and
for every ID that `ParseEventID` accepts.
Each is delivered in pieces of every size. The cap counts symbols, so a field
name counts one.

The inductive invariants of the proofs are checked too (`HubInv`, `DeliveryInv`,
`StreamInv`, `TabInv`, `ReaderInv`, `CollectInv`); the last three contain their
module's type invariant.

Deadlock is checked in the `Reconnect` runs, where `Quiet` is the one state that
may stay as it is. The others may really stop: handlers gone, calls returned,
stream read.

### Fairness

- A goroutine that can run does (Go's scheduler): weak fairness per goroutine. A
  handler in its loop therefore keeps reading; a client that blocks `Send` for
  ever is not covered by the liveness results.
- A contended `Lock` is eventually won: strong fairness. `sync.Mutex` hands over
  to a waiter after 1 ms (starvation mode), and `RWMutex` writers queue on such
  a mutex.
- A `select` that finds `ctx.Done()` ready again and again takes it in the end
  (Go picks a ready case at random): strong fairness on `Deadline`.
- The ticker of a heartbeat ticks, and the server finishes a response whose
  handler has returned.
- The browser reads what arrives and reconnects (`EventSource`).
- Deadlines pass: `context.WithTimeout` in `main` and in `CollectWithTimeout`.
- In `Collect` the loopback connection delivers and the server notices that its
  client has gone (net/http reads in the background).
- Nothing forces calls, requests, signals, disconnections, other contexts to
  end, a handler to abort, or the producer's next event.

## 4. Proofs

### The hub: `FanOutProofs`, first part

For any sets of handlers, producers and administrators, any buffer option, any
predicates.

- `TypeCorrect`: `Spec => []TypeOK`; with it, no buffer exceeds its capacity.
- `HubInvariant`: `Spec => []HubInv`. `NoPanic` and `NoOrphan` are not inductive
  as they stand. A send is safe because the channel it is about to send to is
  still registered; that is so because the sender holds the read lock and no
  writer gets past it: `LockInv`. A close is safe because what is registered is
  open (`NoOrphan`), and `NoOrphan` survives the last step of a drain, which
  drops the whole map but closes only the snapshot, because the snapshot
  contains the map (`DrainCoversSubscribers`); that is so because `draining`
  refuses new subscribers, and nothing resets it but the step that also closes
  the hub. `ChanInv` adds that a closed hub is empty, and that a channel does
  not exist before its `Subscribe`.
- `NeverPanics`, `NeverOrphaned`, `DrainCovers` follow.
- `HandlersLeaveClosed`: a handler that has gone has left a closed channel
  (`GoneInv`); the server's proof needs it.

Assumptions: the three kinds of goroutine are disjoint, the default capacity is
positive, the initial hooks are hooks, the bounds are naturals.

### Who gets which message, and the topic: `FanOutProofs`, second part

Under the same assumptions.

- `DeliveryInvariant`: `Spec => []DeliveryInv`. `InOrder` speaks of what has
  arrived and is not inductive: a second send of the same message, or of an
  older one, must be excluded before it happens. `NumberInv` does so (no channel
  holds a message whose turn is still to come, except the current one at
  subscribers the pass is done with), and `PassInv` keeps a pass and the map
  together: whoever was visited is still registered, because a pass that has
  visited somebody holds the read lock. `OfferedInv` says where the message of
  an unfinished pass is already. The writers' steps are settled by one lemma
  (`WriterFindsNoPass`: the one inside the write lock sees no pass under way).
- `AlwaysInOrder`, `FilterAlwaysRespected` follow; `NeverSilentlyLost`, an action
  property, holds because a pass ends only when it has visited the whole map,
  where `OfferedInv` says what became of the message.
- `HubImplementsTopic`: `Spec => ImplementsTopic`. Every action maps to a step of
  the topic or to stuttering: one lemma per group of actions, with `HubInv` for
  closing (who is registered is open, and only those close) and `DeliveryInv` for
  joining and leaving (not in the middle of a message).

### The example server: `ServerProofs`

- `ServerImplementsHub`: `ServerSpec => Spec`. Each step of the server either is
  one of the hub's, with its guard made stronger, or leaves the hub alone; the
  mapping is the identity, and no invariant is needed. `ServerNeverPanics`,
  `ServerNeverOrphaned` and `ServerImplementsTopic` carry the hub's theorems over.
- `ServerInvariant` and `ExitIsGraceful`: a clean exit needs to know what happened
  between the two shutdowns. `ServerInv` says that the listener stays closed,
  that only accepted requests run handlers, and that after an
  `http.Server.Shutdown` without an error nobody is being served; with
  `GoneInv` and `NoOrphan` nobody is registered then, so the drain's snapshot is
  empty and the deadline cannot interrupt it.

Assumptions: `main` is the only administrator, a batch is not larger than the
bound on messages.

### The stream: `StreamProofs`

For any number of heartbeats and registrars, with or without a flusher.

- `TypeCorrect` and `StreamInvariant`: each goroutine stays in its own code, a
  goroutine is in a critical section exactly when it holds the mutex, a ping is
  written only on an open stream, and the stream is closed before the handler
  returns. Hence `UseIsExclusive`, and `NeverUsedAfterFinish`: when the response
  is finished the stream is closed and no heartbeat is past its check.
- `CallbacksAccountedFor`: the ledger `fired \o callbacks \o onDisconnect` is
  always 1, 2, ..., `registered`. It needs `StreamInv` for the step where
  `Close` takes the list (its local copy is empty then), and three lemmas about
  concatenation.

### Reconnection: `ReconnectProofs`

For any number of events and connections, any store and buffer sizes, both
recipes. `TabInvariant`: `Spec => []TabInv`, which has a part per piece of the
truth.

- `StoreInv`: the store is the newest events without a gap. `ConnInv`: at most
  the current connection is up, a handler is registered exactly in certain
  places, and what it has not read it has not sent. `BufInv`: a buffer holds
  wanted events, increasing.
- `WantedInv`: what is on its way, not only what has arrived, was asked for or is
  covered by an unfiltered replay; hence `AlwaysUnwantedOnlyReplayed`.
- `OrderInv` speaks of `got \o wire \o pending \o buf`, all that the tab has and
  will get: in order, and repeated only where a store snapshot overlaps the
  buffer. `OrderedAtMostTwice` alone is not inductive, since the order is decided
  when an event is queued and shows when it is received. An event that is stored
  and not yet broadcast is the one that can still come a second time, so the
  invariant carries it separately. Hence `AlwaysOrderedAtMostTwice`.
- `LossInv`: whatever is behind the handler is settled (received, unwanted, lost
  for a recorded cause) or coming, and every event that is coming finds its
  predecessors settled or ahead of it. Hence `NeverLostUnexplained`: moving
  Last-Event-ID forward skips nothing that is unaccounted for.

Assumptions: the sizes are positive, the bounds naturals, a recipe is a pair of
flags and a number of connections.

### The writer: `WireFormatProofs`

For any text, any number of events and heartbeats, any retry limit.

- `WrittenMeansDelivered`: `Meaning` of `Sent(evts, pings)` is `Delivered(evts)`.
  `Meaning` looks at the whole text and the writer only ever appends, so the
  argument follows the text as it grows. `Says` names everything a text says at
  its end (open frame, sticky ID and retry time, events). `LineAdded` says that a
  longer text has the lines of the shorter one and one more, `NextOpen`,
  `NextValues`, `NextData` and `NextEvents` what that line changes, and from there
  the proof goes up: one field (`FieldSays`), the data fields (`DataSays`), a whole
  frame (`EventSays`), heartbeats, the stream (`SentSays`). A text that is written never begins with a BOM
  (`PlainTexts`), so `WithoutBOM` leaves it alone.
- `LinesFound`: `ForEachLine` yields the `DataLines` of a text. The loop goes symbol
  by symbol; its invariant (`Found`) is that the lines yielded so far are the
  terminated lines of the part walked, and `SecondOfTwo` that an LF after a CR
  moves the end of the last line but changes no line.
- `JoinedLinesDivide`: the lines of joined texts are the lines of each, in order.
  The hypothesis (`Joining`) is that no text but the last ends in a line break and
  the last is not empty; without it the claim is false: a trailing CR merges with
  the LF that joins, a trailing LF becomes a blank line, and an empty last text is
  not a line (section 5, `SendLines("e", "a", "")`).
- `KeyedLinesDivide`: every line of the value gets the key, and the result can be
  joined with others. The key is without CR and LF, as the contract of
  `KeyedLines` says (`event.go:298-300`).

Hypotheses on an event (`Writable`): name and ID are one line and the ID has no
NUL, which `ParseEventID` makes sure of for the ID and the caller for the name; the
retry time is below what `ParseUint` refuses, which any `uint` is. On the data:
none.

### The reader: `ReaderProofs`

For any set of sources, hence any text, any cap, any way to cut the stream.

- `ReaderInvariant`: `Spec => []ReaderInv`. What the parser has not had yet, in
  the buffer, in the probe and on the connection, is one piece of the text
  (`PieceInv`), which begins at the end of a line (`LineInv`) unless the connection
  broke; every line before it fitted the cap (`Fits`). `SplitIs` says what one call
  of the split function takes off such a piece: a lone CR at the end of the buffer
  is held back, so a line never ends between CR and LF.
- `TypeCorrect`: the buffer never exceeds the cap, and a retry time always fits
  `uint` after the conversion. `AlwaysEchoable`: an ID that is reported has
  neither NUL nor line break.
- `MeaningInv`: the parser's frame, ID, retry time and events are `TypeAt`,
  `DataAt`, `IDAt`, `RetryAt` and `EventsUpTo` of the text up to `Reached`, where
  the reader stands. The machine goes line by line, the definitions look at the
  whole text, so the argument is about one step from a line's end to the next
  (`NextEnd`): `FoundLine` says that the token of the split function is the line
  there, `NextOpen`, `NextValues`, `NextData` and `NextEvents` what a line more
  changes in each of the sets of positions, `FieldsAgree` that both sides take a
  line for the same field, with a colon or without, and `AcceptMeaning` that
  `AcceptLine` changes the parser alike. `Reached` differs from `Consumed` where the connection
  broke between CR and LF: the line is complete, and the LF will not come.
- `ReadsAsTheStandardSays` follows: whatever the pieces and wherever the
  connection breaks, `events` is a prefix of what the bytes mean (`EventsPrefix`),
  with the retry times as the platform's `uint` holds them.
- `AlwaysPrefixOfMeaning` and `AlwaysReturnsMeaning` state the two properties of
  the run. These compare with `source.events`, so they have a hypothesis,
  `Truthful`: the events a source names are the ones its bytes mean, as the raw
  streams of `MCReader` define them, or the bytes are a `Sent` of writable events
  and the events what those deliver. With `WrittenMeansDelivered` the theorems
  then go from one end to the other: what is given to `WriteEvent` comes out of
  the reader, however the connection cuts it. `ReturnInv` is
  the part about the caller: `Next` has handed out every event so far, the other
  two functions nothing before they return, and success means that the text was
  used up or `ReadNEvents` had its reason, which reports an error only if it has
  no event.
- `CapAlwaysEnforced`: the limit is exact in both directions. A full buffer without
  a line has no LF in it (`SplitIs`), so what is refused is longer than the cap, or
  as long and not ended by LF. The proof found a case that the first `CapEnforced`, and
  the streams TLC had been given, left out: a connection that breaks inside the
  BOM hands the part of the BOM over as text, and with a cap of one or two that
  part can fill the buffer. The property now counts it as text, and `MCReader`
  has such streams.

Assumptions: a source is a sequence of symbols, a cap and a `uint` of at least
one, a set of functions that read it; the count of `ReadNEvents` is positive.

### The test helpers: `CollectProofs`

For any set of calls: helpers, counts, options, handlers.

- `CollectInvariant`, `TypeCorrect`, and the action property
  `NeverSilentlyTruncated`. It needs that a `CollectN` that reads has not got its
  count yet (`CollectInv`).
- `AlwaysAsConfigured`: for every list of options the handler sees what
  `RequestAsConfigured` reads off their positions. `OptionsMean` is the induction
  along the list.

Assumption: an option is a name with a value, a handler sends a natural number of
events.

### How the induction over data is done

The library's induction theorems take a predicate and cannot be used with the
provers at hand. `Induction` has instead a form for a *set*, `InductionUpTo`,
from the existence of a least counterexample (`WFMin`); the proofs use it with
the set of lengths for which the claim holds. `Recursion` does the same for a
function defined by recursion on a length. That is why the loops the proofs
are about are recursive functions on lengths, and not folds or `SelectSeq`:
`Keep` (the store's filter), `Decimal` (digits to number), `Ascending` (a set of
positions in order), `WalkAll`, `ApplyRequestOptions`. `FlattenSeq` of the
community modules is such a function inside, and is reasoned about as one.

### Only model-checked

- All liveness: fairness and `ENABLED` are beyond the prover.
- Streams that mix `WriteRetry` with events. A `WriteRetry` frame has no data and
  changes only the sticky retry time; the raw texts of the `reader` run contain
  such frames, `Sent` does not.
- Writes that fail or are short: what is on the wire then is `Stream`'s subject,
  and the reader's theorems cover a text that ends anywhere.

## 5. Where documentation and code disagree

Shown by a run:

1. **A drain can wait for ever** (`drain_terminates`). `waitForDrain` polls the
   snapshot (`fanout.go:408`). A handler that unsubscribes during the drain with
   a message in its buffer leaves a length that never returns to zero; with a
   context that never ends, `Shutdown` polls for ever. `fanout.go:338` promises
   to wait for *active* subscribers, `fanout.go:382` to tolerate those that
   left. `StallsOnlyOnAbandoned` shows that, once broadcasting has ceased, this is
   the only way to stall, and `DeadlineHonoured` that a deadline helps. Broadcasts
   that go on during the drain (232-233, 347-349) can fill a buffer again between
   two polls and so hold `Shutdown` up as well, for as long as they last; a model
   with finitely many messages cannot show that.
2. **Reconnection is not lossless** (`reconnect_lossless`). An event broadcast
   after `Replay` has read the store and before the handler subscribes
   (`example/datastar/handlers.go:77-81`) is in neither, and the next event
   moves Last-Event-ID past it. `docs/guides/reconnection-and-retry.md:46` calls
   the pattern lossless. For the recipe of the filter guide, which subscribes
   first, `NoUnexplainedLoss` shows that only the two size limits and a failing
   store lose events; its price is that events may arrive out of order, which
   `OrderedAtMostTwice` excludes for the example.

Met while modelling, without a run of their own:

- A clean drain may not be clean. Broadcasts go on between the last poll and the
  final critical section (`fanout.go:378-383`): `Shutdown` returns nil with a
  message in a buffer, against "consumers caught up" (338-340). A handler that
  is still reading takes it from the closed channel, as the topic says.
- Drops are not recovered by reconnecting. The event after a dropped one
  (`fanout.go:297`) moves Last-Event-ID past it, against `README.md:292-293`;
  the `drop` entries of `lost` that `Connect` keeps are these.
- `Draining` is documented as "true while Shutdown is waiting", with channels
  "closed once the drain completes (or the context is cancelled)"
  (`fanout.go:86-90`). A `Shutdown` whose context ends leaves the flag set and
  the channels open, and `closeLocked` (334) leaves it set in a closed hub. What
  users rely on, that such a hub never accepts again, holds (`ImplementsTopic`).
- `replayMissedEvents` returns true when `Replay` fails
  (`example/datastar/handlers.go:116-121`), so the handler goes on; its comment
  (106-107) says that it returns false when a write failed.
- The example replays unfiltered to a tab that asked for alerts only
  (`example/datastar/handlers.go:116`); compare `README.md:369` and
  `docs/guides/filters-and-fanout.md:112-113`.
- A line that with a lone CR is exactly as long as the cap is refused
  (`sseparse/reader.go:361-364`: the CR is held back in a full buffer), although
  the cap is documented to include the terminator (48-49, 85). `CapEnforced`
  states the exact limit: with LF or CRLF such a line is read.
- `SendLines("e", "a", "")` writes one data line: a trailing line break yields no
  line (`event.go:390`); compare `stream.go:153-154`.
- `example/datastar/main.go:113-115` says that the HTTP server "drains active
  requests (including SSE connections)". `http.Server.Shutdown` waits for the
  handlers of open tabs but nothing ends them: with a tab open it always uses up
  the deadline, and the hub's `Shutdown` starts with a context that is already
  done. `ExitsAfterSignal` and `GracefulExit` say what remains true.
- "64-bit width so full millisecond ranges parse on every platform"
  (`sseparse/reader.go:311-312`): they parse, and `uint(ms)` (314) then keeps the
  low 32 bits on a 32-bit platform; `Expected` states this.
- `CollectWithTimeout` is for "handlers that might hang"
  (`ssetest/collect.go:128`). It returns in time (`TimeoutBounds`), but the
  cleanup's `srv.Close` (170) waits for the handler, so a test of a handler that
  hangs for good does not end: `TestEnds` needs a handler that leaves when its
  client does.
- `CollectN` "reads exactly count events" (`ssetest/collect.go:92`); a stream that
  ends or breaks after the first event yields fewer without an error, as
  `NoSilentTruncation` spells out.

## 6. Not modelled

- Test assertions and list searches (`sseparse/assert.go`, `search.go`): a
  comparison of two values each, with neither state nor time.
- The corpus and its generator (`sseparse/corpus.go`, `gen_corpus.go`): an offline
  program that turns test vectors into Go source.
- Generated pages, the HTML of messages, routes, ports, logging, error texts,
  `Event.String`.
- The number in the "clients connected" message: the race between
  `SubscriberCount` and the broadcast is accepted by a comment
  (`example/datastar/handlers.go:32-36`).
- A disconnect callback that itself calls `Close`, and an ID made by `NewEventID`,
  which does not look at its argument, with a line break in it: `Writable` has only
  IDs that `ParseEventID` accepts.
- Hooks that panic, and an `onDrop` that calls back into the hub, which the
  documentation forbids (`fanout.go:52-55`).
- A client that stops reading without disconnecting: `Send` blocks in the kernel,
  and no code of the library bounds it.

## 7. Plan

Every part of the library that has state is modelled, and every safety property
the runs check is proved; so is what the writer promises. What is left: `WriteRetry`
frames in `Sent`, the count that the subscription hook of the example broadcasts
(section 6), and liveness, should the prover come to support it.
