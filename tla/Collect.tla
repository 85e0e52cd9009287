------------------------------- MODULE Collect -------------------------------
(***************************************************************************)
(* The test helpers of ssetest: a test calls a Collect function, which     *)
(* serves the handler under test, sends it one request, reads the events   *)
(* of the response, and leaves closing the server to the test's cleanup.   *)
(*                                                                         *)
(* The handler is the user's: a record of how many events it sends, if it  *)
(* returns after them, if it watches its request's context, and if more    *)
(* events keep coming, so that a failing Send ends it.  net/http is        *)
(* external: Do returns when the response's header arrives, which a Stream *)
(* writes with its first event; closing an unread body, or the end of the  *)
(* request's context, breaks the connection, and then the handler's        *)
(* context ends and its writes fail, sooner or later; httptest's           *)
(* Server.Close waits for running handlers.                                *)
(***************************************************************************)
EXTENDS Integers, Sequences, SequencesExt

CONSTANTS
    Cases     \* [helper, count, opts, handler]: the calls to consider

Helpers == {"Collect", "CollectWithRequest", "CollectPost", "CollectN", "CollectWithTimeout"}
OptionNames == {"path", "lastID", "header", "type"}
NoValue == "none"      \* no header, the zero EventID, an unset string
Invalid == "invalid"   \* a value with a line break or a NUL, a path that does not parse
Root    == "/"

ASSUME CasesAssumption ==
    \A c \in Cases :
        /\ c.helper \in Helpers /\ c.count \in Int
        /\ c.opts \in Seq(OptionNames \X STRING)
        /\ c.handler.events \in Nat
        /\ {c.handler.returns, c.handler.watches, c.handler.pumped} \subseteq BOOLEAN

\* Handlers of the examples.  HTMX: a progress bar, 0 to 100 in steps of 10,
\* that looks at its context before and after each event.  Minimal: the
\* connected event and then n broadcasts, until the context is done or the
\* broadcaster closes the channel.
HtmxHandler ==
    [events |-> 100 \div 10 + 1, returns |-> TRUE, watches |-> TRUE, pumped |-> FALSE]
MinimalHandler(n, closed) ==
    [events |-> 1 + n, returns |-> closed, watches |-> TRUE, pumped |-> FALSE]

VARIABLES
    case,      \* the call
    test,      \* the test: "call", "do", "read", "close", "cancel", "cleanup", "ended"
    result,    \* of the call: "none" yet, "nil", "events" or "fatal"
    failed,    \* the test is marked as failed
    got,       \* events read
    ctxDone,   \* the context of CollectWithTimeout
    broken,    \* the connection is closed by the client
    request,   \* the request as the handler sees it: [path, type, lastID]
    handler,   \* the handler: "none", "running", "returned" or "aborted"
    calls,     \* events it has sent, or tried to
    sent,      \* those that went out on the connection
    flushed,   \* the response's header has gone out
    eof,       \* the response has gone out to its end
    reqDone    \* the handler's request context is done

testVars    == <<test, result, failed, got, ctxDone>>
handlerVars == <<handler, calls, sent, flushed, eof, reqDone>>
vars == <<case, testVars, broken, request, handlerVars>>

NoRequest == [path |-> Root, type |-> NoValue, lastID |-> NoValue]

Init ==
    /\ case \in Cases
    /\ test = "call" /\ result = "none" /\ failed = FALSE /\ got = 0
    /\ ctxDone = FALSE /\ broken = FALSE /\ request = NoRequest
    /\ handler = "none" /\ calls = 0 /\ sent = 0
    /\ flushed = FALSE /\ eof = FALSE /\ reqDone = FALSE
-----------------------------------------------------------------------------
(* options.go: an option is <<name, value>>; headers are kept in order *)

\* Mutant: WithLastEventID adds a value instead of replacing what is there.
AddLastEventID(cfg, id) == [cfg EXCEPT !.lastID = Append(@, id)]

\* The zero ID is no header; any other replaces what is there.
WithLastEventID(cfg, id) == IF id = NoValue THEN cfg ELSE [cfg EXCEPT !.lastID = <<id>>]

\* WithHeader for the two headers that are followed.
WithHeader(cfg, key, value) == [cfg EXCEPT ![key] = Append(@, value)]

ApplyOption(cfg, opt) ==
    CASE opt[1] = "path"   -> [cfg EXCEPT !.path = opt[2]]
      [] opt[1] = "lastID" -> WithLastEventID(cfg, opt[2])
      [] opt[1] = "header" -> WithHeader(cfg, "lastID", opt[2])
      [] opt[1] = "type"   -> WithHeader(cfg, "type", opt[2])

ApplyRequestOptions(opts) ==
    LET config[n \in 0 .. Len(opts)] ==
            IF n = 0 THEN [path |-> NoValue, type |-> <<>>, lastID |-> <<>>]
                     ELSE ApplyOption(config[n - 1], opts[n])
    IN  config[Len(opts)]

TargetPath(cfg) == IF cfg.path = NoValue THEN Root ELSE cfg.path

\* CollectPost is CollectWithRequest with a JSON body.
ContentType == IF case.helper = "CollectPost" THEN <<"json">> ELSE <<>>

\* Header.Get: the first value.
Get(values) == IF values = <<>> THEN NoValue ELSE Head(values)

\* ParseEventID refuses line breaks and NUL; LastEventIDFromRequest then
\* reports no ID.
ParseEventID(value) == IF value = Invalid THEN NoValue ELSE value

\* The request that reaches the handler: the content type is set first, the
\* options' headers are added to it.
Request(cfg) ==
    [path   |-> TargetPath(cfg),
     type   |-> Get(ContentType \o cfg.type),
     lastID |-> ParseEventID(Get(cfg.lastID))]

\* A request to an invalid path cannot be built, and the client refuses to send
\* a header that holds an invalid value.
Sendable(cfg) == Invalid \notin {cfg.path} \cup ToSet(cfg.type) \cup ToSet(cfg.lastID)
-----------------------------------------------------------------------------
(* The test's goroutine *)

Config == ApplyRequestOptions(case.opts)

Timed == case.helper = "CollectWithTimeout"

\* CollectN with nothing to collect starts no server.
CollectNothing ==
    /\ test = "call" /\ case.helper = "CollectN" /\ case.count <= 0
    /\ test' = "cleanup" /\ result' = "nil"
    /\ UNCHANGED <<case, failed, got, ctxDone, broken, request, handlerVars>>

\* Mutant: a count of zero is not taken for nothing to collect.
DoRequestForZero ==
    /\ test = "call" /\ ~(case.helper = "CollectN" /\ case.count < 0)
    /\ test' = "do"
    /\ UNCHANGED <<case, result, failed, got, ctxDone, broken, request, handlerVars>>

\* doRequest: start the server, register its Close, send the request.
DoRequest ==
    /\ test = "call" /\ ~(case.helper = "CollectN" /\ case.count <= 0)
    /\ test' = "do"
    /\ UNCHANGED <<case, result, failed, got, ctxDone, broken, request, handlerVars>>

\* Fatalf: the deferred calls run and the test function is left.
Fatal(next) == test' = next /\ result' = "fatal" /\ failed' = TRUE

\* Mutant: the request is built without the context.
DoFailsNotInTime ==
    /\ test = "do"
    /\ \/ ~Sendable(Config) /\ handler = "none"
       \/ handler = "aborted" /\ ~flushed
    /\ Fatal("cancel")
    /\ broken' = TRUE
    /\ UNCHANGED <<case, got, ctxDone, request, handlerVars>>

\* NewRequest or Do fails, because the request cannot be built or sent, its context is done or the
\* handler aborts before the header: there is no body to close.
DoFails ==
    /\ test = "do"
    /\ \/ ~Sendable(Config) /\ handler = "none"
       \/ ctxDone
       \/ handler = "aborted" /\ ~flushed
    /\ Fatal("cancel")
    /\ broken' = TRUE
    /\ UNCHANGED <<case, got, ctxDone, request, handlerVars>>

DoReturns ==
    /\ test = "do" /\ flushed
    /\ test' = "read"
    /\ UNCHANGED <<case, result, failed, got, ctxDone, broken, request, handlerVars>>

\* ReadNEvents returns with its count-th event; CollectWithTimeout's count is
\* out of reach.
Enough(n) == case.helper = "CollectN" /\ n >= case.count

Finish(r) == test' = "close" /\ result' = r

\* The reader dispatches an event.
ReadEvent ==
    /\ test = "read" /\ got < sent
    /\ got' = got + 1
    /\ IF Enough(got + 1) THEN Finish("events") ELSE UNCHANGED <<test, result>>
    /\ UNCHANGED <<case, failed, ctxDone, broken, request, handlerVars>>

\* The stream ends.
ReadEOF ==
    /\ test = "read" /\ eof /\ got = sent
    /\ Finish("events")
    /\ UNCHANGED <<case, failed, got, ctxDone, broken, request, handlerVars>>

\* Mutant: every helper takes a read error for the end of the stream.
ToleratesAlways == TRUE

\* ReadNEvents takes an error after the first event for the end of the
\* stream; ReadEvents never does.
Tolerates == case.helper \in {"CollectN", "CollectWithTimeout"} /\ got > 0

\* Reading fails: the context is done, or the handler was cut off.
ReadError ==
    /\ test = "read" /\ (ctxDone \/ (handler = "aborted" /\ got = sent))
    /\ IF Tolerates THEN Finish("events") /\ UNCHANGED failed
                    ELSE Fatal("close")
    /\ UNCHANGED <<case, got, ctxDone, broken, request, handlerVars>>

\* Mutant: nobody closes the body.
BodyLeftOpen ==
    /\ test = "close"
    /\ test' = "cancel"
    /\ UNCHANGED <<case, result, failed, got, ctxDone, broken, request, handlerVars>>

\* The deferred closeBody; an error is reported with Errorf.
CloseBody ==
    /\ test = "close"
    /\ test' = "cancel"
    /\ broken' = TRUE
    /\ failed' \in {failed, TRUE}
    /\ UNCHANGED <<case, result, got, ctxDone, request, handlerVars>>

\* The deferred cancel of CollectWithTimeout, and back in the test.
Cancel ==
    /\ test = "cancel"
    /\ test' = "cleanup"
    /\ ctxDone' = Timed /\ broken' = (broken \/ Timed)
    /\ UNCHANGED <<case, result, failed, got, request, handlerVars>>

\* t.Cleanup(srv.Close)
Cleanup ==
    /\ test = "cleanup" /\ handler # "running"
    /\ test' = "ended"
    /\ UNCHANGED <<case, result, failed, got, ctxDone, broken, request, handlerVars>>

\* The timeout passes, and ends a request that is under way.
Timeout ==
    /\ Timed /\ ~ctxDone /\ test \in {"do", "read", "close"}
    /\ ctxDone' = TRUE /\ broken' = TRUE
    /\ UNCHANGED <<case, test, result, failed, got, request, handlerVars>>
-----------------------------------------------------------------------------
(* The handler's goroutine *)

\* The server serves the request, perhaps only when the client has given up.
ServeHTTP ==
    /\ test \in {"do", "cancel", "cleanup"} /\ result # "nil"
    /\ handler = "none" /\ Sendable(Config)
    /\ handler' = "running"
    /\ request' = Request(Config)
    /\ UNCHANGED <<case, testVars, broken, calls, sent, flushed, eof, reqDone>>

\* Mutant: a frame that went out in part is sent again.
SendTwice ==
    /\ handler = "running" /\ calls < case.handler.events
    /\ calls' = calls + 1
    /\ sent' = sent + 2 /\ flushed' = TRUE
    /\ UNCHANGED <<case, testVars, broken, request, handler, eof, reqDone>>

\* The user's code flushes the header by itself; a Stream does not.
Flush ==
    /\ handler = "running" /\ ~broken /\ ~flushed
    /\ flushed' = TRUE
    /\ UNCHANGED <<case, testVars, broken, request, handler, calls, sent, eof, reqDone>>

\* Stream.Send: the event goes out, with the header before the first; on a
\* broken connection it may seem to.
SendEvent ==
    /\ handler = "running" /\ calls < case.handler.events
    /\ calls' = calls + 1
    /\ IF broken THEN UNCHANGED <<sent, flushed>>
                 ELSE sent' = sent + 1 /\ flushed' = TRUE
    /\ UNCHANGED <<case, testVars, broken, request, handler, eof, reqDone>>

Return ==
    /\ handler' = "returned"
    /\ eof' = ~broken /\ flushed' = (flushed \/ ~broken)
    /\ UNCHANGED <<case, testVars, broken, request, calls, sent, reqDone>>

SendFails ==
    /\ handler = "running" /\ broken
    /\ calls < case.handler.events \/ case.handler.pumped
    /\ Return

AllSent ==
    /\ handler = "running" /\ calls = case.handler.events /\ case.handler.returns
    /\ Return

\* case <-ctx.Done(): return
SeesContext ==
    /\ handler = "running" /\ reqDone /\ case.handler.watches
    /\ Return

\* The handler panics, or writes less than it has declared.
Abort ==
    /\ handler = "running"
    /\ handler' = "aborted"
    /\ UNCHANGED <<case, testVars, broken, request, calls, sent, flushed, eof, reqDone>>

\* The server notices that the client has gone.
ConnectionLost ==
    /\ handler = "running" /\ broken /\ ~reqDone
    /\ reqDone' = TRUE
    /\ UNCHANGED <<case, testVars, broken, request, handler, calls, sent, flushed, eof>>

TestStep ==
    \/ CollectNothing \/ DoRequest \/ DoFails \/ DoReturns
    \/ ReadEvent \/ ReadEOF \/ ReadError \/ CloseBody \/ Cancel \/ Cleanup

HandlerStep == SendEvent \/ SendFails \/ AllSent \/ SeesContext

Next == TestStep \/ HandlerStep \/ ServeHTTP \/ ConnectionLost \/ Timeout \/ Flush \/ Abort

Spec == Init /\ [][Next]_vars

\* Goroutines run, the loopback connection delivers, the timeout passes.
Fairness ==
    /\ WF_vars(TestStep) /\ WF_vars(HandlerStep) /\ WF_vars(ServeHTTP)
    /\ WF_vars(ConnectionLost) /\ WF_vars(Timeout)

FairSpec == Spec /\ Fairness
-----------------------------------------------------------------------------
TypeOK ==
    /\ test \in {"call", "do", "read", "close", "cancel", "cleanup", "ended"}
    /\ result \in {"none", "nil", "events", "fatal"}
    /\ handler \in {"none", "running", "returned", "aborted"}
    /\ got \in 0 .. sent /\ sent \in 0 .. calls /\ calls \in 0 .. case.handler.events
    /\ failed \in BOOLEAN /\ ctxDone \in BOOLEAN /\ broken \in BOOLEAN
    /\ flushed \in BOOLEAN /\ eof \in BOOLEAN /\ reqDone \in BOOLEAN

\* Why no stream is cut short.  A call returns only when it stops reading,
\* and a CollectN that reads has not got its count yet: a count of zero or
\* less never gets that far, and its count-th event ends it.
CollectInv ==
    /\ TypeOK
    /\ case \in Cases
    /\ test \in {"call", "do", "read"} => result = "none"
    /\ test \in {"call", "do"} => got = 0
    /\ test \in {"do", "read"} /\ case.helper = "CollectN" => got < case.count

\* A helper hands back a part of a stream only if it was asked to: CollectN
\* has its count, or the stream was cut after at least one event and the
\* helper is one that puts up with that.  Collect and its variants return a
\* stream that came to its end, whole.
NoSilentTruncation ==
    [][test = "read" /\ result' = "events" =>
        \/ eof /\ got' = sent
        \/ case.helper = "CollectN" /\ got' = case.count
        \/ /\ case.helper \in {"CollectN", "CollectWithTimeout"} /\ got' > 0
           /\ ctxDone \/ handler = "aborted"]_vars

\* Where in the call option name is given, the value at a place, and the
\* value at the first of several places.
Given(name) == {i \in DOMAIN case.opts : case.opts[i][1] = name}
Value(i)    == case.opts[i][2]
FirstOf(S)  == IF S = {} THEN NoValue ELSE Value(Min(S))

\* What the options mean, whatever their order: the handler sees the last
\* Last-Event-ID given with WithLastEventID, if one was, else the first one
\* given as a plain header; the helper's own content type before the test's;
\* the last path.
RequestAsConfigured ==
    handler # "none" =>
        LET ids == {i \in Given("lastID") : Value(i) # NoValue}
            paths == Given("path")
        IN  /\ request.lastID = IF ids # {} THEN Value(Max(ids)) ELSE FirstOf(Given("header"))
            /\ request.type = IF case.helper = "CollectPost" THEN "json" ELSE FirstOf(Given("type"))
            /\ request.path = IF paths = {} \/ Value(Max(paths)) = NoValue THEN Root
                                                                       ELSE Value(Max(paths))

\* Whether the response gives the helper a reason to stop reading.
Answers ==
    \/ Timed \/ case.handler.returns
    \/ case.helper = "CollectN" /\ case.handler.events >= case.count

\* Whether the handler ends once the client has gone.
Leaves == case.handler.returns \/ case.handler.watches \/ case.handler.pumped

\* A test whose handler answers, and leaves when its client does, comes to its
\* end, the closing of the server included: the body is closed before.  The
\* handler may keep the stream open, send too little, abort, or be reached by
\* a request that times out.
TestEnds == Answers /\ Leaves ~> test = "ended"

\* CollectWithTimeout itself returns or fails the test whatever the handler
\* does, also if it sends nothing and never looks at its context.
TimeoutBounds == Timed ~> test \in {"cleanup", "ended"}
=============================================================================
