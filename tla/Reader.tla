------------------------------- MODULE Reader -------------------------------
(***************************************************************************)
(* The event-stream reader (sseparse/reader.go): ReadEvents, ReadNEvents   *)
(* and StreamReader.Next over a connection that delivers the text in       *)
(* pieces of any size, and may fail.                                       *)
(*                                                                         *)
(* bufio.Scanner keeps the bytes that no line has consumed, asks the split *)
(* function for a line and reads on when there is none; its buffer grows   *)
(* to maxLineBytes and no further.                                         *)
(***************************************************************************)
EXTENDS WireFormat

CONSTANTS
    Sources,     \* [bytes, events, cap, apis, mayFail, uint]: a stream, what
                 \* it should mean, maxLineBytes, the functions to read it
                 \* with, whether the connection may break, and how many
                 \* values a uint has (2^32 or 2^64)
    Count,       \* ReadNEvents' count
    ParseLimit   \* the first number ParseUint rejects (2^64)

ASSUME ReaderAssumption ==
    /\ Count \in Nat \ {0} /\ ParseLimit \in Nat
    /\ \A s \in Sources : /\ s.bytes \in Seq(Symbol) /\ s.mayFail \in BOOLEAN
                          /\ s.cap \in Nat \ {0} /\ s.uint \in Nat \ {0}
                          /\ s.apis \subseteq {"ReadEvents", "ReadNEvents", "Next"}

VARIABLES
    source,    \* the stream being read
    api,       \* the function that reads it
    rest,      \* what the connection has still to deliver
    pending,   \* bomStripReader: probed bytes to hand out
    checked,   \* bomStripReader: probed
    probeErr,  \* bomStripReader: error to report after the probed bytes
    buf,       \* the scanner's unconsumed bytes
    err,       \* the scanner's error: "none", "eof", "fail" or "toolong"
    frame,     \* streamParser.frame
    lastID,    \* streamParser.lastID
    retry,     \* streamParser.retry
    events,    \* streamParser.events
    returned,  \* what the caller has been given
    status     \* "reading", "ok" (nil error), "eof" (io.EOF) or "error"

inVars     == <<source, api>>
bomVars    == <<pending, checked, probeErr>>
parserVars == <<frame, lastID, retry, events>>
vars == <<inVars, rest, bomVars, buf, err, parserVars, returned, status>>

NoFrame == [type |-> Empty, data |-> <<>>]

Init ==
    /\ source \in Sources /\ api \in source.apis
    /\ rest = source.bytes
    /\ pending = <<>> /\ checked = FALSE /\ probeErr = "none"
    /\ buf = <<>> /\ err = "none"
    /\ frame = NoFrame /\ lastID = Empty /\ retry = 0 /\ events = <<>>
    /\ returned = <<>> /\ status = "reading"

Lesser(m, n) == IF m < n THEN m ELSE n
-----------------------------------------------------------------------------
(* Lines *)

NoLine == [advance |-> 0, token |-> <<>>]

\* The first terminator in data, 0 if there is none.
FirstEOL(data) == IF \E i \in DOMAIN data : data[i] \in EOL
                    THEN CHOOSE i \in DOMAIN data :
                           data[i] \in EOL /\ \A j \in 1 .. (i - 1) : data[j] \notin EOL
                    ELSE 0

\* A CR at the end of the buffered bytes is taken for a terminator at once.
SplitNoHoldBack(data, atEOF) ==
    LET i == FirstEOL(data)
        crlf == i # 0 /\ i < Len(data) /\ data[i] = CR /\ data[i + 1] = LF
    IN  IF i # 0 THEN [advance |-> IF crlf THEN i + 1 ELSE i, token |-> Take(data, i - 1)]
        ELSE IF atEOF THEN [advance |-> Len(data), token |-> data]
        ELSE NoLine

\* A CR at the end of the buffered bytes waits for one more byte.
SplitSSELines(data, atEOF) ==
    LET i == FirstEOL(data)
        crlf == i # 0 /\ i < Len(data) /\ data[i] = CR /\ data[i + 1] = LF
    IN  IF i # 0 /\ data[i] = CR /\ i = Len(data) /\ ~atEOF THEN NoLine
        ELSE IF i # 0 THEN [advance |-> IF crlf THEN i + 1 ELSE i, token |-> Take(data, i - 1)]
        ELSE IF atEOF THEN [advance |-> Len(data), token |-> data]
        ELSE NoLine

Split == SplitSSELines(buf, err # "none")

NeedsInput == status = "reading" /\ Split.advance = 0 /\ err = "none"
-----------------------------------------------------------------------------
(* The parser *)

\* Mutant: a line without a colon is not a field.
FieldOfWithColon(line) == Head(line)

\* parseSSEField for the names the parser knows: a line without a colon is a
\* name, and has the empty value.
FieldOf(line) ==
    CASE line = <<"data">>  -> "data:"
      [] line = <<"event">> -> "event:"
      [] line = <<"id">>    -> "id:"
      [] line = <<"retry">> -> "retry:"
      [] OTHER              -> Head(line)
ParseValue(line)  == IF Len(line) > 1 /\ line[2] = Space THEN From(line, 2) ELSE From(line, 1)
ParseUintOK(text) == /\ text # <<>> /\ \A i \in DOMAIN text : text[i] \in Digits
                     /\ Decimal(text) < ParseLimit

\* Mutant: an ID is taken as it comes.
AnyID(value) == TRUE

ContainsNoNul(value) == \A i \in DOMAIN value : value[i] # Nul

\* applyField: comments and unknown names change nothing.
ApplyField(line) ==
    LET name == FieldOf(line)  value == ParseValue(line) IN
    /\ frame' = CASE name = "event:" -> [frame EXCEPT !.type = value]
                  [] name = "data:"  -> [frame EXCEPT !.data = Append(@, value)]
                  [] OTHER -> frame
    /\ lastID' = IF name = "id:" /\ ContainsNoNul(value) THEN value ELSE lastID
    /\ retry' = IF name = "retry:" /\ ParseUintOK(value)
                  THEN Decimal(value) % source.uint ELSE retry
    /\ UNCHANGED events

\* The ID belongs to the frame and goes with it.
DispatchFrameResetsID ==
    /\ events' = IF frame.data # <<>>
                   THEN Append(events, [type |-> frame.type, data |-> frame.data,
                                        id |-> lastID, retry |-> retry])
                   ELSE events
    /\ frame' = NoFrame /\ lastID' = Empty
    /\ UNCHANGED retry

DispatchFrame ==
    /\ events' = IF frame.data # <<>>
                   THEN Append(events, [type |-> frame.type, data |-> frame.data,
                                        id |-> lastID, retry |-> retry])
                   ELSE events
    /\ frame' = NoFrame
    /\ UNCHANGED <<lastID, retry>>

AcceptLine(line) ==
    \/ line = <<>> /\ DispatchFrame
    \/ line # <<>> /\ ApplyField(line)
-----------------------------------------------------------------------------
(* The connection *)

\* bomStripReader.probe: io.ReadFull of three bytes.  A complete BOM is
\* dropped, anything else is handed out; an early end is reported later.
Probe ==
    /\ NeedsInput /\ ~checked
    /\ checked' = TRUE
    /\ \E n \in 0 .. Lesser(Len(BOM), Len(rest)) :
         /\ pending' = IF Take(rest, n) = BOM THEN <<>> ELSE Take(rest, n)
         /\ rest' = From(rest, n)
         /\ \/ n = Len(BOM) /\ probeErr' = "none"
            \/ n < Len(BOM) /\ n = Len(rest) /\ probeErr' = "eof"
            \/ n < Len(BOM) /\ source.mayFail /\ probeErr' = "fail"
    /\ UNCHANGED <<inVars, buf, err, parserVars, returned, status>>

\* Mutant: the buffer may grow past the cap by one byte.
RoomForOneMore == source.cap + 1 - Len(buf)

\* Mutant: a line may only be shorter than the cap.
RoomForOneLess == source.cap - 1 - Len(buf)

\* What the buffer, grown to the cap, can still take.
Room == source.cap - Len(buf)

\* A Read that hands out probed bytes.
ReadPending ==
    /\ NeedsInput /\ checked /\ pending # <<>>
    /\ \E k \in 1 .. Lesser(Room, Len(pending)) :
         /\ buf' = buf \o Take(pending, k)
         /\ pending' = From(pending, k)
    /\ UNCHANGED <<inVars, rest, checked, probeErr, err, parserVars, returned, status>>

\* A Read from the connection, of as many bytes as happen to be there; the
\* last bytes may come with io.EOF.
ReadBytes ==
    /\ NeedsInput /\ checked /\ pending = <<>> /\ probeErr = "none"
    /\ \E k \in 1 .. Lesser(Room, Len(rest)) :
         /\ buf' = buf \o Take(rest, k)
         /\ rest' = From(rest, k)
         /\ err' \in IF k = Len(rest) THEN {"none", "eof"} ELSE {"none"}
    /\ UNCHANGED <<inVars, bomVars, parserVars, returned, status>>

\* The end of the stream, or a broken connection.
ReadError ==
    /\ NeedsInput /\ checked /\ pending = <<>> /\ Room > 0
    /\ \/ probeErr # "none" /\ err' = probeErr
       \/ probeErr = "none" /\ rest = <<>> /\ err' = "eof"
       \/ probeErr = "none" /\ source.mayFail /\ err' = "fail"
    /\ UNCHANGED <<inVars, rest, bomVars, buf, parserVars, returned, status>>

\* bufio.ErrTooLong: the buffer is full, may not grow, and holds no line.
TooLong ==
    /\ NeedsInput /\ Room = 0
    /\ err' = "toolong"
    /\ UNCHANGED <<inVars, rest, bomVars, buf, parserVars, returned, status>>
-----------------------------------------------------------------------------
(* The functions *)

\* Scan returns a line, which goes to the parser ...
ScanLine ==
    /\ status = "reading" /\ Split.advance > 0 /\ err # "toolong"
    /\ buf' = From(buf, Split.advance)
    /\ AcceptLine(Split.token)
    /\ UNCHANGED <<inVars, rest, bomVars, err>>

\* ... or reports that there are no more.
ScanStop ==
    /\ status = "reading" /\ err # "none" /\ (Split.advance = 0 \/ err = "toolong")
    /\ UNCHANGED <<inVars, rest, bomVars, buf, err, parserVars>>

\* Everything, or nothing and an error.
ReadEvents ==
    /\ api = "ReadEvents"
    /\ \/ ScanLine /\ UNCHANGED <<returned, status>>
       \/ ScanStop /\ err # "eof" /\ status' = "error" /\ UNCHANGED returned
       \/ ScanStop /\ err = "eof" /\ status' = "ok" /\ returned' = events

\* Mutant: the events before an error are thrown away with it.
ReadNEventsStrict ==
    /\ api = "ReadNEvents"
    /\ \/ /\ ScanLine
          /\ status' = IF Len(events') >= Count THEN "ok" ELSE status
       \/ /\ ScanStop
          /\ status' = IF err # "eof" THEN "error" ELSE "ok"
    /\ returned' = IF status' = "ok" THEN events' ELSE returned

\* The first count events; an error after the first is the end of the stream.
ReadNEvents ==
    /\ api = "ReadNEvents"
    /\ \/ /\ ScanLine
          /\ status' = IF Len(events') >= Count THEN "ok" ELSE status
       \/ /\ ScanStop
          /\ status' = IF err # "eof" /\ events = <<>> THEN "error" ELSE "ok"
    /\ returned' = IF status' = "ok" THEN events' ELSE returned

\* Called again and again: each event as soon as it is dispatched.
NextEvent ==
    /\ api = "Next"
    /\ \/ ScanLine /\ UNCHANGED status
       \/ ScanStop /\ status' = IF err = "eof" THEN "eof" ELSE "error"
    /\ returned' = events'

Next ==
    \/ Probe \/ ReadPending \/ ReadBytes \/ ReadError \/ TooLong
    \/ ReadEvents \/ ReadNEvents \/ NextEvent

Spec == Init /\ [][Next]_vars
-----------------------------------------------------------------------------
Event == [type : Seq(Symbol), data : Seq(Seq(Symbol)), id : Seq(Symbol), retry : Nat]

TypeOK ==
    /\ api \in source.apis
    /\ checked \in BOOLEAN /\ probeErr \in {"none", "eof", "fail"}
    /\ err \in {"none", "eof", "fail", "toolong"}
    /\ status \in {"reading", "ok", "eof", "error"}
    /\ rest \in Seq(Symbol)
    /\ pending \in Seq(Symbol) /\ Len(pending) <= Len(BOM)
    /\ buf \in Seq(Symbol) /\ Len(buf) <= source.cap
    /\ frame \in [type : Seq(Symbol), data : Seq(Seq(Symbol))] /\ lastID \in Seq(Symbol)
    /\ retry \in 0 .. (source.uint - 1)
    /\ events \in Seq(Event) /\ returned \in Seq(Event)

\* The stream's events with the retry time as a uint holds it: exact on a
\* 64-bit platform, reduced to 32 bits on others.
AsUint(evts) == [i \in DOMAIN evts |-> [evts[i] EXCEPT !.retry = @ % source.uint]]
Expected == AsUint(source.events)

\* However the connection cuts the stream into pieces, wherever it breaks, the
\* reader has dispatched the first so many of the stream's events: none is
\* torn, repeated, lost or given another event's ID or retry time.
PrefixOfMeaning == IsPrefix(events, Expected)

\* Every ID the reader reports can be sent back: ParseEventID accepts it as a
\* Last-Event-ID, whatever bytes the stream's id fields held.
IDsEchoable == ParseEventIDOK(lastID) /\ \A i \in DOMAIN events : ParseEventIDOK(events[i].id)

\* What the caller ends up with.  Without an error it is every event of the
\* stream, or the first Count of them for ReadNEvents.  After an error only
\* ReadNEvents reports success, with the events that came before it, and
\* always does so if there are any.
ReturnsMeaning ==
    /\ api = "ReadNEvents" => Len(returned) <= Count
    /\ status \in {"ok", "eof"} =>
         \/ returned = Expected
         \/ /\ api = "ReadNEvents" /\ (Len(returned) = Count \/ err \in {"fail", "toolong"})
            /\ returned # <<>> /\ IsPrefix(returned, Expected)
    /\ status = "error" /\ api = "ReadNEvents" => events = <<>>

\* The stream without its BOM; one that the connection cut short is text.
Text == IF IsPrefix(BOM, source.bytes) /\ probeErr # "fail" THEN From(source.bytes, Len(BOM))
                                                            ELSE source.bytes

\* Where its lines end, the last one with what there is.
Ends == {0, Len(Text)} \cup LineEnds(Text)

\* The size of the line that ends at q, with its terminator.
LineSize(q) == q - Max({p \in Ends : p < q})

\* The cap is exact.  The scan gives up only on a line that is over the cap or,
\* with just that size, does not end in LF or CRLF: so a line of the size of
\* the cap that does is read.  And a stream is read to its end only if every
\* line is within the cap; one of just that size ends in LF or CRLF, or is
\* the last, as a lone CR anywhere else is held back in a full buffer.
CapEnforced ==
    /\ err = "toolong" => \E q \in Ends \ {0} : \/ LineSize(q) > source.cap
                                                \/ LineSize(q) = source.cap /\ Text[q] # LF
    /\ err = "eof" => \A q \in Ends \ {0} : \/ LineSize(q) < source.cap
                                            \/ /\ LineSize(q) = source.cap
                                               /\ (Text[q] = LF \/ q = Len(Text))
-----------------------------------------------------------------------------
(* Why: what is not in the parser's hands yet is one piece of the text, from *)
(* the end of a line on                                                      *)

\* How much of the text the parser has had.
Consumed == Len(Text) - Len(buf) - Len(pending) - Len(rest)

\* Nothing is lost or read twice between connection, probe and buffer.
PieceInv ==
    IF checked THEN Consumed >= 0 /\ buf \o pending \o rest = From(Text, Consumed)
               ELSE buf = <<>> /\ pending = <<>> /\ rest = source.bytes

\* When the probe and the scanner have seen the end of the stream.
EndInv ==
    /\ ~checked => probeErr = "none" /\ err = "none"
    /\ probeErr = "eof" => rest = <<>>
    /\ probeErr = "fail" => err # "eof" /\ Len(source.bytes) - Len(rest) < Len(BOM)
    /\ err = "eof" => pending = <<>> /\ rest = <<>>
    /\ err = "toolong" => Len(buf) = source.cap /\ SplitSSELines(buf, FALSE).advance = 0

\* A line from p to q that the scanner can take.
Fits(p, q) == \/ q - p < source.cap
              \/ q - p = source.cap /\ (Text[q] = LF \/ q = Len(Text))

\* Until the connection breaks and the buffer is used up, perhaps within a
\* CRLF, only whole lines have been consumed, all of which fit.
LineInv ==
    checked /\ (err = "fail" => buf # <<>>) =>
        /\ Consumed \in Ends
        /\ \A q \in Ends : 0 < q /\ q <= Consumed => \E p \in Ends : p < q /\ Fits(p, q)

\* How far the parser has come in the text, a CRLF of which the connection
\* delivered only the CR included.
Reached ==
    IF Consumed \in 1 .. (Len(Text) - 1) /\ Text[Consumed] = CR /\ Text[Consumed + 1] = LF
      THEN Consumed + 1 ELSE Consumed

\* What the parser holds is what the text up to there means.  After a line
\* without a terminator, the last one, only the events matter.
MeaningInv ==
    IF checked
      THEN /\ events = AsUint(EventsUpTo(Text, Reached, ParseLimit))
           /\ Reached \in {0} \cup LineEnds(Text) =>
                /\ frame = [type |-> TypeAt(Text, Reached), data |-> DataAt(Text, Reached)]
                /\ lastID = IDAt(Text, Reached)
                /\ retry = RetryAt(Text, Reached, ParseLimit) % source.uint
      ELSE frame = NoFrame /\ lastID = Empty /\ retry = 0 /\ events = <<>>

\* What the caller has: Next's events as they come, otherwise nothing before
\* the function returns.  Success means the whole text, or, for ReadNEvents,
\* its count or an error after the first event.
ReturnInv ==
    /\ api = "Next" => returned = events
    /\ api # "Next" /\ status # "ok" => returned = <<>>
    /\ api = "ReadNEvents" => Len(events) <= Count /\ (status = "reading" => Len(events) < Count)
    /\ status = "error" /\ api = "ReadNEvents" => events = <<>>
    /\ status \in {"ok", "eof"} =>
         /\ returned = events
         /\ \/ err = "eof" /\ Consumed = Len(Text)
            \/ /\ api = "ReadNEvents" /\ events # <<>>
               /\ Len(events) = Count \/ err \in {"fail", "toolong"}

ReaderInv ==
    TypeOK /\ IDsEchoable /\ PieceInv /\ EndInv /\ LineInv /\ MeaningInv /\ ReturnInv
=============================================================================
