----------------------------- MODULE WireFormat -----------------------------
(***************************************************************************)
(* The event-stream format: what event.go writes, as operators, and what a *)
(* stream means according to the standard the code cites (WHATWG HTML      *)
(* 9.2.5 and 9.2.6), as definitions that read the whole text at once.      *)
(*                                                                         *)
(* Text is a sequence of symbols.  A symbol is a byte that matters (CR,    *)
(* LF, space, NUL, a byte of the BOM), a field name with or without its    *)
(* colon, or a stretch of other text ("x", a digit).                       *)
(***************************************************************************)
EXTENDS Integers, Sequences, SequencesExt

CR == "CR"
LF == "LF"
Space == " "
Nul == "NUL"
BOM == <<"b1", "b2", "b3">>
Digits == {"0", "8", "9"}
FieldNames == {"data:", "event:", "id:", "retry:"}

\* A field name without its colon.
Bare == [n \in FieldNames |-> CASE n = "data:" -> "data" [] n = "event:" -> "event"
                               [] n = "id:" -> "id" [] n = "retry:" -> "retry"]

EOL == {CR, LF}

\* What a text is made of: the above, and any other text.
Symbol == EOL \cup {Space, Nul, ":", "x"} \cup ToSet(BOM) \cup Digits \cup FieldNames \cup STRING

\* No value for an optional field; the empty text.
Empty == <<>>

\* The first k symbols of a text, and the others.
Take(s, k) == SubSeq(s, 1, k)
From(s, k) == SubSeq(s, k + 1, Len(s))

\* The number that a sequence of digits denotes; none is zero.
Decimal(text) ==
    LET value == [d \in Digits |-> CASE d = "0" -> 0 [] d = "8" -> 8 [] d = "9" -> 9]
        number[k \in 0 .. Len(text)] ==
            IF k = 0 THEN 0 ELSE 10 * number[k - 1] + value[text[k]]
    IN  number[Len(text)]
-----------------------------------------------------------------------------
(* event.go *)

\* CR and LF are two line breaks: a CRLF yields an empty line.
WalkNoCRLF(st, c) ==
    IF c \in EOL
      THEN [lines |-> Append(st.lines, st.line), line |-> <<>>, cr |-> FALSE]
      ELSE [st EXCEPT !.line = Append(@, c)]

\* One step of forEachLine: the lines yielded, the text since the last line
\* break, and whether that break was a CR whose LF may follow.
Walk(st, c) ==
    IF c = LF /\ st.cr
      THEN [st EXCEPT !.cr = FALSE]
    ELSE IF c \in EOL
      THEN [lines |-> Append(st.lines, st.line), line |-> <<>>, cr |-> c = CR]
    ELSE [st EXCEPT !.line = Append(@, c), !.cr = FALSE]

\* The loop of forEachLine.
WalkAll(s) ==
    LET walk[i \in 0 .. Len(s)] ==
            IF i = 0 THEN [lines |-> <<>>, line |-> <<>>, cr |-> FALSE] ELSE Walk(walk[i - 1], s[i])
    IN  walk[Len(s)]

\* A trailing terminator yields no empty line; the empty text yields one.
ForEachLine(s) ==
    IF s = Empty THEN <<Empty>>
    ELSE IF WalkAll(s).line # <<>> THEN Append(WalkAll(s).lines, WalkAll(s).line)
    ELSE WalkAll(s).lines

JoinLines(lines) ==
    FlattenSeq([i \in DOMAIN lines |-> IF i = 1 THEN lines[i] ELSE <<LF>> \o lines[i]])

\* splitLines is forEachLine, collected.
SplitLines(s) == ForEachLine(s)

KeyedLines(key, value) ==
    IF value = Empty THEN Empty
    ELSE LET lines == SplitLines(value)
         IN  JoinLines([i \in DOMAIN lines |-> <<key, Space>> \o lines[i]])

\* Mutant: only line feeds are refused.
ParseEventIDAllowsCR(id) == \A i \in DOMAIN id : id[i] \notin {LF, Nul}

\* What ParseEventID lets pass; NewEventID and WriteEvent do not look.
ParseEventIDOK(id) == \A i \in DOMAIN id : id[i] \notin {CR, LF, Nul}

Field(name, value) == <<name, Space>> \o value \o <<LF>>

OptionalField(name, value) == IF value = Empty THEN <<>> ELSE Field(name, value)

\* A data field for each line.
DataFields(lines) == FlattenSeq([i \in DOMAIN lines |-> Field("data:", lines[i])])

\* The frame of an event: the name, the data lines, the ID, the retry time (as
\* its digits; <<>> is zero) and a blank line, in a single Write.
WriteEvent(evt) ==
    OptionalField("event:", evt.event)
        \o DataFields(ForEachLine(evt.data))
        \o OptionalField("id:", evt.id)
        \o OptionalField("retry:", evt.retry)
        \o <<LF>>

WriteHeartbeat == <<":", Space, "x", LF, LF>>

WriteRetry(ms) == Field("retry:", ms) \o <<LF>>
-----------------------------------------------------------------------------
(* What a text means *)

\* The positions where a line terminator ends: CRLF is one terminator.
LineEnds(s) == {i \in DOMAIN s : \/ s[i] = LF
                                 \/ s[i] = CR /\ ~(i < Len(s) /\ s[i + 1] = LF)}

\* The text between positions p and q without the terminator that ends at q.
LineBetween(s, p, q) ==
    IF q > p + 1 /\ s[q] = LF /\ s[q - 1] = CR THEN SubSeq(s, p + 1, q - 2)
                                               ELSE SubSeq(s, p + 1, q - 1)

\* The line that ends at q: it begins where the one before it ends.
LineAt(s, q) == LineBetween(s, Max({0} \cup {p \in LineEnds(s) : p < q}), q)

\* The members of S from 1 to n, in increasing order.
Ascending(S, n) ==
    LET F[k \in 0 .. n] == IF k = 0 THEN <<>>
                           ELSE IF k \in S THEN Append(F[k - 1], k) ELSE F[k - 1]
    IN  F[n]

\* The terminated lines of a text, and what follows the last of them.
TerminatedLines(s) ==
    LET ends == Ascending(LineEnds(s), Len(s))
    IN  [k \in DOMAIN ends |-> LineAt(s, ends[k])]

Unterminated(s) ==
    SubSeq(s, 1 + (IF LineEnds(s) = {} THEN 0 ELSE Max(LineEnds(s))), Len(s))

\* The lines of an event's data.
DataLines(s) ==
    IF s = Empty THEN <<Empty>>
    ELSE TerminatedLines(s) \o (IF Unterminated(s) = <<>> THEN <<>> ELSE <<Unterminated(s)>>)

\* A field's value: what follows the colon, without one leading space.
ValueOf(line) == IF Len(line) > 1 /\ line[2] = Space THEN SubSeq(line, 3, Len(line))
                                                     ELSE Tail(line)

\* A line without a colon is a field name with the empty value.
IsField(line, name) == (line # <<>> /\ Head(line) = name) \/ line = <<Bare[name]>>

ValidID(line) == IsField(line, "id:") /\ Nul \notin ToSet(ValueOf(line))

\* The standard sets no limit; one is that of the code.
ValidRetry(line, limit) ==
    /\ IsField(line, "retry:")
    /\ ValueOf(line) # <<>> /\ ToSet(ValueOf(line)) \subseteq Digits
    /\ Decimal(ValueOf(line)) < limit

\* A line is known by the position where it ends.  Those up to n, and those of
\* the frame that is open at n: the ones after the last blank line.
LinesUpTo(s, n) == {q \in LineEnds(s) : q <= n}
OpenAt(s, n) == {q \in LinesUpTo(s, n) : \A r \in LinesUpTo(s, n) : r >= q => LineAt(s, r) # <<>>}

\* The value of the last of the lines in Q.
LastValue(s, Q) == IF Q = {} THEN Empty ELSE ValueOf(LineAt(s, Max(Q)))

\* What the lines up to n have set: type and data come from the open frame, ID
\* and retry time from all of them.
TypeAt(s, n) == LastValue(s, {q \in OpenAt(s, n) : IsField(LineAt(s, q), "event:")})
DataAt(s, n) ==
    LET own == Ascending({q \in OpenAt(s, n) : IsField(LineAt(s, q), "data:")}, n)
    IN  [i \in DOMAIN own |-> ValueOf(LineAt(s, own[i]))]
IDAt(s, n) == LastValue(s, {q \in LinesUpTo(s, n) : ValidID(LineAt(s, q))})
RetryAt(s, n, limit) ==
    Decimal(LastValue(s, {q \in LinesUpTo(s, n) : ValidRetry(LineAt(s, q), limit)}))

\* The blank lines that end a frame with data.
Dispatching(s) == {q \in LineEnds(s) : LineAt(s, q) = <<>> /\ DataAt(s, q - 1) # <<>>}

\* The events of the frames that end up to n.
EventsUpTo(s, n, limit) ==
    LET ends == Ascending(Dispatching(s), n)
    IN  [k \in DOMAIN ends |-> [type  |-> TypeAt(s, ends[k] - 1),
                                data  |-> DataAt(s, ends[k] - 1),
                                id    |-> IDAt(s, ends[k] - 1),
                                retry |-> RetryAt(s, ends[k] - 1, limit)]]

\* The events of a stream.  One leading BOM is not part of the text.
WithoutBOM(stream) == IF IsPrefix(BOM, stream) THEN SubSeq(stream, 4, Len(stream)) ELSE stream
Meaning(stream, limit) ==
    EventsUpTo(WithoutBOM(stream), Len(WithoutBOM(stream)), limit)

\* The value that the first k of them leave: the last that is not empty.
Latest(values, k) ==
    LET S == {i \in 1 .. k : values[i] # Empty}
    IN  IF S = {} THEN Empty ELSE values[Max(S)]

\* What the events written by WriteEvent mean: each arrives, its data divided
\* at every line break, with the latest ID and retry time at that point.
Delivered(evts) ==
    [k \in DOMAIN evts |->
        [type  |-> evts[k].event,
         data  |-> DataLines(evts[k].data),
         id    |-> Latest([i \in DOMAIN evts |-> evts[i].id], k),
         retry |-> Decimal(Latest([i \in DOMAIN evts |-> evts[i].retry], k))]]

\* Some heartbeats, and a stream with pings[k] of them after the k-th event.
Heartbeats(n) == FlattenSeq([i \in 1 .. n |-> WriteHeartbeat])

Sent(evts, pings) ==
    Heartbeats(pings[0])
        \o FlattenSeq([k \in DOMAIN evts |-> WriteEvent(evts[k]) \o Heartbeats(pings[k])])

\* Events whose fields are one line each, as ParseEventID makes sure of for the
\* ID and a uint for the retry time; for the name that is up to the caller.
Writable(limit) ==
    {e \in [event : Seq(Symbol), data : Seq(Symbol), id : Seq(Symbol), retry : Seq(Digits)] :
       /\ \A i \in DOMAIN e.event : e.event[i] \notin EOL
       /\ ParseEventIDOK(e.id) /\ Decimal(e.retry) < limit}
=============================================================================
