---------------------------- MODULE ReaderProofs ----------------------------
(***************************************************************************)
(* Proofs about the event-stream reader, for any streams, cut into pieces  *)
(* in any way, any cap on the length of a line and any count.              *)
(***************************************************************************)
EXTENDS Reader, WireFormatProofs

-----------------------------------------------------------------------------
(* Lines.                                                                   *)

\* FirstEOL finds the first terminator, if there is one.
LEMMA FirstEOLIs ==
  ASSUME NEW data \in Seq(Symbol)
  PROVE  /\ FirstEOL(data) \in 0 .. Len(data)
         /\ FirstEOL(data) = 0 => \A i \in 1 .. Len(data) : data[i] \notin EOL
         /\ FirstEOL(data) # 0 => /\ data[FirstEOL(data)] \in EOL
                                  /\ \A j \in 1 .. (FirstEOL(data) - 1) : data[j] \notin EOL
<1>0. Len(data) \in Nat /\ DOMAIN data = 1 .. Len(data)
  OBVIOUS
<1> DEFINE Hits == {i \in DOMAIN data : data[i] \in EOL}
<1>1. CASE Hits = {}
  <2>1. FirstEOL(data) = 0
    BY <1>1 DEF FirstEOL
  <2> QED BY <1>0, <1>1, <2>1
<1>2. CASE Hits # {}
  <2>1. PICK n \in Hits : \A m \in Hits : n <= m
    <3>1. Hits \subseteq Nat
      BY <1>0
    <3> HIDE DEF Hits
    <3> QED BY <1>2, <3>1, LeastNumber
  <2>2. n \in DOMAIN data /\ data[n] \in EOL /\ \A j \in 1 .. (n - 1) : data[j] \notin EOL
    <3>1. ASSUME NEW j \in 1 .. (n - 1) PROVE data[j] \notin EOL
      <4>1. j \in DOMAIN data /\ ~ (n <= j)
        BY <1>0, <2>1
      <4> QED BY <2>1, <4>1
    <3> QED BY <2>1, <3>1
  <2>3. /\ FirstEOL(data) \in DOMAIN data /\ data[FirstEOL(data)] \in EOL
        /\ \A j \in 1 .. (FirstEOL(data) - 1) : data[j] \notin EOL
    BY <2>2 DEF FirstEOL
  <2> QED BY <1>0, <2>3
<1> QED BY <1>1, <1>2

\* What the split function returns: no line, or a line that is a part of the
\* data without a terminator.  The line ends the data, or it ends with a
\* terminator, and a CR is one only if the next byte is not an LF or if there
\* will be none.
LEMMA SplitIs ==
  ASSUME NEW data \in Seq(Symbol), NEW atEOF \in BOOLEAN,
         NEW a, a = SplitSSELines(data, atEOF).advance,
         NEW token, token = SplitSSELines(data, atEOF).token
  PROVE  /\ a \in 0 .. Len(data)
         /\ token \in Seq(Symbol) /\ \A i \in 1 .. Len(token) : token[i] \notin EOL
         /\ a > 0 => \/ atEOF /\ a = Len(data)
                     \/ data[a] = LF
                     \/ data[a] = CR /\ a < Len(data) /\ data[a + 1] # LF
         /\ a = 0 /\ ~atEOF => /\ \A i \in 1 .. (Len(data) - 1) : data[i] \notin EOL
                               /\ \A i \in 1 .. Len(data) : data[i] # LF
<1> DEFINE i == FirstEOL(data)
           crlf == i # 0 /\ i < Len(data) /\ data[i] = CR /\ data[i + 1] = LF
<1>0. Len(data) \in Nat /\ DOMAIN data = 1 .. Len(data)
  OBVIOUS
<1>1. /\ i \in 0 .. Len(data)
      /\ i = 0 => \A j \in 1 .. Len(data) : data[j] \notin EOL
      /\ i # 0 => data[i] \in EOL /\ \A j \in 1 .. (i - 1) : data[j] \notin EOL
  BY FirstEOLIs
<1>2. SplitSSELines(data, atEOF) =
        IF i # 0 /\ data[i] = CR /\ i = Len(data) /\ ~atEOF THEN NoLine
        ELSE IF i # 0 THEN [advance |-> IF crlf THEN i + 1 ELSE i, token |-> Take(data, i - 1)]
        ELSE IF atEOF THEN [advance |-> Len(data), token |-> data]
        ELSE NoLine
  BY DEF SplitSSELines
<1>3. i # 0 => /\ Take(data, i - 1) \in Seq(Symbol) /\ Len(Take(data, i - 1)) = i - 1
               /\ \A j \in 1 .. (i - 1) : Take(data, i - 1)[j] = data[j]
  <2>1. i # 0 => i - 1 \in 0 .. Len(data)
    BY <1>0, <1>1
  <2> QED BY <2>1, TakeIs
<1> HIDE DEF i
<1>4. CASE i # 0 /\ data[i] = CR /\ i = Len(data) /\ ~atEOF
  <2>1. a = 0 /\ token = <<>>
    BY <1>2, <1>4 DEF NoLine
  <2>2. ASSUME NEW j \in 1 .. Len(data) PROVE data[j] # LF
    <3>1. j \in 1 .. (i - 1) \/ j = i
      <4>1. i = Len(data) /\ i \in Nat /\ j \in Nat /\ 1 <= j /\ j <= i
        BY <1>0, <1>4
      <4>2. j < i \/ j = i
        BY <4>1
      <4> QED BY <4>1, <4>2
    <3>2. CR # LF
      BY DEF CR, LF
    <3> QED BY <1>1, <1>4, <3>1, <3>2 DEF EOL
  <2> QED BY <1>0, <1>1, <1>4, <2>1, <2>2
<1>5. CASE i # 0 /\ ~ (data[i] = CR /\ i = Len(data) /\ ~atEOF)
  <2>1. a = (IF crlf THEN i + 1 ELSE i) /\ token = Take(data, i - 1)
    BY <1>2, <1>5
  <2>2. token \in Seq(Symbol) /\ \A j \in 1 .. Len(token) : token[j] \notin EOL
    BY <1>1, <1>3, <1>5, <2>1
  <2>3. CASE crlf
    <3>1. a = i + 1 /\ a \in 1 .. Len(data) /\ data[a] = LF
      BY <1>0, <1>1, <2>1, <2>3
    <3> QED BY <1>0, <2>2, <3>1
  <2>4. CASE ~crlf
    <3>1. a = i /\ data[i] \in {CR, LF}
      BY <1>1, <1>5, <2>1, <2>4 DEF EOL
    <3> QED BY <1>0, <1>1, <1>5, <2>2, <2>4, <3>1
  <2> QED BY <2>3, <2>4
<1>6. CASE i = 0 /\ atEOF
  BY <1>0, <1>1, <1>2, <1>6
<1>7. CASE i = 0 /\ ~atEOF
  <2>1. \A j \in 1 .. Len(data) : data[j] # LF
    BY <1>1, <1>7 DEF EOL
  <2> QED BY <1>0, <1>1, <1>2, <1>7, <2>1 DEF NoLine
<1> QED BY <1>4, <1>5, <1>6, <1>7

\* A source is as ReaderAssumption says.
LEMMA SourceIs ==
  ASSUME NEW s \in Sources
  PROVE  /\ s.bytes \in Seq(Symbol) /\ s.mayFail \in BOOLEAN
         /\ s.cap \in Nat /\ s.cap > 0 /\ s.uint \in Nat /\ s.uint > 0
  BY ReaderAssumption

\* A field's value is a part of its line.
LEMMA ValueIs ==
  ASSUME NEW line \in Seq(Symbol), line # <<>>
  PROVE  /\ ParseValue(line) \in Seq(Symbol)
         /\ \A i \in 1 .. Len(ParseValue(line)) :
              \E j \in 1 .. Len(line) : ParseValue(line)[i] = line[j]
<1>1. Len(line) \in Nat /\ Len(line) > 0
  BY EmptySeq
<1>2. ASSUME NEW k \in 0 .. Len(line)
      PROVE  /\ From(line, k) \in Seq(Symbol)
             /\ \A i \in 1 .. Len(From(line, k)) :
                  \E j \in 1 .. Len(line) : From(line, k)[i] = line[j]
  <2>1. /\ From(line, k) \in Seq(Symbol) /\ Len(From(line, k)) = Len(line) - k
        /\ \A i \in 1 .. (Len(line) - k) : From(line, k)[i] = line[k + i]
    BY FromIs
  <2>2. ASSUME NEW i \in 1 .. (Len(line) - k) PROVE k + i \in 1 .. Len(line)
    BY <1>1
  <2> QED BY <2>1, <2>2
<1>3. 1 \in 0 .. Len(line) /\ (Len(line) > 1 => 2 \in 0 .. Len(line))
  BY <1>1
<1>4. CASE Len(line) > 1 /\ line[2] = Space
  <2>1. ParseValue(line) = From(line, 2)
    BY <1>4 DEF ParseValue
  <2>2. 2 \in 0 .. Len(line)
    BY <1>3, <1>4
  <2> DEFINE k == 2
  <2>3. k \in 0 .. Len(line) /\ ParseValue(line) = From(line, k)
    BY <2>1, <2>2
  <2> HIDE DEF k
  <2> QED BY <1>2, <2>3
<1>5. CASE ~ (Len(line) > 1 /\ line[2] = Space)
  <2>1. ParseValue(line) = From(line, 1)
    BY <1>5 DEF ParseValue
  <2> DEFINE k == 1
  <2>3. k \in 0 .. Len(line) /\ ParseValue(line) = From(line, k)
    BY <1>3, <2>1
  <2> HIDE DEF k
  <2> QED BY <1>2, <2>3
<1> QED BY <1>4, <1>5

-----------------------------------------------------------------------------
(* The type invariant and the IDs.                                          *)

\* What does not depend on where the lines of the stream are.
ParserInv == source \in Sources /\ TypeOK /\ IDsEchoable

\* The initial state has it.
LEMMA InitParser == Init => ParserInv
<1> SUFFICES ASSUME Init PROVE ParserInv
  OBVIOUS
<1>1. /\ source \in Sources /\ source.bytes \in Seq(Symbol) /\ source.cap \in Nat
      /\ source.uint \in Nat /\ source.uint > 0
  BY SourceIs DEF Init
<1>2. /\ frame \in [type : Seq(Symbol), data : Seq(Seq(Symbol))]
      /\ lastID = <<>> /\ pending = <<>> /\ buf = <<>> /\ events = <<>> /\ returned = <<>>
  BY DEF Init, NoFrame, Empty
<1>3. <<>> \in Seq(Symbol) /\ <<>> \in Seq(Event) /\ Len(<<>>) = 0 /\ DOMAIN <<>> = {} /\ Len(BOM) = 3
  BY DEF BOM
<1>4. TypeOK
  <2>1. retry \in 0 .. (source.uint - 1) /\ Len(buf) <= source.cap /\ Len(pending) <= Len(BOM)
    BY <1>1, <1>2, <1>3 DEF Init
  <2>2. rest \in Seq(Symbol) /\ api \in source.apis
    BY <1>1 DEF Init
  <2>3. /\ checked \in BOOLEAN /\ probeErr \in {"none", "eof", "fail"}
        /\ err \in {"none", "eof", "fail", "toolong"} /\ status \in {"reading", "ok", "eof", "error"}
    BY DEF Init
  <2> QED BY <1>2, <1>3, <2>1, <2>2, <2>3, Zenon DEF TypeOK
<1>5. IDsEchoable
  BY <1>2, <1>3 DEF IDsEchoable, ParseEventIDOK
<1> QED BY <1>1, <1>4, <1>5 DEF ParserInv

\* A line without a terminator leaves the parser's state as it should be.
LEMMA AcceptLineParser ==
  ASSUME ParserInv, NEW line \in Seq(Symbol), \A i \in 1 .. Len(line) : line[i] \notin EOL,
         AcceptLine(line), source' = source
  PROVE  /\ frame' \in [type : Seq(Symbol), data : Seq(Seq(Symbol))] /\ lastID' \in Seq(Symbol)
         /\ retry' \in 0 .. (source.uint - 1) /\ events' \in Seq(Event)
         /\ IDsEchoable'
<1>0. /\ frame \in [type : Seq(Symbol), data : Seq(Seq(Symbol))] /\ lastID \in Seq(Symbol)
      /\ retry \in 0 .. (source.uint - 1) /\ events \in Seq(Event)
      /\ source.uint \in Nat /\ source.uint > 0 /\ IDsEchoable
  BY SourceIs DEF ParserInv, TypeOK
<1>1. CASE line = <<>> /\ DispatchFrame
  <2> DEFINE e == [type |-> frame.type, data |-> frame.data, id |-> lastID, retry |-> retry]
  <2>1. e \in Event /\ e.id = lastID
    BY <1>0 DEF Event
  <2>2. /\ frame' = NoFrame /\ lastID' = lastID /\ retry' = retry
        /\ events' \in {events, Append(events, e)}
    BY <1>1 DEF DispatchFrame
  <2> HIDE DEF e
  <2>3. NoFrame \in [type : Seq(Symbol), data : Seq(Seq(Symbol))]
    BY DEF NoFrame, Empty
  <2>4. events' \in Seq(Event)
    <3>1. Append(events, e) \in Seq(Event)
      BY <1>0, <2>1, AppendProperties
    <3> QED BY <1>0, <2>2, <3>1
  <2>5. ASSUME NEW i \in DOMAIN events' PROVE ParseEventIDOK(events'[i].id)
    <3>1. CASE events' = events
      BY <1>0, <3>1 DEF IDsEchoable
    <3>2. CASE events' = Append(events, e)
      <4>1. /\ Len(events) \in Nat /\ DOMAIN events = 1 .. Len(events)
            /\ DOMAIN events' = 1 .. Len(events) + 1
            /\ i \in 1 .. Len(events) => events'[i] = events[i]
            /\ i = Len(events) + 1 => events'[i] = e
        BY <1>0, <2>1, <3>2
      <4>2. i \in 1 .. Len(events) \/ i = Len(events) + 1
        BY <4>1
      <4> QED BY <1>0, <2>1, <4>1, <4>2 DEF IDsEchoable
    <3> QED BY <2>2, <3>1, <3>2
  <2>6. IDsEchoable'
    BY <1>0, <2>2, <2>5 DEF IDsEchoable
  <2> QED BY <1>0, <2>2, <2>3, <2>4, <2>6
<1>2. CASE line # <<>> /\ ApplyField(line)
  <2> DEFINE value == ParseValue(line)
             name == FieldOf(line)
  <2>1. value \in Seq(Symbol) /\ \A i \in 1 .. Len(value) : \E j \in 1 .. Len(line) : value[i] = line[j]
    BY <1>2, ValueIs
  <2>2. /\ frame' \in {[frame EXCEPT !.type = value], [frame EXCEPT !.data = Append(@, value)], frame}
        /\ lastID' = lastID \/ (lastID' = value /\ ContainsNoNul(value))
        /\ retry' = retry \/ (retry' = Decimal(value) % source.uint /\ ParseUintOK(value))
        /\ events' = events
    <3>1. frame' = CASE name = "event:" -> [frame EXCEPT !.type = value]
                  [] name = "data:"  -> [frame EXCEPT !.data = Append(@, value)]
                  [] OTHER -> frame
      BY <1>2 DEF ApplyField
    <3>2. frame' \in {[frame EXCEPT !.type = value], [frame EXCEPT !.data = Append(@, value)], frame}
      <4> HIDE DEF name, value
      <4> QED BY <3>1
    <3>3. /\ lastID' = IF name = "id:" /\ ContainsNoNul(value) THEN value ELSE lastID
          /\ retry' = IF name = "retry:" /\ ParseUintOK(value)
                        THEN Decimal(value) % source.uint ELSE retry
          /\ events' = events
      BY <1>2 DEF ApplyField
    <3> HIDE DEF name, value
    <3> QED BY <3>2, <3>3, Zenon
  <2> HIDE DEF value
  <2>3. frame' \in [type : Seq(Symbol), data : Seq(Seq(Symbol))]
    <3>1. Append(frame.data, value) \in Seq(Seq(Symbol))
      BY <1>0, <2>1, AppendProperties
    <3>2. /\ [frame EXCEPT !.type = value] \in [type : Seq(Symbol), data : Seq(Seq(Symbol))]
          /\ [frame EXCEPT !.data = Append(@, value)] \in [type : Seq(Symbol), data : Seq(Seq(Symbol))]
      BY <1>0, <2>1, <3>1
    <3> DEFINE Frames == [type : Seq(Symbol), data : Seq(Seq(Symbol))]
               f1 == [frame EXCEPT !.type = value]
               f2 == [frame EXCEPT !.data = Append(@, value)]
    <3>3. f1 \in Frames /\ f2 \in Frames /\ frame \in Frames /\ frame' \in {f1, f2, frame}
      BY <1>0, <2>2, <3>2, Zenon
    <3>4. frame' \in Frames
      <4> HIDE DEF Frames, f1, f2
      <4> QED BY <3>3
    <3> QED BY <3>4
  <2>4. retry' \in 0 .. (source.uint - 1)
    <3>1. CASE retry' = Decimal(value) % source.uint /\ ParseUintOK(value)
      <4>1. Decimal(value) \in Nat
        BY <2>1, <3>1, DecimalIsNumber DEF ParseUintOK
      <4> QED BY <1>0, <3>1, <4>1
    <3> QED BY <1>0, <2>2, <3>1
  <2>5. lastID' \in Seq(Symbol) /\ ParseEventIDOK(lastID')
    <3>1. CASE lastID' = value /\ ContainsNoNul(value)
      <4>1. DOMAIN value = 1 .. Len(value)
        BY <2>1
      <4>2. ASSUME NEW i \in DOMAIN value PROVE value[i] \notin {CR, LF, Nul}
        BY <2>1, <3>1, <4>1 DEF ContainsNoNul, EOL
      <4> QED BY <2>1, <3>1, <4>2 DEF ParseEventIDOK
    <3> QED BY <1>0, <2>2, <3>1 DEF IDsEchoable
  <2> QED BY <1>0, <2>2, <2>3, <2>4, <2>5 DEF IDsEchoable
<1> QED BY <1>1, <1>2 DEF AcceptLine

\* The lesser of two numbers is neither above the one nor above the other.
LEMMA LesserIs ==
  ASSUME NEW m \in Int, NEW n \in Int, NEW k \in Int, k <= Lesser(m, n)
  PROVE  k <= m /\ k <= n
  BY DEF Lesser

\* Probing takes up to three bytes.
LEMMA ProbeIs ==
  ASSUME rest \in Seq(Symbol), Probe
  PROVE  \E n \in 0 .. Len(rest) :
            /\ n <= 3
            /\ pending' = (IF Take(rest, n) = BOM THEN <<>> ELSE Take(rest, n))
            /\ rest' = From(rest, n)
            /\ \/ n = 3 /\ probeErr' = "none"
               \/ n < 3 /\ n = Len(rest) /\ probeErr' = "eof"
               \/ n < 3 /\ probeErr' = "fail"
<1>0. Len(rest) \in Nat /\ Len(BOM) = 3
  BY DEF BOM
<1>1. PICK n \in 0 .. Lesser(Len(BOM), Len(rest)) :
         /\ pending' = IF Take(rest, n) = BOM THEN <<>> ELSE Take(rest, n)
         /\ rest' = From(rest, n)
         /\ \/ n = Len(BOM) /\ probeErr' = "none"
            \/ n < Len(BOM) /\ n = Len(rest) /\ probeErr' = "eof"
            \/ n < Len(BOM) /\ probeErr' = "fail"
  BY DEF Probe
<1>2. n \in 0 .. Len(rest) /\ n <= 3
  BY <1>0 DEF Lesser
<1> QED BY <1>0, <1>1, <1>2

\* Reading leaves the types as they are, and the buffer within the cap.
LEMMA ReadParser ==
  ASSUME ParserInv, Probe \/ ReadPending \/ ReadBytes \/ ReadError \/ TooLong
  PROVE  ParserInv'
<1>0. /\ source \in Sources /\ source.cap \in Nat
      /\ rest \in Seq(Symbol) /\ pending \in Seq(Symbol) /\ buf \in Seq(Symbol)
      /\ Len(rest) \in Nat /\ Len(pending) \in Nat /\ Len(buf) \in Nat
      /\ Len(pending) <= 3 /\ Len(buf) <= source.cap /\ Len(BOM) = 3
  BY SourceIs, LenProperties DEF ParserInv, TypeOK, BOM
<1>1. /\ UNCHANGED <<source, api, frame, lastID, retry, events, returned, status>>
      /\ checked' \in BOOLEAN /\ probeErr' \in {"none", "eof", "fail"}
      /\ err' \in {"none", "eof", "fail", "toolong"}
  <2>1. TypeOK
    BY DEF ParserInv
  <2>2. CASE Probe
    <3>1. probeErr' \in {"none", "eof", "fail"}
      BY <1>0, <2>2, ProbeIs
    <3> QED BY <2>1, <2>2, <3>1 DEF Probe, inVars, parserVars, TypeOK
  <2>3. CASE ReadPending
    BY <2>1, <2>3 DEF ReadPending, inVars, parserVars, TypeOK
  <2>4. CASE ReadBytes
    BY <2>1, <2>4 DEF ReadBytes, inVars, parserVars, bomVars, TypeOK
  <2>5. CASE ReadError \/ TooLong
    BY <2>1, <2>5 DEF ReadError, TooLong, inVars, parserVars, bomVars, TypeOK
  <2> QED BY <2>2, <2>3, <2>4, <2>5
<1>2. ASSUME NEW s \in Seq(Symbol), NEW k \in 1 .. Lesser(Room, Len(s))
      PROVE  /\ k \in 0 .. Len(s) /\ Take(s, k) \in Seq(Symbol) /\ From(s, k) \in Seq(Symbol)
             /\ Len(From(s, k)) <= Len(s)
             /\ buf \o Take(s, k) \in Seq(Symbol) /\ Len(buf \o Take(s, k)) <= source.cap
  <2>1. Room \in Int /\ Room = source.cap - Len(buf) /\ Len(s) \in Nat
    BY <1>0 DEF Room
  <2>2. Lesser(Room, Len(s)) \in Int
    BY <2>1 DEF Lesser
  <2>3. k \in Nat /\ k <= Room /\ k <= Len(s)
    BY <2>1, <2>2, LesserIs
  <2>4. k \in 0 .. Len(s)
    BY <2>1, <2>3
  <2>5. Take(s, k) \in Seq(Symbol) /\ Len(Take(s, k)) = k
    BY <2>4, TakeIs
  <2>6. From(s, k) \in Seq(Symbol) /\ Len(From(s, k)) = Len(s) - k
    BY <2>4, FromIs
  <2>7. buf \o Take(s, k) \in Seq(Symbol) /\ Len(buf \o Take(s, k)) = Len(buf) + k
    <3> DEFINE t == Take(s, k)
    <3>1. t \in Seq(Symbol) /\ Len(t) = k
      BY <2>5
    <3> HIDE DEF t
    <3>2. buf \o t \in Seq(Symbol) /\ Len(buf \o t) = Len(buf) + Len(t)
      BY <1>0, <3>1, ConcatProperties
    <3> QED BY <3>1, <3>2 DEF t
  <2> QED BY <1>0, <2>1, <2>3, <2>4, <2>5, <2>6, <2>7, SMTT(60)
<1>3. /\ rest' \in Seq(Symbol) /\ pending' \in Seq(Symbol) /\ Len(pending') <= 3
      /\ buf' \in Seq(Symbol) /\ Len(buf') <= source.cap
  <2>1. CASE Probe
    <3>1. PICK n \in 0 .. Len(rest) :
              /\ n <= 3 /\ rest' = From(rest, n)
              /\ pending' = (IF Take(rest, n) = BOM THEN <<>> ELSE Take(rest, n))
      BY <1>0, <2>1, ProbeIs
    <3>2. Take(rest, n) \in Seq(Symbol) /\ Len(Take(rest, n)) = n
      BY <1>0, TakeIs
    <3>3. From(rest, n) \in Seq(Symbol)
      BY <1>0, FromIs
    <3>4. <<>> \in Seq(Symbol) /\ Len(<<>>) = 0 /\ n \in Nat
      BY <1>0
    <3>5. pending' \in Seq(Symbol) /\ Len(pending') <= 3
      <4>1. CASE Take(rest, n) = BOM
        <5>1. pending' = <<>>
          BY <3>1, <4>1
        <5> QED BY <3>4, <5>1
      <4>2. CASE Take(rest, n) # BOM
        <5>1. pending' = Take(rest, n)
          BY <3>1, <4>2
        <5> QED BY <3>1, <3>2, <5>1
      <4> QED BY <4>1, <4>2
    <3> QED BY <1>0, <2>1, <3>1, <3>3, <3>5 DEF Probe
  <2>2. CASE ReadPending
    <3>1. PICK k \in 1 .. Lesser(Room, Len(pending)) :
             buf' = buf \o Take(pending, k) /\ pending' = From(pending, k)
      BY <2>2 DEF ReadPending
    <3>2. rest' = rest
      BY <2>2 DEF ReadPending
    <3>3. /\ From(pending, k) \in Seq(Symbol) /\ Len(From(pending, k)) <= Len(pending)
          /\ buf \o Take(pending, k) \in Seq(Symbol) /\ Len(buf \o Take(pending, k)) <= source.cap
          /\ Len(From(pending, k)) \in Nat
      BY <1>0, <1>2, LenProperties
    <3>4. pending' \in Seq(Symbol) /\ Len(pending') <= 3
      BY <1>0, <3>1, <3>3
    <3> QED BY <1>0, <3>1, <3>2, <3>3, <3>4
  <2>3. CASE ReadBytes
    <3>1. PICK k \in 1 .. Lesser(Room, Len(rest)) : buf' = buf \o Take(rest, k) /\ rest' = From(rest, k)
      BY <2>3 DEF ReadBytes
    <3>2. pending' = pending
      BY <2>3 DEF ReadBytes, bomVars
    <3> QED BY <1>0, <1>2, <3>1, <3>2
  <2>4. CASE ReadError \/ TooLong
    BY <1>0, <2>4 DEF ReadError, TooLong, bomVars
  <2> QED BY <2>1, <2>2, <2>3, <2>4
<1>4. TypeOK'
  <2>1. TypeOK
    BY DEF ParserInv
  <2>2. Len(BOM)' = 3 /\ source'.cap = source.cap /\ source'.uint = source.uint /\ source'.apis = source.apis
    BY <1>0, <1>1 DEF BOM
  <2>3. /\ api' \in source'.apis /\ status' \in {"reading", "ok", "eof", "error"}
        /\ frame' \in [type : Seq(Symbol), data : Seq(Seq(Symbol))] /\ lastID' \in Seq(Symbol)
        /\ retry' \in 0 .. (source'.uint - 1) /\ events' \in Seq(Event) /\ returned' \in Seq(Event)
    BY <1>1, <2>1 DEF TypeOK
  <2> QED BY <1>1, <1>3, <2>2, <2>3, Zenon DEF TypeOK
<1>5. IDsEchoable'
  BY <1>1 DEF ParserInv, IDsEchoable
<1> QED BY <1>0, <1>1, <1>4, <1>5 DEF ParserInv

\* What a line found in the buffer leaves.
LEMMA ScanLineIs ==
  ASSUME ParserInv, ScanLine
  PROVE  /\ Split.advance \in 1 .. Len(buf) /\ buf' = From(buf, Split.advance)
         /\ Split.token \in Seq(Symbol)
         /\ \A i \in 1 .. Len(Split.token) : Split.token[i] \notin EOL
         /\ AcceptLine(Split.token)
         /\ UNCHANGED <<source, api, rest, pending, checked, probeErr, err>>
<1>0. buf \in Seq(Symbol) /\ (err # "none") \in BOOLEAN
  BY DEF ParserInv, TypeOK
<1>1. /\ Split.advance \in 0 .. Len(buf) /\ Split.token \in Seq(Symbol)
      /\ \A i \in 1 .. Len(Split.token) : Split.token[i] \notin EOL
  BY <1>0, SplitIs DEF Split
<1>2. /\ Split.advance > 0 /\ buf' = From(buf, Split.advance) /\ AcceptLine(Split.token)
      /\ UNCHANGED <<source, api, rest, pending, checked, probeErr, err>>
  BY DEF ScanLine, inVars, bomVars
<1>3. Split.advance \in 1 .. Len(buf)
  BY <1>0, <1>1, <1>2
<1> QED BY <1>1, <1>2, <1>3

\* The functions keep the invariant.
LEMMA ScanParser ==
  ASSUME ParserInv, ReadEvents \/ ReadNEvents \/ NextEvent
  PROVE  ParserInv'
<1>1. ScanLine \/ ScanStop
  BY DEF ReadEvents, ReadNEvents, NextEvent
<1>2. /\ status' \in {"reading", "ok", "eof", "error"}
      /\ returned' \in {returned, events, events'}
  BY DEF ReadEvents, ReadNEvents, NextEvent, ParserInv, TypeOK
<1>3. /\ source \in Sources /\ source.cap \in Nat /\ buf \in Seq(Symbol) /\ Len(buf) \in Nat
      /\ Len(buf) <= source.cap /\ IDsEchoable /\ TypeOK
  BY SourceIs, LenProperties DEF ParserInv, TypeOK
<1>4. /\ UNCHANGED <<source, api, rest, pending, checked, probeErr, err>>
      /\ buf' \in Seq(Symbol) /\ Len(buf') <= source.cap
      /\ frame' \in [type : Seq(Symbol), data : Seq(Seq(Symbol))] /\ lastID' \in Seq(Symbol)
      /\ retry' \in 0 .. (source.uint - 1) /\ events' \in Seq(Event)
      /\ IDsEchoable'
  <2>1. CASE ScanStop
    BY <1>3, <2>1 DEF ScanStop, inVars, bomVars, parserVars, TypeOK, IDsEchoable
  <2>2. CASE ScanLine
    <3>1. PICK a \in 1 .. Len(buf) : buf' = From(buf, a)
      BY <2>2, ScanLineIs
    <3>2. /\ Split.token \in Seq(Symbol) /\ \A i \in 1 .. Len(Split.token) : Split.token[i] \notin EOL
          /\ AcceptLine(Split.token)
          /\ UNCHANGED <<source, api, rest, pending, checked, probeErr, err>>
      BY <2>2, ScanLineIs
    <3>3. a \in 0 .. Len(buf) /\ a \in Nat
      BY <1>3
    <3>4. From(buf, a) \in Seq(Symbol) /\ Len(From(buf, a)) = Len(buf) - a
      BY <1>3, <3>3, FromIs
    <3>5. Len(buf') <= source.cap
      BY <1>3, <3>1, <3>3, <3>4
    <3>6. /\ frame' \in [type : Seq(Symbol), data : Seq(Seq(Symbol))] /\ lastID' \in Seq(Symbol)
          /\ retry' \in 0 .. (source.uint - 1) /\ events' \in Seq(Event)
          /\ IDsEchoable'
      BY <3>2, AcceptLineParser
    <3> QED BY <3>1, <3>2, <3>4, <3>5, <3>6
  <2> QED BY <1>1, <2>1, <2>2
<1>5. returned' \in Seq(Event)
  BY <1>2, <1>3, <1>4 DEF TypeOK
<1>6. TypeOK'
  <2>1. source'.cap = source.cap /\ source'.uint = source.uint /\ source'.apis = source.apis
    BY <1>4
  <2>2. /\ api' \in source'.apis /\ rest' \in Seq(Symbol)
        /\ pending' \in Seq(Symbol) /\ Len(pending') <= Len(BOM)
        /\ checked' \in BOOLEAN /\ probeErr' \in {"none", "eof", "fail"}
        /\ err' \in {"none", "eof", "fail", "toolong"}
    BY <1>3, <1>4 DEF TypeOK
  <2> QED BY <1>2, <1>4, <1>5, <2>1, <2>2, Zenon DEF TypeOK
<1> QED BY <1>3, <1>4, <1>6 DEF ParserInv

\* Every step keeps it.
LEMMA NextParser == ParserInv /\ [Next]_vars => ParserInv'
<1> SUFFICES ASSUME ParserInv, [Next]_vars PROVE ParserInv'
  OBVIOUS
<1>1. CASE UNCHANGED vars
  BY <1>1 DEF vars, inVars, bomVars, parserVars, ParserInv, TypeOK, IDsEchoable
<1> QED BY <1>1, ReadParser, ScanParser DEF Next

-----------------------------------------------------------------------------
(* What is left to parse is one piece of the text.                          *)

\* The bytes that the parser has not had.
Unread == buf \o pending \o rest

\* The text of the stream is a sequence of symbols.
LEMMA TextIs ==
  ASSUME source \in Sources
  PROVE  Text \in Seq(Symbol) /\ Len(Text) \in Nat
<1>1. source.bytes \in Seq(Symbol) /\ Len(source.bytes) \in Nat /\ Len(BOM) = 3
  BY SourceIs, LenProperties DEF BOM
<1>2. CASE IsPrefix(BOM, source.bytes) /\ probeErr # "fail"
  <2>1. 3 \in 0 .. Len(source.bytes)
    BY <1>1, <1>2 DEF IsPrefix
  <2>2. Text = From(source.bytes, 3)
    BY <1>1, <1>2 DEF Text
  <2>3. From(source.bytes, 3) \in Seq(Symbol)
    BY <1>1, <2>1, FromIs
  <2> QED BY <2>2, <2>3, LenProperties
<1>3. CASE ~ (IsPrefix(BOM, source.bytes) /\ probeErr # "fail")
  <2>1. Text = source.bytes
    BY <1>3 DEF Text
  <2> QED BY <1>1, <2>1
<1> QED BY <1>2, <1>3

\* The length of three pieces.
LEMMA PiecesLength ==
  ASSUME NEW S, NEW b \in Seq(S), NEW p \in Seq(S), NEW r \in Seq(S)
  PROVE  /\ b \o p \o r \in Seq(S)
         /\ Len(b \o p \o r) = Len(b) + Len(p) + Len(r)
         /\ Len(b) \in Nat /\ Len(p) \in Nat /\ Len(r) \in Nat
<1>1. Len(b) \in Nat /\ Len(p) \in Nat /\ Len(r) \in Nat
  BY LenProperties
<1>2. b \o p \in Seq(S) /\ Len(b \o p) = Len(b) + Len(p)
  BY ConcatProperties
<1>3. b \o p \o r \in Seq(S) /\ Len(b \o p \o r) = Len(b \o p) + Len(r)
  BY <1>2, ConcatProperties
<1> QED BY <1>1, <1>2, <1>3

\* The buffer holds the text from where the parser has got to.
LEMMA BufferIsText ==
  ASSUME ParserInv, PieceInv, checked
  PROVE  /\ Consumed \in Nat /\ Consumed + Len(buf) \in 0 .. Len(Text)
         /\ \A i \in 1 .. Len(buf) : buf[i] = Text[Consumed + i]
<1>1. /\ rest \in Seq(Symbol) /\ pending \in Seq(Symbol) /\ buf \in Seq(Symbol)
      /\ Len(rest) \in Nat /\ Len(pending) \in Nat /\ Len(buf) \in Nat
  BY LenProperties DEF ParserInv, TypeOK
<1>2. Text \in Seq(Symbol) /\ Len(Text) \in Nat
  BY TextIs DEF ParserInv
<1>3. Consumed \in Nat /\ Consumed + Len(buf) \in 0 .. Len(Text) /\ Consumed \in 0 .. Len(Text)
  BY <1>1, <1>2 DEF PieceInv, Consumed
<1>4. Unread = From(Text, Consumed)
  BY DEF PieceInv, Unread
<1>5. \A i \in 1 .. (Len(Text) - Consumed) : Unread[i] = Text[Consumed + i]
  BY <1>2, <1>3, <1>4, FromIs
<1>6. /\ buf \o pending \in Seq(Symbol) /\ Len(buf \o pending) = Len(buf) + Len(pending)
      /\ \A i \in 1 .. Len(buf) + Len(pending) :
           (buf \o pending)[i] = IF i <= Len(buf) THEN buf[i] ELSE pending[i - Len(buf)]
  BY <1>1, ConcatProperties
<1>7. \A i \in 1 .. Len(buf \o pending) + Len(rest) :
        Unread[i] = IF i <= Len(buf \o pending) THEN (buf \o pending)[i]
                                                ELSE rest[i - Len(buf \o pending)]
  BY <1>1, <1>6, ConcatProperties DEF Unread
<1>8. ASSUME NEW i \in 1 .. Len(buf) PROVE buf[i] = Text[Consumed + i]
  <2>1. /\ i \in 1 .. Len(buf) + Len(pending) /\ i <= Len(buf)
        /\ i \in 1 .. Len(buf \o pending) + Len(rest) /\ i <= Len(buf \o pending)
        /\ i \in 1 .. (Len(Text) - Consumed)
    BY <1>1, <1>2, <1>3, <1>6
  <2>2. (buf \o pending)[i] = buf[i]
    BY <1>6, <2>1
  <2>3. Unread[i] = (buf \o pending)[i]
    BY <1>7, <2>1
  <2> QED BY <1>5, <2>1, <2>2, <2>3
<1> QED BY <1>3, <1>8

\* Moving the first k symbols of one piece to the end of the piece before.
LEMMA MoveSome ==
  ASSUME NEW S, NEW b \in Seq(S), NEW s \in Seq(S), NEW k \in 0 .. Len(s)
  PROVE  (b \o Take(s, k)) \o From(s, k) = b \o s
<1>1. ASSUME NEW t \in Seq(S), NEW f \in Seq(S), t \o f = s PROVE (b \o t) \o f = b \o s
  <2>1. (b \o t) \o f = b \o (t \o f)
    OBVIOUS
  <2> QED BY <1>1, <2>1
<1>2. Take(s, k) \in Seq(S) /\ From(s, k) \in Seq(S)
  BY TakeIs, FromIs
<1>3. Take(s, k) \o From(s, k) = s
  BY TakeFrom
<1> QED BY <1>1, <1>2, <1>3, Zenon

\* A step between lines that neither loses nor repeats a byte.
LEMMA PieceKept ==
  ASSUME ParserInv, ParserInv', PieceInv, LineInv, checked, checked', Unread' = Unread,
         source' = source, probeErr' = probeErr, err = "none"
  PROVE  PieceInv' /\ LineInv' /\ Text' = Text /\ Consumed' = Consumed
<1>1. Text' = Text
  BY DEF Text
<1>2. Ends' = Ends
  BY <1>1 DEF Ends
<1>3. /\ Len(Unread) = Len(buf) + Len(pending) + Len(rest)
      /\ Len(buf) \in Nat /\ Len(pending) \in Nat /\ Len(rest) \in Nat
  <2>1. buf \in Seq(Symbol) /\ pending \in Seq(Symbol) /\ rest \in Seq(Symbol)
    BY DEF ParserInv, TypeOK
  <2> QED BY <2>1, PiecesLength DEF Unread
<1>4. /\ Len(Unread') = Len(buf') + Len(pending') + Len(rest')
      /\ Len(buf') \in Nat /\ Len(pending') \in Nat /\ Len(rest') \in Nat
  <2>1. buf' \in Seq(Symbol) /\ pending' \in Seq(Symbol) /\ rest' \in Seq(Symbol)
    BY DEF ParserInv, TypeOK
  <2> QED BY <2>1, PiecesLength DEF Unread
<1>5. Len(Text) \in Nat
  BY TextIs DEF ParserInv
<1>6. Consumed' = Consumed
  BY <1>1, <1>3, <1>4, <1>5 DEF Consumed
<1>7. PieceInv'
  BY <1>1, <1>6 DEF PieceInv, Unread
<1>8. LineInv'
  BY <1>1, <1>2, <1>6 DEF LineInv, Fits
<1> QED BY <1>1, <1>6, <1>7, <1>8

\* Before anything is read.
LEMMA InitPosition == Init => PieceInv /\ EndInv /\ LineInv
<1> SUFFICES ASSUME Init PROVE PieceInv /\ EndInv /\ LineInv
  OBVIOUS
<1>1. /\ checked = FALSE /\ probeErr = "none" /\ err = "none"
      /\ buf = <<>> /\ pending = <<>> /\ rest = source.bytes
  BY DEF Init
<1> QED BY <1>1 DEF PieceInv, EndInv, LineInv

\* The BOM is three bytes.
LEMMA BomIs == BOM \in Seq({"b1", "b2", "b3"}) /\ Len(BOM) = 3 /\ 3 \in 0 .. Len(BOM)
  BY DEF BOM

\* Probing drops a BOM that is complete, and nothing else.
LEMMA ProbePosition ==
  ASSUME ParserInv, PieceInv, EndInv, Probe, ParserInv'
  PROVE  PieceInv' /\ EndInv' /\ LineInv' /\ checked' /\ Consumed' = 0
<1>0. /\ source \in Sources /\ source' = source /\ checked' = TRUE /\ ~checked
      /\ buf' = buf /\ err' = err /\ err = "none"
      /\ buf = <<>> /\ rest = source.bytes
  BY DEF ParserInv, PieceInv, EndInv, Probe, inVars, NeedsInput
<1> DEFINE bytes == source.bytes
<1>1. bytes \in Seq(Symbol) /\ Len(bytes) \in Nat /\ Len(BOM) = 3
  BY <1>0, SourceIs, LenProperties DEF BOM
<1> HIDE DEF bytes
<1>2. PICK n \in 0 .. Len(bytes) :
          /\ n <= 3
          /\ pending' = (IF Take(bytes, n) = BOM THEN <<>> ELSE Take(bytes, n))
          /\ rest' = From(bytes, n)
          /\ \/ n = 3 /\ probeErr' = "none"
             \/ n < 3 /\ n = Len(bytes) /\ probeErr' = "eof"
             \/ n < 3 /\ probeErr' = "fail"
  BY <1>0, <1>1, ProbeIs DEF bytes
<1>3. Take(bytes, n) \in Seq(Symbol) /\ Len(Take(bytes, n)) = n
  BY <1>1, TakeIs
<1>4. From(bytes, n) \in Seq(Symbol) /\ Len(From(bytes, n)) = Len(bytes) - n
  BY <1>1, FromIs
<1>5. Text' = IF IsPrefix(BOM, bytes) /\ probeErr' # "fail" THEN From(bytes, 3) ELSE bytes
  BY <1>0, <1>1 DEF Text, bytes
<1>6. IsPrefix(BOM, bytes) <=> Len(bytes) >= 3 /\ Take(bytes, 3) = BOM
  <2>1. SubSeq(BOM, 1, 3) = BOM
    <3> DEFINE B == {"b1", "b2", "b3"}
    <3>1. BOM \in Seq(B) /\ 3 \in 0 .. Len(BOM)
      BY BomIs
    <3> HIDE DEF B
    <3>2. /\ Take(BOM, 3) \in Seq(B) /\ Len(Take(BOM, 3)) = 3
          /\ \A i \in 1 .. 3 : Take(BOM, 3)[i] = BOM[i]
      BY <3>1, TakeIs
    <3>3. Take(BOM, 3) = BOM
      BY <1>1, <3>1, <3>2, SameElements
    <3> QED BY <3>3 DEF Take
  <2> QED BY <1>1, <2>1 DEF IsPrefix, Take
<1>7. pending' \o rest' = Text' /\ Text' \in Seq(Symbol)
      /\ pending' \in Seq(Symbol) /\ rest' \in Seq(Symbol)
  <2>1. CASE Take(bytes, n) = BOM
    <3>1. n = 3
      BY <1>1, <1>3, <2>1
    <3>2. IsPrefix(BOM, bytes) /\ probeErr' = "none" /\ pending' = <<>> /\ rest' = From(bytes, 3)
      BY <1>1, <1>2, <1>6, <2>1, <3>1
    <3>3. Text' = rest' /\ rest' \in Seq(Symbol)
      BY <1>4, <1>5, <3>1, <3>2
    <3>4. <<>> \o rest' = rest'
      BY <3>3, ConcatEmptySeq
    <3>5. <<>> \in Seq(Symbol)
      OBVIOUS
    <3> QED BY <3>2, <3>3, <3>4, <3>5
  <2>2. CASE Take(bytes, n) # BOM
    <3>1. pending' = Take(bytes, n) /\ rest' = From(bytes, n)
      BY <1>2, <2>2
    <3>2. ~ (IsPrefix(BOM, bytes) /\ probeErr' # "fail")
      <4>1. CASE n = 3
        BY <1>6, <2>2, <4>1
      <4>2. CASE n < 3 /\ n = Len(bytes)
        <5>1. ~ (Len(bytes) >= 3)
          BY <1>1, <4>2
        <5> QED BY <1>6, <5>1
      <4> QED BY <1>2, <4>1, <4>2
    <3>3. Text' = bytes
      BY <1>5, <3>2
    <3>4. Take(bytes, n) \o From(bytes, n) = bytes
      BY <1>1, TakeFrom
    <3> QED BY <1>1, <1>3, <1>4, <3>1, <3>3, <3>4
  <2> QED BY <2>1, <2>2
<1>8. Consumed' = 0
  <2>1. Len(pending') \in Nat /\ Len(rest') \in Nat /\ Len(pending' \o rest') = Len(pending') + Len(rest')
    BY <1>7, ConcatProperties, LenProperties
  <2>2. Len(buf') = 0 /\ Len(Text') = Len(pending') + Len(rest')
    BY <1>0, <1>7, <2>1
  <2> QED BY <2>1, <2>2 DEF Consumed
<1>9. PieceInv'
  <2>1. From(Text', 0) = Text'
    <3>1. 0 \in 0 .. Len(Text') /\ Len(Text') \in Nat
      BY <1>7, LenProperties
    <3>2. /\ From(Text', 0) \in Seq(Symbol) /\ Len(From(Text', 0)) = Len(Text') - 0
          /\ \A i \in 1 .. (Len(Text') - 0) : From(Text', 0)[i] = Text'[0 + i]
      BY <1>7, <3>1, FromIs
    <3>3. /\ From(Text', 0) \in Seq(Symbol) /\ Len(From(Text', 0)) = Len(Text')
          /\ \A i \in 1 .. Len(Text') : From(Text', 0)[i] = Text'[i]
      BY <3>1, <3>2
    <3> QED BY <1>7, <3>3, SameElements
  <2>2. buf' \o pending' = pending'
    BY <1>0, <1>7, ConcatEmptySeq
  <2> QED BY <1>0, <1>7, <1>8, <2>1, <2>2 DEF PieceInv
<1>10. LineInv'
  <2>1. 0 \in Ends' /\ Ends' \subseteq Nat
    BY <1>7, LenProperties DEF Ends, LineEnds
  <2>2. ASSUME NEW q \in Ends' PROVE ~ (0 < q /\ q <= 0)
    BY <2>1
  <2> QED BY <1>8, <2>1, <2>2 DEF LineInv
<1>11. EndInv'
  <2>1. probeErr' = "eof" => rest' = <<>>
    <3>1. probeErr' = "eof" => n = Len(bytes)
      BY <1>2
    <3>2. n = Len(bytes) => rest' \in Seq(Symbol) /\ Len(rest') = 0
      BY <1>1, <1>2, <1>4
    <3> QED BY <3>1, <3>2, EmptySeq
  <2>2. probeErr' = "fail" => Len(source.bytes) - Len(rest') < Len(BOM)
    <3>1. probeErr' = "fail" => n < 3
      BY <1>1, <1>2
    <3>2. Len(bytes) - Len(rest') = n
      BY <1>1, <1>2, <1>4
    <3> QED BY <1>1, <3>1, <3>2 DEF bytes
  <2> QED BY <1>0, <2>1, <2>2 DEF EndInv
<1> QED BY <1>0, <1>8, <1>9, <1>10, <1>11

\* Reading moves bytes towards the buffer.
LEMMA ReadPosition ==
  ASSUME ParserInv, PieceInv, EndInv, LineInv, ReadPending \/ ReadBytes \/ ReadError \/ TooLong,
         ParserInv'
  PROVE  PieceInv' /\ EndInv' /\ LineInv' /\ Text' = Text /\ Consumed' = Consumed
<1>0. /\ source \in Sources /\ source.cap \in Nat /\ source.cap > 0
      /\ rest \in Seq(Symbol) /\ pending \in Seq(Symbol) /\ buf \in Seq(Symbol)
      /\ Len(rest) \in Nat /\ Len(pending) \in Nat /\ Len(buf) \in Nat
  BY SourceIs, LenProperties DEF ParserInv, TypeOK
<1>1. err = "none" /\ Split.advance = 0 /\ source' = source /\ probeErr' = probeErr /\ checked' = checked
  BY DEF ReadPending, ReadBytes, ReadError, TooLong, NeedsInput, inVars, bomVars
<1>2. checked
  <2>1. CASE TooLong
    <3>1. source.cap - Len(buf) = 0
      BY <2>1 DEF TooLong, Room
    <3>2. Len(buf) # 0
      BY <1>0, <3>1
    <3>3. buf # <<>>
      BY <3>2
    <3> QED BY <3>3 DEF PieceInv
  <2> QED BY <2>1 DEF ReadPending, ReadBytes, ReadError
<1>3. ASSUME NEW s \in Seq(Symbol), NEW k \in 1 .. Lesser(Room, Len(s))
      PROVE  k \in 0 .. Len(s)
  <2>1. Room \in Int /\ Len(s) \in Nat
    BY <1>0 DEF Room
  <2>2. Lesser(Room, Len(s)) \in Int
    BY <2>1 DEF Lesser
  <2>3. k \in Nat /\ k <= Len(s)
    BY <2>1, <2>2, LesserIs
  <2> QED BY <2>1, <2>3
<1>4. CASE ReadPending
  <2>1. PICK k \in 1 .. Lesser(Room, Len(pending)) :
           buf' = buf \o Take(pending, k) /\ pending' = From(pending, k)
    BY <1>4 DEF ReadPending
  <2>2. rest' = rest /\ err' = err
    BY <1>4 DEF ReadPending
  <2>3. k \in 0 .. Len(pending)
    BY <1>0, <1>3
  <2>4. (buf \o Take(pending, k)) \o From(pending, k) \o rest = buf \o pending \o rest
    <3>1. (buf \o Take(pending, k)) \o From(pending, k) = buf \o pending
      BY <1>0, <2>3, MoveSome
    <3> QED BY <3>1, Zenon
  <2>5. Unread' = Unread
    BY <2>1, <2>2, <2>4 DEF Unread
  <2>6. EndInv'
    BY <1>1, <1>2, <2>2 DEF EndInv
  <2> QED BY <1>1, <1>2, <2>2, <2>5, <2>6, PieceKept
<1>5. CASE ReadBytes
  <2>1. PICK k \in 1 .. Lesser(Room, Len(rest)) :
           /\ buf' = buf \o Take(rest, k) /\ rest' = From(rest, k)
           /\ err' \in (IF k = Len(rest) THEN {"none", "eof"} ELSE {"none"})
    BY <1>5 DEF ReadBytes
  <2>2. pending = <<>> /\ pending' = <<>> /\ probeErr = "none"
    BY <1>5 DEF ReadBytes, bomVars
  <2>3. k \in 0 .. Len(rest)
    BY <1>0, <1>3
  <2>4. (buf \o Take(rest, k)) \o From(rest, k) = buf \o rest
    BY <1>0, <2>3, MoveSome
  <2>5. buf \o <<>> = buf /\ buf' \o <<>> = buf'
    <3>1. buf' \in Seq(Symbol)
      BY DEF ParserInv, TypeOK
    <3> QED BY <1>0, <3>1, ConcatEmptySeq
  <2>6. Unread' = Unread
    BY <2>1, <2>2, <2>4, <2>5 DEF Unread
  <2>7. EndInv'
    <3>1. err' = "eof" => rest' = <<>>
      <4>1. From(rest, k) \in Seq(Symbol) /\ Len(From(rest, k)) = Len(rest) - k
        BY <1>0, <2>3, FromIs
      <4>2. err' = "eof" => k = Len(rest)
        BY <2>1
      <4>3. k = Len(rest) => Len(rest') = 0 /\ rest' \in Seq(Symbol)
        BY <1>0, <2>1, <4>1
      <4> QED BY <4>2, <4>3, EmptySeq
    <3>2. err' \in {"none", "eof"}
      BY <2>1
    <3> QED BY <1>1, <1>2, <2>2, <3>1, <3>2 DEF EndInv
  <2> QED BY <1>1, <1>2, <2>6, <2>7, PieceKept
<1>6. CASE ReadError
  <2>1. UNCHANGED <<rest, pending, buf>> /\ pending = <<>>
    BY <1>6 DEF ReadError, bomVars
  <2>2. Unread' = Unread
    BY <2>1 DEF Unread
  <2>3. EndInv'
    <3>1. \/ probeErr # "none" /\ err' = probeErr
          \/ probeErr = "none" /\ rest = <<>> /\ err' = "eof"
          \/ probeErr = "none" /\ err' = "fail"
      BY <1>6 DEF ReadError
    <3>2. probeErr \in {"none", "eof", "fail"}
      BY DEF ParserInv, TypeOK
    <3> QED BY <1>1, <1>2, <2>1, <3>1, <3>2 DEF EndInv
  <2> QED BY <1>1, <1>2, <2>2, <2>3, PieceKept
<1>7. CASE TooLong
  <2>1. UNCHANGED <<rest, pending, buf>> /\ err' = "toolong" /\ Room = 0
    BY <1>7 DEF TooLong, bomVars
  <2>2. Unread' = Unread
    BY <2>1 DEF Unread
  <2>3. EndInv'
    <3>1. Len(buf) = source.cap
      BY <1>0, <2>1 DEF Room
    <3>2. SplitSSELines(buf, FALSE).advance = 0
      <4>1. (err # "none") = FALSE
        BY <1>1
      <4> QED BY <1>1, <4>1 DEF Split
    <3> QED BY <1>1, <1>2, <2>1, <3>1, <3>2 DEF EndInv
  <2> QED BY <1>1, <1>2, <2>2, <2>3, PieceKept
<1> QED BY <1>4, <1>5, <1>6, <1>7

\* Taking a line off the buffer: at the end of the stream or of a terminator,
\* which is never the CR of a CRLF unless the connection broke there.
LEMMA ScanLinePosition ==
  ASSUME ParserInv, PieceInv, EndInv, LineInv, ScanLine, ParserInv'
  PROVE  PieceInv' /\ EndInv' /\ LineInv' /\ checked /\ Text' = Text
         /\ Consumed' = Consumed + Split.advance
<1>0. /\ source \in Sources /\ source.cap \in Nat
      /\ rest \in Seq(Symbol) /\ pending \in Seq(Symbol) /\ buf \in Seq(Symbol)
      /\ Len(rest) \in Nat /\ Len(pending) \in Nat /\ Len(buf) \in Nat /\ Len(buf) <= source.cap
  BY SourceIs, LenProperties DEF ParserInv, TypeOK
<1>1. /\ UNCHANGED <<source, rest, pending, checked, probeErr, err>> /\ err # "toolong"
  BY ScanLineIs DEF ScanLine
<1>2. PICK a \in 1 .. Len(buf) : a = Split.advance /\ buf' = From(buf, a)
  BY ScanLineIs
<1>3. checked
  <2>1. Len(buf) # 0
    BY <1>0, <1>2
  <2>2. buf # <<>>
    BY <2>1
  <2> QED BY <2>2 DEF PieceInv
<1>4. Text' = Text /\ Ends' = Ends
  <2>1. Text' = Text
    BY <1>1 DEF Text
  <2> QED BY <2>1 DEF Ends
<1>5. Text \in Seq(Symbol) /\ Len(Text) \in Nat
  BY TextIs DEF ParserInv
<1>6. /\ Consumed \in Nat /\ Consumed + Len(buf) \in 0 .. Len(Text)
      /\ \A i \in 1 .. Len(buf) : buf[i] = Text[Consumed + i]
  BY <1>3, BufferIsText
<1>7. a \in 0 .. Len(buf) /\ a \in Nat /\ a > 0 /\ a <= Len(buf)
  BY <1>0
<1>8. From(buf, a) \in Seq(Symbol) /\ Len(From(buf, a)) = Len(buf) - a
  BY <1>0, <1>7, FromIs
<1>9. Consumed' = Consumed + a
  <2>1. Len(buf') = Len(buf) - a
    BY <1>2, <1>8
  <2>2. Consumed' = Len(Text) - Len(buf') - Len(pending) - Len(rest)
    BY <1>1, <1>4 DEF Consumed
  <2> QED BY <1>0, <1>5, <1>7, <2>1, <2>2 DEF Consumed
<1>10. PieceInv'
  <2> DEFINE pr == pending \o rest
             c == Consumed
  <2>1. pr \in Seq(Symbol)
    BY <1>0, ConcatProperties
  <2>2. buf \o pending \o rest = buf \o pr
    BY <1>0, Joined
  <2>3. From(buf, a) \o pending \o rest = From(buf, a) \o pr
    <3>1. ASSUME NEW f \in Seq(Symbol) PROVE f \o pending \o rest = f \o (pending \o rest)
      BY <1>0, Joined
    <3> QED BY <1>8, <3>1
  <2>4. buf \o pr = From(Text, c)
    BY <1>3, <2>2 DEF PieceInv
  <2> HIDE DEF pr
  <2>5. From(buf \o pr, a) = From(buf, a) \o pr
    BY <1>0, <1>7, <2>1, FromConcat
  <2>6. c \in 0 .. Len(Text) /\ a \in 0 .. (Len(Text) - c) /\ c + a >= 0
    BY <1>0, <1>5, <1>6, <1>7
  <2> HIDE DEF c
  <2>7. From(From(Text, c), a) = From(Text, c + a)
    BY <1>5, <2>6, FromFrom
  <2>8. From(buf, a) \o pending \o rest = From(Text, c + a)
    BY <2>3, <2>4, <2>5, <2>7
  <2>9. Consumed' = c + a
    BY <1>9 DEF c
  <2>10. Consumed' >= 0
    BY <2>6, <2>9
  <2>11. buf' \o pending' \o rest' = From(Text', Consumed')
    BY <1>1, <1>2, <1>4, <2>8, <2>9
  <2> QED BY <1>1, <1>3, <2>10, <2>11 DEF PieceInv
<1>11. EndInv'
  BY <1>1 DEF EndInv
<1>12. ASSUME err = "fail" => buf' # <<>>
       PROVE  /\ Consumed + a \in Ends
              /\ a = Len(buf) => Text[Consumed + a] = LF \/ Consumed + a = Len(Text)
  <2> DEFINE c == Consumed
  <2>1. \/ err # "none" /\ a = Len(buf)
        \/ buf[a] = LF
        \/ buf[a] = CR /\ a < Len(buf) /\ buf[a + 1] # LF
    <3>1. (err # "none") \in BOOLEAN
      OBVIOUS
    <3> QED BY <1>0, <1>2, <1>7, <3>1, SplitIs DEF Split
  <2>2. c + a \in 1 .. Len(Text) /\ DOMAIN Text = 1 .. Len(Text) /\ Text[c + a] = buf[a]
    BY <1>0, <1>5, <1>6, <1>7
  <2>3. CASE err # "none" /\ a = Len(buf)
    <3>0. buf' = <<>>
      BY <1>0, <1>2, <1>8, <2>3, EmptySeq
    <3>1. err = "eof"
      BY <1>1, <1>12, <2>3, <3>0 DEF ParserInv, TypeOK
    <3>2. Len(pending) = 0 /\ Len(rest) = 0
      BY <3>1 DEF EndInv
    <3>3. c + a = Len(Text)
      BY <1>0, <1>5, <2>3, <3>2 DEF Consumed
    <3> QED BY <3>3 DEF Ends
  <2>4. CASE buf[a] = LF
    BY <2>2, <2>4 DEF Ends, LineEnds
  <2>5. CASE buf[a] = CR /\ a < Len(buf) /\ buf[a + 1] # LF
    <3>1. a + 1 \in 1 .. Len(buf) /\ c + (a + 1) = (c + a) + 1
      BY <1>0, <1>6, <1>7, <2>5
    <3>2. Text[(c + a) + 1] # LF
      BY <1>6, <2>5, <3>1
    <3> HIDE DEF c
    <3> QED BY <2>2, <2>5, <3>2 DEF Ends, LineEnds, c
  <2> QED BY <2>1, <2>3, <2>4, <2>5
<1>13. LineInv'
  <2> SUFFICES ASSUME err = "fail" => buf' # <<>>
               PROVE  /\ Consumed + a \in Ends
                      /\ \A q \in Ends : 0 < q /\ q <= Consumed + a =>
                           \E p \in Ends : p < q /\ Fits(p, q)
    BY <1>1, <1>4, <1>9 DEF LineInv, Fits
  <2>1. Ends \subseteq Nat
    BY <1>5 DEF Ends, LineEnds
  <2>2. Consumed \in Ends /\ \A q \in Ends : 0 < q /\ q <= Consumed =>
                               \E p \in Ends : p < q /\ Fits(p, q)
    <3>1. buf # <<>>
      BY <1>0, <1>7
    <3> QED BY <1>3, <3>1 DEF LineInv
  <2>3. ASSUME NEW q \in Ends, 0 < q, q <= Consumed + a
        PROVE  \E p \in Ends : p < q /\ Fits(p, q)
    <3>1. CASE q <= Consumed
      BY <2>2, <2>3, <3>1
    <3>2. CASE ~ (q <= Consumed)
      <4>1. Consumed < q /\ q - Consumed <= source.cap
        BY <1>0, <1>6, <1>7, <2>1, <2>3, <3>2
      <4>2. q - Consumed = source.cap => a = Len(buf) /\ q = Consumed + a
        BY <1>0, <1>6, <1>7, <2>1, <2>3
      <4>3. q - Consumed = source.cap => Text[q] = LF \/ q = Len(Text)
        <5>1. a = Len(buf) => Text[Consumed + a] = LF \/ Consumed + a = Len(Text)
          BY <1>12
        <5> QED BY <4>2, <5>1
      <4>4. Fits(Consumed, q)
        <5>1. q - Consumed \in Int /\ source.cap \in Int /\ q - Consumed <= source.cap
          BY <1>0, <1>6, <2>1, <4>1
        <5>2. ASSUME NEW m \in Int, NEW n \in Int, m <= n PROVE m < n \/ m = n
          BY <5>2
        <5>3. q - Consumed < source.cap \/ q - Consumed = source.cap
          BY <5>1, <5>2
        <5> QED BY <4>3, <5>3 DEF Fits
      <4> QED BY <2>2, <4>1, <4>4
    <3> QED BY <3>1, <3>2
  <2> QED BY <1>12, <2>3
<1> QED BY <1>2, <1>3, <1>4, <1>9, <1>10, <1>11, <1>13

-----------------------------------------------------------------------------
(* What the parser takes from a line is what it means.                      *)

\* The parser takes a line as the standard does.
LEMMA FieldsAgree ==
  ASSUME NEW line \in Seq(Symbol), line # <<>>
  PROVE  /\ ValueOf(line) = ParseValue(line)
         /\ \A name \in FieldNames : IsField(line, name) <=> FieldOf(line) = name
         /\ ValidID(line) <=> FieldOf(line) = "id:" /\ ContainsNoNul(ParseValue(line))
         /\ ValidRetry(line, ParseLimit) <=> FieldOf(line) = "retry:" /\ ParseUintOK(ParseValue(line))
<1>0. Len(line) \in Nat /\ Len(line) > 0 /\ Len(line) >= 1
  BY EmptySeq
<1>1. Tail(line) = From(line, 1)
  <2>1. 1 \in 0 .. Len(line)
    BY <1>0
  <2>2. /\ From(line, 1) \in Seq(Symbol) /\ Len(From(line, 1)) = Len(line) - 1
        /\ \A i \in 1 .. (Len(line) - 1) : From(line, 1)[i] = line[1 + i]
    BY <2>1, FromIs
  <2>3. /\ Tail(line) \in Seq(Symbol) /\ Len(Tail(line)) = Len(line) - 1
        /\ \A i \in 1 .. (Len(line) - 1) : Tail(line)[i] = line[i + 1]
    BY <1>0
  <2>4. \A i \in 1 .. (Len(line) - 1) : Tail(line)[i] = From(line, 1)[i]
    BY <1>0, <2>2, <2>3
  <2> QED BY <2>2, <2>3, <2>4, SameElements
<1>2. ValueOf(line) = ParseValue(line)
  <2>1. SubSeq(line, 3, Len(line)) = From(line, 2)
    BY DEF From
  <2> QED BY <1>1, <2>1 DEF ValueOf, ParseValue
<1>3. \A name \in FieldNames : IsField(line, name) <=> FieldOf(line) = name
  <2>1. /\ Bare["data:"] = "data" /\ Bare["event:"] = "event"
        /\ Bare["id:"] = "id" /\ Bare["retry:"] = "retry"
    BY DEF Bare, FieldNames
  <2>2. \A b : Head(<<b>>) = b
    OBVIOUS
  <2>3. CASE line \in {<<"data">>, <<"event">>, <<"id">>, <<"retry">>}
    BY <2>1, <2>2, <2>3 DEF FieldNames, IsField, FieldOf
  <2>4. CASE line \notin {<<"data">>, <<"event">>, <<"id">>, <<"retry">>}
    BY <2>1, <2>4 DEF FieldNames, IsField, FieldOf
  <2> QED BY <2>3, <2>4
<1>4. "id:" \in FieldNames /\ "retry:" \in FieldNames
  BY DEF FieldNames
<1> DEFINE value == ParseValue(line)
<1>5. Nul \notin ToSet(value) <=> ContainsNoNul(value)
  BY DEF ToSet, ContainsNoNul
<1>6. ToSet(value) \subseteq Digits <=> \A i \in DOMAIN value : value[i] \in Digits
  BY DEF ToSet
<1>7. ValidID(line) <=> FieldOf(line) = "id:" /\ ContainsNoNul(value)
  BY <1>2, <1>3, <1>4, <1>5 DEF ValidID
<1>8. ValidRetry(line, ParseLimit) <=> FieldOf(line) = "retry:" /\ ParseUintOK(value)
  <2> HIDE DEF value
  <2>1. ValueOf(line) = value
    BY <1>2 DEF value
  <2>2. IsField(line, "retry:") <=> FieldOf(line) = "retry:"
    BY <1>3, <1>4
  <2> QED BY <1>6, <2>1, <2>2 DEF ValidRetry, ParseUintOK
<1> QED BY <1>2, <1>3, <1>7, <1>8

\* A blank line sets nothing.
LEMMA BlankSetsNothing == ~ ValidID(<<>>) /\ ~ ValidRetry(<<>>, ParseLimit)
  BY DEF ValidID, ValidRetry, IsField

\* The event with the retry time as a uint holds it.
UintEvent(e) == [e EXCEPT !.retry = @ % source.uint]

\* One event more, as a uint holds its retry time.
LEMMA AsUintAppend ==
  ASSUME NEW S, NEW evts \in Seq(S), NEW e \in S
  PROVE  AsUint(Append(evts, e)) = Append(AsUint(evts), [e EXCEPT !.retry = @ % source.uint])
<1> DEFINE V == [x \in S |-> UintEvent(x)]
           t == Append(evts, e)
<1>1. [i \in DOMAIN t |-> V[t[i]]] = Append([i \in DOMAIN evts |-> V[evts[i]]], V[e])
  <2> HIDE DEF V
  <2> QED BY MapAppend
<1>2. AsUint(evts) = [i \in DOMAIN evts |-> UintEvent(evts[i])]
  BY DEF AsUint, UintEvent
<1>3. AsUint(t) = [i \in DOMAIN t |-> UintEvent(t[i])]
  BY DEF AsUint, UintEvent
<1>4. \A i \in DOMAIN evts : evts[i] \in S
  OBVIOUS
<1>5. \A i \in DOMAIN t : t[i] \in S
  <2>1. t \in Seq(S)
    BY AppendProperties
  <2> HIDE DEF t
  <2> QED BY <2>1
<1>6. AsUint(evts) = [i \in DOMAIN evts |-> V[evts[i]]]
  BY <1>2, <1>4
<1>7. AsUint(t) = [i \in DOMAIN t |-> V[t[i]]]
  <2> HIDE DEF t
  <2> QED BY <1>3, <1>5
<1>8. V[e] = UintEvent(e)
  OBVIOUS
<1> HIDE DEF V
<1>9. AsUint(t) = Append(AsUint(evts), UintEvent(e))
  BY <1>1, <1>6, <1>7, <1>8
<1> QED BY <1>9 DEF t, UintEvent

\* Where the parser is after consuming d symbols, the LF of a CRLF included.
After(T, d) == IF d \in 1 .. (Len(T) - 1) /\ T[d] = CR /\ T[d + 1] = LF THEN d + 1 ELSE d

\* At the end of a line it is there.
LEMMA AfterEnd ==
  ASSUME NEW T \in Seq(Symbol), NEW c \in {0} \cup LineEnds(T)
  PROVE  After(T, c) = c
<1>1. Len(T) \in Nat
  OBVIOUS
<1>2. CASE c \in LineEnds(T)
  <2>1. T[c] = LF \/ (T[c] = CR /\ ~ (c < Len(T) /\ T[c + 1] = LF))
    BY <1>2 DEF LineEnds
  <2>2. LF # CR
    BY DEF LF, CR
  <2>3. c \in 1 .. (Len(T) - 1) => c < Len(T)
    BY <1>1
  <2> QED BY <2>1, <2>2, <2>3 DEF After
<1>3. CASE c = 0
  BY <1>1, <1>3 DEF After
<1> QED BY <1>2, <1>3

\* The text holds data from position c + 1 on.
HoldsAt(T, c, data) == c + Len(data) <= Len(T) /\ \A i \in 1 .. Len(data) : data[i] = T[c + i]

\* What the split function finds in a part of the text that begins with a line:
\* that line, or the rest of a text without a terminator.
LEMMA FoundLine ==
  ASSUME NEW T \in Seq(Symbol), NEW c \in {0} \cup LineEnds(T),
         NEW data \in Seq(Symbol), HoldsAt(T, c, data), NEW atEOF \in BOOLEAN,
         NEW a, a = SplitSSELines(data, atEOF).advance, a > 0,
         NEW token, token = SplitSSELines(data, atEOF).token
  PROVE  \/ NextEnd(T, c, After(T, c + a)) /\ token = LineAt(T, After(T, c + a))
         \/ /\ After(T, c + a) = c + a /\ token # <<>> /\ c + a \in Nat /\ c <= c + a
            /\ \A e \in (c + 1) .. (c + a) : e \notin LineEnds(T)
            /\ c + a \notin {0} \cup LineEnds(T)
<1> USE DEF HoldsAt
<1> DEFINE i == FirstEOL(data)
           crlf == i # 0 /\ i < Len(data) /\ data[i] = CR /\ data[i + 1] = LF
<1>0. /\ Len(data) \in Nat /\ DOMAIN data = 1 .. Len(data) /\ Len(T) \in Nat /\ DOMAIN T = 1 .. Len(T)
      /\ c \in Nat /\ LF # CR /\ EOL = {CR, LF}
  BY EndsAre DEF EOL, CR, LF
<1>1. /\ i \in 0 .. Len(data)
      /\ i = 0 => \A j \in 1 .. Len(data) : data[j] \notin EOL
      /\ i # 0 => data[i] \in EOL /\ \A j \in 1 .. (i - 1) : data[j] \notin EOL
  BY FirstEOLIs
<1>2. SplitSSELines(data, atEOF) =
        IF i # 0 /\ data[i] = CR /\ i = Len(data) /\ ~atEOF THEN NoLine
        ELSE IF i # 0 THEN [advance |-> IF crlf THEN i + 1 ELSE i, token |-> Take(data, i - 1)]
        ELSE IF atEOF THEN [advance |-> Len(data), token |-> data]
        ELSE NoLine
  BY DEF SplitSSELines
<1>3. NoLine.advance = 0
  BY DEF NoLine
<1> HIDE DEF i
<1>4. ASSUME NEW e, e \in LineEnds(T) PROVE e \in 1 .. Len(T) /\ T[e] \in EOL
  BY <1>4, EndsAre
<1>5. CASE i = 0
  <2>1. a = Len(data) /\ token = data
    BY <1>2, <1>3, <1>5
  <2>2. \A j \in 1 .. a : data[j] \notin EOL /\ data[j] = T[c + j]
    BY <1>1, <1>5, <2>1
  <2>3. a \in Nat /\ a \in 1 .. a /\ c + a \in Nat /\ c <= c + a /\ c + a # 0
    BY <1>0, <2>1
  <2>4. ASSUME NEW e \in (c + 1) .. (c + a) PROVE T[e] \notin EOL
    <3>1. e - c \in 1 .. a /\ c + (e - c) = e
      BY <1>0, <2>3
    <3> QED BY <2>2, <3>1
  <2>5. c + a \in (c + 1) .. (c + a)
    BY <1>0, <2>3
  <2>6. T[c + a] # CR
    BY <1>0, <2>4, <2>5
  <2>7. After(T, c + a) = c + a
    BY <2>6 DEF After
  <2>8. token # <<>>
    BY <2>1, <2>3
  <2>9. \A e \in (c + 1) .. (c + a) : e \notin LineEnds(T)
    BY <1>4, <2>4
  <2> QED BY <2>3, <2>5, <2>7, <2>8, <2>9
<1>6. CASE i # 0
  <2> DEFINE q == After(T, c + a)
             f == c + i
  <2>1. a = (IF crlf THEN i + 1 ELSE i) /\ token = Take(data, i - 1)
    BY <1>2, <1>3, <1>6
  <2>2. i \in 1 .. Len(data) /\ i \in Nat /\ i > 0
    BY <1>0, <1>1, <1>6
  <2>3. f \in 1 .. Len(T) /\ T[f] = data[i] /\ f > c /\ f \in Nat
    BY <1>0, <2>2
  <2>4. ASSUME NEW e \in (c + 1) .. (f - 1) PROVE T[e] \notin EOL
    <3>1. e - c \in 1 .. (i - 1) /\ e - c \in 1 .. Len(data) /\ c + (e - c) = e
      BY <1>0, <2>2
    <3> QED BY <1>1, <1>6, <3>1
  <2>5. token = SubSeq(T, c + 1, f - 1)
    <3> DEFINE u == SubSeq(T, c + 1, f - 1)
    <3>1. token \in Seq(Symbol) /\ Len(token) = i - 1 /\ \A j \in 1 .. (i - 1) : token[j] = data[j]
      <4>1. i - 1 \in 0 .. Len(data)
        BY <1>0, <2>2
      <4> QED BY <2>1, <4>1, TakeIs, ZenonT(60)
    <3>2. c + 1 \in Int /\ f - 1 \in Int /\ \A j \in (c + 1) .. (f - 1) : T[j] \in Symbol
      BY <1>0, <2>3
    <3>3. /\ u \in Seq(Symbol) /\ Len(u) = (IF c + 1 <= f - 1 THEN (f - 1) - (c + 1) + 1 ELSE 0)
          /\ \A j \in 1 .. (f - 1) - (c + 1) + 1 : u[j] = T[(c + 1) + j - 1]
      BY <3>2, SubSeqProperties
    <3>4. Len(u) = i - 1 /\ (f - 1) - (c + 1) + 1 = i - 1
      BY <1>0, <2>2, <3>3
    <3>5. ASSUME NEW j \in 1 .. (i - 1) PROVE token[j] = u[j]
      <4>1. j \in 1 .. Len(data) /\ (c + 1) + j - 1 = c + j
        BY <1>0, <2>2
      <4>2. u[j] = T[(c + 1) + j - 1]
        BY <3>3, <3>4
      <4> QED BY <3>1, <4>1, <4>2
    <3> HIDE DEF u
    <3>6. token = u
      BY <3>1, <3>3, <3>4, <3>5, SameElements
    <3> QED BY <3>6 DEF u
  <2> HIDE DEF f
  <2>6. ASSUME q \in LineEnds(T), q = f \/ (q = f + 1 /\ f \notin LineEnds(T)),
               SubSeq(T, c + 1, f - 1) = LineBetween(T, c, q)
        PROVE  NextEnd(T, c, q) /\ token = LineAt(T, q)
    <3>1. c < q
      BY <1>0, <2>3, <2>6
    <3>2. ASSUME NEW e \in LineEnds(T), c < e, e < q PROVE FALSE
      <4>1. e \in Nat /\ T[e] \in EOL
        BY <1>0, <1>4
      <4>2. CASE e = f
        BY <2>3, <2>6, <3>2, <4>2
      <4>3. CASE e # f
        <5>1. e \in (c + 1) .. (f - 1)
          BY <1>0, <2>3, <2>6, <3>2, <4>1, <4>3
        <5> QED BY <2>4, <4>1, <5>1
      <4> QED BY <4>2, <4>3
    <3>3. NextEnd(T, c, q)
      BY <2>6, <3>1, <3>2 DEF NextEnd
    <3>4. LineAt(T, q) = LineBetween(T, c, q)
      BY <3>3, NextLineIs
    <3> QED BY <2>5, <2>6, <3>3, <3>4
  <2>7. ASSUME f + 1 \in 1 .. Len(T), T[f] = CR, T[f + 1] = LF
        PROVE  f + 1 \in LineEnds(T) /\ f \notin LineEnds(T)
               /\ SubSeq(T, c + 1, f - 1) = LineBetween(T, c, f + 1)
    <3>1. f + 1 \in LineEnds(T)
      BY <1>0, <2>7 DEF LineEnds
    <3>2. f < Len(T)
      BY <1>0, <2>3, <2>7
    <3>3. f \notin LineEnds(T)
      BY <1>0, <2>7, <3>2 DEF LineEnds
    <3>4. f + 1 > c + 1 /\ (f + 1) - 1 = f /\ (f + 1) - 2 = f - 1
      BY <1>0, <2>3
    <3>5. LineBetween(T, c, f + 1) = SubSeq(T, c + 1, (f + 1) - 2)
      BY <2>7, <3>4 DEF LineBetween
    <3> QED BY <3>1, <3>3, <3>4, <3>5
  <2>8. CASE crlf
    <3>1. c + a = f + 1 /\ f + 1 \in 1 .. Len(T) /\ T[f] = CR /\ T[f + 1] = LF
      <4>0. i < Len(data) /\ f = c + i
        BY <2>8 DEF f
      <4>1. i + 1 \in 1 .. Len(data) /\ c + (i + 1) = f + 1
        <5> HIDE DEF HoldsAt
        <5> QED BY <1>0, <2>2, <4>0
      <4>2. T[f + 1] = data[i + 1]
        BY <4>1
      <4>3. f + 1 \in 1 .. Len(T)
        BY <1>0, <4>1
      <4> QED BY <2>1, <2>3, <2>8, <4>1, <4>2, <4>3
    <3>2. q = f + 1
      BY <1>0, <3>1 DEF After
    <3> HIDE DEF q
    <3>3. NextEnd(T, c, q) /\ token = LineAt(T, q)
      BY <2>6, <2>7, <3>1, <3>2
    <3> QED BY <3>3 DEF q
  <2>9. CASE ~crlf
    <3>1. c + a = f /\ (T[f] = CR \/ T[f] = LF)
      BY <1>0, <1>1, <1>6, <2>1, <2>3, <2>9 DEF f
    <3>2. CASE f \in 1 .. (Len(T) - 1) /\ T[f] = CR /\ T[f + 1] = LF
      <4>1. f + 1 \in 1 .. Len(T)
        BY <1>0, <3>2
      <4>2. q = f + 1
        BY <3>1, <3>2 DEF After
      <4> HIDE DEF q
      <4>3. NextEnd(T, c, q) /\ token = LineAt(T, q)
        BY <2>6, <2>7, <3>2, <4>1, <4>2
      <4> QED BY <4>3 DEF q
    <3>3. CASE ~ (f \in 1 .. (Len(T) - 1) /\ T[f] = CR /\ T[f + 1] = LF)
      <4>1. q = f
        BY <3>1, <3>3 DEF After
      <4>2. f \in LineEnds(T)
        <5>1. CASE T[f] = LF
          BY <1>0, <2>3, <5>1 DEF LineEnds
        <5>2. CASE T[f] = CR
          <6>1. ~ (f < Len(T) /\ T[f + 1] = LF)
            BY <1>0, <2>3, <3>3, <5>2
          <6> QED BY <1>0, <2>3, <5>2, <6>1 DEF LineEnds
        <5> QED BY <3>1, <5>1, <5>2
      <4>3. ~ (f > c + 1 /\ T[f] = LF /\ T[f - 1] = CR)
        <5> SUFFICES ASSUME f > c + 1 PROVE T[f - 1] # CR
          OBVIOUS
        <5>1. f - 1 \in (c + 1) .. (f - 1)
          BY <1>0, <2>3
        <5> QED BY <1>0, <2>4, <5>1
      <4>4. LineBetween(T, c, f) = SubSeq(T, c + 1, f - 1)
        BY <4>3 DEF LineBetween
      <4> HIDE DEF q
      <4>5. NextEnd(T, c, q) /\ token = LineAt(T, q)
        BY <2>6, <4>1, <4>2, <4>4
      <4> QED BY <4>5 DEF q
    <3> QED BY <3>2, <3>3
  <2> QED BY <2>8, <2>9
<1> QED BY <1>5, <1>6

\* The events that blank lines could dispatch.
AnyEvents(s, limit) == {EventEnding(s, limit)[p] : p \in Nat}

\* The events of a text are a sequence of them.
LEMMA EventsSeq ==
  ASSUME NEW T, NEW n \in Nat, NEW limit
  PROVE  /\ EventsUpTo(T, n, limit) \in Seq(AnyEvents(T, limit))
         /\ Len(EventsUpTo(T, n, limit)) = Len(Ascending(Dispatching(T), n))
         /\ \A i \in 1 .. Len(Ascending(Dispatching(T), n)) :
              EventsUpTo(T, n, limit)[i] = EventEnding(T, limit)[Ascending(Dispatching(T), n)[i]]
<1> DEFINE A == Ascending(Dispatching(T), n)
           V == EventEnding(T, limit)
           R == {V[p] : p \in Nat}
           E == EventsUpTo(T, n, limit)
<1>1. A \in Seq(Nat) /\ E = [k \in DOMAIN A |-> V[A[k]]]
  BY EventsAre DEF EventsEnding
<1> HIDE DEF A, V, E
<1>2. Len(A) \in Nat /\ DOMAIN A = 1 .. Len(A) /\ \A k \in 1 .. Len(A) : A[k] \in Nat
  BY <1>1, LenProperties, ElementOfSeq
<1>3. \A k \in 1 .. Len(A) : V[A[k]] \in R
  BY <1>2
<1>4. E = [k \in 1 .. Len(A) |-> V[A[k]]]
  BY <1>1, <1>2
<1> HIDE DEF R
<1>5. E \in Seq(R) /\ Len(E) = Len(A) /\ \A k \in 1 .. Len(A) : E[k] = V[A[k]]
  BY <1>2, <1>3, <1>4
<1>6. R = AnyEvents(T, limit)
  BY DEF R, V, AnyEvents
<1> QED BY <1>5, <1>6 DEF A, V, E

\* What the parser does with the next line is what the line means.
LEMMA AcceptMeaning ==
  ASSUME source \in Sources, NEW T \in Seq(Symbol), NEW c, NEW q, NextEnd(T, c, q),
         NEW line \in Seq(Symbol), line = LineAt(T, q), AcceptLine(line),
         events = AsUint(EventsUpTo(T, c, ParseLimit)),
         frame = [type |-> TypeAt(T, c), data |-> DataAt(T, c)],
         lastID = IDAt(T, c), retry = RetryAt(T, c, ParseLimit) % source.uint
  PROVE  /\ events' = AsUint(EventsUpTo(T, q, ParseLimit))
         /\ frame' = [type |-> TypeAt(T, q), data |-> DataAt(T, q)]
         /\ lastID' = IDAt(T, q) /\ retry' = RetryAt(T, q, ParseLimit) % source.uint
<1>1. /\ TypeAt(T, q) = IF line = <<>> THEN Empty
                        ELSE IF IsField(line, "event:") THEN ValueOf(line) ELSE TypeAt(T, c)
      /\ IDAt(T, q) = IF ValidID(line) THEN ValueOf(line) ELSE IDAt(T, c)
      /\ RetryAt(T, q, ParseLimit) = IF ValidRetry(line, ParseLimit) THEN Decimal(ValueOf(line))
                                     ELSE RetryAt(T, c, ParseLimit)
  BY NextValues
<1>2. DataAt(T, q) = IF line = <<>> THEN <<>>
                     ELSE IF IsField(line, "data:") THEN Append(DataAt(T, c), ValueOf(line))
                     ELSE DataAt(T, c)
  BY NextData
<1>3. EventsUpTo(T, q, ParseLimit) =
        IF line = <<>> /\ DataAt(T, c) # <<>>
          THEN Append(EventsUpTo(T, c, ParseLimit), EventAt(T, c, ParseLimit))
          ELSE EventsUpTo(T, c, ParseLimit)
  BY NextEvents
<1>4. frame.type = TypeAt(T, c) /\ frame.data = DataAt(T, c)
  OBVIOUS
<1>5. CASE line = <<>> /\ DispatchFrame
  <2>1. /\ frame' = NoFrame /\ lastID' = lastID /\ retry' = retry
        /\ events' = IF frame.data # <<>>
                       THEN Append(events, [type |-> frame.type, data |-> frame.data,
                                            id |-> lastID, retry |-> retry])
                       ELSE events
    BY <1>5 DEF DispatchFrame
  <2>2. frame' = [type |-> TypeAt(T, q), data |-> DataAt(T, q)]
    BY <1>1, <1>2, <1>5, <2>1 DEF NoFrame
  <2>3. lastID' = IDAt(T, q) /\ retry' = RetryAt(T, q, ParseLimit) % source.uint
    BY <1>1, <1>5, <2>1, BlankSetsNothing
  <2>4. events' = AsUint(EventsUpTo(T, q, ParseLimit))
    <3>1. CASE DataAt(T, c) # <<>>
      <4> DEFINE S == AnyEvents(T, ParseLimit)
                 evts == EventsUpTo(T, c, ParseLimit)
                 e == EventAt(T, c, ParseLimit)
      <4>1. c \in Nat /\ c + 1 \in Nat /\ (c + 1) - 1 = c
        <5>1. c \in Nat
          BY NextLineIs
        <5> QED BY <5>1
      <4>2. evts \in Seq(S)
        BY <4>1, EventsSeq
      <4>3. e \in S
        <5>1. EventEnding(T, ParseLimit)[c + 1] = e
          BY <4>1 DEF EventEnding
        <5> QED BY <4>1, <5>1 DEF AnyEvents
      <4>4. [e EXCEPT !.retry = @ % source.uint]
              = [type |-> frame.type, data |-> frame.data, id |-> lastID, retry |-> retry]
        BY <1>4 DEF EventAt
      <4> HIDE DEF S, evts, e
      <4>5. AsUint(Append(evts, e)) = Append(AsUint(evts), [e EXCEPT !.retry = @ % source.uint])
        BY <4>2, <4>3, AsUintAppend
      <4>6. events' = Append(AsUint(evts), [e EXCEPT !.retry = @ % source.uint])
        BY <1>4, <2>1, <3>1, <4>4 DEF evts
      <4>7. EventsUpTo(T, q, ParseLimit) = Append(evts, e)
        BY <1>3, <1>5, <3>1 DEF evts, e
      <4> QED BY <4>5, <4>6, <4>7
    <3>2. CASE DataAt(T, c) = <<>>
      BY <1>3, <1>4, <2>1, <3>2
    <3> QED BY <3>1, <3>2
  <2> QED BY <2>2, <2>3, <2>4
<1>6. CASE line # <<>> /\ ApplyField(line)
  <2> DEFINE value == ParseValue(line)
             name == FieldOf(line)
  <2>1. frame' = CASE name = "event:" -> [frame EXCEPT !.type = value]
                   [] name = "data:"  -> [frame EXCEPT !.data = Append(@, value)]
                   [] OTHER -> frame
    BY <1>6 DEF ApplyField
  <2>2. /\ lastID' = IF name = "id:" /\ ContainsNoNul(value) THEN value ELSE lastID
        /\ retry' = IF name = "retry:" /\ ParseUintOK(value) THEN Decimal(value) % source.uint ELSE retry
        /\ events' = events
    BY <1>6 DEF ApplyField
  <2>3. /\ ValueOf(line) = value
        /\ IsField(line, "event:") <=> name = "event:"
        /\ IsField(line, "data:") <=> name = "data:"
        /\ ValidID(line) <=> name = "id:" /\ ContainsNoNul(value)
        /\ ValidRetry(line, ParseLimit) <=> name = "retry:" /\ ParseUintOK(value)
    <3>1. "event:" \in FieldNames /\ "data:" \in FieldNames
      BY DEF FieldNames
    <3> QED BY <1>6, <3>1, FieldsAgree
  <2> HIDE DEF value, name
  <2>4. events' = AsUint(EventsUpTo(T, q, ParseLimit))
    BY <1>3, <1>6, <2>2
  <2>5. lastID' = IDAt(T, q)
    BY <1>1, <2>2, <2>3
  <2>6. retry' = RetryAt(T, q, ParseLimit) % source.uint
    BY <1>1, <2>2, <2>3
  <2>7. frame' = [type |-> TypeAt(T, q), data |-> DataAt(T, q)]
    <3>1. CASE name = "event:"
      <4>1. TypeAt(T, q) = value /\ DataAt(T, q) = DataAt(T, c)
        BY <1>1, <1>2, <1>6, <2>3, <3>1
      <4>2. frame' = [frame EXCEPT !.type = value]
        BY <2>1, <3>1
      <4> QED BY <4>1, <4>2
    <3>2. CASE name = "data:"
      <4>1. TypeAt(T, q) = TypeAt(T, c) /\ DataAt(T, q) = Append(DataAt(T, c), value)
        BY <1>1, <1>2, <1>6, <2>3, <3>2
      <4>2. frame' = [frame EXCEPT !.data = Append(@, value)]
        BY <2>1, <3>2
      <4> QED BY <4>1, <4>2
    <3>3. CASE name # "event:" /\ name # "data:"
      <4>1. TypeAt(T, q) = TypeAt(T, c) /\ DataAt(T, q) = DataAt(T, c)
        BY <1>1, <1>2, <1>6, <2>3, <3>3
      <4>2. frame' = frame
        BY <2>1, <3>3
      <4> QED BY <4>1, <4>2
    <3> QED BY <3>1, <3>2, <3>3
  <2> QED BY <2>4, <2>5, <2>6, <2>7
<1> QED BY <1>5, <1>6 DEF AcceptLine

-----------------------------------------------------------------------------
(* What the parser holds is what the text means.                            *)

\* Reached, in terms of the text and what is consumed.
LEMMA ReachedIs == Reached = After(Text, Consumed)
  BY DEF Reached, After

\* Nothing is parsed, nothing is known.
LEMMA InitMeaning == Init => MeaningInv /\ ReturnInv
<1> SUFFICES ASSUME Init PROVE MeaningInv /\ ReturnInv
  OBVIOUS
<1>1. /\ checked = FALSE /\ frame = NoFrame /\ lastID = Empty /\ retry = 0 /\ events = <<>>
      /\ returned = <<>> /\ status = "reading"
  BY DEF Init
<1>2. Len(events) = 0 /\ Count \in Nat /\ Count > 0
  BY <1>1, ReaderAssumption
<1>3. MeaningInv
  BY <1>1 DEF MeaningInv
<1> QED BY <1>1, <1>2, <1>3 DEF ReturnInv

\* The probe hands the parser nothing.
LEMMA ProbeMeaning ==
  ASSUME ParserInv, PieceInv, EndInv, MeaningInv, Probe, ParserInv'
  PROVE  MeaningInv'
<1>1. /\ ~checked /\ checked' /\ source' = source /\ source \in Sources
      /\ UNCHANGED <<frame, lastID, retry, events>>
  BY DEF Probe, inVars, parserVars, ParserInv
<1>2. Consumed' = 0
  BY ProbePosition
<1>3. Text' \in Seq(Symbol) /\ Len(Text') \in Nat
  <2>1. source' \in Sources
    BY <1>1
  <2>2. source.bytes \in Seq(Symbol) /\ Len(BOM) = 3
    BY <1>1, SourceIs DEF BOM
  <2>3. source'.bytes \in Seq(Symbol)
    BY <1>1, <2>2
  <2>4. CASE IsPrefix(BOM, source'.bytes) /\ probeErr' # "fail"
    <3>1. 3 \in 0 .. Len(source'.bytes)
      BY <2>2, <2>3, <2>4 DEF IsPrefix
    <3>2. From(source'.bytes, 3) \in Seq(Symbol)
      BY <2>3, <3>1, FromIs
    <3>3. Text' = From(source'.bytes, 3)
      BY <2>2, <2>4 DEF Text
    <3> QED BY <3>2, <3>3, LenProperties
  <2>5. CASE ~ (IsPrefix(BOM, source'.bytes) /\ probeErr' # "fail")
    BY <2>3, <2>5, LenProperties DEF Text
  <2> QED BY <2>4, <2>5
<1>4. Reached' = 0
  <2>1. ~ (0 \in 1 .. (Len(Text') - 1))
    BY <1>3
  <2> QED BY <1>2, <2>1 DEF Reached
<1>5. frame = NoFrame /\ lastID = Empty /\ retry = 0 /\ events = <<>>
  BY <1>1 DEF MeaningInv
<1> DEFINE T == Text'
<1>6. /\ EventsUpTo(T, 0, ParseLimit) = <<>> /\ TypeAt(T, 0) = Empty /\ DataAt(T, 0) = <<>>
      /\ IDAt(T, 0) = Empty /\ RetryAt(T, 0, ParseLimit) = 0
  <2> HIDE DEF T
  <2>1. T \in Seq(Symbol)
    BY <1>3 DEF T
  <2> QED BY <2>1, NothingAtZero
<1>7. 0 % source.uint = 0
  BY <1>1, SourceIs
<1>8. frame' = [type |-> TypeAt(T, 0), data |-> DataAt(T, 0)]
  BY <1>1, <1>5, <1>6 DEF NoFrame
<1>9. lastID' = IDAt(T, 0) /\ retry' = RetryAt(T, 0, ParseLimit) % source'.uint
  BY <1>1, <1>5, <1>6, <1>7
<1>10. events' = AsUint(EventsUpTo(Text, Reached, ParseLimit))'
  <2>1. EventsUpTo(Text', Reached', ParseLimit) = <<>>
    BY <1>4, <1>6
  <2>2. AsUint(EventsUpTo(Text, Reached, ParseLimit))' = <<>>
    BY <2>1 DEF AsUint
  <2> QED BY <1>1, <1>5, <2>2
<1> HIDE DEF T
<1>11. Text' = T
  BY DEF T
<1> QED BY <1>1, <1>4, <1>8, <1>9, <1>10, <1>11 DEF MeaningInv

\* Neither do the steps between lines.
LEMMA SameMeaning ==
  ASSUME MeaningInv, checked' = checked, Text' = Text, Consumed' = Consumed,
         UNCHANGED <<source, frame, lastID, retry, events>>
  PROVE  MeaningInv'
<1>1. Reached' = Reached
  BY DEF Reached
<1> QED BY <1>1 DEF MeaningInv, AsUint

\* A line goes to the parser with what it means.
LEMMA ScanMeaning ==
  ASSUME ParserInv, PieceInv, EndInv, LineInv, MeaningInv, ScanLine, ParserInv'
  PROVE  MeaningInv'
<1> DEFINE T == Text
           c == Consumed
           a == Split.advance
           token == Split.token
           q == After(T, c + a)
<1>1. checked /\ Text' = T /\ Consumed' = c + a
  BY ScanLinePosition
<1>2. /\ a \in 1 .. Len(buf) /\ token \in Seq(Symbol) /\ AcceptLine(token)
      /\ source' = source /\ checked' = checked
  BY ScanLineIs
<1>3. T \in Seq(Symbol) /\ source \in Sources /\ buf \in Seq(Symbol) /\ Len(buf) \in Nat /\ Len(T) \in Nat
  BY TextIs, LenProperties DEF ParserInv, TypeOK
<1>4. c \in Nat /\ c + Len(buf) \in 0 .. Len(T) /\ \A i \in 1 .. Len(buf) : buf[i] = T[c + i]
  BY <1>1, BufferIsText
<1>5. c \in {0} \cup LineEnds(T)
  <2>1. Len(buf) > 0
    BY <1>2, <1>3
  <2>2. buf # <<>>
    BY <2>1
  <2>3. c \in {0, Len(T)} \cup LineEnds(T)
    BY <1>1, <2>2 DEF LineInv, Ends
  <2>4. c # Len(T)
    BY <1>3, <1>4, <2>1
  <2> QED BY <2>3, <2>4
<1>6. Reached = c
  <2> HIDE DEF T, c
  <2>1. After(T, c) = c
    BY <1>3, <1>5, AfterEnd
  <2> QED BY <2>1, ReachedIs DEF T, c
<1>7. /\ events = AsUint(EventsUpTo(T, c, ParseLimit))
      /\ frame = [type |-> TypeAt(T, c), data |-> DataAt(T, c)]
      /\ lastID = IDAt(T, c) /\ retry = RetryAt(T, c, ParseLimit) % source.uint
  <2>1. Reached \in {0} \cup LineEnds(Text)
    BY <1>5, <1>6
  <2> QED BY <1>1, <1>6, <2>1 DEF MeaningInv
<1>8. Reached' = q
  BY <1>1 DEF Reached, After
<1>9. \/ NextEnd(T, c, q) /\ token = LineAt(T, q)
      \/ /\ q = c + a /\ token # <<>> /\ c + a \in Nat /\ c <= c + a
         /\ \A e \in (c + 1) .. (c + a) : e \notin LineEnds(T)
         /\ c + a \notin {0} \cup LineEnds(T)
  <2> DEFINE atEOF == err # "none"
  <2>1. atEOF \in BOOLEAN /\ a = SplitSSELines(buf, atEOF).advance /\ token = SplitSSELines(buf, atEOF).token
    BY DEF Split
  <2>2. a > 0 /\ c + Len(buf) <= Len(T)
    BY <1>2, <1>3, <1>4
  <2> HIDE DEF T, c, a, token, q, atEOF
  <2>3. HoldsAt(T, c, buf)
    BY <1>4, <2>2 DEF HoldsAt
  <2>4. \/ NextEnd(T, c, After(T, c + a)) /\ token = LineAt(T, After(T, c + a))
        \/ /\ After(T, c + a) = c + a /\ token # <<>> /\ c + a \in Nat /\ c <= c + a
           /\ \A e \in (c + 1) .. (c + a) : e \notin LineEnds(T)
           /\ c + a \notin {0} \cup LineEnds(T)
    BY <1>3, <1>5, <2>1, <2>2, <2>3, FoundLine
  <2> QED BY <2>4 DEF q
<1> HIDE DEF T, c, a, token, q
<1>10. CASE NextEnd(T, c, q) /\ token = LineAt(T, q)
  <2>1. /\ events' = AsUint(EventsUpTo(T, q, ParseLimit))
        /\ frame' = [type |-> TypeAt(T, q), data |-> DataAt(T, q)]
        /\ lastID' = IDAt(T, q) /\ retry' = RetryAt(T, q, ParseLimit) % source.uint
    BY <1>2, <1>3, <1>7, <1>10, AcceptMeaning
  <2>2. AsUint(EventsUpTo(Text, Reached, ParseLimit))' = AsUint(EventsUpTo(T, q, ParseLimit))
    BY <1>1, <1>2, <1>8 DEF AsUint
  <2> QED BY <1>1, <1>2, <1>8, <2>1, <2>2 DEF MeaningInv
<1>11. CASE /\ q = c + a /\ token # <<>> /\ c + a \in Nat /\ c <= c + a
            /\ \A e \in (c + 1) .. (c + a) : e \notin LineEnds(T)
            /\ c + a \notin {0} \cup LineEnds(T)
  <2>1. events' = events
    BY <1>2, <1>11 DEF AcceptLine, ApplyField
  <2>2. EventsUpTo(T, c + a, ParseLimit) = EventsUpTo(T, c, ParseLimit)
    <3> DEFINE d == c + a
    <3>1. d \in Nat /\ c <= d /\ \A e \in (c + 1) .. d : e \notin LineEnds(T)
      BY <1>11
    <3> HIDE DEF d
    <3>2. EventsUpTo(T, d, ParseLimit) = EventsUpTo(T, c, ParseLimit)
      BY <1>3, <1>4, <3>1, SameEvents
    <3> QED BY <3>2 DEF d
  <2>3. AsUint(EventsUpTo(Text, Reached, ParseLimit))' = AsUint(EventsUpTo(T, c, ParseLimit))
    BY <1>1, <1>2, <1>8, <1>11, <2>2 DEF AsUint
  <2>4. ~ (Reached' \in {0} \cup LineEnds(Text'))
    BY <1>1, <1>8, <1>11
  <2> QED BY <1>1, <1>2, <1>7, <2>1, <2>3, <2>4 DEF MeaningInv
<1> QED BY <1>9, <1>10, <1>11

\* At the end of the stream the split function finds a line as long as there
\* is anything left.
LEMMA SplitAtEnd ==
  ASSUME NEW data \in Seq(Symbol), SplitSSELines(data, TRUE).advance = 0
  PROVE  data = <<>>
<1> DEFINE i == FirstEOL(data)
           crlf == i # 0 /\ i < Len(data) /\ data[i] = CR /\ data[i + 1] = LF
           a == SplitSSELines(data, TRUE).advance
<1>1. i \in 0 .. Len(data) /\ Len(data) \in Nat
  BY FirstEOLIs, LenProperties
<1>2. a = IF i # 0 THEN (IF crlf THEN i + 1 ELSE i) ELSE Len(data)
  <2>1. CASE i # 0
    BY <2>1 DEF SplitSSELines
  <2>2. CASE i = 0
    BY <2>2 DEF SplitSSELines
  <2> QED BY <2>1, <2>2
<1>3. a = 0
  OBVIOUS
<1> HIDE DEF i, a, crlf
<1>4. Len(data) = 0
  BY <1>1, <1>2, <1>3
<1> QED BY <1>4, EmptySeq

\* When the scan stops at the end of the stream, all of the text is consumed.
LEMMA StopAtEnd ==
  ASSUME ParserInv, EndInv, ScanStop, err = "eof"
  PROVE  Consumed = Len(Text)
<1>1. buf \in Seq(Symbol) /\ pending = <<>> /\ rest = <<>>
  BY DEF ParserInv, TypeOK, EndInv
<1>2. SplitSSELines(buf, TRUE).advance = 0
  <2>1. (err # "none") = TRUE
    OBVIOUS
  <2> QED BY <2>1 DEF ScanStop, Split
<1>3. buf = <<>>
  BY <1>1, <1>2, SplitAtEnd
<1>4. Len(Text) \in Nat
  BY TextIs DEF ParserInv
<1> QED BY <1>1, <1>3, <1>4 DEF Consumed

\* A line dispatches one event at most.
LEMMA OneEvent ==
  ASSUME ParserInv, NEW line, AcceptLine(line)
  PROVE  Len(events) \in Nat /\ Len(events') \in {Len(events), Len(events) + 1}
<1>1. events \in Seq(Event) /\ Len(events) \in Nat
  BY LenProperties DEF ParserInv, TypeOK
<1> DEFINE e == [type |-> frame.type, data |-> frame.data, id |-> lastID, retry |-> retry]
<1>2. events' = events \/ events' = Append(events, e)
  BY DEF AcceptLine, DispatchFrame, ApplyField
<1> HIDE DEF e
<1>3. Len(Append(events, e)) = Len(events) + 1
  BY <1>1
<1> QED BY <1>1, <1>2, <1>3

\* Reading returns nothing.
LEMMA ReadReturn ==
  ASSUME ReturnInv, Probe \/ ReadPending \/ ReadBytes \/ ReadError \/ TooLong
  PROVE  ReturnInv'
<1>1. /\ status = "reading" /\ UNCHANGED <<api, status, returned, events>>
  BY DEF Probe, ReadPending, ReadBytes, ReadError, TooLong, NeedsInput, inVars, parserVars
<1> QED BY <1>1 DEF ReturnInv

\* What the functions return.
LEMMA ScanReturn ==
  ASSUME ParserInv, PieceInv, EndInv, ReturnInv, ReadEvents \/ ReadNEvents \/ NextEvent
  PROVE  ReturnInv'
<1>1. status = "reading" /\ api' = api /\ err' = err /\ Count \in Nat /\ Count > 0
  BY ReaderAssumption DEF ReadEvents, ReadNEvents, NextEvent, ScanLine, ScanStop, inVars
<1>2. /\ api # "Next" => returned = <<>>
      /\ api = "ReadNEvents" => Len(events) < Count
  BY <1>1 DEF ReturnInv
<1>3. err \in {"none", "eof", "fail", "toolong"}
  BY DEF ParserInv, TypeOK
<1>4. ScanStop => err # "none" /\ events' = events
  BY DEF ScanStop, parserVars
<1>5. ScanStop /\ err = "eof" => Consumed' = Len(Text')
  <2> SUFFICES ASSUME ScanStop, err = "eof" PROVE Consumed' = Len(Text')
    OBVIOUS
  <2>1. Consumed = Len(Text)
    BY StopAtEnd
  <2>2. UNCHANGED <<source, probeErr, buf, pending, rest>>
    BY DEF ScanStop, inVars, bomVars
  <2> QED BY <2>1, <2>2 DEF Consumed, Text
<1>6. ScanLine => Len(events) \in Nat /\ Len(events') \in {Len(events), Len(events) + 1}
  <2> SUFFICES ASSUME ScanLine PROVE Len(events) \in Nat /\ Len(events') \in {Len(events), Len(events) + 1}
    OBVIOUS
  <2>1. AcceptLine(Split.token)
    BY DEF ScanLine
  <2> QED BY <2>1, OneEvent
<1>7. CASE ReadEvents
  <2>1. api = "ReadEvents"
    BY <1>7 DEF ReadEvents
  <2>2. CASE ScanLine /\ UNCHANGED <<returned, status>>
    BY <1>1, <1>2, <2>1, <2>2 DEF ReturnInv
  <2>3. CASE ScanStop /\ err # "eof" /\ status' = "error" /\ UNCHANGED returned
    BY <1>1, <1>2, <2>1, <2>3 DEF ReturnInv
  <2>4. CASE ScanStop /\ err = "eof" /\ status' = "ok" /\ returned' = events
    BY <1>1, <1>4, <1>5, <2>1, <2>4 DEF ReturnInv
  <2> QED BY <1>7, <2>2, <2>3, <2>4 DEF ReadEvents
<1>8. CASE ReadNEvents
  <2>1. api = "ReadNEvents" /\ returned' = (IF status' = "ok" THEN events' ELSE returned)
    BY <1>8 DEF ReadNEvents
  <2>2. CASE ScanLine /\ status' = IF Len(events') >= Count THEN "ok" ELSE status
    <3>1. Len(events') \in Nat /\ Len(events') <= Count
      BY <1>1, <1>2, <1>6, <2>1, <2>2
    <3>2. CASE Len(events') >= Count
      <4>1. status' = "ok" /\ returned' = events' /\ Len(events') = Count
        BY <1>1, <2>1, <2>2, <3>1, <3>2
      <4>2. events' # <<>>
        BY <1>1, <4>1
      <4> QED BY <1>1, <2>1, <3>1, <4>1, <4>2 DEF ReturnInv
    <3>3. CASE ~ (Len(events') >= Count)
      <4>1. status' = "reading" /\ returned' = <<>> /\ Len(events') < Count
        BY <1>1, <1>2, <2>1, <2>2, <3>1, <3>3
      <4> QED BY <1>1, <2>1, <3>1, <4>1 DEF ReturnInv
    <3> QED BY <3>2, <3>3
  <2>3. CASE ScanStop /\ status' = IF err # "eof" /\ events = <<>> THEN "error" ELSE "ok"
    <3>1. events' = events /\ err # "none" /\ Len(events) < Count /\ Len(events) \in Nat
      <4>1. events \in Seq(Event)
        BY DEF ParserInv, TypeOK
      <4> QED BY <1>2, <1>4, <2>1, <2>3, <4>1
    <3>2. Len(events) <= Count
      BY <1>1, <3>1
    <3>3. CASE err # "eof" /\ events = <<>>
      <4>1. status' = "error" /\ returned' = <<>>
        BY <1>2, <2>1, <2>3, <3>3
      <4> QED BY <1>1, <2>1, <3>1, <3>2, <3>3, <4>1 DEF ReturnInv
    <3>4. CASE err = "eof"
      <4>1. status' = "ok" /\ returned' = events' /\ Consumed' = Len(Text')
        BY <1>5, <2>1, <2>3, <3>4
      <4> QED BY <1>1, <2>1, <3>1, <3>2, <3>4, <4>1 DEF ReturnInv
    <3>5. CASE err # "eof" /\ events # <<>>
      <4>1. status' = "ok" /\ returned' = events' /\ err \in {"fail", "toolong"}
        BY <1>3, <2>1, <2>3, <3>1, <3>5
      <4> QED BY <1>1, <2>1, <3>1, <3>2, <3>5, <4>1 DEF ReturnInv
    <3> QED BY <3>3, <3>4, <3>5
  <2> QED BY <1>8, <2>2, <2>3 DEF ReadNEvents
<1>9. CASE NextEvent
  <2>1. api = "Next" /\ returned' = events'
    BY <1>9 DEF NextEvent
  <2>2. CASE ScanLine /\ UNCHANGED status
    BY <1>1, <2>1, <2>2 DEF ReturnInv
  <2>3. CASE ScanStop /\ status' = IF err = "eof" THEN "eof" ELSE "error"
    BY <1>1, <1>5, <2>1, <2>3 DEF ReturnInv
  <2> QED BY <1>9, <2>2, <2>3 DEF NextEvent
<1> QED BY <1>7, <1>8, <1>9

-----------------------------------------------------------------------------
(* The events are the first of the stream's.                                *)

\* The events of a part of the text are the first of the events of the whole.
LEMMA EventsPrefix ==
  ASSUME NEW T, NEW c \in Nat, NEW d \in Nat, c <= d, NEW limit
  PROVE  /\ IsPrefix(AsUint(EventsUpTo(T, c, limit)), AsUint(EventsUpTo(T, d, limit)))
         /\ \E R : AsUint(EventsUpTo(T, d, limit)) \in Seq(R)
<1> DEFINE A(n) == Ascending(Dispatching(T), n)
           V == EventEnding(T, limit)
           E(n) == EventsUpTo(T, n, limit)
           U(n) == AsUint(E(n))
           R == {UintEvent(V[p]) : p \in Nat}
<1>1. ASSUME NEW n \in Nat
      PROVE  /\ U(n) \in Seq(R) /\ Len(U(n)) = Len(A(n)) /\ Len(A(n)) \in Nat
             /\ \A i \in 1 .. Len(A(n)) : U(n)[i] = UintEvent(V[A(n)[i]])
  <2> DEFINE m == Len(A(n))
             u == U(n)
  <2>1. A(n) \in Seq(Nat)
    BY EventsAre
  <2>2. m \in Nat /\ \A i \in 1 .. m : A(n)[i] \in Nat
    <3> HIDE DEF A
    <3> QED BY <2>1, LenProperties, ElementOfSeq
  <2>3. E(n) \in Seq(AnyEvents(T, limit)) /\ Len(E(n)) = m /\ \A i \in 1 .. m : E(n)[i] = V[A(n)[i]]
    BY EventsSeq, SMTT(60)
  <2> HIDE DEF E, A, V
  <2>4. DOMAIN E(n) = 1 .. m
    BY <2>3, LenProperties
  <2>5. u = [i \in 1 .. m |-> UintEvent(V[A(n)[i]])]
    BY <2>3, <2>4 DEF AsUint, UintEvent
  <2>6. \A i \in 1 .. m : UintEvent(V[A(n)[i]]) \in R
    BY <2>2
  <2> HIDE DEF m, u, R
  <2>7. u \in Seq(R) /\ Len(u) = m /\ \A i \in 1 .. m : u[i] = UintEvent(V[A(n)[i]])
    BY <2>2, <2>5, <2>6
  <2> QED BY <2>2, <2>7 DEF m, u
<1>2. Len(A(c)) <= Len(A(d)) /\ \A i \in 1 .. Len(A(c)) : A(c)[i] = A(d)[i]
  BY AscendingPrefix
<1> HIDE DEF A, V, U, R
<1> DEFINE n == Len(A(c))
<1>3. /\ n \in Nat /\ Len(U(c)) = n /\ n \in 0 .. Len(U(d)) /\ n \in 0 .. Len(U(c))
      /\ U(c) \in Seq(R) /\ U(d) \in Seq(R)
  BY <1>1, <1>2
<1>4. ASSUME NEW i \in 1 .. n PROVE U(c)[i] = U(d)[i]
  <2>1. i \in 1 .. Len(A(c)) /\ i \in 1 .. Len(A(d))
    BY <1>1, <1>2
  <2>2. U(c)[i] = UintEvent(V[A(c)[i]])
    BY <1>1, <2>1
  <2>3. U(d)[i] = UintEvent(V[A(d)[i]])
    BY <1>1, <2>1
  <2>4. A(c)[i] = A(d)[i]
    BY <1>2, <2>1
  <2> QED BY <2>2, <2>3, <2>4
<1>5. Take(U(c), n) = Take(U(d), n)
  <2>1. Take(U(c), n) \in Seq(R) /\ Len(Take(U(c), n)) = n /\ \A i \in 1 .. n : Take(U(c), n)[i] = U(c)[i]
    BY <1>3, TakeIs
  <2>2. Take(U(d), n) \in Seq(R) /\ Len(Take(U(d), n)) = n /\ \A i \in 1 .. n : Take(U(d), n)[i] = U(d)[i]
    BY <1>3, TakeIs
  <2>3. \A i \in 1 .. n : Take(U(c), n)[i] = Take(U(d), n)[i]
    BY <1>4, <2>1, <2>2
  <2> HIDE DEF n
  <2> QED BY <2>1, <2>2, <2>3, SameElements
<1>6. IsPrefix(U(c), U(d))
  <2>1. Len(U(c)) <= Len(U(d))
    BY <1>3
  <2> QED BY <1>3, <1>5, <2>1 DEF IsPrefix, Take
<1> QED BY <1>3, <1>6 DEF U

\* Nothing comes before everything.
LEMMA NothingIsPrefix ==
  ASSUME NEW R, NEW t \in Seq(R)
  PROVE  IsPrefix(<<>>, t)
<1>1. Len(<<>>) = 0 /\ Len(t) \in Nat
  BY LenProperties
<1>2. SubSeq(<<>>, 1, 0) = <<>> /\ SubSeq(t, 1, 0) = <<>>
  BY SubSeqEmpty
<1> QED BY <1>1, <1>2 DEF IsPrefix

\* What the stream means, with retry times as a uint holds them.
Whole == AsUint(Meaning(source.bytes, ParseLimit))

\* A stream begins with a BOM if its first three symbols are one.
LEMMA BeginsWithBOM ==
  ASSUME NEW bytes \in Seq(Symbol), IsPrefix(BOM, bytes)
  PROVE  Len(bytes) >= 3 /\ \A i \in 1 .. 3 : bytes[i] = BOM[i] /\ bytes[i] \notin EOL
<1>1. Len(BOM) = 3 /\ Len(bytes) \in Nat
  BY LenProperties DEF BOM
<1>2. Len(bytes) >= 3 /\ SubSeq(BOM, 1, 3) = SubSeq(bytes, 1, 3)
  BY <1>1 DEF IsPrefix
<1> DEFINE B == {"b1", "b2", "b3"}
<1>3. BOM \in Seq(B) /\ 3 \in 0 .. Len(BOM) /\ 3 \in 0 .. Len(bytes)
  BY <1>1, <1>2, BomIs
<1>4. \A i \in 1 .. 3 : BOM[i] \in B /\ BOM[i] \notin EOL
  BY DEF BOM, EOL, CR, LF
<1> HIDE DEF B
<1>5. \A i \in 1 .. 3 : Take(BOM, 3)[i] = BOM[i]
  BY <1>3, TakeIs
<1>6. \A i \in 1 .. 3 : Take(bytes, 3)[i] = bytes[i]
  BY <1>3, TakeIs
<1>7. Take(BOM, 3) = Take(bytes, 3)
  BY <1>2 DEF Take
<1>8. \A i \in 1 .. 3 : bytes[i] = BOM[i]
  BY <1>5, <1>6, <1>7
<1> QED BY <1>2, <1>4, <1>8

\* The reader has dispatched the first so many of the events that the stream
\* means, and all of them once the text is consumed up to its end.
LEMMA ReadsMeaning ==
  ASSUME source \in Sources, ParserInv, PieceInv, EndInv, MeaningInv
  PROVE  /\ IsPrefix(events, Whole)
         /\ checked /\ err = "eof" /\ Consumed = Len(Text) => events = Whole
<1> DEFINE bytes == source.bytes
           W == WithoutBOM(bytes)
           all == EventsUpTo(W, Len(W), ParseLimit)
<1>1. bytes \in Seq(Symbol) /\ Len(bytes) \in Nat /\ Len(BOM) = 3
  BY SourceIs, LenProperties DEF BOM
<1>2. W \in Seq(Symbol) /\ Len(W) \in Nat
  <2> HIDE DEF bytes
  <2>1. CASE IsPrefix(BOM, bytes)
    <3>1. 3 \in 0 .. Len(bytes)
      BY <1>1, <2>1 DEF IsPrefix
    <3>2. W = From(bytes, 3)
      BY <2>1 DEF WithoutBOM, From
    <3>3. From(bytes, 3) \in Seq(Symbol)
      BY <1>1, <3>1, FromIs
    <3> QED BY <3>2, <3>3, LenProperties
  <2>2. CASE ~ IsPrefix(BOM, bytes)
    BY <1>1, <2>2 DEF WithoutBOM
  <2> QED BY <2>1, <2>2
<1>3. Whole = AsUint(all)
  BY DEF Whole, Meaning
<1>4. Text = IF IsPrefix(BOM, bytes) /\ probeErr = "fail" THEN bytes ELSE W
  BY <1>1 DEF Text, WithoutBOM, From
<1> HIDE DEF W, bytes
<1>5. 0 \in Nat /\ 0 <= Len(W)
  BY <1>2
<1>6. \E R : Whole \in Seq(R)
  BY <1>2, <1>3, <1>5, EventsPrefix DEF all
<1>7. IsPrefix(<<>>, Whole)
  BY <1>6, NothingIsPrefix
<1>8. CASE ~checked
  BY <1>7, <1>8 DEF MeaningInv
<1>9. ASSUME checked
      PROVE  /\ Consumed \in Nat /\ Reached \in Nat /\ Consumed <= Len(Text) /\ Reached <= Len(Text)
             /\ Consumed = Len(Text) => Reached = Consumed
             /\ Len(Text) \in Nat
             /\ events = AsUint(EventsUpTo(Text, Reached, ParseLimit))
  <2>1. Len(Text) \in Nat
    BY TextIs
  <2>2. Consumed \in Nat /\ Consumed <= Len(Text)
    <3>1. Consumed \in Nat /\ Consumed + Len(buf) \in 0 .. Len(Text)
      BY <1>9, BufferIsText
    <3>2. Len(buf) \in Nat
      BY LenProperties DEF ParserInv, TypeOK
    <3> QED BY <2>1, <3>1, <3>2
  <2>3. Reached = Consumed \/ (Reached = Consumed + 1 /\ Consumed \in 1 .. (Len(Text) - 1))
    BY DEF Reached
  <2>4. Reached \in Nat /\ Reached <= Len(Text) /\ (Consumed = Len(Text) => Reached = Consumed)
    BY <2>1, <2>2, <2>3
  <2>5. events = AsUint(EventsUpTo(Text, Reached, ParseLimit))
    BY <1>9 DEF MeaningInv
  <2> QED BY <2>1, <2>2, <2>4, <2>5
<1>10. CASE checked /\ Text = W
  <2>1. IsPrefix(events, AsUint(all))
    BY <1>2, <1>9, <1>10, EventsPrefix
  <2>2. Consumed = Len(Text) => events = AsUint(all)
    BY <1>9, <1>10
  <2> QED BY <1>3, <2>1, <2>2
<1>11. CASE checked /\ Text # W
  <2>1. IsPrefix(BOM, bytes) /\ probeErr = "fail" /\ Text = bytes
    BY <1>4, <1>11
  <2>2. Len(bytes) >= 3 /\ \A i \in 1 .. 3 : bytes[i] \notin EOL
    BY <1>1, <2>1, BeginsWithBOM
  <2>3. err # "eof" /\ Len(bytes) - Len(rest) < 3
    BY <1>1, <2>1 DEF EndInv, bytes
  <2>4. Consumed <= 2
    <3>1. Len(buf) \in Nat /\ Len(pending) \in Nat /\ Len(rest) \in Nat
      BY LenProperties DEF ParserInv, TypeOK
    <3>2. Consumed = Len(bytes) - Len(buf) - Len(pending) - Len(rest)
      BY <2>1 DEF Consumed
    <3> QED BY <1>1, <2>3, <3>1, <3>2
  <2>5. Reached <= 2
    <3>1. Consumed \in 1 .. 3 => bytes[Consumed] # CR
      BY <2>2 DEF EOL
    <3>2. Consumed \in 1 .. (Len(Text) - 1) => Consumed \in 1 .. 3
      BY <1>9, <1>11, <2>4
    <3>3. Reached = Consumed
      BY <2>1, <3>1, <3>2 DEF Reached
    <3> QED BY <2>4, <3>3
  <2>6. \A e \in (0 + 1) .. Reached : e \notin LineEnds(Text)
    <3>1. ASSUME NEW e \in (0 + 1) .. Reached PROVE e \notin LineEnds(Text)
      <4>1. e \in 1 .. 3
        BY <1>9, <1>11, <2>5
      <4>2. bytes[e] \notin EOL
        BY <2>2, <4>1
      <4> QED BY <1>1, <2>1, <4>2, EndsAre
    <3> QED BY <3>1
  <2>7. EventsUpTo(Text, Reached, ParseLimit) = EventsUpTo(Text, 0, ParseLimit)
    <3>1. Reached \in Nat /\ 0 \in Nat /\ 0 <= Reached /\ Text \in Seq(Symbol)
      BY <1>1, <1>9, <1>11, <2>1
    <3> QED BY <2>6, <3>1, SameEvents
  <2>8. EventsUpTo(Text, 0, ParseLimit) = <<>>
    BY <1>1, <2>1, NothingAtZero
  <2>9. events = <<>>
    <3>1. events = AsUint(<<>>)
      BY <1>9, <1>11, <2>7, <2>8
    <3> QED BY <3>1 DEF AsUint
  <2> QED BY <1>7, <2>3, <2>9
<1> QED BY <1>8, <1>10, <1>11

-----------------------------------------------------------------------------
(* The whole invariant.                                                      *)

\* The whole invariant, with the source it is about.
Inductive == source \in Sources /\ ReaderInv

\* The initial state has it.
LEMMA InitReader == Init => Inductive
  BY InitParser, InitPosition, InitMeaning DEF Inductive, ReaderInv, ParserInv

\* Every step keeps it.
LEMMA NextReader == Inductive /\ [Next]_vars => Inductive'
<1> SUFFICES ASSUME Inductive, [Next]_vars PROVE Inductive'
  OBVIOUS
<1>1. ParserInv /\ PieceInv /\ EndInv /\ LineInv /\ MeaningInv /\ ReturnInv
  BY DEF Inductive, ReaderInv, ParserInv
<1>2. ParserInv'
  BY <1>1, NextParser
<1>3. PieceInv' /\ EndInv' /\ LineInv'
  <2>1. CASE Probe
    BY <1>1, <1>2, <2>1, ProbePosition
  <2>2. CASE ReadPending \/ ReadBytes \/ ReadError \/ TooLong
    BY <1>1, <1>2, <2>2, ReadPosition
  <2>3. CASE ScanLine
    BY <1>1, <1>2, <2>3, ScanLinePosition
  <2>4. CASE ScanStop \/ UNCHANGED vars
    <3>1. UNCHANGED <<source, rest, pending, checked, probeErr, buf, err>>
      BY <2>4 DEF ScanStop, vars, inVars, bomVars
    <3>2. Text' = Text
      BY <3>1 DEF Text
    <3>3. Ends' = Ends /\ Consumed' = Consumed
      BY <3>1, <3>2 DEF Ends, Consumed
    <3> QED BY <1>1, <3>1, <3>2, <3>3 DEF PieceInv, EndInv, LineInv, Fits
  <2> QED BY <2>1, <2>2, <2>3, <2>4 DEF Next, ReadEvents, ReadNEvents, NextEvent
<1>4. MeaningInv'
  <2>1. CASE Probe
    BY <1>1, <1>2, <2>1, ProbeMeaning
  <2>2. CASE ReadPending \/ ReadBytes \/ ReadError \/ TooLong
    <3>1. Text' = Text /\ Consumed' = Consumed
      BY <1>1, <1>2, <2>2, ReadPosition
    <3>2. UNCHANGED <<source, checked, frame, lastID, retry, events>>
      BY <2>2 DEF ReadPending, ReadBytes, ReadError, TooLong, inVars, bomVars, parserVars
    <3> QED BY <1>1, <3>1, <3>2, SameMeaning
  <2>3. CASE ScanLine
    BY <1>1, <1>2, <2>3, ScanMeaning
  <2>4. CASE ScanStop \/ UNCHANGED vars
    <3>1. UNCHANGED <<source, rest, pending, checked, probeErr, buf, frame, lastID, retry, events>>
      BY <2>4 DEF ScanStop, vars, inVars, bomVars, parserVars
    <3>2. Text' = Text
      BY <3>1 DEF Text
    <3>3. Consumed' = Consumed
      BY <3>1, <3>2 DEF Consumed
    <3> QED BY <1>1, <3>1, <3>2, <3>3, SameMeaning
  <2> QED BY <2>1, <2>2, <2>3, <2>4 DEF Next, ReadEvents, ReadNEvents, NextEvent
<1>5. ReturnInv'
  <2>1. CASE Probe \/ ReadPending \/ ReadBytes \/ ReadError \/ TooLong
    BY <1>1, <2>1, ReadReturn
  <2>2. CASE ReadEvents \/ ReadNEvents \/ NextEvent
    BY <1>1, <2>2, ScanReturn
  <2>3. CASE UNCHANGED vars
    <3>1. UNCHANGED <<source, api, rest, pending, probeErr, buf, err, events, returned, status>>
      BY <2>3 DEF vars, inVars, bomVars, parserVars
    <3>2. Text' = Text
      BY <3>1 DEF Text
    <3>3. Consumed' = Consumed
      BY <3>1, <3>2 DEF Consumed
    <3> QED BY <1>1, <3>1, <3>2, <3>3 DEF ReturnInv
  <2> QED BY <2>1, <2>2, <2>3 DEF Next
<1> QED BY <1>2, <1>3, <1>4, <1>5 DEF Inductive, ReaderInv, ParserInv

\* What the invariant says of the sizes of lines.
LEMMA CapHolds == Inductive => CapEnforced
<1> SUFFICES ASSUME Inductive PROVE CapEnforced
  OBVIOUS
<1>0. /\ ParserInv /\ PieceInv /\ EndInv /\ LineInv
      /\ source \in Sources /\ source.cap \in Nat /\ source.cap > 0
      /\ buf \in Seq(Symbol) /\ Len(buf) \in Nat /\ Len(buf) <= source.cap
  BY SourceIs, LenProperties DEF Inductive, ReaderInv, ParserInv, TypeOK
<1>1. Text \in Seq(Symbol) /\ Len(Text) \in Nat
  BY <1>0, TextIs
<1>2. Ends \subseteq 0 .. Len(Text) /\ Ends \subseteq Nat
  BY <1>1 DEF Ends, LineEnds
<1> DEFINE Before(q) == {p \in Ends : p < q}
<1>3. ASSUME err = "eof", NEW q \in Ends \ {0} PROVE Fits(Max(Before(q)), q)
  <2>1. checked /\ Len(pending) = 0 /\ Len(rest) = 0
    BY <1>0, <1>3 DEF EndInv
  <2>2. /\ Consumed \in Ends
        /\ \A e \in Ends : 0 < e /\ e <= Consumed => \E p \in Ends : p < e /\ Fits(p, e)
    BY <1>0, <1>3, <2>1 DEF LineInv
  <2>3. Consumed = Len(Text) - Len(buf)
    BY <1>0, <1>1, <2>1 DEF Consumed
  <2>4. q \in Nat /\ 0 < q /\ q <= Len(Text)
    BY <1>1, <1>2
  <2>5. PICK p \in Ends : p < q /\ Fits(p, q)
    <3>1. CASE q <= Consumed
      BY <2>2, <2>4, <3>1
    <3>2. CASE ~ (q <= Consumed)
      <4>1. /\ Consumed < q /\ q - Consumed <= source.cap
            /\ q - Consumed = source.cap => q = Len(Text)
        BY <1>0, <1>1, <2>3, <2>4, <3>2
      <4>2. Fits(Consumed, q)
        BY <1>0, <1>1, <2>3, <2>4, <4>1 DEF Fits
      <4> QED BY <2>2, <4>1, <4>2
    <3> QED BY <3>1, <3>2
  <2>6. p \in Before(q) /\ Before(q) \subseteq 0 .. Len(Text) /\ Before(q) # {}
    BY <1>2, <2>5
  <2>7. Max(Before(q)) \in Before(q) /\ Max(Before(q)) >= p
    <3> HIDE DEF Before
    <3> QED BY <1>1, <2>6, MaxExists
  <2>8. Max(Before(q)) \in Nat /\ p \in Nat
    BY <1>2, <2>7
  <2> HIDE DEF Before
  <2> QED BY <1>0, <2>4, <2>5, <2>7, <2>8 DEF Fits
<1>4. ASSUME err = "toolong"
      PROVE  \E q \in Ends \ {0} : \/ q - Max(Before(q)) > source.cap
                                   \/ q - Max(Before(q)) = source.cap /\ Text[q] # LF
  <2>1. checked /\ Len(buf) = source.cap /\ SplitSSELines(buf, FALSE).advance = 0
    BY <1>0, <1>4 DEF EndInv
  <2>2. /\ \A i \in 1 .. (Len(buf) - 1) : buf[i] \notin EOL
        /\ \A i \in 1 .. Len(buf) : buf[i] # LF
    BY <1>0, <2>1, SplitIs
  <2> DEFINE c == Consumed
             Later == {e \in Ends : e > c}
  <2>3. /\ c \in Nat /\ c + Len(buf) \in 0 .. Len(Text)
        /\ \A i \in 1 .. Len(buf) : buf[i] = Text[c + i]
    BY <1>0, <2>1, BufferIsText
  <2>4. c \in Ends
    BY <1>0, <1>4, <2>1 DEF LineInv
  <2> HIDE DEF c
  <2>5. PICK q \in Later : \A e \in Later : q <= e
    <3>1. Later \subseteq Nat
      BY <1>2
    <3>2. Len(Text) \in Later
      BY <1>0, <1>1, <2>1, <2>3 DEF Ends
    <3> HIDE DEF Later
    <3> QED BY <3>1, <3>2, LeastNumber
  <2>6. q \in Ends /\ q \in Nat /\ q > c /\ q # 0
    BY <1>2, <2>3, <2>5
  <2>7. Max(Before(q)) = c
    <3>1. c \in Before(q) /\ Before(q) \subseteq Nat
      BY <1>2, <2>4, <2>6
    <3>2. ASSUME NEW e \in Before(q) PROVE c >= e
      <4>1. e \in Ends /\ e \in Nat /\ e < q
        BY <1>2
      <4>2. ~ (e > c)
        BY <2>5, <2>6, <4>1
      <4> QED BY <2>3, <4>1, <4>2
    <3> HIDE DEF Before
    <3> QED BY <3>1, <3>2, MaxIs
  <2>8. q - c >= source.cap
    <3> SUFFICES ASSUME q - c < source.cap PROVE FALSE
      BY <1>0, <2>3, <2>6
    <3>1. q - c \in 1 .. (Len(buf) - 1) /\ q - c \in 1 .. Len(buf) /\ c + (q - c) = q
      BY <1>0, <2>1, <2>3, <2>6
    <3>2. Text[q] \notin EOL
      BY <2>2, <2>3, <3>1
    <3>3. q # Len(Text)
      BY <1>0, <1>1, <2>1, <2>3, <2>6, <3>1
    <3>4. q \in LineEnds(Text)
      BY <2>6, <3>3 DEF Ends
    <3> QED BY <3>2, <3>4 DEF LineEnds, EOL
  <2>9. q - c = source.cap => Text[q] # LF
    <3>1. q - c = source.cap => q - c \in 1 .. Len(buf) /\ c + (q - c) = q
      BY <1>0, <2>1, <2>3, <2>6
    <3> QED BY <2>2, <2>3, <3>1
  <2>10. q - c > source.cap \/ (q - c = source.cap /\ Text[q] # LF)
    BY <1>0, <2>3, <2>6, <2>8, <2>9
  <2> HIDE DEF Before
  <2> QED BY <2>6, <2>7, <2>10
<1>5. \A q : LineSize(q) = q - Max(Before(q))
  BY DEF LineSize
<1> HIDE DEF Before
<1>6. ASSUME err = "eof", NEW q \in Ends \ {0}
      PROVE  \/ LineSize(q) < source.cap
             \/ LineSize(q) = source.cap /\ (Text[q] = LF \/ q = Len(Text))
  BY <1>3, <1>5, <1>6 DEF Fits
<1> QED BY <1>4, <1>5, <1>6 DEF CapEnforced

\* What the invariant says of the events and of what the caller is given, for
\* a source that says what its bytes mean.
LEMMA MeaningHolds ==
  ASSUME Inductive, source.events = Meaning(source.bytes, ParseLimit)
  PROVE  PrefixOfMeaning /\ ReturnsMeaning
<1>1. /\ source \in Sources /\ ParserInv /\ PieceInv /\ EndInv /\ MeaningInv /\ ReturnInv
  BY DEF Inductive, ReaderInv, ParserInv
<1>2. Expected = Whole
  BY DEF Expected, Whole
<1>3. /\ IsPrefix(events, Expected)
      /\ checked /\ err = "eof" /\ Consumed = Len(Text) => events = Expected
  BY <1>1, <1>2, ReadsMeaning
<1>4. api = "ReadNEvents" => Len(returned) <= Count
  <2> SUFFICES ASSUME api = "ReadNEvents" PROVE Len(returned) <= Count
    OBVIOUS
  <2>1. Count \in Nat /\ Len(<<>>) = 0
    BY ReaderAssumption
  <2>2. CASE status = "ok"
    BY <1>1, <2>2 DEF ReturnInv
  <2>3. CASE status # "ok"
    <3>1. returned = <<>>
      BY <1>1, <2>3 DEF ReturnInv
    <3> QED BY <2>1, <3>1
  <2> QED BY <2>2, <2>3
<1>5. ASSUME status \in {"ok", "eof"}
      PROVE  \/ returned = Expected
             \/ /\ api = "ReadNEvents" /\ (Len(returned) = Count \/ err \in {"fail", "toolong"})
                /\ returned # <<>> /\ IsPrefix(returned, Expected)
  <2>1. /\ returned = events
        /\ \/ err = "eof" /\ Consumed = Len(Text)
           \/ /\ api = "ReadNEvents" /\ events # <<>>
              /\ Len(events) = Count \/ err \in {"fail", "toolong"}
    BY <1>1, <1>5 DEF ReturnInv
  <2>2. err = "eof" => checked
    BY <1>1 DEF EndInv
  <2> QED BY <1>3, <2>1, <2>2
<1>6. status = "error" /\ api = "ReadNEvents" => events = <<>>
  BY <1>1 DEF ReturnInv
<1> QED BY <1>3, <1>4, <1>5, <1>6 DEF PrefixOfMeaning, ReturnsMeaning
-----------------------------------------------------------------------------
(* The theorems.                                                            *)

\* In every reachable state, what the connection, the probe and the buffer
\* still hold is the text from the end of a line on; what the parser holds is
\* what the text up to there means.
THEOREM ReaderInvariant == Spec => []ReaderInv
<1>1. Spec => []Inductive
  BY InitReader, NextReader, PTL DEF Spec
<1>2. Inductive => ReaderInv
  BY DEF Inductive
<1> QED BY <1>1, <1>2, PTL

\* The type invariant: the buffer never exceeds maxLineBytes, and a retry time
\* is one that a uint can hold.
THEOREM TypeCorrect == Spec => []TypeOK
  BY ReaderInvariant, PTL DEF ReaderInv

\* Every ID the reader reports can be sent back as a Last-Event-ID, whatever
\* the stream holds and however it is cut.
THEOREM AlwaysEchoable == Spec => []IDsEchoable
  BY ReaderInvariant, PTL DEF ReaderInv

\* The cap on lines is exact: the scan gives up only on a line over the cap, or
\* of its size and not ended by LF, and reads no stream with such a line to its
\* end, unless it is the last one and of the size of the cap.
THEOREM CapAlwaysEnforced == Spec => []CapEnforced
<1>1. Spec => []Inductive
  BY InitReader, NextReader, PTL DEF Spec
<1> QED BY <1>1, CapHolds, PTL

\* However the connection cuts the stream into pieces, wherever it breaks, the
\* reader has dispatched the first so many of the events that the bytes of the
\* stream mean by the standard.
THEOREM ReadsAsTheStandardSays == Spec => []IsPrefix(events, Whole)
<1>1. Spec => []Inductive
  BY InitReader, NextReader, PTL DEF Spec
<1>2. Inductive => IsPrefix(events, Whole)
  BY ReadsMeaning DEF Inductive, ReaderInv, ParserInv
<1> QED BY <1>1, <1>2, PTL

\* The events that a source names are what its bytes mean by the standard or,
\* if they are a stream of written events and heartbeats, what those deliver.
Truthful ==
    \A s \in Sources :
        \/ s.events = Meaning(s.bytes, ParseLimit)
        \/ \E evts \in Seq(Writable(ParseLimit)) : \E pings \in [0 .. Len(evts) -> Nat] :
              s.bytes = Sent(evts, pings) /\ s.events = Delivered(evts)

\* Either way they are what its bytes mean.
LEMMA TruthfulMeans ==
  ASSUME Truthful, NEW s \in Sources
  PROVE  s.events = Meaning(s.bytes, ParseLimit)
<1>1. CASE s.events = Meaning(s.bytes, ParseLimit)
  BY <1>1
<1>2. ASSUME NEW evts \in Seq(Writable(ParseLimit)), NEW pings \in [0 .. Len(evts) -> Nat],
             s.bytes = Sent(evts, pings), s.events = Delivered(evts)
      PROVE  s.events = Meaning(s.bytes, ParseLimit)
  <2>1. Meaning(Sent(evts, pings), ParseLimit) = Delivered(evts)
    BY WrittenMeansDelivered
  <2> QED BY <1>2, <2>1
<1> QED BY <1>1, <1>2 DEF Truthful

\* None of them is torn, repeated, lost or given another event's ID or retry
\* time.
THEOREM AlwaysPrefixOfMeaning == ASSUME Truthful PROVE Spec => []PrefixOfMeaning
<1>1. Spec => []Inductive
  BY InitReader, NextReader, PTL DEF Spec
<1>2. Inductive => PrefixOfMeaning
  BY MeaningHolds, TruthfulMeans DEF Inductive
<1> QED BY <1>1, <1>2, PTL

\* A caller who is told of no error has been given every event of the stream,
\* or the first Count of them; only ReadNEvents reports success after an error,
\* with the events that came before it.
THEOREM AlwaysReturnsMeaning == ASSUME Truthful PROVE Spec => []ReturnsMeaning
<1>1. Spec => []Inductive
  BY InitReader, NextReader, PTL DEF Spec
<1>2. Inductive => ReturnsMeaning
  BY MeaningHolds, TruthfulMeans DEF Inductive
<1> QED BY <1>1, <1>2, PTL
=============================================================================
