------------------------------ MODULE MCReader ------------------------------
(* Streams for the reader: arbitrary text, and what the writer produces. *)
EXTENDS Reader

Texts(S, n) == UNION {[1 .. k -> S] : k \in 0 .. n}

\* A stream and its meaning according to the standard.
Raw(t, cap, apis, mayFail) ==
    [bytes |-> t, events |-> Meaning(t, ParseLimit), cap |-> cap, apis |-> apis,
     mayFail |-> mayFail, uint |-> ParseLimit]

\* Any text of up to five symbols; a BOM, two of them or a part of one before
\* shorter ones.
Chunks ==
    {Raw(t, 8, {"Next"}, FALSE) :
       t \in Texts({"data:", "id:", "x", CR, LF}, 5)
             \cup {b \o t : b \in {BOM, BOM \o BOM, <<"b1", "b2">>},
                            t \in Texts({"data:", "x", LF}, 3)}}

\* Up to three events with each kind of field, with its colon or without, and
\* each kind of frame between them, on a connection that may break.
Fields ==
    {Raw(<<a, b, LF>> \o between \o <<"data:", Space, "x", LF, LF>>, 16,
         {"ReadEvents", "ReadNEvents", "Next"}, TRUE) :
       a \in {"event:", "id:", "retry:", "data", "event", "id", "retry", "x", ":"},
       b \in {Space, "9", Nul, "x", LF},
       between \in {<<LF>>, <<"data", LF, LF>>, WriteHeartbeat, WriteRetry(<<"8">>),
                    <<"retry:", "x", LF>>, <<"id:", LF, LF>>, <<"event", LF, "id", LF>>,
                    <<"data", LF, LF, "id", LF, "data", LF, LF>>}}

\* Retry times below and above the limit, after one another, on platforms whose
\* uint has a tenth of the values the parser accepts, or all of them.
Widths ==
    {[Raw(<<"retry:">> \o a \o <<LF, "data:", LF, LF, "retry:">> \o b
            \o <<LF, "data:", LF, LF>>, 16, {"ReadEvents"}, FALSE) EXCEPT !.uint = w] :
       a \in Texts({"0", "9"}, 2), b \in Texts(Digits, 3), w \in {ParseLimit, ParseLimit \div 10}}

\* Lines of every length around a cap of three; a BOM that is longer than the
\* cap, on a connection that may break within it.
Long == {Raw(t, 3, {"Next"}, FALSE) : t \in Texts({"data:", CR, LF}, 6)}
        \cup {Raw(BOM \o t, c, {"Next"}, TRUE) : t \in Texts({"data:", LF}, 2), c \in 1 .. 2}

Evt(e, d, i, r) == [event |-> e, data |-> d, id |-> i, retry |-> r]

Written(bytes, evs) ==
    [bytes |-> bytes, events |-> evs, cap |-> 64, apis |-> {"ReadEvents"},
     mayFail |-> FALSE, uint |-> ParseLimit]

\* Every ID of up to three symbols that ParseEventID accepts.
ValidIDs == {i \in Texts({"9", Space, CR, LF, Nul}, 3) : ParseEventIDOK(i)}

\* An event with any data of up to three symbols, then perhaps a heartbeat,
\* then another event.
Events ==
    {Written(Sent(<<a, b>>, [k \in 0 .. 2 |-> IF k = 1 THEN n ELSE 0]), Delivered(<<a, b>>)) :
       a \in {Evt(e, d, i, r) : e \in {Empty, <<"x">>}, d \in Texts({"x", Space, CR, LF}, 3),
                                i \in {Empty, <<"9">>}, r \in {Empty, <<"8">>}}
             \cup {Evt(Empty, <<"x">>, i, Empty) : i \in ValidIDs},
       n \in 0 .. 1,
       b \in {Evt(Empty, Empty, Empty, Empty), Evt(Empty, <<Space, "x">>, <<"8">>, Empty)}}

\* SendLines with a plain line before and after keyed lines.
Keyed ==
    {Written(WriteEvent(Evt(Empty, JoinLines(<<<<"9">>, KeyedLines("8", v), <<"x">>>>),
                            Empty, Empty)),
             <<[type |-> Empty, id |-> Empty, retry |-> 0,
                data |-> <<<<"9">>>>
                           \o [i \in DOMAIN DataLines(v) |-> <<"8", Space>> \o DataLines(v)[i]]
                           \o <<<<"x">>>>]>>) :
       v \in Texts({"x", CR, LF}, 4) \ {Empty}}

MCSources == Chunks \cup Fields \cup Widths \cup Long \cup Events \cup Keyed
=============================================================================
