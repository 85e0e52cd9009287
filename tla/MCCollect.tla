----------------------------- MODULE MCCollect -----------------------------
(* The calls to consider. *)
EXTENDS Collect

Handler(n, r, w, p) == [events |-> n, returns |-> r, watches |-> w, pumped |-> p]

Case(h, n, o, k) == [helper |-> h, count |-> n, opts |-> o, handler |-> k]

\* Every helper against every kind of handler.
Kinds ==
    {Case(h, n, <<>>, Handler(k, r, w, p)) :
       h \in Helpers, n \in 0 .. 3, k \in 0 .. 2,
       r \in BOOLEAN, w \in BOOLEAN, p \in BOOLEAN}

\* The examples' handlers.
Examples ==
    {Case(h, 2, <<>>, k) :
       h \in Helpers,
       k \in {HtmxHandler, MinimalHandler(0, FALSE), MinimalHandler(2, FALSE),
              MinimalHandler(2, TRUE)}}

Options == {<<"path", "/events">>, <<"path", NoValue>>, <<"lastID", NoValue>>,
            <<"lastID", "7">>, <<"lastID", "8">>, <<"header", "9">>, <<"header", Invalid>>,
            <<"type", "text">>}

\* Up to three options, in every order, and two of which one is a path that
\* does not parse.
Configs ==
    {Case(h, 1, o, Handler(1, TRUE, FALSE, FALSE)) :
       h \in {"Collect", "CollectPost"},
       o \in UNION {[1 .. k -> Options] : k \in 1 .. 3}
             \cup {<<<<"path", Invalid>>, p>> : p \in Options}
             \cup {<<p, <<"path", Invalid>>>> : p \in Options}}

MCCases == {c \in Kinds : c.helper = "CollectN" \/ c.count = 1} \cup Examples \cup Configs
=============================================================================
