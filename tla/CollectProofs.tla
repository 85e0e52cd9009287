---------------------------- MODULE CollectProofs ----------------------------
(***************************************************************************)
(* Proofs about the Collect helpers, for any set of calls: any handlers,   *)
(* counts and options.                                                     *)
(***************************************************************************)
EXTENDS Collect, SequenceTheorems, Induction, TLAPS

\* A handler's script is finite and a count is a number.
LEMMA CaseType ==
  ASSUME NEW c \in Cases PROVE c.count \in Int /\ c.handler.events \in Nat
  BY CasesAssumption

\* Init establishes the invariant.
LEMMA InitCollect == Init => CollectInv
<1> SUFFICES ASSUME Init PROVE CollectInv
  OBVIOUS
<1>1. case \in Cases /\ case.count \in Int /\ case.handler.events \in Nat
  BY CaseType DEF Init
<1>2. got \in 0 .. sent /\ sent \in 0 .. calls /\ calls \in 0 .. case.handler.events
  BY <1>1 DEF Init
<1>3. TypeOK
  BY <1>2 DEF Init, TypeOK
<1> QED BY <1>1, <1>3 DEF Init, CollectInv

\* A step of the test preserves the invariant.
LEMMA TestCollect ==
  ASSUME CollectInv, TestStep
  PROVE  CollectInv'
<1> USE DEF CollectInv, TypeOK, testVars, handlerVars
<1>1. case \in Cases /\ case.count \in Int /\ case.handler.events \in Nat
  BY CaseType
<1>2. CASE CollectNothing \/ DoRequest \/ DoReturns \/ Cleanup
  BY <1>1, <1>2 DEF CollectNothing, DoRequest, DoReturns, Cleanup
<1>3. CASE DoFails
  BY <1>1, <1>3 DEF DoFails, Fatal
<1>4. CASE ReadEvent
  BY <1>1, <1>4 DEF ReadEvent, Enough, Finish
<1>5. CASE ReadEOF
  BY <1>1, <1>5 DEF ReadEOF, Finish
<1>6. CASE ReadError
  BY <1>1, <1>6 DEF ReadError, Finish, Fatal
<1>7. CASE CloseBody
  BY <1>1, <1>7 DEF CloseBody
<1>8. CASE Cancel
  BY <1>1, <1>8 DEF Cancel, Timed
<1> QED BY <1>2, <1>3, <1>4, <1>5, <1>6, <1>7, <1>8 DEF TestStep

\* A step of the handler, of the server or of the clock preserves it.
LEMMA HandlerCollect ==
  ASSUME CollectInv, HandlerStep \/ ServeHTTP \/ ConnectionLost \/ Timeout \/ Flush \/ Abort
  PROVE  CollectInv'
<1> USE DEF CollectInv, TypeOK, testVars, handlerVars
<1>1. case \in Cases /\ case.count \in Int /\ case.handler.events \in Nat
  BY CaseType
<1>2. CASE SendEvent
  <2>1. calls' = calls + 1 /\ calls < case.handler.events
        /\ sent' \in {sent, sent + 1} /\ flushed' \in BOOLEAN
        /\ UNCHANGED <<case, testVars, broken, request, handler, eof, reqDone>>
    BY <1>2 DEF SendEvent
  <2>2. got' \in 0 .. sent' /\ sent' \in 0 .. calls' /\ calls' \in 0 .. case'.handler.events
    BY <1>1, <2>1
  <2> QED BY <1>1, <2>1, <2>2
<1>3. CASE SendFails \/ AllSent \/ SeesContext
  BY <1>1, <1>3 DEF SendFails, AllSent, SeesContext, Return
<1>4. CASE ServeHTTP \/ ConnectionLost \/ Flush \/ Abort
  BY <1>1, <1>4, ZenonT(60) DEF ServeHTTP, ConnectionLost, Flush, Abort
<1>5. CASE Timeout
  BY <1>1, <1>5 DEF Timeout
<1> QED BY <1>2, <1>3, <1>4, <1>5 DEF HandlerStep

\* Every step preserves it.
LEMMA NextCollect == CollectInv /\ [Next]_vars => CollectInv'
<1> SUFFICES ASSUME CollectInv, [Next]_vars PROVE CollectInv'
  OBVIOUS
<1>1. CASE UNCHANGED vars
  BY <1>1 DEF vars, testVars, handlerVars, CollectInv, TypeOK
<1> QED BY <1>1, TestCollect, HandlerCollect DEF Next

\* The invariant holds in every reachable state.
THEOREM CollectInvariant == Spec => []CollectInv
  BY InitCollect, NextCollect, PTL DEF Spec

\* The type invariant: in particular a helper never has more events than the
\* handler has sent.
THEOREM TypeCorrect == Spec => []TypeOK
  BY CollectInvariant, PTL DEF CollectInv

\* A helper returns the whole stream, the count it was asked for, or what came
\* before an error that it is documented to put up with.
THEOREM NeverSilentlyTruncated == Spec => NoSilentTruncation
<1> DEFINE Explained ==
      \/ eof /\ got' = sent
      \/ case.helper = "CollectN" /\ got' = case.count
      \/ /\ case.helper \in {"CollectN", "CollectWithTimeout"} /\ got' > 0
         /\ ctxDone \/ handler = "aborted"
<1>1. ASSUME CollectInv, [Next]_vars, test = "read", result' = "events"
      PROVE  Explained
  <2>1. result = "none" /\ (case.helper = "CollectN" => got < case.count)
        /\ case.count \in Int /\ got \in Nat
    BY <1>1, CaseType DEF CollectInv, TypeOK
  <2>2. ReadEvent \/ ReadEOF \/ ReadError
    BY <1>1, <2>1 DEF Next, TestStep, HandlerStep, CollectNothing, DoRequest, DoFails,
       DoReturns, CloseBody, Cancel, Cleanup, SendEvent, SendFails, AllSent, SeesContext,
       Return, ServeHTTP, ConnectionLost, Timeout, Flush, Abort, vars, testVars
  <2>3. CASE ReadEvent
    BY <1>1, <2>1, <2>3 DEF ReadEvent, Enough, Finish
  <2>4. CASE ReadEOF
    BY <2>4 DEF ReadEOF
  <2>5. CASE ReadError
    BY <1>1, <2>1, <2>5 DEF ReadError, Tolerates, Fatal, Finish
  <2> QED BY <2>2, <2>3, <2>4, <2>5
<1>2. CollectInv /\ [Next]_vars => [test = "read" /\ result' = "events" => Explained]_vars
  BY <1>1
<1> QED BY <1>2, CollectInvariant, PTL DEF Spec, NoSilentTruncation

-----------------------------------------------------------------------------
(* The options of a request.                                                *)

\* The config after the first n of the options.
ConfigFunction(opts, F, n) ==
    F = [k \in 0 .. n |-> IF k = 0 THEN [path |-> NoValue, type |-> <<>>, lastID |-> <<>>]
                                   ELSE ApplyOption(F[k - 1], opts[k])]

\* The loop over the options has a result for every list of options.
LEMMA OptionsApplied ==
  ASSUME NEW opts \in Seq(OptionNames \X STRING)
  PROVE  \E F : ConfigFunction(opts, F, Len(opts)) /\ ApplyRequestOptions(opts) = F[Len(opts)]
<1> DEFINE zero == [path |-> NoValue, type |-> <<>>, lastID |-> <<>>]
           Op(c, k) == ApplyOption(c, opts[k])
           T == {n \in 0 .. Len(opts) : \E F : ConfigFunction(opts, F, n)}
<1>0. Len(opts) \in Nat
  OBVIOUS
<1>1. ASSUME NEW F, NEW n
      PROVE  ConfigFunction(opts, F, n) <=>
               F = [k \in 0 .. n |-> IF k = 0 THEN zero ELSE Op(F[k - 1], k)]
  BY DEF ConfigFunction
<1> HIDE DEF zero, Op
<1>2. 0 \in T
  <2>1. [k \in 0 .. 0 |-> zero] = [k \in 0 .. 0 |-> IF k = 0 THEN zero
                                     ELSE Op([j \in 0 .. 0 |-> zero][k - 1], k)]
    OBVIOUS
  <2>2. \E F : ConfigFunction(opts, F, 0)
    BY <1>1, <2>1
  <2>3. 0 \in 0 .. Len(opts)
    BY <1>0
  <2> QED BY <2>2, <2>3
<1>3. ASSUME NEW n \in 0 .. Len(opts) - 1, n \in T PROVE n + 1 \in T
  <2>1. PICK F : ConfigFunction(opts, F, n)
    BY <1>3
  <2>2. F = [k \in 0 .. n |-> IF k = 0 THEN zero ELSE Op(F[k - 1], k)]
    BY <1>1, <2>1
  <2> DEFINE G == [k \in 0 .. n + 1 |-> IF k <= n THEN F[k] ELSE Op(F[n], n + 1)]
  <2>3. ASSUME NEW k \in 0 .. n + 1
        PROVE  G[k] = IF k = 0 THEN zero ELSE Op(G[k - 1], k)
    <3>1. CASE k = 0
      BY <1>0, <2>2, <3>1
    <3>2. CASE k # 0 /\ k <= n
      <4>1. k - 1 \in 0 .. n + 1 /\ k - 1 <= n /\ k \in 0 .. n
        BY <1>0, <3>2
      <4>2. G[k] = F[k] /\ G[k - 1] = F[k - 1]
        BY <3>2, <4>1
      <4> HIDE DEF G
      <4> QED BY <2>2, <3>2, <4>1, <4>2
    <3>3. CASE k = n + 1
      <4>1. n \in 0 .. n + 1 /\ n <= n /\ ~ (n + 1 <= n) /\ k - 1 = n /\ k # 0
        BY <1>0, <3>3
      <4>2. G[k] = Op(F[n], k) /\ G[n] = F[n]
        BY <3>3, <4>1
      <4> HIDE DEF G
      <4> QED BY <4>1, <4>2
    <3> QED BY <1>0, <3>1, <3>2, <3>3
  <2>4. G = [k \in 0 .. n + 1 |-> IF k = 0 THEN zero ELSE Op(G[k - 1], k)]
    BY <2>3
  <2>5. n + 1 \in 0 .. Len(opts)
    BY <1>0
  <2> HIDE DEF G
  <2>6. \E H : ConfigFunction(opts, H, n + 1)
    BY <1>1, <2>4
  <2> QED BY <2>5, <2>6
<1>4. \E F : ConfigFunction(opts, F, Len(opts))
  <2>1. \A n \in 0 .. Len(opts) : n \in T
    <3> HIDE DEF T
    <3> QED BY <1>0, <1>2, <1>3, InductionUpTo
  <2>2. Len(opts) \in T
    <3>1. Len(opts) \in 0 .. Len(opts)
      BY <1>0
    <3> HIDE DEF T
    <3> QED BY <2>1, <3>1
  <2> QED BY <2>2
<1> QED BY <1>4 DEF ApplyRequestOptions, ConfigFunction

\* A set of numbers that gets a greater one: its least stays, its greatest is
\* the new one.
LEMMA SetGrows ==
  ASSUME NEW n \in Nat, NEW T, T \subseteq 1 .. n
  PROVE  /\ Max(T \cup {n + 1}) = n + 1
         /\ Min(T \cup {n + 1}) = IF T = {} THEN n + 1 ELSE Min(T)
<1>1. T \cup {n + 1} \subseteq Nat /\ \A i \in T \cup {n + 1} : n + 1 >= i
  OBVIOUS
<1>2. Max(T \cup {n + 1}) = n + 1
  <2> DEFINE U == T \cup {n + 1}
  <2>1. n + 1 \in U
    OBVIOUS
  <2> HIDE DEF U
  <2> QED BY <1>1, <2>1, MaxIs DEF U
<1>3. CASE T = {}
  <2>1. \A i \in T \cup {n + 1} : n + 1 <= i
    BY <1>3
  <2>2. Min(T \cup {n + 1}) = n + 1
    <3> DEFINE U == T \cup {n + 1}
    <3>1. n + 1 \in U
      OBVIOUS
    <3> HIDE DEF U
    <3> QED BY <1>1, <2>1, <3>1, MinIs DEF U
  <2> QED BY <1>2, <1>3, <2>2
<1>4. CASE T # {}
  <2>0. T \subseteq Nat /\ \A i \in T : i <= n
    OBVIOUS
  <2>1. PICK m \in T : \A i \in T : m <= i
    BY <1>4, <2>0, LeastNumber
  <2>2. Min(T) = m
    BY <2>0, <2>1, MinIs
  <2>3. m \in T \cup {n + 1} /\ \A i \in T \cup {n + 1} : m <= i
    BY <2>0, <2>1
  <2>4. Min(T \cup {n + 1}) = m
    <3> DEFINE U == T \cup {n + 1}
    <3> HIDE DEF U
    <3> QED BY <1>1, <2>3, MinIs DEF U
  <2> QED BY <1>2, <1>4, <2>2, <2>4
<1> QED BY <1>3, <1>4

\* The places among the first n options where one is given, and where
\* WithLastEventID is given an ID.
Places(opts, n, name) == {i \in 1 .. n : opts[i][1] = name}
IDPlaces(opts, n)     == {i \in 1 .. n : opts[i][1] = "lastID" /\ opts[i][2] # NoValue}

\* What the config must be after the first n options: the last path, the
\* headers in order, and the last ID before any header.
PathMeant(opts, n, cfg) ==
    cfg.path = IF Places(opts, n, "path") = {} THEN NoValue
                                               ELSE opts[Max(Places(opts, n, "path"))][2]
TypeMeant(opts, n, cfg) ==
    /\ cfg.type = <<>> <=> Places(opts, n, "type") = {}
    /\ Places(opts, n, "type") # {} => Head(cfg.type) = opts[Min(Places(opts, n, "type"))][2]
IDMeant(opts, n, cfg) ==
    /\ cfg.lastID = <<>> <=> IDPlaces(opts, n) = {} /\ Places(opts, n, "header") = {}
    /\ IDPlaces(opts, n) # {} => Head(cfg.lastID) = opts[Max(IDPlaces(opts, n))][2]
    /\ IDPlaces(opts, n) = {} /\ Places(opts, n, "header") # {} =>
         Head(cfg.lastID) = opts[Min(Places(opts, n, "header"))][2]

ConfigType == [path : STRING \cup {NoValue}, type : Seq(STRING), lastID : Seq(STRING)]

\* Adding to a header: the first value stays the first.
LEMMA AppendHead ==
  ASSUME NEW S, NEW s \in Seq(S), NEW e \in S
  PROVE  /\ Append(s, e) \in Seq(S) /\ Append(s, e) # <<>>
         /\ Head(Append(s, e)) = IF s = <<>> THEN e ELSE Head(s)
<1>1. /\ Append(s, e) \in Seq(S) /\ Len(Append(s, e)) = Len(s) + 1 /\ Len(s) \in Nat
      /\ \A i \in 1 .. Len(s) : Append(s, e)[i] = s[i]
      /\ Append(s, e)[Len(s) + 1] = e
  BY AppendProperties
<1>2. Append(s, e) # <<>> /\ Head(Append(s, e)) = Append(s, e)[1]
  BY <1>1
<1>3. CASE s = <<>>
  BY <1>1, <1>2, <1>3
<1>4. CASE s # <<>>
  <2>1. 1 \in 1 .. Len(s) /\ Head(s) = s[1]
    BY <1>4
  <2> QED BY <1>1, <1>2, <1>4, <2>1
<1> QED BY <1>3, <1>4

\* One more option: its places grow, the others stay.
LEMMA PlacesGrow ==
  ASSUME NEW opts, NEW n \in Nat, NEW name
  PROVE  /\ Places(opts, n, name) \subseteq 1 .. n
         /\ opts[n + 1][1] = name => Places(opts, n + 1, name) = Places(opts, n, name) \cup {n + 1}
         /\ opts[n + 1][1] # name => Places(opts, n + 1, name) = Places(opts, n, name)
         /\ IDPlaces(opts, n) \subseteq 1 .. n
         /\ opts[n + 1][1] = "lastID" /\ opts[n + 1][2] # NoValue =>
              IDPlaces(opts, n + 1) = IDPlaces(opts, n) \cup {n + 1}
         /\ ~ (opts[n + 1][1] = "lastID" /\ opts[n + 1][2] # NoValue) =>
              IDPlaces(opts, n + 1) = IDPlaces(opts, n)
<1>1. 1 .. (n + 1) = (1 .. n) \cup {n + 1}
  OBVIOUS
<1> QED BY <1>1 DEF Places, IDPlaces

\* One more option, applied.
LEMMA OptionMeans ==
  ASSUME NEW opts \in Seq(OptionNames \X STRING), NEW n \in 0 .. Len(opts) - 1,
         NEW c \in ConfigType, PathMeant(opts, n, c), TypeMeant(opts, n, c), IDMeant(opts, n, c),
         NEW d, d = ApplyOption(c, opts[n + 1])
  PROVE  /\ d \in ConfigType
         /\ PathMeant(opts, n + 1, d) /\ TypeMeant(opts, n + 1, d) /\ IDMeant(opts, n + 1, d)
<1> DEFINE o == opts[n + 1]
           v == o[2]
<1>0. n \in Nat /\ n + 1 \in 1 .. Len(opts)
  OBVIOUS
<1>1. o \in OptionNames \X STRING
  BY <1>0
<1>2. o[1] \in {"path", "lastID", "header", "type"} /\ v \in STRING
  BY <1>1 DEF OptionNames
<1>3. /\ c.path \in STRING \cup {NoValue} /\ c.type \in Seq(STRING) /\ c.lastID \in Seq(STRING)
      /\ c = [path |-> c.path, type |-> c.type, lastID |-> c.lastID]
  BY DEF ConfigType
<1> HIDE DEF o, v
<1>4. ASSUME d.path = c.path, o[1] # "path" PROVE PathMeant(opts, n + 1, d)
  <2>1. Places(opts, n + 1, "path") = Places(opts, n, "path")
    BY <1>0, <1>4, PlacesGrow DEF o
  <2> QED BY <1>4, <2>1 DEF PathMeant
<1>5. ASSUME d.type = c.type, o[1] # "type" PROVE TypeMeant(opts, n + 1, d)
  <2>1. Places(opts, n + 1, "type") = Places(opts, n, "type")
    BY <1>0, <1>5, PlacesGrow DEF o
  <2> QED BY <1>5, <2>1 DEF TypeMeant
<1>6. ASSUME d.lastID = c.lastID, o[1] # "header", ~ (o[1] = "lastID" /\ v # NoValue)
      PROVE  IDMeant(opts, n + 1, d)
  <2>1. Places(opts, n + 1, "header") = Places(opts, n, "header")
    BY <1>0, <1>6, PlacesGrow DEF o
  <2>2. IDPlaces(opts, n + 1) = IDPlaces(opts, n)
    BY <1>0, <1>6, PlacesGrow DEF o, v
  <2> QED BY <1>6, <2>1, <2>2 DEF IDMeant
<1>7. CASE o[1] = "path"
  <2>1. d = [c EXCEPT !.path = v]
    BY <1>7 DEF ApplyOption, o, v
  <2>2. d \in ConfigType /\ d.path = v /\ d.type = c.type /\ d.lastID = c.lastID
    BY <1>2, <1>3, <2>1 DEF ConfigType
  <2>3. PathMeant(opts, n + 1, d)
    <3> DEFINE P == Places(opts, n, "path")
    <3>1. P \subseteq 1 .. n /\ Places(opts, n + 1, "path") = P \cup {n + 1}
      BY <1>0, <1>7, PlacesGrow DEF o
    <3> HIDE DEF P
    <3>2. Max(P \cup {n + 1}) = n + 1
      BY <1>0, <3>1, SetGrows
    <3>3. P \cup {n + 1} # {}
      OBVIOUS
    <3> QED BY <2>2, <3>1, <3>2, <3>3 DEF PathMeant, o, v
  <2> QED BY <1>5, <1>6, <1>7, <2>2, <2>3
<1>8. CASE o[1] = "type"
  <2>1. d = [c EXCEPT !.type = Append(@, v)]
    BY <1>8 DEF ApplyOption, WithHeader, o, v
  <2>2. /\ Append(c.type, v) \in Seq(STRING) /\ Append(c.type, v) # <<>>
        /\ Head(Append(c.type, v)) = IF c.type = <<>> THEN v ELSE Head(c.type)
    BY <1>2, <1>3, AppendHead
  <2>3. d \in ConfigType /\ d.path = c.path /\ d.type = Append(c.type, v) /\ d.lastID = c.lastID
    BY <1>3, <2>1, <2>2 DEF ConfigType
  <2>4. TypeMeant(opts, n + 1, d)
    <3> DEFINE P == Places(opts, n, "type")
    <3>1. P \subseteq 1 .. n /\ Places(opts, n + 1, "type") = P \cup {n + 1}
      BY <1>0, <1>8, PlacesGrow DEF o
    <3>2. (c.type = <<>> <=> P = {}) /\ (P # {} => Head(c.type) = opts[Min(P)][2])
      BY DEF TypeMeant
    <3> HIDE DEF P
    <3>3. Min(P \cup {n + 1}) = IF P = {} THEN n + 1 ELSE Min(P)
      BY <1>0, <3>1, SetGrows
    <3>4. P \cup {n + 1} # {}
      OBVIOUS
    <3> QED BY <2>2, <2>3, <3>1, <3>2, <3>3, <3>4 DEF TypeMeant, o, v
  <2> QED BY <1>4, <1>6, <1>8, <2>3, <2>4
<1>9. CASE o[1] = "header"
  <2>1. d = [c EXCEPT !.lastID = Append(@, v)]
    BY <1>9 DEF ApplyOption, WithHeader, o, v
  <2>2. /\ Append(c.lastID, v) \in Seq(STRING) /\ Append(c.lastID, v) # <<>>
        /\ Head(Append(c.lastID, v)) = IF c.lastID = <<>> THEN v ELSE Head(c.lastID)
    BY <1>2, <1>3, AppendHead
  <2>3. d \in ConfigType /\ d.path = c.path /\ d.lastID = Append(c.lastID, v) /\ d.type = c.type
    BY <1>3, <2>1, <2>2 DEF ConfigType
  <2>4. IDMeant(opts, n + 1, d)
    <3> DEFINE P == Places(opts, n, "header")
               I == IDPlaces(opts, n)
    <3>1. P \subseteq 1 .. n /\ Places(opts, n + 1, "header") = P \cup {n + 1} /\ IDPlaces(opts, n + 1) = I
      BY <1>0, <1>9, PlacesGrow DEF o
    <3>2. /\ c.lastID = <<>> <=> I = {} /\ P = {}
          /\ I # {} => Head(c.lastID) = opts[Max(I)][2]
          /\ I = {} /\ P # {} => Head(c.lastID) = opts[Min(P)][2]
      BY DEF IDMeant
    <3> HIDE DEF P, I
    <3>3. Min(P \cup {n + 1}) = IF P = {} THEN n + 1 ELSE Min(P)
      BY <1>0, <3>1, SetGrows
    <3>4. P \cup {n + 1} # {}
      OBVIOUS
    <3> QED BY <2>2, <2>3, <3>1, <3>2, <3>3, <3>4 DEF IDMeant, o, v
  <2> QED BY <1>4, <1>5, <1>9, <2>3, <2>4
<1>10. CASE o[1] = "lastID" /\ v = NoValue
  <2>1. d = c
    BY <1>10 DEF ApplyOption, WithLastEventID, o, v
  <2> QED BY <1>4, <1>5, <1>6, <1>10, <2>1
<1>11. CASE o[1] = "lastID" /\ v # NoValue
  <2>1. d = [c EXCEPT !.lastID = <<v>>]
    BY <1>11 DEF ApplyOption, WithLastEventID, o, v
  <2>2. <<v>> \in Seq(STRING) /\ <<v>> # <<>> /\ Head(<<v>>) = v
    BY <1>2
  <2>3. d \in ConfigType /\ d.path = c.path /\ d.lastID = <<v>> /\ d.type = c.type
    BY <1>3, <2>1, <2>2 DEF ConfigType
  <2>4. IDMeant(opts, n + 1, d)
    <3> DEFINE I == IDPlaces(opts, n)
    <3>1. I \subseteq 1 .. n /\ IDPlaces(opts, n + 1) = I \cup {n + 1}
      BY <1>0, <1>11, PlacesGrow DEF o, v
    <3> HIDE DEF I
    <3>2. Max(I \cup {n + 1}) = n + 1
      BY <1>0, <3>1, SetGrows
    <3>3. I \cup {n + 1} # {}
      OBVIOUS
    <3> QED BY <2>2, <2>3, <3>1, <3>2, <3>3 DEF IDMeant, o, v
  <2> QED BY <1>4, <1>5, <1>11, <2>3, <2>4
<1> QED BY <1>2, <1>7, <1>8, <1>9, <1>10, <1>11

\* All of them.
LEMMA OptionsMean ==
  ASSUME NEW opts \in Seq(OptionNames \X STRING), NEW c, c = ApplyRequestOptions(opts)
  PROVE  /\ c \in ConfigType
         /\ PathMeant(opts, Len(opts), c) /\ TypeMeant(opts, Len(opts), c) /\ IDMeant(opts, Len(opts), c)
<1>0. Len(opts) \in Nat
  OBVIOUS
<1>1. PICK F : ConfigFunction(opts, F, Len(opts)) /\ ApplyRequestOptions(opts) = F[Len(opts)]
  BY OptionsApplied
<1>2. /\ F[0] = [path |-> NoValue, type |-> <<>>, lastID |-> <<>>]
      /\ \A k \in 1 .. Len(opts) : F[k] = ApplyOption(F[k - 1], opts[k])
  <2> DEFINE zero == [path |-> NoValue, type |-> <<>>, lastID |-> <<>>]
             Op(d, k) == ApplyOption(d, opts[k])
  <2>1. F = [k \in 0 .. Len(opts) |-> IF k = 0 THEN zero ELSE Op(F[k - 1], k)]
    BY <1>1 DEF ConfigFunction
  <2> HIDE DEF zero, Op
  <2>2. \A k \in 0 .. Len(opts) : F[k] = IF k = 0 THEN zero ELSE Op(F[k - 1], k)
    BY <2>1
  <2>3. 0 \in 0 .. Len(opts) /\ \A k \in 1 .. Len(opts) : k \in 0 .. Len(opts) /\ k # 0
    BY <1>0
  <2>4. F[0] = zero /\ \A k \in 1 .. Len(opts) : F[k] = Op(F[k - 1], k)
    BY <2>2, <2>3
  <2> QED BY <2>4 DEF zero, Op
<1> DEFINE Good(n) == /\ F[n] \in ConfigType
                      /\ PathMeant(opts, n, F[n]) /\ TypeMeant(opts, n, F[n]) /\ IDMeant(opts, n, F[n])
           T == {n \in 0 .. Len(opts) : Good(n)}
<1>3. 0 \in T
  <2>1. \A name : Places(opts, 0, name) = {}
    BY DEF Places
  <2>2. IDPlaces(opts, 0) = {}
    BY DEF IDPlaces
  <2>3. F[0] \in ConfigType /\ F[0].path = NoValue /\ F[0].type = <<>> /\ F[0].lastID = <<>>
    BY <1>2 DEF ConfigType
  <2>4. Good(0)
    BY <2>1, <2>2, <2>3 DEF PathMeant, TypeMeant, IDMeant
  <2> QED BY <1>0, <2>4
<1>4. ASSUME NEW n \in 0 .. Len(opts) - 1, n \in T PROVE n + 1 \in T
  <2>1. Good(n)
    BY <1>4
  <2>2. n + 1 \in 1 .. Len(opts) /\ (n + 1) - 1 = n /\ n + 1 \in 0 .. Len(opts)
    BY <1>0
  <2>3. F[n + 1] = ApplyOption(F[n], opts[n + 1])
    BY <1>2, <2>2
  <2>4. Good(n + 1)
    BY <2>1, <2>3, OptionMeans
  <2> QED BY <2>2, <2>4
<1>5. \A n \in 0 .. Len(opts) : n \in T
  <2> HIDE DEF T
  <2> QED BY <1>0, <1>3, <1>4, InductionUpTo
<1>6. Good(Len(opts))
  BY <1>0, <1>5
<1> QED BY <1>1, <1>6

\* A handler that runs has been given the request of the options, which could
\* be sent.
RequestInv == case \in Cases /\ (handler # "none" => Sendable(Config) /\ request = Request(Config))

\* It holds in every reachable state.
LEMMA RequestInvariant == Spec => []RequestInv
<1>1. Init => RequestInv
  BY DEF Init, RequestInv
<1>2. ASSUME RequestInv, [Next]_vars PROVE RequestInv'
  <2>1. case' = case
    BY <1>2 DEF Next, TestStep, HandlerStep, CollectNothing, DoRequest, DoFails, DoReturns,
       ReadEvent, ReadEOF, ReadError, CloseBody, Cancel, Cleanup, SendEvent, SendFails, AllSent,
       SeesContext, Return, ServeHTTP, ConnectionLost, Timeout, Flush, Abort, vars
  <2>2. /\ Config' = Config /\ Sendable(Config)' = Sendable(Config)
        /\ Request(Config)' = Request(Config)
    BY <2>1 DEF Config, Sendable, Request, ContentType
  <2>3. CASE ServeHTTP
    BY <1>2, <2>1, <2>2, <2>3 DEF ServeHTTP, RequestInv
  <2>4. CASE TestStep \/ Timeout \/ UNCHANGED vars
    <3>1. request' = request /\ handler' = handler
      BY <2>4 DEF TestStep, CollectNothing, DoRequest, DoFails, DoReturns, ReadEvent, ReadEOF,
         ReadError, CloseBody, Cancel, Cleanup, Timeout, vars, handlerVars
    <3> QED BY <1>2, <2>1, <2>2, <3>1 DEF RequestInv
  <2>5. CASE HandlerStep \/ ConnectionLost \/ Flush \/ Abort
    <3>1. request' = request /\ handler = "running"
      BY <2>5 DEF HandlerStep, SendEvent, SendFails, AllSent, SeesContext, Return,
         ConnectionLost, Flush, Abort
    <3> QED BY <1>2, <2>1, <2>2, <3>1 DEF RequestInv
  <2> QED BY <1>2, <2>3, <2>4, <2>5 DEF Next
<1> QED BY <1>1, <1>2, PTL DEF Spec

\* The handler sees the request that the options describe, whatever they are
\* and in whatever order they are given.
THEOREM AlwaysAsConfigured == Spec => []RequestAsConfigured
<1>1. ASSUME RequestInv PROVE RequestAsConfigured
  <2> SUFFICES ASSUME handler # "none" PROVE RequestAsConfigured
    BY DEF RequestAsConfigured
  <2> DEFINE opts == case.opts
             n == Len(opts)
             c == ApplyRequestOptions(opts)
  <2>0. opts \in Seq(OptionNames \X STRING)
    BY <1>1, CasesAssumption DEF RequestInv
  <2>1. n \in Nat /\ DOMAIN opts = 1 .. n
    BY <2>0
  <2>2. Sendable(c) /\ request = Request(c)
    BY <1>1 DEF RequestInv, Config
  <2>3. c \in ConfigType /\ PathMeant(opts, n, c) /\ TypeMeant(opts, n, c) /\ IDMeant(opts, n, c)
    BY <2>0, OptionsMean
  <2>4. /\ \A name : Given(name) = Places(opts, n, name)
        /\ {i \in Given("lastID") : Value(i) # NoValue} = IDPlaces(opts, n)
    BY <2>1 DEF Given, Value, Places, IDPlaces
  <2>5. \A i : Value(i) = opts[i][2]
    BY DEF Value
  <2> HIDE DEF opts, n, c
  <2>6. c.type \in Seq(STRING) /\ c.lastID \in Seq(STRING)
    BY <2>3 DEF ConfigType
  <2>7. request.path = IF Given("path") = {} \/ Value(Max(Given("path"))) = NoValue
                         THEN Root ELSE Value(Max(Given("path")))
    <3>1. request.path = IF c.path = NoValue THEN Root ELSE c.path
      BY <2>2 DEF Request, TargetPath
    <3> QED BY <2>3, <2>4, <2>5, <3>1 DEF PathMeant
  <2>8. request.type = IF case.helper = "CollectPost" THEN "json" ELSE FirstOf(Given("type"))
    <3>1. request.type = Get(ContentType \o c.type)
      BY <2>2 DEF Request
    <3>2. CASE case.helper = "CollectPost"
      <4>1. ContentType = <<"json">>
        BY <3>2 DEF ContentType
      <4>2. <<"json">> \o c.type # <<>> /\ Head(<<"json">> \o c.type) = "json"
        BY <2>6
      <4> QED BY <3>1, <3>2, <4>1, <4>2 DEF Get
    <3>3. CASE case.helper # "CollectPost"
      <4>1. ContentType \o c.type = c.type
        BY <2>6, <3>3, ConcatEmptySeq DEF ContentType
      <4>2. Get(c.type) = FirstOf(Given("type"))
        BY <2>3, <2>4, <2>5 DEF TypeMeant, Get, FirstOf
      <4> QED BY <3>1, <3>3, <4>1, <4>2
    <3> QED BY <3>2, <3>3
  <2>9. request.lastID = IF IDPlaces(opts, n) # {} THEN Value(Max(IDPlaces(opts, n)))
                                                   ELSE FirstOf(Given("header"))
    <3>1. request.lastID = ParseEventID(Get(c.lastID))
      BY <2>2 DEF Request
    <3>2. Get(c.lastID) # Invalid
      <4>1. CASE c.lastID = <<>>
        BY <4>1 DEF Get, NoValue, Invalid
      <4>2. CASE c.lastID # <<>>
        <5>1. 1 \in DOMAIN c.lastID /\ Head(c.lastID) = c.lastID[1]
          BY <2>6, <4>2
        <5>2. Invalid \notin ToSet(c.lastID)
          BY <2>2 DEF Sendable
        <5> QED BY <4>2, <5>1, <5>2 DEF Get, ToSet
      <4> QED BY <4>1, <4>2
    <3>3. request.lastID = Get(c.lastID)
      BY <3>1, <3>2 DEF ParseEventID
    <3> QED BY <2>3, <2>4, <2>5, <3>3 DEF IDMeant, Get, FirstOf
  <2> QED BY <2>4, <2>7, <2>8, <2>9 DEF RequestAsConfigured
<1> QED BY <1>1, RequestInvariant, PTL
=============================================================================
