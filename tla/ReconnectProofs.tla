--------------------------- MODULE ReconnectProofs ---------------------------
(***************************************************************************)
(* Proofs about reconnection, for any number of events and connections,    *)
(* any size of the store and of the buffers, and both recipes.             *)
(***************************************************************************)
EXTENDS Reconnect, SequenceTheorems, Induction, TLAPS

-----------------------------------------------------------------------------
(* The loop that collects events from the store.                            *)

\* One turn of the loop, and the results of the first n turns.
Turn(s, K, F, i) == IF i = 0 THEN <<>>
                    ELSE IF s[i] \in K THEN Append(F[i - 1], s[i]) ELSE F[i - 1]

Turns(s, K, n) == {F \in [0 .. n -> Seq({s[i] : i \in DOMAIN s})] :
                     \A i \in 0 .. n : F[i] = Turn(s, K, F, i)}

\* The recursion that Keep is defined by has a solution.
LEMMA KeepExists ==
  ASSUME NEW S, NEW s \in Seq(S), NEW K
  PROVE  \E F \in Turns(s, K, Len(s)) : Keep(s, K) = F[Len(s)]
<1> DEFINE V == {s[i] : i \in DOMAIN s}
           T == {n \in 0 .. Len(s) : Turns(s, K, n) # {}}
<1>0. Len(s) \in Nat /\ DOMAIN s = 1 .. Len(s)
  OBVIOUS
<1>1. 0 \in T
  <2>1. [i \in 0 .. 0 |-> <<>>] \in Turns(s, K, 0)
    BY DEF Turns, Turn
  <2> QED BY <1>0, <2>1
<1>2. ASSUME NEW n \in 0 .. Len(s) - 1, n \in T PROVE n + 1 \in T
  <2>1. PICK F : F \in Turns(s, K, n)
    BY <1>2
  <2> DEFINE G == [i \in 0 .. n + 1 |-> IF i <= n THEN F[i] ELSE Turn(s, K, F, n + 1)]
  <2>2. F[n] \in Seq(V) /\ s[n + 1] \in V
    BY <1>0, <2>1 DEF Turns
  <2>3. Turn(s, K, F, n + 1) \in Seq(V)
    BY <1>0, <2>2 DEF Turn
  <2>4. G \in [0 .. n + 1 -> Seq(V)]
    BY <1>0, <2>1, <2>3, SMTT(60) DEF Turns
  <2>5. ASSUME NEW i \in 0 .. n + 1 PROVE G[i] = Turn(s, K, G, i)
    <3>1. CASE i = 0
      BY <1>0, <2>1, <3>1 DEF Turns, Turn
    <3>2. CASE i # 0
      <4>1. i - 1 \in 0 .. n /\ G[i - 1] = F[i - 1]
        BY <3>2
      <4>2. G[i] = Turn(s, K, F, i)
        BY <2>1 DEF Turns
      <4> QED BY <3>2, <4>1, <4>2 DEF Turn
    <3> QED BY <3>1, <3>2
  <2>6. G \in Turns(s, K, n + 1)
    BY <2>4, <2>5 DEF Turns
  <2>7. n + 1 \in 0 .. Len(s)
    BY <1>0
  <2> QED BY <2>6, <2>7
<1>3. Len(s) \in T
  <2> HIDE DEF T
  <2>1. \A i \in 0 .. Len(s) : i \in T
    BY <1>0, <1>1, <1>2, InductionUpTo
  <2> QED BY <1>0, <2>1
<1>4. PICK F : F \in Turns(s, K, Len(s))
  BY <1>3
<1>5. F = [i \in 0 .. Len(s) |-> IF i = 0 THEN <<>>
             ELSE IF s[i] \in K THEN Append(F[i - 1], s[i]) ELSE F[i - 1]]
  BY <1>4 DEF Turns, Turn
<1>6. PICK H : /\ Keep(s, K) = H[Len(s)]
               /\ H = [i \in 0 .. Len(s) |-> IF i = 0 THEN <<>>
                         ELSE IF s[i] \in K THEN Append(H[i - 1], s[i]) ELSE H[i - 1]]
  BY <1>5 DEF Keep
<1> DEFINE U == {i \in 0 .. Len(s) : H[i] \in Seq(V)}
<1>7. 0 \in U
  BY <1>0, <1>6
<1>8. ASSUME NEW n \in 0 .. Len(s) - 1, n \in U PROVE n + 1 \in U
  <2>1. n + 1 \in 1 .. Len(s) /\ s[n + 1] \in V /\ H[n] \in Seq(V)
    BY <1>0, <1>8
  <2>2. H[n + 1] = IF s[n + 1] \in K THEN Append(H[n], s[n + 1]) ELSE H[n]
    <3> DEFINE i == n + 1
    <3>1. H[i] = IF i = 0 THEN <<>>
                 ELSE IF s[i] \in K THEN Append(H[i - 1], s[i]) ELSE H[i - 1]
      <4>1. i \in 0 .. Len(s)
        BY <1>0
      <4> HIDE DEF i
      <4> QED BY <1>6, <4>1
    <3>2. i - 1 = n /\ i # 0
      BY <1>0
    <3> QED BY <3>1, <3>2
  <2>3. H[n + 1] \in Seq(V)
    BY <2>1, <2>2
  <2> QED BY <1>0, <2>1, <2>3
<1>9. \A i \in 0 .. Len(s) : i \in U
  <2> HIDE DEF U
  <2> QED BY <1>0, <1>7, <1>8, InductionUpTo
<1>10. H \in [0 .. Len(s) -> Seq(V)]
  BY <1>6, <1>9
<1>11. H \in Turns(s, K, Len(s))
  BY <1>6, <1>10 DEF Turns, Turn
<1> QED BY <1>6, <1>11

\* The elements of two sequences one after the other.
LEMMA ToSetConcat ==
  ASSUME NEW S, NEW s \in Seq(S), NEW t \in Seq(S)
  PROVE  ToSet(s \o t) = ToSet(s) \cup ToSet(t)
<1> DEFINE st == s \o t
<1>1. /\ st \in Seq(S) /\ DOMAIN st = 1 .. Len(s) + Len(t)
      /\ Len(s) \in Nat /\ Len(t) \in Nat
      /\ DOMAIN s = 1 .. Len(s) /\ DOMAIN t = 1 .. Len(t)
      /\ \A i \in 1 .. Len(s) + Len(t) : st[i] = IF i <= Len(s) THEN s[i] ELSE t[i - Len(s)]
  BY ConcatProperties
<1> HIDE DEF st
<1>2. ToSet(st) \subseteq ToSet(s) \cup ToSet(t)
  <2> SUFFICES ASSUME NEW i \in 1 .. Len(s) + Len(t)
               PROVE  st[i] \in ToSet(s) \cup ToSet(t)
    BY <1>1 DEF ToSet
  <2>1. CASE i <= Len(s)
    BY <1>1, <2>1 DEF ToSet
  <2>2. CASE ~ (i <= Len(s))
    <3>1. i - Len(s) \in 1 .. Len(t) /\ st[i] = t[i - Len(s)]
      BY <1>1, <2>2
    <3> QED BY <1>1, <3>1 DEF ToSet
  <2> QED BY <2>1, <2>2
<1>3. ToSet(s) \subseteq ToSet(st)
  BY <1>1 DEF ToSet
<1>4. ToSet(t) \subseteq ToSet(st)
  <2> SUFFICES ASSUME NEW i \in 1 .. Len(t) PROVE \E j \in 1 .. Len(s) + Len(t) : st[j] = t[i]
    BY <1>1 DEF ToSet
  <2>1. Len(s) + i \in 1 .. Len(s) + Len(t) /\ ~ (Len(s) + i <= Len(s)) /\ (Len(s) + i) - Len(s) = i
    BY <1>1
  <2> QED BY <1>1, <2>1
<1> QED BY <1>2, <1>3, <1>4 DEF st

\* The elements of a sequence with one more at the end.
LEMMA ToSetAppend ==
  ASSUME NEW S, NEW s \in Seq(S), NEW e \in S
  PROVE  ToSet(Append(s, e)) = ToSet(s) \cup {e}
<1>1. Append(s, e) = s \o <<e>> /\ <<e>> \in Seq(S)
  BY AppendIsConcat
<1>2. ToSet(<<e>>) = {e}
  BY DEF ToSet
<1>3. ToSet(s \o <<e>>) = ToSet(s) \cup ToSet(<<e>>)
  BY <1>1, ToSetConcat
<1> QED BY <1>1, <1>2, <1>3

\* The head and the rest.
LEMMA ToSetHeadTail ==
  ASSUME NEW S, NEW s \in Seq(S), s # <<>>
  PROVE  ToSet(s) = ToSet(Tail(s)) \cup {Head(s)}
<1>1. s = <<Head(s)>> \o Tail(s) /\ Head(s) \in S /\ Tail(s) \in Seq(S) /\ <<Head(s)>> \in Seq(S)
  OBVIOUS
<1>2. ToSet(<<Head(s)>> \o Tail(s)) = ToSet(<<Head(s)>>) \cup ToSet(Tail(s))
  BY <1>1, ToSetConcat, ZenonT(60)
<1>3. ToSet(<<Head(s)>>) = {Head(s)}
  BY DEF ToSet
<1> QED BY <1>1, <1>2, <1>3

\* The head is the first element.
LEMMA HeadAt ==
  ASSUME NEW S, NEW s \in Seq(S), s # <<>>
  PROVE  Head(s) = s[1] /\ 1 \in DOMAIN s /\ Head(s) \in S
<1>1. Len(s) \in Nat \ {0} /\ DOMAIN s = 1 .. Len(s)
  BY EmptySeq, LenProperties
<1>2. 1 \in DOMAIN s
  BY <1>1
<1> QED BY <1>1, <1>2, HeadTailProperties

\* There is something after the head just if there are two elements.
LEMMA TailEmpty ==
  ASSUME NEW S, NEW s \in Seq(S), s # <<>>
  PROVE  Tail(s) # <<>> <=> Len(s) > 1
<1> DEFINE t == Tail(s)
<1>1. t \in Seq(S) /\ Len(t) = Len(s) - 1 /\ Len(s) \in Nat
  BY HeadTailProperties, LenProperties
<1> HIDE DEF t
<1>2. t = <<>> <=> Len(t) = 0
  BY <1>1, EmptySeq
<1>3. Len(t) # 0 <=> Len(s) > 1
  <2>1. Len(t) \in Nat
    BY <1>1, LenProperties
  <2> QED BY <1>1, <2>1
<1>4. t # <<>> <=> Len(s) > 1
  BY <1>2, <1>3
<1> QED BY <1>4 DEF t

\* Keep keeps just the elements of s that are in K ...
LEMMA KeepElements ==
  ASSUME NEW S, NEW s \in Seq(S), NEW K
  PROVE  Keep(s, K) \in Seq(S) /\ ToSet(Keep(s, K)) = ToSet(s) \cap K
<1> DEFINE V == {s[i] : i \in DOMAIN s}
           Of(n) == {s[i] : i \in 1 .. n} \cap K
<1>1. Len(s) \in Nat /\ DOMAIN s = 1 .. Len(s) /\ V \subseteq S
  OBVIOUS
<1>2. PICK F \in Turns(s, K, Len(s)) : Keep(s, K) = F[Len(s)]
  BY KeepExists
<1>3. \A i \in 0 .. Len(s) : F[i] \in Seq(V) /\ F[i] = Turn(s, K, F, i)
  BY <1>2 DEF Turns
<1> DEFINE T == {n \in 0 .. Len(s) : ToSet(F[n]) = Of(n)}
<1>4. 0 \in T
  <2>1. F[0] = <<>>
    <3>1. 0 \in 0 .. Len(s)
      BY <1>1
    <3>2. F[0] = Turn(s, K, F, 0)
      BY <1>3, <3>1
    <3> QED BY <3>2 DEF Turn
  <2> QED BY <1>1, <2>1 DEF ToSet
<1>5. ASSUME NEW n \in 0 .. Len(s) - 1, n \in T PROVE n + 1 \in T
  <2>1. n + 1 \in 0 .. Len(s) /\ n \in 0 .. Len(s) /\ (n + 1) - 1 = n /\ n + 1 # 0 /\ s[n + 1] \in V
    BY <1>1
  <2>2. F[n + 1] = IF s[n + 1] \in K THEN Append(F[n], s[n + 1]) ELSE F[n]
    BY <1>3, <2>1 DEF Turn
  <2>3. Of(n + 1) = Of(n) \cup ({s[n + 1]} \cap K)
    <3>1. 1 .. n + 1 = (1 .. n) \cup {n + 1}
      BY <1>1
    <3> QED BY <3>1
  <2>4. F[n] \in Seq(V)
    BY <1>3, <2>1
  <2>5. ToSet(F[n + 1]) = Of(n) \cup ({s[n + 1]} \cap K)
    <3> HIDE DEF Of, V
    <3>1. ToSet(F[n]) = Of(n)
      BY <1>5
    <3>2. CASE s[n + 1] \in K
      BY <2>1, <2>2, <2>4, <3>1, <3>2, ToSetAppend
    <3>3. CASE s[n + 1] \notin K
      BY <2>2, <3>1, <3>3
    <3> QED BY <3>2, <3>3
  <2> HIDE DEF Of
  <2> QED BY <2>1, <2>3, <2>5
<1>6. Len(s) \in T
  <2> HIDE DEF T
  <2>1. \A i \in 0 .. Len(s) : i \in T
    BY <1>1, <1>4, <1>5, InductionUpTo
  <2> QED BY <1>1, <2>1
<1>7. Keep(s, K) \in Seq(S)
  <2>1. Keep(s, K) \in Seq(V)
    BY <1>1, <1>2, <1>3
  <2> HIDE DEF V
  <2> QED BY <1>1, <2>1, SeqMonotonic
<1> QED BY <1>1, <1>2, <1>6, <1>7 DEF ToSet

\* ... and in their order.
LEMMA KeepIncreasing ==
  ASSUME NEW s \in Seq(Int), NEW K, \A i, j \in DOMAIN s : i < j => s[i] < s[j]
  PROVE  LET t == Keep(s, K) IN \A i, j \in DOMAIN t : i < j => t[i] < t[j]
<1> DEFINE V == {s[i] : i \in DOMAIN s}
<1>1. Len(s) \in Nat /\ DOMAIN s = 1 .. Len(s) /\ V \subseteq Int
  OBVIOUS
<1>2. PICK F \in Turns(s, K, Len(s)) : Keep(s, K) = F[Len(s)]
  BY KeepExists
<1>3. \A i \in 0 .. Len(s) : F[i] \in Seq(V) /\ F[i] = Turn(s, K, F, i)
  BY <1>2 DEF Turns
<1> DEFINE Good(n) ==
      /\ \A i \in DOMAIN F[n] : \E m \in 1 .. n : F[n][i] = s[m]
      /\ \A i, j \in DOMAIN F[n] : i < j => F[n][i] < F[n][j]
<1> DEFINE T == {n \in 0 .. Len(s) : Good(n)}
<1>4. 0 \in T
  <2>1. F[0] = <<>>
    <3>1. 0 \in 0 .. Len(s)
      BY <1>1
    <3>2. F[0] = Turn(s, K, F, 0)
      BY <1>3, <3>1
    <3> QED BY <3>2 DEF Turn
  <2> QED BY <1>1, <2>1
<1>5. ASSUME NEW n \in 0 .. Len(s) - 1, n \in T PROVE n + 1 \in T
  <2>1. n + 1 \in 0 .. Len(s) /\ n \in 0 .. Len(s) /\ (n + 1) - 1 = n /\ n + 1 # 0 /\ s[n + 1] \in Int
    BY <1>1
  <2>2. F[n + 1] = IF s[n + 1] \in K THEN Append(F[n], s[n + 1]) ELSE F[n]
    BY <1>3, <2>1 DEF Turn
  <2>3. F[n] \in Seq(Int)
    <3> HIDE DEF V
    <3> QED BY <1>1, <1>3, <2>1, SeqMonotonic
  <2>4. \A m \in 1 .. n : s[m] < s[n + 1]
    BY <1>1, SMTT(60)
  <2>5. Good(n)
    BY <1>5
  <2>6. CASE s[n + 1] \in K
    <3> DEFINE a == F[n]  e == s[n + 1]  b == Append(a, e)
    <3>1. /\ DOMAIN a = 1 .. Len(a) /\ Len(a) \in Nat /\ DOMAIN b = 1 .. Len(a) + 1
          /\ b[Len(a) + 1] = e /\ \A i \in 1 .. Len(a) : b[i] = a[i]
      BY <2>1, <2>3
    <3>2. \A i \in DOMAIN a : (\E m \in 1 .. n : a[i] = s[m]) /\ a[i] < e
      BY <2>4, <2>5
    <3>3. F[n + 1] = b
      BY <2>2, <2>6
    <3>4. \A i, j \in DOMAIN a : i < j => a[i] < a[j]
      BY <2>5
    <3> HIDE DEF a, b
    <3>5. \A i \in DOMAIN b : \E m \in 1 .. n + 1 : b[i] = s[m]
      BY <2>1, <3>1, <3>2
    <3>6. \A i, j \in DOMAIN b : i < j => b[i] < b[j]
      BY <3>1, <3>2, <3>4, SMTT(60)
    <3>7. Good(n + 1)
      BY <3>3, <3>5, <3>6
    <3> QED BY <2>1, <3>7
  <2>7. CASE s[n + 1] \notin K
    <3>1. F[n + 1] = F[n]
      BY <2>2, <2>7
    <3>2. Good(n + 1)
      BY <2>5, <3>1
    <3> QED BY <2>1, <3>2
  <2> QED BY <2>6, <2>7
<1>6. Len(s) \in T
  <2> HIDE DEF T
  <2>1. \A i \in 0 .. Len(s) : i \in T
    BY <1>1, <1>4, <1>5, InductionUpTo
  <2> QED BY <1>1, <2>1
<1> QED BY <1>2, <1>6

-----------------------------------------------------------------------------
(* Types, and where the handlers are.                                       *)

\* What the recipe of a behaviour says.
LEMMA RecipeType ==
  ASSUME recipe \in Recipes
  PROVE  /\ AlertsOnly \in BOOLEAN /\ SubscribeFirst \in BOOLEAN
         /\ Opens \in 1 .. MaxConns /\ MaxConns \in Nat
  BY RecipeAssumption, BoundsAssumption DEF AlertsOnly, SubscribeFirst, Opens

\* What the store hands out.
LEMMA MissedType ==
  ASSUME TypeOK, NEW id \in Nat
  PROVE  /\ Missed(id) \in Seq(Events)
         /\ \A k \in ToSet(Missed(id)) : k \in ToSet(store) /\ k > id
         /\ \A k \in ToSet(store) : k > id => k \in ToSet(Missed(id)) \/ ~Wanted(k)
         /\ SubscribeFirst => \A k \in ToSet(Missed(id)) : Wanted(k)
<1> DEFINE After == {k \in Events : k > id}
           Want  == {k \in Events : Wanted(k)}
<1>1. store \in Seq(Events)
  BY DEF TypeOK
<1>2. EventsAfter(id) \in Seq(Events) /\ ToSet(EventsAfter(id)) = ToSet(store) \cap After
  <2> HIDE DEF After
  <2>1. EventsAfter(id) = Keep(store, After)
    BY DEF EventsAfter, After
  <2> QED BY <1>1, <2>1, KeepElements
<1>3. ToSet(store) \subseteq Events
  BY <1>1 DEF ToSet
<1>4. CASE ~SubscribeFirst
  BY <1>2, <1>3, <1>4 DEF Missed
<1>5. CASE SubscribeFirst
  <2>1. /\ Missed(id) \in Seq(Events)
        /\ ToSet(Missed(id)) = ToSet(EventsAfter(id)) \cap Want
    <3> HIDE DEF Want
    <3>1. Missed(id) = Keep(EventsAfter(id), Want)
      BY <1>5 DEF Missed, Want
    <3> QED BY <1>2, <3>1, KeepElements
  <2> QED BY <1>2, <1>3, <2>1
<1> QED BY <1>4, <1>5

\* What a broadcast of m does: to a subscriber's buffer it appends m or nothing.
LEMMA BroadcastEffect ==
  ASSUME TypeOK, NEW m \in 0 .. total, Broadcast(m)
  PROVE  /\ buf' \in [Conns -> Seq(0 .. total)]
         /\ \A n \in Conns :
              /\ Len(buf'[n]) <= BufSize
              /\ \/ buf'[n] = buf[n] /\ (n \in subs => ~Wanted(m) \/ ~HasRoom(n))
                 \/ buf'[n] = Append(buf[n], m) /\ n \in subs /\ Wanted(m)
         /\ lost' \in {lost, lost \cup {<<"drop", m>>}}
         /\ lost' \subseteq {"first", "gap", "evicted", "drop", "store"} \X Events
<1> USE SizeAssumption
<1>1. buf \in [Conns -> Seq(0 .. total)] /\ total \in Nat /\ \A n \in Conns : Len(buf[n]) <= BufSize
  BY BoundsAssumption DEF TypeOK
<1>2. ASSUME NEW n \in Conns
      PROVE  /\ buf'[n] \in Seq(0 .. total) /\ Len(buf'[n]) <= BufSize
             /\ \/ buf'[n] = buf[n] /\ (n \in subs => ~Wanted(m) \/ ~HasRoom(n))
                \/ buf'[n] = Append(buf[n], m) /\ n \in subs /\ Wanted(m)
  <2>1. CASE n \in subs /\ Wanted(m) /\ HasRoom(n)
    <3>1. buf'[n] = Append(buf[n], m)
      BY <2>1 DEF Broadcast
    <3>2. buf[n] \in Seq(0 .. total) /\ Len(buf[n]) \in Nat
      BY <1>1
    <3>3. Append(buf[n], m) \in Seq(0 .. total) /\ Len(Append(buf[n], m)) = Len(buf[n]) + 1
      BY <3>2, AppendProperties
    <3>4. Len(buf[n]) + 1 <= BufSize
      BY <2>1, <3>2 DEF HasRoom
    <3> QED BY <2>1, <3>1, <3>3, <3>4
  <2>2. CASE ~(n \in subs /\ Wanted(m) /\ HasRoom(n))
    <3>1. buf'[n] = buf[n]
      BY <2>2 DEF Broadcast
    <3> QED BY <1>1, <2>2, <3>1
  <2> QED BY <2>1, <2>2
<1>3. buf' \in [Conns -> Seq(0 .. total)]
  BY <1>2 DEF Broadcast
<1>4. lost' \in {lost, lost \cup {<<"drop", m>>}}
  BY DEF Broadcast
<1>5. lost' \subseteq {"first", "gap", "evicted", "drop", "store"} \X Events
  <2>1. lost' = lost \/ (m # 0 /\ lost' = lost \cup {<<"drop", m>>})
    BY DEF Broadcast, Meta
  <2>2. m # 0 => m \in Events
    BY <1>1 DEF Events
  <2> QED BY <2>1, <2>2 DEF TypeOK
<1> QED BY <1>2, <1>3, <1>4, <1>5

\* The producer's first step preserves the types: one more event.
LEMMA EmitType == TypeOK /\ EmitAppend => TypeOK'
<1> SUFFICES ASSUME TypeOK, EmitAppend PROVE TypeOK'
  OBVIOUS
<1> USE DEF EmitAppend, replayVars, tabVars
<1>1. total \in Nat /\ total' = total + 1 /\ total' \in 0 .. MaxEvents /\ Events = 1 .. total
      /\ Events' = 1 .. total'
  BY BoundsAssumption DEF TypeOK, Events
<1>2. Events \subseteq Events' /\ 0 .. total \subseteq 0 .. total' /\ total + 1 \in Events'
  BY <1>1
<1>3. \A s \in Seq(Events) : s \in Seq(Events')
  BY <1>2, SeqMonotonic
<1>4. \A s \in Seq(0 .. total) : s \in Seq(0 .. total')
  BY <1>2, SeqMonotonic
<1>5. alerts' \subseteq Events'
  BY <1>2 DEF TypeOK, GenerateItem
<1>6. store' \in Seq(Events') /\ Len(store') <= StoreCap
  <2> DEFINE s == Append(store, total + 1)
  <2>1. s \in Seq(Events') /\ Len(s) \in Nat
    BY <1>2, <1>3 DEF TypeOK
  <2>2. store' = IF Len(s) > StoreCap THEN SubSeq(s, Len(s) - StoreCap + 1, Len(s)) ELSE s
    BY DEF Trim
  <2>3. StoreCap \in Nat /\ StoreCap # 0
    BY SizeAssumption
  <2>4. CASE Len(s) > StoreCap
    <3> HIDE DEF s
    <3> DEFINE a == Len(s) - StoreCap + 1
    <3>1. a \in 1 .. Len(s) /\ Len(s) - a + 1 = StoreCap
      BY <2>1, <2>3, <2>4
    <3>2. \A i \in a .. Len(s) : s[i] \in Events'
      BY <2>1, <3>1
    <3> HIDE DEF a
    <3>3. SubSeq(s, a, Len(s)) \in Seq(Events') /\ Len(SubSeq(s, a, Len(s))) = Len(s) - a + 1
      BY <2>1, <3>1, <3>2, SubSeqProperties
    <3>4. store' = SubSeq(s, a, Len(s))
      BY <2>2, <2>4 DEF a
    <3>5. Len(SubSeq(s, a, Len(s))) <= StoreCap
      BY <2>3, <3>1, <3>3
    <3> HIDE DEF EmitAppend
    <3> QED BY <3>3, <3>4, <3>5
  <2>5. CASE ~(Len(s) > StoreCap)
    <3> HIDE DEF s
    <3> QED BY <2>1, <2>2, <2>3, <2>5
  <2> QED BY <2>4, <2>5
<1>7. buf' \in [Conns -> Seq(0 .. total')] /\ \A n \in Conns : Len(buf'[n]) <= BufSize
  BY <1>4 DEF TypeOK
<1>8. wire' \in [Conns -> Seq(Events')] /\ pending' \in [Conns -> Seq(Events')]
  BY <1>3 DEF TypeOK
<1>9. lastEventID' \in [Conns -> 0 .. total'] /\ snapshot' \in [Conns -> 0 .. total']
      /\ lastID' \in 0 .. total'
  BY <1>2 DEF TypeOK
<1>10. got' \in Seq(Events') /\ lost' \subseteq {"first", "gap", "evicted", "drop", "store"} \X Events'
  BY <1>2, <1>3 DEF TypeOK
<1>11. UNCHANGED <<recipe, subs, up, cur, pc, Conns, HandlerPC>> /\ prod' = "evt"
  BY DEF Conns, HandlerPC
<1> QED BY <1>1, <1>5, <1>6, <1>7, <1>8, <1>9, <1>10, <1>11 DEF TypeOK

\* A handler's step preserves the types.
LEMMA HandleType ==
  ASSUME TypeOK, ConnInv, NEW n \in Conns, Handle(n)
  PROVE  TypeOK'
<1>0. UNCHANGED <<recipe, prodVars, Conns, Events, HandlerPC>>
  BY DEF Handle, Replay, SkipReplay, ReplayRead, StoreFails, ReplaySend, ReplayFails,
     ReplayBanner, Subscribe, SubscribeHook, Forward, CtxDone, Unsubscribe, UnsubscribeHook,
     prodVars, Conns, Events, HandlerPC
<1>1. recipe \in Recipes /\ total \in Nat /\ total \in 0 .. total /\ Events = 1 .. total
      /\ 0 \in 0 .. total /\ Meta = 0
  BY BoundsAssumption DEF TypeOK, Events, Meta
<1>2. {AfterReplay, AfterHook} \subseteq HandlerPC
  BY DEF AfterReplay, AfterHook, HandlerPC
<1> USE DEF replayVars, tabVars, prodVars
<1>3. CASE SkipReplay(n) \/ CtxDone(n)
  <2>1. \E q \in HandlerPC : pc' = [pc EXCEPT ![n] = q]
    BY <1>2, <1>3 DEF SkipReplay, CtxDone, HandlerPC
  <2>2. UNCHANGED <<subs, buf, replayVars, up, wire, tabVars, lost>>
    BY <1>3 DEF SkipReplay, CtxDone
  <2> QED BY <1>0, <2>1, <2>2 DEF TypeOK
<1>4. CASE ReplayRead(n)
  <2>1. lastEventID[n] \in Nat
    BY <1>1 DEF TypeOK
  <2>2. Missed(lastEventID[n]) \in Seq(Events)
    BY <2>1, MissedType
  <2>3. \E q \in HandlerPC : pc' = [pc EXCEPT ![n] = q]
    BY <1>2, <1>4 DEF ReplayRead, HandlerPC
  <2>4. lost' \subseteq {"first", "gap", "evicted", "drop", "store"} \X Events
    BY <1>4 DEF ReplayRead, Evicted, TypeOK
  <2>5. UNCHANGED <<subs, buf, lastEventID, up, wire, tabVars>>
        /\ snapshot' = [snapshot EXCEPT ![n] = total]
        /\ pending' = [pending EXCEPT ![n] = Missed(lastEventID[n])]
    BY <1>4 DEF ReplayRead
  <2> QED BY <1>0, <1>1, <2>2, <2>3, <2>4, <2>5 DEF TypeOK
<1>5. CASE StoreFails(n)
  <2>1. pc' = [pc EXCEPT ![n] = AfterReplay] /\ UNCHANGED <<subs, buf, replayVars, up, wire, tabVars>>
    BY <1>5 DEF StoreFails
  <2>2. Broadcasted \in Int /\ Broadcasted <= total /\ lastEventID[n] \in Nat
    BY <1>1 DEF Broadcasted, TypeOK
  <2>3. (lastEventID[n] + 1) .. Broadcasted \subseteq Events
    BY <1>1, <2>2
  <2>4. lost' \subseteq {"first", "gap", "evicted", "drop", "store"} \X Events
    BY <1>5, <2>3 DEF StoreFails, TypeOK
  <2> QED BY <1>0, <1>2, <2>1, <2>4 DEF TypeOK
<1>6. CASE ReplaySend(n)
  <2>1. pending[n] \in Seq(Events) /\ pending[n] # <<>> /\ wire[n] \in Seq(Events)
    BY <1>6 DEF ReplaySend, ConnInv, HandlerOK, TypeOK
  <2>2. Head(pending[n]) \in Events /\ Tail(pending[n]) \in Seq(Events)
    BY <2>1
  <2>3. wire' \in [Conns -> Seq(Events)]
    BY <1>6, <2>1, <2>2 DEF ReplaySend, SendOK, TypeOK
  <2>4. pending' \in [Conns -> Seq(Events)]
    BY <1>6, <2>2 DEF ReplaySend, TypeOK
  <2>5. \E q \in HandlerPC : pc' = [pc EXCEPT ![n] = q]
    BY <1>2, <1>6 DEF ReplaySend, HandlerPC
  <2>6. UNCHANGED <<subs, buf, lastEventID, snapshot, up, tabVars, lost>>
    BY <1>6 DEF ReplaySend
  <2> QED BY <1>0, <2>3, <2>4, <2>5, <2>6 DEF TypeOK
<1>7. CASE ReplayFails(n)
  BY <1>0, <1>2, <1>7 DEF ReplayFails, SendFails, TypeOK
<1>8. CASE ReplayBanner(n)
  <2>1. UNCHANGED wire
    BY <1>8 DEF ReplayBanner, SendOK, SendFails
  <2>2. \E q \in HandlerPC : pc' = [pc EXCEPT ![n] = q]
    BY <1>8 DEF ReplayBanner, HandlerPC
  <2> QED BY <1>0, <1>8, <2>1, <2>2 DEF ReplayBanner, TypeOK
<1>9. CASE Subscribe(n)
  <2>1. lost' \subseteq {"first", "gap", "evicted", "drop", "store"} \X Events
    BY <1>9 DEF Subscribe, Unreached, TypeOK
  <2>2. \E q \in HandlerPC : pc' = [pc EXCEPT ![n] = q]
    BY <1>9 DEF Subscribe, HandlerPC
  <2> QED BY <1>0, <1>9, <2>1, <2>2 DEF Subscribe, TypeOK
<1>10. CASE SubscribeHook(n) \/ UnsubscribeHook(n)
  <2>1. Broadcast(Meta) /\ UNCHANGED <<subs, replayVars, up, wire, tabVars>>
    BY <1>10 DEF SubscribeHook, UnsubscribeHook
  <2>2. \E q \in HandlerPC : pc' = [pc EXCEPT ![n] = q]
    BY <1>2, <1>10 DEF SubscribeHook, UnsubscribeHook, HandlerPC
  <2>3. /\ buf' \in [Conns -> Seq(0 .. total)] /\ \A c \in Conns : Len(buf'[c]) <= BufSize
        /\ lost' \subseteq {"first", "gap", "evicted", "drop", "store"} \X Events
    BY <1>1, <2>1, BroadcastEffect
  <2> QED BY <1>0, <2>1, <2>2, <2>3 DEF TypeOK
<1>11. CASE Forward(n)
  <2>1. buf[n] \in Seq(0 .. total) /\ buf[n] # <<>> /\ wire[n] \in Seq(Events) /\ Len(buf[n]) <= BufSize
    BY <1>11 DEF Forward, TypeOK
  <2>2. /\ Head(buf[n]) \in 0 .. total /\ Tail(buf[n]) \in Seq(0 .. total)
        /\ Len(Tail(buf[n])) <= BufSize
    <3>1. /\ Head(buf[n]) \in 0 .. total /\ Tail(buf[n]) \in Seq(0 .. total)
          /\ Len(Tail(buf[n])) = Len(buf[n]) - 1
      BY <2>1, HeadTailProperties, Zenon
    <3>2. Len(buf[n]) \in Nat
      BY <2>1, LenProperties, Zenon
    <3> QED BY <2>1, <3>1, <3>2, SizeAssumption
  <2>3. Head(buf[n]) # Meta => Head(buf[n]) \in Events
    BY <1>1, <2>2
  <2>4. wire' \in [Conns -> Seq(Events)]
    <3>1. \/ wire' = wire
          \/ Head(buf[n]) # Meta /\ wire' = [wire EXCEPT ![n] = Append(wire[n], Head(buf[n]))]
      BY <1>11 DEF Forward, SendOK, SendFails
    <3>2. Head(buf[n]) # Meta => Append(wire[n], Head(buf[n])) \in Seq(Events)
      BY <2>1, <2>3
    <3> QED BY <3>1, <3>2 DEF TypeOK
  <2>5. buf' \in [Conns -> Seq(0 .. total)] /\ \A c \in Conns : Len(buf'[c]) <= BufSize
    BY <1>11, <2>2 DEF Forward, TypeOK
  <2>6. pc' \in [Conns -> HandlerPC]
    <3>1. pc' = pc \/ pc' = [pc EXCEPT ![n] = "unsubscribe"]
      BY <1>11 DEF Forward
    <3>2. "unsubscribe" \in HandlerPC
      BY DEF HandlerPC
    <3> QED BY <3>1, <3>2 DEF TypeOK
  <2> QED BY <1>0, <1>11, <2>4, <2>5, <2>6 DEF Forward, TypeOK
<1>12. CASE Unsubscribe(n)
  <2>1. /\ buf' \in [Conns -> Seq(0 .. total)] /\ \A c \in Conns : Len(buf'[c]) <= BufSize
        /\ subs' \subseteq Conns
    BY <1>12, SizeAssumption DEF Unsubscribe, TypeOK
  <2>2. \E q \in HandlerPC : pc' = [pc EXCEPT ![n] = q]
    BY <1>12 DEF Unsubscribe, HandlerPC
  <2> QED BY <1>0, <1>12, <2>1, <2>2 DEF Unsubscribe, TypeOK
<1> QED BY <1>3, <1>4, <1>5, <1>6, <1>7, <1>8, <1>9, <1>10, <1>11, <1>12 DEF Handle, Replay

\* So do the tab's, the network's and the producer's other steps.
LEMMA OutsideType ==
  ASSUME TypeOK, ConnInv,
         EmitBroadcast \/ EmitSignal \/ Connect \/ Receive \/ Disconnect \/ UNCHANGED vars
  PROVE  TypeOK'
<1> USE DEF replayVars, tabVars, prodVars
<1>0. UNCHANGED <<recipe, total, alerts, store, Conns, Events, HandlerPC>>
  BY DEF EmitBroadcast, EmitSignal, Connect, Receive, Disconnect, vars, Conns, Events, HandlerPC
<1>1. recipe \in Recipes /\ total \in Nat /\ total \in 0 .. total /\ Events = 1 .. total
      /\ 0 \in 0 .. total /\ Meta = 0
  BY BoundsAssumption DEF TypeOK, Events, Meta
<1>2. CASE EmitBroadcast \/ EmitSignal
  <2>1. PICK m \in 0 .. total : Broadcast(m)
    BY <1>1, <1>2 DEF EmitBroadcast, EmitSignal
  <2>2. /\ buf' \in [Conns -> Seq(0 .. total)] /\ \A c \in Conns : Len(buf'[c]) <= BufSize
        /\ lost' \subseteq {"first", "gap", "evicted", "drop", "store"} \X Events
    BY <2>1, BroadcastEffect
  <2>3. prod' \in {"idle", "evt", "signal"} /\ UNCHANGED <<subs, pc, replayVars, up, wire, tabVars>>
    BY <1>2 DEF EmitBroadcast, EmitSignal
  <2> QED BY <1>0, <2>2, <2>3 DEF TypeOK
<1>3. CASE Connect
  <2>1. cur \in Int /\ cur + 1 \in Conns /\ cur + 1 \in 0 .. MaxConns
    BY <1>1, <1>3, RecipeType DEF Connect, TypeOK, Conns
  <2>2. {"subscribe", "replay"} \subseteq HandlerPC
    BY DEF HandlerPC
  <2>3. lost' \subseteq lost
    BY <1>3 DEF Connect
  <2>4. pc' \in [Conns -> HandlerPC] /\ lastEventID' \in [Conns -> 0 .. total]
    BY <1>3, <2>1, <2>2 DEF Connect, TypeOK
  <2> QED BY <1>0, <1>3, <2>1, <2>3, <2>4 DEF Connect, TypeOK
<1>4. CASE Receive
  <2>1. cur \in Conns /\ wire[cur] \in Seq(Events) /\ wire[cur] # <<>>
    BY <1>4 DEF Receive, TypeOK
  <2>2. Head(wire[cur]) \in Events /\ Tail(wire[cur]) \in Seq(Events)
    BY <2>1
  <2>3. got' \in Seq(Events) /\ lastID' \in 0 .. total
    BY <1>1, <1>4, <2>2 DEF Receive, TypeOK
  <2>4. wire' \in [Conns -> Seq(Events)]
    BY <1>4, <2>2 DEF Receive, TypeOK
  <2> QED BY <1>0, <1>4, <2>3, <2>4 DEF Receive, TypeOK
<1>5. CASE Disconnect
  <2>1. wire' \in [Conns -> Seq(Events)]
    BY <1>5 DEF Disconnect, TypeOK
  <2> QED BY <1>0, <1>5, <2>1 DEF Disconnect, TypeOK
<1>6. CASE UNCHANGED vars
  BY <1>0, <1>6 DEF vars, TypeOK
<1> QED BY <1>2, <1>3, <1>4, <1>5, <1>6

\* The store stays the newest events, one after the other.
LEMMA NextStore ==
  ASSUME TypeOK, StoreInv, EmitAppend \/ UNCHANGED <<total, store>>
  PROVE  StoreInv'
<1>1. CASE UNCHANGED <<total, store>>
  BY <1>1 DEF StoreInv
<1>2. CASE EmitAppend
  <2> DEFINE s == Append(store, total + 1)
  <2>1. /\ total \in Nat /\ store \in Seq(Int) /\ Len(store) \in Nat /\ DOMAIN store = 1 .. Len(store)
        /\ total' = total + 1
    BY <1>2, BoundsAssumption DEF TypeOK, Events, EmitAppend
  <2>2. /\ s \in Seq(Int) /\ Len(s) = Len(store) + 1 /\ DOMAIN s = 1 .. Len(s)
        /\ s[Len(store) + 1] = total + 1 /\ \A i \in 1 .. Len(store) : s[i] = store[i]
    BY <2>1
  <2>3. store' = IF Len(s) > StoreCap THEN SubSeq(s, Len(s) - StoreCap + 1, Len(s)) ELSE s
    BY <1>2 DEF Trim, EmitAppend
  <2> HIDE DEF s
  <2>4. \A i \in 1 .. Len(s) : s[i] = (total + 1) - Len(s) + i
    BY <2>1, <2>2, SMTT(60) DEF StoreInv
  <2>5. CASE ~(Len(s) > StoreCap)
    BY <2>1, <2>2, <2>3, <2>4, <2>5 DEF StoreInv
  <2>6. CASE Len(s) > StoreCap
    <3> DEFINE a == Len(s) - StoreCap + 1
               r == SubSeq(s, a, Len(s))
    <3>1. a \in 1 .. Len(s) /\ a \in Int /\ Len(s) \in Int /\ StoreCap \in Nat /\ Len(s) - a + 1 = StoreCap
      BY <2>1, <2>2, <2>6, SizeAssumption
    <3>2. \A i \in a .. Len(s) : s[i] \in Int
      BY <2>2, <3>1
    <3> HIDE DEF a
    <3>3. /\ r \in Seq(Int) /\ Len(r) = (IF a <= Len(s) THEN Len(s) - a + 1 ELSE 0)
          /\ \A i \in 1 .. Len(s) - a + 1 : r[i] = s[a + i - 1]
      BY <3>1, <3>2, SubSeqProperties
    <3>4. DOMAIN r = 1 .. StoreCap /\ Len(r) = StoreCap
      BY <3>1, <3>3
    <3>5. store' = r
      BY <2>3, <2>6 DEF a
    <3> HIDE DEF r
    <3>6. \A i \in 1 .. StoreCap : r[i] = s[a + i - 1] /\ a + i - 1 \in 1 .. Len(s)
      BY <3>1, <3>3
    <3>7. \A i \in 1 .. StoreCap : r[i] = (total + 1) - StoreCap + i
      BY <2>1, <2>4, <3>1, <3>6
    <3> QED BY <2>1, <3>4, <3>5, <3>7 DEF StoreInv
  <2> QED BY <2>5, <2>6
<1> QED BY <1>1, <1>2

\* A connection that a step does not touch stays as it is.
LEMMA SameHandler ==
  ASSUME NEW c \in Conns, HandlerOK(c),
         UNCHANGED <<recipe, cur, lastID, pc[c], lastEventID[c], pending[c], snapshot[c], wire[c]>>,
         c \in subs' <=> c \in subs, c \in up' => c \in up,
         c \notin subs => buf'[c] = buf[c]
  PROVE  HandlerOK(c)'
  BY DEF HandlerOK, Unread, SubscribeFirst

\* A handler's step touches no other connection, but for its buffer.
LEMMA OthersUntouched ==
  ASSUME TypeOK, NEW n \in Conns, Handle(n), NEW c \in Conns, c # n
  PROVE  UNCHANGED <<pc[c], pending[c], snapshot[c], wire[c]>>
<1>1. DOMAIN pc = Conns /\ DOMAIN pending = Conns /\ DOMAIN snapshot = Conns /\ DOMAIN wire = Conns
  BY DEF TypeOK
<1> QED BY <1>1 DEF Handle, Replay, SkipReplay, ReplayRead, StoreFails, ReplaySend, ReplayFails,
           ReplayBanner, Subscribe, SubscribeHook, Forward, CtxDone, Unsubscribe, UnsubscribeHook,
           SendOK, SendFails, replayVars

\* A handler's step leaves every handler where one can be.
LEMMA HandleConn ==
  ASSUME TypeOK, ConnInv, NEW n \in Conns, Handle(n)
  PROVE  ConnInv'
<1> USE DEF replayVars, tabVars, prodVars
<1>1. UNCHANGED <<recipe, up, cur, lastID, lastEventID, Conns, SubscribeFirst, Opens>>
  BY DEF Handle, Replay, SkipReplay, ReplayRead, StoreFails, ReplaySend, ReplayFails,
     ReplayBanner, Subscribe, SubscribeHook, Forward, CtxDone, Unsubscribe, UnsubscribeHook,
     Conns, SubscribeFirst, Opens
<1>2. /\ recipe \in Recipes /\ HandlerOK(n) /\ pc \in [Conns -> HandlerPC] /\ cur \in Int /\ n \in Int
      /\ subs \subseteq Conns
      /\ DOMAIN pending = Conns /\ DOMAIN snapshot = Conns /\ DOMAIN wire = Conns /\ DOMAIN buf = Conns
  BY DEF TypeOK, ConnInv, Conns
<1>3. ASSUME NEW c \in Conns, c # n PROVE HandlerOK(c)'
  <2>1. HandlerOK(c)
    BY DEF ConnInv
  <2>2. UNCHANGED <<pc[c], pending[c], snapshot[c], wire[c]>>
    BY <1>3, OthersUntouched
  <2>3. (c \in subs' <=> c \in subs) /\ (c \notin subs => buf'[c] = buf[c])
    BY <1>2, <1>3 DEF Handle, Replay, SkipReplay, ReplayRead, StoreFails, ReplaySend, ReplayFails,
       ReplayBanner, Subscribe, SubscribeHook, Forward, CtxDone, Unsubscribe, UnsubscribeHook,
       Broadcast
  <2> QED BY <1>1, <2>1, <2>2, <2>3, SameHandler
<1>4. HandlerOK(n)'
  <2> USE <1>1, <1>2 DEF HandlerOK, Unread
  <2>1. CASE SkipReplay(n)
    BY <2>1 DEF SkipReplay, AfterReplay
  <2>2. CASE CtxDone(n)
    BY <2>2 DEF CtxDone
  <2>3. CASE ReplayRead(n)
    BY <2>3 DEF ReplayRead, AfterReplay
  <2>4. CASE StoreFails(n)
    BY <2>4 DEF StoreFails, AfterReplay
  <2>5. CASE ReplaySend(n)
    <3>1. pending[n] \in Seq(Events) /\ pending[n] # <<>> /\ wire[n] \in Seq(Events)
      BY <2>5 DEF ReplaySend, TypeOK
    <3>2. Tail(pending[n]) # <<>> <=> Len(pending[n]) > 1
      BY <3>1, TailEmpty
    <3> QED BY <2>5, <3>2 DEF ReplaySend, SendOK
  <2>6. CASE ReplayFails(n)
    BY <2>6 DEF ReplayFails, SendFails, AfterReplay
  <2>7. CASE ReplayBanner(n)
    BY <2>7 DEF ReplayBanner, SendOK, SendFails
  <2>8. CASE Subscribe(n)
    BY <2>8 DEF Subscribe
  <2>9. CASE SubscribeHook(n)
    BY <2>9 DEF SubscribeHook, Broadcast, AfterHook
  <2>10. CASE UnsubscribeHook(n)
    BY <2>10 DEF UnsubscribeHook, Broadcast
  <2>11. CASE Forward(n)
    BY <2>11 DEF Forward, SendOK, SendFails
  <2>12. CASE Unsubscribe(n)
    BY <2>12 DEF Unsubscribe
  <2> QED BY <2>1, <2>2, <2>3, <2>4, <2>5, <2>6, <2>7, <2>8, <2>9, <2>10, <2>11, <2>12
             DEF Handle, Replay
<1> QED BY <1>1, <1>3, <1>4 DEF ConnInv

\* So do the tab's, the network's and the producer's steps.
LEMMA OutsideConn ==
  ASSUME TypeOK, ConnInv,
         Produce \/ Connect \/ Receive \/ Disconnect \/ UNCHANGED vars
  PROVE  ConnInv'
<1> USE DEF replayVars, tabVars, prodVars
<1>1. UNCHANGED <<recipe, Conns, SubscribeFirst, Opens>>
  BY DEF Produce, EmitAppend, EmitBroadcast, EmitSignal, Connect, Receive, Disconnect, vars,
     Conns, SubscribeFirst, Opens
<1>2. /\ recipe \in Recipes /\ cur \in 0 .. MaxConns /\ up \subseteq Conns /\ Conns = 1 .. MaxConns
      /\ MaxConns \in Nat /\ Opens \in 1 .. MaxConns
      /\ DOMAIN pc = Conns /\ DOMAIN wire = Conns /\ DOMAIN lastEventID = Conns
      /\ \A c \in Conns : HandlerOK(c)
  BY RecipeType DEF TypeOK, ConnInv, Conns
<1>3. CASE Produce \/ UNCHANGED vars
  <2>1. UNCHANGED <<cur, lastID, pc, replayVars, wire, subs, up>>
        /\ \A c \in Conns : c \notin subs => buf'[c] = buf[c]
    BY <1>3 DEF Produce, EmitAppend, EmitBroadcast, EmitSignal, vars, Broadcast
  <2>2. ASSUME NEW c \in Conns PROVE HandlerOK(c)'
    <3>1. UNCHANGED <<pc[c], lastEventID[c], pending[c], snapshot[c], wire[c]>> /\ HandlerOK(c)
      BY <1>2, <2>1
    <3> QED BY <1>1, <2>1, <3>1, SameHandler
  <2> QED BY <1>1, <2>1, <2>2 DEF ConnInv
<1>4. CASE Connect
  <2>1. PICK d \in Conns : d = cur + 1 /\ cur' = d /\ up = {} /\ up' = {d} /\ cur' <= Opens
    <3>1. cur + 1 \in Conns /\ cur + 1 <= Opens /\ 0 \notin Conns
      BY <1>2, <1>4 DEF Connect
    <3>2. up = {}
      BY <1>2, <1>4, <3>1 DEF Connect, ConnInv
    <3>3. cur' = cur + 1 /\ up' = up \cup {cur'}
      BY <1>4 DEF Connect
    <3> QED BY <3>1, <3>2, <3>3
  <2>2. ASSUME NEW c \in Conns, c # d PROVE HandlerOK(c)'
    <3>1. c > cur' => c > cur
      BY <1>2, <2>1
    <3>2. c \notin up'
      BY <2>1, <2>2
    <3>3. /\ UNCHANGED <<pc[c], lastEventID[c], pending[c], snapshot[c], wire[c], buf[c], subs>>
          /\ HandlerOK(c)
      BY <1>2, <1>4, <2>1, <2>2 DEF Connect
    <3> QED BY <1>1, <3>1, <3>2, <3>3 DEF HandlerOK, Unread
  <2>3. HandlerOK(d)'
    <3>1. HandlerOK(d) /\ d > cur /\ ~(d > cur')
      BY <1>2, <2>1
    <3>2. pc'[d] = (IF SubscribeFirst THEN "subscribe" ELSE "replay")
          /\ lastEventID'[d] = lastID
          /\ UNCHANGED <<pending, snapshot, wire, buf, subs, lastID>>
      BY <1>2, <1>4, <2>1 DEF Connect
    <3> QED BY <1>1, <3>1, <3>2 DEF HandlerOK, Unread
  <2>4. \A c \in Conns : HandlerOK(c)'
    BY <2>2, <2>3
  <2> QED BY <1>1, <2>1, <2>4 DEF ConnInv
<1>5. CASE Receive
  <2>1. /\ UNCHANGED <<cur, up, pc, replayVars, subs, buf>> /\ up \subseteq {cur}
        /\ \A c \in Conns : c # cur => wire'[c] = wire[c]
        /\ wire[cur] # <<>> /\ cur \in Conns
    BY <1>2, <1>5 DEF Receive, ConnInv
  <2>2. ASSUME NEW c \in Conns PROVE HandlerOK(c)'
    <3>1. CASE c = cur
      <4>1. ~Unread(cur) /\ HandlerOK(cur)
        BY <1>2, <2>1 DEF HandlerOK
      <4> QED BY <1>1, <2>1, <3>1, <4>1 DEF HandlerOK, Unread
    <3>2. CASE c # cur
      BY <1>1, <1>2, <2>1, <3>2 DEF HandlerOK, Unread
    <3> QED BY <3>1, <3>2
  <2> QED BY <1>1, <2>1, <2>2, <1>2 DEF ConnInv
<1>6. CASE Disconnect
  <2>1. UNCHANGED <<cur, pc, replayVars, subs, buf, lastID>> /\ up' \subseteq up
        /\ \A c \in Conns : wire'[c] \in {wire[c], <<>>}
    BY <1>2, <1>6 DEF Disconnect
  <2>2. \A c \in Conns : HandlerOK(c)'
    BY <1>1, <1>2, <2>1 DEF HandlerOK, Unread
  <2> QED BY <1>1, <2>1, <2>2 DEF ConnInv
<1> QED BY <1>3, <1>4, <1>5, <1>6

-----------------------------------------------------------------------------
(* What is buffered and what is on its way.                                 *)

\* What no step undoes: which of the events so far are wanted, how far the
\* broadcasts have come, what a connection asked for and when it read the store.
LEMMA Lasting ==
  ASSUME TypeOK, ConnInv, BufInv, [Next]_vars
  PROVE  /\ recipe' = recipe /\ SubscribeFirst' = SubscribeFirst /\ Conns' = Conns /\ Causes' = Causes
         /\ \A k \in 0 .. total : Wanted(k)' <=> Wanted(k)
         /\ total \in Nat /\ total' \in Nat /\ total <= total'
         /\ Broadcasted \in Nat /\ Broadcasted' \in Nat /\ Broadcasted <= Broadcasted'
         /\ Broadcasted <= total
         /\ \A n \in Conns : lastEventID[n] # 0 => lastEventID'[n] = lastEventID[n]
         /\ \A n \in Conns : snapshot[n] # 0 => snapshot'[n] = snapshot[n]
<1> USE DEF replayVars, tabVars, prodVars
<1>1. total \in Nat /\ prod \in {"idle", "evt", "signal"} /\ alerts \subseteq 1 .. total
      /\ Broadcasted \in Nat /\ Broadcasted <= total
  BY BoundsAssumption DEF TypeOK, Events, BufInv, Broadcasted
<1>2. EmitAppend \/ (Next /\ UNCHANGED <<total, alerts>>) \/ UNCHANGED vars
  BY DEF Next, Produce, EmitBroadcast, EmitSignal, Connect, Receive, Disconnect, Quiet, vars,
     Handle, Replay, SkipReplay, ReplayRead, StoreFails, ReplaySend, ReplayFails,
     ReplayBanner, Subscribe, SubscribeHook, Forward, CtxDone, Unsubscribe, UnsubscribeHook
<1>3. recipe' = recipe
  BY DEF Next, Produce, EmitAppend, EmitBroadcast, EmitSignal, Connect, Receive, Disconnect, Quiet, vars,
     Handle, Replay, SkipReplay, ReplayRead, StoreFails, ReplaySend, ReplayFails,
     ReplayBanner, Subscribe, SubscribeHook, Forward, CtxDone, Unsubscribe, UnsubscribeHook
<1>4. SubscribeFirst' = SubscribeFirst /\ Conns' = Conns /\ AlertsOnly' = AlertsOnly /\ Causes' = Causes
  BY <1>3 DEF SubscribeFirst, AlertsOnly, Conns, Causes
<1>5. \A k \in 0 .. total : Wanted(k)' <=> Wanted(k)
  <2>1. alerts' \cap (0 .. total) = alerts \cap (0 .. total)
    BY <1>1, <1>2 DEF EmitAppend, GenerateItem, vars
  <2> QED BY <1>4, <2>1 DEF Wanted, Meta
<1>6. total' \in Nat /\ total <= total' /\ Broadcasted' \in Nat /\ Broadcasted <= Broadcasted'
  <2>1. CASE EmitAppend
    BY <1>1, <2>1 DEF EmitAppend, Broadcasted
  <2>2. CASE ~EmitAppend
    <3>1. total' = total /\ (prod' = prod \/ prod' # "evt")
      BY <1>2, <2>2 DEF Next, Produce, EmitBroadcast, EmitSignal, Connect, Receive, Disconnect,
         Quiet, vars, Handle, Replay, SkipReplay, ReplayRead, StoreFails, ReplaySend, ReplayFails,
         ReplayBanner, Subscribe, SubscribeHook, Forward, CtxDone, Unsubscribe, UnsubscribeHook
    <3> QED BY <1>1, <3>1 DEF Broadcasted
  <2> QED BY <2>1, <2>2
<1>7. ASSUME NEW n \in Conns, lastEventID[n] # 0 PROVE lastEventID'[n] = lastEventID[n]
  <2>1. lastEventID' = lastEventID \/ Connect
    BY DEF Next, Produce, EmitAppend, EmitBroadcast, EmitSignal, Receive, Disconnect, Quiet, vars,
     Handle, Replay, SkipReplay, ReplayRead, StoreFails, ReplaySend, ReplayFails,
     ReplayBanner, Subscribe, SubscribeHook, Forward, CtxDone, Unsubscribe, UnsubscribeHook
  <2>2. CASE Connect
    <3>1. n # cur + 1
      BY <1>7, BoundsAssumption DEF ConnInv, HandlerOK, TypeOK, Conns
    <3> QED BY <2>2, <3>1 DEF Connect, TypeOK
  <2> QED BY <2>1, <2>2
<1>8. ASSUME NEW n \in Conns, snapshot[n] # 0 PROVE snapshot'[n] = snapshot[n]
  <2>1. snapshot' = snapshot \/ \E c \in Conns : ReplayRead(c)
    BY DEF Next, Produce, EmitAppend, EmitBroadcast, EmitSignal, Connect, Receive, Disconnect, Quiet, vars,
     Handle, Replay, SkipReplay, StoreFails, ReplaySend, ReplayFails,
     ReplayBanner, Subscribe, SubscribeHook, Forward, CtxDone, Unsubscribe, UnsubscribeHook
  <2>2. ASSUME NEW c \in Conns, ReplayRead(c) PROVE snapshot'[n] = snapshot[n]
    <3>1. snapshot[c] = 0
      BY <2>2 DEF ReplayRead, ConnInv, HandlerOK, Unread
    <3> QED BY <1>8, <2>2, <3>1 DEF ReplayRead, TypeOK
  <2> QED BY <2>1, <2>2
<1> QED BY <1>1, <1>3, <1>4, <1>5, <1>6, <1>7, <1>8

\* A buffer that loses its head, everything or nothing, or gets a message at
\* its end, is still in order.
LEMMA BufStep ==
  ASSUME TypeOK, ConnInv, BufInv, [Next]_vars, NEW c \in Conns,
         \/ buf'[c] \in {buf[c], <<>>}
         \/ buf[c] # <<>> /\ buf'[c] = Tail(buf[c])
         \/ \E m \in 0 .. total : /\ buf'[c] = Append(buf[c], m) /\ Wanted(m) /\ m <= Broadcasted'
                                  /\ m # Meta => Broadcasted < m
  PROVE  InBuf(buf[c])'
<1>1. /\ \A k \in 0 .. total : Wanted(k)' <=> Wanted(k)
      /\ Broadcasted \in Nat /\ Broadcasted' \in Nat /\ Broadcasted <= Broadcasted' /\ Meta = 0 /\ Meta' = 0
      /\ total \in Nat
  BY Lasting DEF Meta
<1>2. PICK b : b = buf[c]
  OBVIOUS
<1>3. b \in Seq(0 .. total) /\ Len(b) \in Nat /\ DOMAIN b = 1 .. Len(b)
  BY <1>2 DEF TypeOK
<1>4. \A i \in 1 .. Len(b) :
        /\ b[i] \in 0 .. total /\ b[i] <= Broadcasted /\ Wanted(b[i])
        /\ \A j \in 1 .. Len(b) : i < j /\ b[j] # 0 => b[i] < b[j]
  BY <1>2, <1>1, <1>3 DEF BufInv, InBuf
<1>5. PICK d : d = buf'[c]
  OBVIOUS
<1>6. SUFFICES ASSUME NEW i \in DOMAIN d
               PROVE  /\ d[i] <= Broadcasted' /\ Wanted(d[i])'
                      /\ \A j \in DOMAIN d : i < j /\ d[j] # 0 => d[i] < d[j]
  BY <1>5, <1>1 DEF InBuf
<1>7. CASE d \in {b, <<>>}
  <2>1. d = b /\ i \in 1 .. Len(b)
    BY <1>3, <1>7
  <2>2. b[i] \in 0 .. total /\ b[i] <= Broadcasted /\ Wanted(b[i])
    BY <1>4, <2>1
  <2>3. Wanted(b[i])'
    BY <1>1, <2>2
  <2>4. b[i] <= Broadcasted'
    BY <1>1, <2>2
  <2> QED BY <1>3, <1>4, <2>1, <2>3, <2>4
<1>8. CASE b # <<>> /\ d = Tail(b)
  <2>1. /\ DOMAIN d = 1 .. Len(b) - 1
        /\ \A j \in 1 .. Len(b) - 1 : d[j] = b[j + 1] /\ j + 1 \in 1 .. Len(b)
    BY <1>3, <1>8
  <2>2. b[i + 1] <= Broadcasted /\ Wanted(b[i + 1]) /\ b[i + 1] \in 0 .. total /\ d[i] = b[i + 1]
    BY <1>4, <2>1
  <2>3. \A j \in DOMAIN d : i < j /\ d[j] # 0 => d[i] < d[j]
    BY <1>3, <1>4, <2>1
  <2> QED BY <1>1, <2>2, <2>3
<1>9. ASSUME NEW m \in 0 .. total, d = Append(b, m), Wanted(m), m <= Broadcasted', m # 0 => Broadcasted < m
      PROVE  /\ d[i] <= Broadcasted' /\ Wanted(d[i])'
             /\ \A j \in DOMAIN d : i < j /\ d[j] # 0 => d[i] < d[j]
  <2>1. /\ DOMAIN d = 1 .. Len(b) + 1 /\ d[Len(b) + 1] = m
        /\ \A j \in 1 .. Len(b) : d[j] = b[j]
    BY <1>3, <1>9
  <2>2. CASE i = Len(b) + 1
    BY <1>1, <1>3, <1>9, <2>1, <2>2
  <2>3. CASE i # Len(b) + 1
    <3>1. i \in 1 .. Len(b) /\ d[i] = b[i]
      BY <1>3, <2>1, <2>3
    <3>2. b[i] <= Broadcasted /\ Wanted(b[i]) /\ b[i] \in 0 .. total
      BY <1>4, <3>1
    <3>3. ASSUME NEW j \in DOMAIN d, i < j, d[j] # 0 PROVE d[i] < d[j]
      <4>1. CASE j = Len(b) + 1
        BY <1>1, <1>9, <2>1, <3>1, <3>2, <3>3, <4>1
      <4>2. CASE j # Len(b) + 1
        BY <1>3, <1>4, <2>1, <3>1, <3>3, <4>2
      <4> QED BY <4>1, <4>2
    <3>4. b[i] <= Broadcasted'
      BY <1>1, <3>2
    <3>5. Wanted(b[i])'
      BY <1>1, <3>2
    <3> QED BY <3>1, <3>3, <3>4, <3>5
  <2> QED BY <2>2, <2>3
<1> QED BY <1>5, <1>2, <1>1, <1>7, <1>8, <1>9

\* Every step keeps the buffers in order.
LEMMA NextBuf ==
  ASSUME TypeOK, ConnInv, BufInv, [Next]_vars
  PROVE  BufInv'
<1> USE DEF replayVars, tabVars, prodVars
<1>1. /\ Conns' = Conns /\ total \in Nat /\ Broadcasted \in Nat /\ Broadcasted' \in Nat
      /\ Broadcasted <= Broadcasted' /\ 0 \in 0 .. total /\ Meta = 0 /\ Wanted(Meta)
      /\ DOMAIN buf = Conns
  BY Lasting DEF Wanted, Meta, TypeOK
<1>2. SUFFICES ASSUME NEW c \in Conns PROVE InBuf(buf[c])'
  BY <1>1 DEF BufInv
<1>3. CASE \E m \in 0 .. total : Broadcast(m) /\ m <= Broadcasted' /\ (m # Meta => Broadcasted < m)
  <2>1. PICK m \in 0 .. total : Broadcast(m) /\ m <= Broadcasted' /\ (m # Meta => Broadcasted < m)
    BY <1>3
  <2>2. buf'[c] = buf[c] \/ (buf'[c] = Append(buf[c], m) /\ Wanted(m))
    BY <2>1, BroadcastEffect
  <2> QED BY <2>1, <2>2, BufStep
<1>4. CASE buf' = buf
  BY <1>4, BufStep
<1>5. ASSUME NEW n \in Conns, Forward(n) PROVE InBuf(buf[c])'
  <2>1. buf[n] # <<>> /\ buf' = [buf EXCEPT ![n] = Tail(buf[n])]
    BY <1>5 DEF Forward
  <2>2. buf'[c] = buf[c] \/ (buf[c] # <<>> /\ buf'[c] = Tail(buf[c]))
    BY <1>1, <2>1
  <2> QED BY <2>2, BufStep
<1>6. ASSUME NEW n \in Conns, Unsubscribe(n) PROVE InBuf(buf[c])'
  <2>1. buf'[c] \in {buf[c], <<>>}
    BY <1>1, <1>6 DEF Unsubscribe
  <2> QED BY <2>1, BufStep
<1>7. EmitBroadcast => total <= Broadcasted' /\ Broadcasted < total
  BY <1>1 DEF EmitBroadcast, Broadcasted
<1>8. EmitBroadcast \/ EmitSignal \/ (\E n \in Conns : SubscribeHook(n) \/ UnsubscribeHook(n)) =>
        \E m \in 0 .. total : Broadcast(m) /\ m <= Broadcasted' /\ (m # Meta => Broadcasted < m)
  BY <1>1, <1>7 DEF EmitBroadcast, EmitSignal, SubscribeHook, UnsubscribeHook
<1> QED BY <1>3, <1>4, <1>5, <1>6, <1>8 DEF Next, Produce, EmitAppend, Connect, Receive, Disconnect,
           Quiet, vars, Handle, Replay, SkipReplay, ReplayRead, StoreFails, ReplaySend, ReplayFails,
           ReplayBanner, Subscribe, CtxDone

\* What was wanted, or replayed without a filter, still is.
LEMMA StillWanted ==
  ASSUME TypeOK, ConnInv, BufInv, [Next]_vars, NEW k \in Events, Wanted(k) \/ Replayed(k)
  PROVE  Wanted(k)' \/ Replayed(k)'
<1>1. total \in Nat /\ k \in 0 .. total /\ k # 0
  BY Lasting DEF Events
<1>2. CASE Wanted(k)
  BY <1>1, <1>2, Lasting
<1>3. CASE Replayed(k)
  <2>1. PICK n \in Conns : lastEventID[n] # 0 /\ lastEventID[n] < k /\ k <= snapshot[n]
    BY <1>3 DEF Replayed
  <2>2. snapshot[n] # 0
    BY <1>1, <2>1
  <2>3. lastEventID'[n] = lastEventID[n] /\ snapshot'[n] = snapshot[n]
        /\ SubscribeFirst' = SubscribeFirst /\ Conns' = Conns
    BY <2>1, <2>2, Lasting
  <2> QED BY <1>3, <2>1, <2>3 DEF Replayed
<1> QED BY <1>2, <1>3

\* Every step that puts an event on its way takes it from the buffer, from the
\* replay, or from the store.
LEMMA NextWanted ==
  ASSUME TypeOK, ConnInv, BufInv, WantedInv, [Next]_vars
  PROVE  WantedInv'
<1> USE DEF replayVars, tabVars, prodVars
<1> DEFINE Fine(k) == Wanted(k) \/ Replayed(k)
<1>1. /\ Conns' = Conns /\ total \in Nat /\ Events = 1 .. total /\ recipe \in Recipes
      /\ wire \in [Conns -> Seq(Events)] /\ pending \in [Conns -> Seq(Events)] /\ got \in Seq(Events)
      /\ up \subseteq Conns
  BY Lasting DEF TypeOK, Events
<1>2. \A n \in Conns : ToSet(wire[n]) \subseteq Events /\ ToSet(pending[n]) \subseteq Events
  BY <1>1 DEF ToSet
<1>3. Received \subseteq Events
  BY <1>1 DEF ToSet, Received
<1>4. \A k \in Events : Fine(k) => Wanted(k)' \/ Replayed(k)'
  BY StillWanted
<1>5. \A k \in Received' : Wanted(k)' \/ Replayed(k)'
  <2>1. got' = got \/ Receive
    BY DEF Next, Produce, EmitAppend, EmitBroadcast, EmitSignal, Connect, Disconnect, Quiet, vars,
       Handle, Replay, SkipReplay, ReplayRead, StoreFails, ReplaySend, ReplayFails,
       ReplayBanner, Subscribe, SubscribeHook, Forward, CtxDone, Unsubscribe, UnsubscribeHook
  <2>2. CASE got' = got
    BY <1>3, <1>4, <2>2 DEF Received, WantedInv
  <2>3. CASE Receive
    <3>1. PICK n \in Conns : n = cur /\ wire[n] # <<>> /\ got' = Append(got, Head(wire[n]))
      BY <1>1, <2>3 DEF Receive
    <3>2. wire[n] \in Seq(Events) /\ Head(wire[n]) \in Events
      BY <1>1, <3>1
    <3>3. Head(wire[n]) \in ToSet(wire[n])
      BY <3>1, <3>2, ToSetHeadTail
    <3>4. Received' = Received \cup {Head(wire[n])}
      BY <1>1, <3>1, <3>2, ToSetAppend DEF Received
    <3>5. \A k \in Received' : k \in Events /\ Fine(k)
      BY <1>3, <3>2, <3>3, <3>4 DEF WantedInv
    <3> QED BY <1>4, <3>5
  <2> QED BY <2>1, <2>2, <2>3
<1>6. ASSUME NEW n \in Conns, NEW k \in ToSet(wire'[n])
      PROVE  Wanted(k)' \/ Replayed(k)'
  <2>1. CASE k \in ToSet(wire[n])
    BY <1>2, <1>4, <2>1 DEF WantedInv
  <2>2. CASE k \notin ToSet(wire[n])
    <3>1. ReplaySend(n) \/ Forward(n) \/ wire'[n] = wire[n] \/ Receive \/ Disconnect
      <4>1. ASSUME Handle(n) PROVE ReplaySend(n) \/ Forward(n) \/ wire' = wire
        BY <4>1 DEF Handle, Replay, SkipReplay, ReplayRead, StoreFails, ReplayFails, SendFails, SendOK,
           ReplayBanner, Subscribe, SubscribeHook, CtxDone, Unsubscribe, UnsubscribeHook
      <4>2. ASSUME NEW c \in Conns, Handle(c), c # n PROVE wire'[n] = wire[n]
        BY <4>2, OthersUntouched
      <4> QED BY <4>1, <4>2 DEF Next, Produce, EmitAppend, EmitBroadcast, EmitSignal, Connect, Quiet, vars
    <3>2. CASE Disconnect
      <4>1. wire'[n] \in {wire[n], <<>>}
        BY <1>1, <3>2 DEF Disconnect
      <4> QED BY <1>6, <2>2, <4>1 DEF ToSet
    <3>3. CASE Receive
      <4>1. wire'[n] = wire[n] \/ (wire[n] # <<>> /\ wire'[n] = Tail(wire[n]))
        BY <1>1, <3>3 DEF Receive
      <4>2. ToSet(wire'[n]) \subseteq ToSet(wire[n])
        BY <1>1, <4>1, ToSetHeadTail
      <4> QED BY <1>6, <2>2, <4>2
    <3>4. CASE ReplaySend(n)
      <4>1. pending[n] # <<>> /\ pending[n] \in Seq(Events)
        BY <1>1, <3>4 DEF ReplaySend, ConnInv, HandlerOK
      <4>2. Head(pending[n]) \in Events /\ Head(pending[n]) \in ToSet(pending[n])
        BY <4>1, ToSetHeadTail
      <4>3. wire'[n] = wire[n] \/ wire'[n] = Append(wire[n], Head(pending[n]))
        BY <1>1, <3>4 DEF ReplaySend, SendOK
      <4>4. ToSet(wire'[n]) \subseteq ToSet(wire[n]) \cup {Head(pending[n])}
        <5>1. ToSet(Append(wire[n], Head(pending[n]))) = ToSet(wire[n]) \cup {Head(pending[n])}
          BY <1>1, <4>2, ToSetAppend
        <5> QED BY <4>3, <5>1
      <4>5. k = Head(pending[n])
        BY <1>6, <2>2, <4>4
      <4> QED BY <1>4, <4>2, <4>5 DEF WantedInv
    <3>5. CASE Forward(n)
      <4>1. buf[n] # <<>> /\ buf[n] \in Seq(0 .. total)
        BY <3>5 DEF Forward, TypeOK
      <4>2. Head(buf[n]) = buf[n][1] /\ 1 \in DOMAIN buf[n] /\ Head(buf[n]) \in 0 .. total
        BY <4>1, HeadAt
      <4>3. Wanted(Head(buf[n]))
        BY <4>2 DEF BufInv, InBuf
      <4>4. wire'[n] = wire[n] \/ (Head(buf[n]) # 0 /\ wire'[n] = Append(wire[n], Head(buf[n])))
        BY <1>1, <3>5 DEF Forward, SendOK, SendFails, Meta
      <4>5. Head(buf[n]) # 0 => Head(buf[n]) \in Events
        BY <1>1, <4>2
      <4>6. \/ ToSet(wire'[n]) \subseteq ToSet(wire[n]) \cup {Head(buf[n])} /\ Head(buf[n]) \in Events
            \/ wire'[n] = wire[n]
        <5>1. \A e \in Events : ToSet(Append(wire[n], e)) = ToSet(wire[n]) \cup {e}
          BY <1>1, ToSetAppend, SMTT(60)
        <5> QED BY <4>4, <4>5, <5>1
      <4>7. k = Head(buf[n]) /\ k \in Events
        BY <1>6, <2>2, <4>6
      <4> QED BY <1>4, <4>3, <4>7
    <3> QED BY <1>6, <2>2, <3>1, <3>2, <3>3, <3>4, <3>5
  <2> QED BY <2>1, <2>2
<1>7. ASSUME NEW n \in Conns, NEW k \in ToSet(pending'[n])
      PROVE  Wanted(k)' \/ Replayed(k)'
  <2>1. CASE k \in ToSet(pending[n])
    BY <1>2, <1>4, <2>1 DEF WantedInv
  <2>2. CASE k \notin ToSet(pending[n])
    <3>1. ReplaySend(n) \/ ReplayRead(n) \/ pending'[n] \in {pending[n], <<>>}
      BY <1>1, SMTT(60) DEF Next, Produce, EmitAppend, EmitBroadcast, EmitSignal, Connect, Receive, Disconnect, Quiet,
         vars, Handle, Replay, SkipReplay, ReplayRead, StoreFails, ReplaySend, ReplayFails,
         ReplayBanner, Subscribe, SubscribeHook, Forward, CtxDone, Unsubscribe, UnsubscribeHook
    <3>2. CASE pending'[n] \in {pending[n], <<>>}
      BY <1>7, <2>2, <3>2 DEF ToSet
    <3>3. CASE ReplaySend(n)
      <4>1. pending[n] # <<>> /\ pending[n] \in Seq(Events) /\ pending'[n] = Tail(pending[n])
        BY <1>1, <3>3 DEF ReplaySend, ConnInv, HandlerOK
      <4>2. ToSet(pending'[n]) \subseteq ToSet(pending[n])
        BY <4>1, ToSetHeadTail
      <4> QED BY <1>7, <2>2, <4>2
    <3>4. CASE ReplayRead(n)
      <4>1. pending'[n] = Missed(lastEventID[n]) /\ lastEventID[n] \in Nat
            /\ snapshot'[n] = total /\ lastEventID'[n] = lastEventID[n]
            /\ (SubscribeFirst \/ lastEventID[n] # 0)
        BY <1>1, <3>4 DEF ReplayRead, TypeOK
      <4>2. /\ Missed(lastEventID[n]) \in Seq(Events)
            /\ \A e \in ToSet(Missed(lastEventID[n])) : e > lastEventID[n]
            /\ SubscribeFirst => \A e \in ToSet(Missed(lastEventID[n])) : Wanted(e)
        BY <4>1, MissedType
      <4>3. k \in Events /\ k > lastEventID[n] /\ (SubscribeFirst => Wanted(k)) /\ k <= total
        <5>1. k \in Events
          BY <1>7, <4>1, <4>2 DEF ToSet
        <5> QED BY <1>1, <1>7, <4>1, <4>2, <5>1
      <4>4. CASE SubscribeFirst
        BY <1>4, <4>3, <4>4
      <4>5. CASE ~SubscribeFirst
        BY <1>1, <4>1, <4>3, <4>5, Lasting DEF Replayed
      <4> QED BY <4>4, <4>5
    <3> QED BY <3>1, <3>2, <3>3, <3>4
  <2> QED BY <2>1, <2>2
<1>8. ASSUME NEW n \in Conns', NEW k \in (ToSet(wire[n]) \cup ToSet(pending[n]))'
      PROVE  Wanted(k)' \/ Replayed(k)'
  BY <1>1, <1>6, <1>7, <1>8 DEF ToSet
<1> QED BY <1>5, <1>8 DEF WantedInv

-----------------------------------------------------------------------------
(* Sequences in order, and sequences that leave nothing out.                *)

USE DEF Meta

\* Between two positions of a sequence there are only positions of it.
LEMMA Between ==
  ASSUME NEW n \in Nat, NEW i \in 1 .. n, NEW j \in 1 .. n, NEW m \in i + 1 .. j - 1
  PROVE  m \in 1 .. n /\ i < m /\ m < j
  OBVIOUS

\* A sequence that is found in another, in the same order, is as orderly.
LEMMA OrderlyPart ==
  ASSUME NEW s \in Seq(Nat), NEW t \in Seq(Nat), NEW f \in [DOMAIN s -> DOMAIN t],
         \A i \in DOMAIN s : s[i] = t[f[i]],
         \A i, j \in DOMAIN s : i < j => f[i] < f[j]
  PROVE  /\ \A P : Orderly(t, P) => Orderly(s, P)
         /\ \A k : Once(t, k) => Once(s, k)
         /\ ToSet(s) \subseteq ToSet(t)
<1>1. DOMAIN s = 1 .. Len(s) /\ DOMAIN t = 1 .. Len(t) /\ Len(s) \in Nat /\ Len(t) \in Nat
      /\ \A i \in DOMAIN s : s[i] \in Nat
  OBVIOUS
<1>2. ASSUME NEW P, Orderly(t, P) PROVE Orderly(s, P)
  <2> SUFFICES ASSUME NEW i \in DOMAIN s, NEW j \in DOMAIN s, i < j, s[i] # 0, s[j] # 0
               PROVE  \/ s[i] < s[j]
                      \/ s[i] = s[j] /\ s[i] \in P /\ \A m \in i + 1 .. j - 1 : s[m] = 0
    BY DEF Orderly
  <2>1. \/ t[f[i]] < t[f[j]]
        \/ t[f[i]] = t[f[j]] /\ t[f[i]] \in P /\ \A m \in f[i] + 1 .. f[j] - 1 : t[m] = 0
    BY <1>2 DEF Orderly
  <2>2. ASSUME NEW m \in i + 1 .. j - 1 PROVE m \in DOMAIN s /\ f[m] \in f[i] + 1 .. f[j] - 1
    <3>1. m \in DOMAIN s /\ i < m /\ m < j
      <4>1. i \in 1 .. Len(s) /\ j \in 1 .. Len(s) /\ Len(s) \in Nat
        BY <1>1
      <4>2. m \in 1 .. Len(s) /\ i < m /\ m < j
        BY <2>2, <4>1, Between
      <4> QED BY <1>1, <4>2
    <3>2. f[i] < f[m] /\ f[m] < f[j]
      BY <3>1
    <3>3. f[m] \in Int /\ f[i] \in Int /\ f[j] \in Int
      BY <1>1, <3>1
    <3> QED BY <3>1, <3>2, <3>3, SMTT(60)
  <2> QED BY <2>1, <2>2
<1>3. ASSUME NEW k, Once(t, k) PROVE Once(s, k)
  <2> SUFFICES ASSUME NEW i \in DOMAIN s, NEW j \in DOMAIN s, s[i] = k, s[j] = k, i # j PROVE FALSE
    BY DEF Once
  <2>1. f[i] = f[j] /\ f[i] \in Int
    BY <1>1, <1>3 DEF Once
  <2>2. i < j \/ j < i
    BY <1>1
  <2> QED BY <2>1, <2>2
<1>4. ToSet(s) \subseteq ToSet(t)
  BY DEF ToSet
<1> QED BY <1>2, <1>3, <1>4

\* The beginning of a sequence is in it ...
LEMMA OrderlyPrefix ==
  ASSUME NEW s \in Seq(Nat), NEW t \in Seq(Nat)
  PROVE  /\ \A P : Orderly(s \o t, P) => Orderly(s, P)
         /\ \A k : Once(s \o t, k) => Once(s, k)
         /\ ToSet(s) \subseteq ToSet(s \o t)
<1> DEFINE u == s \o t  f == [i \in DOMAIN s |-> i]
<1>1. /\ u \in Seq(Nat) /\ DOMAIN u = 1 .. Len(s) + Len(t) /\ DOMAIN s = 1 .. Len(s)
      /\ Len(s) \in Nat /\ Len(t) \in Nat /\ \A i \in 1 .. Len(s) : u[i] = s[i]
  BY ConcatProperties
<1> HIDE DEF u
<1>2. f \in [DOMAIN s -> DOMAIN u] /\ (\A i \in DOMAIN s : s[i] = u[f[i]])
      /\ \A i, j \in DOMAIN s : i < j => f[i] < f[j]
  BY <1>1
<1> HIDE DEF f
<1>3. /\ \A P : Orderly(u, P) => Orderly(s, P)
      /\ \A k : Once(u, k) => Once(s, k)
      /\ ToSet(s) \subseteq ToSet(u)
  BY <1>1, <1>2, OrderlyPart
<1> QED BY <1>3 DEF u

\* ... and so is what is left when one element is taken out.
LEMMA WithoutOne ==
  ASSUME NEW s \in Seq(Nat), NEW t \in Seq(Nat), t # <<>>
  PROVE  LET u == s \o t  v == s \o Tail(t)
             f == [i \in DOMAIN v |-> IF i <= Len(s) THEN i ELSE i + 1]
         IN  /\ u \in Seq(Nat) /\ v \in Seq(Nat) /\ f \in [DOMAIN v -> DOMAIN u]
             /\ \A i \in DOMAIN v : v[i] = u[f[i]]
             /\ \A i, j \in DOMAIN v : i < j => f[i] < f[j]
             /\ \A i \in DOMAIN u : u[i] = Head(t) \/ \E j \in DOMAIN v : j <= i /\ i = f[j]
<1> DEFINE r == Tail(t)  u == s \o t  v == s \o r
           f == [i \in DOMAIN v |-> IF i <= Len(s) THEN i ELSE i + 1]
<1>1. r \in Seq(Nat) /\ Len(r) = Len(t) - 1 /\ \A i \in 1 .. Len(r) : r[i] = t[i + 1]
  BY HeadTailProperties
<1>2. Head(t) = t[1]
  BY HeadAt
<1> HIDE DEF r
<1>3. r \in Seq(Nat) /\ Len(s) \in Nat /\ Len(r) \in Nat /\ Len(t) = Len(r) + 1
  BY <1>1, LenProperties
<1>4. /\ u \in Seq(Nat) /\ DOMAIN u = 1 .. Len(s) + Len(t)
      /\ \A i \in 1 .. Len(s) + Len(t) : u[i] = IF i <= Len(s) THEN s[i] ELSE t[i - Len(s)]
  BY ConcatProperties
<1>5. /\ v \in Seq(Nat) /\ DOMAIN v = 1 .. Len(s) + Len(r)
      /\ \A i \in 1 .. Len(s) + Len(r) : v[i] = IF i <= Len(s) THEN s[i] ELSE r[i - Len(s)]
  BY <1>3, ConcatProperties
<1>6. DOMAIN u = 1 .. Len(s) + Len(r) + 1 /\ DOMAIN v = 1 .. Len(s) + Len(r)
  BY <1>3, <1>4, <1>5
<1> HIDE DEF u, v
<1>7. f \in [DOMAIN v -> DOMAIN u] /\ \A i, j \in DOMAIN v : i < j => f[i] < f[j]
  BY <1>3, <1>6
<1>8. ASSUME NEW i \in DOMAIN v PROVE v[i] = u[f[i]]
  <2>0. i \in 1 .. Len(s) + Len(r)
    BY <1>6
  <2>1. CASE i <= Len(s)
    <3>1. f[i] = i /\ i \in 1 .. Len(s) + Len(t)
      BY <1>3, <2>0, <2>1
    <3>2. u[i] = s[i] /\ v[i] = s[i]
      BY <1>4, <1>5, <2>0, <2>1, <3>1
    <3> QED BY <3>1, <3>2
  <2>2. CASE ~(i <= Len(s))
    <3>1. f[i] = i + 1
      BY <2>2
    <3>2. i + 1 \in 1 .. Len(s) + Len(t) /\ ~(i + 1 <= Len(s))
          /\ i - Len(s) \in 1 .. Len(r) /\ (i - Len(s)) + 1 = (i + 1) - Len(s)
      BY <1>3, <2>0, <2>2, SMTT(60)
    <3>3. v[i] = r[i - Len(s)] /\ u[i + 1] = t[(i + 1) - Len(s)]
      BY <1>4, <1>5, <2>0, <2>2, <3>2
    <3> QED BY <1>1, <3>1, <3>2, <3>3
  <2> QED BY <2>1, <2>2
<1>9. ASSUME NEW i \in DOMAIN u PROVE u[i] = Head(t) \/ \E j \in DOMAIN v : j <= i /\ i = f[j]
  <2>0. i \in 1 .. Len(s) + Len(r) + 1 /\ i \in 1 .. Len(s) + Len(t)
    BY <1>3, <1>6
  <2>1. CASE i <= Len(s)
    <3>1. i \in DOMAIN v /\ i <= i
      BY <1>3, <1>6, <2>0, <2>1
    <3> QED BY <2>1, <3>1
  <2>2. CASE i = Len(s) + 1
    <3>1. i - Len(s) = 1 /\ ~(i <= Len(s))
      BY <1>3, <2>2
    <3> QED BY <1>2, <1>4, <2>0, <3>1
  <2>3. CASE i > Len(s) + 1
    <3>1. i - 1 \in DOMAIN v /\ ~(i - 1 <= Len(s)) /\ (i - 1) + 1 = i /\ i - 1 <= i
      BY <1>3, <1>6, <2>0, <2>3
    <3> QED BY <3>1
  <2> QED BY <1>3, <2>0, <2>1, <2>2, <2>3
<1> QED BY <1>4, <1>5, <1>7, <1>8, <1>9 DEF u, v, r

\* Taking an element out leaves the rest in order.
LEMMA OrderlyDrop ==
  ASSUME NEW s \in Seq(Nat), NEW t \in Seq(Nat), t # <<>>
  PROVE  /\ \A P : Orderly(s \o t, P) => Orderly(s \o Tail(t), P)
         /\ \A k : Once(s \o t, k) => Once(s \o Tail(t), k)
         /\ ToSet(s \o Tail(t)) \subseteq ToSet(s \o t)
<1> DEFINE u == s \o t  v == s \o Tail(t)
           f == [i \in DOMAIN v |-> IF i <= Len(s) THEN i ELSE i + 1]
<1>1. /\ u \in Seq(Nat) /\ v \in Seq(Nat) /\ f \in [DOMAIN v -> DOMAIN u]
      /\ \A i \in DOMAIN v : v[i] = u[f[i]]
      /\ \A i, j \in DOMAIN v : i < j => f[i] < f[j]
  BY WithoutOne, SMTT(60)
<1> HIDE DEF u, v, f
<1>2. /\ \A P : Orderly(u, P) => Orderly(v, P)
      /\ \A k : Once(u, k) => Once(v, k)
      /\ ToSet(v) \subseteq ToSet(u)
  BY <1>1, OrderlyPart
<1> QED BY <1>2 DEF u, v

\* A message without an ID changes no order.
LEMMA OrderlyMeta ==
  ASSUME NEW s \in Seq(Nat)
  PROVE  /\ \A P : Orderly(s, P) => Orderly(Append(s, 0), P)
         /\ \A k : k # 0 /\ Once(s, k) => Once(Append(s, 0), k)
<1> DEFINE u == Append(s, 0)
<1>1. /\ u \in Seq(Nat) /\ DOMAIN u = 1 .. Len(s) + 1 /\ DOMAIN s = 1 .. Len(s) /\ Len(s) \in Nat
      /\ u[Len(s) + 1] = 0 /\ \A i \in 1 .. Len(s) : u[i] = s[i]
  OBVIOUS
<1> HIDE DEF u
<1>2. ASSUME NEW P, Orderly(s, P) PROVE Orderly(u, P)
  <2> SUFFICES ASSUME NEW i \in DOMAIN u, NEW j \in DOMAIN u, i < j, u[i] # 0, u[j] # 0
               PROVE  \/ u[i] < u[j]
                      \/ u[i] = u[j] /\ u[i] \in P /\ \A m \in i + 1 .. j - 1 : u[m] = 0
    BY DEF Orderly
  <2>1. i \in 1 .. Len(s) /\ j \in 1 .. Len(s) /\ \A m \in i + 1 .. j - 1 : m \in 1 .. Len(s)
    BY <1>1, SMTT(60)
  <2> QED BY <1>1, <1>2, <2>1 DEF Orderly
<1>3. ASSUME NEW k, k # 0, Once(s, k) PROVE Once(u, k)
  BY <1>1, <1>3, SMTT(60) DEF Once
<1> QED BY <1>2, <1>3 DEF u

\* An event that is newer than all, or in P and the newest, may come next.
LEMMA OrderlyNewest ==
  ASSUME NEW s \in Seq(Nat), NEW P, NEW e \in Nat, Orderly(s, P), Once(s, e),
         e \in ToSet(s) => e \in P, \A k \in ToSet(s) : k <= e
  PROVE  Orderly(Append(s, e), P)
<1> DEFINE u == Append(s, e)
<1>1. /\ u \in Seq(Nat) /\ DOMAIN u = 1 .. Len(s) + 1 /\ DOMAIN s = 1 .. Len(s) /\ Len(s) \in Nat
      /\ u[Len(s) + 1] = e /\ \A i \in 1 .. Len(s) : u[i] = s[i] /\ s[i] \in Nat /\ s[i] \in ToSet(s)
  BY DEF ToSet
<1> HIDE DEF u
<1> SUFFICES ASSUME NEW i \in DOMAIN u, NEW j \in DOMAIN u, i < j, u[i] # 0, u[j] # 0
             PROVE  \/ u[i] < u[j]
                    \/ u[i] = u[j] /\ u[i] \in P /\ \A m \in i + 1 .. j - 1 : u[m] = 0
  BY DEF Orderly, u
<1>2. CASE j \in 1 .. Len(s)
  <2>1. i \in 1 .. Len(s)
    BY <1>1, <1>2
  <2>2. \A m \in i + 1 .. j - 1 : m \in 1 .. Len(s)
    BY <1>1, <1>2, <2>1, Between
  <2> QED BY <1>1, <1>2, <2>1, <2>2 DEF Orderly
<1>3. CASE j \notin 1 .. Len(s)
  <2>1. j = Len(s) + 1 /\ u[j] = e /\ i \in 1 .. Len(s) /\ u[i] = s[i] /\ s[i] <= e
    BY <1>1, <1>3
  <2>2. CASE s[i] = e
    <3>1. e \in P
      BY <1>1, <2>1, <2>2
    <3>2. ASSUME NEW m \in i + 1 .. j - 1, u[m] # 0 PROVE FALSE
      <4>1. m \in 1 .. Len(s) /\ i < m /\ u[m] = s[m] /\ s[m] <= e /\ s[m] # 0 /\ s[i] # 0
        BY <1>1, <2>1, <3>2
      <4>2. s[i] < s[m] \/ s[i] = s[m]
        BY <1>1, <2>1, <4>1 DEF Orderly
      <4>3. s[m] = e
        BY <1>1, <2>2, <4>1, <4>2
      <4>4. i = m
        BY <1>1, <2>1, <2>2, <4>1, <4>3 DEF Once
      <4> QED BY <1>1, <2>1, <4>1, <4>4
    <3> QED BY <2>1, <2>2, <3>1, <3>2
  <2>3. CASE s[i] # e
    BY <1>1, <2>1, <2>3
  <2> QED BY <2>2, <2>3
<1> QED BY <1>2, <1>3

\* A rising sequence may follow an orderly one of smaller numbers.
LEMMA OrderlyAbove ==
  ASSUME NEW s \in Seq(Nat), NEW t \in Seq(Nat), NEW P, Orderly(s, P), NEW l \in Nat,
         \A k \in ToSet(s) : k <= l, \A k \in ToSet(t) : l < k,
         \A i, j \in DOMAIN t : i < j => t[i] < t[j]
  PROVE  /\ Orderly(s \o t, P)
         /\ \A k : Once(s, k) => Once(s \o t, k)
<1> DEFINE u == s \o t
<1>1. Len(s) \in Nat /\ Len(t) \in Nat /\ DOMAIN s = 1 .. Len(s) /\ DOMAIN t = 1 .. Len(t)
  OBVIOUS
<1>2. /\ DOMAIN u = 1 .. Len(s) + Len(t)
      /\ \A i \in 1 .. Len(s) + Len(t) : u[i] = IF i <= Len(s) THEN s[i] ELSE t[i - Len(s)]
  BY ConcatProperties
<1> HIDE DEF u
<1>3. ASSUME NEW i \in DOMAIN u, i <= Len(s)
      PROVE  i \in 1 .. Len(s) /\ u[i] = s[i] /\ u[i] \in Nat /\ u[i] <= l
  <2>1. i \in 1 .. Len(s) + Len(t) /\ i \in 1 .. Len(s)
    BY <1>1, <1>2, <1>3
  <2>2. u[i] = s[i] /\ s[i] \in Nat /\ s[i] \in ToSet(s)
    BY <1>1, <1>2, <1>3, <2>1 DEF ToSet
  <2> QED BY <2>1, <2>2
<1>4. ASSUME NEW i \in DOMAIN u, ~(i <= Len(s))
      PROVE  i - Len(s) \in 1 .. Len(t) /\ u[i] = t[i - Len(s)] /\ u[i] \in Nat /\ l < u[i]
  <2>1. i \in 1 .. Len(s) + Len(t) /\ i - Len(s) \in 1 .. Len(t)
    BY <1>1, <1>2, <1>4
  <2>2. u[i] = t[i - Len(s)]
    BY <1>2, <1>4, <2>1
  <2>3. t[i - Len(s)] \in Nat /\ t[i - Len(s)] \in ToSet(t)
    BY <1>1, <2>1 DEF ToSet
  <2> QED BY <2>1, <2>2, <2>3
<1>5. ASSUME NEW i \in DOMAIN u, NEW j \in DOMAIN u, i < j, ~(j <= Len(s)) PROVE u[i] < u[j]
  <2>1. CASE i <= Len(s)
    BY <1>3, <1>4, <1>5, <2>1
  <2>2. CASE ~(i <= Len(s))
    <3>1. i - Len(s) < j - Len(s)
      BY <1>1, <1>2, <1>5
    <3> QED BY <1>1, <1>4, <1>5, <2>2, <3>1
  <2> QED BY <2>1, <2>2
<1>6. Orderly(u, P)
  <2> SUFFICES ASSUME NEW i \in DOMAIN u, NEW j \in DOMAIN u, i < j, u[i] # 0, u[j] # 0, j <= Len(s)
               PROVE  \/ u[i] < u[j]
                      \/ u[i] = u[j] /\ u[i] \in P /\ \A m \in i + 1 .. j - 1 : u[m] = 0
    BY <1>5 DEF Orderly
  <2>1. i <= Len(s)
    BY <1>1, <1>2
  <2>2. i \in 1 .. Len(s) /\ j \in 1 .. Len(s) /\ u[i] = s[i] /\ u[j] = s[j]
    BY <1>3, <2>1
  <2>3. ASSUME NEW m \in i + 1 .. j - 1 PROVE m \in 1 .. Len(s) /\ u[m] = s[m]
    <3>1. m \in 1 .. Len(s)
      BY <1>1, <2>2, <2>3, Between
    <3>2. m \in DOMAIN u /\ m <= Len(s)
      BY <1>1, <1>2, <3>1
    <3> QED BY <1>3, <3>1, <3>2
  <2> QED BY <1>1, <2>2, <2>3 DEF Orderly
<1>7. ASSUME NEW k, Once(s, k) PROVE Once(u, k)
  <2> SUFFICES ASSUME NEW i \in DOMAIN u, NEW j \in DOMAIN u, u[i] = k, u[j] = k, i < j PROVE FALSE
    BY <1>1, <1>2 DEF Once
  <2>1. CASE j <= Len(s)
    <3>1. i <= Len(s) /\ i # j
      BY <1>1, <1>2, <2>1
    <3> QED BY <1>1, <1>3, <1>7, <2>1, <3>1 DEF Once
  <2>2. CASE ~(j <= Len(s))
    <3>1. u[i] < u[j] /\ u[j] \in Nat
      BY <1>4, <1>5, <2>2
    <3> QED BY <3>1
  <2> QED BY <2>1, <2>2
<1> QED BY <1>6, <1>7 DEF u

\* The head goes to the tab: nothing before it is left out, nor after it.
LEMMA ToldReceive ==
  ASSUME NEW s \in Seq(Nat), s # <<>>, NEW E, NEW F, Told(s, E), E \cup {Head(s)} \subseteq F
  PROVE  1 .. Head(s) \subseteq F /\ Told(Tail(s), F)
<1> DEFINE r == Tail(s)
<1>1. /\ Len(s) \in Nat /\ DOMAIN s = 1 .. Len(s) /\ DOMAIN r = 1 .. Len(s) - 1
      /\ \A i \in 1 .. Len(s) - 1 : r[i] = s[i + 1]
  OBVIOUS
<1>2. Head(s) = s[1] /\ 1 \in DOMAIN s
  BY HeadAt
<1> HIDE DEF r
<1>3. 1 .. Head(s) \subseteq F
  BY <1>2 DEF Told
<1>4. ASSUME NEW i \in DOMAIN r, NEW k \in 1 .. r[i] PROVE k \in F \/ \E j \in 1 .. i : r[j] = k
  <2>1. i + 1 \in DOMAIN s /\ r[i] = s[i + 1]
    BY <1>1
  <2>2. k \in E \/ \E j \in 1 .. i + 1 : s[j] = k
    BY <1>4, <2>1 DEF Told
  <2>3. ASSUME NEW j \in 1 .. i + 1, s[j] = k PROVE k \in F \/ \E m \in 1 .. i : r[m] = k
    <3>1. CASE j = 1
      BY <1>2, <2>3, <3>1
    <3>2. CASE j # 1
      <4>1. j - 1 \in 1 .. i /\ j - 1 \in 1 .. Len(s) - 1 /\ (j - 1) + 1 = j
        BY <1>1, <3>2
      <4>2. r[j - 1] = s[j]
        BY <1>1, <4>1
      <4> QED BY <2>3, <4>1, <4>2
    <3> QED BY <3>1, <3>2
  <2> QED BY <2>2, <2>3
<1> QED BY <1>3, <1>4 DEF Told, r

\* A message without an ID may be dropped ...
LEMMA ToldDrop ==
  ASSUME NEW s \in Seq(Nat), NEW t \in Seq(Nat), t # <<>>, Head(t) = 0, NEW E, Told(s \o t, E)
  PROVE  Told(s \o Tail(t), E)
<1> DEFINE u == s \o t  v == s \o Tail(t)
           f == [i \in DOMAIN v |-> IF i <= Len(s) THEN i ELSE i + 1]
<1>1. /\ u \in Seq(Nat) /\ v \in Seq(Nat) /\ f \in [DOMAIN v -> DOMAIN u]
      /\ \A i \in DOMAIN v : v[i] = u[f[i]]
      /\ \A i, j \in DOMAIN v : i < j => f[i] < f[j]
      /\ \A i \in DOMAIN u : u[i] = Head(t) \/ \E j \in DOMAIN v : j <= i /\ i = f[j]
  BY WithoutOne
<1> HIDE DEF u, v, f
<1>2. DOMAIN u = 1 .. Len(u) /\ DOMAIN v = 1 .. Len(v) /\ Len(u) \in Nat /\ Len(v) \in Nat
  BY <1>1
<1>3. ASSUME NEW i \in DOMAIN v, NEW k \in 1 .. v[i] PROVE k \in E \/ \E j \in 1 .. i : v[j] = k
  <2>1. k \in E \/ \E j \in 1 .. f[i] : u[j] = k
    BY <1>1, <1>3 DEF Told, u
  <2>2. ASSUME NEW j \in 1 .. f[i], u[j] = k PROVE \E m \in 1 .. i : v[m] = k
    <3>1. k # 0 /\ j \in DOMAIN u
      BY <1>1, <1>2, SMTT(60)
    <3>2. PICK m \in DOMAIN v : j = f[m]
      BY <1>1, <2>2, <3>1
    <3>3. ~(i < m)
      <4>1. i < m => f[i] < f[m]
        BY <1>1
      <4>2. f[i] \in Int /\ f[m] \in Int /\ f[m] <= f[i]
        BY <1>1, <1>2, <3>2
      <4> QED BY <4>1, <4>2
    <3>4. m \in 1 .. i
      BY <1>2, <3>3
    <3> QED BY <1>1, <2>2, <3>2, <3>4
  <2> QED BY <2>1, <2>2
<1> QED BY <1>3 DEF Told, v

\* ... and added.
LEMMA ToldAppend ==
  ASSUME NEW s \in Seq(Nat), NEW E, Told(s, E), NEW e \in Nat, 1 .. e - 1 \subseteq E \cup ToSet(s)
  PROVE  Told(Append(s, e), E)
<1> DEFINE u == Append(s, e)
<1>1. /\ DOMAIN u = 1 .. Len(s) + 1 /\ DOMAIN s = 1 .. Len(s) /\ Len(s) \in Nat
      /\ u[Len(s) + 1] = e /\ \A i \in 1 .. Len(s) : u[i] = s[i]
  OBVIOUS
<1> HIDE DEF u
<1>2. ASSUME NEW i \in DOMAIN u, NEW k \in 1 .. u[i] PROVE k \in E \/ \E j \in 1 .. i : u[j] = k
  <2>1. CASE i = Len(s) + 1
    <3>1. u[i] = e /\ i \in 1 .. i
      BY <1>1, <2>1
    <3>2. CASE k = e
      BY <3>1, <3>2
    <3>3. CASE k # e
      <4>1. k \in E \cup ToSet(s)
        BY <1>2, <3>1, <3>3
      <4>2. ASSUME k \in ToSet(s) PROVE \E j \in 1 .. i : u[j] = k
        <5>1. PICK j \in 1 .. Len(s) : s[j] = k
          BY <1>1, <4>2 DEF ToSet
        <5>2. j \in 1 .. i /\ u[j] = s[j]
          BY <1>1, <2>1, <5>1
        <5> QED BY <5>1, <5>2
      <4> QED BY <4>1, <4>2
    <3> QED BY <3>2, <3>3
  <2>2. CASE i # Len(s) + 1
    <3>1. i \in 1 .. Len(s) /\ u[i] = s[i]
      BY <1>1, <2>2
    <3>2. k \in E \/ \E j \in 1 .. i : s[j] = k
      BY <1>1, <1>2, <3>1 DEF Told
    <3>3. \A j \in 1 .. i : u[j] = s[j]
      BY <1>1, <3>1
    <3> QED BY <3>2, <3>3
  <2> QED BY <2>1, <2>2
<1> QED BY <1>2 DEF Told, u

\* A replay put before the buffer tells of everything it covers.
LEMMA ToldReplay ==
  ASSUME NEW s \in Seq(Nat), NEW t \in Seq(Nat), NEW E, NEW l \in Nat,
         \A i, j \in DOMAIN s : i < j => s[i] < s[j],
         \A k \in ToSet(s) \cup ToSet(t) : k <= l,
         1 .. l \subseteq E \cup ToSet(s)
  PROVE  Told(s \o t, E)
<1> DEFINE u == s \o t
<1>1. Len(s) \in Nat /\ Len(t) \in Nat /\ DOMAIN s = 1 .. Len(s) /\ u \in Seq(Nat)
      /\ \A i \in 1 .. Len(s) : s[i] \in Nat
  BY ConcatProperties
<1>2. /\ DOMAIN u = 1 .. Len(s) + Len(t)
      /\ \A i \in 1 .. Len(s) + Len(t) : u[i] = IF i <= Len(s) THEN s[i] ELSE t[i - Len(s)]
  BY ConcatProperties
<1>3. \A i \in DOMAIN u : u[i] \in Nat /\ u[i] <= l
  <2>1. ToSet(u) = ToSet(s) \cup ToSet(t)
    BY ToSetConcat
  <2> HIDE DEF u
  <2>2. \A i \in DOMAIN u : u[i] \in Nat /\ u[i] \in ToSet(u)
    BY <1>1 DEF ToSet
  <2> QED BY <2>1, <2>2
<1> HIDE DEF u
<1>4. ASSUME NEW i \in DOMAIN u, NEW k \in 1 .. u[i], k \notin E PROVE \E j \in 1 .. i : u[j] = k
  <2>1. k \in ToSet(s)
    BY <1>3, <1>4
  <2>2. PICK j \in 1 .. Len(s) : s[j] = k
    BY <1>1, <2>1 DEF ToSet
  <2>3. u[j] = k /\ j <= Len(s)
    BY <1>1, <1>2, <2>2
  <2>4. j \in 1 .. i
    <3>1. CASE i <= Len(s)
      <4>1. i \in 1 .. Len(s) /\ u[i] = s[i]
        BY <1>1, <1>2, <3>1
      <4>2. i < j => s[i] < k
        BY <1>1, <2>2, <4>1
      <4>3. k <= s[i] /\ s[i] \in Int /\ k \in Int
        BY <1>1, <1>4, <4>1
      <4> QED BY <2>2, <4>1, <4>2, <4>3
    <3>2. CASE ~(i <= Len(s))
      BY <1>1, <1>2, <2>2, <3>2
    <3> QED BY <3>1, <3>2
  <2> QED BY <2>3, <2>4
<1> QED BY <1>4 DEF Told, u

\* A buffer in order needs no replay if it holds all that is not settled.
LEMMA ToldBuffer ==
  ASSUME NEW s \in Seq(Nat), NEW E, NEW l \in Nat,
         \A i \in DOMAIN s : s[i] <= l /\ \A j \in DOMAIN s : i < j /\ s[j] # 0 => s[i] < s[j],
         1 .. l \subseteq E \cup ToSet(s)
  PROVE  Told(s, E)
<1>1. Len(s) \in Nat /\ DOMAIN s = 1 .. Len(s) /\ \A i \in 1 .. Len(s) : s[i] \in Nat
  OBVIOUS
<1>2. ASSUME NEW i \in DOMAIN s, NEW k \in 1 .. s[i], k \notin E PROVE \E j \in 1 .. i : s[j] = k
  <2>1. k \in 1 .. l /\ k # 0
    BY <1>1, <1>2
  <2>2. PICK j \in DOMAIN s : s[j] = k
    BY <1>2, <2>1 DEF ToSet
  <2>3. i < j => s[i] < k
    BY <2>1, <2>2
  <2>4. j \in 1 .. i
    BY <1>1, <1>2, <2>2, <2>3
  <2> QED BY <2>2, <2>4
<1> QED BY <1>2 DEF Told

\* Appending to the second of two sequences appends to both.
LEMMA AppendToLast ==
  ASSUME NEW S, NEW s \in Seq(S), NEW t \in Seq(S), NEW e \in S
  PROVE  s \o Append(t, e) = Append(s \o t, e)
<1>1. s \o t \in Seq(S) /\ <<e>> \in Seq(S)
  BY ConcatProperties
<1>2. Append(t, e) = t \o <<e>> /\ Append(s \o t, e) = (s \o t) \o <<e>>
  BY <1>1, AppendIsConcat
<1>3. s \o (t \o <<e>>) = (s \o t) \o <<e>>
  BY <1>1, ConcatAssociative
<1> QED BY <1>2, <1>3

\* Moving the head of one sequence to the end of the other before it.
LEMMA MoveHead ==
  ASSUME NEW S, NEW s \in Seq(S), NEW t \in Seq(S), t # <<>>
  PROVE  Append(s, Head(t)) \o Tail(t) = s \o t
<1>1. Head(t) \in S /\ Tail(t) \in Seq(S) /\ <<Head(t)>> \in Seq(S)
  BY HeadTailProperties
<1>2. t = <<Head(t)>> \o Tail(t)
  BY <1>1, HeadTailProperties
<1>3. Append(s, Head(t)) = s \o <<Head(t)>>
  BY <1>1, AppendIsConcat
<1> QED BY <1>1, <1>2, <1>3, ConcatAssociative

\* The head of the first of two sequences is the head of both.
LEMMA TakeHead ==
  ASSUME NEW S, NEW s \in Seq(S), NEW t \in Seq(S), s # <<>>
  PROVE  s \o t # <<>> /\ Head(s \o t) = Head(s) /\ Tail(s \o t) = Tail(s) \o t
<1>1. /\ s \o t \in Seq(S) /\ Len(s \o t) = Len(s) + Len(t)
      /\ \A i \in 1 .. Len(s) + Len(t) : (s \o t)[i] = IF i <= Len(s) THEN s[i] ELSE t[i - Len(s)]
  BY ConcatProperties
<1>2. Len(s) \in Nat \ {0} /\ Len(t) \in Nat
  BY EmptySeq, LenProperties
<1>3. s \o t # <<>>
  BY ConcatEqualIffEmpty
<1>4. Head(s \o t) = (s \o t)[1] /\ Head(s) = s[1]
  BY <1>1, <1>3, HeadAt
<1>5. Head(s \o t) = Head(s)
  <2>1. 1 \in 1 .. Len(s) + Len(t) /\ 1 <= Len(s)
    BY <1>2
  <2> QED BY <1>1, <1>4, <2>1
<1>6. Append(<<>>, Head(s)) \o Tail(s) = <<>> \o s /\ <<>> \o s = s
  BY MoveHead, EmptySeq, ConcatEmptySeq
<1>7. Append(<<>>, Head(s \o t)) \o Tail(s \o t) = <<>> \o (s \o t) /\ <<>> \o (s \o t) = s \o t
  BY <1>1, <1>3, MoveHead, EmptySeq, ConcatEmptySeq
<1> DEFINE h == Append(<<>>, Head(s))
<1>8. h \in Seq(S) /\ Tail(s) \in Seq(S) /\ Tail(s \o t) \in Seq(S)
  BY <1>1, <1>3, HeadTailProperties, EmptySeq, AppendProperties
<1>9. h \o Tail(s \o t) = h \o (Tail(s) \o t)
  <2>1. h \o Tail(s \o t) = s \o t /\ h \o Tail(s) = s
    BY <1>5, <1>6, <1>7
  <2>2. (h \o Tail(s)) \o t = h \o (Tail(s) \o t)
    BY <1>8, ConcatAssociative
  <2> QED BY <2>1, <2>2
<1>10. Tail(s) \o t \in Seq(S)
  BY <1>8, ConcatProperties
<1> HIDE DEF h
<1>11. Tail(s \o t) = Tail(s) \o t
  BY <1>8, <1>9, <1>10, ConcatSimplifications
<1> QED BY <1>3, <1>5, <1>11

\* InLine, for snapshots P, a producer that is about to broadcast k just if b.
Line(s, P, b, k) == Orderly(s, P) /\ (b => Once(s, k) /\ (k \in ToSet(s) => k \in P))

\* The name of the line in a state.
LEMMA InLineIsLine == \A s : InLine(s) <=> Line(s, Snapshots, prod = "evt", total)
  BY DEF InLine, Line

\* More snapshots and an event that is broadcast break no line.
LEMMA LineKept ==
  ASSUME NEW s \in Seq(Nat), NEW P, NEW Q, NEW b, NEW d, NEW k \in Nat, Line(s, P, b, k),
         P \ {0} \subseteq Q, d => b /\ k # 0
  PROVE  Line(s, Q, d, k)
<1>1. Orderly(s, Q)
  BY DEF Line, Orderly
<1>2. ASSUME d PROVE Once(s, k) /\ (k \in ToSet(s) => k \in Q)
  BY <1>2 DEF Line
<1> QED BY <1>1, <1>2 DEF Line

\* A new event is not in line yet.
LEMMA LineEmit ==
  ASSUME NEW s \in Seq(Nat), NEW P, NEW b, NEW k \in Nat, Line(s, P, b, k),
         \A e \in ToSet(s) : e <= k
  PROVE  Line(s, P, TRUE, k + 1)
<1>1. \A i \in DOMAIN s : s[i] \in ToSet(s) /\ s[i] <= k /\ s[i] \in Nat
  BY DEF ToSet
<1>2. \A i \in DOMAIN s : s[i] # k + 1
  BY <1>1
<1>3. k + 1 \notin ToSet(s)
  BY <1>2 DEF ToSet
<1> QED BY <1>2, <1>3 DEF Line, Once

\* A message without an ID may come next ...
LEMMA LineMeta ==
  ASSUME NEW s \in Seq(Nat), NEW P, NEW b, NEW d, NEW k \in Nat, Line(s, P, b, k), d => b /\ k # 0
  PROVE  Line(Append(s, 0), P, d, k)
<1>1. Orderly(Append(s, 0), P)
  BY OrderlyMeta DEF Line
<1>2. ASSUME d PROVE Once(Append(s, 0), k) /\ (k \in ToSet(Append(s, 0)) => k \in P)
  <2>1. ToSet(Append(s, 0)) = ToSet(s) \cup {0}
    BY ToSetAppend
  <2>2. k # 0 /\ Once(s, k) /\ (k \in ToSet(s) => k \in P)
    BY <1>2 DEF Line
  <2> QED BY <2>1, <2>2, OrderlyMeta
<1> QED BY <1>1, <1>2 DEF Line

\* ... and any message may be dropped.
LEMMA LineDrop ==
  ASSUME NEW s \in Seq(Nat), NEW t \in Seq(Nat), t # <<>>, NEW P, NEW b, NEW k, Line(s \o t, P, b, k)
  PROVE  Line(s \o Tail(t), P, b, k)
  BY OrderlyDrop DEF Line

\* The beginning of a line is one.
LEMMA LinePrefix ==
  ASSUME NEW s \in Seq(Nat), NEW t \in Seq(Nat), NEW P, NEW b, NEW k, Line(s \o t, P, b, k)
  PROVE  Line(s, P, b, k)
  BY OrderlyPrefix DEF Line

\* The event that is broadcast comes to the end of the line.
LEMMA LineNewest ==
  ASSUME NEW s \in Seq(Nat), NEW P, NEW k \in Nat, Line(s, P, TRUE, k), \A e \in ToSet(s) : e <= k
  PROVE  Line(Append(s, k), P, FALSE, k)
  BY OrderlyNewest DEF Line

\* A replay is put at the end of a line that ends with l.
LEMMA LineReplay ==
  ASSUME NEW s \in Seq(Nat), NEW t \in Seq(Nat), NEW P, NEW b, NEW k, NEW l \in Nat, Line(s, P, b, k),
         k \in P, \A e \in ToSet(s) : e <= l, \A e \in ToSet(t) : l < e,
         \A i, j \in DOMAIN t : i < j => t[i] < t[j]
  PROVE  Line(s \o t, P, b, k)
  BY OrderlyAbove DEF Line

-----------------------------------------------------------------------------
(* What a step does to what is coming on a connection that works.           *)

\* What has been received and what is coming are events so far and messages
\* without an ID.
LEMMA ComingType ==
  ASSUME TypeOK, NEW c \in Conns
  PROVE  /\ Coming(c) \in Seq(0 .. total) /\ Coming(c) \in Seq(Nat)
         /\ got \in Seq(0 .. total) /\ got \in Seq(Nat) /\ got \o Coming(c) \in Seq(Nat)
         /\ wire[c] \in Seq(0 .. total) /\ pending[c] \in Seq(0 .. total) /\ buf[c] \in Seq(0 .. total)
         /\ wire[c] \o pending[c] \in Seq(0 .. total)
         /\ \A e \in ToSet(got) \cup ToSet(Coming(c)) \cup ToSet(got \o Coming(c)) : e \in Nat /\ e <= total
<1>1. total \in Nat /\ Events \subseteq 0 .. total /\ 0 .. total \subseteq Nat
  BY BoundsAssumption DEF TypeOK, Events
<1>2. \A s \in Seq(Events) : s \in Seq(0 .. total)
  BY <1>1, SeqMonotonic
<1>3. \A s \in Seq(0 .. total) : s \in Seq(Nat)
  BY <1>1, SeqMonotonic
<1>4. wire[c] \in Seq(0 .. total) /\ pending[c] \in Seq(0 .. total) /\ buf[c] \in Seq(0 .. total)
      /\ got \in Seq(0 .. total)
  BY <1>2 DEF TypeOK
<1>5. wire[c] \o pending[c] \in Seq(0 .. total)
  BY <1>4, ConcatProperties
<1>6. Coming(c) \in Seq(0 .. total)
  BY <1>4, <1>5, ConcatProperties DEF Coming
<1>7. got \o Coming(c) \in Seq(0 .. total)
  BY <1>4, <1>6, ConcatProperties
<1>8. \A s \in Seq(0 .. total) : \A e \in ToSet(s) : e \in Nat /\ e <= total
  BY <1>1 DEF ToSet
<1> QED BY <1>3, <1>4, <1>5, <1>6, <1>7, <1>8

\* A broadcast of m puts m at the end, or the buffer is full, or c does not
\* want it or is not subscribed.
LEMMA ComingBroadcast ==
  ASSUME TypeOK, NEW c \in Conns, NEW m \in 0 .. total, Broadcast(m), UNCHANGED <<wire, pending>>
  PROVE  \/ Coming(c)' = Coming(c) /\ (c \in subs => ~Wanted(m) \/ ~HasRoom(c))
         \/ Coming(c)' = Append(Coming(c), m) /\ c \in subs
<1>1. \/ buf'[c] = buf[c] /\ (c \in subs => ~Wanted(m) \/ ~HasRoom(c))
      \/ buf'[c] = Append(buf[c], m) /\ c \in subs
  BY BroadcastEffect
<1>2. (wire[c] \o pending[c]) \o Append(buf[c], m) = Append((wire[c] \o pending[c]) \o buf[c], m)
  <2>1. wire[c] \o pending[c] \in Seq(0 .. total) /\ buf[c] \in Seq(0 .. total)
    BY ComingType
  <2>2. \A s, t \in Seq(0 .. total) : s \o Append(t, m) = Append(s \o t, m)
    BY AppendToLast
  <2> QED BY <2>1, <2>2
<1> QED BY <1>1, <1>2 DEF Coming

\* What the tab receives is the head of what is coming.
LEMMA ComingReceive ==
  ASSUME TypeOK, Receive
  PROVE  /\ cur \in Conns /\ Coming(cur) # <<>> /\ Head(Coming(cur)) \in Events
         /\ got' = Append(got, Head(Coming(cur))) /\ lastID' = Head(Coming(cur))
         /\ Coming(cur)' = Tail(Coming(cur))
         /\ got' \o Coming(cur)' = got \o Coming(cur)
<1>1. PICK c \in Conns : c = cur
  BY DEF Receive, TypeOK
<1>2. wire[c] # <<>> /\ wire'[c] = Tail(wire[c]) /\ UNCHANGED <<pending, buf, cur>>
      /\ got' = Append(got, Head(wire[c])) /\ lastID' = Head(wire[c])
  BY <1>1 DEF Receive, TypeOK, replayVars
<1>3. Head(wire[c]) \in Events
  BY <1>2 DEF TypeOK
<1>4. Coming(c) = wire[c] \o (pending[c] \o buf[c])
  <2>1. wire[c] \in Seq(0 .. total) /\ pending[c] \in Seq(0 .. total) /\ buf[c] \in Seq(0 .. total)
    BY ComingType
  <2>2. \A s, t, u \in Seq(0 .. total) : (s \o t) \o u = s \o (t \o u)
    BY ConcatAssociative
  <2> QED BY <2>1, <2>2 DEF Coming
<1>5. pending[c] \o buf[c] \in Seq(0 .. total) /\ wire[c] \in Seq(0 .. total) /\ Tail(wire[c]) \in Seq(0 .. total)
  BY <1>2, ComingType, ConcatProperties, HeadTailProperties
<1>6. Coming(c) # <<>> /\ Head(Coming(c)) = Head(wire[c]) /\ Tail(Coming(c)) = Tail(wire[c]) \o (pending[c] \o buf[c])
  BY <1>2, <1>4, <1>5, TakeHead
<1>7. (Tail(wire[c]) \o pending[c]) \o buf[c] = Tail(wire[c]) \o (pending[c] \o buf[c])
  <2>1. pending[c] \in Seq(0 .. total) /\ buf[c] \in Seq(0 .. total)
    BY ComingType
  <2>2. \A s, t, u \in Seq(0 .. total) : (s \o t) \o u = s \o (t \o u)
    BY ConcatAssociative
  <2> QED BY <1>5, <2>1, <2>2
<1>8. Coming(c)' = Tail(Coming(c))
  BY <1>2, <1>6, <1>7 DEF Coming
<1>9. Append(got, Head(Coming(c))) \o Tail(Coming(c)) = got \o Coming(c)
  BY <1>6, ComingType, MoveHead
<1>10. Coming(cur)' = Coming(c)' /\ Coming(cur) = Coming(c)
  BY <1>1, <1>2 DEF Coming
<1> QED BY <1>1, <1>2, <1>3, <1>6, <1>8, <1>9, <1>10

\* The handler writes the next event of the replay: it is coming as before.
LEMMA ComingSend ==
  ASSUME TypeOK, ConnInv, NEW c \in up, ReplaySend(c)
  PROVE  Coming(c)' = Coming(c)
<1>1. c \in Conns /\ pending[c] # <<>> /\ pending[c] \in Seq(Events) /\ Head(pending[c]) # 0
  <2>1. c \in Conns /\ pending[c] # <<>> /\ pending[c] \in Seq(Events)
    BY DEF TypeOK, ConnInv, HandlerOK, ReplaySend
  <2>2. Head(pending[c]) \in Events
    BY <2>1
  <2>3. 0 \notin Events
    BY BoundsAssumption DEF TypeOK, Events
  <2> QED BY <2>1, <2>2, <2>3
<1>2. wire'[c] = Append(wire[c], Head(pending[c])) /\ pending'[c] = Tail(pending[c]) /\ buf' = buf
  BY <1>1 DEF ReplaySend, SendOK, TypeOK
<1>3. Append(wire[c], Head(pending[c])) \o Tail(pending[c]) = wire[c] \o pending[c]
  BY <1>1, ComingType, MoveHead
<1> QED BY <1>2, <1>3 DEF Coming

\* The handler forwards a message: an event is coming as before, a message
\* without an ID is dropped.
LEMMA ComingForward ==
  ASSUME TypeOK, ConnInv, NEW c \in up, Forward(c)
  PROVE  /\ buf[c] # <<>> /\ pending[c] = <<>> /\ Coming(c) = wire[c] \o buf[c]
         /\ \/ Head(buf[c]) # 0 /\ Coming(c)' = Coming(c)
            \/ Head(buf[c]) = 0 /\ Coming(c)' = wire[c] \o Tail(buf[c])
<1>1. c \in Conns /\ pending[c] = <<>> /\ buf[c] # <<>> /\ pc[c] = "loop"
  BY DEF TypeOK, ConnInv, HandlerOK, Forward
<1>2. /\ wire'[c] = (IF Head(buf[c]) # 0 THEN Append(wire[c], Head(buf[c])) ELSE wire[c])
      /\ pending' = pending /\ buf'[c] = Tail(buf[c])
  BY <1>1 DEF Forward, SendOK, SendFails, TypeOK, replayVars
<1>3. wire[c] \in Seq(0 .. total) /\ buf[c] \in Seq(0 .. total) /\ Head(buf[c]) \in 0 .. total
  BY <1>1, ComingType, HeadTailProperties
<1>4. Append(wire[c], Head(buf[c])) \o Tail(buf[c]) = wire[c] \o buf[c]
  BY <1>1, <1>3, MoveHead
<1>5. wire[c] \o <<>> = wire[c] /\ Append(wire[c], Head(buf[c])) \o <<>> = Append(wire[c], Head(buf[c]))
  BY <1>3, ConcatEmptySeq, AppendProperties
<1> QED BY <1>1, <1>2, <1>4, <1>5 DEF Coming

\* Until the handler has read the store there is only the buffer.
LEMMA ComingUnread ==
  ASSUME TypeOK, ConnInv, NEW c \in up, Unread(c)
  PROVE  /\ c \in Conns /\ wire[c] = <<>> /\ pending[c] = <<>> /\ Coming(c) = buf[c]
         /\ c \notin subs => Coming(c) = <<>>
<1>1. c \in Conns /\ wire[c] = <<>> /\ pending[c] = <<>> /\ (c \notin subs => buf[c] = <<>>)
  BY DEF TypeOK, ConnInv, HandlerOK, Unread
<1>2. <<>> \o <<>> = <<>> /\ <<>> \o buf[c] = buf[c]
  BY <1>1, ComingType, ConcatEmptySeq, EmptySeq
<1> QED BY <1>1, <1>2 DEF Coming

\* Nothing happens that concerns the tab and its connection c.
Idle(c) ==
    /\ UNCHANGED <<total, prod, got, lastID, lost, Coming(c), snapshot[c]>>
    /\ c \in subs' <=> c \in subs
    /\ Unread(c)' <=> Unread(c)

\* Messages without an ID: the producer's total and the hooks' counts.
Chatter == EmitSignal \/ \E n \in Conns : SubscribeHook(n) \/ UnsubscribeHook(n)

\* What can happen while connection c works.
LEMMA StepCases ==
  ASSUME TypeOK, ConnInv, BufInv, [Next]_vars, NEW c \in up'
  PROVE  /\ c \in Conns
         /\ \/ Connect /\ cur' = c
            \/ /\ c = cur /\ c \in up
               /\ \/ EmitAppend \/ EmitBroadcast \/ Chatter \/ Receive
                  \/ SkipReplay(c) \/ ReplayRead(c) \/ StoreFails(c) \/ Subscribe(c)
                  \/ Forward(c) /\ Head(buf[c]) = 0
                  \/ Idle(c)
<1> USE DEF replayVars, tabVars, prodVars
<1>1. up \subseteq {cur} /\ up \subseteq Conns /\ recipe' = recipe /\ SubscribeFirst' = SubscribeFirst
      /\ DOMAIN buf = Conns
  BY Lasting DEF ConnInv, TypeOK
<1>2. CASE Connect
  <2>1. cur' = cur + 1 /\ up' = up \cup {cur'} /\ cur < Opens /\ (cur = 0 \/ cur \notin up)
    BY <1>2 DEF Connect
  <2>2. cur \in Nat /\ MaxConns \in Nat /\ Opens \in 1 .. MaxConns /\ 0 \notin Conns /\ Conns = 1 .. MaxConns
    BY RecipeType, BoundsAssumption DEF TypeOK, Conns
  <2>3. up = {} /\ c = cur' /\ cur' \in Conns
    BY <1>1, <2>1, <2>2
  <2> QED BY <1>2, <2>3
<1>3. CASE ~Connect
  <2>1. up' \subseteq up /\ (Disconnect => up' = {})
    BY <1>1, <1>3 DEF Next, Produce, EmitAppend, EmitBroadcast, EmitSignal, Receive, Disconnect, Quiet, vars,
       Handle, Replay, SkipReplay, ReplayRead, StoreFails, ReplaySend, ReplayFails,
       ReplayBanner, Subscribe, SubscribeHook, Forward, CtxDone, Unsubscribe, UnsubscribeHook
  <2>2. c \in up /\ c = cur /\ c \in Conns /\ ~Disconnect
    BY <1>1, <2>1
  <2>3. CASE UNCHANGED vars
    BY <2>2, <2>3 DEF vars, Idle, Coming, Unread, SubscribeFirst
  <2>4. ASSUME NEW n \in Conns, Handle(n), n # c, ~Chatter PROVE Idle(c)
    <3>1. UNCHANGED <<pc[c], pending[c], snapshot[c], wire[c]>>
      BY <2>2, <2>4, OthersUntouched
    <3>2. UNCHANGED <<total, prod, got, lastID, lost>> /\ (c \in subs' <=> c \in subs) /\ buf'[c] = buf[c]
      BY <1>1, <2>2, <2>4 DEF Handle, Replay, SkipReplay, ReplayRead, StoreFails, ReplaySend, ReplayFails,
         ReplayBanner, Subscribe, SubscribeHook, Forward, CtxDone, Unsubscribe, UnsubscribeHook, Chatter
    <3> QED BY <1>1, <3>1, <3>2 DEF Idle, Coming, Unread
  <2>5. ASSUME Handle(c), ~Chatter
        PROVE  \/ SkipReplay(c) \/ ReplayRead(c) \/ StoreFails(c) \/ Subscribe(c)
               \/ Forward(c) /\ Head(buf[c]) = 0
               \/ Idle(c)
    <3>1. /\ pc[c] \notin {"none", "unsubscribe", "unhook", "done"} /\ pc \in [Conns -> HandlerPC]
          /\ pc[c] = "banner" => ~SubscribeFirst
      BY <2>2 DEF ConnInv, HandlerOK, TypeOK
    <3>2. CASE ReplaySend(c)
      <4>1. UNCHANGED <<total, prod, got, lastID, lost, snapshot, subs>>
            /\ pc[c] = "sending" /\ pc'[c] \in {"sending", "loop", "banner"}
        BY <2>2, <3>1, <3>2 DEF ReplaySend
      <4>2. Unread(c)' <=> Unread(c)
        BY <1>1, <4>1 DEF Unread
      <4> QED BY <2>2, <3>2, <4>1, <4>2, ComingSend DEF Idle
    <3>3. CASE Forward(c)
      <4>1. UNCHANGED <<total, prod, got, lastID, lost, snapshot, subs, pc>>
        BY <2>2, <3>3 DEF Forward, SendFails
      <4>2. Unread(c)' <=> Unread(c)
        BY <1>1, <4>1 DEF Unread
      <4> QED BY <2>2, <3>3, <4>1, <4>2, ComingForward DEF Idle
    <3>4. CASE ReplayBanner(c)
      <4>1. UNCHANGED <<total, prod, got, lastID, lost, snapshot, subs, wire, pending, buf>>
            /\ pc[c] = "banner" /\ pc'[c] = "subscribe"
        BY <2>2, <3>1, <3>4 DEF ReplayBanner, SendFails, SendOK
      <4>2. Unread(c)' <=> Unread(c)
        BY <1>1, <3>1, <4>1 DEF Unread
      <4>3. Coming(c)' = Coming(c)
        BY <4>1 DEF Coming
      <4> QED BY <4>1, <4>2, <4>3 DEF Idle
    <3> QED BY <2>2, <2>5, <3>1, <3>2, <3>3, <3>4 DEF Handle, Replay, ReplayFails, SendFails, CtxDone,
               Unsubscribe, Chatter
  <2> QED BY <1>3, <2>2, <2>3, <2>4, <2>5 DEF Next, Produce, Chatter, Quiet
<1> QED BY <1>2, <1>3

\* The connection that is opened has nothing for the tab yet.
LEMMA ComingConnect ==
  ASSUME TypeOK, ConnInv, Connect, NEW c \in Conns, cur' = c
  PROVE  /\ Coming(c)' = <<>> /\ Unread(c)'
         /\ UNCHANGED <<total, prod, got, lastID, snapshot>>
<1>1. c > cur /\ HandlerOK(c) /\ SubscribeFirst' = SubscribeFirst /\ DOMAIN pc = Conns
  BY DEF ConnInv, Connect, TypeOK, SubscribeFirst
<1>2. pending[c] = <<>> /\ wire[c] = <<>> /\ buf[c] = <<>>
  BY <1>1 DEF HandlerOK, Unread
<1>3. UNCHANGED <<total, prod, got, lastID, snapshot, pending, wire, buf>>
      /\ pc'[c] = IF SubscribeFirst THEN "subscribe" ELSE "replay"
  BY <1>1 DEF Connect, prodVars
<1>4. <<>> \o <<>> = <<>>
  BY EmptySeq, ConcatEmptySeq
<1> QED BY <1>1, <1>2, <1>3, <1>4 DEF Coming, Unread

\* The store hands out events in their order.
LEMMA MissedIncreasing ==
  ASSUME TypeOK, StoreInv, NEW id
  PROVE  LET t == Missed(id) IN \A i, j \in DOMAIN t : i < j => t[i] < t[j]
<1>1. store \in Seq(Int) /\ DOMAIN store = 1 .. Len(store) /\ Len(store) \in Nat /\ total \in Int
      /\ Events \subseteq Int
  <2>1. total \in Int /\ Events \subseteq Int /\ store \in Seq(Events)
    BY DEF TypeOK, Events
  <2>2. store \in Seq(Int)
    BY <2>1, SeqMonotonic
  <2> QED BY <2>1, <2>2, LenProperties
<1>2. \A i, j \in DOMAIN store : i < j => store[i] < store[j]
  BY <1>1 DEF StoreInv
<1> DEFINE After == {k \in Events : k > id}
           Want  == {k \in Events : Wanted(k)}
           u     == Keep(store, After)
<1> HIDE DEF After, Want
<1>3. u \in Seq(Int) /\ \A i, j \in DOMAIN u : i < j => u[i] < u[j]
  BY <1>1, <1>2, KeepElements, KeepIncreasing
<1> DEFINE v == Keep(u, Want)
<1>4. \A i, j \in DOMAIN v : i < j => v[i] < v[j]
  <2> HIDE DEF u
  <2> QED BY <1>3, KeepIncreasing
<1>5. Missed(id) = IF SubscribeFirst THEN v ELSE u
  BY DEF Missed, EventsAfter, After, Want
<1> QED BY <1>3, <1>4, <1>5

\* After the read, the missed events and the buffer are coming.
LEMMA ComingRead ==
  ASSUME TypeOK, ConnInv, NEW c \in up, ReplayRead(c)
  PROVE  /\ c \in Conns /\ Unread(c) /\ ~Unread(c)' /\ snapshot'[c] = total
         /\ lastEventID[c] = lastID /\ lastID \in Nat
         /\ Coming(c)' = Missed(lastID) \o buf[c]
         /\ c \in subs <=> SubscribeFirst
         /\ UNCHANGED <<total, prod, got, lastID, subs>>
<1>1. c \in Conns /\ Unread(c) /\ pc[c] = "replay"
  BY DEF ReplayRead, TypeOK, Unread
<1>2. /\ wire[c] = <<>> /\ lastEventID[c] = lastID /\ (c \in subs <=> SubscribeFirst)
      /\ lastID \in Nat
  <2>1. HandlerOK(c) /\ lastID \in Nat
    BY <1>1 DEF ConnInv, TypeOK
  <2>2. c \in subs <=> pc[c] \in {"hook1", "hook2", "loop", "unsubscribe"}
                        \cup (IF SubscribeFirst THEN {"replay", "sending"} ELSE {})
    BY <2>1 DEF HandlerOK
  <2>3. c \in subs <=> SubscribeFirst
    BY <1>1, <2>2
  <2>4. wire[c] = <<>> /\ lastEventID[c] = lastID
    BY <1>1, <2>1 DEF HandlerOK
  <2> QED BY <2>1, <2>3, <2>4
<1>3. /\ UNCHANGED <<recipe, total, prod, got, lastID, subs, wire, buf>>
      /\ snapshot'[c] = total /\ pending'[c] = Missed(lastID) /\ pc'[c] \in {AfterReplay, "sending"}
  BY <1>1, <1>2 DEF ReplayRead, prodVars, tabVars, TypeOK
<1>4. ~Unread(c)'
  BY <1>3 DEF Unread, AfterReplay, SubscribeFirst
<1>5. <<>> \o Missed(lastID) = Missed(lastID)
  BY <1>2, MissedType, ConcatEmptySeq
<1> QED BY <1>1, <1>2, <1>3, <1>4, <1>5 DEF Coming

\* Every step keeps what the tab receives in line.
LEMMA NextOrder ==
  ASSUME TypeOK, TypeOK', StoreInv, ConnInv, BufInv, OrderInv, [Next]_vars
  PROVE  OrderInv'
<1> USE DEF replayVars, tabVars, prodVars
<1>1. /\ SubscribeFirst' = SubscribeFirst /\ total \in Nat /\ Snapshots \ {0} \subseteq Snapshots'
      /\ prod = "evt" => total # 0
  <2>1. /\ SubscribeFirst' = SubscribeFirst /\ total \in Nat /\ Conns' = Conns
        /\ \A n \in Conns : snapshot[n] # 0 => snapshot'[n] = snapshot[n]
    BY Lasting
  <2>2. Snapshots \ {0} \subseteq Snapshots'
    BY <2>1 DEF Snapshots
  <2> QED BY <2>1, <2>2 DEF BufInv, Broadcasted
<1>2. SUFFICES ASSUME ~SubscribeFirst
               PROVE  /\ lastID' = IF got' = <<>> THEN 0 ELSE got'[Len(got')]
                      /\ Line(got', Snapshots', prod' = "evt", total')
                      /\ \A c \in up' : Line(got' \o Coming(c)', Snapshots', prod' = "evt", total')
  <2>1. ASSUME NEW c \in up' PROVE (got \o Coming(c))' = got' \o Coming(c)'
    OBVIOUS
  <2> QED BY <1>1 DEF OrderInv, InLine, Line
<1>3. /\ lastID = IF got = <<>> THEN 0 ELSE got[Len(got)]
      /\ Line(got, Snapshots, prod = "evt", total)
      /\ \A c \in up : Line(got \o Coming(c), Snapshots, prod = "evt", total)
  BY <1>2, InLineIsLine DEF OrderInv
<1>4. got \in Seq(Nat) /\ (\A e \in ToSet(got) : e <= total) /\ got \in Seq(Events) /\ up \subseteq Conns
  <2>1. got \in Seq(Events) /\ Events \subseteq Nat /\ up \subseteq Conns
    BY DEF TypeOK, Events
  <2>2. \A e \in ToSet(got) : e <= total
    BY <1>1, <2>1 DEF ToSet, Events
  <2>3. got \in Seq(Nat)
    BY <2>1, SeqMonotonic
  <2> QED BY <2>1, <2>2, <2>3
<1>5. EmitAppend \/ Receive \/ (UNCHANGED <<got, lastID, total>> /\ (prod' = "evt" => prod = "evt"))
  BY DEF Next, Produce, EmitBroadcast, EmitSignal, Connect, Disconnect, Quiet, vars,
     Handle, Replay, SkipReplay, ReplayRead, StoreFails, ReplaySend, ReplayFails,
     ReplayBanner, Subscribe, SubscribeHook, Forward, CtxDone, Unsubscribe, UnsubscribeHook
<1>6. CASE Receive
  <2>1. UNCHANGED <<total, prod, snapshot, up, cur>> /\ Snapshots' = Snapshots /\ cur \in up /\ up \subseteq {cur}
    BY <1>6 DEF Receive, Snapshots, Conns, ConnInv
  <2>2. PICK c \in Conns : c = cur
    BY <1>4, <2>1
  <2>3. /\ Coming(c) # <<>> /\ got' = Append(got, Head(Coming(c))) /\ lastID' = Head(Coming(c))
        /\ Coming(c)' = Tail(Coming(c)) /\ got' \o Coming(c)' = got \o Coming(c)
    <3>1. Coming(cur)' = Coming(c)' /\ Coming(cur) = Coming(c)
      BY <2>1, <2>2 DEF Coming
    <3> QED BY <1>6, <2>1, <2>2, <3>1, ComingReceive
  <2>4. Coming(c) \in Seq(Nat) /\ Head(Coming(c)) \in Nat /\ Tail(Coming(c)) \in Seq(Nat)
    BY <2>3, ComingType, HeadTailProperties
  <2>5. got' \in Seq(Nat) /\ got' # <<>> /\ got'[Len(got')] = lastID'
    BY <1>4, <2>3, <2>4, AppendProperties
  <2>6. Line(got' \o Coming(c)', Snapshots, prod = "evt", total)
    BY <1>3, <2>1, <2>2, <2>3
  <2>7. Line(got', Snapshots, prod = "evt", total)
    BY <2>3, <2>4, <2>5, <2>6, LinePrefix
  <2> QED BY <2>1, <2>2, <2>5, <2>6, <2>7
<1>7. CASE EmitAppend
  <2>1. UNCHANGED <<got, lastID, snapshot, up, wire, pending, buf>> /\ total' = total + 1 /\ prod' = "evt"
        /\ Snapshots' = Snapshots
    BY <1>7 DEF EmitAppend, Snapshots, Conns
  <2>2. Line(got', Snapshots', prod' = "evt", total')
    BY <1>1, <1>3, <1>4, <2>1, LineEmit
  <2>3. ASSUME NEW c \in up' PROVE Line(got' \o Coming(c)', Snapshots', prod' = "evt", total')
    <3>1. Coming(c)' = Coming(c) /\ c \in up /\ c \in Conns
      BY <1>4, <2>1 DEF Coming
    <3>2. got \o Coming(c) \in Seq(Nat) /\ \A e \in ToSet(got \o Coming(c)) : e <= total
      BY <3>1, ComingType
    <3>3. Line(got \o Coming(c), Snapshots, TRUE, total + 1)
      BY <1>1, <1>3, <3>1, <3>2, LineEmit
    <3> QED BY <2>1, <3>1, <3>3
  <2> QED BY <1>3, <2>1, <2>2, <2>3
<1>8. CASE UNCHANGED <<got, lastID, total>> /\ (prod' = "evt" => prod = "evt") /\ ~Receive /\ ~EmitAppend
  <2>1. Line(got', Snapshots', prod' = "evt", total')
    BY <1>1, <1>3, <1>4, <1>8, LineKept
  <2>2. ASSUME NEW c \in up' PROVE Line(got' \o Coming(c)', Snapshots', prod' = "evt", total')
    <3>0. c \in Conns
      BY StepCases
    <3>1. CASE Connect /\ cur' = c
      <4>1. Coming(c)' = <<>>
        BY <3>0, <3>1, ComingConnect
      <4>2. got' \o Coming(c)' = got'
        BY <1>4, <1>8, <4>1, ConcatEmptySeq
      <4> QED BY <2>1, <4>2
    <3>2. ASSUME c \in up
          PROVE  /\ got \o Coming(c) \in Seq(Nat) /\ got \in Seq(Nat) /\ Coming(c) \in Seq(Nat)
                 /\ \A e \in ToSet(got \o Coming(c)) : e <= total
                 /\ Line(got \o Coming(c), Snapshots, prod = "evt", total)
                 /\ Line(got \o Coming(c), Snapshots', prod' = "evt", total')
      <4>1. /\ got \o Coming(c) \in Seq(Nat) /\ got \in Seq(Nat) /\ Coming(c) \in Seq(Nat)
            /\ \A e \in ToSet(got \o Coming(c)) : e <= total
        BY <3>0, ComingType
      <4>2. Line(got \o Coming(c), Snapshots, prod = "evt", total)
        BY <1>3, <3>2
      <4>3. Line(got \o Coming(c), Snapshots', prod' = "evt", total)
        BY <1>1, <1>8, <4>1, <4>2, LineKept
      <4> QED BY <1>8, <4>1, <4>2, <4>3
    <3>3. CASE c \in up /\ (SkipReplay(c) \/ Subscribe(c) \/ Idle(c))
      <4>1. Coming(c)' = Coming(c)
        BY <3>3 DEF SkipReplay, Subscribe, Idle, Coming
      <4> QED BY <1>8, <3>2, <3>3, <4>1
    <3>4. CASE c \in up /\ StoreFails(c)
      BY <1>2, <3>4 DEF StoreFails
    <3>5. CASE c \in up /\ EmitBroadcast
      <4>1. Broadcast(total) /\ UNCHANGED <<wire, pending>> /\ total \in 0 .. total /\ prod = "evt"
            /\ prod' # "evt" /\ Snapshots' = Snapshots
        BY <1>1, <3>5 DEF EmitBroadcast, Snapshots, Conns
      <4>2. Coming(c)' = Coming(c) \/ Coming(c)' = Append(Coming(c), total)
        BY <3>0, <4>1, ComingBroadcast
      <4>3. CASE Coming(c)' = Coming(c)
        BY <1>8, <3>2, <3>5, <4>3
      <4>4. CASE Coming(c)' = Append(Coming(c), total)
        <5>1. got \o Append(Coming(c), total) = Append(got \o Coming(c), total)
          BY <1>1, <3>2, <3>5, AppendToLast
        <5>2. Line(Append(got \o Coming(c), total), Snapshots, FALSE, total)
          BY <1>1, <3>2, <3>5, <4>1, LineNewest
        <5> QED BY <1>8, <4>1, <4>4, <5>1, <5>2
      <4> QED BY <4>2, <4>3, <4>4
    <3>6. CASE c \in up /\ Chatter
      <4>1. Broadcast(0) /\ UNCHANGED <<wire, pending>> /\ 0 \in 0 .. total
        BY <1>1, <3>6 DEF Chatter, EmitSignal, SubscribeHook, UnsubscribeHook
      <4>2. Coming(c)' = Coming(c) \/ Coming(c)' = Append(Coming(c), 0)
        BY <3>0, <4>1, ComingBroadcast
      <4>3. CASE Coming(c)' = Coming(c)
        BY <1>8, <3>2, <3>6, <4>3
      <4>4. CASE Coming(c)' = Append(Coming(c), 0)
        <5>1. got \o Append(Coming(c), 0) = Append(got \o Coming(c), 0)
          BY <3>2, <3>6, AppendToLast
        <5>2. Line(Append(got \o Coming(c), 0), Snapshots', prod' = "evt", total')
          BY <1>1, <1>8, <3>2, <3>6, LineMeta
        <5> QED BY <1>8, <4>4, <5>1, <5>2
      <4> QED BY <4>2, <4>3, <4>4
    <3>7. CASE c \in up /\ Forward(c) /\ Head(buf[c]) = 0
      <4>1. buf[c] # <<>> /\ Coming(c) = wire[c] \o buf[c] /\ Coming(c)' = wire[c] \o Tail(buf[c])
        BY <3>7, ComingForward
      <4>2. wire[c] \in Seq(Nat) /\ buf[c] \in Seq(Nat)
        <5>1. wire[c] \in Seq(0 .. total) /\ buf[c] \in Seq(0 .. total) /\ 0 .. total \subseteq Nat
          BY <3>0, ComingType
        <5> QED BY <5>1, SeqMonotonic
      <4> DEFINE s == got \o wire[c]
      <4>3. s \in Seq(Nat) /\ Tail(buf[c]) \in Seq(Nat)
        BY <1>4, <4>1, <4>2, ConcatProperties, HeadTailProperties
      <4>4. s \o buf[c] = got \o Coming(c) /\ s \o Tail(buf[c]) = got \o Coming(c)'
        <5>1. \A r, q, t \in Seq(Nat) : (r \o q) \o t = r \o (q \o t)
          BY ConcatAssociative, SMTT(60)
        <5>2. got \in Seq(Nat)
          BY <1>4
        <5>3. s \o buf[c] = got \o (wire[c] \o buf[c])
          BY <4>2, <5>1, <5>2
        <5>4. s \o Tail(buf[c]) = got \o (wire[c] \o Tail(buf[c]))
          BY <4>2, <4>3, <5>1, <5>2
        <5> QED BY <4>1, <5>3, <5>4
      <4> HIDE DEF s
      <4>5. Line(s \o Tail(buf[c]), Snapshots', prod' = "evt", total')
        BY <3>2, <3>7, <4>1, <4>2, <4>3, <4>4, LineDrop
      <4> QED BY <1>8, <4>4, <4>5
    <3>8. CASE c \in up /\ ReplayRead(c)
      <4>1. /\ snapshot'[c] = total /\ Coming(c)' = Missed(lastID) \o buf[c] /\ c \notin subs
            /\ lastID \in Nat
        BY <1>2, <3>8, ComingRead
      <4>2. total \in Snapshots'
        BY <3>0, <4>1, Lasting DEF Snapshots
      <4>3. buf[c] = <<>>
        BY <3>0, <4>1 DEF ConnInv, HandlerOK
      <4>4. /\ Missed(lastID) \in Seq(Events) /\ \A k \in ToSet(Missed(lastID)) : lastID < k
        <5>1. /\ Missed(lastID) \in Seq(Events)
              /\ \A k \in ToSet(Missed(lastID)) : k > lastID
          BY <4>1, MissedType
        <5>2. ToSet(Missed(lastID)) \subseteq Int
          <6>1. ToSet(Missed(lastID)) \subseteq Events
            BY <5>1 DEF ToSet
          <6> QED BY <6>1 DEF Events
        <5> QED BY <4>1, <5>1, <5>2
      <4>5. Missed(lastID) \in Seq(Nat) /\ Missed(lastID) \o <<>> = Missed(lastID)
        <5>1. Events \subseteq Nat
          BY DEF Events
        <5> QED BY <4>4, <5>1, SeqMonotonic, ConcatEmptySeq
      <4>6. \A i, j \in DOMAIN Missed(lastID) : i < j => Missed(lastID)[i] < Missed(lastID)[j]
        BY MissedIncreasing
      <4>7. \A e \in ToSet(got) : e <= lastID
        <5> SUFFICES ASSUME NEW i \in DOMAIN got PROVE got[i] <= lastID
          BY DEF ToSet
        <5>1. Len(got) \in Nat /\ DOMAIN got = 1 .. Len(got) /\ \A j \in DOMAIN got : got[j] \in Nat /\ got[j] # 0
          <6>1. Len(got) \in Nat /\ DOMAIN got = 1 .. Len(got) /\ \A j \in DOMAIN got : got[j] \in Events
            BY <1>4
          <6> QED BY <1>1, <6>1 DEF Events
        <5>2. lastID = got[Len(got)] /\ Len(got) \in DOMAIN got
          BY <1>3, <5>1
        <5>3. CASE i = Len(got)
          BY <5>1, <5>2, <5>3
        <5>4. CASE i < Len(got)
          BY <1>3, <5>1, <5>2, <5>4 DEF Line, Orderly
        <5> QED BY <5>1, <5>3, <5>4
      <4>8. Line(got \o Missed(lastID), Snapshots', prod' = "evt", total')
        BY <1>4, <1>8, <2>1, <4>1, <4>2, <4>4, <4>5, <4>6, <4>7, LineReplay
      <4> QED BY <1>8, <4>1, <4>3, <4>5, <4>8
    <3> QED BY <1>8, <3>1, <3>3, <3>4, <3>5, <3>6, <3>7, <3>8, StepCases
  <2> QED BY <1>3, <1>8, <2>1, <2>2
<1> QED BY <1>5, <1>6, <1>7, <1>8

-----------------------------------------------------------------------------
(* Nothing is lost without a cause.                                         *)

\* What is in s leaves nothing out that is not in E, up to h.
Answers(s, E, h) == Told(s, E) /\ 1 .. h \subseteq E \cup ToSet(s)

\* The more is settled, and the less is asked, the easier.
LEMMA AnswersMore ==
  ASSUME NEW s \in Seq(Nat), NEW E, NEW F, NEW h, Answers(s, E, h), E \subseteq F
  PROVE  Answers(s, F, h)
  BY DEF Answers, Told

\* What is settled stays so while no loss is taken back ...
LEMMA SettledGrows ==
  ASSUME TypeOK, ConnInv, BufInv, [Next]_vars, Received \subseteq Received', lost \subseteq lost'
  PROVE  Settled \subseteq Settled'
<1>1. /\ Causes' = Causes /\ total \in Nat /\ total' \in Nat /\ total <= total'
      /\ \A k \in 0 .. total : Wanted(k)' <=> Wanted(k)
  BY Lasting
<1>2. Events \subseteq Events' /\ Events \subseteq 0 .. total
  BY <1>1 DEF Events
<1> SUFFICES ASSUME NEW k \in Settled PROVE k \in Settled'
  OBVIOUS
<1>3. k \in Events /\ (k \in Received \/ ~Wanted(k) \/ LostBecause(k, Causes))
  BY DEF Settled
<1>4. LostBecause(k, Causes) => LostBecause(k, Causes)'
  BY <1>1 DEF LostBecause
<1>5. ~Wanted(k) => ~Wanted(k)'
  BY <1>1, <1>2, <1>3
<1> QED BY <1>2, <1>3, <1>4, <1>5 DEF Settled

\* ... as none is but by Connect.
LEMMA LossesStay ==
  ASSUME TypeOK, [Next]_vars
  PROVE  /\ Connect \/ lost \subseteq lost'
         /\ Receive \/ UNCHANGED <<got, lastID>>
<1> USE DEF replayVars, tabVars, prodVars
<1>1. Connect \/ lost \subseteq lost'
  BY DEF Next, Produce, EmitAppend, EmitBroadcast, EmitSignal, Receive, Disconnect, Quiet, vars,
     Handle, Replay, SkipReplay, ReplayRead, StoreFails, ReplaySend, ReplayFails,
     ReplayBanner, Subscribe, SubscribeHook, Forward, CtxDone, Unsubscribe, UnsubscribeHook, Broadcast
<1>2. Receive \/ UNCHANGED <<got, lastID>>
  BY DEF Next, Produce, EmitAppend, EmitBroadcast, EmitSignal, Connect, Disconnect, Quiet, vars,
     Handle, Replay, SkipReplay, ReplayRead, StoreFails, ReplaySend, ReplayFails,
     ReplayBanner, Subscribe, SubscribeHook, Forward, CtxDone, Unsubscribe, UnsubscribeHook
<1> QED BY <1>1, <1>2

\* NoUnexplainedLoss says that all up to the tab's last ID is settled.
LEMMA SettledUpTo == TypeOK => (NoUnexplainedLoss <=> 1 .. lastID \subseteq Settled)
<1> SUFFICES ASSUME TypeOK PROVE NoUnexplainedLoss <=> 1 .. lastID \subseteq Settled
  OBVIOUS
<1>1. 1 .. lastID \subseteq Events
  BY BoundsAssumption DEF TypeOK, Events
<1> QED BY <1>1 DEF NoUnexplainedLoss, Accounted, Settled

\* The tab receives an event after all the earlier ones.
LEMMA ReceiveSettles ==
  ASSUME TypeOK, ConnInv, BufInv, LossInv, [Next]_vars, Receive
  PROVE  /\ Settled \subseteq Settled' /\ 1 .. lastID' \subseteq Settled'
         /\ \A c \in up' : Answers(Coming(c)', Settled', Horizon(c))
<1>1. PICK c \in Conns : c = cur
  BY DEF Receive, TypeOK
<1>2. cur \in up /\ wire[cur] # <<>> /\ UNCHANGED <<up, cur, total, lost>> /\ up \subseteq {cur}
  BY DEF Receive, ConnInv, prodVars
<1>3. ~Unread(c)
  BY <1>1, <1>2 DEF ConnInv, HandlerOK
<1>4. /\ Coming(c) # <<>> /\ got' = Append(got, Head(Coming(c))) /\ lastID' = Head(Coming(c))
      /\ Coming(c)' = Tail(Coming(c)) /\ Head(Coming(c)) \in Events
  <2>1. Coming(cur)' = Coming(c)' /\ Coming(cur) = Coming(c)
    BY <1>1, <1>2 DEF Coming
  <2> QED BY <1>1, <2>1, ComingReceive
<1>5. Received' = Received \cup {Head(Coming(c))}
  <2>1. got \in Seq(Events)
    BY DEF TypeOK
  <2> QED BY <1>4, <2>1, ToSetAppend DEF Received
<1>6. Settled \cup {Head(Coming(c))} \subseteq Settled'
  <2>1. Settled \subseteq Settled'
    BY <1>2, <1>5, SettledGrows
  <2>2. Head(Coming(c)) \in Settled'
    <3>1. Events' = Events
      BY <1>2 DEF Events
    <3> QED BY <1>4, <1>5, <3>1 DEF Settled
  <2> QED BY <2>1, <2>2
<1>7. Told(Coming(c), Settled) /\ 1 .. Horizon(c) \subseteq Settled \cup ToSet(Coming(c))
  BY <1>1, <1>2, <1>3 DEF LossInv
<1>8. Coming(c) \in Seq(Nat)
  BY ComingType
<1>9. 1 .. lastID' \subseteq Settled' /\ Told(Tail(Coming(c)), Settled')
  BY <1>4, <1>6, <1>7, <1>8, ToldReceive
<1>10. ToSet(Coming(c)) = ToSet(Tail(Coming(c))) \cup {Head(Coming(c))}
  BY <1>4, <1>8, ToSetHeadTail
<1>11. Answers(Coming(c)', Settled', Horizon(c))
  BY <1>4, <1>6, <1>7, <1>9, <1>10 DEF Answers
<1>12. \A d \in up' : d = c
  BY <1>1, <1>2
<1> QED BY <1>6, <1>9, <1>11, <1>12

\* An event that is broadcast is put in the buffer, not wanted or recorded.
LEMMA BroadcastAnswers ==
  ASSUME TypeOK, ConnInv, BufInv, NEW c \in Conns, c = cur, Settled \subseteq Settled', [Next]_vars,
         Answers(Coming(c), Settled, Horizon(c)), EmitBroadcast
  PROVE  Answers(Coming(c)', Settled', Horizon(c)')
<1> USE DEF replayVars, tabVars, prodVars
<1>1. /\ prod = "evt" /\ Broadcast(total) /\ UNCHANGED <<recipe, total, alerts, subs, wire, pending, snapshot>>
      /\ prod' = "signal"
  BY DEF EmitBroadcast
<1>2. total \in Nat /\ Broadcasted \in Nat /\ Broadcasted = total - 1 /\ Broadcasted' = total
  BY <1>1, Lasting DEF Broadcasted
<1>3. total # 0 /\ total \in 0 .. total /\ total \in Events
  BY <1>2 DEF Events
<1>4. Coming(c) \in Seq(Nat)
  BY ComingType
<1>5. \/ Coming(c)' = Coming(c) /\ (c \in subs => ~Wanted(total) \/ ~HasRoom(c))
      \/ Coming(c)' = Append(Coming(c), total) /\ c \in subs
  BY <1>1, <1>3, ComingBroadcast
<1>6. CASE c \notin subs
  <2>1. Horizon(c)' = Horizon(c) /\ Coming(c)' = Coming(c)
    BY <1>1, <1>5, <1>6 DEF Horizon
  <2> QED BY <1>4, <2>1, AnswersMore
<1>7. CASE c \in subs
  <2>1. Horizon(c)' = total /\ Horizon(c) = total - 1 /\ 1 .. total = (1 .. total - 1) \cup {total}
    BY <1>1, <1>2, <1>3, <1>7 DEF Horizon
  <2>2. Told(Coming(c), Settled') /\ 1 .. total - 1 \subseteq Settled' \cup ToSet(Coming(c))
    BY <1>4, <2>1, AnswersMore DEF Answers
  <2>3. CASE Coming(c)' = Append(Coming(c), total)
    <3>1. ToSet(Append(Coming(c), total)) = ToSet(Coming(c)) \cup {total}
      BY <1>2, <1>4, ToSetAppend
    <3>2. Told(Append(Coming(c), total), Settled')
      BY <1>2, <1>4, <2>2, ToldAppend
    <3> QED BY <2>1, <2>2, <2>3, <3>1, <3>2 DEF Answers
  <2>4. CASE Coming(c)' = Coming(c) /\ (~Wanted(total) \/ ~HasRoom(c))
    <3>1. Causes' = Causes /\ "drop" \in Causes /\ Events' = Events
      BY <1>1, Lasting DEF Causes, Events
    <3>2. ASSUME Wanted(total) PROVE <<"drop", total>> \in lost'
      BY <1>1, <1>3, <1>7, <2>4, <3>2 DEF Broadcast
    <3>3. ~Wanted(total) => ~Wanted(total)'
      BY <1>1 DEF Wanted, AlertsOnly
    <3>4. total \in Settled'
      BY <1>1, <1>3, <3>1, <3>2, <3>3 DEF Settled, LostBecause
    <3> QED BY <2>1, <2>2, <2>4, <3>4 DEF Answers
  <2> QED BY <1>5, <1>7, <2>3, <2>4
<1> QED BY <1>6, <1>7

\* A message without an ID leaves nothing out.
LEMMA ChatterAnswers ==
  ASSUME TypeOK, ConnInv, BufInv, NEW c \in Conns, c \in up, Settled \subseteq Settled', [Next]_vars,
         Answers(Coming(c), Settled, Horizon(c)), Chatter
  PROVE  Answers(Coming(c)', Settled', Horizon(c)')
<1> USE DEF replayVars, tabVars, prodVars
<1>1. /\ Broadcast(0) /\ UNCHANGED <<total, subs, wire, pending, snapshot>>
      /\ prod' = prod \/ (prod = "signal" /\ prod' = "idle")
  BY DEF Chatter, EmitSignal, SubscribeHook, UnsubscribeHook
<1>2. Horizon(c)' = Horizon(c)
  BY <1>1 DEF Horizon, Broadcasted
<1>3. Coming(c) \in Seq(Nat) /\ 0 \in 0 .. total
  BY ComingType, Lasting
<1>4. Coming(c)' = Coming(c) \/ Coming(c)' = Append(Coming(c), 0)
  BY <1>1, <1>3, ComingBroadcast
<1>5. Answers(Coming(c), Settled', Horizon(c))
  BY <1>3, AnswersMore
<1>6. CASE Coming(c)' = Append(Coming(c), 0)
  <2>1. ToSet(Append(Coming(c), 0)) = ToSet(Coming(c)) \cup {0}
    BY <1>3, ToSetAppend
  <2>2. Told(Append(Coming(c), 0), Settled')
    BY <1>3, <1>5, ToldAppend DEF Answers
  <2> QED BY <1>2, <1>5, <1>6, <2>1, <2>2 DEF Answers
<1> QED BY <1>2, <1>4, <1>5, <1>6

\* Dropping one leaves nothing out either.
LEMMA ForwardAnswers ==
  ASSUME TypeOK, ConnInv, BufInv, NEW c \in up, Settled \subseteq Settled', [Next]_vars,
         Answers(Coming(c), Settled, Horizon(c)), Forward(c), Head(buf[c]) = 0
  PROVE  Answers(Coming(c)', Settled', Horizon(c)')
<1>1. c \in Conns /\ UNCHANGED <<total, prod, subs, snapshot>>
  BY DEF Forward, TypeOK, replayVars, prodVars
<1>2. Horizon(c)' = Horizon(c)
  BY <1>1 DEF Horizon, Broadcasted
<1>3. buf[c] # <<>> /\ Coming(c) = wire[c] \o buf[c] /\ Coming(c)' = wire[c] \o Tail(buf[c])
  BY ComingForward
<1>4. wire[c] \in Seq(Nat) /\ buf[c] \in Seq(Nat) /\ Coming(c) \in Seq(Nat)
  <2>1. wire[c] \in Seq(0 .. total) /\ buf[c] \in Seq(0 .. total) /\ 0 .. total \subseteq Nat /\ Coming(c) \in Seq(Nat)
    BY <1>1, ComingType
  <2> QED BY <2>1, SeqMonotonic
<1>5. Answers(wire[c] \o buf[c], Settled', Horizon(c))
  BY <1>3, <1>4, AnswersMore
<1>6. Told(wire[c] \o Tail(buf[c]), Settled')
  BY <1>3, <1>4, <1>5, ToldDrop DEF Answers
<1>7. ToSet(wire[c] \o buf[c]) = ToSet(wire[c] \o Tail(buf[c])) \cup {0}
  <2>1. Tail(buf[c]) \in Seq(Nat) /\ ToSet(buf[c]) = ToSet(Tail(buf[c])) \cup {0}
    BY <1>3, <1>4, HeadTailProperties, ToSetHeadTail
  <2>2. \A s, t \in Seq(Nat) : ToSet(s \o t) = ToSet(s) \cup ToSet(t)
    BY ToSetConcat
  <2>3. ToSet(wire[c] \o buf[c]) = ToSet(wire[c]) \cup ToSet(buf[c])
    BY <1>4, <2>2
  <2>4. ToSet(wire[c] \o Tail(buf[c])) = ToSet(wire[c]) \cup ToSet(Tail(buf[c]))
    BY <1>4, <2>1, <2>2
  <2> QED BY <2>1, <2>3, <2>4
<1>8. 0 \notin 1 .. Horizon(c)
  OBVIOUS
<1> QED BY <1>2, <1>3, <1>5, <1>6, <1>7, <1>8 DEF Answers

\* The replay, with what the store had to let go, covers all so far.
LEMMA ReadAnswers ==
  ASSUME TypeOK, StoreInv, ConnInv, BufInv, LossInv, NEW c \in up, c = cur, Settled \subseteq Settled',
         [Next]_vars, ReplayRead(c)
  PROVE  Answers(Coming(c)', Settled', Horizon(c)')
<1>1. /\ c \in Conns /\ snapshot'[c] = total /\ lastEventID[c] = lastID /\ lastID \in Nat
      /\ Coming(c)' = Missed(lastID) \o buf[c]
      /\ UNCHANGED <<total, prod, got, lastID, subs>>
  BY ComingRead
<1>2. /\ total \in Nat /\ Broadcasted \in Nat /\ Broadcasted <= total /\ Causes' = Causes
      /\ \A k \in 0 .. total : Wanted(k)' <=> Wanted(k)
  BY Lasting
<1>3. Events' = Events /\ Events = 1 .. total
  BY <1>1 DEF Events
<1>4. /\ Missed(lastID) \in Seq(Events)
      /\ \A k \in ToSet(store) : k > lastID => k \in ToSet(Missed(lastID)) \/ ~Wanted(k)
  BY <1>1, MissedType
<1>5. ASSUME NEW k \in 1 .. total PROVE k \in Settled' \cup ToSet(Missed(lastID))
  <2>1. CASE k <= lastID
    <3>1. k \in 1 .. lastID
      BY <1>1, <2>1
    <3> QED BY <3>1, SettledUpTo DEF LossInv
  <2>2. CASE ~(k <= lastID) /\ k \in ToSet(store)
    <3>1. k > lastID /\ k \in 0 .. total
      BY <1>1, <1>2, <2>2
    <3>2. k \in ToSet(Missed(lastID)) \/ ~Wanted(k)
      BY <1>4, <2>2, <3>1
    <3>3. ~Wanted(k) => ~Wanted(k)'
      BY <1>2, <3>1
    <3> QED BY <1>3, <3>2, <3>3 DEF Settled
  <2>3. CASE ~(k <= lastID) /\ k \notin ToSet(store)
    <3>1. k > lastID /\ k \in Events
      BY <1>1, <1>2, <1>3, <2>3
    <3>2. <<"evicted", k>> \in Evicted(c)
      BY <1>1, <2>3, <3>1 DEF Evicted
    <3>3. <<"evicted", k>> \in lost'
      BY <3>2 DEF ReplayRead
    <3>4. "evicted" \in Causes
      BY DEF Causes
    <3> QED BY <1>2, <1>3, <3>1, <3>3, <3>4 DEF Settled, LostBecause
  <2> QED BY <2>1, <2>2, <2>3
<1> DEFINE s == Missed(lastID)
<1>6. s \in Seq(Nat) /\ buf[c] \in Seq(Nat) /\ \A k \in ToSet(s) \cup ToSet(buf[c]) : k <= total
  <2>1. s \in Seq(0 .. total) /\ buf[c] \in Seq(0 .. total) /\ 0 .. total \subseteq Nat
    <3>1. Events \subseteq 0 .. total /\ 0 .. total \subseteq Nat
      BY <1>2, <1>3
    <3>2. s \in Seq(0 .. total)
      BY <1>4, <3>1, SeqMonotonic
    <3> QED BY <1>1, <3>1, <3>2, ComingType
  <2>2. \A t \in Seq(0 .. total) : \A k \in ToSet(t) : k <= total
    BY <1>2 DEF ToSet
  <2>3. s \in Seq(Nat) /\ buf[c] \in Seq(Nat)
    BY <2>1, SeqMonotonic
  <2> QED BY <2>1, <2>2, <2>3
<1>7. \A i, j \in DOMAIN s : i < j => s[i] < s[j]
  BY MissedIncreasing
<1> HIDE DEF s
<1>8. 1 .. total \subseteq Settled' \cup ToSet(s)
  BY <1>5 DEF s
<1>9. Told(s \o buf[c], Settled')
  BY <1>2, <1>6, <1>7, <1>8, ToldReplay
<1>10. ToSet(s) \subseteq ToSet(s \o buf[c])
  BY <1>6, ToSetConcat
<1>11. 1 .. Horizon(c)' \subseteq 1 .. total
  <2>1. Horizon(c)' = Broadcasted \/ Horizon(c)' = total
    BY <1>1 DEF Horizon, Broadcasted
  <2> QED BY <1>2, <2>1
<1> QED BY <1>1, <1>8, <1>9, <1>10, <1>11 DEF Answers, s

\* When the store fails, what is not in the buffer is recorded.
LEMMA StoreFailsAnswers ==
  ASSUME TypeOK, ConnInv, BufInv, LossInv, NEW c \in up, c = cur, Settled \subseteq Settled',
         [Next]_vars, StoreFails(c)
  PROVE  Answers(Coming(c)', Settled', Horizon(c)')
<1>1. pc[c] = "replay" /\ SubscribeFirst /\ Unread(c) /\ UNCHANGED <<total, prod, subs, wire, pending, buf, got>>
  BY DEF StoreFails, Unread, prodVars, replayVars, tabVars
<1>2. c \in Conns /\ Coming(c) = buf[c] /\ Coming(c)' = Coming(c)
  BY <1>1, ComingUnread DEF Coming
<1>3. c \in subs /\ lastEventID[c] = lastID
  BY <1>1, <1>2 DEF ConnInv, HandlerOK
<1>4. Horizon(c)' = Broadcasted
  BY <1>1, <1>3 DEF Horizon, Broadcasted
<1>5. /\ total \in Nat /\ Broadcasted \in Nat /\ Broadcasted <= total /\ Causes' = Causes /\ Events' = Events
      /\ lastID \in Nat
  <2>1. total \in Nat /\ Broadcasted \in Nat /\ Broadcasted <= total /\ Causes' = Causes
    BY Lasting
  <2>2. Events' = Events
    BY <1>1 DEF Events
  <2>3. lastID \in Nat
    BY <1>1 DEF TypeOK
  <2> QED BY <2>1, <2>2, <2>3
<1>6. "store" \in Causes
  BY <1>1 DEF Causes
<1>7. ASSUME NEW k \in 1 .. Broadcasted PROVE k \in Settled' \cup ToSet(buf[c])
  <2>1. CASE k <= lastID
    <3>1. k \in 1 .. lastID
      BY <1>5, <2>1
    <3> QED BY <3>1, SettledUpTo DEF LossInv
  <2>2. CASE ~(k <= lastID) /\ k \notin ToSet(buf[c])
    <3>1. k \in (lastID + 1) .. Broadcasted /\ k \in Events
      BY <1>5, <2>2 DEF Events
    <3>2. <<"store", k>> \in lost'
      BY <1>3, <2>2, <3>1 DEF StoreFails
    <3> QED BY <1>5, <1>6, <3>1, <3>2 DEF Settled, LostBecause
  <2> QED BY <2>1, <2>2
<1>8. buf[c] \in Seq(Nat)
  BY <1>2, ComingType
<1>9. \A i \in DOMAIN buf[c] : /\ buf[c][i] <= Broadcasted
                               /\ \A j \in DOMAIN buf[c] : i < j /\ buf[c][j] # 0 => buf[c][i] < buf[c][j]
  BY <1>2 DEF BufInv, InBuf
<1>10. 1 .. Broadcasted \subseteq Settled' \cup ToSet(buf[c])
  BY <1>7
<1>11. Told(buf[c], Settled')
  BY <1>5, <1>8, <1>9, <1>10, ToldBuffer
<1> QED BY <1>2, <1>4, <1>10, <1>11 DEF Answers

\* A handler that subscribes after the replay records what it has missed.
LEMMA SubscribeAnswers ==
  ASSUME TypeOK, ConnInv, BufInv, NEW c \in up, c = cur, Settled \subseteq Settled',
         [Next]_vars, Subscribe(c), ~SubscribeFirst, Answers(Coming(c), Settled, Horizon(c))
  PROVE  Answers(Coming(c)', Settled', Horizon(c)')
<1>1. /\ c \in Conns /\ pc[c] = "subscribe" /\ c \in subs'
      /\ UNCHANGED <<total, prod, wire, pending, buf>> /\ lost' = lost \cup Unreached(c)
  BY DEF Subscribe, TypeOK, prodVars, replayVars
<1>2. c \notin subs
  BY <1>1 DEF ConnInv, HandlerOK
<1>3. Coming(c)' = Coming(c) /\ Horizon(c)' = Broadcasted /\ Horizon(c) = snapshot[c]
  BY <1>1, <1>2 DEF Coming, Horizon, Broadcasted
<1>4. /\ total \in Nat /\ Broadcasted \in Nat /\ Broadcasted <= total /\ Causes' = Causes /\ Events' = Events
      /\ snapshot[c] \in Nat
  <2>1. total \in Nat /\ Broadcasted \in Nat /\ Broadcasted <= total /\ Causes' = Causes
    BY Lasting
  <2>2. Events' = Events
    BY <1>1 DEF Events
  <2>3. snapshot[c] \in Nat
    BY <1>1 DEF TypeOK
  <2> QED BY <2>1, <2>2, <2>3
<1>5. {"first", "gap"} \subseteq Causes
  BY DEF Causes
<1>6. Coming(c) \in Seq(Nat)
  BY <1>1, ComingType
<1>7. Answers(Coming(c), Settled', Horizon(c))
  BY <1>6, AnswersMore
<1>8. ASSUME NEW k \in 1 .. Broadcasted PROVE k \in Settled' \cup ToSet(Coming(c))
  <2>1. CASE k <= snapshot[c]
    <3>1. k \in 1 .. Horizon(c)
      BY <1>3, <1>4, <2>1
    <3> QED BY <1>7, <3>1 DEF Answers
  <2>2. CASE ~(k <= snapshot[c])
    <3>1. k \in Events /\ snapshot[c] < k /\ k <= Broadcasted
      BY <1>4, <2>2 DEF Events
    <3>2. <<IF lastEventID[c] = 0 THEN "first" ELSE "gap", k>> \in lost'
      BY <1>1, <3>1 DEF Unreached
    <3>3. \E x \in Causes' : <<x, k>> \in lost'
      BY <1>4, <1>5, <3>2
    <3> QED BY <1>4, <3>1, <3>3 DEF Settled, LostBecause
  <2> QED BY <2>1, <2>2
<1> QED BY <1>3, <1>7, <1>8 DEF Answers

\* Every step accounts for what the tab will not receive.
LEMMA NextLoss ==
  ASSUME TypeOK, TypeOK', StoreInv, ConnInv, ConnInv', BufInv, LossInv, [Next]_vars
  PROVE  LossInv'
<1> USE DEF replayVars, tabVars, prodVars
<1>1. /\ SubscribeFirst' = SubscribeFirst /\ Causes' = Causes /\ total \in Nat /\ total' \in Nat /\ total <= total'
      /\ \A k \in 0 .. total : Wanted(k)' <=> Wanted(k)
  BY Lasting
<1>2. 1 .. lastID \subseteq Settled
  BY SettledUpTo DEF LossInv
<1>3. Connect \/ Settled \subseteq Settled'
  <2>1. CASE Receive
    BY <2>1, ReceiveSettles
  <2>2. CASE UNCHANGED got /\ lost \subseteq lost'
    <3>1. Received' = Received
      BY <2>2 DEF Received
    <3> QED BY <2>2, <3>1, SettledGrows
  <2> QED BY <2>1, <2>2, LossesStay
<1>4. 1 .. lastID' \subseteq Settled'
  <2>1. CASE Receive
    BY <2>1, ReceiveSettles
  <2>2. CASE ~Receive /\ ~Connect
    <3>1. lastID' = lastID
      BY <2>2, LossesStay
    <3> QED BY <1>2, <1>3, <2>2, <3>1
  <2>3. CASE Connect
    <3>1. /\ UNCHANGED <<lastID, got, total, alerts, recipe>> /\ lost' = {l \in lost : l[2] <= lastID}
          /\ lastID \in Nat
      BY <2>3 DEF Connect, TypeOK
    <3>2. Received' = Received /\ Events' = Events
      BY <3>1 DEF Received, Events
    <3>3. ASSUME NEW k \in 1 .. lastID PROVE k \in Settled'
      <4>1. k \in Events /\ (k \in Received \/ ~Wanted(k) \/ \E x \in Causes : <<x, k>> \in lost)
        BY <1>2, <3>3 DEF Settled, LostBecause
      <4>2. ~Wanted(k) => ~Wanted(k)'
        BY <1>1, <4>1 DEF Events
      <4>3. \A x \in Causes : <<x, k>> \in lost => <<x, k>> \in lost'
        BY <3>1, <3>3
      <4> QED BY <1>1, <3>2, <4>1, <4>2, <4>3 DEF Settled, LostBecause
    <3> QED BY <3>1, <3>3
  <2> QED BY <2>1, <2>2, <2>3
<1>5. ASSUME NEW c \in up', ~Unread(c)' PROVE Answers(Coming(c)', Settled', Horizon(c)')
  <2>1. c \in Conns
    BY StepCases
  <2>2. ~(Connect /\ cur' = c)
    BY <1>5, <2>1, ComingConnect
  <2>3. c = cur /\ c \in up /\ ~Connect
    <3>1. c = cur /\ c \in up
      BY <2>2, StepCases
    <3>2. Connect => cur' # cur /\ up' \subseteq {cur'}
      BY DEF Connect, TypeOK, ConnInv
    <3> QED BY <3>1, <3>2
  <2>4. Settled \subseteq Settled'
    BY <1>3, <2>3
  <2>5. ~Unread(c) => Answers(Coming(c), Settled, Horizon(c)) /\ Answers(Coming(c), Settled', Horizon(c))
    <3>1. ~Unread(c) => Answers(Coming(c), Settled, Horizon(c))
      BY <2>3 DEF LossInv, Answers
    <3>2. Coming(c) \in Seq(Nat)
      BY <2>1, ComingType
    <3> QED BY <2>4, <3>1, <3>2, AnswersMore
  <2>6. CASE EmitAppend
    <3>1. UNCHANGED <<recipe, subs, pc, wire, pending, buf, snapshot>> /\ prod = "idle" /\ prod' = "evt"
          /\ total' = total + 1
      BY <2>6 DEF EmitAppend
    <3>2. Horizon(c)' = Horizon(c)
      BY <1>1, <3>1 DEF Horizon, Broadcasted
    <3>3. ~Unread(c) /\ Coming(c)' = Coming(c)
      BY <1>1, <1>5, <3>1 DEF Unread, Coming
    <3> QED BY <2>5, <3>2, <3>3
  <2>7. CASE EmitBroadcast
    <3>1. ~Unread(c)
      BY <1>1, <1>5, <2>7 DEF EmitBroadcast, Unread
    <3> QED BY <2>1, <2>3, <2>4, <2>5, <2>7, <3>1, BroadcastAnswers
  <2>8. CASE Chatter
    <3>1. pc[c] # "unhook" /\ pc \in [Conns -> HandlerPC]
      BY <2>1, <2>3 DEF ConnInv, HandlerOK, TypeOK
    <3>2. ~Unread(c)
      <4>1. CASE pc'[c] = pc[c]
        BY <1>1, <1>5, <4>1 DEF Unread
      <4>2. CASE SubscribeHook(c)
        <5>1. pc[c] \in {"hook1", "hook2"} /\ (SubscribeFirst => pc'[c] \in {"hook2", "replay"})
          BY <2>1, <3>1, <4>2 DEF SubscribeHook, AfterHook
        <5> QED BY <1>1, <1>5, <5>1 DEF Unread
      <4>3. pc'[c] = pc[c] \/ SubscribeHook(c)
        BY <2>1, <2>8, <3>1 DEF Chatter, EmitSignal, SubscribeHook, UnsubscribeHook
      <4> QED BY <4>1, <4>2, <4>3
    <3> QED BY <2>1, <2>3, <2>4, <2>5, <2>8, <3>2, ChatterAnswers
  <2>9. CASE Receive
    <3>1. Horizon(c)' = Horizon(c)
      BY <2>9 DEF Receive, Horizon, Broadcasted
    <3> QED BY <1>5, <2>9, <3>1, ReceiveSettles
  <2>10. CASE SkipReplay(c)
    <3>1. Unread(c) /\ pc[c] = "replay" /\ ~SubscribeFirst
          /\ UNCHANGED <<total, prod, subs, wire, pending, buf, snapshot>>
      BY <2>10 DEF SkipReplay, Unread
    <3>2. c \notin subs /\ snapshot[c] = 0
      BY <2>1, <3>1 DEF ConnInv, HandlerOK
    <3>3. Coming(c)' = <<>> /\ Horizon(c)' = 0
      BY <2>3, <3>1, <3>2, ComingUnread DEF Coming, Horizon
    <3> QED BY <3>3 DEF Answers, Told
  <2>11. CASE ReplayRead(c)
    BY <2>3, <2>4, <2>11, ReadAnswers
  <2>12. CASE StoreFails(c)
    BY <2>3, <2>4, <2>12, StoreFailsAnswers
  <2>13. CASE Subscribe(c)
    <3>1. pc[c] = "subscribe" /\ pc'[c] = "hook1"
      BY <2>1, <2>13 DEF Subscribe, TypeOK
    <3>2. ~SubscribeFirst /\ ~Unread(c)
      BY <1>1, <1>5, <3>1 DEF Unread
    <3> QED BY <2>3, <2>4, <2>5, <2>13, <3>2, SubscribeAnswers
  <2>14. CASE Forward(c) /\ Head(buf[c]) = 0
    <3>1. pc[c] = "loop" /\ ~Unread(c)
      BY <2>14 DEF Forward, Unread
    <3> QED BY <2>3, <2>4, <2>5, <2>14, <3>1, ForwardAnswers
  <2>15. CASE Idle(c)
    <3>1. ~Unread(c) /\ Coming(c)' = Coming(c) /\ Horizon(c)' = Horizon(c)
      BY <1>5, <2>15 DEF Idle, Horizon, Broadcasted
    <3> QED BY <2>5, <3>1
  <2> QED BY <2>2, <2>6, <2>7, <2>8, <2>9, <2>10, <2>11, <2>12, <2>13, <2>14, <2>15, StepCases
<1>6. NoUnexplainedLoss'
  <2>1. (NoUnexplainedLoss <=> 1 .. lastID \subseteq Settled)'
    BY SettledUpTo, PTL
  <2> QED BY <1>4, <2>1
<1> QED BY <1>5, <1>6 DEF LossInv, Answers

-----------------------------------------------------------------------------
(* The invariant and what follows from it.                                  *)

\* Before the first connection there is nothing to account for.
LEMMA InitTab == Init => TabInv
<1> SUFFICES ASSUME Init PROVE TabInv
  OBVIOUS
<1> USE DEF Init
<1>1. total = 0 /\ Events = {} /\ recipe \in Recipes /\ Opens \in 1 .. MaxConns /\ MaxConns \in Nat
  BY RecipeType DEF Events
<1>2. TypeOK
  <2>1. <<>> \in Seq(Events) /\ <<>> \in Seq(0 .. total) /\ Len(<<>>) = 0
    OBVIOUS
  <2>2. "none" \in HandlerPC
    BY DEF HandlerPC
  <2> QED BY <1>1, <2>1, <2>2, BoundsAssumption, SizeAssumption DEF TypeOK
<1>3. StoreInv
  BY DEF StoreInv
<1>4. ConnInv
  BY <1>1 DEF ConnInv, HandlerOK, Unread
<1>5. BufInv
  BY DEF BufInv, InBuf, Broadcasted
<1>6. WantedInv
  BY DEF WantedInv, Received, ToSet
<1>7. OrderInv
  BY DEF OrderInv, InLine, Orderly
<1>8. LossInv
  BY DEF LossInv, NoUnexplainedLoss, Accounted
<1> QED BY <1>2, <1>3, <1>4, <1>5, <1>6, <1>7, <1>8 DEF TabInv

\* Every step of the producer, of a handler, of the tab and of the network
\* preserves the invariant.
LEMMA NextTab == TabInv /\ [Next]_vars => TabInv'
<1> SUFFICES ASSUME TabInv, [Next]_vars PROVE TabInv'
  OBVIOUS
<1>1. TypeOK /\ StoreInv /\ ConnInv /\ BufInv /\ WantedInv /\ OrderInv /\ LossInv
  BY DEF TabInv
<1>2. \/ EmitAppend \/ EmitBroadcast \/ EmitSignal
      \/ \E n \in Conns : Handle(n)
      \/ Connect \/ Receive \/ Disconnect \/ UNCHANGED vars
  BY DEF Next, Produce, Quiet
<1>3. TypeOK'
  BY <1>1, <1>2, EmitType, HandleType, OutsideType
<1>4. StoreInv'
  <2>1. EmitAppend \/ UNCHANGED <<total, store>>
    BY <1>2 DEF EmitBroadcast, EmitSignal, Connect, Receive, Disconnect, vars, prodVars,
       Handle, Replay, SkipReplay, ReplayRead, StoreFails, ReplaySend, ReplayFails,
       ReplayBanner, Subscribe, SubscribeHook, Forward, CtxDone, Unsubscribe, UnsubscribeHook
  <2> QED BY <1>1, <2>1, NextStore
<1>5. ConnInv'
  BY <1>1, <1>2, HandleConn, OutsideConn DEF Produce
<1>6. BufInv'
  BY <1>1, NextBuf
<1>7. WantedInv'
  BY <1>1, NextWanted
<1>8. OrderInv'
  BY <1>1, <1>3, NextOrder
<1>9. LossInv'
  BY <1>1, <1>3, <1>5, NextLoss
<1> QED BY <1>3, <1>4, <1>5, <1>6, <1>7, <1>8, <1>9 DEF TabInv

\* The invariant of a tab that reconnects: the store holds the newest events;
\* a handler that has not read the store has written nothing; what is coming
\* on a connection that works is in order and leaves nothing out.
THEOREM TabInvariant == Spec => []TabInv
  BY InitTab, NextTab, PTL DEF Spec

\* The types, the size of the store and of the buffers.
THEOREM TypeCorrect == Spec => []TypeOK
<1>1. TabInv => TypeOK
  BY DEF TabInv
<1> QED BY <1>1, TabInvariant, PTL

\* A tab loses an event only for a known reason: it was over before the first
\* connection, it fell between the replay and the subscription, the store had
\* let it go, the buffer was full or the store failed.
THEOREM NeverLostUnexplained == Spec => []NoUnexplainedLoss
<1>1. TabInv => NoUnexplainedLoss
  BY DEF TabInv, LossInv
<1> QED BY <1>1, TabInvariant, PTL

\* A tab of the example's server receives events in order, and one a second
\* time only right after the first, if it was the newest in the store when the
\* tab reconnected.
THEOREM AlwaysOrderedAtMostTwice == Spec => []OrderedAtMostTwice
<1>1. TabInv => OrderedAtMostTwice
  <2> SUFFICES ASSUME TabInv, ~SubscribeFirst, NEW i \in DOMAIN got, NEW j \in DOMAIN got, i < j
               PROVE  \/ got[i] < got[j]
                      \/ got[i] = got[j] /\ j = i + 1 /\ \E n \in Conns : got[i] = snapshot[n]
    BY DEF OrderedAtMostTwice
  <2>1. got \in Seq(Events) /\ 0 \notin Events /\ Orderly(got, Snapshots)
    BY DEF TabInv, TypeOK, OrderInv, InLine, Events
  <2>2. Len(got) \in Nat /\ DOMAIN got = 1 .. Len(got) /\ \A m \in 1 .. Len(got) : got[m] \in Events
    BY <2>1
  <2>3. \A m \in DOMAIN got : got[m] # 0
    BY <2>1, <2>2
  <2>4. \/ got[i] < got[j]
        \/ got[i] = got[j] /\ got[i] \in Snapshots /\ \A m \in i + 1 .. j - 1 : got[m] = 0
    BY <2>1, <2>3 DEF Orderly
  <2>5. ASSUME \A m \in i + 1 .. j - 1 : got[m] = 0 PROVE j = i + 1
    <3>1. j # i + 1 => i + 1 \in i + 1 .. j - 1 /\ i + 1 \in DOMAIN got
      BY <2>2
    <3> QED BY <2>3, <2>5, <3>1
  <2> QED BY <2>4, <2>5 DEF Snapshots
<1> QED BY <1>1, TabInvariant, PTL

\* A tab that asks for alerts is sent another event only by a replay that does
\* not filter.
THEOREM AlwaysUnwantedOnlyReplayed == Spec => []UnwantedOnlyReplayed
<1>1. TabInv => UnwantedOnlyReplayed
  BY DEF TabInv, WantedInv, Replayed, UnwantedOnlyReplayed
<1> QED BY <1>1, TabInvariant, PTL
=============================================================================
