-------------------------- MODULE WireFormatProofs --------------------------
(***************************************************************************)
(* Proofs about the event-stream format, for texts of any length: what one *)
(* more line adds to what a text means, and that a stream of events means  *)
(* the events that were written to it.                                     *)
(***************************************************************************)
EXTENDS WireFormat, SequenceTheorems, Induction, TLAPS

-----------------------------------------------------------------------------
(* Pieces of sequences.                                                     *)

\* The first k elements.
LEMMA TakeIs ==
  ASSUME NEW S, NEW s \in Seq(S), NEW k \in 0 .. Len(s)
  PROVE  /\ Take(s, k) \in Seq(S) /\ Len(Take(s, k)) = k
         /\ \A i \in 1 .. k : Take(s, k)[i] = s[i]
  BY SubSeqProperties DEF Take

\* What follows them.
LEMMA FromIs ==
  ASSUME NEW S, NEW s \in Seq(S), NEW k \in 0 .. Len(s)
  PROVE  /\ From(s, k) \in Seq(S) /\ Len(From(s, k)) = Len(s) - k
         /\ \A i \in 1 .. (Len(s) - k) : From(s, k)[i] = s[k + i]
  BY SubSeqProperties DEF From

\* Two sequences with the same elements are the same.
LEMMA SameElements ==
  ASSUME NEW S, NEW s \in Seq(S), NEW t \in Seq(S), Len(s) = Len(t),
         \A i \in 1 .. Len(s) : s[i] = t[i]
  PROVE  s = t
  BY SeqEqual

\* Cutting a sequence in two loses nothing.
LEMMA TakeFrom ==
  ASSUME NEW S, NEW s \in Seq(S), NEW k \in 0 .. Len(s)
  PROVE  Take(s, k) \o From(s, k) = s
<1> DEFINE t == Take(s, k)
           f == From(s, k)
<1>1. t \in Seq(S) /\ Len(t) = k /\ (\A i \in 1 .. k : t[i] = s[i])
  BY TakeIs
<1>2. f \in Seq(S) /\ Len(f) = Len(s) - k /\ (\A i \in 1 .. (Len(s) - k) : f[i] = s[k + i])
  BY FromIs
<1> HIDE DEF t, f
<1>3. /\ t \o f \in Seq(S) /\ Len(t \o f) = Len(t) + Len(f)
      /\ \A i \in 1 .. Len(t) + Len(f) : (t \o f)[i] = IF i <= Len(t) THEN t[i] ELSE f[i - Len(t)]
  BY <1>1, <1>2, ConcatProperties
<1>4. Len(s) \in Nat /\ Len(t \o f) = Len(s)
  BY <1>1, <1>2, <1>3
<1>5. ASSUME NEW i \in 1 .. Len(s) PROVE (t \o f)[i] = s[i]
  <2>1. CASE i <= k
    BY <1>1, <1>3, <1>4, <2>1
  <2>2. CASE ~ (i <= k)
    <3>1. i - k \in 1 .. (Len(s) - k) /\ k + (i - k) = i
      BY <1>4, <2>2
    <3>2. f[i - k] = s[i]
      BY <1>2, <3>1
    <3> QED BY <1>1, <1>3, <1>4, <2>2, <3>2
  <2> QED BY <2>1, <2>2
<1>6. t \o f = s
  BY <1>3, <1>4, <1>5, SameElements
<1> QED BY <1>6 DEF t, f

\* Leaving out j elements and then k of the rest leaves out j + k.
LEMMA FromFrom ==
  ASSUME NEW S, NEW s \in Seq(S), NEW j \in 0 .. Len(s), NEW k \in 0 .. (Len(s) - j)
  PROVE  From(From(s, j), k) = From(s, j + k)
<1> DEFINE f == From(s, j)
           g == From(f, k)
           h == From(s, j + k)
<1>1. Len(s) \in Nat /\ j + k \in 0 .. Len(s)
  OBVIOUS
<1>2. f \in Seq(S) /\ Len(f) = Len(s) - j /\ (\A i \in 1 .. (Len(s) - j) : f[i] = s[j + i])
  BY FromIs
<1>3. /\ h \in Seq(S) /\ Len(h) = Len(s) - (j + k)
      /\ \A i \in 1 .. (Len(s) - (j + k)) : h[i] = s[(j + k) + i]
  BY <1>1, FromIs
<1> HIDE DEF f
<1>4. g \in Seq(S) /\ Len(g) = Len(f) - k /\ (\A i \in 1 .. (Len(f) - k) : g[i] = f[k + i])
  <2>1. k \in 0 .. Len(f)
    BY <1>2
  <2> QED BY <1>2, <2>1, FromIs, ZenonT(60)
<1> HIDE DEF g, h
<1>5. Len(g) = Len(h)
  BY <1>1, <1>2, <1>3, <1>4
<1>6. ASSUME NEW i \in 1 .. Len(g) PROVE g[i] = h[i]
  <2>1. k + i \in 1 .. (Len(s) - j) /\ i \in 1 .. (Len(f) - k) /\ i \in 1 .. (Len(s) - (j + k))
        /\ j + (k + i) = (j + k) + i
    BY <1>1, <1>2, <1>4
  <2> QED BY <1>2, <1>3, <1>4, <2>1
<1>7. g = h
  BY <1>3, <1>4, <1>5, <1>6, SameElements
<1> QED BY <1>7 DEF f, g, h

\* What follows the first k elements of s \o t, if s has as many.
LEMMA FromConcat ==
  ASSUME NEW S, NEW s \in Seq(S), NEW t \in Seq(S), NEW k \in 0 .. Len(s)
  PROVE  From(s \o t, k) = From(s, k) \o t
<1> DEFINE st == s \o t
           f == From(s, k)
           g == From(st, k)
           h == f \o t
<1>1. /\ st \in Seq(S) /\ Len(st) = Len(s) + Len(t) /\ Len(s) \in Nat /\ Len(t) \in Nat
      /\ \A i \in 1 .. Len(s) + Len(t) : st[i] = IF i <= Len(s) THEN s[i] ELSE t[i - Len(s)]
  BY ConcatProperties
<1>2. f \in Seq(S) /\ Len(f) = Len(s) - k /\ (\A i \in 1 .. (Len(s) - k) : f[i] = s[k + i])
  BY FromIs
<1> HIDE DEF st, f
<1>3. /\ h \in Seq(S) /\ Len(h) = Len(f) + Len(t)
      /\ \A i \in 1 .. Len(f) + Len(t) : h[i] = IF i <= Len(f) THEN f[i] ELSE t[i - Len(f)]
  BY <1>2, ConcatProperties
<1>4. k \in 0 .. Len(st)
  BY <1>1
<1>5. g \in Seq(S) /\ Len(g) = Len(st) - k /\ (\A i \in 1 .. (Len(st) - k) : g[i] = st[k + i])
  BY <1>1, <1>4, FromIs, ZenonT(60)
<1> HIDE DEF g, h
<1>6. Len(g) = Len(h)
  BY <1>1, <1>2, <1>3, <1>5
<1>7. ASSUME NEW i \in 1 .. Len(g) PROVE g[i] = h[i]
  <2>1. i \in 1 .. (Len(st) - k) /\ k + i \in 1 .. (Len(s) + Len(t)) /\ i \in 1 .. (Len(f) + Len(t))
    BY <1>1, <1>2, <1>5
  <2>2. g[i] = st[k + i]
    BY <1>5, <2>1
  <2>3. CASE i <= Len(f)
    <3>1. i \in 1 .. (Len(s) - k) /\ k + i <= Len(s)
      BY <1>1, <1>2, <2>1, <2>3
    <3>2. st[k + i] = s[k + i] /\ h[i] = f[i] /\ f[i] = s[k + i]
      BY <1>1, <1>2, <1>3, <2>1, <2>3, <3>1
    <3> QED BY <2>2, <3>2
  <2>4. CASE ~ (i <= Len(f))
    <3>1. ~ (k + i <= Len(s)) /\ (k + i) - Len(s) = i - Len(f)
      BY <1>1, <1>2, <2>1, <2>4
    <3>2. st[k + i] = t[(k + i) - Len(s)] /\ h[i] = t[i - Len(f)]
      BY <1>1, <1>3, <2>1, <2>4, <3>1
    <3> QED BY <2>2, <3>1, <3>2
  <2> QED BY <2>3, <2>4
<1>8. g = h
  BY <1>1, <1>3, <1>5, <1>6, <1>7, SameElements
<1> QED BY <1>8 DEF st, f, g, h

-----------------------------------------------------------------------------
(* Numbers.                                                                 *)

\* A sequence of digits denotes a number.
LEMMA DecimalIsNumber ==
  ASSUME NEW text \in Seq(Symbol), \A i \in DOMAIN text : text[i] \in Digits
  PROVE  Decimal(text) \in Nat
<1> DEFINE value == [d \in Digits |-> CASE d = "0" -> 0 [] d = "8" -> 8 [] d = "9" -> 9]
           v(k) == value[text[k]]
           Is(F, n) == F = [k \in 0 .. n |-> IF k = 0 THEN 0 ELSE 10 * F[k - 1] + v(k)]
           T == {n \in 0 .. Len(text) : \E F : Is(F, n)}
<1>0. Len(text) \in Nat /\ DOMAIN text = 1 .. Len(text)
  OBVIOUS
<1>1. \A k \in 1 .. Len(text) : v(k) \in Nat
  BY <1>0 DEF Digits
<1> HIDE DEF value
<1>2. 0 \in T
  <2>1. \E F : Is(F, 0)
    <3>1. Is([k \in 0 .. 0 |-> 0], 0)
      OBVIOUS
    <3> HIDE DEF Is
    <3> QED BY <3>1
  <2>2. 0 \in 0 .. Len(text)
    BY <1>0
  <2> HIDE DEF Is
  <2> QED BY <2>1, <2>2
<1>3. ASSUME NEW n \in 0 .. Len(text) - 1, n \in T PROVE n + 1 \in T
  <2>1. PICK F : Is(F, n)
    BY <1>3
  <2> DEFINE G == [k \in 0 .. n + 1 |-> IF k <= n THEN F[k] ELSE 10 * F[n] + v(n + 1)]
  <2>2. ASSUME NEW k \in 0 .. n + 1
        PROVE  G[k] = IF k = 0 THEN 0 ELSE 10 * G[k - 1] + v(k)
    <3>1. CASE k = 0
      BY <1>0, <2>1, <3>1
    <3>2. CASE k # 0 /\ k <= n
      <4>1. k - 1 \in 0 .. n + 1 /\ k - 1 <= n /\ k \in 0 .. n
        BY <1>0, <3>2
      <4>2. G[k] = F[k] /\ G[k - 1] = F[k - 1]
        BY <3>2, <4>1
      <4> HIDE DEF G
      <4> QED BY <2>1, <3>2, <4>1, <4>2
    <3>3. CASE k = n + 1
      <4>1. n \in 0 .. n + 1 /\ n <= n /\ ~ (n + 1 <= n) /\ k - 1 = n /\ k # 0
        BY <1>0, <3>3
      <4>2. G[k] = 10 * F[n] + v(k) /\ G[n] = F[n]
        BY <3>3, <4>1
      <4> HIDE DEF G
      <4> QED BY <4>1, <4>2
    <3> QED BY <1>0, <3>1, <3>2, <3>3
  <2>3. G = [k \in 0 .. n + 1 |-> IF k = 0 THEN 0 ELSE 10 * G[k - 1] + v(k)]
    BY <2>2
  <2>4. n + 1 \in 0 .. Len(text)
    BY <1>0
  <2> HIDE DEF G
  <2> QED BY <2>3, <2>4
<1>4. PICK F : Is(F, Len(text))
  <2>1. \A n \in 0 .. Len(text) : n \in T
    <3> HIDE DEF T
    <3> QED BY <1>0, <1>2, <1>3, InductionUpTo
  <2>2. Len(text) \in T
    <3>1. Len(text) \in 0 .. Len(text)
      BY <1>0
    <3> HIDE DEF T
    <3> QED BY <2>1, <3>1
  <2> HIDE DEF Is
  <2> QED BY <2>2
<1>5. PICK H : Is(H, Len(text)) /\ Decimal(text) = H[Len(text)]
  BY <1>4 DEF Decimal, value
<1> DEFINE U == {n \in 0 .. Len(text) : H[n] \in Nat}
<1>6. 0 \in U
  BY <1>0, <1>5
<1>7. ASSUME NEW n \in 0 .. Len(text) - 1, n \in U PROVE n + 1 \in U
  <2> DEFINE k == n + 1
  <2>1. k \in 0 .. Len(text) /\ k # 0 /\ k - 1 = n /\ v(k) \in Nat /\ H[n] \in Nat
    BY <1>0, <1>1, <1>7
  <2> HIDE DEF k
  <2>2. H[k] = 10 * H[k - 1] + v(k)
    BY <1>5, <2>1
  <2>3. H[k] \in Nat
    BY <2>1, <2>2
  <2> QED BY <2>1, <2>3 DEF k
<1>8. \A n \in 0 .. Len(text) : n \in U
  <2> HIDE DEF U
  <2> QED BY <1>0, <1>6, <1>7, InductionUpTo
<1> QED BY <1>0, <1>5, <1>8

-----------------------------------------------------------------------------
(* Members of a set in increasing order.                                    *)

\* The recursion of Ascending.
AscendingFun(F, S, n) ==
    F = [k \in 0 .. n |-> IF k = 0 THEN <<>>
                          ELSE IF k \in S THEN Append(F[k - 1], k) ELSE F[k - 1]]

\* A function that satisfies it exists.
LEMMA AscendingExists ==
  ASSUME NEW S, NEW n \in Nat
  PROVE  \E F : AscendingFun(F, S, n)
<1> DEFINE T == {m \in 0 .. n : \E F : AscendingFun(F, S, m)}
<1>1. 0 \in T
  <2>1. AscendingFun([k \in 0 .. 0 |-> <<>>], S, 0)
    BY DEF AscendingFun
  <2> QED BY <2>1
<1>2. ASSUME NEW m \in 0 .. n - 1, m \in T PROVE m + 1 \in T
  <2>1. PICK F : AscendingFun(F, S, m)
    BY <1>2
  <2> DEFINE G == [k \in 0 .. m + 1 |->
                     IF k <= m THEN F[k] ELSE IF m + 1 \in S THEN Append(F[m], m + 1) ELSE F[m]]
  <2>2. ASSUME NEW k \in 0 .. m + 1
        PROVE  G[k] = IF k = 0 THEN <<>> ELSE IF k \in S THEN Append(G[k - 1], k) ELSE G[k - 1]
    <3>1. CASE k = 0
      BY <2>1, <3>1 DEF AscendingFun
    <3>2. CASE k # 0 /\ k <= m
      <4>1. k - 1 \in 0 .. m + 1 /\ k - 1 <= m /\ k \in 0 .. m
        BY <3>2
      <4>2. G[k] = F[k] /\ G[k - 1] = F[k - 1]
        BY <3>2, <4>1
      <4> HIDE DEF G
      <4> QED BY <2>1, <3>2, <4>1, <4>2 DEF AscendingFun
    <3>3. CASE k = m + 1
      <4>1. m \in 0 .. m + 1 /\ m <= m /\ ~ (m + 1 <= m) /\ k - 1 = m /\ k # 0
        BY <3>3
      <4>2. G[k] = (IF k \in S THEN Append(F[m], k) ELSE F[m]) /\ G[m] = F[m]
        BY <3>3, <4>1
      <4> HIDE DEF G
      <4> QED BY <4>1, <4>2
    <3> QED BY <3>1, <3>2, <3>3
  <2>3. AscendingFun(G, S, m + 1)
    BY <2>2 DEF AscendingFun
  <2>4. m + 1 \in 0 .. n
    OBVIOUS
  <2> HIDE DEF G
  <2> QED BY <2>3, <2>4
<1>3. \A m \in 0 .. n : m \in T
  <2> HIDE DEF T
  <2> QED BY <1>1, <1>2, InductionUpTo
<1>4. n \in T
  <2> HIDE DEF T
  <2> QED BY <1>3
<1> QED BY <1>4

\* Two such functions agree as far as their sets do.
LEMMA AscendingSame ==
  ASSUME NEW S, NEW T, NEW n \in Nat, NEW m \in Nat, n <= m, \A k \in 1 .. n : k \in S <=> k \in T,
         NEW F, AscendingFun(F, S, n), NEW G, AscendingFun(G, T, m)
  PROVE  F[n] = G[n]
<1> DEFINE U == {k \in 0 .. n : F[k] = G[k]}
<1>1. 0 \in U
  BY DEF AscendingFun
<1>2. ASSUME NEW j \in 0 .. n - 1, j \in U PROVE j + 1 \in U
  <2> DEFINE k == j + 1
  <2>1. k \in 0 .. n /\ k \in 0 .. m /\ k # 0 /\ k - 1 = j /\ k \in 1 .. n /\ F[j] = G[j]
    BY <1>2
  <2> HIDE DEF k
  <2>2. F[k] = IF k \in S THEN Append(F[k - 1], k) ELSE F[k - 1]
    BY <2>1 DEF AscendingFun
  <2>3. G[k] = IF k \in T THEN Append(G[k - 1], k) ELSE G[k - 1]
    BY <2>1 DEF AscendingFun
  <2>4. F[k] = G[k]
    BY <2>1, <2>2, <2>3
  <2> QED BY <2>1, <2>4 DEF k
<1>3. \A k \in 0 .. n : k \in U
  <2> HIDE DEF U
  <2> QED BY <1>1, <1>2, InductionUpTo
<1> QED BY <1>3

\* Ascending is the value of such a function.
LEMMA AscendingValue ==
  ASSUME NEW S, NEW n \in Nat
  PROVE  \E F : AscendingFun(F, S, n) /\ Ascending(S, n) = F[n]
<1>1. PICK F : AscendingFun(F, S, n)
  BY AscendingExists
<1>2. F = [k \in 0 .. n |-> IF k = 0 THEN <<>>
                           ELSE IF k \in S THEN Append(F[k - 1], k) ELSE F[k - 1]]
  BY <1>1 DEF AscendingFun
<1>3. \E H : /\ H = [k \in 0 .. n |-> IF k = 0 THEN <<>>
                           ELSE IF k \in S THEN Append(H[k - 1], k) ELSE H[k - 1]]
             /\ Ascending(S, n) = H[n]
  BY <1>2 DEF Ascending
<1> QED BY <1>3 DEF AscendingFun

\* Sets that agree up to n have the same members up to n.
LEMMA AscendingAgree ==
  ASSUME NEW S, NEW T, NEW n \in Nat, \A k \in 1 .. n : k \in S <=> k \in T
  PROVE  Ascending(S, n) = Ascending(T, n)
<1>1. PICK F : AscendingFun(F, S, n) /\ Ascending(S, n) = F[n]
  BY AscendingValue
<1>2. PICK G : AscendingFun(G, T, n) /\ Ascending(T, n) = G[n]
  BY AscendingValue
<1>3. F[n] = G[n]
  BY <1>1, <1>2, AscendingSame
<1> QED BY <1>1, <1>2, <1>3

\* There are none up to 0.
LEMMA AscendingNone ==
  ASSUME NEW S
  PROVE  Ascending(S, 0) = <<>>
<1>1. PICK F : AscendingFun(F, S, 0) /\ Ascending(S, 0) = F[0]
  BY AscendingValue
<1> QED BY <1>1 DEF AscendingFun

\* One number more.
LEMMA AscendingStep ==
  ASSUME NEW S, NEW n \in Nat
  PROVE  Ascending(S, n + 1) = IF n + 1 \in S THEN Append(Ascending(S, n), n + 1) ELSE Ascending(S, n)
<1>1. PICK F : AscendingFun(F, S, n) /\ Ascending(S, n) = F[n]
  BY AscendingValue
<1> DEFINE m == n + 1
<1>2. m \in Nat /\ n <= m /\ m \in 0 .. m /\ m # 0 /\ m - 1 = n
  OBVIOUS
<1> HIDE DEF m
<1>3. PICK G : AscendingFun(G, S, m) /\ Ascending(S, m) = G[m]
  BY <1>2, AscendingValue
<1>4. F[n] = G[n]
  BY <1>1, <1>2, <1>3, AscendingSame
<1>5. G[m] = IF m \in S THEN Append(G[m - 1], m) ELSE G[m - 1]
  BY <1>2, <1>3 DEF AscendingFun
<1>6. Ascending(S, m) = IF m \in S THEN Append(Ascending(S, n), m) ELSE Ascending(S, n)
  BY <1>1, <1>2, <1>3, <1>4, <1>5
<1> QED BY <1>6 DEF m

\* Numbers that are not members add nothing.
LEMMA AscendingSkip ==
  ASSUME NEW S, NEW c \in Nat, NEW d \in Nat, c <= d, \A k \in (c + 1) .. d : k \notin S
  PROVE  Ascending(S, d) = Ascending(S, c)
<1> DEFINE T == {k \in 0 .. d : k >= c => Ascending(S, k) = Ascending(S, c)}
<1>1. 0 \in T
  BY Zenon, SMT
<1>2. ASSUME NEW k \in 0 .. d - 1, k \in T PROVE k + 1 \in T
  <2>1. k \in Nat /\ k + 1 \in 0 .. d
    OBVIOUS
  <2>2. CASE k + 1 <= c
    <3>1. k + 1 >= c => k + 1 = c
      BY <2>1, <2>2
    <3> QED BY <2>1, <3>1
  <2>3. CASE ~ (k + 1 <= c)
    <3>1. k >= c /\ k + 1 \in (c + 1) .. d
      BY <2>1, <2>3
    <3>2. Ascending(S, k + 1) = Ascending(S, k)
      BY <2>1, <3>1, AscendingStep
    <3> QED BY <1>2, <2>1, <3>1, <3>2
  <2> QED BY <2>2, <2>3
<1>3. \A k \in 0 .. d : k \in T
  <2> HIDE DEF T
  <2> QED BY <1>1, <1>2, InductionUpTo
<1> QED BY <1>3

\* What they are.
LEMMA AscendingMembers ==
  ASSUME NEW S, NEW n \in Nat
  PROVE  Ascending(S, n) \in Seq(S \cap (1 .. n))
<1> DEFINE M == S \cap (1 .. n)
           T == {k \in 0 .. n : Ascending(S, k) \in Seq(M)}
<1>1. 0 \in T
  <2>1. 0 \in 0 .. n /\ <<>> \in Seq(M)
    OBVIOUS
  <2>2. Ascending(S, 0) \in Seq(M)
    BY <2>1, AscendingNone
  <2> QED BY <2>1, <2>2
<1>2. ASSUME NEW k \in 0 .. n - 1, k \in T PROVE k + 1 \in T
  <2>1. k \in Nat /\ k + 1 \in 0 .. n /\ (k + 1 \in S => k + 1 \in M) /\ Ascending(S, k) \in Seq(M)
    BY <1>2
  <2> HIDE DEF M
  <2>2. Ascending(S, k + 1) \in Seq(M)
    <3>1. CASE k + 1 \in S
      <4>1. Ascending(S, k + 1) = Append(Ascending(S, k), k + 1)
        BY <2>1, <3>1, AscendingStep
      <4> QED BY <2>1, <3>1, <4>1, AppendProperties
    <3>2. CASE k + 1 \notin S
      BY <2>1, <3>2, AscendingStep
    <3> QED BY <3>1, <3>2
  <2> QED BY <2>1, <2>2
<1>3. \A k \in 0 .. n : k \in T
  <2> HIDE DEF T
  <2> QED BY <1>1, <1>2, InductionUpTo
<1>4. n \in T
  <2> HIDE DEF T
  <2> QED BY <1>3
<1> QED BY <1>4

\* Those up to c come first.
LEMMA AscendingPrefix ==
  ASSUME NEW S, NEW c \in Nat, NEW d \in Nat, c <= d
  PROVE  /\ Len(Ascending(S, c)) <= Len(Ascending(S, d))
         /\ \A i \in 1 .. Len(Ascending(S, c)) : Ascending(S, c)[i] = Ascending(S, d)[i]
<1> DEFINE A(k) == Ascending(S, k)
           Begins(k) == Len(A(c)) <= Len(A(k)) /\ \A i \in 1 .. Len(A(c)) : A(c)[i] = A(k)[i]
           T == {k \in 0 .. d : k >= c => Begins(k)}
<1>0. ASSUME NEW k \in Nat PROVE A(k) \in Seq(Nat) /\ Len(A(k)) \in Nat
  <2>1. A(k) \in Seq(S \cap (1 .. k))
    BY AscendingMembers
  <2>2. S \cap (1 .. k) \subseteq Nat
    OBVIOUS
  <2> HIDE DEF A
  <2> QED BY <2>1, <2>2, LenProperties
<1> HIDE DEF A
<1>1. ASSUME NEW k \in 0 .. d, k <= c PROVE k \in T
  <2>1. k >= c => k = c
    BY <1>1
  <2>2. Begins(c)
    BY <1>0
  <2> QED BY <2>1, <2>2
<1>2. 0 \in T
  BY <1>1
<1>3. ASSUME NEW k \in 0 .. d - 1, k \in T PROVE k + 1 \in T
  <2>1. k \in Nat /\ k + 1 \in 0 .. d
    OBVIOUS
  <2>2. CASE k + 1 <= c
    BY <1>1, <2>1, <2>2
  <2>3. CASE ~ (k + 1 <= c)
    <3>1. Begins(k)
      BY <1>3, <2>1, <2>3
    <3>2. A(k + 1) = A(k) \/ A(k + 1) = Append(A(k), k + 1)
      BY <2>1, AscendingStep DEF A
    <3>3. CASE A(k + 1) = Append(A(k), k + 1)
      <4>1. A(k) \in Seq(Nat) /\ Len(A(k)) \in Nat /\ Len(A(c)) \in Nat /\ k + 1 \in Nat
        BY <1>0, <2>1
      <4>2. /\ Len(A(k + 1)) = Len(A(k)) + 1
            /\ \A i \in 1 .. Len(A(k)) : A(k + 1)[i] = A(k)[i]
        BY <3>3, <4>1, AppendProperties, SMTT(60)
      <4>3. Begins(k + 1)
        BY <3>1, <4>1, <4>2
      <4> QED BY <2>1, <4>3
    <3> QED BY <2>1, <3>1, <3>2, <3>3
  <2> QED BY <2>2, <2>3
<1>4. \A k \in 0 .. d : k \in T
  <2> HIDE DEF T
  <2> QED BY <1>2, <1>3, InductionUpTo
<1>5. Begins(d)
  <2>1. d \in 0 .. d /\ d >= c
    OBVIOUS
  <2> QED BY <1>4, <2>1
<1> QED BY <1>5 DEF A

-----------------------------------------------------------------------------
(* What one more line adds to the meaning of a text.                        *)

\* q is where the line ends that begins after c.
NextEnd(T, c, q) ==
    /\ c \in {0} \cup LineEnds(T) /\ q \in LineEnds(T) /\ c < q
    /\ \A e \in LineEnds(T) : ~ (c < e /\ e < q)

\* Positions are numbers, from 1 to the length of the text.
LEMMA EndsAre ==
  ASSUME NEW T \in Seq(Symbol)
  PROVE  /\ LineEnds(T) \subseteq 1 .. Len(T) /\ LineEnds(T) \subseteq Nat /\ Len(T) \in Nat
         /\ \A q \in LineEnds(T) : T[q] \in EOL
  BY DEF LineEnds, EOL

\* Its line, and the lines up to it.
LEMMA NextLineIs ==
  ASSUME NEW T \in Seq(Symbol), NEW c, NEW q, NextEnd(T, c, q)
  PROVE  /\ c \in Nat /\ q \in Nat /\ q - 1 \in Nat /\ c <= q - 1 /\ c + 1 <= q
         /\ LineAt(T, q) = LineBetween(T, c, q)
         /\ LinesUpTo(T, q - 1) = LinesUpTo(T, c) /\ LinesUpTo(T, q) = LinesUpTo(T, c) \cup {q}
<1>1. LineEnds(T) \subseteq Nat
  BY EndsAre
<1>2. /\ c \in {0} \cup LineEnds(T) /\ q \in LineEnds(T) /\ c < q
      /\ \A e \in LineEnds(T) : ~ (c < e /\ e < q)
  BY DEF NextEnd
<1>3. c \in Nat /\ q \in Nat /\ q - 1 \in Nat /\ c <= q - 1 /\ c + 1 <= q
  BY <1>1, <1>2
<1>4. Max({0} \cup {p \in LineEnds(T) : p < q}) = c
  <2> DEFINE B == {0} \cup {p \in LineEnds(T) : p < q}
  <2>1. B \subseteq Nat /\ c \in B
    BY <1>1, <1>2
  <2>2. ASSUME NEW p \in B PROVE c >= p
    BY <1>1, <1>2, <1>3
  <2> HIDE DEF B
  <2>3. Max(B) = c
    BY <2>1, <2>2, MaxIs
  <2> QED BY <2>3 DEF B
<1>5. LineAt(T, q) = LineBetween(T, c, q)
  BY <1>4 DEF LineAt
<1>6. ASSUME NEW e \in LineEnds(T) PROVE (e <= q - 1 <=> e <= c) /\ (e <= q <=> e <= c \/ e = q)
  BY <1>1, <1>2, <1>3
<1>7. LinesUpTo(T, q - 1) = LinesUpTo(T, c)
  BY <1>6 DEF LinesUpTo
<1>8. LinesUpTo(T, q) = LinesUpTo(T, c) \cup {q}
  BY <1>2, <1>6 DEF LinesUpTo
<1> QED BY <1>3, <1>5, <1>7, <1>8

\* The frame that is open.
LEMMA NextOpen ==
  ASSUME NEW T \in Seq(Symbol), NEW c, NEW q, NextEnd(T, c, q)
  PROVE  /\ OpenAt(T, q - 1) = OpenAt(T, c)
         /\ OpenAt(T, q) = IF LineAt(T, q) = <<>> THEN {} ELSE OpenAt(T, c) \cup {q}
         /\ OpenAt(T, c) \subseteq LinesUpTo(T, c)
         /\ \A e \in LinesUpTo(T, c) : e \in 1 .. c /\ e < q
<1> DEFINE L == LinesUpTo(T, c)
<1>1. /\ c \in Nat /\ q \in Nat /\ q - 1 \in Nat /\ c <= q - 1
      /\ LinesUpTo(T, q - 1) = L /\ LinesUpTo(T, q) = L \cup {q}
  BY NextLineIs
<1>2. \A e \in L : e \in 1 .. c /\ e < q
  <2>1. LineEnds(T) \subseteq 1 .. Len(T) /\ Len(T) \in Nat
    BY EndsAre
  <2>2. ASSUME NEW e \in L PROVE e \in 1 .. c /\ e < q
    <3>1. e \in 1 .. Len(T) /\ e <= c
      BY <2>1 DEF LinesUpTo
    <3> QED BY <1>1, <2>1, <3>1
  <2> QED BY <2>2
<1> HIDE DEF L
<1>3. OpenAt(T, q - 1) = {e \in L : \A r \in L : r >= e => LineAt(T, r) # <<>>}
  BY <1>1 DEF OpenAt
<1>4. OpenAt(T, c) = {e \in L : \A r \in L : r >= e => LineAt(T, r) # <<>>}
  BY DEF OpenAt, L
<1>5. OpenAt(T, q) = {e \in L \cup {q} : \A r \in L \cup {q} : r >= e => LineAt(T, r) # <<>>}
  BY <1>1 DEF OpenAt
<1>6. \A e \in L : q >= e /\ ~ (e >= q)
  BY <1>1, <1>2
<1>7. q >= q
  BY <1>1
<1>8. OpenAt(T, q) = IF LineAt(T, q) = <<>> THEN {} ELSE OpenAt(T, c) \cup {q}
  <2>1. CASE LineAt(T, q) = <<>>
    BY <1>5, <1>6, <1>7, <2>1
  <2>2. CASE LineAt(T, q) # <<>>
    BY <1>4, <1>5, <1>6, <1>7, <2>2
  <2> QED BY <2>1, <2>2
<1> QED BY <1>2, <1>3, <1>4, <1>8 DEF L

\* The last of the lines in Q and a later one.
LEMMA LastValueIs ==
  ASSUME NEW T, NEW Q, NEW q \in Nat, \A e \in Q : e \in Nat /\ e < q
  PROVE  LastValue(T, Q \cup {q}) = ValueOf(LineAt(T, q))
<1>1. Max(Q \cup {q}) = q
  <2> DEFINE U == Q \cup {q}
  <2>1. U \subseteq Nat /\ q \in U /\ \A e \in U : q >= e
    OBVIOUS
  <2> HIDE DEF U
  <2>2. Max(U) = q
    BY <2>1, MaxIs
  <2> QED BY <2>2 DEF U
<1> QED BY <1>1 DEF LastValue

\* The type, the ID and the retry time that the next line leaves.
LEMMA NextValues ==
  ASSUME NEW T \in Seq(Symbol), NEW c, NEW q, NextEnd(T, c, q), NEW line, line = LineAt(T, q), NEW limit
  PROVE  /\ TypeAt(T, q - 1) = TypeAt(T, c) /\ IDAt(T, q - 1) = IDAt(T, c)
         /\ RetryAt(T, q - 1, limit) = RetryAt(T, c, limit)
         /\ TypeAt(T, q) = IF line = <<>> THEN Empty
                           ELSE IF IsField(line, "event:") THEN ValueOf(line) ELSE TypeAt(T, c)
         /\ IDAt(T, q) = IF ValidID(line) THEN ValueOf(line) ELSE IDAt(T, c)
         /\ RetryAt(T, q, limit) = IF ValidRetry(line, limit) THEN Decimal(ValueOf(line))
                                   ELSE RetryAt(T, c, limit)
<1>1. q \in Nat /\ LinesUpTo(T, q - 1) = LinesUpTo(T, c) /\ LinesUpTo(T, q) = LinesUpTo(T, c) \cup {q}
  BY NextLineIs
<1>2. /\ OpenAt(T, q - 1) = OpenAt(T, c)
      /\ OpenAt(T, q) = IF line = <<>> THEN {} ELSE OpenAt(T, c) \cup {q}
      /\ \A e \in LinesUpTo(T, c) : e \in Nat /\ e < q
      /\ OpenAt(T, c) \subseteq LinesUpTo(T, c)
  BY NextOpen
<1>3. /\ TypeAt(T, q - 1) = TypeAt(T, c) /\ IDAt(T, q - 1) = IDAt(T, c)
      /\ RetryAt(T, q - 1, limit) = RetryAt(T, c, limit)
  BY <1>1, <1>2 DEF TypeAt, IDAt, RetryAt
<1>4. TypeAt(T, q) = IF line = <<>> THEN Empty
                     ELSE IF IsField(line, "event:") THEN ValueOf(line) ELSE TypeAt(T, c)
  <2> DEFINE Q(n) == {e \in OpenAt(T, n) : IsField(LineAt(T, e), "event:")}
  <2>1. \A e \in Q(c) : e \in Nat /\ e < q
    BY <1>2
  <2>2. CASE line = <<>>
    <3>1. Q(q) = {}
      BY <1>2, <2>2
    <3> QED BY <2>2, <3>1 DEF TypeAt, LastValue
  <2>3. CASE line # <<>> /\ IsField(line, "event:")
    <3>1. Q(q) = Q(c) \cup {q}
      BY <1>2, <2>3
    <3> HIDE DEF Q
    <3>2. LastValue(T, Q(q)) = ValueOf(line)
      BY <1>1, <2>1, <3>1, LastValueIs, ZenonT(60)
    <3> QED BY <2>3, <3>2 DEF TypeAt, Q
  <2>4. CASE line # <<>> /\ ~ IsField(line, "event:")
    <3>1. Q(q) = Q(c)
      BY <1>2, <2>4
    <3> QED BY <2>4, <3>1 DEF TypeAt
  <2> QED BY <2>2, <2>3, <2>4
<1>5. IDAt(T, q) = IF ValidID(line) THEN ValueOf(line) ELSE IDAt(T, c)
  <2> DEFINE Q(n) == {e \in LinesUpTo(T, n) : ValidID(LineAt(T, e))}
  <2>1. \A e \in Q(c) : e \in Nat /\ e < q
    BY <1>2
  <2>2. CASE ValidID(line)
    <3>1. Q(q) = Q(c) \cup {q}
      BY <1>1, <2>2
    <3> HIDE DEF Q
    <3>2. LastValue(T, Q(q)) = ValueOf(line)
      BY <1>1, <2>1, <3>1, LastValueIs, ZenonT(60)
    <3> QED BY <2>2, <3>2 DEF IDAt, Q
  <2>3. CASE ~ ValidID(line)
    <3>1. Q(q) = Q(c)
      BY <1>1, <2>3
    <3> QED BY <2>3, <3>1 DEF IDAt
  <2> QED BY <2>2, <2>3
<1>6. RetryAt(T, q, limit) = IF ValidRetry(line, limit) THEN Decimal(ValueOf(line))
                             ELSE RetryAt(T, c, limit)
  <2> DEFINE Q(n) == {e \in LinesUpTo(T, n) : ValidRetry(LineAt(T, e), limit)}
  <2>1. \A e \in Q(c) : e \in Nat /\ e < q
    BY <1>2
  <2>2. CASE ValidRetry(line, limit)
    <3>1. Q(q) = Q(c) \cup {q}
      BY <1>1, <2>2
    <3> HIDE DEF Q
    <3>2. LastValue(T, Q(q)) = ValueOf(line)
      BY <1>1, <2>1, <3>1, LastValueIs, ZenonT(60)
    <3> QED BY <2>2, <3>2 DEF RetryAt, Q
  <2>3. CASE ~ ValidRetry(line, limit)
    <3>1. Q(q) = Q(c)
      BY <1>1, <2>3
    <3> QED BY <2>3, <3>1 DEF RetryAt
  <2> QED BY <2>2, <2>3
<1> QED BY <1>3, <1>4, <1>5, <1>6

\* Applying a function to every element, and to one more.
LEMMA MapAppend ==
  ASSUME NEW S, NEW s \in Seq(S), NEW q \in S, NEW V
  PROVE  [i \in DOMAIN Append(s, q) |-> V[Append(s, q)[i]]]
           = Append([i \in DOMAIN s |-> V[s[i]]], V[q])
<1> DEFINE R == {V[p] : p \in S}
           m == [i \in DOMAIN s |-> V[s[i]]]
           t == Append(s, q)
           u == [i \in DOMAIN t |-> V[t[i]]]
<1>1. Len(s) \in Nat /\ DOMAIN s = 1 .. Len(s) /\ \A i \in 1 .. Len(s) : s[i] \in S
  BY LenProperties, ElementOfSeq
<1>2. /\ t \in Seq(S) /\ Len(t) = Len(s) + 1 /\ DOMAIN t = 1 .. Len(s) + 1
      /\ \A i \in 1 .. Len(s) : t[i] = s[i]
      /\ t[Len(s) + 1] = q
  BY <1>1, AppendProperties
<1> HIDE DEF t
<1>3. m \in Seq(R) /\ Len(m) = Len(s) /\ \A i \in 1 .. Len(s) : m[i] = V[s[i]]
  <2>1. \A i \in 1 .. Len(s) : V[s[i]] \in R
    BY <1>1
  <2>2. m = [i \in 1 .. Len(s) |-> V[s[i]]]
    BY <1>1
  <2> HIDE DEF R, m
  <2> QED BY <1>1, <2>1, <2>2
<1>4. u \in Seq(R) /\ Len(u) = Len(s) + 1 /\ \A i \in 1 .. Len(s) + 1 : u[i] = V[t[i]]
  <2>1. \A i \in 1 .. Len(s) + 1 : t[i] \in S
    BY <1>1, <1>2, ElementOfSeq
  <2>2. \A i \in 1 .. Len(s) + 1 : V[t[i]] \in R
    BY <2>1
  <2>3. u = [i \in 1 .. Len(s) + 1 |-> V[t[i]]]
    BY <1>2
  <2>4. Len(s) + 1 \in Nat
    BY <1>1
  <2> DEFINE n == Len(s) + 1
  <2>5. n \in Nat /\ u = [i \in 1 .. n |-> V[t[i]]] /\ \A i \in 1 .. n : V[t[i]] \in R
    BY <2>2, <2>3, <2>4
  <2> HIDE DEF R, u, n
  <2>6. u \in Seq(R) /\ Len(u) = n /\ \A i \in 1 .. n : u[i] = V[t[i]]
    BY <2>5
  <2> QED BY <2>6 DEF n
<1>5. V[q] \in R
  OBVIOUS
<1> HIDE DEF R, m, u
<1>6. /\ Append(m, V[q]) \in Seq(R) /\ Len(Append(m, V[q])) = Len(s) + 1
      /\ \A i \in 1 .. Len(s) : Append(m, V[q])[i] = m[i]
      /\ Append(m, V[q])[Len(s) + 1] = V[q]
  BY <1>3, <1>5, AppendProperties
<1>7. ASSUME NEW i \in 1 .. Len(s) + 1 PROVE u[i] = Append(m, V[q])[i]
  <2>1. CASE i \in 1 .. Len(s)
    BY <1>2, <1>3, <1>4, <1>6, <2>1
  <2>2. CASE i = Len(s) + 1
    BY <1>2, <1>4, <1>6, <2>2
  <2>3. Len(s) \in Nat
    BY <1>1
  <2>4. i \in 1 .. Len(s) \/ i = Len(s) + 1
    BY <2>3
  <2> QED BY <2>1, <2>2, <2>4
<1>8. u = Append(m, V[q])
  BY <1>1, <1>4, <1>6, <1>7, SameElements
<1> QED BY <1>8 DEF u, m, t

\* The data that the next line leaves.
LEMMA NextData ==
  ASSUME NEW T \in Seq(Symbol), NEW c, NEW q, NextEnd(T, c, q), NEW line, line = LineAt(T, q)
  PROVE  /\ DataAt(T, q - 1) = DataAt(T, c)
         /\ DataAt(T, q) = IF line = <<>> THEN <<>>
                           ELSE IF IsField(line, "data:") THEN Append(DataAt(T, c), ValueOf(line))
                           ELSE DataAt(T, c)
<1> DEFINE Q(n) == {e \in OpenAt(T, n) : IsField(LineAt(T, e), "data:")}
           own(n) == Ascending(Q(n), n)
           V == [e \in Nat |-> ValueOf(LineAt(T, e))]
<1>1. c \in Nat /\ q \in Nat /\ q - 1 \in Nat /\ c <= q - 1 /\ c + 1 <= q /\ c <= q
  BY NextLineIs
<1>2. /\ OpenAt(T, q - 1) = OpenAt(T, c)
      /\ OpenAt(T, q) = IF line = <<>> THEN {} ELSE OpenAt(T, c) \cup {q}
      /\ \A e \in OpenAt(T, c) : e \in 1 .. c
  BY NextOpen
<1>3. Q(q - 1) = Q(c) /\ \A e \in Q(c) : e \in 1 .. c
  BY <1>2
<1>4. ASSUME NEW n \in Nat PROVE own(n) \in Seq(Nat) /\ DataAt(T, n) = [i \in DOMAIN own(n) |-> V[own(n)[i]]]
  <2> DEFINE o == own(n)
  <2>1. o \in Seq(Nat)
    <3>1. o \in Seq(Q(n) \cap (1 .. n))
      <4> HIDE DEF Q
      <4> QED BY AscendingMembers
    <3>2. Q(n) \cap (1 .. n) \subseteq Nat
      OBVIOUS
    <3> HIDE DEF o, Q
    <3> QED BY <3>1, <3>2
  <2>2. DataAt(T, n) = [i \in DOMAIN o |-> ValueOf(LineAt(T, o[i]))]
    BY DEF DataAt
  <2> HIDE DEF o
  <2>3. \A i \in DOMAIN o : V[o[i]] = ValueOf(LineAt(T, o[i]))
    BY <2>1
  <2>4. DataAt(T, n) = [i \in DOMAIN o |-> V[o[i]]]
    BY <2>2, <2>3
  <2> QED BY <2>1, <2>4 DEF o
<1> HIDE DEF V
<1>5. own(q - 1) = own(c)
  <2> DEFINE D == Q(c)
  <2>1. \A k \in (c + 1) .. (q - 1) : k \notin D
    BY <1>1, <1>3
  <2> HIDE DEF D
  <2>2. Ascending(D, q - 1) = Ascending(D, c)
    BY <1>1, <2>1, AscendingSkip
  <2>3. Q(q - 1) = D
    BY <1>3 DEF D
  <2> HIDE DEF Q
  <2> QED BY <2>2, <2>3 DEF D
<1>6. DataAt(T, q - 1) = DataAt(T, c)
  <2> HIDE DEF own
  <2> QED BY <1>1, <1>4, <1>5
<1>7. ASSUME \A e \in Q(q) : e \in 1 .. c, Q(q) = Q(c) PROVE DataAt(T, q) = DataAt(T, c)
  <2> DEFINE D == Q(c)
  <2>1. \A k \in (c + 1) .. q : k \notin D
    BY <1>1, <1>3
  <2> HIDE DEF D
  <2>2. Ascending(D, q) = Ascending(D, c)
    BY <1>1, <2>1, AscendingSkip
  <2>3. own(q) = own(c)
    <3> HIDE DEF Q
    <3> QED BY <1>7, <2>2 DEF D
  <2> HIDE DEF own
  <2> QED BY <1>1, <1>4, <2>3
<1>8. CASE line = <<>>
  <2>1. Q(q) = {}
    BY <1>2, <1>8
  <2>2. own(q) = <<>>
    <3>1. \A k \in (0 + 1) .. q : k \notin {}
      OBVIOUS
    <3>2. 0 \in Nat /\ 0 <= q
      BY <1>1
    <3>3. Ascending({}, q) = Ascending({}, 0)
      BY <1>1, <3>1, <3>2, AscendingSkip
    <3>4. Ascending({}, 0) = <<>>
      BY AscendingNone
    <3> HIDE DEF Q
    <3> QED BY <2>1, <3>3, <3>4
  <2>3. DataAt(T, q) = [i \in DOMAIN own(q) |-> V[own(q)[i]]]
    BY <1>1, <1>4
  <2>4. DataAt(T, q) = [i \in DOMAIN <<>> |-> V[(<<>>)[i]]]
    <3> HIDE DEF own
    <3> QED BY <2>2, <2>3
  <2>5. DataAt(T, q) = <<>>
    BY <2>4
  <2> QED BY <1>6, <1>8, <2>5
<1>9. CASE line # <<>> /\ IsField(line, "data:")
  <2>1. Q(q) = Q(c) \cup {q}
    BY <1>2, <1>9
  <2> DEFINE D == Q(q)
  <2>2. own(q) = Append(own(c), q)
    <3>1. q \in D /\ \A k \in 1 .. q - 1 : k \in D <=> k \in Q(c)
      BY <1>1, <2>1
    <3>2. Ascending(D, q) = Append(Ascending(D, q - 1), q)
      <4> DEFINE n == q - 1
      <4>1. n \in Nat /\ n + 1 = q
        BY <1>1
      <4> HIDE DEF n, D
      <4>2. Ascending(D, n + 1) = Append(Ascending(D, n), n + 1)
        BY <3>1, <4>1, AscendingStep
      <4> QED BY <4>1, <4>2 DEF n
    <3>3. Ascending(D, q - 1) = Ascending(Q(c), q - 1)
      <4> DEFINE C == Q(c)
      <4>1. \A k \in 1 .. q - 1 : k \in D <=> k \in C
        BY <3>1
      <4> HIDE DEF C, D
      <4>2. Ascending(D, q - 1) = Ascending(C, q - 1)
        BY <1>1, <4>1, AscendingAgree
      <4> QED BY <4>2 DEF C
    <3>4. Ascending(Q(c), q - 1) = own(c)
      <4> HIDE DEF Q
      <4> QED BY <1>3, <1>5
    <3> HIDE DEF Q
    <3> QED BY <3>2, <3>3, <3>4
  <2> DEFINE s == own(c)
  <2>3. /\ s \in Seq(Nat) /\ DataAt(T, c) = [i \in DOMAIN s |-> V[s[i]]]
        /\ DataAt(T, q) = [i \in DOMAIN Append(s, q) |-> V[Append(s, q)[i]]]
    <3> HIDE DEF own
    <3> QED BY <1>1, <1>4, <2>2 DEF s
  <2> HIDE DEF s
  <2>4. DataAt(T, q) = Append(DataAt(T, c), V[q])
    BY <1>1, <2>3, MapAppend
  <2>5. V[q] = ValueOf(line)
    BY <1>1 DEF V
  <2> QED BY <1>6, <1>9, <2>4, <2>5
<1>10. CASE line # <<>> /\ ~ IsField(line, "data:")
  <2>1. Q(q) = Q(c)
    BY <1>2, <1>10
  <2>2. DataAt(T, q) = DataAt(T, c)
    <3> HIDE DEF Q
    <3> QED BY <1>3, <1>7, <2>1
  <2> QED BY <1>6, <1>10, <2>2
<1> QED BY <1>8, <1>9, <1>10

\* The event that a blank line dispatches.
EventAt(s, n, limit) ==
    [type |-> TypeAt(s, n), data |-> DataAt(s, n), id |-> IDAt(s, n), retry |-> RetryAt(s, n, limit)]

\* The event that a blank line ending at e dispatches.
EventEnding(s, limit) == [e \in Nat |-> EventAt(s, e - 1, limit)]

\* The events that the blank lines ending there dispatch.
EventsEnding(s, limit, ends) == [k \in DOMAIN ends |-> EventEnding(s, limit)[ends[k]]]

\* The events up to a position are those of the blank lines that dispatch one.
LEMMA EventsAre ==
  ASSUME NEW T, NEW n \in Nat, NEW limit
  PROVE  /\ Ascending(Dispatching(T), n) \in Seq(Nat)
         /\ EventsUpTo(T, n, limit) = EventsEnding(T, limit, Ascending(Dispatching(T), n))
<1> DEFINE A == Ascending(Dispatching(T), n)
<1>1. A \in Seq(Nat)
  <2>1. A \in Seq(Dispatching(T) \cap (1 .. n))
    BY AscendingMembers
  <2>2. Dispatching(T) \cap (1 .. n) \subseteq Nat
    OBVIOUS
  <2> HIDE DEF A
  <2> QED BY <2>1, <2>2
<1>2. EventsUpTo(T, n, limit) = [k \in DOMAIN A |-> EventAt(T, A[k] - 1, limit)]
  BY DEF EventsUpTo, EventAt
<1> HIDE DEF A
<1>3. \A k \in DOMAIN A : EventEnding(T, limit)[A[k]] = EventAt(T, A[k] - 1, limit)
  BY <1>1 DEF EventEnding
<1>4. EventsUpTo(T, n, limit) = [k \in DOMAIN A |-> EventEnding(T, limit)[A[k]]]
  BY <1>2, <1>3
<1> QED BY <1>1, <1>4 DEF A, EventsEnding

\* Text without a line end adds no event.
LEMMA SameEvents ==
  ASSUME NEW T \in Seq(Symbol), NEW c \in Nat, NEW d \in Nat, c <= d, NEW limit,
         \A e \in (c + 1) .. d : e \notin LineEnds(T)
  PROVE  EventsUpTo(T, d, limit) = EventsUpTo(T, c, limit)
<1>1. \A e \in (c + 1) .. d : e \notin Dispatching(T)
  BY DEF Dispatching
<1>2. Ascending(Dispatching(T), d) = Ascending(Dispatching(T), c)
  BY <1>1, AscendingSkip
<1> QED BY <1>2 DEF EventsUpTo

\* The events that the next line leaves.
LEMMA NextEvents ==
  ASSUME NEW T \in Seq(Symbol), NEW c, NEW q, NextEnd(T, c, q), NEW limit
  PROVE  EventsUpTo(T, q, limit) =
           IF LineAt(T, q) = <<>> /\ DataAt(T, c) # <<>>
             THEN Append(EventsUpTo(T, c, limit), EventAt(T, c, limit))
             ELSE EventsUpTo(T, c, limit)
<1> DEFINE V == EventEnding(T, limit)
           D == Dispatching(T)
           A(n) == Ascending(D, n)
<1>1. c \in Nat /\ q \in Nat /\ q - 1 \in Nat /\ c <= q - 1 /\ (q - 1) + 1 = q
  BY NextLineIs
<1>2. /\ q \in LineEnds(T)
      /\ \A e \in LineEnds(T) : ~ (c < e /\ e < q)
  BY DEF NextEnd
<1>3. q \in D <=> LineAt(T, q) = <<>> /\ DataAt(T, c) # <<>>
  BY <1>2, NextData DEF Dispatching
<1>4. A(q - 1) = A(c)
  <2>1. \A e \in (c + 1) .. (q - 1) : e \notin D
    BY <1>1, <1>2 DEF Dispatching
  <2> HIDE DEF D
  <2> QED BY <1>1, <2>1, AscendingSkip
<1>5. A(q) = IF q \in D THEN Append(A(c), q) ELSE A(c)
  <2> DEFINE n == q - 1
  <2>1. n \in Nat /\ n + 1 = q /\ A(n) = A(c)
    BY <1>1, <1>4
  <2> HIDE DEF n, D
  <2>2. Ascending(D, n + 1) = IF n + 1 \in D THEN Append(Ascending(D, n), n + 1) ELSE Ascending(D, n)
    BY <2>1, AscendingStep
  <2> QED BY <2>1, <2>2
<1>6. ASSUME NEW n \in Nat
      PROVE  A(n) \in Seq(Nat) /\ EventsUpTo(T, n, limit) = EventsEnding(T, limit, A(n))
  BY EventsAre
<1>7. V[q] = EventAt(T, c, limit)
  <2>1. EventAt(T, q - 1, limit) = EventAt(T, c, limit)
    <3>1. /\ TypeAt(T, q - 1) = TypeAt(T, c) /\ IDAt(T, q - 1) = IDAt(T, c)
          /\ RetryAt(T, q - 1, limit) = RetryAt(T, c, limit)
      BY NextValues
    <3>2. DataAt(T, q - 1) = DataAt(T, c)
      BY NextData
    <3> QED BY <3>1, <3>2 DEF EventAt
  <2> QED BY <1>1, <2>1 DEF EventEnding
<1> HIDE DEF V, D
<1>8. CASE q \in D
  <2> DEFINE s == A(c)
  <2>1. /\ s \in Seq(Nat) /\ EventsUpTo(T, c, limit) = EventsEnding(T, limit, s)
        /\ EventsUpTo(T, q, limit) = EventsEnding(T, limit, Append(s, q))
    <3> HIDE DEF A
    <3> QED BY <1>1, <1>5, <1>6, <1>8 DEF s
  <2> HIDE DEF s
  <2>2. /\ EventsUpTo(T, c, limit) = [i \in DOMAIN s |-> V[s[i]]]
        /\ EventsUpTo(T, q, limit) = [i \in DOMAIN Append(s, q) |-> V[Append(s, q)[i]]]
    BY <2>1 DEF EventsEnding, V
  <2>3. EventsUpTo(T, q, limit) = Append(EventsUpTo(T, c, limit), V[q])
    BY <1>1, <2>1, <2>2, MapAppend
  <2> QED BY <1>3, <1>7, <1>8, <2>3
<1>9. CASE q \notin D
  <2>1. EventsUpTo(T, q, limit) = EventsUpTo(T, c, limit)
    <3> HIDE DEF A
    <3> QED BY <1>1, <1>5, <1>6, <1>9
  <2> QED BY <1>3, <1>9, <2>1
<1> QED BY <1>8, <1>9

\* No digits denote zero.
LEMMA DecimalOfNothing == Decimal(<<>>) = 0
<1> DEFINE value == [d \in Digits |-> CASE d = "0" -> 0 [] d = "8" -> 8 [] d = "9" -> 9]
           Is(F) == F = [k \in 0 .. Len(<<>>) |-> IF k = 0 THEN 0 ELSE 10 * F[k - 1] + value[(<<>>)[k]]]
<1>1. Len(<<>>) = 0
  OBVIOUS
<1> HIDE DEF value
<1>2. \E F : Is(F)
  <2>1. Is([k \in 0 .. 0 |-> 0])
    BY <1>1
  <2> HIDE DEF Is
  <2> QED BY <2>1
<1>3. PICK H : Is(H) /\ Decimal(<<>>) = H[Len(<<>>)]
  BY <1>2 DEF Decimal, value
<1> QED BY <1>1, <1>3

\* Before the first line there is nothing.
LEMMA NothingAtZero ==
  ASSUME NEW T \in Seq(Symbol), NEW limit
  PROVE  /\ EventsUpTo(T, 0, limit) = <<>> /\ TypeAt(T, 0) = Empty /\ DataAt(T, 0) = <<>>
         /\ IDAt(T, 0) = Empty /\ RetryAt(T, 0, limit) = 0
<1>1. LinesUpTo(T, 0) = {}
  BY EndsAre DEF LinesUpTo
<1>2. OpenAt(T, 0) = {}
  BY <1>1 DEF OpenAt
<1>3. TypeAt(T, 0) = Empty /\ IDAt(T, 0) = Empty
  BY <1>1, <1>2 DEF TypeAt, IDAt, LastValue
<1>4. RetryAt(T, 0, limit) = 0
  <2>1. RetryAt(T, 0, limit) = Decimal(<<>>)
    BY <1>1 DEF RetryAt, LastValue, Empty
  <2> QED BY <2>1, DecimalOfNothing
<1>5. ASSUME NEW S PROVE Ascending(S, 0) = <<>>
  BY AscendingNone
<1>6. DataAt(T, 0) = <<>>
  <2>1. DataAt(T, 0) = [i \in DOMAIN <<>> |-> ValueOf(LineAt(T, (<<>>)[i]))]
    BY <1>5 DEF DataAt
  <2> QED BY <2>1
<1>7. EventsUpTo(T, 0, limit) = <<>>
  <2>1. EventsUpTo(T, 0, limit) = [k \in DOMAIN <<>> |-> EventAt(T, (<<>>)[k] - 1, limit)]
    BY <1>5 DEF EventsUpTo, EventAt
  <2> QED BY <2>1
<1> QED BY <1>3, <1>4, <1>6, <1>7

-----------------------------------------------------------------------------
(* Texts that agree up to a position.                                       *)

\* Two texts with the same first n symbols, divided into lines alike up to
\* there.
SameUpTo(T, U, n) ==
    /\ n <= Len(T) /\ n <= Len(U)
    /\ \A i \in 1 .. n : T[i] = U[i] /\ (i \in LineEnds(T) <=> i \in LineEnds(U))

\* They have the same pieces up to there.
LEMMA SamePieces ==
  ASSUME NEW T \in Seq(Symbol), NEW U \in Seq(Symbol), NEW n \in Nat, n <= Len(T), n <= Len(U),
         \A i \in 1 .. n : T[i] = U[i], NEW a \in Nat, NEW b \in Nat, 1 <= a, b <= n
  PROVE  SubSeq(T, a, b) = SubSeq(U, a, b)
<1>1. CASE b < a
  BY <1>1, SubSeqEmpty
<1>2. CASE a <= b
  <2> DEFINE x == SubSeq(T, a, b)
             y == SubSeq(U, a, b)
  <2>1. /\ x \in Seq(Symbol) /\ y \in Seq(Symbol) /\ Len(x) = b - a + 1 /\ Len(y) = b - a + 1
        /\ \A i \in 1 .. b - a + 1 : x[i] = T[a + i - 1]
        /\ \A i \in 1 .. b - a + 1 : y[i] = U[a + i - 1]
    <3>1. a \in 1 .. Len(T) + 1 /\ b \in a - 1 .. Len(T) /\ a \in 1 .. Len(U) + 1 /\ b \in a - 1 .. Len(U)
      BY <1>2
    <3> QED BY <3>1, SubSeqProperties
  <2> HIDE DEF x, y
  <2>2. ASSUME NEW i \in 1 .. Len(x) PROVE x[i] = y[i]
    <3>1. a + i - 1 \in 1 .. n /\ i \in 1 .. b - a + 1
      BY <1>2, <2>1
    <3> QED BY <2>1, <3>1
  <2>3. x = y
    BY <2>1, <2>2, SameElements
  <2> QED BY <2>3 DEF x, y
<1> QED BY <1>1, <1>2

\* Where the line begins that ends at q.
LEMMA BeginIs ==
  ASSUME NEW T \in Seq(Symbol), NEW q \in Nat, q > 0
  PROVE  Max({0} \cup {p \in LineEnds(T) : p < q}) \in 0 .. q - 1
<1> DEFINE B == {0} \cup {p \in LineEnds(T) : p < q}
<1>1. B \subseteq 0 .. q - 1 /\ B # {} /\ q - 1 \in Nat
  BY EndsAre
<1> HIDE DEF B
<1>2. Max(B) \in B
  BY <1>1, MaxExists
<1>3. Max(B) \in 0 .. q - 1
  BY <1>1, <1>2
<1> QED BY <1>3 DEF B

\* They have the same lines.
LEMMA SameLines ==
  ASSUME NEW T \in Seq(Symbol), NEW U \in Seq(Symbol), NEW n \in Nat, SameUpTo(T, U, n)
  PROVE  /\ \A q \in 1 .. n : LineAt(T, q) = LineAt(U, q)
         /\ \A k \in 0 .. n : LinesUpTo(T, k) = LinesUpTo(U, k)
<1>1. /\ n <= Len(T) /\ n <= Len(U)
      /\ \A i \in 1 .. n : T[i] = U[i]
      /\ \A i \in 1 .. n : (i \in LineEnds(T) <=> i \in LineEnds(U))
  BY DEF SameUpTo
<1>2. LineEnds(T) \subseteq Nat \ {0} /\ LineEnds(U) \subseteq Nat \ {0}
  BY EndsAre
<1>3. ASSUME NEW q \in 1 .. n PROVE LineAt(T, q) = LineAt(U, q)
  <2> DEFINE B == {0} \cup {p \in LineEnds(T) : p < q}
             C == {0} \cup {p \in LineEnds(U) : p < q}
             b == Max(B)
  <2>1. B = C
    <3>1. ASSUME NEW p, p < q PROVE p \in LineEnds(T) <=> p \in LineEnds(U)
      <4>1. p \in Nat \ {0} => p \in 1 .. n
        BY <3>1
      <4> QED BY <1>1, <1>2, <4>1
    <3> QED BY <3>1
  <2>2. b \in 0 .. q - 1
    BY BeginIs
  <2>3. LineAt(T, q) = LineBetween(T, b, q) /\ LineAt(U, q) = LineBetween(U, b, q)
    BY <2>1 DEF LineAt
  <2> HIDE DEF B, C, b
  <2>4. q \in Nat /\ q <= n /\ q - 1 \in Nat /\ q - 1 <= n /\ b \in Nat /\ b + 1 \in Nat /\ 1 <= b + 1
    BY <2>2
  <2>5. T[q] = U[q] /\ (q > b + 1 => T[q - 1] = U[q - 1])
    <3>1. q > b + 1 => q - 1 \in 1 .. n
      BY <2>2
    <3> QED BY <1>1, <3>1
  <2>6. SubSeq(T, b + 1, q - 1) = SubSeq(U, b + 1, q - 1)
    BY <1>1, <2>4, SamePieces
  <2>7. q > b + 1 => SubSeq(T, b + 1, q - 2) = SubSeq(U, b + 1, q - 2)
    <3> SUFFICES ASSUME q > b + 1 PROVE SubSeq(T, b + 1, q - 2) = SubSeq(U, b + 1, q - 2)
      OBVIOUS
    <3>1. q - 2 \in Nat /\ q - 2 <= n
      BY <2>4
    <3> QED BY <1>1, <2>4, <3>1, SamePieces
  <2>8. LineBetween(T, b, q) = LineBetween(U, b, q)
    <3>1. CASE q > b + 1 /\ T[q] = LF /\ T[q - 1] = CR
      BY <2>5, <2>7, <3>1 DEF LineBetween
    <3>2. CASE ~ (q > b + 1 /\ T[q] = LF /\ T[q - 1] = CR)
      <4>1. ~ (q > b + 1 /\ U[q] = LF /\ U[q - 1] = CR)
        BY <2>5, <3>2
      <4> QED BY <2>6, <3>2, <4>1 DEF LineBetween
    <3> QED BY <3>1, <3>2
  <2> QED BY <2>3, <2>8
<1>4. ASSUME NEW k \in 0 .. n PROVE LinesUpTo(T, k) = LinesUpTo(U, k)
  <2>1. ASSUME NEW p, p <= k PROVE p \in LineEnds(T) <=> p \in LineEnds(U)
    <3>1. p \in Nat \ {0} => p \in 1 .. n
      BY <2>1
    <3> QED BY <1>1, <1>2, <3>1
  <2> QED BY <2>1 DEF LinesUpTo
<1> QED BY <1>3, <1>4

\* The same lines in both texts have the same last value.
LEMMA SameLastValue ==
  ASSUME NEW T, NEW U, NEW n \in Nat, \A q \in 1 .. n : LineAt(T, q) = LineAt(U, q),
         NEW Q, Q \subseteq 1 .. n
  PROVE  LastValue(T, Q) = LastValue(U, Q)
<1>1. CASE Q = {}
  BY <1>1 DEF LastValue
<1>2. CASE Q # {}
  <2>1. Q \subseteq 0 .. n
    OBVIOUS
  <2>2. Max(Q) \in Q
    BY <1>2, <2>1, MaxExists
  <2>3. LineAt(T, Max(Q)) = LineAt(U, Max(Q))
    BY <2>2
  <2> QED BY <1>2, <2>3 DEF LastValue
<1> QED BY <1>1, <1>2

\* They mean the same up to there.
LEMMA SameValues ==
  ASSUME NEW T \in Seq(Symbol), NEW U \in Seq(Symbol), NEW n \in Nat, SameUpTo(T, U, n),
         NEW k \in 0 .. n, NEW limit
  PROVE  /\ TypeAt(T, k) = TypeAt(U, k) /\ DataAt(T, k) = DataAt(U, k)
         /\ IDAt(T, k) = IDAt(U, k) /\ RetryAt(T, k, limit) = RetryAt(U, k, limit)
<1>1. /\ \A q \in 1 .. n : LineAt(T, q) = LineAt(U, q)
      /\ LinesUpTo(T, k) = LinesUpTo(U, k)
  BY SameLines
<1>2. LinesUpTo(T, k) \subseteq 1 .. n /\ LinesUpTo(T, k) \subseteq 1 .. k
  BY EndsAre DEF LinesUpTo
<1>3. OpenAt(T, k) = OpenAt(U, k) /\ OpenAt(T, k) \subseteq LinesUpTo(T, k)
  BY <1>1, <1>2 DEF OpenAt
<1>4. TypeAt(T, k) = TypeAt(U, k)
  <2> DEFINE Q == {q \in OpenAt(T, k) : IsField(LineAt(T, q), "event:")}
  <2>1. Q \subseteq 1 .. n /\ Q = {q \in OpenAt(U, k) : IsField(LineAt(U, q), "event:")}
    BY <1>1, <1>2, <1>3
  <2>2. TypeAt(T, k) = LastValue(T, Q) /\ TypeAt(U, k) = LastValue(U, Q)
    BY <2>1 DEF TypeAt
  <2> HIDE DEF Q
  <2> QED BY <1>1, <2>1, <2>2, SameLastValue
<1>5. IDAt(T, k) = IDAt(U, k)
  <2> DEFINE Q == {q \in LinesUpTo(T, k) : ValidID(LineAt(T, q))}
  <2>1. Q \subseteq 1 .. n /\ Q = {q \in LinesUpTo(U, k) : ValidID(LineAt(U, q))}
    BY <1>1, <1>2
  <2>2. IDAt(T, k) = LastValue(T, Q) /\ IDAt(U, k) = LastValue(U, Q)
    BY <2>1 DEF IDAt
  <2> HIDE DEF Q
  <2> QED BY <1>1, <2>1, <2>2, SameLastValue
<1>6. RetryAt(T, k, limit) = RetryAt(U, k, limit)
  <2> DEFINE Q == {q \in LinesUpTo(T, k) : ValidRetry(LineAt(T, q), limit)}
  <2>1. Q \subseteq 1 .. n /\ Q = {q \in LinesUpTo(U, k) : ValidRetry(LineAt(U, q), limit)}
    BY <1>1, <1>2
  <2>2. RetryAt(T, k, limit) = Decimal(LastValue(T, Q)) /\ RetryAt(U, k, limit) = Decimal(LastValue(U, Q))
    BY <2>1 DEF RetryAt
  <2> HIDE DEF Q
  <2>3. LastValue(T, Q) = LastValue(U, Q)
    BY <1>1, <2>1, SameLastValue
  <2> QED BY <2>2, <2>3
<1>7. DataAt(T, k) = DataAt(U, k)
  <2> DEFINE Q == {q \in OpenAt(T, k) : IsField(LineAt(T, q), "data:")}
             own == Ascending(Q, k)
  <2>1. Q = {q \in OpenAt(U, k) : IsField(LineAt(U, q), "data:")}
    BY <1>1, <1>2, <1>3
  <2>2. /\ DataAt(T, k) = [i \in DOMAIN own |-> ValueOf(LineAt(T, own[i]))]
        /\ DataAt(U, k) = [i \in DOMAIN own |-> ValueOf(LineAt(U, own[i]))]
    BY <2>1 DEF DataAt
  <2>3. own \in Seq(Q \cap (1 .. k))
    <3> HIDE DEF Q
    <3>1. k \in Nat
      OBVIOUS
    <3> QED BY <3>1, AscendingMembers
  <2> HIDE DEF own, Q
  <2>4. ASSUME NEW i \in DOMAIN own PROVE LineAt(T, own[i]) = LineAt(U, own[i])
    <3>1. own[i] \in 1 .. k
      BY <2>3, ElementOfSeq
    <3>2. own[i] \in 1 .. n
      BY <3>1
    <3> QED BY <1>1, <3>2
  <2>5. [i \in DOMAIN own |-> ValueOf(LineAt(T, own[i]))] = [i \in DOMAIN own |-> ValueOf(LineAt(U, own[i]))]
    BY <2>4
  <2> QED BY <2>2, <2>5
<1> QED BY <1>4, <1>5, <1>6, <1>7

\* They dispatch the same events up to there.
LEMMA SameEventsUpTo ==
  ASSUME NEW T \in Seq(Symbol), NEW U \in Seq(Symbol), NEW n \in Nat, SameUpTo(T, U, n), NEW limit
  PROVE  EventsUpTo(T, n, limit) = EventsUpTo(U, n, limit)
<1> DEFINE ends == Ascending(Dispatching(T), n)
<1>1. \A k \in 1 .. n : k \in Dispatching(T) <=> k \in Dispatching(U)
  <2> SUFFICES ASSUME NEW k \in 1 .. n PROVE k \in Dispatching(T) <=> k \in Dispatching(U)
    OBVIOUS
  <2>1. LineAt(T, k) = LineAt(U, k)
    BY SameLines
  <2>2. DataAt(T, k - 1) = DataAt(U, k - 1)
    <3>1. k - 1 \in 0 .. n
      OBVIOUS
    <3> QED BY <3>1, SameValues
  <2>3. k \in LineEnds(T) <=> k \in LineEnds(U)
    BY DEF SameUpTo
  <2> QED BY <2>1, <2>2, <2>3 DEF Dispatching
<1>2. Ascending(Dispatching(U), n) = ends
  BY <1>1, AscendingAgree
<1>3. ends \in Seq(Dispatching(T) \cap (1 .. n))
  BY AscendingMembers
<1>4. /\ EventsUpTo(T, n, limit) = EventsEnding(T, limit, ends)
      /\ EventsUpTo(U, n, limit) = EventsEnding(U, limit, ends)
  BY <1>2, EventsAre
<1> HIDE DEF ends
<1>5. ASSUME NEW i \in DOMAIN ends
      PROVE  EventEnding(T, limit)[ends[i]] = EventEnding(U, limit)[ends[i]]
  <2>1. ends[i] \in 1 .. n
    BY <1>3, ElementOfSeq
  <2>2. ends[i] - 1 \in 0 .. n /\ ends[i] \in Nat
    BY <2>1
  <2>3. EventAt(T, ends[i] - 1, limit) = EventAt(U, ends[i] - 1, limit)
    BY <2>2, SameValues DEF EventAt
  <2> QED BY <2>2, <2>3 DEF EventEnding
<1>6. EventsEnding(T, limit, ends) = EventsEnding(U, limit, ends)
  BY <1>5 DEF EventsEnding
<1> QED BY <1>4, <1>6

-----------------------------------------------------------------------------
(* What a text says, and a line added to it.                                *)

\* A piece of a sequence.
LEMMA PieceIs ==
  ASSUME NEW S, NEW s \in Seq(S), NEW a \in Nat, NEW b \in Nat, 1 <= a, a - 1 <= b, b <= Len(s)
  PROVE  /\ SubSeq(s, a, b) \in Seq(S) /\ Len(SubSeq(s, a, b)) = b - a + 1
         /\ \A i \in 1 .. b - a + 1 : SubSeq(s, a, b)[i] = s[a + i - 1]
<1>1. \A i \in a .. b : s[i] \in S
  OBVIOUS
<1>2. a \in Int /\ b \in Int
  OBVIOUS
<1>3. /\ SubSeq(s, a, b) \in Seq(S) /\ Len(SubSeq(s, a, b)) = IF a <= b THEN b - a + 1 ELSE 0
      /\ \A i \in 1 .. b - a + 1 : SubSeq(s, a, b)[i] = s[a + i - 1]
  BY <1>1, <1>2, SubSeqProperties
<1>4. ~ (a <= b) => b - a + 1 = 0
  OBVIOUS
<1> QED BY <1>3, <1>4

\* A text that is empty or ends in a line feed.
Settled(T) == T \in Seq(Symbol) /\ (T = <<>> \/ T[Len(T)] = LF)

\* A text without a line break.
OneLine(x) == x \in Seq(Symbol) /\ \A i \in 1 .. Len(x) : x[i] \notin EOL

\* A line added to such a text changes nothing before it.
LEMMA LineAdded ==
  ASSUME NEW T, Settled(T), NEW x, OneLine(x), NEW U, U = (T \o x) \o <<LF>>
  PROVE  /\ Settled(U) /\ SameUpTo(T, U, Len(T))
         /\ NextEnd(U, Len(T), Len(U)) /\ LineAt(U, Len(U)) = x
<1> DEFINE n == Len(T)
           l == Len(x)
           m == n + l + 1
<1>1. T \in Seq(Symbol) /\ x \in Seq(Symbol) /\ <<LF>> \in Seq(Symbol)
  <2>1. LF \in Symbol
    BY DEF Symbol, EOL
  <2> QED BY <2>1 DEF Settled, OneLine
<1>2. n \in Nat /\ l \in Nat /\ m \in Nat /\ m - 1 = n + l /\ n < m /\ n <= m
  BY <1>1
<1>3. /\ U \in Seq(Symbol) /\ Len(U) = m
      /\ \A i \in 1 .. n : U[i] = T[i]
      /\ \A i \in 1 .. l : U[n + i] = x[i]
      /\ U[m] = LF
  <2> DEFINE y == T \o x
  <2>1. /\ y \in Seq(Symbol) /\ Len(y) = n + l
        /\ \A i \in 1 .. n + l : y[i] = IF i <= n THEN T[i] ELSE x[i - n]
    BY <1>1, ConcatProperties
  <2> HIDE DEF y
  <2>2. /\ y \o <<LF>> \in Seq(Symbol) /\ Len(y \o <<LF>>) = Len(y) + 1
        /\ \A i \in 1 .. Len(y) + 1 : (y \o <<LF>>)[i] = IF i <= Len(y) THEN y[i] ELSE <<LF>>[i - Len(y)]
    <3>1. Len(<<LF>>) = 1
      OBVIOUS
    <3> QED BY <1>1, <2>1, <3>1, ConcatProperties
  <2>3. U = y \o <<LF>>
    BY DEF y
  <2>4. U \in Seq(Symbol) /\ Len(U) = m
    BY <1>2, <2>1, <2>2, <2>3
  <2>5. ASSUME NEW i \in 1 .. n + l PROVE U[i] = y[i]
    <3>1. i \in 1 .. Len(y) + 1 /\ i <= Len(y)
      BY <1>2, <2>1
    <3> QED BY <2>2, <2>3, <3>1
  <2>6. ASSUME NEW i \in 1 .. n PROVE U[i] = T[i]
    <3>1. i \in 1 .. n + l /\ i <= n
      BY <1>2
    <3> QED BY <2>1, <2>5, <3>1
  <2>7. ASSUME NEW i \in 1 .. l PROVE U[n + i] = x[i]
    <3>1. n + i \in 1 .. n + l /\ ~ (n + i <= n) /\ (n + i) - n = i
      BY <1>2
    <3> QED BY <2>1, <2>5, <3>1
  <2>8. U[m] = LF
    <3>1. m \in 1 .. Len(y) + 1 /\ ~ (m <= Len(y)) /\ m - Len(y) = 1
      BY <1>2, <2>1
    <3>2. U[m] = <<LF>>[1]
      BY <2>2, <2>3, <3>1
    <3> QED BY <3>2
  <2> QED BY <2>4, <2>6, <2>7, <2>8
<1>4. \A i \in 1 .. l : x[i] # LF /\ x[i] # CR
  BY DEF OneLine, EOL
<1>5. T = <<>> \/ T[n] = LF
  BY DEF Settled
<1> HIDE DEF n, l, m
<1>6. LF # CR
  BY DEF LF, CR
<1>7. ASSUME NEW i \in 1 .. n
      PROVE  T[i] = U[i] /\ (i \in LineEnds(T) <=> i \in LineEnds(U))
  <2>1. i \in DOMAIN T /\ i \in DOMAIN U /\ T[i] = U[i] /\ i < Len(U)
    BY <1>1, <1>2, <1>3 DEF n
  <2>2. CASE i = n
    <3>1. T[i] = LF
      <4>1. T # <<>>
        BY <1>1, <2>1
      <4> QED BY <1>5, <2>2, <4>1
    <3> QED BY <2>1, <3>1 DEF LineEnds
  <2>3. CASE i # n
    <3>1. i + 1 \in 1 .. n /\ i < n /\ n = Len(T)
      BY <1>2, <2>3 DEF n
    <3>2. T[i + 1] = U[i + 1]
      BY <1>3, <3>1
    <3> QED BY <2>1, <3>1, <3>2 DEF LineEnds
  <2> QED BY <2>2, <2>3
<1>8. SameUpTo(T, U, n)
  <2>1. n <= Len(T) /\ n <= Len(U)
    BY <1>2, <1>3 DEF n
  <2> QED BY <1>7, <2>1 DEF SameUpTo
<1>9. m \in LineEnds(U)
  BY <1>2, <1>3 DEF LineEnds
<1>10. ASSUME NEW e \in LineEnds(U), n < e, e < m PROVE FALSE
  <2>1. e \in Nat /\ U[e] \in EOL
    BY <1>3, EndsAre
  <2>2. e - n \in 1 .. l /\ n + (e - n) = e
    BY <1>2, <1>10, <2>1
  <2>3. U[e] = x[e - n]
    BY <1>3, <2>2
  <2> QED BY <1>4, <2>1, <2>2, <2>3 DEF EOL
<1>11. n \in {0} \cup LineEnds(U)
  <2>1. CASE n = 0
    BY <2>1
  <2>2. CASE n # 0
    <3>1. n \in 1 .. n /\ T # <<>> /\ n \in DOMAIN T
      BY <1>1, <1>2, <2>2 DEF n
    <3>2. n \in LineEnds(T)
      BY <1>5, <3>1 DEF LineEnds
    <3> QED BY <1>7, <3>1, <3>2
  <2> QED BY <2>1, <2>2
<1>12. NextEnd(U, n, m)
  BY <1>2, <1>9, <1>10, <1>11 DEF NextEnd
<1>13. LineAt(U, m) = LineBetween(U, n, m)
  <2>1. U \in Seq(Symbol)
    BY <1>3
  <2> QED BY <1>12, <2>1, NextLineIs
<1>14. ~ (m > n + 1 /\ U[m - 1] = CR)
  <2> SUFFICES ASSUME m > n + 1 PROVE U[m - 1] # CR
    OBVIOUS
  <2>1. l \in 1 .. l /\ n + l = m - 1
    BY <1>2 DEF m
  <2>2. U[m - 1] = x[l]
    BY <1>3, <2>1
  <2> QED BY <1>4, <2>1, <2>2
<1>15. LineAt(U, m) = SubSeq(U, n + 1, m - 1)
  BY <1>13, <1>14 DEF LineBetween
<1>16. SubSeq(U, n + 1, m - 1) = x
  <2> DEFINE a == n + 1
             b == m - 1
             y == SubSeq(U, a, b)
  <2>1. a \in Nat /\ b \in Nat /\ 1 <= a /\ a - 1 <= b /\ b <= Len(U)
    <3>1. Len(U) = m
      BY <1>3
    <3>2. b = n + l /\ b <= m
      BY <1>2
    <3> QED BY <1>2, <3>1, <3>2
  <2>2. U \in Seq(Symbol)
    BY <1>3
  <2>3. b - a + 1 = l
    BY <1>2
  <2>4. ASSUME NEW i \in 1 .. l PROVE a + i - 1 = n + i
    BY <1>2
  <2> HIDE DEF a, b
  <2>5. /\ y \in Seq(Symbol) /\ Len(y) = b - a + 1
        /\ \A i \in 1 .. b - a + 1 : y[i] = U[a + i - 1]
    BY <2>1, <2>2, PieceIs
  <2> HIDE DEF y
  <2>6. Len(y) = Len(x)
    BY <2>3, <2>5 DEF l
  <2>7. ASSUME NEW i \in 1 .. Len(y) PROVE y[i] = x[i]
    <3>1. i \in 1 .. l
      BY <2>3, <2>5
    <3>2. y[i] = U[n + i]
      BY <2>3, <2>4, <2>5, <3>1
    <3> QED BY <1>3, <3>1, <3>2
  <2>8. y = x
    BY <1>1, <2>5, <2>6, <2>7, SameElements
  <2> QED BY <2>8 DEF y, a, b
<1>17. Settled(U)
  BY <1>3 DEF Settled
<1> QED BY <1>3, <1>8, <1>12, <1>15, <1>16, <1>17 DEF n

\* The text means these events and leaves this type, these data, this ID and
\* this retry time.
Says(T, limit, evs, type, data, id, ms) ==
    /\ Settled(T)
    /\ EventsUpTo(T, Len(T), limit) = evs
    /\ TypeAt(T, Len(T)) = type /\ DataAt(T, Len(T)) = data
    /\ IDAt(T, Len(T)) = id /\ RetryAt(T, Len(T), limit) = ms

\* What an added line leaves.
LEMMA LineSays ==
  ASSUME NEW limit, NEW T, NEW evs, NEW type, NEW data, NEW id, NEW ms,
         Says(T, limit, evs, type, data, id, ms), NEW x, OneLine(x)
  PROVE  Says((T \o x) \o <<LF>>, limit,
              IF x = <<>> /\ data # <<>>
                THEN Append(evs, [type |-> type, data |-> data, id |-> id, retry |-> ms]) ELSE evs,
              IF x = <<>> THEN Empty ELSE IF IsField(x, "event:") THEN ValueOf(x) ELSE type,
              IF x = <<>> THEN <<>> ELSE IF IsField(x, "data:") THEN Append(data, ValueOf(x)) ELSE data,
              IF ValidID(x) THEN ValueOf(x) ELSE id,
              IF ValidRetry(x, limit) THEN Decimal(ValueOf(x)) ELSE ms)
<1> DEFINE U == (T \o x) \o <<LF>>
           n == Len(T)
           m == Len(U)
<1>1. /\ Settled(T) /\ EventsUpTo(T, n, limit) = evs /\ TypeAt(T, n) = type /\ DataAt(T, n) = data
      /\ IDAt(T, n) = id /\ RetryAt(T, n, limit) = ms
  BY DEF Says
<1>2. Settled(U) /\ SameUpTo(T, U, n) /\ NextEnd(U, n, m) /\ LineAt(U, m) = x
  BY <1>1, LineAdded
<1>3. T \in Seq(Symbol) /\ n \in Nat /\ n \in 0 .. n
  BY <1>1 DEF Settled
<1> HIDE DEF U, n, m
<1>4. U \in Seq(Symbol)
  BY <1>2 DEF Settled
<1>5. EventsUpTo(U, n, limit) = evs
  BY <1>1, <1>2, <1>3, <1>4, SameEventsUpTo
<1>6. TypeAt(U, n) = type /\ DataAt(U, n) = data /\ IDAt(U, n) = id /\ RetryAt(U, n, limit) = ms
  BY <1>1, <1>2, <1>3, <1>4, SameValues
<1>7. EventAt(U, n, limit) = [type |-> type, data |-> data, id |-> id, retry |-> ms]
  BY <1>6 DEF EventAt
<1>8. EventsUpTo(U, m, limit) =
        IF x = <<>> /\ data # <<>>
          THEN Append(evs, [type |-> type, data |-> data, id |-> id, retry |-> ms]) ELSE evs
  BY <1>2, <1>4, <1>5, <1>6, <1>7, NextEvents
<1>9. /\ TypeAt(U, m) = IF x = <<>> THEN Empty ELSE IF IsField(x, "event:") THEN ValueOf(x) ELSE type
      /\ IDAt(U, m) = IF ValidID(x) THEN ValueOf(x) ELSE id
      /\ RetryAt(U, m, limit) = IF ValidRetry(x, limit) THEN Decimal(ValueOf(x)) ELSE ms
  BY <1>2, <1>4, <1>6, NextValues
<1>10. DataAt(U, m) = IF x = <<>> THEN <<>>
                      ELSE IF IsField(x, "data:") THEN Append(data, ValueOf(x)) ELSE data
  BY <1>2, <1>4, <1>6, NextData
<1>11. Says(U, limit, EventsUpTo(U, m, limit), TypeAt(U, m), DataAt(U, m), IDAt(U, m), RetryAt(U, m, limit))
  BY <1>2 DEF Says, m
<1> QED BY <1>8, <1>9, <1>10, <1>11 DEF U

-----------------------------------------------------------------------------
(* Fields.                                                                  *)

\* A field, written with a space after the colon, is one line with that name
\* and that value.
LEMMA FieldLineIs ==
  ASSUME NEW name \in FieldNames, NEW v, OneLine(v), NEW x, x = <<name, Space>> \o v
  PROVE  /\ OneLine(x) /\ x # <<>> /\ ValueOf(x) = v
         /\ \A f : IsField(x, f) <=> f = name
<1> DEFINE p == <<name, Space>>
<1>1. name \in Symbol /\ name \notin EOL /\ Space \in Symbol /\ Space \notin EOL
  BY DEF Symbol, FieldNames, EOL, CR, LF, Space
<1>2. p \in Seq(Symbol) /\ Len(p) = 2 /\ p[1] = name /\ p[2] = Space
  BY <1>1
<1>3. v \in Seq(Symbol) /\ Len(v) \in Nat
  BY DEF OneLine
<1>4. /\ x \in Seq(Symbol) /\ Len(x) = 2 + Len(v)
      /\ \A i \in 1 .. 2 + Len(v) : x[i] = IF i <= 2 THEN p[i] ELSE v[i - 2]
  <2> HIDE DEF p
  <2>1. x = p \o v
    BY DEF p
  <2>2. /\ p \o v \in Seq(Symbol) /\ Len(p \o v) = Len(p) + Len(v)
        /\ \A i \in 1 .. Len(p) + Len(v) : (p \o v)[i] = IF i <= Len(p) THEN p[i] ELSE v[i - Len(p)]
    BY <1>2, <1>3, ConcatProperties
  <2> QED BY <1>2, <2>1, <2>2
<1> HIDE DEF p
<1>5. x[1] = name /\ x[2] = Space
  BY <1>2, <1>3, <1>4
<1>6. ASSUME NEW i \in 1 .. Len(v) PROVE x[2 + i] = v[i]
  <2>1. 2 + i \in 1 .. 2 + Len(v) /\ ~ (2 + i <= 2) /\ (2 + i) - 2 = i
    BY <1>3
  <2> QED BY <1>4, <2>1
<1>7. OneLine(x)
  <2>1. ASSUME NEW i \in 1 .. Len(x) PROVE x[i] \notin EOL
    <3>1. CASE i = 1 \/ i = 2
      BY <1>1, <1>5, <3>1
    <3>2. CASE ~ (i = 1 \/ i = 2)
      <4>1. i - 2 \in 1 .. Len(v) /\ 2 + (i - 2) = i
        BY <1>3, <1>4, <3>2
      <4>2. x[i] = v[i - 2]
        BY <1>6, <4>1
      <4> QED BY <4>1, <4>2 DEF OneLine
    <3> QED BY <3>1, <3>2
  <2> QED BY <1>4, <2>1 DEF OneLine
<1>8. x # <<>> /\ Head(x) = name
  BY <1>3, <1>4, <1>5
<1>9. ValueOf(x) = v
  <2> DEFINE n == Len(x)
             u == SubSeq(x, 3, n)
  <2>1. n \in Nat /\ n = 2 + Len(v) /\ n > 1 /\ 3 - 1 <= n /\ n <= Len(x)
    BY <1>3, <1>4
  <2>2. ValueOf(x) = u
    BY <1>5, <2>1 DEF ValueOf
  <2>3. u \in Seq(Symbol) /\ Len(u) = n - 3 + 1 /\ \A i \in 1 .. n - 3 + 1 : u[i] = x[3 + i - 1]
    <3>1. 3 \in Nat /\ 1 <= 3
      OBVIOUS
    <3> HIDE DEF n
    <3> QED BY <1>4, <2>1, <3>1, PieceIs
  <2> HIDE DEF u, n
  <2>4. ASSUME NEW i \in 1 .. Len(u) PROVE u[i] = v[i]
    <3>1. i \in 1 .. Len(v) /\ i \in 1 .. n - 3 + 1 /\ 3 + i - 1 = 2 + i
      BY <1>3, <2>1, <2>3
    <3> QED BY <1>6, <2>3, <3>1
  <2>5. Len(u) = Len(v)
    BY <1>3, <2>1, <2>3
  <2>6. u = v
    BY <1>3, <2>3, <2>4, <2>5, SameElements
  <2> QED BY <2>2, <2>6
<1>10. \A f : x # <<Bare[f]>>
  <2>1. Len(x) # 1
    BY <1>3, <1>4
  <2>2. \A b : Len(<<b>>) = 1
    OBVIOUS
  <2> QED BY <2>1, <2>2
<1>11. \A f : IsField(x, f) <=> f = name
  BY <1>8, <1>10 DEF IsField
<1> QED BY <1>7, <1>8, <1>9, <1>11

\* What an added field leaves.
LEMMA FieldSays ==
  ASSUME NEW limit, NEW T, NEW evs, NEW type, NEW data, NEW id, NEW ms,
         Says(T, limit, evs, type, data, id, ms), NEW name \in FieldNames, NEW v, OneLine(v)
  PROVE  Says(T \o Field(name, v), limit, evs,
              IF name = "event:" THEN v ELSE type,
              IF name = "data:" THEN Append(data, v) ELSE data,
              IF name = "id:" /\ Nul \notin ToSet(v) THEN v ELSE id,
              IF name = "retry:" /\ v # <<>> /\ ToSet(v) \subseteq Digits /\ Decimal(v) < limit
                THEN Decimal(v) ELSE ms)
<1> DEFINE x == <<name, Space>> \o v
<1>1. OneLine(x) /\ x # <<>> /\ ValueOf(x) = v /\ \A f : IsField(x, f) <=> f = name
  BY FieldLineIs
<1>2. T \o Field(name, v) = (T \o x) \o <<LF>>
  <2>1. Field(name, v) = x \o <<LF>>
    BY DEF Field
  <2>2. T \in Seq(Symbol) /\ x \in Seq(Symbol) /\ <<LF>> \in Seq(Symbol)
    <3>1. LF \in Symbol
      BY DEF Symbol, EOL
    <3> HIDE DEF x
    <3> QED BY <1>1, <3>1 DEF Says, Settled, OneLine
  <2> HIDE DEF x
  <2> QED BY <2>1, <2>2, ConcatAssociative
<1> HIDE DEF x
<1>3. ValidID(x) <=> name = "id:" /\ Nul \notin ToSet(v)
  BY <1>1 DEF ValidID
<1>4. ValidRetry(x, limit) <=> name = "retry:" /\ v # <<>> /\ ToSet(v) \subseteq Digits /\ Decimal(v) < limit
  BY <1>1 DEF ValidRetry
<1>5. /\ IsField(x, "event:") <=> name = "event:"
      /\ IsField(x, "data:") <=> name = "data:"
  BY <1>1
<1>6. Says((T \o x) \o <<LF>>, limit,
           IF x = <<>> /\ data # <<>>
             THEN Append(evs, [type |-> type, data |-> data, id |-> id, retry |-> ms]) ELSE evs,
           IF x = <<>> THEN Empty ELSE IF IsField(x, "event:") THEN ValueOf(x) ELSE type,
           IF x = <<>> THEN <<>> ELSE IF IsField(x, "data:") THEN Append(data, ValueOf(x)) ELSE data,
           IF ValidID(x) THEN ValueOf(x) ELSE id,
           IF ValidRetry(x, limit) THEN Decimal(ValueOf(x)) ELSE ms)
  BY <1>1, LineSays
<1> QED BY <1>1, <1>2, <1>3, <1>4, <1>5, <1>6

\* A field that is written only if it has a value.
LEMMA NameSays ==
  ASSUME NEW limit, NEW T, NEW evs, NEW data, NEW id, NEW ms,
         Says(T, limit, evs, Empty, data, id, ms), NEW v, OneLine(v)
  PROVE  Says(T \o OptionalField("event:", v), limit, evs, v, data, id, ms)
<1>1. CASE v = Empty
  <2>1. T \o <<>> = T
    BY ConcatEmptySeq DEF Says, Settled
  <2> QED BY <1>1, <2>1 DEF OptionalField
<1>2. CASE v # Empty
  <2>1. "event:" \in FieldNames
    BY DEF FieldNames
  <2> QED BY <1>2, <2>1, FieldSays DEF OptionalField
<1> QED BY <1>1, <1>2

\* The ID.
LEMMA IDSays ==
  ASSUME NEW limit, NEW T, NEW evs, NEW type, NEW data, NEW id, NEW ms,
         Says(T, limit, evs, type, data, id, ms), NEW v, OneLine(v), Nul \notin ToSet(v)
  PROVE  Says(T \o OptionalField("id:", v), limit, evs, type, data, IF v = Empty THEN id ELSE v, ms)
<1>1. CASE v = Empty
  <2>1. T \o <<>> = T
    BY ConcatEmptySeq DEF Says, Settled
  <2> QED BY <1>1, <2>1 DEF OptionalField
<1>2. CASE v # Empty
  <2>1. "id:" \in FieldNames
    BY DEF FieldNames
  <2> QED BY <1>2, <2>1, FieldSays DEF OptionalField
<1> QED BY <1>1, <1>2

\* The retry time.
LEMMA RetrySays ==
  ASSUME NEW limit, NEW T, NEW evs, NEW type, NEW data, NEW id, NEW ms,
         Says(T, limit, evs, type, data, id, ms),
         NEW v, OneLine(v), ToSet(v) \subseteq Digits, Decimal(v) < limit
  PROVE  Says(T \o OptionalField("retry:", v), limit, evs, type, data, id,
              IF v = Empty THEN ms ELSE Decimal(v))
<1>1. CASE v = Empty
  <2>1. T \o <<>> = T
    BY ConcatEmptySeq DEF Says, Settled
  <2> QED BY <1>1, <2>1 DEF OptionalField
<1>2. CASE v # Empty
  <2>1. "retry:" \in FieldNames
    BY DEF FieldNames
  <2> QED BY <1>2, <2>1, FieldSays DEF OptionalField, Empty
<1> QED BY <1>1, <1>2

-----------------------------------------------------------------------------
(* Sequences put together, and data fields.                                 *)

\* Texts may be put together in any order.
LEMMA Joined ==
  ASSUME NEW a \in Seq(Symbol), NEW b \in Seq(Symbol), NEW c \in Seq(Symbol)
  PROVE  (a \o b) \o c = a \o (b \o c) /\ a \o b \in Seq(Symbol) /\ b \o c \in Seq(Symbol)
<1>1. (a \o b) \o c = a \o (b \o c)
  BY ConcatAssociative
<1> QED BY <1>1, ConcatProperties

\* A field is a text.
LEMMA FieldIs ==
  ASSUME NEW name \in FieldNames, NEW v \in Seq(Symbol)
  PROVE  Field(name, v) \in Seq(Symbol)
<1>1. name \in Symbol /\ Space \in Symbol /\ LF \in Symbol
  BY DEF Symbol, EOL
<1>2. <<name, Space>> \in Seq(Symbol) /\ <<LF>> \in Seq(Symbol)
  BY <1>1
<1> QED BY <1>2, ConcatProperties DEF Field

\* A set of sequences that may be put together.
Joinable(S) == <<>> \in S /\ \A a, b \in S : a \o b \in S /\ <<>> \o a = a

\* What the pieces of a text leave, one after the other.
Pieces(F, p, S) ==
    /\ F \in [0 .. Len(p) -> S] /\ F[0] = <<>> /\ FlattenSeq(p) = F[Len(p)]
    /\ \A k \in 1 .. Len(p) : F[k] = F[k - 1] \o p[k]

\* FlattenSeq is the last of them.
LEMMA FlattenValue ==
  ASSUME NEW S, Joinable(S), NEW p \in Seq(S)
  PROVE  \E F : Pieces(F, p, S)
<1> DEFINE n == Len(p)
           G == [k \in 1 .. n |-> [t \in S |-> t \o p[k]]]
<1>1. n \in Nat /\ <<>> \in S
  BY DEF Joinable
<1>2. \A k \in 1 .. n : p[k] \in S
  OBVIOUS
<1>3. StepsOn(G, n, S)
  BY <1>2 DEF StepsOn, Joinable
<1> HIDE DEF G
<1>4. PICK F : RecursiveUpTo(F, n, S, <<>>, G)
  BY <1>1, <1>3, Recursion
<1>5. F \in [0 .. n -> S] /\ F[0] = <<>> /\ \A k \in 1 .. n : F[k] = G[k][F[k - 1]]
  BY <1>4 DEF RecursiveUpTo
<1>6. ASSUME NEW k \in 1 .. n PROVE F[k] = F[k - 1] \o p[k]
  <2>1. k - 1 \in 0 .. n
    BY <1>1
  <2>2. F[k - 1] \in S
    BY <1>5, <2>1
  <2> QED BY <1>5, <2>2 DEF G
<1>7. CASE n = 0
  <2>1. p = <<>>
    BY <1>7, EmptySeq
  <2>2. FlattenSeq(p) = F[n]
    BY <1>5, <1>7, <2>1 DEF FlattenSeq
  <2> QED BY <1>5, <1>6, <2>2 DEF Pieces
<1>8. CASE n # 0
  <2> DEFINE f == [i \in 1 .. n |-> F[i]]
  <2>1. 1 \in 1 .. n /\ 1 - 1 = 0
    BY <1>1, <1>8
  <2>2. F[1] = p[1]
    <3>1. F[1] = <<>> \o p[1]
      BY <1>5, <1>6, <2>1
    <3> QED BY <1>2, <2>1, <3>1 DEF Joinable
  <2>3. f = [i \in 1 .. n |-> IF i = 1 THEN p[i] ELSE f[i - 1] \o p[i]]
    <3>1. ASSUME NEW i \in 1 .. n PROVE F[i] = IF i = 1 THEN p[i] ELSE f[i - 1] \o p[i]
      <4>1. i = 1 \/ i - 1 \in 1 .. n
        BY <1>1
      <4> QED BY <1>6, <2>2, <4>1
    <3> QED BY <3>1
  <2> HIDE DEF f
  <2>4. \E H : /\ H = [i \in 1 .. n |-> IF i = 1 THEN p[i] ELSE H[i - 1] \o p[i]]
               /\ FlattenSeq(p) = H[n]
    BY <1>8, <2>3 DEF FlattenSeq
  <2>5. PICK H : /\ H = [i \in 1 .. n |-> IF i = 1 THEN p[i] ELSE H[i - 1] \o p[i]]
                 /\ FlattenSeq(p) = H[n]
    BY <2>4
  <2> HIDE DEF n
  <2> DEFINE U == {i \in 0 .. n : i = 0 \/ H[i] = F[i]}
  <2>6. 0 \in U
    BY <1>1
  <2>7. ASSUME NEW i \in 0 .. n - 1, i \in U PROVE i + 1 \in U
    <3> DEFINE k == i + 1
    <3>1. k \in 1 .. n /\ k \in 0 .. n /\ k - 1 = i /\ (k = 1 <=> i = 0)
      BY <1>1
    <3> HIDE DEF k
    <3>2. H[k] = IF k = 1 THEN p[k] ELSE H[k - 1] \o p[k]
      BY <2>5, <3>1
    <3>3. H[k] = F[k]
      BY <1>6, <2>2, <2>7, <3>1, <3>2
    <3> QED BY <3>1, <3>3 DEF k
  <2>8. \A i \in 0 .. n : i \in U
    <3> HIDE DEF U
    <3> QED BY <1>1, <2>6, <2>7, InductionUpTo
  <2>9. n \in U
    <3> HIDE DEF U
    <3> QED BY <1>1, <2>8
  <2>10. FlattenSeq(p) = F[n]
    BY <1>8, <2>5, <2>9
  <2> QED BY <1>5, <1>6, <2>10 DEF Pieces, n
<1> QED BY <1>7, <1>8

\* The sequences over a set may.
LEMMA SeqJoinable == ASSUME NEW A PROVE Joinable(Seq(A))
<1>1. ASSUME NEW a \in Seq(A), NEW b \in Seq(A) PROVE a \o b \in Seq(A)
  BY ConcatProperties
<1>2. ASSUME NEW a \in Seq(A) PROVE <<>> \o a = a
  BY ConcatEmptySeq
<1> QED BY <1>1, <1>2 DEF Joinable

\* DataFields is the last of them.
LEMMA DataFieldsValue ==
  ASSUME NEW lines \in Seq(Seq(Symbol))
  PROVE  \E F \in [0 .. Len(lines) -> Seq(Symbol)] :
           /\ F[0] = <<>> /\ \A k \in 1 .. Len(lines) : F[k] = F[k - 1] \o Field("data:", lines[k])
           /\ DataFields(lines) = F[Len(lines)]
<1> DEFINE p == [i \in DOMAIN lines |-> Field("data:", lines[i])]
<1>1. DOMAIN lines = 1 .. Len(lines) /\ Len(lines) \in Nat
  OBVIOUS
<1>2. ASSUME NEW i \in 1 .. Len(lines) PROVE Field("data:", lines[i]) \in Seq(Symbol)
  <2>1. "data:" \in FieldNames /\ lines[i] \in Seq(Symbol)
    BY DEF FieldNames
  <2> QED BY <2>1, FieldIs
<1>3. p \in Seq(Seq(Symbol)) /\ Len(p) = Len(lines) /\ \A k \in 1 .. Len(lines) : p[k] = Field("data:", lines[k])
  BY <1>1, <1>2
<1>4. DataFields(lines) = FlattenSeq(p)
  BY DEF DataFields
<1> HIDE DEF p
<1>5. PICK F : Pieces(F, p, Seq(Symbol))
  BY <1>3, SeqJoinable, FlattenValue
<1> QED BY <1>3, <1>4, <1>5 DEF Pieces

\* One element more.
LEMMA TakeMore ==
  ASSUME NEW S, NEW s \in Seq(S), NEW k \in 1 .. Len(s)
  PROVE  Take(s, k) = Append(Take(s, k - 1), s[k])
<1> DEFINE a == Take(s, k)
           b == Take(s, k - 1)
           c == Append(b, s[k])
<1>1. k \in 0 .. Len(s) /\ k - 1 \in 0 .. Len(s) /\ Len(s) \in Nat /\ (k - 1) + 1 = k
  OBVIOUS
<1>2. a \in Seq(S) /\ Len(a) = k /\ \A i \in 1 .. k : a[i] = s[i]
  BY <1>1, TakeIs
<1>3. b \in Seq(S) /\ Len(b) = k - 1 /\ \A i \in 1 .. k - 1 : b[i] = s[i]
  BY <1>1, TakeIs
<1>4. s[k] \in S
  OBVIOUS
<1> HIDE DEF a, b
<1>5. c \in Seq(S) /\ Len(c) = k /\ (\A i \in 1 .. k - 1 : c[i] = b[i]) /\ c[k] = s[k]
  BY <1>1, <1>3, <1>4, AppendProperties
<1> HIDE DEF c
<1>6. ASSUME NEW i \in 1 .. Len(a) PROVE a[i] = c[i]
  <2>1. i \in 1 .. k /\ (i = k \/ i \in 1 .. k - 1)
    BY <1>1, <1>2
  <2> QED BY <1>2, <1>3, <1>5, <2>1
<1>7. a = c
  BY <1>2, <1>5, <1>6, SameElements
<1> QED BY <1>7 DEF a, b, c

\* What the data fields of a frame leave.
LEMMA DataSays ==
  ASSUME NEW limit, NEW T, NEW evs, NEW type, NEW id, NEW ms,
         Says(T, limit, evs, type, <<>>, id, ms),
         NEW lines \in Seq(Seq(Symbol)), \A i \in 1 .. Len(lines) : OneLine(lines[i])
  PROVE  Says(T \o DataFields(lines), limit, evs, type, lines, id, ms)
<1> DEFINE n == Len(lines)
<1>1. n \in Nat /\ T \in Seq(Symbol)
  BY DEF Says, Settled
<1>2. PICK F \in [0 .. n -> Seq(Symbol)] :
        /\ F[0] = <<>> /\ \A k \in 1 .. n : F[k] = F[k - 1] \o Field("data:", lines[k])
        /\ DataFields(lines) = F[n]
  BY DataFieldsValue
<1> DEFINE U == {k \in 0 .. n : Says(T \o F[k], limit, evs, type, Take(lines, k), id, ms)}
<1>3. 0 \in U
  <2>1. Take(lines, 0) = <<>>
    BY SubSeqEmpty DEF Take
  <2>2. T \o <<>> = T
    BY <1>1, ConcatEmptySeq
  <2>3. T \o F[0] = T
    BY <1>2, <2>2
  <2>4. Says(T \o F[0], limit, evs, type, Take(lines, 0), id, ms)
    BY <2>1, <2>3
  <2> QED BY <1>1, <2>4
<1>4. ASSUME NEW i \in 0 .. n - 1, i \in U PROVE i + 1 \in U
  <2> DEFINE k == i + 1
             v == lines[k]
  <2>1. k \in 1 .. n /\ k \in 0 .. n /\ k - 1 = i /\ i \in 0 .. n
    BY <1>1
  <2>2. Says(T \o F[i], limit, evs, type, Take(lines, i), id, ms)
    BY <1>4
  <2>3. "data:" \in FieldNames /\ OneLine(v) /\ v \in Seq(Symbol)
    BY <2>1 DEF FieldNames
  <2>4. Says((T \o F[i]) \o Field("data:", v), limit, evs, type, Append(Take(lines, i), v), id, ms)
    <3> HIDE DEF v
    <3> QED BY <2>2, <2>3, FieldSays
  <2>5. Take(lines, k) = Append(Take(lines, i), v)
    <3> HIDE DEF k
    <3> QED BY <2>1, TakeMore
  <2>6. (T \o F[i]) \o Field("data:", v) = T \o F[k]
    <3>1. Field("data:", v) \in Seq(Symbol) /\ F[i] \in Seq(Symbol)
      <4> HIDE DEF v
      <4> QED BY <2>1, <2>3, FieldIs
    <3>2. F[k] = F[i] \o Field("data:", v)
      <4> HIDE DEF k
      <4> QED BY <1>2, <2>1
    <3> DEFINE f == F[i]
               g == Field("data:", v)
    <3>3. f \in Seq(Symbol) /\ g \in Seq(Symbol) /\ F[k] = f \o g
      <4> HIDE DEF k, v
      <4> QED BY <3>1, <3>2, Zenon
    <3> HIDE DEF k, v, f, g
    <3>4. (T \o f) \o g = T \o (f \o g)
      BY <1>1, <3>3, Joined
    <3> QED BY <3>3, <3>4 DEF f, g
  <2> HIDE DEF k, v
  <2>7. k \in U
    BY <2>1, <2>4, <2>5, <2>6
  <2> QED BY <2>7 DEF k
<1>5. n \in U
  <2> HIDE DEF U, n
  <2>1. \A i \in 0 .. n : i \in U
    BY <1>1, <1>3, <1>4, InductionUpTo
  <2> QED BY <1>1, <2>1
<1>6. Take(lines, n) = lines
  BY SubSeqFull DEF Take
<1> HIDE DEF n
<1> QED BY <1>2, <1>5, <1>6

-----------------------------------------------------------------------------
(* Frames.                                                                  *)

\* What a blank line leaves: a frame with data has become an event.
LEMMA BlankSays ==
  ASSUME NEW limit, NEW T, NEW evs, NEW type, NEW data, NEW id, NEW ms,
         Says(T, limit, evs, type, data, id, ms)
  PROVE  Says(T \o <<LF>>, limit,
              IF data # <<>>
                THEN Append(evs, [type |-> type, data |-> data, id |-> id, retry |-> ms]) ELSE evs,
              Empty, <<>>, id, ms)
<1> DEFINE x == <<>>
<1>1. OneLine(x)
  BY DEF OneLine
<1>2. T \o x = T
  BY ConcatEmptySeq DEF Says, Settled
<1>3. ~ ValidID(x) /\ ~ ValidRetry(x, limit) /\ x = <<>>
  BY DEF ValidID, ValidRetry, IsField
<1> HIDE DEF x
<1>4. Says((T \o x) \o <<LF>>, limit,
           IF x = <<>> /\ data # <<>>
             THEN Append(evs, [type |-> type, data |-> data, id |-> id, retry |-> ms]) ELSE evs,
           IF x = <<>> THEN Empty ELSE IF IsField(x, "event:") THEN ValueOf(x) ELSE type,
           IF x = <<>> THEN <<>> ELSE IF IsField(x, "data:") THEN Append(data, ValueOf(x)) ELSE data,
           IF ValidID(x) THEN ValueOf(x) ELSE id,
           IF ValidRetry(x, limit) THEN Decimal(ValueOf(x)) ELSE ms)
  BY <1>1, LineSays
<1> QED BY <1>2, <1>3, <1>4

\* A heartbeat leaves everything as it is.
LEMMA HeartbeatSays ==
  ASSUME NEW limit, NEW T, NEW evs, NEW id, NEW ms, Says(T, limit, evs, Empty, <<>>, id, ms)
  PROVE  Says(T \o WriteHeartbeat, limit, evs, Empty, <<>>, id, ms)
<1> DEFINE x == <<":", Space, "x">>
<1>1. ":" \in Symbol /\ Space \in Symbol /\ "x" \in Symbol /\ LF \in Symbol
  BY DEF Symbol, EOL
<1>2. x \in Seq(Symbol) /\ <<LF>> \in Seq(Symbol) /\ Len(x) = 3
  BY <1>1
<1>3. x[1] = ":" /\ x[2] = " " /\ x[3] = "x"
  BY DEF Space
<1>4. OneLine(x)
  <2>1. ASSUME NEW i \in 1 .. Len(x) PROVE x[i] \notin {"CR", "LF"}
    <3>1. i = 1 \/ i = 2 \/ i = 3
      BY <1>2
    <3> HIDE DEF x
    <3> QED BY <1>3, <3>1
  <2> QED BY <1>2, <2>1 DEF OneLine, EOL, CR, LF
<1>5. x # <<>> /\ Head(x) = ":" /\ \A f : x # <<Bare[f]>>
  <2>1. \A b : Len(<<b>>) = 1
    OBVIOUS
  <2> QED BY <1>2, <2>1
<1>6. WriteHeartbeat = (x \o <<LF>>) \o <<LF>>
  BY DEF WriteHeartbeat
<1> HIDE DEF x
<1>7. ~ IsField(x, "event:") /\ ~ IsField(x, "data:") /\ ~ ValidID(x) /\ ~ ValidRetry(x, limit)
  BY <1>5 DEF IsField, ValidID, ValidRetry
<1>8. T \o WriteHeartbeat = ((T \o x) \o <<LF>>) \o <<LF>>
  <2>1. T \in Seq(Symbol) /\ T \o x \in Seq(Symbol) /\ x \o <<LF>> \in Seq(Symbol)
    BY <1>2, Joined DEF Says, Settled
  <2>2. (T \o x) \o <<LF>> = T \o (x \o <<LF>>)
    BY <1>2, <2>1, Joined
  <2> DEFINE y == x \o <<LF>>
  <2> HIDE DEF y
  <2>3. (T \o y) \o <<LF>> = T \o (y \o <<LF>>)
    BY <1>2, <2>1, Joined DEF y
  <2> QED BY <1>6, <2>2, <2>3 DEF y
<1>9. Says((T \o x) \o <<LF>>, limit,
           IF x = <<>> /\ <<>> # <<>>
             THEN Append(evs, [type |-> Empty, data |-> <<>>, id |-> id, retry |-> ms]) ELSE evs,
           IF x = <<>> THEN Empty ELSE IF IsField(x, "event:") THEN ValueOf(x) ELSE Empty,
           IF x = <<>> THEN <<>> ELSE IF IsField(x, "data:") THEN Append(<<>>, ValueOf(x)) ELSE <<>>,
           IF ValidID(x) THEN ValueOf(x) ELSE id,
           IF ValidRetry(x, limit) THEN Decimal(ValueOf(x)) ELSE ms)
  BY <1>4, LineSays
<1>10. Says((T \o x) \o <<LF>>, limit, evs, Empty, <<>>, id, ms)
  BY <1>5, <1>7, <1>9
<1>11. Says(((T \o x) \o <<LF>>) \o <<LF>>, limit, evs, Empty, <<>>, id, ms)
  BY <1>10, BlankSays
<1> QED BY <1>8, <1>11

\* An optional field is a text.
LEMMA OptionalIs ==
  ASSUME NEW name \in FieldNames, NEW v \in Seq(Symbol)
  PROVE  OptionalField(name, v) \in Seq(Symbol)
  BY FieldIs DEF OptionalField

\* The digits are symbols.
LEMMA DigitsAre == ASSUME NEW v \in Seq(Digits) PROVE OneLine(v) /\ v \in Seq(Symbol) /\ ToSet(v) \subseteq Digits
<1>1. Digits \subseteq Symbol /\ \A d \in Digits : d \notin EOL
  BY DEF Symbol, Digits, EOL, CR, LF
<1>2. v \in Seq(Symbol)
  BY <1>1, SeqMonotonic
<1>3. \A i \in 1 .. Len(v) : v[i] \in Digits
  BY ElementOfSeq
<1>4. DOMAIN v = 1 .. Len(v)
  OBVIOUS
<1>5. OneLine(v)
  BY <1>1, <1>2, <1>3 DEF OneLine
<1> QED BY <1>2, <1>3, <1>4, <1>5 DEF ToSet

\* Three texts.
Texts(a, b, c) == a \in Seq(Symbol) /\ b \in Seq(Symbol) /\ c \in Seq(Symbol)

\* Put together, they are the same either way.
LEMMA TextsJoined ==
  ASSUME NEW a, NEW b, NEW c, Texts(a, b, c)
  PROVE  (a \o b) \o c = a \o (b \o c)
  BY Joined DEF Texts

\* The parts of a frame, added one after the other.
LEMMA AllJoined ==
  ASSUME NEW T, NEW A, NEW B, NEW C, NEW D, NEW E, Texts(T, A, B), Texts(C, D, E)
  PROVE  T \o ((((A \o B) \o C) \o D) \o E) = ((((T \o A) \o B) \o C) \o D) \o E
<1> DEFINE AB == A \o B
           ABC == AB \o C
           ABCD == ABC \o D
<1>1. Texts(T, AB, C) /\ Texts(T, ABC, D) /\ Texts(T, ABCD, E)
  BY DEF Texts
<1>2. (T \o A) \o B = T \o AB
  BY TextsJoined
<1> HIDE DEF AB
<1>3. (T \o AB) \o C = T \o ABC
  BY <1>1, TextsJoined
<1> HIDE DEF ABC
<1>4. (T \o ABC) \o D = T \o ABCD
  BY <1>1, TextsJoined
<1> HIDE DEF ABCD
<1>5. (T \o ABCD) \o E = T \o (ABCD \o E)
  BY <1>1, TextsJoined
<1> QED BY <1>2, <1>3, <1>4, <1>5 DEF AB, ABC, ABCD

\* What the frame of an event leaves: the event, whole, with its own ID and retry
\* time or those from before.
LEMMA EventSays ==
  ASSUME NEW limit, NEW T, NEW evs, NEW id, NEW ms, Says(T, limit, evs, Empty, <<>>, id, ms),
         NEW e \in Writable(limit), NEW lines \in Seq(Seq(Symbol)), lines = ForEachLine(e.data),
         lines # <<>>, \A i \in 1 .. Len(lines) : OneLine(lines[i]),
         NEW i, i = IF e.id = Empty THEN id ELSE e.id,
         NEW r, r = IF e.retry = Empty THEN ms ELSE Decimal(e.retry)
  PROVE  Says(T \o WriteEvent(e), limit,
              Append(evs, [type |-> e.event, data |-> lines, id |-> i, retry |-> r]), Empty, <<>>, i, r)
<1> DEFINE A == OptionalField("event:", e.event)
           B == DataFields(lines)
           C == OptionalField("id:", e.id)
           D == OptionalField("retry:", e.retry)
           T1 == T \o A
           T2 == T1 \o B
           T3 == T2 \o C
           T4 == T3 \o D
<1>1. /\ e.event \in Seq(Symbol) /\ e.data \in Seq(Symbol) /\ e.id \in Seq(Symbol) /\ e.retry \in Seq(Digits)
      /\ \A k \in DOMAIN e.event : e.event[k] \notin EOL
      /\ ParseEventIDOK(e.id) /\ Decimal(e.retry) < limit
  BY DEF Writable
<1>2. OneLine(e.event) /\ OneLine(e.id) /\ Nul \notin ToSet(e.id)
  <2>1. DOMAIN e.event = 1 .. Len(e.event) /\ DOMAIN e.id = 1 .. Len(e.id)
    BY <1>1
  <2>2. \A k \in 1 .. Len(e.id) : e.id[k] \notin {CR, LF, Nul}
    BY <1>1, <2>1 DEF ParseEventIDOK
  <2>3. OneLine(e.event)
    BY <1>1, <2>1 DEF OneLine
  <2>4. OneLine(e.id)
    BY <1>1, <2>2 DEF OneLine, EOL
  <2> QED BY <2>1, <2>2, <2>3, <2>4 DEF ToSet
<1>3. OneLine(e.retry) /\ e.retry \in Seq(Symbol) /\ ToSet(e.retry) \subseteq Digits
  BY <1>1, DigitsAre
<1>4. Says(T1, limit, evs, e.event, <<>>, id, ms)
  BY <1>2, NameSays
<1> HIDE DEF T1
<1>5. Says(T2, limit, evs, e.event, lines, id, ms)
  BY <1>4, DataSays
<1> HIDE DEF T2
<1>6. Says(T3, limit, evs, e.event, lines, i, ms)
  BY <1>2, <1>5, IDSays
<1> HIDE DEF T3
<1>7. Says(T4, limit, evs, e.event, lines, i, r)
  BY <1>1, <1>3, <1>6, RetrySays
<1> HIDE DEF T4
<1>8. Says(T4 \o <<LF>>, limit,
           Append(evs, [type |-> e.event, data |-> lines, id |-> i, retry |-> r]), Empty, <<>>, i, r)
  BY <1>7, BlankSays
<1>9. /\ T \in Seq(Symbol) /\ A \in Seq(Symbol) /\ B \in Seq(Symbol) /\ C \in Seq(Symbol)
      /\ D \in Seq(Symbol) /\ <<LF>> \in Seq(Symbol)
  <2>1. LF \in Symbol /\ "event:" \in FieldNames /\ "id:" \in FieldNames /\ "retry:" \in FieldNames
    BY DEF Symbol, EOL, FieldNames
  <2>2. T \in Seq(Symbol)
    BY DEF Says, Settled
  <2>3. A \in Seq(Symbol)
    BY <1>1, <2>1, OptionalIs
  <2>4. C \in Seq(Symbol)
    BY <1>1, <2>1, OptionalIs
  <2>5. D \in Seq(Symbol)
    BY <1>3, <2>1, OptionalIs
  <2>6. B \in Seq(Symbol)
    <3>1. PICK F \in [0 .. Len(lines) -> Seq(Symbol)] : DataFields(lines) = F[Len(lines)]
      BY DataFieldsValue
    <3>2. Len(lines) \in 0 .. Len(lines)
      OBVIOUS
    <3> QED BY <3>1, <3>2
  <2> QED BY <2>1, <2>2, <2>3, <2>4, <2>5, <2>6
<1>10. WriteEvent(e) = (((A \o B) \o C) \o D) \o <<LF>>
  BY DEF WriteEvent
<1> HIDE DEF A, B, C, D
<1>11. T \o WriteEvent(e) = T4 \o <<LF>>
  <2>1. Texts(T, A, B) /\ Texts(C, D, <<LF>>)
    BY <1>9 DEF Texts
  <2>2. T \o ((((A \o B) \o C) \o D) \o <<LF>>) = ((((T \o A) \o B) \o C) \o D) \o <<LF>>
    BY <2>1, AllJoined
  <2> QED BY <1>10, <2>2 DEF T1, T2, T3, T4
<1> QED BY <1>8, <1>11

-----------------------------------------------------------------------------
(* The lines of a text, one symbol after the other.                         *)

\* The lines that end up to m.
LinesTo(T, m) ==
    [k \in DOMAIN Ascending(LineEnds(T), m) |-> LineAt(T, Ascending(LineEnds(T), m)[k])]

\* The line that ends at a position, as a function.
LineOf(T) == [q \in Nat |-> LineAt(T, q)]

\* The lines that end up to m, in terms of that function.
LEMMA LinesToAre ==
  ASSUME NEW T, NEW m \in Nat
  PROVE  /\ Ascending(LineEnds(T), m) \in Seq(Nat)
         /\ LinesTo(T, m) = [k \in DOMAIN Ascending(LineEnds(T), m) |-> LineOf(T)[Ascending(LineEnds(T), m)[k]]]
<1> DEFINE A == Ascending(LineEnds(T), m)
<1>1. A \in Seq(LineEnds(T) \cap (1 .. m))
  BY AscendingMembers
<1>2. LineEnds(T) \cap (1 .. m) \subseteq Nat
  OBVIOUS
<1> HIDE DEF A
<1>3. A \in Seq(Nat)
  BY <1>1, <1>2, SeqMonotonic
<1>4. ASSUME NEW k \in DOMAIN A PROVE LineAt(T, A[k]) = LineOf(T)[A[k]]
  <2>1. A[k] \in Nat
    BY <1>3
  <2> QED BY <2>1 DEF LineOf
<1>5. [k \in DOMAIN A |-> LineAt(T, A[k])] = [k \in DOMAIN A |-> LineOf(T)[A[k]]]
  BY <1>4
<1> QED BY <1>3, <1>5 DEF A, LinesTo

\* One position more.
LEMMA LinesStep ==
  ASSUME NEW T, NEW m \in Nat
  PROVE  LinesTo(T, m + 1) = IF m + 1 \in LineEnds(T) THEN Append(LinesTo(T, m), LineAt(T, m + 1))
                             ELSE LinesTo(T, m)
<1> DEFINE A == Ascending(LineEnds(T), m)
           B == Ascending(LineEnds(T), m + 1)
           V == LineOf(T)
<1>1. m + 1 \in Nat
  OBVIOUS
<1>2. A \in Seq(Nat) /\ LinesTo(T, m) = [k \in DOMAIN A |-> V[A[k]]]
  BY LinesToAre
<1>3. LinesTo(T, m + 1) = [k \in DOMAIN B |-> V[B[k]]]
  BY <1>1, LinesToAre
<1>4. B = IF m + 1 \in LineEnds(T) THEN Append(A, m + 1) ELSE A
  BY AscendingStep
<1>5. V[m + 1] = LineAt(T, m + 1)
  BY <1>1 DEF LineOf
<1> HIDE DEF A, B, V
<1>6. CASE m + 1 \in LineEnds(T)
  <2> DEFINE q == m + 1
  <2>1. B = Append(A, q)
    BY <1>4, <1>6
  <2>2. q \in Nat
    BY <1>1
  <2> HIDE DEF q
  <2>3. [i \in DOMAIN Append(A, q) |-> V[Append(A, q)[i]]] = Append([i \in DOMAIN A |-> V[A[i]]], V[q])
    BY <1>2, <2>2, MapAppend
  <2>4. LinesTo(T, m + 1) = Append(LinesTo(T, m), V[q])
    BY <1>2, <1>3, <2>1, <2>3
  <2> QED BY <1>5, <1>6, <2>4 DEF q
<1>7. CASE m + 1 \notin LineEnds(T)
  BY <1>2, <1>3, <1>4, <1>7
<1> QED BY <1>6, <1>7

\* Texts that are the same up to m have the same lines up to there.
LEMMA SameLinesTo ==
  ASSUME NEW T \in Seq(Symbol), NEW U \in Seq(Symbol), NEW m \in Nat, SameUpTo(T, U, m)
  PROVE  LinesTo(T, m) = LinesTo(U, m)
<1> DEFINE A == Ascending(LineEnds(T), m)
<1>1. \A k \in 1 .. m : k \in LineEnds(T) <=> k \in LineEnds(U)
  BY DEF SameUpTo
<1>2. A = Ascending(LineEnds(U), m)
  BY <1>1, AscendingAgree
<1>3. A \in Seq(LineEnds(T) \cap (1 .. m))
  BY AscendingMembers
<1> HIDE DEF A
<1>4. ASSUME NEW k \in DOMAIN A PROVE LineAt(T, A[k]) = LineAt(U, A[k])
  <2>1. A[k] \in 1 .. m
    BY <1>3, ElementOfSeq
  <2> QED BY <2>1, SameLines
<1>5. [k \in DOMAIN A |-> LineAt(T, A[k])] = [k \in DOMAIN A |-> LineAt(U, A[k])]
  BY <1>4
<1> QED BY <1>2, <1>5 DEF A, LinesTo

\* The terminated lines are those up to the end.
LEMMA TerminatedAre == ASSUME NEW T PROVE TerminatedLines(T) = LinesTo(T, Len(T))
  BY DEF TerminatedLines, LinesTo

\* Where the unterminated rest of a text begins.
LastEnd(T) == Max({0} \cup {p \in LineEnds(T) : p < Len(T) + 1})

\* The rest of the text begins there.
LEMMA UnterminatedIs ==
  ASSUME NEW T \in Seq(Symbol)
  PROVE  LastEnd(T) \in 0 .. Len(T) /\ Unterminated(T) = SubSeq(T, LastEnd(T) + 1, Len(T))
<1> DEFINE n == Len(T)
           B == {0} \cup {p \in LineEnds(T) : p < n + 1}
<1>1. n \in Nat /\ n + 1 \in Nat /\ n + 1 > 0 /\ (n + 1) - 1 = n
  OBVIOUS
<1>2. LastEnd(T) \in 0 .. n
  <2>1. Max(B) \in 0 .. (n + 1) - 1
    <3> HIDE DEF n
    <3>1. \A q \in Nat : q > 0 => Max({0} \cup {p \in LineEnds(T) : p < q}) \in 0 .. q - 1
      BY BeginIs
    <3> QED BY <1>1, <3>1
  <2> QED BY <1>1, <2>1 DEF LastEnd
<1>3. LineEnds(T) \subseteq 1 .. n
  BY EndsAre
<1>4. B = {0} \cup LineEnds(T)
  BY <1>1, <1>3
<1>5. LastEnd(T) = IF LineEnds(T) = {} THEN 0 ELSE Max(LineEnds(T))
  <2>1. CASE LineEnds(T) = {}
    <3>1. B = {0}
      BY <1>4, <2>1
    <3>2. Max({0}) = 0
      <4>1. {0} \subseteq Nat /\ 0 \in {0} /\ \A k \in {0} : 0 >= k
        OBVIOUS
      <4> QED BY <4>1, MaxIs
    <3> QED BY <2>1, <3>1, <3>2 DEF LastEnd
  <2>2. CASE LineEnds(T) # {}
    <3> DEFINE E == LineEnds(T)
    <3>1. E \subseteq 0 .. n /\ E # {} /\ B = {0} \cup E
      BY <1>1, <1>3, <1>4, <2>2
    <3> HIDE DEF E, n
    <3>2. Max(E) \in E /\ \A k \in E : Max(E) >= k
      BY <1>1, <3>1, MaxExists
    <3>3. B \subseteq Nat /\ Max(E) \in B /\ \A k \in B : Max(E) >= k
      <4> HIDE DEF B
      <4> DEFINE m == Max(E)
      <4>0. m \in E /\ \A k \in E : m >= k
        BY <3>2
      <4> HIDE DEF m
      <4>1. m \in Nat /\ m >= 0
        BY <1>1, <3>1, <4>0
      <4>2. B \subseteq Nat /\ m \in B
        BY <1>1, <3>1, <4>0
      <4>3. ASSUME NEW k \in B PROVE m >= k
        <5>1. k = 0 \/ k \in E
          BY <3>1
        <5> QED BY <4>0, <4>1, <5>1
      <4> QED BY <4>2, <4>3 DEF m
    <3>4. Max(B) = Max(E)
      <4> HIDE DEF B
      <4> QED BY <3>3, MaxIs
    <3> QED BY <2>2, <3>4 DEF LastEnd, E, n
  <2> QED BY <2>1, <2>2
<1>6. 1 + LastEnd(T) = LastEnd(T) + 1
  BY <1>2
<1> QED BY <1>2, <1>5, <1>6 DEF Unterminated

\* A text U that is P, of length n, and the symbol c: where its lines end.
OneMore(P, U, n, c) ==
    /\ n \in Nat /\ U \in Seq(Symbol) /\ Len(U) = n + 1 /\ U[n + 1] = c
    /\ \A i \in 1 .. n : U[i] = P[i]
    /\ \A i \in 1 .. n - 1 : i \in LineEnds(P) <=> i \in LineEnds(U)
    /\ n + 1 \in LineEnds(U) <=> c \in EOL
    /\ n > 0 => (n \in LineEnds(P) <=> P[n] \in EOL)
    /\ n > 0 => (n \in LineEnds(U) <=> P[n] \in EOL /\ ~ (P[n] = CR /\ c = LF))

\* Where lines end in a text with one symbol more.
LEMMA SymbolEnds ==
  ASSUME NEW P \in Seq(Symbol), NEW c \in Symbol
  PROVE  OneMore(P, Append(P, c), Len(P), c)
<1> DEFINE U == Append(P, c)
           n == Len(P)
<1>1. n \in Nat /\ U \in Seq(Symbol) /\ Len(U) = n + 1 /\ U[n + 1] = c /\ \A i \in 1 .. n : U[i] = P[i]
  BY AppendProperties
<1>2. DOMAIN P = 1 .. n /\ DOMAIN U = 1 .. n + 1 /\ Len(P) = n
  BY <1>1
<1> HIDE DEF U, n
<1>3. LF # CR
  BY DEF LF, CR
<1>4. ASSUME NEW i \in 1 .. n - 1 PROVE i \in LineEnds(P) <=> i \in LineEnds(U)
  <2>1. i \in DOMAIN P /\ i \in DOMAIN U /\ i < Len(P) /\ i < Len(U) /\ i \in 1 .. n /\ i + 1 \in 1 .. n
    BY <1>1, <1>2
  <2>2. U[i] = P[i] /\ U[i + 1] = P[i + 1]
    BY <1>1, <2>1
  <2> QED BY <2>1, <2>2 DEF LineEnds
<1>5. n + 1 \in LineEnds(U) <=> c \in EOL
  <2>1. n + 1 \in DOMAIN U /\ ~ (n + 1 < Len(U))
    BY <1>1, <1>2
  <2> QED BY <1>1, <2>1 DEF LineEnds, EOL
<1>6. ASSUME n > 0 PROVE n \in LineEnds(P) <=> P[n] \in EOL
  <2>1. n \in DOMAIN P /\ ~ (n < Len(P))
    BY <1>1, <1>2, <1>6
  <2> QED BY <2>1 DEF LineEnds, EOL
<1>7. ASSUME n > 0 PROVE n \in LineEnds(U) <=> P[n] \in EOL /\ ~ (P[n] = CR /\ c = LF)
  <2>1. n \in DOMAIN U /\ n < Len(U) /\ U[n] = P[n] /\ U[n + 1] = c
    BY <1>1, <1>2, <1>7
  <2> QED BY <1>3, <2>1 DEF LineEnds, EOL
<1>8. OneMore(P, U, n, c)
  BY <1>1, <1>4, <1>5, <1>6, <1>7 DEF OneMore
<1> QED BY <1>8 DEF U, n

\* A text that ends in a line break has no unterminated rest.
LEMMA NoRest ==
  ASSUME NEW T \in Seq(Symbol), Len(T) \in LineEnds(T)
  PROVE  Unterminated(T) = <<>>
<1> DEFINE n == Len(T)
           B == {0} \cup {p \in LineEnds(T) : p < n + 1}
<1>1. n \in Nat /\ n \in B /\ B \subseteq Nat /\ \A p \in B : n >= p
  BY EndsAre
<1>2. Max(B) = n
  <2> HIDE DEF B, n
  <2> QED BY <1>1, MaxIs
<1>3. LastEnd(T) = n
  BY <1>2 DEF LastEnd
<1>4. Unterminated(T) = SubSeq(T, n + 1, n)
  BY <1>3, UnterminatedIs
<1>5. n + 1 \in Int /\ n \in Int /\ n < n + 1
  BY <1>1
<1> HIDE DEF n
<1> QED BY <1>4, <1>5, SubSeqEmpty

\* One symbol more, unless it is the LF of a CRLF.
LEMMA SymbolMore ==
  ASSUME NEW P \in Seq(Symbol), NEW c \in Symbol, NEW U, U = Append(P, c), NEW n, n = Len(P),
         ~ (n > 0 /\ P[n] = CR /\ c = LF)
  PROVE  /\ TerminatedLines(U) = IF c \in EOL THEN Append(TerminatedLines(P), Unterminated(P))
                                 ELSE TerminatedLines(P)
         /\ Unterminated(U) = IF c \in EOL THEN <<>> ELSE Append(Unterminated(P), c)
<1>0. OneMore(P, U, n, c)
  BY SymbolEnds
<1>1. /\ n \in Nat /\ U \in Seq(Symbol) /\ Len(U) = n + 1 /\ U[n + 1] = c
      /\ \A i \in 1 .. n : U[i] = P[i]
      /\ \A i \in 1 .. n - 1 : i \in LineEnds(P) <=> i \in LineEnds(U)
      /\ n + 1 \in LineEnds(U) <=> c \in EOL
      /\ n > 0 => (n \in LineEnds(P) <=> P[n] \in EOL)
      /\ n > 0 => (n \in LineEnds(U) <=> P[n] \in EOL /\ ~ (P[n] = CR /\ c = LF))
  BY <1>0 DEF OneMore
<1>2. SameUpTo(P, U, n)
  <2>1. ASSUME NEW i \in 1 .. n PROVE P[i] = U[i] /\ (i \in LineEnds(P) <=> i \in LineEnds(U))
    <3>1. i = n \/ i \in 1 .. n - 1
      BY <1>1
    <3> QED BY <1>1, <3>1
  <2> QED BY <1>1, <2>1 DEF SameUpTo
<1>3. LinesTo(P, n) = LinesTo(U, n)
  BY <1>1, <1>2, SameLinesTo
<1>4. TerminatedLines(P) = LinesTo(P, n) /\ TerminatedLines(U) = LinesTo(U, n + 1)
  BY <1>1, TerminatedAre
<1> DEFINE b == LastEnd(P)
<1>5. b \in 0 .. n /\ Unterminated(P) = SubSeq(P, b + 1, n)
  BY UnterminatedIs
<1>6. b = Max({0} \cup {p \in LineEnds(U) : p < n + 1})
  <2>1. {p \in LineEnds(P) : p < n + 1} = {p \in LineEnds(U) : p < n + 1}
    <3>0. U \in Seq(Symbol)
      BY <1>1
    <3>1. LineEnds(P) \subseteq Nat \ {0} /\ LineEnds(U) \subseteq Nat \ {0}
      <4>1. LineEnds(P) \subseteq 1 .. Len(P) /\ LineEnds(U) \subseteq 1 .. Len(U)
        BY <3>0, EndsAre
      <4> QED BY <1>1, <4>1
    <3>2. ASSUME NEW p \in Nat \ {0}, p < n + 1 PROVE p \in LineEnds(P) <=> p \in LineEnds(U)
      <4>1. p \in 1 .. n
        BY <1>1, <3>2
      <4> QED BY <1>2, <4>1 DEF SameUpTo
    <3> QED BY <3>1, <3>2
  <2> QED BY <2>1 DEF LastEnd
<1> HIDE DEF b
<1>7. SubSeq(U, b + 1, n) = SubSeq(P, b + 1, n)
  <2>1. b + 1 \in Nat /\ 1 <= b + 1 /\ n <= n /\ n <= Len(P) /\ n <= Len(U)
    BY <1>1, <1>5
  <2>2. \A i \in 1 .. n : P[i] = U[i]
    BY <1>1
  <2> QED BY <1>1, <2>1, <2>2, SamePieces
<1>8. CASE c \in EOL
  <2>1. LineAt(U, n + 1) = LineBetween(U, b, n + 1)
    BY <1>6 DEF LineAt
  <2>2. ~ (n + 1 > b + 1 /\ U[n + 1] = LF /\ U[(n + 1) - 1] = CR)
    <3> SUFFICES ASSUME n + 1 > b + 1, U[n + 1] = LF, U[(n + 1) - 1] = CR PROVE FALSE
      OBVIOUS
    <3>1. n > 0 /\ (n + 1) - 1 = n /\ n \in 1 .. n
      BY <1>1, <1>5
    <3> QED BY <1>1, <3>1
  <2>3. LineBetween(U, b, n + 1) = SubSeq(U, b + 1, (n + 1) - 1)
    BY <2>2 DEF LineBetween
  <2>4. (n + 1) - 1 = n
    BY <1>1
  <2>5. LineAt(U, n + 1) = Unterminated(P)
    BY <1>5, <1>7, <2>1, <2>3, <2>4
  <2>6. LinesTo(U, n + 1) = Append(LinesTo(U, n), LineAt(U, n + 1))
    BY <1>1, <1>8, LinesStep
  <2>7. Unterminated(U) = <<>>
    BY <1>1, <1>8, NoRest
  <2> QED BY <1>3, <1>4, <1>8, <2>5, <2>6, <2>7
<1>9. CASE c \notin EOL
  <2>1. LinesTo(U, n + 1) = LinesTo(U, n)
    BY <1>1, <1>9, LinesStep
  <2> DEFINE m == n + 1
             a == b + 1
  <2>2. LastEnd(U) = b
    <3>1. LineEnds(U) \subseteq 1 .. n + 1
      BY <1>1, EndsAre
    <3>2. {p \in LineEnds(U) : p < Len(U) + 1} = {p \in LineEnds(U) : p < n + 1}
      <4>1. ASSUME NEW p \in LineEnds(U) PROVE p < Len(U) + 1 /\ p < n + 1
        <5>1. p \in 1 .. n + 1 /\ p # n + 1
          BY <1>1, <1>9, <3>1
        <5> QED BY <1>1, <5>1
      <4> QED BY <4>1
    <3> QED BY <1>6, <3>2 DEF LastEnd
  <2>3. Unterminated(U) = SubSeq(U, a, m)
    BY <1>1, <2>2, UnterminatedIs
  <2>4. SubSeq(U, a, m) = Append(SubSeq(U, a, n), c)
    <3> DEFINE x == SubSeq(U, a, m)
               y == SubSeq(U, a, n)
    <3>1. /\ a \in Nat /\ m \in Nat /\ n \in Nat /\ 1 <= a /\ a - 1 <= m /\ a - 1 <= n /\ m <= Len(U)
          /\ n <= Len(U) /\ m = n + 1
      BY <1>1, <1>5
    <3>2. U \in Seq(Symbol)
      BY <1>1
    <3> HIDE DEF a, m
    <3>3. x \in Seq(Symbol) /\ Len(x) = m - a + 1 /\ \A i \in 1 .. m - a + 1 : x[i] = U[a + i - 1]
      BY <3>1, <3>2, PieceIs
    <3>4. y \in Seq(Symbol) /\ Len(y) = n - a + 1 /\ \A i \in 1 .. n - a + 1 : y[i] = U[a + i - 1]
      BY <3>1, <3>2, PieceIs
    <3> HIDE DEF x, y
    <3> DEFINE z == Append(y, c)
    <3>5. z \in Seq(Symbol) /\ Len(z) = Len(y) + 1 /\ (\A i \in 1 .. Len(y) : z[i] = y[i]) /\ z[Len(y) + 1] = c
      BY <3>4, AppendProperties
    <3> HIDE DEF z
    <3>6. Len(x) = Len(z)
      BY <3>1, <3>3, <3>4, <3>5
    <3>7. ASSUME NEW i \in 1 .. Len(x) PROVE x[i] = z[i]
      <4>1. CASE i <= Len(y)
        <5>1. i \in 1 .. Len(y) /\ i \in 1 .. n - a + 1 /\ i \in 1 .. m - a + 1
          BY <3>1, <3>3, <3>4, <4>1
        <5> QED BY <3>3, <3>4, <3>5, <5>1
      <4>2. CASE ~ (i <= Len(y))
        <5>0. Len(y) = n - a + 1
          BY <3>4
        <5>1. i \in 1 .. m - a + 1
          BY <3>3
        <5>2. i = m - a + 1
          BY <3>1, <4>2, <5>0, <5>1
        <5>3. i = Len(y) + 1
          BY <3>1, <5>0, <5>2
        <5>4. a + i - 1 = n + 1
          BY <3>1, <5>2
        <5> QED BY <1>1, <3>3, <3>5, <5>1, <5>3, <5>4
      <4> QED BY <4>1, <4>2
    <3>8. x = z
      BY <3>3, <3>5, <3>6, <3>7, SameElements
    <3> QED BY <3>8 DEF x, y, z
  <2>5. SubSeq(U, a, n) = Unterminated(P)
    BY <1>5, <1>7
  <2> HIDE DEF a, m
  <2> QED BY <1>3, <1>4, <1>9, <2>1, <2>3, <2>4, <2>5
<1> QED BY <1>8, <1>9

\* The LF of a CRLF.
LEMMA SecondOfTwo ==
  ASSUME NEW P \in Seq(Symbol), NEW U, U = Append(P, LF), NEW n, n = Len(P), n > 0, P[n] = CR
  PROVE  TerminatedLines(U) = TerminatedLines(P) /\ Unterminated(U) = <<>> /\ Unterminated(P) = <<>>
<1>0. LF \in Symbol /\ LF \in EOL /\ CR \in EOL /\ LF # CR
  BY DEF Symbol, EOL, LF, CR
<1>1. /\ n \in Nat /\ U \in Seq(Symbol) /\ Len(U) = n + 1 /\ U[n + 1] = LF
      /\ \A i \in 1 .. n : U[i] = P[i]
      /\ \A i \in 1 .. n - 1 : i \in LineEnds(P) <=> i \in LineEnds(U)
      /\ n + 1 \in LineEnds(U) /\ n \in LineEnds(P) /\ n \notin LineEnds(U)
  <2>1. OneMore(P, U, n, LF)
    BY <1>0, SymbolEnds
  <2> QED BY <1>0, <2>1 DEF OneMore
<1>2. Unterminated(U) = <<>> /\ Unterminated(P) = <<>>
  BY <1>1, NoRest
<1> DEFINE k == n - 1
<1>3. k \in Nat /\ k + 1 = n /\ k <= n
  BY <1>1
<1> HIDE DEF k
<1>4. SameUpTo(P, U, k)
  <2>1. ASSUME NEW i \in 1 .. k PROVE P[i] = U[i] /\ (i \in LineEnds(P) <=> i \in LineEnds(U))
    <3>1. i \in 1 .. n /\ i \in 1 .. n - 1
      BY <1>1, <1>3
    <3> QED BY <1>1, <3>1
  <2>2. k <= Len(P) /\ k <= Len(U)
    BY <1>1, <1>3
  <2> QED BY <2>1, <2>2 DEF SameUpTo
<1>5. LinesTo(P, k) = LinesTo(U, k)
  BY <1>1, <1>3, <1>4, SameLinesTo
<1>6. TerminatedLines(P) = LinesTo(P, n) /\ TerminatedLines(U) = LinesTo(U, n + 1)
  BY <1>1, TerminatedAre
<1>7. LinesTo(P, k + 1) = Append(LinesTo(P, k), LineAt(P, k + 1))
  BY <1>1, <1>3, LinesStep
<1>8. LinesTo(U, k + 1) = LinesTo(U, k)
  BY <1>1, <1>3, LinesStep
<1>9. LinesTo(U, n + 1) = Append(LinesTo(U, n), LineAt(U, n + 1))
  BY <1>1, LinesStep
<1> DEFINE b == Max({0} \cup {p \in LineEnds(P) : p < n})
<1>10. b \in 0 .. n - 1
  BY <1>1, BeginIs
<1>11. {p \in LineEnds(P) : p < n} = {p \in LineEnds(U) : p < n + 1}
  <2>0. U \in Seq(Symbol)
    BY <1>1
  <2>1. LineEnds(P) \subseteq Nat \ {0} /\ LineEnds(U) \subseteq Nat \ {0}
    <3>1. LineEnds(P) \subseteq 1 .. Len(P) /\ LineEnds(U) \subseteq 1 .. Len(U)
      BY <2>0, EndsAre
    <3> QED BY <1>1, <3>1
  <2>2. ASSUME NEW p \in Nat \ {0}
        PROVE  p \in LineEnds(P) /\ p < n <=> p \in LineEnds(U) /\ p < n + 1
    <3>1. CASE p < n
      <4>1. p \in 1 .. n - 1 /\ p < n + 1
        BY <1>1, <3>1
      <4> QED BY <1>1, <3>1, <4>1
    <3>2. CASE ~ (p < n)
      <4>1. p < n + 1 => p = n
        BY <1>1, <3>2
      <4> QED BY <1>1, <3>2, <4>1
    <3> QED BY <3>1, <3>2
  <2> QED BY <2>1, <2>2
<1>12. LineAt(P, n) = LineBetween(P, b, n) /\ LineAt(U, n + 1) = LineBetween(U, b, n + 1)
  BY <1>11 DEF LineAt
<1> HIDE DEF b
<1>13. LineBetween(P, b, n) = SubSeq(P, b + 1, n - 1)
  BY <1>0 DEF LineBetween
<1>14. LineBetween(U, b, n + 1) = SubSeq(U, b + 1, (n + 1) - 2)
  <2>1. n + 1 > b + 1 /\ (n + 1) - 1 = n /\ n \in 1 .. n
    BY <1>1, <1>10
  <2>2. U[(n + 1) - 1] = CR
    BY <1>1, <2>1
  <2> QED BY <1>1, <2>1, <2>2 DEF LineBetween
<1>15. SubSeq(P, b + 1, k) = SubSeq(U, b + 1, k)
  <2>1. b + 1 \in Nat /\ 1 <= b + 1 /\ k <= n /\ n <= Len(P) /\ n <= Len(U)
    BY <1>1, <1>3, <1>10
  <2>2. \A i \in 1 .. n : P[i] = U[i]
    BY <1>1
  <2> QED BY <1>1, <1>3, <2>1, <2>2, SamePieces
<1>16. n - 1 = k /\ (n + 1) - 2 = k
  BY <1>1, <1>3
<1>17. LineAt(P, n) = LineAt(U, n + 1)
  BY <1>12, <1>13, <1>14, <1>15, <1>16
<1>18. TerminatedLines(U) = TerminatedLines(P)
  BY <1>3, <1>5, <1>6, <1>7, <1>8, <1>9, <1>17
<1> QED BY <1>2, <1>18

-----------------------------------------------------------------------------
(* forEachLine finds them.                                                  *)

\* The lines there are, and the states of forEachLine's loop.
AllLines == {x \in Seq(Symbol) : OneLine(x)}
WalkStates == [lines : Seq(AllLines), line : AllLines, cr : BOOLEAN]

\* One symbol more, if it breaks no line.
LEMMA LongerLine ==
  ASSUME NEW x \in AllLines, NEW c \in Symbol, c \notin EOL
  PROVE  Append(x, c) \in AllLines
<1> DEFINE y == Append(x, c)
           n == Len(x)
<1>1. x \in Seq(Symbol) /\ \A i \in 1 .. n : x[i] \notin EOL
  BY DEF AllLines, OneLine
<1>2. y \in Seq(Symbol) /\ Len(y) = n + 1 /\ (\A i \in 1 .. n : y[i] = x[i]) /\ y[n + 1] = c /\ n \in Nat
  BY <1>1, AppendProperties
<1> HIDE DEF y, n
<1>3. ASSUME NEW i \in 1 .. Len(y) PROVE y[i] \notin EOL
  <2>1. i \in 1 .. n \/ i = n + 1
    BY <1>2
  <2> QED BY <1>1, <1>2, <2>1
<1>4. y \in AllLines
  BY <1>2, <1>3 DEF AllLines, OneLine
<1> QED BY <1>4 DEF y

\* No text is a line.
LEMMA EmptyLine == <<>> \in AllLines
  BY DEF AllLines, OneLine

\* Walk leaves such a state.
LEMMA WalkStays ==
  ASSUME NEW st \in WalkStates, NEW c \in Symbol
  PROVE  Walk(st, c) \in WalkStates
<1>1. st.lines \in Seq(AllLines) /\ st.line \in AllLines /\ st.cr \in BOOLEAN
  BY DEF WalkStates
<1>2. CASE c = LF /\ st.cr
  BY <1>2 DEF Walk, WalkStates
<1>3. CASE ~ (c = LF /\ st.cr) /\ c \in EOL
  <2> DEFINE l == Append(st.lines, st.line)
             b == (c = CR)
  <2>1. l \in Seq(AllLines)
    BY <1>1, AppendProperties
  <2>2. b \in BOOLEAN
    OBVIOUS
  <2>3. Walk(st, c) = [lines |-> l, line |-> <<>>, cr |-> b]
    BY <1>3 DEF Walk
  <2> HIDE DEF l, b
  <2> QED BY <2>1, <2>2, <2>3, EmptyLine DEF WalkStates
<1>4. CASE ~ (c = LF /\ st.cr) /\ c \notin EOL
  <2> DEFINE l == Append(st.line, c)
  <2>1. l \in AllLines
    BY <1>1, <1>4, LongerLine
  <2>2. Walk(st, c) = [st EXCEPT !.line = l, !.cr = FALSE]
    BY <1>4 DEF Walk, WalkStates
  <2> HIDE DEF l
  <2> QED BY <2>1, <2>2 DEF WalkStates
<1> QED BY <1>2, <1>3, <1>4

\* Before the first symbol.
NoWalk == [lines |-> <<>>, line |-> <<>>, cr |-> FALSE]

\* WalkAll is the last of the states.
LEMMA WalkAllValue ==
  ASSUME NEW s \in Seq(Symbol)
  PROVE  \E F \in [0 .. Len(s) -> WalkStates] :
           /\ F[0] = NoWalk /\ \A k \in 1 .. Len(s) : F[k] = Walk(F[k - 1], s[k])
           /\ WalkAll(s) = F[Len(s)]
<1> DEFINE n == Len(s)
           S == WalkStates
           G == [k \in 1 .. n |-> [t \in S |-> Walk(t, s[k])]]
<1>1. n \in Nat
  OBVIOUS
<1>0. NoWalk \in S
  BY EmptyLine DEF WalkStates, NoWalk
<1> HIDE DEF S
<1>2. ASSUME NEW k \in 1 .. n, NEW t \in S PROVE Walk(t, s[k]) \in S
  <2>1. s[k] \in Symbol
    OBVIOUS
  <2> QED BY <2>1, WalkStays DEF S
<1>3. StepsOn(G, n, S)
  BY <1>2 DEF StepsOn
<1> HIDE DEF G, n
<1>a. PICK F : RecursiveUpTo(F, n, S, NoWalk, G)
  BY <1>0, <1>1, <1>3, Recursion
<1>4. F \in [0 .. n -> S] /\ F[0] = NoWalk /\ \A k \in 1 .. n : F[k] = G[k][F[k - 1]]
  BY <1>a DEF RecursiveUpTo
<1>5. ASSUME NEW k \in 1 .. n PROVE F[k] = Walk(F[k - 1], s[k])
  <2>1. k - 1 \in 0 .. n
    BY <1>1
  <2>2. F[k - 1] \in S
    BY <1>4, <2>1
  <2> QED BY <1>4, <2>2 DEF G
<1>6. F = [i \in 0 .. n |-> IF i = 0 THEN NoWalk ELSE Walk(F[i - 1], s[i])]
  <2>1. ASSUME NEW i \in 0 .. n PROVE F[i] = IF i = 0 THEN NoWalk ELSE Walk(F[i - 1], s[i])
    <3>1. i = 0 \/ i \in 1 .. n
      BY <1>1
    <3> QED BY <1>4, <1>5, <3>1
  <2> QED BY <1>4, <2>1
<1>7. \E H : /\ H = [i \in 0 .. n |-> IF i = 0 THEN NoWalk ELSE Walk(H[i - 1], s[i])]
             /\ WalkAll(s) = H[n]
  BY <1>6 DEF WalkAll, NoWalk, n
<1>8. PICK H : /\ H = [i \in 0 .. n |-> IF i = 0 THEN NoWalk ELSE Walk(H[i - 1], s[i])]
               /\ WalkAll(s) = H[n]
  BY <1>7
<1>9. \A i \in 0 .. n : H[i] = F[i]
  <2> DEFINE U == {i \in 0 .. n : H[i] = F[i]}
  <2>1. 0 \in U
    BY <1>1, <1>4, <1>8
  <2>2. ASSUME NEW i \in 0 .. n - 1, i \in U PROVE i + 1 \in U
    <3> DEFINE k == i + 1
    <3>1. k \in 1 .. n /\ k \in 0 .. n /\ k # 0 /\ k - 1 = i
      BY <1>1
    <3> HIDE DEF k
    <3>2. H[k] = Walk(H[k - 1], s[k])
      BY <1>8, <3>1
    <3>3. H[k] = F[k]
      BY <1>5, <2>2, <3>1, <3>2
    <3> QED BY <3>1, <3>3 DEF k
  <2>3. \A i \in 0 .. n : i \in U
    <3> HIDE DEF U
    <3> QED BY <1>1, <2>1, <2>2, InductionUpTo
  <2> QED BY <2>3
<1>10. WalkAll(s) = F[n]
  BY <1>1, <1>8, <1>9
<1> QED BY <1>4, <1>5, <1>10 DEF n, S

\* What the loop has found after a text: its lines, the rest, and whether the
\* LF of a CRLF may follow.
Found(T) == [lines |-> TerminatedLines(T), line |-> Unterminated(T),
             cr    |-> Len(T) > 0 /\ T[Len(T)] = CR]

\* One symbol more.
LEMMA FoundMore ==
  ASSUME NEW P \in Seq(Symbol), NEW c \in Symbol
  PROVE  Found(Append(P, c)) = Walk(Found(P), c)
<1> DEFINE U == Append(P, c)
           n == Len(P)
<1>1. n \in Nat /\ Len(U) = n + 1 /\ U[n + 1] = c
  BY AppendProperties
<1>2. LF # CR /\ LF \in EOL /\ CR \in EOL
  BY DEF LF, CR, EOL
<1>3. Found(U) = [lines |-> TerminatedLines(U), line |-> Unterminated(U), cr |-> c = CR]
  <2>1. (Len(U) > 0 /\ U[Len(U)] = CR) <=> (c = CR)
    BY <1>1
  <2> QED BY <2>1 DEF Found
<1> DEFINE b == n > 0 /\ P[n] = CR
           st == Found(P)
<1>4. st = [lines |-> TerminatedLines(P), line |-> Unterminated(P), cr |-> b]
  BY DEF Found
<1>5. CASE c = LF /\ b
  <2>1. U = Append(P, LF) /\ n = Len(P) /\ n > 0 /\ P[n] = CR
    BY <1>5
  <2>2. TerminatedLines(U) = TerminatedLines(P) /\ Unterminated(U) = <<>> /\ Unterminated(P) = <<>>
    <3> HIDE DEF U, n
    <3> QED BY <2>1, SecondOfTwo
  <2> HIDE DEF U, st
  <2>3. Walk(st, c) = [st EXCEPT !.cr = FALSE]
    BY <1>4, <1>5 DEF Walk
  <2>4. (c = CR) = FALSE
    BY <1>2, <1>5
  <2>5. Found(U) = Walk(st, c)
    BY <1>3, <1>4, <2>2, <2>3, <2>4
  <2> QED BY <2>5 DEF U, st
<1>6. CASE ~ (c = LF /\ b)
  <2>1. U = Append(P, c) /\ n = Len(P) /\ ~ (n > 0 /\ P[n] = CR /\ c = LF)
    BY <1>6
  <2>2. /\ TerminatedLines(U) = IF c \in EOL THEN Append(TerminatedLines(P), Unterminated(P))
                                ELSE TerminatedLines(P)
        /\ Unterminated(U) = IF c \in EOL THEN <<>> ELSE Append(Unterminated(P), c)
    <3> HIDE DEF U, n
    <3> QED BY <2>1, SymbolMore
  <2> HIDE DEF U, st
  <2>3. ~ (c = LF /\ st.cr) /\ st.lines = TerminatedLines(P) /\ st.line = Unterminated(P)
    BY <1>4, <1>6
  <2>4. CASE c \in EOL
    <3>1. Walk(st, c) = [lines |-> Append(st.lines, st.line), line |-> <<>>, cr |-> c = CR]
      BY <2>3, <2>4 DEF Walk
    <3>2. Found(U) = Walk(st, c)
      BY <1>3, <2>2, <2>3, <2>4, <3>1
    <3> QED BY <3>2 DEF U, st
  <2>5. CASE c \notin EOL
    <3>1. Walk(st, c) = [st EXCEPT !.line = Append(@, c), !.cr = FALSE]
      BY <2>3, <2>5 DEF Walk
    <3>2. (c = CR) = FALSE
      BY <1>2, <2>5
    <3>3. Found(U) = Walk(st, c)
      BY <1>3, <1>4, <2>2, <2>3, <2>5, <3>1, <3>2
    <3> QED BY <3>3 DEF U, st
  <2> QED BY <2>4, <2>5
<1> QED BY <1>5, <1>6

\* Before the first symbol, too.
LEMMA FoundNothing == Found(<<>>) = NoWalk
<1>1. Len(<<>>) = 0 /\ <<>> \in Seq(Symbol) /\ ~ (Len(<<>>) > 0)
  OBVIOUS
<1>2. LineEnds(<<>>) = {}
  BY DEF LineEnds
<1>3. TerminatedLines(<<>>) = <<>>
  <2>1. Ascending(LineEnds(<<>>), 0) = <<>>
    BY AscendingNone
  <2>2. TerminatedLines(<<>>) = LinesTo(<<>>, 0)
    BY <1>1, TerminatedAre
  <2> QED BY <2>1, <2>2 DEF LinesTo
<1>4. Unterminated(<<>>) = <<>>
  BY <1>1, <1>2, SubSeqEmpty DEF Unterminated
<1> QED BY <1>1, <1>3, <1>4 DEF Found, NoWalk

\* What forEachLine's loop ends with.
LEMMA WalkFinds ==
  ASSUME NEW s \in Seq(Symbol)
  PROVE  WalkAll(s) = Found(s) /\ WalkAll(s) \in WalkStates
<1> DEFINE n == Len(s)
<1>1. PICK F \in [0 .. n -> WalkStates] :
        /\ F[0] = NoWalk /\ \A k \in 1 .. n : F[k] = Walk(F[k - 1], s[k])
        /\ WalkAll(s) = F[n]
  BY WalkAllValue
<1>2. n \in Nat
  OBVIOUS
<1> DEFINE U == {k \in 0 .. n : F[k] = Found(Take(s, k))}
<1>3. 0 \in U
  <2>1. Take(s, 0) = <<>>
    BY SubSeqEmpty DEF Take
  <2> QED BY <1>1, <1>2, <2>1, FoundNothing
<1>4. ASSUME NEW i \in 0 .. n - 1, i \in U PROVE i + 1 \in U
  <2> DEFINE k == i + 1
             c == s[k]
             P == Take(s, i)
  <2>1. k \in 1 .. n /\ k \in 0 .. n /\ k - 1 = i /\ i \in 0 .. n
    BY <1>2
  <2>2. c \in Symbol
    BY <2>1
  <2>3. P \in Seq(Symbol)
    BY <2>1, TakeIs
  <2>4. Take(s, k) = Append(P, c)
    <3> HIDE DEF k
    <3> QED BY <2>1, TakeMore
  <2>5. F[i] = Found(P)
    BY <1>4
  <2>6. F[k] = Walk(F[i], c)
    <3> HIDE DEF k
    <3> QED BY <1>1, <2>1
  <2> HIDE DEF c, P, k
  <2>7. Found(Append(P, c)) = Walk(Found(P), c)
    BY <2>2, <2>3, FoundMore
  <2>8. k \in U
    BY <2>1, <2>4, <2>5, <2>6, <2>7
  <2> QED BY <2>8 DEF k
<1>5. n \in U
  <2> HIDE DEF U, n
  <2>1. \A i \in 0 .. n : i \in U
    BY <1>2, <1>3, <1>4, InductionUpTo
  <2> QED BY <1>2, <2>1
<1>6. Take(s, n) = s
  BY SubSeqFull DEF Take
<1>7. F[n] \in WalkStates
  BY <1>1, <1>2
<1> HIDE DEF n
<1> QED BY <1>1, <1>5, <1>6, <1>7

\* A text without a rest ends in a line break.
LEMMA RestEnds ==
  ASSUME NEW s \in Seq(Symbol), s # <<>>, Unterminated(s) = <<>>
  PROVE  Len(s) \in LineEnds(s)
<1> DEFINE n == Len(s)
           b == LastEnd(s)
           E == {0} \cup {p \in LineEnds(s) : p < n + 1}
<1>1. n \in Nat /\ n > 0
  BY EmptySeq
<1>2. b \in 0 .. n /\ SubSeq(s, b + 1, n) = <<>>
  BY UnterminatedIs
<1>3. LineEnds(s) \subseteq 1 .. n
  BY EndsAre
<1>4. b \in E
  <2>1. E \subseteq 0 .. n /\ E # {}
    BY <1>1, <1>3
  <2>2. b = Max(E)
    BY DEF LastEnd
  <2> HIDE DEF E, n, b
  <2> QED BY <1>1, <2>1, <2>2, MaxExists
<1> HIDE DEF b
<1>5. b = n
  <2> SUFFICES ASSUME b # n PROVE FALSE
    OBVIOUS
  <2>1. b + 1 \in 1 .. n /\ b + 1 \in Nat /\ 1 <= b + 1 /\ (b + 1) - 1 <= n /\ n - (b + 1) + 1 > 0
    BY <1>1, <1>2
  <2> DEFINE a == b + 1
  <2> HIDE DEF a
  <2>2. a \in Nat /\ 1 <= a /\ a - 1 <= n /\ n - a + 1 > 0 /\ n <= Len(s)
    BY <1>1, <2>1 DEF a
  <2>3. Len(SubSeq(s, a, n)) = n - a + 1
    <3> HIDE DEF n
    <3> QED BY <1>1, <2>2, PieceIs
  <2>4. SubSeq(s, a, n) = <<>>
    BY <1>2 DEF a
  <2>5. Len(<<>>) = 0
    OBVIOUS
  <2> HIDE DEF n
  <2> QED BY <2>2, <2>3, <2>4, <2>5
<1> QED BY <1>1, <1>4, <1>5

\* A text has a line or a rest.
LEMMA SomethingFound ==
  ASSUME NEW s \in Seq(Symbol), s # <<>>, Unterminated(s) = <<>>
  PROVE  TerminatedLines(s) # <<>>
<1> DEFINE n == Len(s)
<1>1. n \in Nat /\ n > 0
  BY EmptySeq
<1>6. n \in LineEnds(s)
  BY RestEnds
<1> DEFINE k == n - 1
<1>7. k \in Nat /\ k + 1 = n
  BY <1>1
<1> HIDE DEF k
<1>8. LinesTo(s, k + 1) = Append(LinesTo(s, k), LineAt(s, k + 1))
  BY <1>6, <1>7, LinesStep
<1>9. TerminatedLines(s) = LinesTo(s, k + 1)
  BY <1>7, TerminatedAre
<1>10. LinesTo(s, k) \in Seq({LineAt(s, p) : p \in Nat})
  <2> DEFINE A == Ascending(LineEnds(s), k)
  <2>1. A \in Seq(Nat)
    BY <1>7, LinesToAre
  <2> HIDE DEF A
  <2>2. LinesTo(s, k) = [i \in DOMAIN A |-> LineAt(s, A[i])]
    BY DEF A, LinesTo
  <2>3. DOMAIN A = 1 .. Len(A) /\ Len(A) \in Nat /\ \A i \in 1 .. Len(A) : A[i] \in Nat
    BY <2>1
  <2> QED BY <2>2, <2>3
<1> DEFINE t == LinesTo(s, k)
           l == LineAt(s, k + 1)
<1>11. Len(Append(t, l)) = Len(t) + 1 /\ Len(t) \in Nat
  <2>1. t \in Seq({LineAt(s, p) : p \in Nat}) /\ l \in {LineAt(s, p) : p \in Nat}
    BY <1>7, <1>10
  <2> HIDE DEF t, l
  <2> QED BY <2>1, AppendProperties
<1> HIDE DEF t, l
<1>12. Append(t, l) # <<>>
  <2>1. Len(<<>>) = 0
    OBVIOUS
  <2>2. Len(Append(t, l)) # 0
    BY <1>11
  <2> QED BY <2>1, <2>2
<1> QED BY <1>8, <1>9, <1>12 DEF t, l

\* The lines that forEachLine yields.
GoodLines(lines) ==
    lines \in Seq(Seq(Symbol)) /\ lines # <<>> /\ \A i \in 1 .. Len(lines) : OneLine(lines[i])

\* Lines without line breaks are such.
LEMMA LinesAreGood ==
  ASSUME NEW lines \in Seq(AllLines), lines # <<>>
  PROVE  GoodLines(lines)
<1>1. AllLines \subseteq Seq(Symbol)
  BY DEF AllLines
<1>2. lines \in Seq(Seq(Symbol))
  BY <1>1, SeqMonotonic
<1>3. ASSUME NEW i \in 1 .. Len(lines) PROVE OneLine(lines[i])
  <2>1. lines[i] \in AllLines
    BY ElementOfSeq
  <2> QED BY <2>1 DEF AllLines
<1> QED BY <1>2, <1>3 DEF GoodLines

\* They are the lines of the text.
LEMMA LinesFound ==
  ASSUME NEW s \in Seq(Symbol)
  PROVE  ForEachLine(s) = DataLines(s) /\ GoodLines(DataLines(s))
<1> DEFINE w == WalkAll(s)
<1>1. w = Found(s) /\ w \in WalkStates
  BY WalkFinds
<1> HIDE DEF w
<1>2. w.lines = TerminatedLines(s) /\ w.line = Unterminated(s)
  BY <1>1 DEF Found
<1>3. w.lines \in Seq(AllLines) /\ w.line \in AllLines
  BY <1>1 DEF WalkStates
<1> DEFINE l == w.lines
           r == w.line
<1>4. l \in Seq(AllLines) /\ r \in AllLines /\ l = TerminatedLines(s) /\ r = Unterminated(s)
  BY <1>2, <1>3
<1>5. ForEachLine(s) = IF s = Empty THEN <<Empty>> ELSE IF r # <<>> THEN Append(l, r) ELSE l
  BY DEF ForEachLine, w
<1> HIDE DEF l, r
<1>6. DataLines(s) = IF s = Empty THEN <<Empty>> ELSE l \o (IF r = <<>> THEN <<>> ELSE <<r>>)
  BY <1>4 DEF DataLines
<1>7. CASE s = Empty
  <2>1. <<Empty>> \in Seq(AllLines) /\ <<Empty>> # <<>>
    BY EmptyLine DEF Empty
  <2>2. GoodLines(<<Empty>>)
    BY <2>1, LinesAreGood
  <2> QED BY <1>5, <1>6, <1>7, <2>2
<1>8. CASE s # Empty /\ r # <<>>
  <2>1. l \o <<r>> = Append(l, r)
    BY <1>4, AppendIsConcat
  <2>2. Append(l, r) \in Seq(AllLines) /\ Len(Append(l, r)) = Len(l) + 1 /\ Len(l) \in Nat
    BY <1>4, AppendProperties
  <2> DEFINE m == Append(l, r)
  <2>3. m \in Seq(AllLines) /\ m # <<>>
    <3>1. Len(m) # 0 /\ Len(<<>>) = 0
      BY <2>2
    <3> HIDE DEF m
    <3>2. m # <<>>
      BY <3>1
    <3> QED BY <2>2, <3>2 DEF m
  <2>4. GoodLines(m)
    <3> HIDE DEF m
    <3> QED BY <2>3, LinesAreGood
  <2> QED BY <1>5, <1>6, <1>8, <2>1, <2>4
<1>9. CASE s # Empty /\ r = <<>>
  <2>1. l \o <<>> = l
    BY <1>4, ConcatEmptySeq
  <2>2. l # <<>>
    BY <1>4, <1>9, SomethingFound DEF Empty
  <2>3. GoodLines(l)
    BY <1>4, <2>2, LinesAreGood
  <2> QED BY <1>5, <1>6, <1>9, <2>1, <2>3
<1> QED BY <1>7, <1>8, <1>9

-----------------------------------------------------------------------------
(* Streams of events and heartbeats.                                        *)

\* Texts that do not begin as a BOM does.
PlainTexts == {T \in Seq(Symbol) : T # <<>> => T[1] # BOM[1]}

\* They may be put together.
LEMMA PlainJoinable == Joinable(PlainTexts)
<1>1. PlainTexts \subseteq Seq(Symbol) /\ <<>> \in PlainTexts
  BY DEF PlainTexts
<1>2. ASSUME NEW a \in PlainTexts, NEW b \in PlainTexts PROVE a \o b \in PlainTexts
  <2>1. a \in Seq(Symbol) /\ b \in Seq(Symbol)
    BY <1>1
  <2>2. CASE a = <<>>
    <3>1. a \o b = b
      BY <2>1, <2>2, ConcatEmptySeq
    <3> QED BY <3>1
  <2>3. CASE a # <<>>
    <3>1. Len(a) \in Nat /\ Len(a) >= 1 /\ 1 \in 1 .. Len(a)
      BY <2>1, <2>3, EmptySeq
    <3>2. a[1] # BOM[1]
      BY <2>3 DEF PlainTexts
    <3>3. a \o b \in Seq(Symbol) /\ (a \o b)[1] = a[1]
      BY <2>1, <3>1, ConcatProperties
    <3> QED BY <3>2, <3>3 DEF PlainTexts
  <2> QED BY <2>2, <2>3
<1>3. ASSUME NEW a \in PlainTexts PROVE <<>> \o a = a
  BY <1>1, ConcatEmptySeq
<1> QED BY <1>1, <1>2, <1>3 DEF Joinable

\* A field that WriteEvent writes is such a text.
LEMMA FieldPlain ==
  ASSUME NEW name \in FieldNames, NEW v \in Seq(Symbol)
  PROVE  Field(name, v) \in PlainTexts /\ OptionalField(name, v) \in PlainTexts
<1> DEFINE f == <<name, Space>> \o v
<1>1. name \in Symbol /\ Space \in Symbol /\ LF \in Symbol
  BY DEF Symbol, EOL
<1>2. <<name, Space>> \in Seq(Symbol) /\ <<LF>> \in Seq(Symbol) /\ Len(<<name, Space>>) = 2 /\ <<name, Space>>[1] = name
  BY <1>1
<1> DEFINE h == <<name, Space>>
<1>3. h \in Seq(Symbol) /\ Len(h) = 2 /\ h[1] = name /\ f = h \o v
  BY <1>2
<1> HIDE DEF h
<1>4. f \in Seq(Symbol) /\ Len(f) = 2 + Len(v) /\ f[1] = name /\ Len(v) \in Nat
  <2>1. h \in Seq(Symbol) /\ Len(v) \in Nat
    BY <1>3
  <2>2. h \o v \in Seq(Symbol)
    BY <2>1, ConcatProperties
  <2>3. Len(h \o v) = Len(h) + Len(v)
    BY <2>1, ConcatProperties
  <2>4. 1 \in 1 .. Len(h)
    BY <1>3
  <2>5. (h \o v)[1] = h[1]
    BY <2>1, <2>4, ConcatProperties
  <2> QED BY <1>3, <2>1, <2>2, <2>3, <2>5
<1>5. Field(name, v) = f \o <<LF>>
  BY DEF Field
<1> HIDE DEF f
<1>6. f \o <<LF>> \in Seq(Symbol) /\ (f \o <<LF>>)[1] = name
  BY <1>2, <1>4, ConcatProperties
<1>7. name # BOM[1]
  BY DEF FieldNames, BOM
<1>8. Field(name, v) \in PlainTexts
  BY <1>5, <1>6, <1>7 DEF PlainTexts
<1>9. <<>> \in PlainTexts
  BY DEF PlainTexts
<1> QED BY <1>8, <1>9 DEF OptionalField

\* A heartbeat, and a blank line.
LEMMA HeartbeatPlain == WriteHeartbeat \in PlainTexts /\ <<LF>> \in PlainTexts
<1>1. ":" \in Symbol /\ Space \in Symbol /\ "x" \in Symbol /\ LF \in Symbol
  BY DEF Symbol, EOL
<1>2. WriteHeartbeat \in Seq(Symbol) /\ <<LF>> \in Seq(Symbol)
  BY <1>1 DEF WriteHeartbeat
<1>3. WriteHeartbeat[1] = ":" /\ <<LF>>[1] = "LF" /\ BOM[1] = "b1"
  BY DEF WriteHeartbeat, LF, BOM
<1> QED BY <1>2, <1>3 DEF PlainTexts

\* What is put together from them.
LEMMA FlattenPlain ==
  ASSUME NEW p \in Seq(PlainTexts)
  PROVE  FlattenSeq(p) \in PlainTexts
<1>1. PICK F : Pieces(F, p, PlainTexts)
  BY PlainJoinable, FlattenValue
<1>2. Len(p) \in 0 .. Len(p)
  OBVIOUS
<1> QED BY <1>1, <1>2 DEF Pieces

\* The frame of an event.
LEMMA FramePlain ==
  ASSUME NEW limit, NEW e \in Writable(limit)
  PROVE  WriteEvent(e) \in PlainTexts
<1> DEFINE A == OptionalField("event:", e.event)
           l == ForEachLine(e.data)
           B == DataFields(l)
           C == OptionalField("id:", e.id)
           D == OptionalField("retry:", e.retry)
<1>1. e.event \in Seq(Symbol) /\ e.data \in Seq(Symbol) /\ e.id \in Seq(Symbol) /\ e.retry \in Seq(Digits)
  BY DEF Writable
<1>2. e.retry \in Seq(Symbol)
  BY <1>1, DigitsAre
<1>3. "event:" \in FieldNames /\ "id:" \in FieldNames /\ "retry:" \in FieldNames /\ "data:" \in FieldNames
  BY DEF FieldNames
<1>4. A \in PlainTexts
  BY <1>1, <1>3, FieldPlain
<1>5. C \in PlainTexts
  BY <1>1, <1>3, FieldPlain
<1>6. D \in PlainTexts
  BY <1>2, <1>3, FieldPlain
<1>7. B \in PlainTexts
  <2>1. l \in Seq(Seq(Symbol))
    BY <1>1, LinesFound DEF GoodLines
  <2> HIDE DEF l
  <2> DEFINE p == [i \in DOMAIN l |-> Field("data:", l[i])]
  <2>2. \A i \in DOMAIN l : Field("data:", l[i]) \in PlainTexts
    BY <1>3, <2>1, FieldPlain
  <2>3. p \in Seq(PlainTexts)
    BY <2>1, <2>2
  <2> HIDE DEF p
  <2>4. FlattenSeq(p) \in PlainTexts
    BY <2>3, FlattenPlain
  <2> QED BY <2>4 DEF p, DataFields
<1>8. WriteEvent(e) = (((A \o B) \o C) \o D) \o <<LF>>
  BY DEF WriteEvent
<1> HIDE DEF A, B, C, D
<1> DEFINE AB == A \o B
           ABC == AB \o C
           ABCD == ABC \o D
<1>0. \A a, b \in PlainTexts : a \o b \in PlainTexts
  BY PlainJoinable DEF Joinable
<1>9. AB \in PlainTexts
  BY <1>0, <1>4, <1>7
<1> HIDE DEF AB
<1>10. ABC \in PlainTexts
  BY <1>0, <1>5, <1>9
<1> HIDE DEF ABC
<1>11. ABCD \in PlainTexts
  BY <1>0, <1>6, <1>10
<1> HIDE DEF ABCD
<1>12. ABCD \o <<LF>> \in PlainTexts
  BY <1>0, <1>11, HeartbeatPlain
<1> QED BY <1>8, <1>12 DEF AB, ABC, ABCD

\* Heartbeats are a text that leaves what there is.
LEMMA HeartbeatsSay ==
  ASSUME NEW limit, NEW T, NEW evs, NEW id, NEW ms, Says(T, limit, evs, Empty, <<>>, id, ms), NEW n \in Nat
  PROVE  Says(T \o Heartbeats(n), limit, evs, Empty, <<>>, id, ms)
<1> DEFINE p == [i \in 1 .. n |-> WriteHeartbeat]
           h == WriteHeartbeat
<1>1. h \in Seq(Symbol)
  BY HeartbeatPlain DEF PlainTexts
<1>2. p \in Seq(Seq(Symbol)) /\ Len(p) = n /\ \A k \in 1 .. n : p[k] = h
  BY <1>1
<1>3. Heartbeats(n) = FlattenSeq(p)
  BY DEF Heartbeats
<1> HIDE DEF p
<1>4. PICK F : Pieces(F, p, Seq(Symbol))
  BY <1>2, SeqJoinable, FlattenValue
<1>5. /\ F \in [0 .. n -> Seq(Symbol)] /\ F[0] = <<>> /\ Heartbeats(n) = F[n]
      /\ \A k \in 1 .. n : F[k] = F[k - 1] \o h
  BY <1>2, <1>3, <1>4 DEF Pieces
<1>6. T \in Seq(Symbol)
  BY DEF Says, Settled
<1> DEFINE U == {k \in 0 .. n : Says(T \o F[k], limit, evs, Empty, <<>>, id, ms)}
<1>7. 0 \in U
  <2>1. T \o <<>> = T
    BY <1>6, ConcatEmptySeq
  <2>2. T \o F[0] = T
    BY <1>5, <2>1
  <2>3. Says(T \o F[0], limit, evs, Empty, <<>>, id, ms)
    BY <2>2
  <2>4. 0 \in 0 .. n
    OBVIOUS
  <2> QED BY <2>3, <2>4
<1>8. ASSUME NEW i \in 0 .. n - 1, i \in U PROVE i + 1 \in U
  <2> DEFINE k == i + 1
             f == F[i]
  <2>1. k \in 1 .. n /\ k \in 0 .. n /\ k - 1 = i /\ i \in 0 .. n
    OBVIOUS
  <2>2. Says(T \o f, limit, evs, Empty, <<>>, id, ms)
    BY <1>8
  <2>3. f \in Seq(Symbol) /\ F[k] = f \o h
    <3> HIDE DEF k, h
    <3> QED BY <1>5, <2>1
  <2> HIDE DEF k, f
  <2>4. Says((T \o f) \o h, limit, evs, Empty, <<>>, id, ms)
    <3> DEFINE g == T \o f
    <3> HIDE DEF g
    <3>1. Says(g, limit, evs, Empty, <<>>, id, ms)
      BY <2>2 DEF g
    <3>2. Says(g \o WriteHeartbeat, limit, evs, Empty, <<>>, id, ms)
      BY <3>1, HeartbeatSays
    <3> QED BY <3>2 DEF g
  <2>5. (T \o f) \o h = T \o (f \o h)
    <3> HIDE DEF h
    <3> QED BY <1>1, <1>6, <2>3, Joined
  <2> HIDE DEF h
  <2>6. k \in U
    BY <2>1, <2>3, <2>4, <2>5
  <2> QED BY <2>6 DEF k
<1>9. n \in U
  <2> HIDE DEF U
  <2>1. \A i \in 0 .. n : i \in U
    BY <1>7, <1>8, InductionUpTo
  <2> QED BY <2>1
<1> QED BY <1>5, <1>9

\* Heartbeats.
LEMMA HeartbeatsPlain ==
  ASSUME NEW n \in Nat
  PROVE  Heartbeats(n) \in PlainTexts
<1> DEFINE p == [i \in 1 .. n |-> WriteHeartbeat]
<1>1. p \in Seq(PlainTexts)
  BY HeartbeatPlain
<1>2. Heartbeats(n) = FlattenSeq(p)
  BY DEF Heartbeats
<1> HIDE DEF p
<1> QED BY <1>1, <1>2, FlattenPlain

\* The value that one more leaves.
LEMMA LatestMore ==
  ASSUME NEW values, NEW k \in Nat \ {0}
  PROVE  Latest(values, k) = IF values[k] = Empty THEN Latest(values, k - 1) ELSE values[k]
<1> DEFINE S == {i \in 1 .. k : values[i] # Empty}
           R == {i \in 1 .. k - 1 : values[i] # Empty}
<1>1. CASE values[k] = Empty
  <2>1. S = R
    <3>1. ASSUME NEW i \in 1 .. k, i # k PROVE i \in 1 .. k - 1
      BY <3>1
    <3>2. ASSUME NEW i \in 1 .. k - 1 PROVE i \in 1 .. k
      BY <3>2
    <3> QED BY <1>1, <3>1, <3>2
  <2> QED BY <1>1, <2>1 DEF Latest
<1>2. CASE values[k] # Empty
  <2>1. S \subseteq Nat /\ k \in S /\ \A i \in S : k >= i
    BY <1>2
  <2>2. Max(S) = k
    <3> HIDE DEF S
    <3> QED BY <2>1, MaxIs
  <2>3. S # {}
    BY <2>1
  <2>4. Latest(values, k) = IF S = {} THEN Empty ELSE values[Max(S)]
    BY DEF Latest
  <2> HIDE DEF S
  <2> QED BY <1>2, <2>2, <2>3, <2>4
<1> QED BY <1>1, <1>2

\* None has left any.
LEMMA LatestNone == ASSUME NEW values PROVE Latest(values, 0) = Empty
<1>1. {i \in 1 .. 0 : values[i] # Empty} = {}
  OBVIOUS
<1> QED BY <1>1 DEF Latest

\* An empty text says nothing.
LEMMA NothingSays ==
  ASSUME NEW limit
  PROVE  Says(<<>>, limit, <<>>, Empty, <<>>, Empty, 0)
<1>1. <<>> \in Seq(Symbol) /\ Len(<<>>) = 0
  OBVIOUS
<1>2. /\ EventsUpTo(<<>>, 0, limit) = <<>> /\ TypeAt(<<>>, 0) = Empty /\ DataAt(<<>>, 0) = <<>>
      /\ IDAt(<<>>, 0) = Empty /\ RetryAt(<<>>, 0, limit) = 0
  BY <1>1, NothingAtZero
<1> QED BY <1>1, <1>2 DEF Says, Settled

\* The IDs and the retry times of events.
IDs(evts) == [i \in DOMAIN evts |-> evts[i].id]
Retries(evts) == [i \in DOMAIN evts |-> evts[i].retry]

\* What the first k events and the heartbeats around them leave.
SaysUpTo(T, limit, evts, k) ==
    Says(T, limit, Take(Delivered(evts), k), Empty, <<>>, Latest(IDs(evts), k), Decimal(Latest(Retries(evts), k)))

\* One event more.
LEMMA EventMore ==
  ASSUME NEW limit, NEW evts \in Seq(Writable(limit)), NEW k \in 1 .. Len(evts), NEW T,
         SaysUpTo(T, limit, evts, k - 1)
  PROVE  SaysUpTo(T \o WriteEvent(evts[k]), limit, evts, k)
<1> DEFINE e == evts[k]
           D == Delivered(evts)
           lines == DataLines(e.data)
           id == Latest(IDs(evts), k - 1)
           i == Latest(IDs(evts), k)
           ms == Decimal(Latest(Retries(evts), k - 1))
           r == Decimal(Latest(Retries(evts), k))
           n == Len(evts)
           evs == Take(D, k - 1)
<1>1. e \in Writable(limit) /\ DOMAIN evts = 1 .. n /\ n \in Nat /\ k \in DOMAIN evts /\ k \in Nat \ {0}
  OBVIOUS
<1>2. e.data \in Seq(Symbol)
  BY <1>1 DEF Writable
<1>3. lines = ForEachLine(e.data) /\ GoodLines(lines)
  <2> HIDE DEF e
  <2> QED BY <1>2, LinesFound
<1>4. i = IF e.id = Empty THEN id ELSE e.id
  <2>1. IDs(evts)[k] = e.id
    BY <1>1 DEF IDs
  <2> HIDE DEF e
  <2> QED BY <1>1, <2>1, LatestMore
<1>5. r = IF e.retry = Empty THEN ms ELSE Decimal(e.retry)
  <2>1. Retries(evts)[k] = e.retry
    BY <1>1 DEF Retries
  <2> DEFINE v == Latest(Retries(evts), k)
             u == Latest(Retries(evts), k - 1)
  <2> HIDE DEF e
  <2>2. v = IF e.retry = Empty THEN u ELSE e.retry
    BY <1>1, <2>1, LatestMore
  <2> HIDE DEF v, u
  <2>3. Decimal(v) = IF e.retry = Empty THEN Decimal(u) ELSE Decimal(e.retry)
    BY <2>2
  <2> QED BY <2>3 DEF v, u
<1>6. D[k] = [type |-> e.event, data |-> lines, id |-> i, retry |-> r]
  BY <1>1 DEF Delivered, IDs, Retries
<1>7. Take(D, k) = Append(evs, D[k])
  <2> DEFINE S == {D[j] : j \in 1 .. n}
  <2>1. DOMAIN D = 1 .. n
    BY <1>1 DEF Delivered
  <2>2. D = [j \in 1 .. n |-> D[j]]
    BY <1>1 DEF Delivered
  <2> HIDE DEF D, n
  <2>3. D \in Seq(S) /\ Len(D) = n
    <3> DEFINE f == [j \in 1 .. n |-> D[j]]
    <3>1. f \in Seq(S) /\ Len(f) = n
      BY <1>1
    <3> HIDE DEF f
    <3>2. D = f
      BY <2>2 DEF f
    <3> QED BY <3>1, <3>2
  <2>4. k \in 1 .. Len(D)
    BY <2>3 DEF n
  <2> HIDE DEF S
  <2> QED BY <2>3, <2>4, TakeMore
<1>8. Says(T, limit, evs, Empty, <<>>, id, ms)
  BY DEF SaysUpTo
<1>9. lines \in Seq(Seq(Symbol)) /\ lines # <<>> /\ \A j \in 1 .. Len(lines) : OneLine(lines[j])
  BY <1>3 DEF GoodLines
<1>10. Says(T \o WriteEvent(e), limit,
            Append(evs, [type |-> e.event, data |-> lines, id |-> i, retry |-> r]), Empty, <<>>, i, r)
  <2> HIDE DEF e, evs, lines, id, ms, i, r
  <2> QED BY <1>1, <1>3, <1>4, <1>5, <1>8, <1>9, EventSays
<1>11. Says(T \o WriteEvent(e), limit, Take(D, k), Empty, <<>>, i, r)
  <2> HIDE DEF e, evs, lines, id, ms, i, r, D
  <2> QED BY <1>6, <1>7, <1>10
<1> QED BY <1>11 DEF SaysUpTo

\* The events that are written, and heartbeats around them.
LEMMA SentSays ==
  ASSUME NEW limit, NEW evts \in Seq(Writable(limit)), NEW pings \in [0 .. Len(evts) -> Nat]
  PROVE  SaysUpTo(Sent(evts, pings), limit, evts, Len(evts)) /\ Sent(evts, pings) \in PlainTexts
<1> DEFINE n == Len(evts)
           p == [k \in DOMAIN evts |-> WriteEvent(evts[k]) \o Heartbeats(pings[k])]
           Z == Heartbeats(pings[0])
<1>1. n \in Nat /\ DOMAIN evts = 1 .. n /\ \A k \in 1 .. n : evts[k] \in Writable(limit)
  OBVIOUS
<1>2. ASSUME NEW k \in 1 .. n
      PROVE  /\ WriteEvent(evts[k]) \in PlainTexts /\ Heartbeats(pings[k]) \in PlainTexts
             /\ WriteEvent(evts[k]) \o Heartbeats(pings[k]) \in PlainTexts
  <2>1. pings[k] \in Nat /\ evts[k] \in Writable(limit)
    BY <1>1
  <2>2. Heartbeats(pings[k]) \in PlainTexts
    BY <2>1, HeartbeatsPlain
  <2>3. WriteEvent(evts[k]) \in PlainTexts
    BY <2>1, FramePlain
  <2> DEFINE a == WriteEvent(evts[k])
             b == Heartbeats(pings[k])
  <2>4. a \in PlainTexts /\ b \in PlainTexts
    BY <2>2, <2>3
  <2> HIDE DEF a, b
  <2>5. a \o b \in PlainTexts
    BY <2>4, PlainJoinable DEF Joinable
  <2> QED BY <2>4, <2>5 DEF a, b
<1>3. p \in Seq(PlainTexts) /\ Len(p) = n /\ \A k \in 1 .. n : p[k] = WriteEvent(evts[k]) \o Heartbeats(pings[k])
  BY <1>1, <1>2
<1>4. pings[0] \in Nat
  BY <1>1
<1>5. Z \in PlainTexts
  BY <1>4, HeartbeatsPlain
<1>6. Sent(evts, pings) = Z \o FlattenSeq(p)
  BY DEF Sent
<1>7. PICK F : Pieces(F, p, PlainTexts)
  <2> HIDE DEF p
  <2> QED BY <1>3, PlainJoinable, FlattenValue
<1> HIDE DEF p
<1>8. /\ F \in [0 .. n -> PlainTexts] /\ F[0] = <<>> /\ FlattenSeq(p) = F[n]
      /\ \A k \in 1 .. n : F[k] = F[k - 1] \o (WriteEvent(evts[k]) \o Heartbeats(pings[k]))
  BY <1>3, <1>7 DEF Pieces
<1>9. PlainTexts \subseteq Seq(Symbol)
  BY DEF PlainTexts
<1>10. SaysUpTo(Z, limit, evts, 0)
  <2>1. <<>> \o Z = Z
    BY <1>5, <1>9, ConcatEmptySeq
  <2>2. Says(<<>> \o Z, limit, <<>>, Empty, <<>>, Empty, 0)
    BY <1>4, NothingSays, HeartbeatsSay
  <2>3. Take(Delivered(evts), 0) = <<>>
    BY SubSeqEmpty DEF Take
  <2>4. Latest(IDs(evts), 0) = Empty /\ Decimal(Latest(Retries(evts), 0)) = 0
    BY LatestNone, DecimalOfNothing DEF Empty
  <2> HIDE DEF Z
  <2> QED BY <2>1, <2>2, <2>3, <2>4 DEF SaysUpTo
<1> HIDE DEF Z
<1> DEFINE U == {k \in 0 .. n : SaysUpTo(Z \o F[k], limit, evts, k)}
<1>11. 0 \in U
  <2>1. Z \o <<>> = Z
    BY <1>5, <1>9, ConcatEmptySeq
  <2>2. SaysUpTo(Z \o F[0], limit, evts, 0)
    BY <1>8, <1>10, <2>1
  <2> QED BY <1>1, <2>2
<1>12. ASSUME NEW i \in 0 .. n - 1, i \in U PROVE i + 1 \in U
  <2> DEFINE k == i + 1
             f == F[i]
             w == WriteEvent(evts[k])
             h == Heartbeats(pings[k])
             T == Z \o f
  <2>1. k \in 1 .. n /\ k \in 0 .. n /\ k - 1 = i /\ i \in 0 .. n
    BY <1>1
  <2>2. SaysUpTo(T, limit, evts, i)
    BY <1>12
  <2>3. w \in Seq(Symbol) /\ h \in Seq(Symbol) /\ f \in Seq(Symbol) /\ Z \in Seq(Symbol)
    <3> HIDE DEF k
    <3>1. w \in PlainTexts /\ h \in PlainTexts
      BY <1>2, <2>1
    <3>2. f \in PlainTexts
      BY <1>8, <2>1
    <3> QED BY <1>5, <1>9, <3>1, <3>2
  <2>4. F[k] = f \o (w \o h)
    <3> HIDE DEF k
    <3> QED BY <1>8, <2>1
  <2>5. SaysUpTo(T \o w, limit, evts, k)
    <3> HIDE DEF k, T
    <3> QED BY <2>1, <2>2, EventMore
  <2> DEFINE Tw == T \o w
  <2>6. SaysUpTo(Tw \o h, limit, evts, k)
    <3>0. pings[k] \in Nat
      BY <2>1
    <3> HIDE DEF k, T, w
    <3>1. SaysUpTo(Tw, limit, evts, k)
      BY <2>5
    <3> HIDE DEF Tw
    <3> QED BY <3>0, <3>1, HeartbeatsSay DEF SaysUpTo
  <2> HIDE DEF k, f, w, h
  <2>7. Tw \o h = Z \o (f \o (w \o h))
    <3>1. Texts(Z, f, w)
      BY <2>3 DEF Texts
    <3> DEFINE wh == w \o h
    <3>2. wh \in Seq(Symbol) /\ T \in Seq(Symbol)
      BY <2>3, ConcatProperties
    <3>3. Texts(T, w, h)
      BY <2>3, <3>2 DEF Texts
    <3>4. Texts(Z, f, wh)
      BY <2>3, <3>2 DEF Texts
    <3>5. Tw \o h = T \o wh
      <4> HIDE DEF T
      <4> QED BY <3>3, TextsJoined
    <3> HIDE DEF wh
    <3>6. T \o wh = Z \o (f \o wh)
      BY <3>4, TextsJoined
    <3> QED BY <3>5, <3>6 DEF wh
  <2> HIDE DEF T, Tw
  <2>8. k \in U
    BY <2>1, <2>4, <2>6, <2>7
  <2> QED BY <2>8 DEF k
<1>13. n \in U
  <2> HIDE DEF U, n
  <2>1. \A i \in 0 .. n : i \in U
    BY <1>1, <1>11, <1>12, InductionUpTo
  <2> QED BY <1>1, <2>1
<1>14. Z \o F[n] \in PlainTexts
  <2>1. F[n] \in PlainTexts
    BY <1>1, <1>8
  <2> HIDE DEF n
  <2> QED BY <1>5, <2>1, PlainJoinable DEF Joinable
<1> QED BY <1>6, <1>8, <1>13, <1>14

\* A stream that WriteEvent and WriteHeartbeat have written, however many
\* events and heartbeats, means the events: a reader that follows the standard
\* gets each of them once and in order, with its own name, its data divided at
\* every line break, and the latest ID and retry time.
THEOREM WrittenMeansDelivered ==
  ASSUME NEW limit, NEW evts \in Seq(Writable(limit)), NEW pings \in [0 .. Len(evts) -> Nat]
  PROVE  Meaning(Sent(evts, pings), limit) = Delivered(evts)
<1> DEFINE T == Sent(evts, pings)
           n == Len(evts)
           D == Delivered(evts)
<1>1. SaysUpTo(T, limit, evts, n) /\ T \in PlainTexts
  BY SentSays
<1> HIDE DEF T
<1>2. T \in Seq(Symbol) /\ (T # <<>> => T[1] # BOM[1])
  BY <1>1 DEF PlainTexts
<1>3. ~ IsPrefix(BOM, T)
  <2> SUFFICES ASSUME IsPrefix(BOM, T) PROVE FALSE
    OBVIOUS
  <2>1. Len(BOM) = 3 /\ BOM = SubSeq(BOM, 1, 3)
    BY DEF BOM
  <2>2. Len(T) >= 3 /\ Take(T, 3) = SubSeq(BOM, 1, 3)
    BY <2>1 DEF IsPrefix, Take
  <2>3. 3 \in 0 .. Len(T) /\ Len(T) \in Nat /\ 1 \in 1 .. 3
    BY <1>2, <2>2
  <2>4. Take(T, 3)[1] = T[1]
    BY <1>2, <2>3, TakeIs
  <2>5. T # <<>>
    BY <2>2
  <2> QED BY <1>2, <2>1, <2>2, <2>4, <2>5
<1>4. Meaning(T, limit) = EventsUpTo(T, Len(T), limit)
  BY <1>3 DEF Meaning, WithoutBOM
<1>5. EventsUpTo(T, Len(T), limit) = Take(D, n)
  BY <1>1 DEF SaysUpTo, Says
<1>6. Take(D, n) = D
  <2> DEFINE S == {D[j] : j \in 1 .. n}
  <2>1. D = [j \in 1 .. n |-> D[j]] /\ n \in Nat
    BY DEF Delivered
  <2> HIDE DEF D, n
  <2>2. D \in Seq(S) /\ Len(D) = n
    <3> DEFINE f == [j \in 1 .. n |-> D[j]]
    <3>1. f \in Seq(S) /\ Len(f) = n
      BY <2>1
    <3> HIDE DEF f
    <3>2. D = f
      BY <2>1 DEF f
    <3> QED BY <3>1, <3>2
  <2> HIDE DEF S
  <2> QED BY <2>2, SubSeqFull DEF Take
<1> QED BY <1>4, <1>5, <1>6 DEF T

-----------------------------------------------------------------------------
(* Joined and keyed lines.                                                  *)

\* A text after one that ends in a line feed: the lines of both.
LEMMA FoundAfter ==
  ASSUME NEW T, Settled(T), NEW s \in Seq(Symbol)
  PROVE  /\ TerminatedLines(T \o s) = TerminatedLines(T) \o TerminatedLines(s)
         /\ Unterminated(T \o s) = Unterminated(s)
<1> DEFINE n == Len(s)
           L == TerminatedLines(T)
           Both(P) == [lines |-> L \o Found(P).lines, line |-> Found(P).line, cr |-> Found(P).cr]
           U == {k \in 0 .. n : Found(T \o Take(s, k)) = Both(Take(s, k))}
<1>1. n \in Nat /\ T \in Seq(Symbol)
  BY DEF Settled
<1>2. L \in Seq(AllLines)
  <2>1. Found(T) \in WalkStates
    BY <1>1, WalkFinds
  <2>2. Found(T).lines = L
    BY DEF Found
  <2> QED BY <2>1, <2>2 DEF WalkStates
<1>3. 0 \in U
  <2>1. Take(s, 0) = <<>>
    BY SubSeqEmpty DEF Take
  <2>2. T \o <<>> = T
    BY <1>1, ConcatEmptySeq
  <2>3. L \o <<>> = L
    BY <1>2, ConcatEmptySeq
  <2>4. Both(<<>>) = [lines |-> L, line |-> <<>>, cr |-> FALSE]
    <3>1. Found(<<>>) = [lines |-> <<>>, line |-> <<>>, cr |-> FALSE]
      BY FoundNothing DEF NoWalk
    <3>2. Found(<<>>).lines = <<>> /\ Found(<<>>).line = <<>> /\ Found(<<>>).cr = FALSE
      BY <3>1
    <3> HIDE DEF L
    <3> QED BY <2>3, <3>2
  <2>5. Found(T) = [lines |-> L, line |-> <<>>, cr |-> FALSE]
    <3>1. CASE T = <<>>
      BY <3>1, FoundNothing DEF NoWalk, Found
    <3>2. CASE T # <<>>
      <4>1. Len(T) \in Nat /\ Len(T) > 0 /\ Len(T) \in DOMAIN T /\ ~ (Len(T) < Len(T))
        BY <1>1, <3>2, EmptySeq
      <4>2. T[Len(T)] = LF /\ LF # CR
        BY <3>2 DEF Settled, LF, CR
      <4>3. Len(T) \in LineEnds(T)
        BY <4>1, <4>2 DEF LineEnds
      <4>4. Unterminated(T) = <<>>
        BY <1>1, <4>3, NoRest
      <4>5. (Len(T) > 0 /\ T[Len(T)] = CR) = FALSE
        BY <4>2
      <4> QED BY <4>4, <4>5 DEF Found
    <3> QED BY <3>1, <3>2
  <2>6. Found(T \o Take(s, 0)) = Both(Take(s, 0))
    <3> HIDE DEF Both
    <3> QED BY <2>1, <2>2, <2>4, <2>5
  <2> HIDE DEF Both
  <2> QED BY <1>1, <2>6
<1>4. ASSUME NEW i \in 0 .. n - 1, i \in U PROVE i + 1 \in U
  <2> DEFINE k == i + 1
             c == s[k]
             P == Take(s, i)
             st == Found(P)
             V == T \o P
  <2>1. k \in 1 .. n /\ k \in 0 .. n /\ k - 1 = i /\ i \in 0 .. n
    BY <1>1
  <2>2. c \in Symbol
    BY <2>1
  <2>3. P \in Seq(Symbol)
    BY <2>1, TakeIs
  <2>4. Take(s, k) = Append(P, c)
    <3> HIDE DEF k
    <3> QED BY <2>1, TakeMore
  <2>5. Found(V) = [lines |-> L \o st.lines, line |-> st.line, cr |-> st.cr]
    BY <1>4
  <2> HIDE DEF c, P, k
  <2>6. Found(Append(P, c)) = Walk(st, c)
    BY <2>2, <2>3, FoundMore
  <2>7. st \in WalkStates
    BY <2>3, WalkFinds
  <2>8. V \in Seq(Symbol)
    BY <1>1, <2>3, ConcatProperties
  <2>9. T \o Append(P, c) = Append(V, c)
    <3>1. <<c>> \in Seq(Symbol)
      BY <2>2
    <3>2. Append(P, c) = P \o <<c>>
      BY <2>2, <2>3, AppendIsConcat
    <3>3. Append(V, c) = V \o <<c>>
      BY <2>2, <2>8, AppendIsConcat
    <3>4. Texts(T, P, <<c>>)
      BY <1>1, <2>3, <3>1 DEF Texts
    <3>5. V \o <<c>> = T \o (P \o <<c>>)
      BY <3>4, TextsJoined
    <3> QED BY <3>2, <3>3, <3>5
  <2>10. Found(Append(V, c)) = Walk(Found(V), c)
    <3> HIDE DEF V
    <3> QED BY <2>2, <2>8, FoundMore
  <2> HIDE DEF L, V, st
  <2> DEFINE w == [lines |-> L \o st.lines, line |-> st.line, cr |-> st.cr]
             u == Walk(st, c)
  <2>11. Walk(w, c) = [lines |-> L \o u.lines, line |-> u.line, cr |-> u.cr]
    <3>1. /\ st = [lines |-> st.lines, line |-> st.line, cr |-> st.cr]
          /\ st.lines \in Seq(AllLines) /\ st.line \in AllLines /\ st.cr \in BOOLEAN
      BY <2>7 DEF WalkStates
    <3> DEFINE a == st.lines
               b == st.line
               d == st.cr
    <3>2. st = [lines |-> a, line |-> b, cr |-> d] /\ w = [lines |-> L \o a, line |-> b, cr |-> d]
      BY <3>1
    <3>3. a \in Seq(AllLines) /\ b \in AllLines /\ d \in BOOLEAN
      BY <3>1
    <3> HIDE DEF a, b, d, w
    <3>4. CASE c = LF /\ d
      <4>1. u = [lines |-> a, line |-> b, cr |-> FALSE] /\ Walk(w, c) = [lines |-> L \o a, line |-> b, cr |-> FALSE]
        BY <3>2, <3>4 DEF Walk
      <4> HIDE DEF u
      <4> QED BY <4>1
    <3>5. CASE ~ (c = LF /\ d) /\ c \in EOL
      <4> DEFINE e == (c = CR)
      <4>1. u = [lines |-> Append(a, b), line |-> <<>>, cr |-> e]
        BY <3>2, <3>5 DEF Walk
      <4>2. Walk(w, c) = [lines |-> Append(L \o a, b), line |-> <<>>, cr |-> e]
        BY <3>2, <3>5 DEF Walk
      <4>3. Append(L \o a, b) = L \o Append(a, b)
        <5> DEFINE La == L \o a
        <5>1. La \in Seq(AllLines) /\ <<b>> \in Seq(AllLines)
          BY <1>2, <3>3, ConcatProperties
        <5>2. Append(a, b) = a \o <<b>>
          BY <3>3, AppendIsConcat
        <5>3. La \o <<b>> = L \o (a \o <<b>>)
          BY <1>2, <3>3, <5>1, ConcatAssociative
        <5> HIDE DEF La
        <5>4. Append(La, b) = La \o <<b>>
          BY <3>3, <5>1, AppendIsConcat
        <5> QED BY <5>2, <5>3, <5>4 DEF La
      <4> HIDE DEF u, e
      <4> QED BY <4>1, <4>2, <4>3
    <3>6. CASE ~ (c = LF /\ d) /\ c \notin EOL
      <4>1. u = [lines |-> a, line |-> Append(b, c), cr |-> FALSE]
        BY <3>2, <3>6 DEF Walk
      <4>2. Walk(w, c) = [lines |-> L \o a, line |-> Append(b, c), cr |-> FALSE]
        BY <3>2, <3>6 DEF Walk
      <4> HIDE DEF u
      <4> QED BY <4>1, <4>2
    <3> QED BY <3>4, <3>5, <3>6
  <2>12. Found(T \o Take(s, k)) = Both(Take(s, k))
    BY <2>4, <2>5, <2>6, <2>9, <2>10, <2>11
  <2> HIDE DEF Both
  <2>13. k \in U
    BY <2>1, <2>12
  <2> QED BY <2>13 DEF k
<1>5. n \in U
  <2> HIDE DEF U, n
  <2>1. \A i \in 0 .. n : i \in U
    BY <1>1, <1>3, <1>4, InductionUpTo
  <2> QED BY <1>1, <2>1
<1>6. Take(s, n) = s
  BY SubSeqFull DEF Take
<1>7. Found(T \o s) = Both(s)
  <2> HIDE DEF Both, n
  <2> QED BY <1>5, <1>6
<1> QED BY <1>7 DEF Found

\* A text that does not end in a line break.
OpenText(P) == P \in Seq(Symbol) /\ (P = <<>> \/ P[Len(P)] \notin EOL)

\* The lines of a text are sequences without line breaks.
LEMMA DataLinesAre ==
  ASSUME NEW s \in Seq(Symbol)
  PROVE  /\ TerminatedLines(s) \in Seq(AllLines) /\ Unterminated(s) \in AllLines
         /\ DataLines(s) \in Seq(AllLines)
<1>1. Found(s) \in WalkStates
  BY WalkFinds
<1>2. Found(s).lines = TerminatedLines(s) /\ Found(s).line = Unterminated(s)
  BY DEF Found
<1> DEFINE l == TerminatedLines(s)
           r == Unterminated(s)
<1>3. l \in Seq(AllLines) /\ r \in AllLines
  BY <1>1, <1>2 DEF WalkStates
<1>4. DataLines(s) = IF s = Empty THEN <<Empty>> ELSE l \o (IF r = <<>> THEN <<>> ELSE <<r>>)
  BY DEF DataLines
<1> HIDE DEF l, r
<1>5. <<Empty>> \in Seq(AllLines)
  BY EmptyLine DEF Empty
<1>6. l \o <<>> \in Seq(AllLines) /\ l \o <<r>> \in Seq(AllLines)
  <2>1. <<r>> \in Seq(AllLines) /\ <<>> \in Seq(AllLines)
    BY <1>3
  <2> QED BY <1>3, <2>1, ConcatProperties
<1> QED BY <1>3, <1>4, <1>5, <1>6 DEF l, r

\* A line feed ends its last line.
LEMMA OpenEnds ==
  ASSUME NEW P, OpenText(P)
  PROVE  Settled(P \o <<LF>>) /\ TerminatedLines(P \o <<LF>>) = DataLines(P)
<1> DEFINE U == Append(P, LF)
           n == Len(P)
<1>1. P \in Seq(Symbol) /\ LF \in Symbol /\ LF \in EOL /\ CR \in EOL /\ n \in Nat
  BY DEF OpenText, Symbol, EOL
<1>2. P \o <<LF>> = U
  BY <1>1, AppendIsConcat
<1>3. Settled(U)
  <2>1. U \in Seq(Symbol) /\ Len(U) = n + 1 /\ U[n + 1] = LF
    BY <1>1, AppendProperties
  <2> HIDE DEF U
  <2> QED BY <2>1 DEF Settled
<1>4. ~ (n > 0 /\ P[n] = CR /\ LF = LF)
  <2> SUFFICES ASSUME n > 0, P[n] = CR PROVE FALSE
    OBVIOUS
  <2>1. P # <<>>
    OBVIOUS
  <2> QED BY <1>1, <2>1 DEF OpenText
<1>5. TerminatedLines(U) = Append(TerminatedLines(P), Unterminated(P))
  <2> DEFINE c == LF
  <2>1. /\ c \in Symbol /\ c \in EOL /\ U = Append(P, c) /\ n = Len(P)
        /\ ~ (n > 0 /\ P[n] = CR /\ c = LF)
    BY <1>1, <1>4
  <2> HIDE DEF n, U, c
  <2>2. TerminatedLines(U) = IF c \in EOL THEN Append(TerminatedLines(P), Unterminated(P))
                             ELSE TerminatedLines(P)
    <3>1. P \in Seq(Symbol)
      BY <1>1
    <3> QED BY <2>1, <3>1, SymbolMore, ZenonT(60)
  <2> QED BY <2>1, <2>2
<1>6. Append(TerminatedLines(P), Unterminated(P)) = DataLines(P)
  <2>1. CASE P = <<>>
    <3>1. Found(<<>>) = [lines |-> <<>>, line |-> <<>>, cr |-> FALSE]
      BY FoundNothing DEF NoWalk
    <3>2. Found(<<>>).lines = <<>> /\ Found(<<>>).line = <<>>
      BY <3>1
    <3>3. TerminatedLines(<<>>) = <<>> /\ Unterminated(<<>>) = <<>>
      BY <3>2 DEF Found
    <3>4. DataLines(<<>>) = << <<>> >>
      BY DEF DataLines, Empty
    <3>5. Append(<<>>, <<>>) = << <<>> >>
      OBVIOUS
    <3> QED BY <2>1, <3>3, <3>4, <3>5
  <2>2. CASE P # <<>>
    <3>1. Unterminated(P) # <<>>
      <4> SUFFICES ASSUME Unterminated(P) = <<>> PROVE FALSE
        OBVIOUS
      <4>1. Len(P) \in LineEnds(P)
        BY <1>1, <2>2, RestEnds
      <4>2. P[Len(P)] \in EOL
        BY <1>1, <4>1, EndsAre
      <4> QED BY <2>2, <4>2 DEF OpenText
    <3>2. DataLines(P) = TerminatedLines(P) \o <<Unterminated(P)>>
      BY <2>2, <3>1 DEF DataLines, Empty
    <3> DEFINE l == TerminatedLines(P)
               r == Unterminated(P)
    <3>3. l \in Seq(AllLines) /\ r \in AllLines
      BY <1>1, DataLinesAre
    <3> HIDE DEF l, r
    <3>4. Append(l, r) = l \o <<r>>
      BY <3>3, AppendIsConcat
    <3> QED BY <3>2, <3>4 DEF l, r
  <2> QED BY <2>1, <2>2
<1> QED BY <1>2, <1>3, <1>5, <1>6

\* A text after a line feed: the lines of both.
LEMMA LinesAfter ==
  ASSUME NEW T, Settled(T), T # <<>>, NEW s \in Seq(Symbol), s # <<>>
  PROVE  DataLines(T \o s) = TerminatedLines(T) \o DataLines(s)
<1> DEFINE L == TerminatedLines(T)
           l == TerminatedLines(s)
           r == Unterminated(s)
           R == IF r = <<>> THEN <<>> ELSE <<r>>
<1>1. TerminatedLines(T \o s) = L \o l /\ Unterminated(T \o s) = r
  BY FoundAfter
<1>2. T \o s # <<>>
  <2>1. T \in Seq(Symbol)
    BY DEF Settled
  <2>2. Len(T) \in Nat /\ Len(T) > 0 /\ Len(s) \in Nat
    BY <2>1, EmptySeq
  <2>3. Len(T \o s) = Len(T) + Len(s)
    BY <2>1, ConcatProperties
  <2>4. Len(T \o s) # 0 /\ Len(<<>>) = 0
    BY <2>2, <2>3
  <2> QED BY <2>4
<1>3. DataLines(T \o s) = (L \o l) \o R
  BY <1>1, <1>2 DEF DataLines, Empty
<1>4. DataLines(s) = l \o R
  BY DEF DataLines, Empty
<1>5. L \in Seq(AllLines)
  BY DataLinesAre DEF Settled
<1>6. l \in Seq(AllLines) /\ r \in AllLines
  BY DataLinesAre
<1> HIDE DEF L, l, r
<1>7. R \in Seq(AllLines)
  BY <1>6
<1> HIDE DEF R
<1>8. (L \o l) \o R = L \o (l \o R)
  <2>1. L \in Seq(AllLines) /\ l \in Seq(AllLines) /\ R \in Seq(AllLines)
    BY <1>5, <1>6, <1>7
  <2> QED BY <2>1, ConcatAssociative, SMTT(60)
<1> QED BY <1>3, <1>4, <1>8 DEF L

\* Texts to join: all but the last of them without a line break at the end, and
\* the last not empty.
Joining(parts) ==
    /\ parts \in Seq(Seq(Symbol)) /\ parts # <<>> /\ parts[Len(parts)] # <<>>
    /\ \A i \in 1 .. Len(parts) - 1 : OpenText(parts[i])

\* forEachLine is the inverse of JoinLines: what was joined is divided into the
\* lines of the texts, and no line is torn, lost or merged with the next.
THEOREM JoinedLinesDivide ==
  ASSUME NEW parts, Joining(parts)
  PROVE  DataLines(JoinLines(parts)) = FlattenSeq([i \in DOMAIN parts |-> DataLines(parts[i])])
<1> DEFINE n == Len(parts)
           piece(i) == IF i = 1 THEN parts[i] ELSE <<LF>> \o parts[i]
           p == [i \in DOMAIN parts |-> piece(i)]
           d == [i \in DOMAIN parts |-> DataLines(parts[i])]
<1>1. n \in Nat /\ DOMAIN parts = 1 .. n /\ n >= 1 /\ \A i \in 1 .. n : parts[i] \in Seq(Symbol)
  BY EmptySeq DEF Joining
<1>2. <<LF>> \in Seq(Symbol)
  <2>1. LF \in Symbol
    BY DEF Symbol, EOL
  <2> QED BY <2>1
<1>3. p \in Seq(Seq(Symbol)) /\ Len(p) = n /\ \A i \in 1 .. n : p[i] = piece(i)
  <2>1. ASSUME NEW i \in 1 .. n PROVE piece(i) \in Seq(Symbol)
    BY <1>1, <1>2, ConcatProperties
  <2> HIDE DEF piece
  <2> QED BY <1>1, <2>1
<1>4. d \in Seq(Seq(AllLines)) /\ Len(d) = n /\ \A i \in 1 .. n : d[i] = DataLines(parts[i])
  <2>1. ASSUME NEW i \in 1 .. n PROVE DataLines(parts[i]) \in Seq(AllLines)
    BY <1>1, DataLinesAre
  <2> QED BY <1>1, <2>1
<1>5. JoinLines(parts) = FlattenSeq(p)
  BY DEF JoinLines
<1> HIDE DEF p, d
<1>6. PICK F : Pieces(F, p, Seq(Symbol))
  BY <1>3, SeqJoinable, FlattenValue
<1>7. PICK D : Pieces(D, d, Seq(AllLines))
  BY <1>4, SeqJoinable, FlattenValue
<1>8. /\ F \in [0 .. n -> Seq(Symbol)] /\ F[0] = <<>> /\ JoinLines(parts) = F[n]
      /\ \A k \in 1 .. n : F[k] = F[k - 1] \o piece(k)
  <2> HIDE DEF piece
  <2> QED BY <1>3, <1>5, <1>6 DEF Pieces
<1>9. /\ D \in [0 .. n -> Seq(AllLines)] /\ D[0] = <<>> /\ FlattenSeq(d) = D[n]
      /\ \A k \in 1 .. n : D[k] = D[k - 1] \o DataLines(parts[k])
  BY <1>4, <1>7 DEF Pieces
<1>10. F[1] = parts[1] /\ D[1] = DataLines(parts[1])
  <2>1. 1 \in 1 .. n /\ 1 - 1 = 0
    BY <1>1
  <2>2. F[1] = <<>> \o parts[1] /\ D[1] = <<>> \o DataLines(parts[1])
    BY <1>8, <1>9, <2>1
  <2>3. parts[1] \in Seq(Symbol) /\ DataLines(parts[1]) \in Seq(AllLines)
    BY <1>1, <2>1, DataLinesAre
  <2>4. <<>> \o parts[1] = parts[1]
    BY <2>3, ConcatEmptySeq
  <2>5. <<>> \o DataLines(parts[1]) = DataLines(parts[1])
    BY <2>3, ConcatEmptySeq
  <2> QED BY <2>2, <2>4, <2>5
<1>11. ASSUME NEW k \in 1 .. n, k # 1
       PROVE  F[k] = (F[k - 1] \o <<LF>>) \o parts[k] /\ k - 1 \in 1 .. n /\ k - 1 \in 1 .. n - 1
  <2>1. k - 1 \in 1 .. n /\ k - 1 \in 0 .. n /\ k - 1 \in 1 .. n - 1
    BY <1>1, <1>11
  <2> DEFINE a == F[k - 1]
             b == parts[k]
  <2>2. a \in Seq(Symbol) /\ b \in Seq(Symbol) /\ F[k] = a \o (<<LF>> \o b)
    BY <1>1, <1>8, <1>11, <2>1
  <2> HIDE DEF a, b
  <2>3. Texts(a, <<LF>>, b)
    BY <1>2, <2>2 DEF Texts
  <2>4. (a \o <<LF>>) \o b = a \o (<<LF>> \o b)
    BY <2>3, TextsJoined
  <2> QED BY <2>1, <2>2, <2>4 DEF a, b
<1> HIDE DEF n, piece
<1> DEFINE Done(k) == Settled(F[k] \o <<LF>>) /\ TerminatedLines(F[k] \o <<LF>>) = D[k]
           m == n - 1
           U == {k \in 0 .. m : k = 0 \/ Done(k)}
<1>12. m \in Nat /\ m + 1 = n /\ 0 .. m \subseteq 0 .. n
  BY <1>1
<1>13. 0 \in U
  BY <1>12
<1>14. ASSUME NEW i \in 0 .. m - 1, i \in U PROVE i + 1 \in U
  <2> DEFINE k == i + 1
             b == parts[k]
  <2>1. k \in 1 .. n /\ k \in 0 .. m /\ k \in 1 .. n - 1 /\ k - 1 = i /\ (k = 1 <=> i = 0)
    BY <1>12
  <2>2. OpenText(b)
    BY <2>1 DEF Joining, n
  <2>3. Settled(b \o <<LF>>) /\ TerminatedLines(b \o <<LF>>) = DataLines(b)
    <3> HIDE DEF b
    <3> QED BY <2>2, OpenEnds
  <2> HIDE DEF k, m
  <2>4. CASE i = 0
    <3>1. k = 1
      BY <2>1, <2>4
    <3>2. Done(k)
      BY <1>10, <2>3, <3>1
    <3> HIDE DEF Done
    <3> QED BY <2>1, <3>2 DEF k
  <2>5. CASE i # 0
    <3> DEFINE a == F[i]
               T == a \o <<LF>>
               t == b \o <<LF>>
    <3>1. Settled(T) /\ TerminatedLines(T) = D[i]
      BY <1>14, <2>5
    <3>2. F[k] = T \o b
      BY <1>11, <2>1, <2>5
    <3>3. b \in Seq(Symbol) /\ T \in Seq(Symbol) /\ t \in Seq(Symbol)
      BY <2>2, <2>3, <3>1 DEF OpenText, Settled
    <3>4. F[k] \o <<LF>> = T \o t
      <4>1. Texts(T, b, <<LF>>)
        BY <1>2, <3>3 DEF Texts
      <4> HIDE DEF T, b
      <4> QED BY <3>2, <4>1, TextsJoined
    <3>5. TerminatedLines(T \o t) = TerminatedLines(T) \o TerminatedLines(t) /\ Unterminated(T \o t) = Unterminated(t)
      <4> HIDE DEF T, t
      <4> QED BY <3>1, <3>3, FoundAfter
    <3>6. D[k] = D[i] \o DataLines(b)
      BY <1>9, <2>1
    <3>7. TerminatedLines(F[k] \o <<LF>>) = D[k]
      <4> HIDE DEF T, t, b
      <4>1. TerminatedLines(t) = DataLines(b)
        BY <2>3 DEF t
      <4> QED BY <3>1, <3>4, <3>5, <3>6, <4>1
    <3>8. Settled(F[k] \o <<LF>>)
      <4>0. k \in 0 .. n
        BY <1>12, <2>1
      <4>1. F[k] \in Seq(Symbol)
        BY <1>8, <4>0
      <4> DEFINE f == F[k]
      <4> HIDE DEF f
      <4>2. LF \in Symbol /\ f \in Seq(Symbol)
        BY <4>1 DEF f, Symbol, EOL
      <4>3. f \o <<LF>> = Append(f, LF)
        BY <4>2, AppendIsConcat
      <4> DEFINE g == Append(f, LF)
      <4>4. g \in Seq(Symbol) /\ Len(g) = Len(f) + 1 /\ g[Len(f) + 1] = LF
        BY <4>2, AppendProperties
      <4>5. Settled(g)
        <5> HIDE DEF g
        <5> QED BY <4>4 DEF Settled
      <4> QED BY <4>3, <4>5 DEF f
    <3>9. Done(k)
      BY <3>7, <3>8
    <3> HIDE DEF Done
    <3> QED BY <2>1, <3>9 DEF k
  <2> QED BY <2>4, <2>5
<1>15. m \in U
  <2> HIDE DEF U, m
  <2>1. \A i \in 0 .. m : i \in U
    BY <1>12, <1>13, <1>14, InductionUpTo
  <2> QED BY <1>12, <2>1
<1>16. DataLines(F[n]) = D[n]
  <2>1. CASE n = 1
    BY <1>10, <2>1
  <2>2. CASE n # 1
    <3> DEFINE T == F[m] \o <<LF>>
               b == parts[n]
    <3>1. m # 0 /\ n \in 1 .. n /\ n - 1 = m
      BY <1>1, <1>12, <2>2
    <3>2. Settled(T) /\ TerminatedLines(T) = D[m]
      BY <1>15, <3>1
    <3>3. F[n] = T \o b /\ D[n] = D[m] \o DataLines(b)
      BY <1>9, <1>11, <2>2, <3>1
    <3>4. b \in Seq(Symbol) /\ b # <<>>
      BY <1>1, <3>1 DEF Joining, n
    <3>5. T # <<>>
      <4>1. F[m] \in Seq(Symbol)
        BY <1>8, <1>12
      <4> DEFINE f == F[m]
      <4>2. Len(f \o <<LF>>) = Len(f) + Len(<<LF>>) /\ Len(<<LF>>) = 1 /\ Len(f) \in Nat
        BY <1>2, <4>1, ConcatProperties
      <4>3. Len(f \o <<LF>>) # 0 /\ Len(<<>>) = 0
        BY <4>2
      <4> QED BY <4>3
    <3> HIDE DEF T, b
    <3>6. DataLines(T \o b) = TerminatedLines(T) \o DataLines(b)
      BY <3>2, <3>4, <3>5, LinesAfter
    <3> QED BY <3>2, <3>3, <3>6
  <2> QED BY <2>1, <2>2
<1> QED BY <1>8, <1>9, <1>16 DEF d

\* A sequence is the sum of its elements.
LEMMA FlattenSingles ==
  ASSUME NEW S, NEW x \in Seq(S)
  PROVE  FlattenSeq([i \in DOMAIN x |-> <<x[i]>>]) = x
<1> DEFINE n == Len(x)
           p == [i \in DOMAIN x |-> <<x[i]>>]
<1>1. n \in Nat /\ DOMAIN x = 1 .. n
  OBVIOUS
<1>2. \A i \in 1 .. n : x[i] \in S
  OBVIOUS
<1>3. p \in Seq(Seq(S)) /\ Len(p) = n /\ \A i \in 1 .. n : p[i] = <<x[i]>>
  BY <1>1, <1>2
<1> HIDE DEF p
<1>4. PICK F : Pieces(F, p, Seq(S))
  BY <1>3, SeqJoinable, FlattenValue
<1>5. /\ F \in [0 .. n -> Seq(S)] /\ F[0] = <<>> /\ FlattenSeq(p) = F[n]
      /\ \A k \in 1 .. n : F[k] = F[k - 1] \o <<x[k]>>
  BY <1>3, <1>4 DEF Pieces
<1> DEFINE U == {k \in 0 .. n : F[k] = Take(x, k)}
<1>6. 0 \in U
  <2>1. Take(x, 0) = <<>>
    BY SubSeqEmpty DEF Take
  <2> QED BY <1>1, <1>5, <2>1
<1>7. ASSUME NEW i \in 0 .. n - 1, i \in U PROVE i + 1 \in U
  <2> DEFINE k == i + 1
             f == F[i]
             e == x[k]
  <2>1. k \in 1 .. n /\ k \in 0 .. n /\ k - 1 = i /\ i \in 0 .. n
    BY <1>1
  <2>2. f \in Seq(S) /\ e \in S
    BY <1>2, <1>5, <2>1
  <2>3. F[k] = f \o <<e>>
    <3> HIDE DEF k
    <3> QED BY <1>5, <2>1
  <2>4. Take(x, k) = Append(Take(x, i), e)
    <3> HIDE DEF k
    <3> QED BY <2>1, TakeMore
  <2>5. f = Take(x, i)
    BY <1>7
  <2> HIDE DEF k, f, e
  <2>6. Append(f, e) = f \o <<e>>
    BY <2>2, AppendIsConcat
  <2>7. k \in U
    BY <2>1, <2>3, <2>4, <2>5, <2>6
  <2> QED BY <2>7 DEF k
<1>8. n \in U
  <2> HIDE DEF U, n
  <2>1. \A i \in 0 .. n : i \in U
    BY <1>1, <1>6, <1>7, InductionUpTo
  <2> QED BY <1>1, <2>1
<1>9. Take(x, n) = x
  BY SubSeqFull DEF Take
<1> HIDE DEF n
<1> QED BY <1>5, <1>8, <1>9 DEF p

\* A text without a line break is its only line.
LEMMA OnlyLine ==
  ASSUME NEW x \in AllLines, x # <<>>
  PROVE  DataLines(x) = <<x>> /\ OpenText(x)
<1> DEFINE n == Len(x)
<1>1. x \in Seq(Symbol) /\ \A i \in 1 .. n : x[i] \notin EOL
  BY DEF AllLines, OneLine
<1>2. n \in Nat /\ n >= 1 /\ n \in 1 .. n
  BY <1>1, EmptySeq
<1>3. LineEnds(x) = {}
  BY <1>1, EndsAre
<1>4. TerminatedLines(x) = <<>>
  <2> DEFINE A == Ascending(LineEnds(x), n)
  <2>1. A \in Seq(LineEnds(x) \cap (1 .. n))
    BY <1>2, AscendingMembers
  <2> HIDE DEF A
  <2>2. A \in Seq({})
    <3>1. LineEnds(x) \cap (1 .. n) = {}
      BY <1>3
    <3> QED BY <2>1, <3>1
  <2>3. A = <<>>
    <3>1. Len(A) \in Nat /\ \A i \in 1 .. Len(A) : A[i] \in {}
      BY <2>2, ElementOfSeq
    <3>2. Len(A) = 0
      BY <3>1
    <3> QED BY <2>2, <3>2, EmptySeq
  <2>4. TerminatedLines(x) = LinesTo(x, n)
    BY TerminatedAre
  <2>5. LinesTo(x, n) = [k \in DOMAIN A |-> LineAt(x, A[k])]
    BY DEF A, LinesTo
  <2> QED BY <2>3, <2>4, <2>5
<1>5. Unterminated(x) = x
  <2>1. Unterminated(x) = SubSeq(x, 1 + 0, n)
    BY <1>3 DEF Unterminated
  <2>2. 1 + 0 = 1
    OBVIOUS
  <2>3. SubSeq(x, 1, n) = x
    BY <1>1, SubSeqFull
  <2> QED BY <2>1, <2>2, <2>3
<1>6. DataLines(x) = <<>> \o <<x>>
  BY <1>4, <1>5 DEF DataLines, Empty
<1>7. <<>> \o <<x>> = <<x>>
  OBVIOUS
<1>8. OpenText(x)
  BY <1>1, <1>2 DEF OpenText
<1> QED BY <1>6, <1>7, <1>8

\* A text that ends in an open one is open.
LEMMA EndsOpen ==
  ASSUME NEW a \in Seq(Symbol), NEW b, OpenText(b), b # <<>>
  PROVE  OpenText(a \o b) /\ a \o b # <<>>
<1> DEFINE c == a \o b
<1>1. b \in Seq(Symbol) /\ b[Len(b)] \notin EOL
  BY DEF OpenText
<1>2. Len(a) \in Nat /\ Len(b) \in Nat /\ Len(b) > 0
  BY <1>1, EmptySeq
<1>3. c \in Seq(Symbol) /\ Len(c) = Len(a) + Len(b)
  BY <1>1, ConcatProperties
<1>4. c[Len(a) + Len(b)] = b[Len(b)]
  BY <1>1, <1>2, ConcatProperties
<1> HIDE DEF c
<1>5. c # <<>>
  <2>1. Len(c) # 0 /\ Len(<<>>) = 0
    BY <1>2, <1>3
  <2> QED BY <2>1
<1>6. OpenText(c)
  BY <1>1, <1>3, <1>4 DEF OpenText
<1> QED BY <1>5, <1>6 DEF c

\* What is joined ends as the last text does.
LEMMA JoinedOpen ==
  ASSUME NEW parts, Joining(parts), OpenText(parts[Len(parts)])
  PROVE  OpenText(JoinLines(parts)) /\ JoinLines(parts) # <<>>
<1> DEFINE n == Len(parts)
           piece(i) == IF i = 1 THEN parts[i] ELSE <<LF>> \o parts[i]
           p == [i \in DOMAIN parts |-> piece(i)]
           b == parts[n]
<1>1. n \in Nat /\ DOMAIN parts = 1 .. n /\ n >= 1 /\ \A i \in 1 .. n : parts[i] \in Seq(Symbol)
  BY EmptySeq DEF Joining
<1>2. <<LF>> \in Seq(Symbol)
  <2>1. LF \in Symbol
    BY DEF Symbol, EOL
  <2> QED BY <2>1
<1>3. p \in Seq(Seq(Symbol)) /\ Len(p) = n /\ \A i \in 1 .. n : p[i] = piece(i)
  <2>1. ASSUME NEW i \in 1 .. n PROVE piece(i) \in Seq(Symbol)
    BY <1>1, <1>2, ConcatProperties
  <2> HIDE DEF piece
  <2> QED BY <1>1, <2>1
<1>4. JoinLines(parts) = FlattenSeq(p)
  BY DEF JoinLines
<1> HIDE DEF p
<1>5. PICK F : Pieces(F, p, Seq(Symbol))
  BY <1>3, SeqJoinable, FlattenValue
<1>6. n \in 1 .. n /\ n - 1 \in 0 .. n
  BY <1>1
<1> DEFINE a == F[n - 1]
<1>7. a \in Seq(Symbol) /\ JoinLines(parts) = a \o piece(n)
  <2> HIDE DEF piece
  <2> QED BY <1>3, <1>4, <1>5, <1>6 DEF Pieces
<1>8. OpenText(b) /\ b # <<>>
  BY DEF Joining
<1>9. OpenText(piece(n)) /\ piece(n) # <<>>
  <2>1. OpenText(<<LF>> \o b) /\ <<LF>> \o b # <<>>
    <3> HIDE DEF b
    <3> QED BY <1>2, <1>8, EndsOpen
  <2> QED BY <1>8, <2>1
<1> HIDE DEF a
<1> DEFINE q == piece(n)
<1>10. OpenText(q) /\ q # <<>> /\ JoinLines(parts) = a \o q
  BY <1>7, <1>9
<1> HIDE DEF q
<1> QED BY <1>7, <1>10, EndsOpen

\* Every line of a value is given its key: KeyedLines makes a text of as many
\* lines as the value has, each of them the key, a space and the line.
THEOREM KeyedLinesDivide ==
  ASSUME NEW key \in Symbol \ EOL, NEW v \in Seq(Symbol), v # Empty
  PROVE  /\ DataLines(KeyedLines(key, v)) = [i \in DOMAIN DataLines(v) |-> <<key, Space>> \o DataLines(v)[i]]
         /\ OpenText(KeyedLines(key, v)) /\ KeyedLines(key, v) # <<>>
<1> DEFINE lines == DataLines(v)
           h == <<key, Space>>
           k == [i \in DOMAIN lines |-> h \o lines[i]]
           n == Len(lines)
<1>1. lines \in Seq(AllLines) /\ lines # <<>> /\ SplitLines(v) = lines
  BY DataLinesAre, LinesFound DEF GoodLines, SplitLines
<1> HIDE DEF lines
<1>2. KeyedLines(key, v) = JoinLines(k)
  BY <1>1 DEF KeyedLines
<1>3. n \in Nat /\ n >= 1 /\ DOMAIN lines = 1 .. n /\ \A i \in 1 .. n : lines[i] \in AllLines
  BY <1>1, EmptySeq
<1>4. h \in Seq(Symbol) /\ Len(h) = 2 /\ h[1] \notin EOL /\ h[2] \notin EOL
  <2>1. Space \in Symbol /\ Space \notin EOL
    BY DEF Symbol, EOL, Space, CR, LF
  <2> QED BY <2>1
<1> HIDE DEF h
<1>5. ASSUME NEW i \in 1 .. n PROVE h \o lines[i] \in AllLines /\ h \o lines[i] # <<>>
  <2> DEFINE x == lines[i]
             y == h \o x
  <2>1. x \in Seq(Symbol) /\ \A j \in 1 .. Len(x) : x[j] \notin EOL
    BY <1>3 DEF AllLines, OneLine
  <2> HIDE DEF x
  <2>0. x \in Seq(Symbol) /\ h \in Seq(Symbol) /\ Len(h) = 2
    BY <1>4, <2>1
  <2>2. y \in Seq(Symbol) /\ Len(y) = 2 + Len(x) /\ Len(x) \in Nat
    <3>1. y \in Seq(Symbol)
      BY <2>0, ConcatProperties
    <3>2. Len(y) = Len(h) + Len(x)
      BY <2>0, ConcatProperties
    <3>3. Len(x) \in Nat
      BY <2>0
    <3> QED BY <2>0, <3>1, <3>2, <3>3
  <2>3. ASSUME NEW j \in 1 .. Len(y) PROVE y[j] \notin EOL
    <3>1. CASE j <= 2
      <4>1. y[j] = h[j] /\ (j = 1 \/ j = 2)
        BY <2>0, <2>2, <3>1, ConcatProperties
      <4> QED BY <1>4, <4>1
    <3>2. CASE ~ (j <= 2)
      <4>1. j - 2 \in 1 .. Len(x)
        BY <2>2, <3>2
      <4>2. y[j] = x[j - 2]
        BY <2>0, <2>2, <3>2, ConcatProperties
      <4> QED BY <2>1, <4>1, <4>2
    <3> QED BY <3>1, <3>2
  <2> HIDE DEF y
  <2>4. y # <<>>
    <3>1. Len(y) # 0 /\ Len(<<>>) = 0
      BY <2>2
    <3> QED BY <3>1
  <2>5. y \in AllLines
    BY <2>2, <2>3 DEF AllLines, OneLine
  <2> QED BY <2>4, <2>5 DEF x, y
<1>6. k \in Seq(AllLines) /\ Len(k) = n /\ \A i \in 1 .. n : k[i] \in AllLines /\ k[i] # <<>>
  BY <1>3, <1>5
<1> HIDE DEF k
<1>7. ASSUME NEW i \in 1 .. n PROVE DataLines(k[i]) = <<k[i]>> /\ OpenText(k[i])
  BY <1>6, OnlyLine
<1>8. Joining(k) /\ OpenText(k[Len(k)])
  <2>1. AllLines \subseteq Seq(Symbol)
    BY DEF AllLines
  <2>2. k \in Seq(Seq(Symbol))
    BY <1>6, <2>1, SeqMonotonic
  <2>3. k # <<>>
    <3>1. Len(k) # 0 /\ Len(<<>>) = 0
      BY <1>3, <1>6
    <3> QED BY <3>1
  <2>4. Len(k) \in 1 .. n /\ \A i \in 1 .. Len(k) - 1 : i \in 1 .. n
    BY <1>3, <1>6
  <2> QED BY <1>6, <1>7, <2>2, <2>3, <2>4 DEF Joining
<1>9. DataLines(JoinLines(k)) = FlattenSeq([i \in DOMAIN k |-> DataLines(k[i])])
  BY <1>8, JoinedLinesDivide
<1>10. [i \in DOMAIN k |-> DataLines(k[i])] = [i \in DOMAIN k |-> <<k[i]>>]
  <2>1. DOMAIN k = 1 .. n
    BY <1>6
  <2> QED BY <1>7, <2>1
<1>11. FlattenSeq([i \in DOMAIN k |-> <<k[i]>>]) = k
  BY <1>6, FlattenSingles
<1>12. DataLines(JoinLines(k)) = k
  BY <1>9, <1>10, <1>11
<1>13. OpenText(JoinLines(k)) /\ JoinLines(k) # <<>>
  BY <1>8, JoinedOpen
<1> QED BY <1>2, <1>12, <1>13 DEF k, h, lines
=============================================================================
