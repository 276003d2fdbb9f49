--------------------------- MODULE KeepingProofs ---------------------------
(***************************************************************************)
(* What Keep and RemoveAt return, for every sequence; inductions are done  *)
(* by taking the least length for which the claim fails.                   *)
(***************************************************************************)
EXTENDS Keeping, SequencesExt, TLAPS, WellFoundedInduction, SequenceTheorems

\* A set of natural numbers that is not empty has a least element.
LEMMA LeastNat ==
  ASSUME NEW S \in SUBSET Nat, S # {}
  PROVE  \E m \in S : \A k \in S : m <= k
<1> DEFINE R == OpToRel(<, Nat)
<1>1. IsWellFoundedOn(R, Nat)
  BY NatLessThanWellFounded
<1>2. \E x \in S : \A y \in S : ~ (<<y, x>> \in R)
  <2> HIDE DEF R
  <2> QED BY <1>1, WFMin
<1>3. ASSUME NEW x \in Nat, NEW y \in Nat
      PROVE  <<x, y>> \in R <=> x < y
  BY DEF OpToRel
<1> HIDE DEF R
<1>4. PICK x \in S : \A y \in S : ~ (<<y, x>> \in R)
  BY <1>2
<1>5. ASSUME NEW k \in S
      PROVE  x <= k
  <2>1. x \in Nat /\ k \in Nat
    OBVIOUS
  <2>2. ~ (<<k, x>> \in R)
    BY <1>4
  <2>3. ~ (k < x)
    BY <1>3, <2>1, <2>2
  <2> QED BY <2>1, <2>3
<1> QED BY <1>4, <1>5

\* g[i] is what is kept of the first i elements, for i up to n.
KeptUpTo(g, S, s, X, n) ==
    /\ g \in [0 .. n -> Seq(S)]
    /\ g[0] = <<>>
    /\ \A i \in 1 .. n : g[i] = IF s[i] \in X THEN Append(g[i-1], s[i]) ELSE g[i-1]

\* The recursion in Keep has a solution.
LEMMA KeptExists ==
  ASSUME NEW S, NEW s \in Seq(S), NEW X, NEW n \in 0 .. Len(s)
  PROVE  \E g : KeptUpTo(g, S, s, X, n)
<1> DEFINE Good(m) == \E g : KeptUpTo(g, S, s, X, m)
           Bad == {m \in 0 .. Len(s) : ~ Good(m)}
<1>1. Good(0)
  <2> DEFINE g == [i \in 0 .. 0 |-> <<>>]
  <2>1. g \in [0 .. 0 -> Seq(S)] /\ g[0] = <<>>
    OBVIOUS
  <2>2. \A i \in 1 .. 0 : FALSE
    OBVIOUS
  <2> QED BY <2>1, <2>2 DEF KeptUpTo
<1>2. ASSUME NEW m \in 0 .. Len(s), m # 0, Good(m-1)
      PROVE  Good(m)
  <2>1. PICK g : KeptUpTo(g, S, s, X, m-1)
    BY <1>2
  <2> DEFINE last == IF s[m] \in X THEN Append(g[m-1], s[m]) ELSE g[m-1]
             h == [i \in 0 .. m |-> IF i = m THEN last ELSE g[i]]
  <2>2. s[m] \in S /\ g[m-1] \in Seq(S)
    BY <1>2, <2>1 DEF KeptUpTo
  <2>3. last \in Seq(S)
    BY <2>2
  <2> HIDE DEF last
  <2>4. h \in [0 .. m -> Seq(S)]
    BY <2>1, <2>3 DEF KeptUpTo
  <2>5. h[0] = <<>>
    BY <1>2, <2>1 DEF KeptUpTo
  <2>6. ASSUME NEW i \in 1 .. m
        PROVE  h[i] = IF s[i] \in X THEN Append(h[i-1], s[i]) ELSE h[i-1]
    <3>1. CASE i = m
      <4>1. h[i] = last /\ h[i-1] = g[m-1]
        BY <3>1, <1>2
      <4> QED BY <4>1, <3>1 DEF last
    <3>2. CASE i # m
      <4>1. i \in 1 .. m-1 /\ h[i] = g[i] /\ h[i-1] = g[i-1]
        BY <3>2, <1>2
      <4> QED BY <4>1, <2>1 DEF KeptUpTo
    <3> QED BY <3>1, <3>2
  <2> HIDE DEF h
  <2>7. KeptUpTo(h, S, s, X, m)
    BY <2>4, <2>5, <2>6 DEF KeptUpTo
  <2> QED BY <2>7
<1> HIDE DEF Good
<1>3. Bad = {}
  <2> SUFFICES ASSUME Bad # {}
               PROVE  FALSE
    OBVIOUS
  <2>1. Bad \in SUBSET Nat
    OBVIOUS
  <2>2. PICK m \in Bad : \A k \in Bad : m <= k
    BY <2>1, LeastNat
  <2>3. m # 0 /\ m-1 \in 0 .. Len(s) /\ m - 1 \notin Bad
    BY <1>1, <2>2
  <2> QED BY <1>2, <2>3
<1> QED BY <1>3 DEF Good

\* Keep is the last step of that recursion.
LEMMA KeepUnfolds ==
  ASSUME NEW S, NEW s \in Seq(S), NEW X
  PROVE  \E g : KeptUpTo(g, S, s, X, Len(s)) /\ Keep(s, X) = g[Len(s)]
<1> DEFINE Unfolds(h) == h = [i \in 0 .. Len(s) |->
              IF i = 0 THEN <<>>
              ELSE IF s[i] \in X THEN Append(h[i-1], s[i]) ELSE h[i-1]]
           k == CHOOSE h : Unfolds(h)
<1>1. PICK g : KeptUpTo(g, S, s, X, Len(s))
  <2>1. Len(s) \in 0 .. Len(s)
    OBVIOUS
  <2> QED BY <2>1, KeptExists
<1>2. Unfolds(g)
  <2> DEFINE rhs == [i \in 0 .. Len(s) |->
              IF i = 0 THEN <<>>
              ELSE IF s[i] \in X THEN Append(g[i-1], s[i]) ELSE g[i-1]]
  <2>1. g \in [0 .. Len(s) -> Seq(S)] /\ DOMAIN g = 0 .. Len(s)
    BY <1>1 DEF KeptUpTo
  <2>2. \A i \in 0 .. Len(s) : g[i] = rhs[i]
    <3> SUFFICES ASSUME NEW i \in 0 .. Len(s)
                 PROVE  g[i] = rhs[i]
      OBVIOUS
    <3>1. CASE i = 0
      BY <3>1, <1>1 DEF KeptUpTo
    <3>2. CASE i # 0
      <4>1. i \in 1 .. Len(s)
        BY <3>2
      <4>2. g[i] = IF s[i] \in X THEN Append(g[i-1], s[i]) ELSE g[i-1]
        BY <4>1, <1>1 DEF KeptUpTo
      <4> QED BY <3>2, <4>2
    <3> QED BY <3>1, <3>2
  <2>3. DOMAIN rhs = 0 .. Len(s) /\ rhs = [i \in DOMAIN rhs |-> rhs[i]]
    OBVIOUS
  <2>4. g = [i \in DOMAIN g |-> g[i]]
    BY <2>1
  <2> HIDE DEF rhs
  <2>5. g = rhs
    BY <2>1, <2>2, <2>3, <2>4
  <2> QED BY <2>5 DEF rhs
<1>3. Unfolds(k)
  BY <1>2
<1>4. Keep(s, X) = k[Len(s)]
  BY DEF Keep
<1> HIDE DEF k
<1>5. \A i \in 0 .. Len(s) : k[i] = g[i]
  <2> DEFINE Bad == {i \in 0 .. Len(s) : k[i] # g[i]}
  <2> SUFFICES ASSUME Bad # {}
               PROVE  FALSE
    OBVIOUS
  <2>1. Bad \in SUBSET Nat
    OBVIOUS
  <2>2. PICK m \in Bad : \A j \in Bad : m <= j
    BY <2>1, LeastNat
  <2>3. m # 0
    BY <1>1, <1>3 DEF KeptUpTo
  <2>a. m \in 1 .. Len(s)
    BY <2>3
  <2>b. m-1 \in 0 .. Len(s) /\ m-1 \notin Bad
    BY <2>2, <2>a
  <2>4. k[m-1] = g[m-1]
    BY <2>b
  <2>5. k[m] = IF s[m] \in X THEN Append(k[m-1], s[m]) ELSE k[m-1]
    <3>1. k[m] = [i \in 0 .. Len(s) |->
              IF i = 0 THEN <<>>
              ELSE IF s[i] \in X THEN Append(k[i-1], s[i]) ELSE k[i-1]][m]
      BY <1>3
    <3>2. m \in 0 .. Len(s) /\ m # 0
      BY <2>a
    <3> QED BY <3>1, <3>2
  <2>6. g[m] = IF s[m] \in X THEN Append(g[m-1], s[m]) ELSE g[m-1]
    BY <1>1, <2>a DEF KeptUpTo
  <2> QED BY <2>2, <2>4, <2>5, <2>6
<1> QED BY <1>1, <1>4, <1>5

LEMMA RangeOfAppend ==
  ASSUME NEW S, NEW t \in Seq(S), NEW e \in S
  PROVE  Range(Append(t, e)) = Range(t) \cup {e}
<1> DEFINE u == Append(t, e)
<1>1. u \in Seq(S) /\ Len(u) = Len(t) + 1 /\ Len(t) \in Nat
  OBVIOUS
<1>2. u[Len(u)] = e /\ \A i \in 1 .. Len(t) : u[i] = t[i]
  OBVIOUS
<1>3. DOMAIN u = 1 .. Len(u) /\ DOMAIN t = 1 .. Len(t)
  BY <1>1
<1> HIDE DEF u
<1>4. 1 .. Len(u) = 1 .. Len(t) \cup {Len(u)}
  BY <1>1
<1>5. Range(u) = {u[i] : i \in 1 .. Len(t)} \cup {u[Len(u)]}
  BY <1>3, <1>4 DEF Range
<1>6. Range(t) = {u[i] : i \in 1 .. Len(t)}
  BY <1>2, <1>3 DEF Range
<1>7. Range(u) = Range(t) \cup {e}
  BY <1>2, <1>5, <1>6
<1> QED BY <1>7 DEF u

\* Keep returns a sequence of the elements of s that are in X, all of them and
\* no other.
THEOREM KeepProperties ==
  ASSUME NEW S, NEW s \in Seq(S), NEW X
  PROVE  /\ Keep(s, X) \in Seq(S)
         /\ Range(Keep(s, X)) = Range(s) \cap X
<1>1. PICK g : KeptUpTo(g, S, s, X, Len(s)) /\ Keep(s, X) = g[Len(s)]
  BY KeepUnfolds
<1> DEFINE Prefix(m) == {s[j] : j \in 1 .. m}
           Bad == {m \in 0 .. Len(s) : Range(g[m]) # Prefix(m) \cap X}
<1>2. Bad = {}
  <2> SUFFICES ASSUME Bad # {}
               PROVE  FALSE
    OBVIOUS
  <2>1. Bad \in SUBSET Nat
    OBVIOUS
  <2>2. PICK m \in Bad : \A j \in Bad : m <= j
    BY <2>1, LeastNat
  <2>3. m # 0
    <3>1. Range(g[0]) = {}
      BY <1>1 DEF Range, KeptUpTo
    <3>2. Prefix(0) = {}
      OBVIOUS
    <3> QED BY <3>1, <3>2, <2>2
  <2>a. m \in 1 .. Len(s)
    BY <2>3
  <2>b. m-1 \in 0 .. Len(s)
    BY <2>a
  <2>c. m-1 \notin Bad
    <3> HIDE DEF Prefix
    <3> QED BY <2>2, <2>a
  <2>4. m-1 \in 0 .. Len(s) /\ m \in 1 .. Len(s) /\ m - 1 \notin Bad
    BY <2>a, <2>b, <2>c
  <2>5. Range(g[m-1]) = Prefix(m-1) \cap X
    BY <2>4
  <2>6. Prefix(m) = Prefix(m-1) \cup {s[m]}
    BY <2>4
  <2>7. g[m-1] \in Seq(S) /\ s[m] \in S
    BY <1>1, <2>4 DEF KeptUpTo
  <2>8. Range(Append(g[m-1], s[m])) = Range(g[m-1]) \cup {s[m]}
    BY <2>7, RangeOfAppend
  <2>9. g[m] = IF s[m] \in X THEN Append(g[m-1], s[m]) ELSE g[m-1]
    BY <1>1, <2>4 DEF KeptUpTo
  <2>10. Range(g[m]) = Prefix(m) \cap X
    <3> HIDE DEF Prefix
    <3>1. CASE s[m] \in X
      BY <3>1, <2>5, <2>6, <2>8, <2>9
    <3>2. CASE s[m] \notin X
      BY <3>2, <2>5, <2>6, <2>9
    <3> QED BY <3>1, <3>2
  <2> QED BY <2>2, <2>10
<1>3. Range(s) = Prefix(Len(s))
  BY DEF Range
<1>4. Len(s) \in 0 .. Len(s)
  OBVIOUS
<1> HIDE DEF Prefix
<1> QED BY <1>1, <1>2, <1>3, <1>4 DEF KeptUpTo

----------------------------------------------------------------------------
(* How Keep goes together with Append and \o.                              *)

\* A set that contains the empty sequence and is closed under Append contains
\* all sequences.
LEMMA AllSequences ==
  ASSUME NEW S, NEW T \in SUBSET Seq(S),
         <<>> \in T, \A t \in T : \A e \in S : Append(t, e) \in T
  PROVE  T = Seq(S)
<1> DEFINE Bad == {n \in Nat : \E t \in Seq(S) : t \notin T /\ Len(t) = n}
<1> SUFFICES ASSUME Bad # {}
             PROVE  FALSE
  <2>1. ASSUME NEW t \in Seq(S), t \notin T
        PROVE  Len(t) \in Bad
    <3>1. Len(t) \in Nat
      OBVIOUS
    <3> QED BY <2>1, <3>1
  <2> HIDE DEF Bad
  <2> QED BY <2>1
<1>1. PICK n \in Bad : \A k \in Bad : n <= k
  <2>1. Bad \in SUBSET Nat
    OBVIOUS
  <2> HIDE DEF Bad
  <2> QED BY <2>1, LeastNat
<1>2. PICK t \in Seq(S) : t \notin T /\ Len(t) = n
  BY <1>1
<1>3. PICK u \in Seq(S), e \in S : t = Append(u, e)
  BY <1>2, SequenceEmptyOrAppend
<1>4. Len(u) \in Nat /\ n = Len(u) + 1
  BY <1>2, <1>3
<1>5. Len(u) \notin Bad
  <2> HIDE DEF Bad
  <2> QED BY <1>1, <1>4
<1>6. u \in T
  BY <1>4, <1>5
<1> QED BY <1>2, <1>3, <1>6

LEMMA RangeEmpty ==
  ASSUME NEW S, NEW t \in Seq(S), Range(t) = {}
  PROVE  t = <<>>
<1> SUFFICES ASSUME t # <<>>
             PROVE  FALSE
  OBVIOUS
<1>1. Len(t) \in Nat \ {0} /\ DOMAIN t = 1 .. Len(t)
  BY EmptySeq, LenProperties
<1>2. t[1] \in Range(t)
  BY <1>1 DEF Range
<1> QED BY <1>2

\* Nothing is kept of a sequence without an element in X.
LEMMA KeepNone ==
  ASSUME NEW S, NEW s \in Seq(S), NEW X, Range(s) \cap X = {}
  PROVE  Keep(s, X) = <<>>
BY KeepProperties, RangeEmpty

LEMMA KeepEmpty == ASSUME NEW X PROVE Keep(<<>>, X) = <<>>
<1>1. <<>> \in Seq({}) /\ Range(<<>>) = {}
  BY DEF Range
<1> QED BY <1>1, KeepNone

LEMMA KeepAppend ==
  ASSUME NEW S, NEW s \in Seq(S), NEW e \in S, NEW X
  PROVE  Keep(Append(s, e), X) = IF e \in X THEN Append(Keep(s, X), e) ELSE Keep(s, X)
<1> DEFINE n == Len(s)
           u == Append(s, e)
<1>1. /\ u \in Seq(S) /\ Len(u) = n + 1 /\ n \in Nat
      /\ u[n + 1] = e /\ \A i \in 1 .. n : u[i] = s[i]
  OBVIOUS
<1> HIDE DEF n, u
<1>2. PICK g : KeptUpTo(g, S, s, X, n) /\ Keep(s, X) = g[n]
  BY KeepUnfolds DEF n
<1>3. PICK h : KeptUpTo(h, S, u, X, n + 1) /\ Keep(u, X) = h[n + 1]
  BY <1>1, KeepUnfolds
<1> DEFINE Bad == {i \in 0 .. n : h[i] # g[i]}
<1>4. Bad = {}
  <2> SUFFICES ASSUME Bad # {}
               PROVE  FALSE
    OBVIOUS
  <2>1. Bad \in SUBSET Nat
    BY <1>1
  <2>2. PICK m \in Bad : \A j \in Bad : m <= j
    BY <2>1, LeastNat
  <2>3. m # 0
    BY <1>2, <1>3 DEF KeptUpTo
  <2>4. m \in 1 .. n /\ m \in 1 .. n + 1
    BY <2>3, <1>1
  <2>a. m-1 \in 0 .. n
    BY <2>4, <1>1
  <2>b. m-1 \notin Bad
    <3> HIDE DEF Bad
    <3> QED BY <2>2, <2>4
  <2>5. m-1 \in 0 .. n /\ m-1 \notin Bad
    BY <2>a, <2>b
  <2>6. h[m-1] = g[m-1]
    BY <2>5
  <2>7. g[m] = IF s[m] \in X THEN Append(g[m-1], s[m]) ELSE g[m-1]
    BY <1>2, <2>4 DEF KeptUpTo
  <2>8. h[m] = IF u[m] \in X THEN Append(h[m-1], u[m]) ELSE h[m-1]
    BY <1>3, <2>4 DEF KeptUpTo
  <2> QED BY <2>2, <2>4, <2>6, <2>7, <2>8, <1>1
<1>5. h[n] = g[n]
  BY <1>1, <1>4
<1>6. h[n + 1] = IF u[n + 1] \in X THEN Append(h[n], u[n + 1]) ELSE h[n]
  <2>1. n + 1 \in 1 .. n + 1 /\ n + 1 - 1 = n
    BY <1>1
  <2>2. \A i \in 1 .. n + 1 : h[i] = IF u[i] \in X THEN Append(h[i-1], u[i]) ELSE h[i-1]
    BY <1>3, Zenon DEF KeptUpTo
  <2> DEFINE k == n + 1
  <2>3. k \in 1 .. n + 1 /\ k - 1 = n
    BY <1>1
  <2> HIDE DEF k
  <2>4. h[k] = IF u[k] \in X THEN Append(h[k-1], u[k]) ELSE h[k-1]
    BY <2>2, <2>3
  <2>5. h[k] = IF u[k] \in X THEN Append(h[n], u[k]) ELSE h[n]
    BY <2>3, <2>4
  <2> QED BY <2>5 DEF k
<1>7. Keep(u, X) = IF e \in X THEN Append(Keep(s, X), e) ELSE Keep(s, X)
  BY <1>1, <1>2, <1>3, <1>5, <1>6
<1> QED BY <1>7 DEF u

LEMMA ConcatAppend ==
  ASSUME NEW S, NEW s \in Seq(S), NEW t \in Seq(S), NEW e \in S
  PROVE  s \o Append(t, e) = Append(s \o t, e)
<1>1. <<e>> \in Seq(S) /\ s \o t \in Seq(S)
  BY ConcatProperties
<1>2. Append(t, e) = t \o <<e>> /\ Append(s \o t, e) = (s \o t) \o <<e>>
  BY <1>1, AppendIsConcat
<1> QED BY <1>1, <1>2, ConcatAssociative

LEMMA KeepConcat ==
  ASSUME NEW S, NEW s \in Seq(S), NEW t \in Seq(S), NEW X
  PROVE  Keep(s \o t, X) = Keep(s, X) \o Keep(t, X)
<1> DEFINE T == {w \in Seq(S) : Keep(s \o w, X) = Keep(s, X) \o Keep(w, X)}
<1>1. <<>> \in T
  <2>1. Keep(s, X) \in Seq(S)
    BY KeepProperties
  <2>2. s \o <<>> = s /\ Keep(s, X) \o <<>> = Keep(s, X)
    BY <2>1, ConcatEmptySeq
  <2>3. Keep(s \o <<>>, X) = Keep(s, X) \o Keep(<<>>, X)
    BY <2>2, KeepEmpty, Zenon
  <2> QED BY <2>3
<1>2. ASSUME NEW w \in T, NEW e \in S
      PROVE  Append(w, e) \in T
  <2>1. /\ w \in Seq(S) /\ s \o w \in Seq(S) /\ Append(w, e) \in Seq(S)
        /\ Keep(s, X) \in Seq(S) /\ Keep(w, X) \in Seq(S)
    BY KeepProperties, ConcatProperties
  <2>2. s \o Append(w, e) = Append(s \o w, e)
    BY <2>1, ConcatAppend
  <2>3. Keep(Append(s \o w, e), X) =
           IF e \in X THEN Append(Keep(s \o w, X), e) ELSE Keep(s \o w, X)
    <3> DEFINE v == s \o w
    <3>1. v \in Seq(S)
      BY <2>1
    <3> HIDE DEF v
    <3>2. Keep(Append(v, e), X) = IF e \in X THEN Append(Keep(v, X), e) ELSE Keep(v, X)
      BY <3>1, KeepAppend
    <3> QED BY <3>2 DEF v
  <2>4. Keep(Append(w, e), X) = IF e \in X THEN Append(Keep(w, X), e) ELSE Keep(w, X)
    BY <2>1, KeepAppend
  <2>5. Keep(s, X) \o Append(Keep(w, X), e) = Append(Keep(s, X) \o Keep(w, X), e)
    BY <2>1, ConcatAppend
  <2>6. Keep(s \o w, X) = Keep(s, X) \o Keep(w, X)
    OBVIOUS
  <2>7. Keep(s \o Append(w, e), X) = Keep(s, X) \o Keep(Append(w, e), X)
    BY <2>2, <2>3, <2>4, <2>5, <2>6
  <2> QED BY <2>1, <2>7
<1>3. T = Seq(S)
  <2>1. T \in SUBSET Seq(S)
    OBVIOUS
  <2> HIDE DEF T
  <2> QED BY <1>1, <1>2, <2>1, AllSequences
<1> QED BY <1>3

LEMMA KeepSame ==
  ASSUME NEW S, NEW s \in Seq(S), NEW X, NEW Y, \A e \in Range(s) : e \in X <=> e \in Y
  PROVE  Keep(s, X) = Keep(s, Y)
<1> DEFINE Agree(w) == \A e \in Range(w) : e \in X <=> e \in Y
           T == {w \in Seq(S) : Agree(w) => Keep(w, X) = Keep(w, Y)}
<1>1. <<>> \in T
  BY KeepEmpty
<1>2. ASSUME NEW w \in T, NEW e \in S
      PROVE  Append(w, e) \in T
  <2>1. w \in Seq(S) /\ Append(w, e) \in Seq(S)
    OBVIOUS
  <2>2. Range(Append(w, e)) = Range(w) \cup {e}
    BY <2>1, RangeOfAppend
  <2>3. Keep(Append(w, e), X) = IF e \in X THEN Append(Keep(w, X), e) ELSE Keep(w, X)
    BY <2>1, KeepAppend
  <2>4. Keep(Append(w, e), Y) = IF e \in Y THEN Append(Keep(w, Y), e) ELSE Keep(w, Y)
    BY <2>1, KeepAppend
  <2>5. Agree(Append(w, e)) => Agree(w) /\ (e \in X <=> e \in Y)
    BY <2>2
  <2>6. Agree(w) => Keep(w, X) = Keep(w, Y)
    OBVIOUS
  <2> HIDE DEF Agree
  <2> QED BY <2>1, <2>3, <2>4, <2>5, <2>6
<1>3. T = Seq(S)
  <2>1. T \in SUBSET Seq(S)
    OBVIOUS
  <2> HIDE DEF T
  <2> QED BY <1>1, <1>2, <2>1, AllSequences
<1> QED BY <1>3

LEMMA KeepKeep ==
  ASSUME NEW S, NEW s \in Seq(S), NEW X, NEW Y
  PROVE  Keep(Keep(s, X), Y) = Keep(s, X \cap Y)
<1> DEFINE T == {w \in Seq(S) : Keep(Keep(w, X), Y) = Keep(w, X \cap Y)}
<1>1. <<>> \in T
  BY KeepEmpty
<1>2. ASSUME NEW w \in T, NEW e \in S
      PROVE  Append(w, e) \in T
  <2>1. /\ w \in Seq(S) /\ Append(w, e) \in Seq(S)
        /\ Keep(w, X) \in Seq(S)
    BY KeepProperties
  <2>2. Keep(Append(w, e), X) = IF e \in X THEN Append(Keep(w, X), e) ELSE Keep(w, X)
    BY <2>1, KeepAppend
  <2>3. Keep(Append(Keep(w, X), e), Y) =
           IF e \in Y THEN Append(Keep(Keep(w, X), Y), e) ELSE Keep(Keep(w, X), Y)
    <3> DEFINE v == Keep(w, X)
    <3>1. v \in Seq(S)
      BY <2>1
    <3> HIDE DEF v
    <3>2. Keep(Append(v, e), Y) = IF e \in Y THEN Append(Keep(v, Y), e) ELSE Keep(v, Y)
      BY ONLY <3>1, e \in S, KeepAppend
    <3> QED BY <3>2 DEF v
  <2>4. Keep(Append(w, e), X \cap Y) =
           IF e \in X \cap Y THEN Append(Keep(w, X \cap Y), e) ELSE Keep(w, X \cap Y)
    BY <2>1, KeepAppend
  <2>5. Keep(Keep(w, X), Y) = Keep(w, X \cap Y)
    OBVIOUS
  <2>6. Keep(Keep(Append(w, e), X), Y) = Keep(Append(w, e), X \cap Y)
    <3> HIDE DEF T
    <3>1. CASE e \in X
      <4>1. Keep(Append(w, e), X) = Append(Keep(w, X), e) /\ (e \in X \cap Y <=> e \in Y)
        BY <3>1, <2>2
      <4> QED BY <4>1, <2>3, <2>4, <2>5, Zenon
    <3>2. CASE e \notin X
      BY <3>2, <2>2, <2>4, <2>5
    <3> QED BY <3>1, <3>2
  <2> QED BY <2>1, <2>6
<1>3. T = Seq(S)
  <2>1. T \in SUBSET Seq(S)
    OBVIOUS
  <2> HIDE DEF T
  <2> QED BY <1>1, <1>2, <2>1, AllSequences
<1> QED BY <1>3

NoRepeats(s) == \A i, j \in DOMAIN s : s[i] = s[j] => i = j

LEMMA NoRepeatsAppend ==
  ASSUME NEW S, NEW s \in Seq(S), NEW e \in S
  PROVE  NoRepeats(Append(s, e)) <=> NoRepeats(s) /\ e \notin Range(s)
<1> DEFINE n == Len(s)
           u == Append(s, e)
<1>1. /\ u \in Seq(S) /\ Len(u) = n + 1 /\ n \in Nat
      /\ u[n + 1] = e /\ \A i \in 1 .. n : u[i] = s[i]
  OBVIOUS
<1>2. DOMAIN u = 1 .. n + 1 /\ DOMAIN s = 1 .. n
  BY <1>1
<1> HIDE DEF n, u
<1>3. 1 .. n + 1 = 1 .. n \cup {n + 1} /\ n + 1 \notin 1 .. n
  BY <1>1
<1>4. NoRepeats(u) => NoRepeats(s) /\ e \notin Range(s)
  BY <1>1, <1>2, <1>3 DEF NoRepeats, Range
<1>5. NoRepeats(s) /\ e \notin Range(s) => NoRepeats(u)
  BY <1>1, <1>2, <1>3 DEF NoRepeats, Range
<1> QED BY <1>4, <1>5 DEF u

LEMMA KeepNoRepeats ==
  ASSUME NEW S, NEW s \in Seq(S), NEW X, NoRepeats(s)
  PROVE  NoRepeats(Keep(s, X))
<1> DEFINE T == {w \in Seq(S) : NoRepeats(w) => NoRepeats(Keep(w, X))}
<1>1. <<>> \in T
  BY KeepEmpty
<1>2. ASSUME NEW w \in T, NEW e \in S
      PROVE  Append(w, e) \in T
  <2>1. /\ w \in Seq(S) /\ Append(w, e) \in Seq(S)
        /\ Keep(w, X) \in Seq(S) /\ Range(Keep(w, X)) = Range(w) \cap X
    BY KeepProperties
  <2>2. Keep(Append(w, e), X) = IF e \in X THEN Append(Keep(w, X), e) ELSE Keep(w, X)
    BY <2>1, KeepAppend
  <2>3. NoRepeats(Append(w, e)) <=> NoRepeats(w) /\ e \notin Range(w)
    BY <2>1, NoRepeatsAppend
  <2>4. NoRepeats(Append(Keep(w, X), e)) <=> NoRepeats(Keep(w, X)) /\ e \notin Range(Keep(w, X))
    BY <2>1, NoRepeatsAppend
  <2>5. NoRepeats(w) => NoRepeats(Keep(w, X))
    OBVIOUS
  <2>6. NoRepeats(Append(w, e)) => NoRepeats(Keep(Append(w, e), X))
    BY <2>1, <2>2, <2>3, <2>4, <2>5
  <2> QED BY <2>1, <2>6
<1>3. T = Seq(S)
  <2>1. T \in SUBSET Seq(S)
    OBVIOUS
  <2> HIDE DEF T
  <2> QED BY <1>1, <1>2, <2>1, AllSequences
<1> QED BY <1>3

----------------------------------------------------------------------------
\* RemoveAt drops one element and keeps the order of the others.
LEMMA RemoveAtProperties ==
  ASSUME NEW S, NEW s \in Seq(S), NEW n \in 1 .. Len(s)
  PROVE  /\ RemoveAt(s, n) \in Seq(S)
         /\ Len(RemoveAt(s, n)) = Len(s) - 1
         /\ \A i \in 1 .. Len(s) - 1 :
               RemoveAt(s, n)[i] = IF i < n THEN s[i] ELSE s[i+1]
<1> DEFINE a == SubSeq(s, 1, n-1)
           b == SubSeq(s, n+1, Len(s))
<1>1. /\ a \in Seq(S) /\ Len(a) = n-1
      /\ \A i \in 1 .. n-1 : a[i] = s[i]
  OBVIOUS
<1>2. /\ b \in Seq(S) /\ Len(b) = Len(s) - n
      /\ \A i \in 1 .. Len(s) - n : b[i] = s[n+i]
  OBVIOUS
<1> HIDE DEF a, b
<1>3. /\ a \o b \in Seq(S)
      /\ Len(a \o b) = Len(s) - 1
      /\ \A i \in 1 .. Len(s) - 1 : (a \o b)[i] = IF i <= n-1 THEN a[i] ELSE b[i - (n-1)]
  <2>1. Len(s) \in Nat /\ Len(a) + Len(b) = Len(s) - 1
    BY <1>1, <1>2
  <2>2. a \in Seq(S) /\ b \in Seq(S)
    BY <1>1, <1>2
  <2>3. /\ a \o b \in Seq(S)
        /\ Len(a \o b) = Len(a) + Len(b)
        /\ \A i \in 1 .. Len(a) + Len(b) : (a \o b)[i] =
                     IF i <= Len(a) THEN a[i] ELSE b[i - Len(a)]
    BY <2>2, ConcatProperties
  <2> QED BY <1>1, <2>1, <2>3
<1>4. ASSUME NEW i \in 1 .. Len(s) - 1
      PROVE  (a \o b)[i] = IF i < n THEN s[i] ELSE s[i+1]
  <2>1. CASE i < n
    BY <2>1, <1>1, <1>3
  <2>2. CASE ~ (i < n)
    <3>1. i - (n-1) \in 1 .. Len(s) - n /\ n + (i - (n-1)) = i + 1
      BY <2>2
    <3>2. (a \o b)[i] = b[i - (n-1)]
      <4>1. ~ (i <= n-1)
        BY <2>2
      <4> QED BY <4>1, <1>3
    <3>3. b[i - (n-1)] = s[n + (i - (n-1))]
      BY <3>1, <1>2
    <3> QED BY <3>1, <3>2, <3>3, <2>2
  <2> QED BY <2>1, <2>2
<1> QED BY <1>3, <1>4 DEF RemoveAt, a, b
=============================================================================
