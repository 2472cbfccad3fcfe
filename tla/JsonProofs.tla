----------------------------- MODULE JsonProofs -----------------------------
(* Lemmas about joined sequences and about the fields of JSON documents, of *)
(* any length and for any values, for the proofs of what is made of them.   *)
EXTENDS Json, WellFoundedInduction, TLAPS

-----------------------------------------------------------------------------
(* Sequences joined to one *)

LEMMA LeastNatural ==
  ASSUME NEW T \in SUBSET Nat, T # {}
  PROVE  \E x \in T : \A y \in T : x <= y
<1> DEFINE R == OpToRel(<, Nat)
<1>1. IsWellFoundedOn(R, Nat)
  BY NatLessThanWellFounded
<1>2. \A x, y \in Nat : y < x => <<y, x>> \in R
  BY DEF OpToRel
<1> HIDE DEF R
<1>3. PICK x \in T : \A y \in T : ~ (<<y, x>> \in R)
  BY <1>1, WFMin
<1>4. \A y \in T : y \in Nat /\ ~ (y < x)
  BY <1>2, <1>3
<1> QED
  BY <1>3, <1>4

\* What holds of 0, and of a number after the one before it, holds of all.
LEMMA EachNatural ==
  ASSUME NEW n \in Nat, NEW T \in SUBSET Nat, 0 \in T,
         \A k \in 0 .. n - 1 : k \in T => k + 1 \in T
  PROVE  0 .. n \subseteq T
<1> DEFINE U == {k \in 0 .. n : k \notin T}
<1>1. SUFFICES ASSUME U # {} PROVE FALSE
  BY <1>1
<1>0. U \in SUBSET Nat
  OBVIOUS
<1>2. PICK x \in U : \A y \in U : x <= y
  <2> HIDE DEF U
  <2> QED
    BY <1>0, <1>1, LeastNatural
<1>3. x # 0 /\ x - 1 \in 0 .. n - 1 /\ x - 1 \notin U
  BY <1>2
<1> QED
  BY <1>2, <1>3

\* The recursion of FlattenSeq, up to n.
Joins(g, f, n) == \A i \in 1 .. n : g[i] = IF i = 1 THEN f[i] ELSE g[i - 1] \o f[i]

LEMMA JoinsUnique ==
  ASSUME NEW n \in Nat, NEW f, NEW g, NEW h, Joins(g, f, n), Joins(h, f, n)
  PROVE  \A k \in 1 .. n : g[k] = h[k]
<1> DEFINE T == {k \in Nat : k \in 1 .. n => g[k] = h[k]}
<1>1. 0 \in T
  OBVIOUS
<1>2. ASSUME NEW k \in 0 .. n - 1, k \in T PROVE k + 1 \in T
  <2>1. k + 1 \in 1 .. n /\ (k # 0 => k \in 1 .. n)
    OBVIOUS
  <2>2. /\ g[k + 1] = IF k + 1 = 1 THEN f[k + 1] ELSE g[k + 1 - 1] \o f[k + 1]
        /\ h[k + 1] = IF k + 1 = 1 THEN f[k + 1] ELSE h[k + 1 - 1] \o f[k + 1]
    BY <2>1 DEF Joins
  <2>3. k + 1 - 1 = k /\ (k + 1 = 1 <=> k = 0)
    OBVIOUS
  <2> QED
    BY <1>2, <2>1, <2>2, <2>3
<1>3. 0 .. n \subseteq T
  BY <1>1, <1>2, EachNatural
<1> QED
  BY <1>3

LEMMA JoinsExtends ==
  ASSUME NEW n \in Nat, NEW f, NEW g, Joins(g, f, n)
  PROVE  \E h : Joins(h, f, n + 1)
<1> DEFINE h == [i \in 1 .. n + 1 |-> IF i = n + 1 THEN (IF n = 0 THEN f[1] ELSE g[n] \o f[n + 1]) ELSE g[i]]
<1>0. /\ \A i \in 1 .. n : h[i] = g[i]
      /\ h[n + 1] = IF n = 0 THEN f[1] ELSE g[n] \o f[n + 1]
  <2>1. n + 1 \in 1 .. n + 1 /\ \A i \in 1 .. n : i \in 1 .. n + 1 /\ i # n + 1
    OBVIOUS
  <2> QED
    BY <2>1, Zenon
<1> HIDE DEF h
<1>1. ASSUME NEW i \in 1 .. n + 1 PROVE h[i] = IF i = 1 THEN f[i] ELSE h[i - 1] \o f[i]
  <2>1. CASE i = n + 1 /\ n = 0
    BY <1>0, <2>1
  <2>2. CASE i = n + 1 /\ n # 0
    <3>1. i # 1 /\ i - 1 = n /\ n \in 1 .. n
      BY <2>2
    <3>2. h[i] = g[n] \o f[i] /\ h[n] = g[n]
      BY <1>0, <2>2, <3>1
    <3> QED
      BY <3>1, <3>2
  <2>3. CASE i # n + 1
    <3>1. i \in 1 .. n /\ h[i] = g[i]
      BY <1>0, <2>3
    <3>2. g[i] = IF i = 1 THEN f[i] ELSE g[i - 1] \o f[i]
      BY <3>1 DEF Joins
    <3>3. i # 1 => h[i - 1] = g[i - 1]
      BY <1>0, <3>1
    <3> QED
      BY <3>1, <3>2, <3>3
  <2> QED
    BY <2>1, <2>2, <2>3
<1>2. Joins(h, f, n + 1)
  BY <1>1 DEF Joins
<1> QED
  BY <1>2

LEMMA JoinsExists ==
  ASSUME NEW n \in Nat, NEW f
  PROVE  \E g : Joins(g, f, n)
<1> DEFINE T == {k \in Nat : \E g : Joins(g, f, k)}
<1>1. 0 \in T
  <2>1. Joins(<<>>, f, 0)
    BY DEF Joins
  <2> QED
    BY <2>1
<1>2. \A k \in 0 .. n - 1 : k \in T => k + 1 \in T
  BY JoinsExtends
<1>3. 0 .. n \subseteq T
  BY <1>1, <1>2, EachNatural
<1> QED
  BY <1>3

\* FlattenSeq of n sequences is the last of its recursion.
LEMMA FlattenIs ==
  ASSUME NEW S, NEW n \in Nat, NEW f \in [1 .. n -> Seq(S)], NEW g, n # 0, Joins(g, f, n)
  PROVE  FlattenSeq(f) = g[n]
<1> DEFINE Rec(h) == [i \in 1 .. n |-> IF i = 1 THEN f[i] ELSE h[i - 1] \o f[i]]
<1>1. f \in Seq(Seq(S)) /\ Len(f) = n
  OBVIOUS
<1>2. FlattenSeq(f) = (CHOOSE h : h = Rec(h))[n]
  BY <1>1 DEF FlattenSeq
<1>3. \E h : h = Rec(h)
  <2> DEFINE h == [i \in 1 .. n |-> g[i]]
  <2>1. ASSUME NEW i \in 1 .. n PROVE h[i] = IF i = 1 THEN f[i] ELSE h[i - 1] \o f[i]
    <3>1. i # 1 => i - 1 \in 1 .. n
      OBVIOUS
    <3> QED
      BY <3>1 DEF Joins
  <2>2. h = Rec(h)
    BY <2>1
  <2> QED
    BY <2>2
<1>4. PICK h : h = Rec(h) /\ FlattenSeq(f) = h[n]
  BY <1>2, <1>3
<1>5. \A i \in 1 .. n : Rec(h)[i] = IF i = 1 THEN f[i] ELSE h[i - 1] \o f[i]
  OBVIOUS
<1> HIDE DEF Rec
<1>6. Joins(h, f, n)
  BY <1>4, <1>5 DEF Joins
<1> QED
  BY <1>4, <1>6, JoinsUnique

LEMMA FlattenEmpty ==
  ASSUME NEW f, f = <<>>
  PROVE  FlattenSeq(f) = <<>>
  BY DEF FlattenSeq

\* The first n of the sequences.
FirstOf(f, n) == [i \in 1 .. n |-> f[i]]

LEMMA FlattenTyped ==
  ASSUME NEW S, NEW n \in Nat, NEW f \in [1 .. n -> Seq(S)]
  PROVE  FlattenSeq(f) \in Seq(S)
<1>1. CASE n = 0
  <2>1. f = <<>>
    BY <1>1
  <2>2. FlattenSeq(f) = <<>>
    BY <2>1, FlattenEmpty
  <2> QED
    BY <2>2
<1>2. CASE n # 0
  <2>1. PICK g : Joins(g, f, n)
    BY JoinsExists
  <2> DEFINE T == {k \in Nat : k \in 1 .. n => g[k] \in Seq(S)}
  <2>2. 0 \in T
    OBVIOUS
  <2>3. ASSUME NEW k \in 0 .. n - 1, k \in T PROVE k + 1 \in T
    <3>1. k + 1 \in 1 .. n /\ (k # 0 => k \in 1 .. n) /\ k + 1 - 1 = k /\ (k + 1 = 1 <=> k = 0)
      OBVIOUS
    <3>2. g[k + 1] = IF k = 0 THEN f[k + 1] ELSE g[k] \o f[k + 1]
      BY <2>1, <3>1 DEF Joins
    <3>3. f[k + 1] \in Seq(S) /\ (k # 0 => g[k] \in Seq(S))
      BY <2>3, <3>1
    <3>4. g[k + 1] \in Seq(S)
      BY <3>2, <3>3
    <3> QED
      BY <3>4
  <2>4. 0 .. n \subseteq T
    BY <2>2, <2>3, EachNatural
  <2>5. g[n] \in Seq(S)
    BY <1>2, <2>4
  <2> QED
    BY <1>2, <2>1, <2>5, FlattenIs
<1> QED
  BY <1>1, <1>2

LEMMA FlattenLast ==
  ASSUME NEW S, NEW n \in Nat, NEW f \in [1 .. n + 1 -> Seq(S)]
  PROVE  FlattenSeq(f) = FlattenSeq(FirstOf(f, n)) \o f[n + 1]
<1>0. n + 1 \in Nat
  OBVIOUS
<1>1. PICK g : Joins(g, f, n + 1)
  BY <1>0, JoinsExists
<1>2. FlattenSeq(f) = g[n + 1]
  BY <1>1, FlattenIs
<1>3. g[n + 1] = IF n + 1 = 1 THEN f[n + 1] ELSE g[n + 1 - 1] \o f[n + 1]
  BY <1>1 DEF Joins
<1>4. f[n + 1] \in Seq(S)
  OBVIOUS
<1>5. CASE n = 0
  <2>1. FirstOf(f, n) = <<>>
    BY <1>5 DEF FirstOf
  <2>2. FlattenSeq(FirstOf(f, n)) = <<>>
    BY <2>1, FlattenEmpty
  <2> QED
    BY <1>2, <1>3, <1>4, <1>5, <2>2
<1>6. CASE n # 0
  <2>1. FirstOf(f, n) \in [1 .. n -> Seq(S)] /\ \A i \in 1 .. n : FirstOf(f, n)[i] = f[i]
    BY DEF FirstOf
  <2>2. Joins(g, FirstOf(f, n), n)
    BY <1>1, <2>1 DEF Joins
  <2>3. FlattenSeq(FirstOf(f, n)) = g[n]
    BY <1>6, <2>1, <2>2, FlattenIs
  <2>4. n + 1 # 1 /\ n + 1 - 1 = n
    BY <1>6
  <2> QED
    BY <1>2, <1>3, <2>3, <2>4
<1> QED
  BY <1>5, <1>6

LEMMA FlattenOne ==
  ASSUME NEW S, NEW s \in Seq(S)
  PROVE  FlattenSeq(<<s>>) = s
<1> DEFINE f == <<s>>
<1>1. f \in [1 .. 0 + 1 -> Seq(S)] /\ f[0 + 1] = s
  OBVIOUS
<1>2. FlattenSeq(f) = FlattenSeq(FirstOf(f, 0)) \o s
  BY <1>1, FlattenLast
<1>3. FirstOf(f, 0) = <<>>
  BY DEF FirstOf
<1> QED
  BY <1>2, <1>3, FlattenEmpty

\* One element each, in their order.
LEMMA FlattenSingles ==
  ASSUME NEW S, NEW s \in Seq(S), NEW f, f = [i \in DOMAIN s |-> <<s[i]>>]
  PROVE  FlattenSeq(f) = s
<1> DEFINE n == Len(s)
           T == {k \in Nat : k \in 0 .. n => FlattenSeq(FirstOf(f, k)) = FirstOf(s, k)}
<1>0. n \in Nat /\ f \in [1 .. n -> Seq(S)] /\ \A i \in 1 .. n : f[i] = <<s[i]>> /\ s[i] \in S
  OBVIOUS
<1>1. 0 \in T
  <2>1. FirstOf(f, 0) = <<>> /\ FirstOf(s, 0) = <<>>
    BY DEF FirstOf
  <2> QED
    BY <2>1, FlattenEmpty
<1>2. ASSUME NEW k \in 0 .. n - 1, k \in T PROVE k + 1 \in T
  <2> HIDE DEF n
  <2>1. k \in Nat /\ k + 1 \in 1 .. n /\ k \in 0 .. n
    BY <1>0
  <2>2. FirstOf(f, k + 1) \in [1 .. k + 1 -> Seq(S)] /\ FirstOf(f, k + 1)[k + 1] = <<s[k + 1]>>
    BY <1>0, <2>1 DEF FirstOf
  <2>3. FirstOf(FirstOf(f, k + 1), k) = FirstOf(f, k)
    BY <2>1 DEF FirstOf
  <2>4. FlattenSeq(FirstOf(f, k + 1)) = FlattenSeq(FirstOf(f, k)) \o <<s[k + 1]>>
    BY <2>1, <2>2, <2>3, FlattenLast
  <2>5. FlattenSeq(FirstOf(f, k)) = FirstOf(s, k)
    BY <1>2, <2>1
  <2>6. FirstOf(s, k) \in Seq(S) /\ Len(FirstOf(s, k)) = k /\ \A i \in 1 .. k : FirstOf(s, k)[i] = s[i]
    BY <1>0, <2>1 DEF FirstOf
  <2>7. FirstOf(s, k) \o <<s[k + 1]>> = FirstOf(s, k + 1)
    BY <1>0, <2>1, <2>6 DEF FirstOf
  <2>8. FlattenSeq(FirstOf(f, k + 1)) = FirstOf(s, k + 1)
    BY <2>4, <2>5, <2>7
  <2> QED
    BY <2>1, <2>8
<1>3. 0 .. n \subseteq T
  BY <1>0, <1>1, <1>2, EachNatural
<1>4. FirstOf(f, n) = f /\ FirstOf(s, n) = s
  BY DEF FirstOf
<1> QED
  BY <1>0, <1>3, <1>4

\* The prefixes of f, one after the other.
LEMMA FlattenNext ==
  ASSUME NEW S, NEW n \in Nat, NEW f \in [1 .. n -> Seq(S)], NEW k \in 0 .. n - 1
  PROVE  /\ FlattenSeq(FirstOf(f, k + 1)) = FlattenSeq(FirstOf(f, k)) \o f[k + 1]
         /\ FlattenSeq(FirstOf(f, k)) \in Seq(S) /\ f[k + 1] \in Seq(S)
<1>1. k \in Nat /\ k + 1 \in 1 .. n
  OBVIOUS
<1>2. FirstOf(f, k + 1) \in [1 .. k + 1 -> Seq(S)] /\ FirstOf(f, k + 1)[k + 1] = f[k + 1]
  BY <1>1 DEF FirstOf
<1>3. FirstOf(FirstOf(f, k + 1), k) = FirstOf(f, k) /\ FirstOf(f, k) \in [1 .. k -> Seq(S)]
  BY <1>1 DEF FirstOf
<1> QED
  BY <1>1, <1>2, <1>3, FlattenLast, FlattenTyped

LEMMA FlattenWhole ==
  ASSUME NEW S, NEW n \in Nat, NEW f \in [1 .. n -> Seq(S)]
  PROVE  FirstOf(f, n) = f /\ FirstOf(f, 0) = <<>>
  BY DEF FirstOf

LEMMA Joining ==
  ASSUME NEW S, NEW r \in Seq(S), NEW s \in Seq(S), NEW t \in Seq(S)
  PROVE  r \o s \in Seq(S) /\ (r \o s) \o t = r \o (s \o t) /\ <<>> \o r = r /\ r \o <<>> = r
  OBVIOUS

LEMMA SeqFunction ==
  ASSUME NEW S, NEW s \in Seq(S)
  PROVE  s \in [1 .. Len(s) -> S] /\ Len(s) \in Nat
  OBVIOUS

LEMMA JoinedParts ==
  ASSUME NEW S, NEW f \in Seq(S), NEW g \in Seq(S)
  PROVE  /\ f \o g \in [1 .. Len(f) + Len(g) -> S]
         /\ \A i \in 1 .. Len(f) : (f \o g)[i] = f[i]
         /\ \A i \in 1 .. Len(g) : (f \o g)[Len(f) + i] = g[i]
<1>1. f \o g \in Seq(S) /\ Len(f \o g) = Len(f) + Len(g) /\ Len(f) \in Nat /\ Len(g) \in Nat
  OBVIOUS
<1>2. \A i \in 1 .. Len(f) + Len(g) : (f \o g)[i] = IF i <= Len(f) THEN f[i] ELSE g[i - Len(f)]
  OBVIOUS
<1>3. \A i \in 1 .. Len(g) :
        Len(f) + i \in 1 .. Len(f) + Len(g) /\ ~ (Len(f) + i <= Len(f)) /\ (Len(f) + i) - Len(f) = i
  BY <1>1
<1>4. \A i \in 1 .. Len(g) : (f \o g)[Len(f) + i] = g[i]
  BY <1>2, <1>3
<1>5. \A i \in 1 .. Len(f) : (f \o g)[i] = f[i]
  BY <1>1, <1>2
<1>6. f \o g \in [1 .. Len(f) + Len(g) -> S]
  <2>1. f \o g \in [1 .. Len(f \o g) -> S]
    BY <1>1, SeqFunction
  <2> QED
    BY <1>1, <2>1
<1> QED
  BY <1>4, <1>5, <1>6

LEMMA JoinedLength ==
  ASSUME NEW S, NEW f \in Seq(S), NEW g \in Seq(S)
  PROVE  f \o g \in Seq(S) /\ Len(f \o g) = Len(f) + Len(g)
  OBVIOUS

LEMMA FlattenConcat ==
  ASSUME NEW S, NEW f \in Seq(Seq(S)), NEW g \in Seq(Seq(S))
  PROVE  FlattenSeq(f \o g) = FlattenSeq(f) \o FlattenSeq(g)
<1> DEFINE m == Len(f)
           n == Len(g)
           h == f \o g
           T == {k \in Nat : k \in 0 .. n =>
                   FlattenSeq(FirstOf(h, m + k)) = FlattenSeq(f) \o FlattenSeq(FirstOf(g, k))}
<1>a. m \in Nat /\ n \in Nat /\ f \in [1 .. m -> Seq(S)] /\ g \in [1 .. n -> Seq(S)]
  OBVIOUS
<1>b. m + n \in Nat /\ h \in [1 .. m + n -> Seq(S)] /\ \A i \in 1 .. n : h[m + i] = g[i]
  BY JoinedParts
<1>c. FirstOf(h, m) = f
  BY DEF FirstOf
<1>1. FlattenSeq(f) \in Seq(S)
  BY <1>a, FlattenTyped
<1> HIDE DEF m, n, h
<1>2. 0 \in T
  <2>1. FirstOf(g, 0) = <<>>
    BY <1>a, FlattenWhole
  <2>2. FlattenSeq(FirstOf(g, 0)) = <<>> /\ m + 0 = m
    BY <1>a, <2>1, FlattenEmpty
  <2>3. FlattenSeq(f) \o <<>> = FlattenSeq(f)
    BY <1>1, Joining
  <2> QED
    BY <1>c, <2>2, <2>3
<1>3. ASSUME NEW k \in 0 .. n - 1, k \in T PROVE k + 1 \in T
  <2>1. /\ FlattenSeq(FirstOf(g, k + 1)) = FlattenSeq(FirstOf(g, k)) \o g[k + 1]
        /\ FlattenSeq(FirstOf(g, k)) \in Seq(S) /\ g[k + 1] \in Seq(S)
    BY <1>a, FlattenNext
  <2>2. m + k \in 0 .. (m + n) - 1 /\ (m + k) + 1 = m + (k + 1) /\ k + 1 \in 1 .. n /\ k \in 0 .. n
    BY <1>a
  <2>3. FlattenSeq(FirstOf(h, (m + k) + 1)) = FlattenSeq(FirstOf(h, m + k)) \o h[(m + k) + 1]
    BY <1>b, <2>2, FlattenNext, ZenonT(40)
  <2>4. FlattenSeq(FirstOf(h, m + k)) = FlattenSeq(f) \o FlattenSeq(FirstOf(g, k))
    BY <1>3, <2>2
  <2>5. h[(m + k) + 1] = g[k + 1]
    BY <1>b, <2>2
  <2>7. (FlattenSeq(f) \o FlattenSeq(FirstOf(g, k))) \o g[k + 1] = FlattenSeq(f) \o FlattenSeq(FirstOf(g, k + 1))
    <3>1. \A b, c \in Seq(S) : (FlattenSeq(f) \o b) \o c = FlattenSeq(f) \o (b \o c)
      BY <1>1, Joining, SMTT(30)
    <3> QED
      BY <2>1, <3>1
  <2>8. FlattenSeq(FirstOf(h, m + (k + 1))) = FlattenSeq(f) \o FlattenSeq(FirstOf(g, k + 1))
    BY <2>2, <2>3, <2>4, <2>5, <2>7
  <2> QED
    BY <2>2, <2>8
<1>4. 0 .. n \subseteq T
  BY <1>a, <1>2, <1>3, EachNatural
<1>5. FirstOf(h, m + n) = h
  BY <1>b, FlattenWhole
<1>6. FirstOf(g, n) = g /\ n \in 0 .. n
  BY <1>a, FlattenWhole
<1>7. FlattenSeq(h) = FlattenSeq(f) \o FlattenSeq(g)
  BY <1>4, <1>5, <1>6
<1> QED
  BY <1>7 DEF h

\* At most one of the sequences has something in it.
LEMMA FlattenSole ==
  ASSUME NEW S, NEW n \in Nat, NEW f \in [1 .. n -> Seq(S)], NEW k \in 1 .. n,
         \A i \in 1 .. n : i # k => f[i] = <<>>
  PROVE  FlattenSeq(f) = f[k]
<1> DEFINE T == {j \in Nat : j \in 0 .. n => FlattenSeq(FirstOf(f, j)) = IF j < k THEN <<>> ELSE f[k]}
<1>1. 0 \in T
  <2>1. FirstOf(f, 0) = <<>>
    BY FlattenWhole
  <2> QED
    BY <2>1, FlattenEmpty
<1>2. ASSUME NEW j \in 0 .. n - 1, j \in T PROVE j + 1 \in T
  <2>1. /\ FlattenSeq(FirstOf(f, j + 1)) = FlattenSeq(FirstOf(f, j)) \o f[j + 1]
        /\ FlattenSeq(FirstOf(f, j)) \in Seq(S) /\ f[j + 1] \in Seq(S) /\ f[k] \in Seq(S)
    BY FlattenNext
  <2>2. FlattenSeq(FirstOf(f, j)) = IF j < k THEN <<>> ELSE f[k]
    BY <1>2
  <2>5. <<>> \o f[k] = f[k] /\ f[k] \o <<>> = f[k] /\ <<>> \o <<>> = <<>>
    BY <2>1, Joining
  <2>6. j + 1 \in 1 .. n
    OBVIOUS
  <2>3. CASE j + 1 = k
    <3>1. FlattenSeq(FirstOf(f, j)) = <<>> /\ f[j + 1] = f[k] /\ ~ (j + 1 < k)
      BY <2>2, <2>3
    <3> QED
      BY <2>1, <2>5, <3>1
  <2>4. CASE j + 1 # k
    <3>1. f[j + 1] = <<>> /\ (j + 1 < k <=> j < k)
      BY <2>4, <2>6
    <3> QED
      BY <2>1, <2>2, <2>5, <3>1
  <2> QED
    BY <2>3, <2>4
<1>3. 0 .. n \subseteq T
  BY <1>1, <1>2, EachNatural
<1>4. ~ (n < k) /\ n \in 0 .. n
  OBVIOUS
<1>5. FirstOf(f, n) = f
  BY FlattenWhole
<1> QED
  BY <1>3, <1>4, <1>5

LEMMA FlattenNone ==
  ASSUME NEW S, NEW n \in Nat, NEW f \in [1 .. n -> Seq(S)], \A i \in 1 .. n : f[i] = <<>>
  PROVE  FlattenSeq(f) = <<>>
<1>1. CASE n = 0
  <2>1. f = <<>>
    BY <1>1
  <2> QED
    BY <2>1, FlattenEmpty
<1>2. CASE n # 0
  <2>1. 1 \in 1 .. n
    BY <1>2
  <2>2. FlattenSeq(f) = f[1]
    BY <2>1, FlattenSole
  <2> QED
    BY <2>1, <2>2
<1> QED
  BY <1>1, <1>2

\* What F makes of the elements of s, joined.
MapJoin(F, s) == FlattenSeq([i \in DOMAIN s |-> F[s[i]]])

LEMMA MapTyped ==
  ASSUME NEW S, NEW R, NEW F \in [S -> Seq(R)], NEW s \in Seq(S)
  PROVE  /\ [i \in DOMAIN s |-> F[s[i]]] \in [1 .. Len(s) -> Seq(R)]
         /\ [i \in DOMAIN s |-> F[s[i]]] \in Seq(Seq(R))
         /\ MapJoin(F, s) \in Seq(R)
<1> DEFINE f == [i \in DOMAIN s |-> F[s[i]]]
<1>1. Len(s) \in Nat /\ DOMAIN s = 1 .. Len(s) /\ \A i \in DOMAIN s : F[s[i]] \in Seq(R)
  OBVIOUS
<1>2. f \in [1 .. Len(s) -> Seq(R)] /\ f \in Seq(Seq(R))
  BY <1>1
<1>3. FlattenSeq(f) \in Seq(R)
  BY <1>1, <1>2, FlattenTyped
<1> QED
  BY <1>2, <1>3 DEF MapJoin

LEMMA MapConcat ==
  ASSUME NEW S, NEW R, NEW F \in [S -> Seq(R)], NEW s \in Seq(S), NEW t \in Seq(S)
  PROVE  MapJoin(F, s \o t) = MapJoin(F, s) \o MapJoin(F, t)
<1> DEFINE f(r) == [i \in DOMAIN r |-> F[r[i]]]
<1>1. f(s) \in Seq(Seq(R)) /\ f(t) \in Seq(Seq(R))
  BY MapTyped
<1>2. s \o t \in Seq(S) /\ Len(s \o t) = Len(s) + Len(t) /\ Len(s) \in Nat /\ Len(t) \in Nat
  OBVIOUS
<1>3. \A i \in 1 .. Len(s) + Len(t) : (s \o t)[i] = IF i <= Len(s) THEN s[i] ELSE t[i - Len(s)]
  OBVIOUS
<1>4. DOMAIN s = 1 .. Len(s) /\ DOMAIN t = 1 .. Len(t) /\ DOMAIN (s \o t) = 1 .. Len(s) + Len(t)
  BY <1>2
<1>5. Len(f(s)) = Len(s) /\ Len(f(t)) = Len(t)
  BY <1>2, <1>4
<1>6. \A i \in 1 .. Len(s) + Len(t) : (f(s) \o f(t))[i] = IF i <= Len(s) THEN f(s)[i] ELSE f(t)[i - Len(s)]
  <2> DEFINE a == f(s)
             b == f(t)
  <2>1. a \in Seq(Seq(R)) /\ b \in Seq(Seq(R)) /\ Len(a) = Len(s) /\ Len(b) = Len(t)
    BY <1>1, <1>5
  <2> HIDE DEF a, b
  <2>2. \A i \in 1 .. Len(s) + Len(t) : (a \o b)[i] = IF i <= Len(s) THEN a[i] ELSE b[i - Len(s)]
    BY <2>1
  <2> QED
    BY <2>2 DEF a, b
<1>7. f(s \o t) = f(s) \o f(t)
  <2>1. f(s) \o f(t) \in [1 .. Len(s) + Len(t) -> Seq(R)]
    BY <1>1, <1>5, JoinedParts
  <2>2. f(s \o t) = [i \in 1 .. Len(s) + Len(t) |-> F[(s \o t)[i]]]
    BY <1>4
  <2>3. ASSUME NEW i \in 1 .. Len(s) + Len(t) PROVE F[(s \o t)[i]] = (f(s) \o f(t))[i]
    <3>1. CASE i <= Len(s)
      <4>1. i \in DOMAIN s
        BY <1>2, <1>4, <3>1
      <4> QED
        BY <1>3, <1>6, <3>1, <4>1
    <3>2. CASE ~ (i <= Len(s))
      <4>1. i - Len(s) \in DOMAIN t
        BY <1>2, <1>4, <3>2
      <4> QED
        BY <1>3, <1>6, <3>2, <4>1
    <3> QED
      BY <3>1, <3>2
  <2> QED
    BY <2>1, <2>2, <2>3
<1>8. FlattenSeq(f(s) \o f(t)) = FlattenSeq(f(s)) \o FlattenSeq(f(t))
  BY <1>1, FlattenConcat
<1> QED
  BY <1>7, <1>8 DEF MapJoin

LEMMA MapOne ==
  ASSUME NEW S, NEW R, NEW F \in [S -> Seq(R)], NEW x \in S
  PROVE  MapJoin(F, <<x>>) = F[x]
<1>1. [i \in DOMAIN <<x>> |-> F[<<x>>[i]]] = <<F[x]>> /\ F[x] \in Seq(R)
  OBVIOUS
<1> QED
  BY <1>1, FlattenOne DEF MapJoin

LEMMA MapNone ==
  ASSUME NEW F
  PROVE  MapJoin(F, <<>>) = <<>>
<1>1. [i \in DOMAIN <<>> |-> F[<<>>[i]]] = <<>>
  OBVIOUS
<1> QED
  BY <1>1, FlattenEmpty DEF MapJoin

MapEach(F, n, f) == [i \in 1 .. n |-> MapJoin(F, f[i])]

LEMMA MapFlatten ==
  ASSUME NEW S, NEW R, NEW F, F \in [S -> Seq(R)], NEW n \in Nat, NEW f, f \in [1 .. n -> Seq(S)]
  PROVE  MapJoin(F, FlattenSeq(f)) = FlattenSeq(MapEach(F, n, f))
<1> DEFINE g == [i \in 1 .. n |-> MapJoin(F, f[i])]
<1>1. g \in [1 .. n -> Seq(R)] /\ \A i \in 1 .. n : g[i] = MapJoin(F, f[i])
  <2>1. \A s \in Seq(S) : MapJoin(F, s) \in Seq(R)
    BY MapTyped
  <2> QED
    BY <2>1
<1> HIDE DEF g
<1> DEFINE T == {k \in Nat : k \in 0 .. n => MapJoin(F, FlattenSeq(FirstOf(f, k))) = FlattenSeq(FirstOf(g, k))}
<1>2. 0 \in T
  <2>1. FirstOf(f, 0) = <<>> /\ FirstOf(g, 0) = <<>>
    BY DEF FirstOf
  <2>2. FlattenSeq(<<>>) = <<>>
    BY FlattenEmpty
  <2> QED
    BY <2>1, <2>2, MapNone
<1>3. ASSUME NEW k \in 0 .. n - 1, k \in T PROVE k + 1 \in T
  <2>1. /\ FlattenSeq(FirstOf(f, k + 1)) = FlattenSeq(FirstOf(f, k)) \o f[k + 1]
        /\ FlattenSeq(FirstOf(f, k)) \in Seq(S) /\ f[k + 1] \in Seq(S)
    BY FlattenNext
  <2>2. /\ FlattenSeq(FirstOf(g, k + 1)) = FlattenSeq(FirstOf(g, k)) \o g[k + 1]
        /\ FlattenSeq(FirstOf(g, k)) \in Seq(R) /\ g[k + 1] \in Seq(R)
    BY <1>1, FlattenNext
  <2> DEFINE a == FlattenSeq(FirstOf(f, k))
             b == f[k + 1]
  <2>a. F \in [S -> Seq(R)] /\ a \in Seq(S) /\ b \in Seq(S)
    BY <2>1
  <2> HIDE DEF a, b
  <2>b. MapJoin(F, a \o b) = MapJoin(F, a) \o MapJoin(F, b)
    BY ONLY <2>a, MapConcat
  <2>3. MapJoin(F, FlattenSeq(FirstOf(f, k)) \o f[k + 1]) = MapJoin(F, FlattenSeq(FirstOf(f, k))) \o MapJoin(F, f[k + 1])
    BY <2>b DEF a, b
  <2>4. k + 1 \in 1 .. n /\ k \in 0 .. n /\ g[k + 1] = MapJoin(F, f[k + 1])
    BY <1>1
  <2>5. MapJoin(F, FlattenSeq(FirstOf(f, k))) = FlattenSeq(FirstOf(g, k))
    BY <1>3, <2>4
  <2>6. MapJoin(F, FlattenSeq(FirstOf(f, k + 1))) = FlattenSeq(FirstOf(g, k + 1))
    BY <2>1, <2>2, <2>3, <2>4, <2>5
  <2> QED
    BY <2>6
<1>4. 0 .. n \subseteq T
  BY <1>2, <1>3, EachNatural
<1>5. FirstOf(f, n) = f /\ n \in 0 .. n
  BY FlattenWhole
<1>6. FirstOf(g, n) = g
  BY <1>1, FlattenWhole
<1> QED
  BY <1>4, <1>5, <1>6 DEF g, MapEach

-----------------------------------------------------------------------------
(* The fields of an object *)

LEMMA FieldsGiven ==
  ASSUME NEW r, NEW key
  PROVE  /\ Fields(r).k = "obj"
         /\ Has(Fields(r), key) <=> key \in DOMAIN r /\ r[key].k # "null"
         /\ Has(Fields(r), key) => Fields(r).f[key] = r[key]
         /\ NotNil(Fields(r), key) <=> Has(Fields(r), key)
         /\ stringField(Fields(r), key) = IF key \in DOMAIN r /\ r[key].k = "str" THEN r[key].v ELSE ""
<1>1. Fields(r).k = "obj" /\ Fields(r).f = [x \in {y \in DOMAIN r : r[y].k # "null"} |-> r[x]]
  BY DEF Fields, JObj
<1>2. Has(Fields(r), key) <=> key \in DOMAIN r /\ r[key].k # "null"
  BY <1>1 DEF Has
<1>3. Has(Fields(r), key) => Fields(r).f[key] = r[key]
  BY <1>1, <1>2
<1>4. stringField(Fields(r), key) = IF key \in DOMAIN r /\ r[key].k = "str" THEN r[key].v ELSE ""
  BY <1>2, <1>3 DEF stringField
<1>5. NotNil(Fields(r), key) <=> Has(Fields(r), key)
  BY <1>2, <1>3 DEF NotNil
<1> QED
  BY <1>1, <1>2, <1>3, <1>4, <1>5

LEMMA TextField ==
  ASSUME NEW r, NEW key, NEW text, key \in DOMAIN r, r[key] = JStr(text)
  PROVE  Has(Fields(r), key) /\ stringField(Fields(r), key) = text
<1>1. r[key].k = "str" /\ r[key].v = text
  BY DEF JStr
<1> QED
  BY <1>1, FieldsGiven, ZenonT(40)

LEMMA GivenField ==
  ASSUME NEW r, NEW key, NEW text, key \in DOMAIN r, r[key] = Given(text)
  PROVE  (Has(Fields(r), key) <=> text # "") /\ stringField(Fields(r), key) = text
<1>1. CASE text = ""
  <2>0. JNull.k = "null"
    BY DEF JNull
  <2>1. r[key] = JNull
    BY <1>1 DEF Given
  <2> QED
    BY <1>1, <2>0, <2>1, FieldsGiven
<1>2. CASE text # ""
  <2>1. r[key] = JStr(text)
    BY <1>2 DEF Given
  <2> QED
    BY <1>2, <2>1, TextField
<1> QED
  BY <1>1, <1>2

LEMMA ValueField ==
  ASSUME NEW r, NEW key, key \in DOMAIN r, r[key].k \in {"arr", "obj"}
  PROVE  Has(Fields(r), key) /\ Fields(r).f[key] = r[key]
  BY FieldsGiven

LEMMA OtherField ==
  ASSUME NEW r, NEW key, key \notin DOMAIN r
  PROVE  ~ Has(Fields(r), key) /\ stringField(Fields(r), key) = ""
  BY FieldsGiven

-----------------------------------------------------------------------------
(* What collectObjects finds, level by level *)

ItemAt(x) == IF x.found THEN <<x>> ELSE ObjectsAt(x.value, ObjectKeys)

LEMMA Marks ==
  ASSUME NEW v
  PROVE  Visit(v).found = FALSE /\ Visit(v).value = v /\ Found(v).found = TRUE /\ Found(v).value = v
  BY DEF Visit, Found

\* A walk, as a function, over what it may meet.
Walks(W, S) == W \in [S -> Seq(S)] /\ \A x \in S : W[x] = ItemAt(x)

\* One level of the walk.
LEMMA WalkStep ==
  ASSUME NEW S, NEW W, Walks(W, S), NEW s, s \in Seq(S)
  PROVE  ObjectsBelow(s, ObjectKeys) = MapJoin(W, s)
<1> DEFINE f == [i \in DOMAIN s |-> IF s[i].found THEN <<s[i]>> ELSE ObjectsAt(s[i].value, ObjectKeys)]
           g == [i \in DOMAIN s |-> W[s[i]]]
<1>1. \A i \in DOMAIN s : W[s[i]] = IF s[i].found THEN <<s[i]>> ELSE ObjectsAt(s[i].value, ObjectKeys)
  <2>1. \A i \in DOMAIN s : s[i] \in S
    OBVIOUS
  <2> QED
    BY <2>1 DEF ItemAt, Walks
<1>2. f = g
  BY <1>1
<1>3. ObjectsBelow(s, ObjectKeys) = FlattenSeq(f) /\ MapJoin(W, s) = FlattenSeq(g)
  BY DEF ObjectsBelow, MapJoin
<1> QED
  BY <1>2, <1>3, Zenon

\* One level of the walk over all elements is one level of each.
LEMMA EachStep ==
  ASSUME NEW S, NEW W, Walks(W, S), NEW n \in Nat, NEW f, f \in [1 .. n -> Seq(S)]
  PROVE  ObjectsBelow(FlattenSeq(f), ObjectKeys) = FlattenSeq(MapEach(W, n, f))
<1>1. FlattenSeq(f) \in Seq(S)
  BY FlattenTyped
<1>2. ObjectsBelow(FlattenSeq(f), ObjectKeys) = MapJoin(W, FlattenSeq(f))
  BY <1>1, WalkStep
<1>3. W \in [S -> Seq(S)] /\ n \in Nat /\ f \in [1 .. n -> Seq(S)]
  BY DEF Walks
<1>4. MapJoin(W, FlattenSeq(f)) = FlattenSeq(MapEach(W, n, f))
  BY ONLY <1>3, MapFlatten, SMTT(30)
<1> QED
  BY <1>2, <1>4, Zenon

LEMMA WalkFound ==
  ASSUME NEW S, NEW W, Walks(W, S), NEW s, s \in Seq(S), \A i \in DOMAIN s : s[i].found = TRUE
  PROVE  MapJoin(W, s) = s
<1> DEFINE g == [i \in DOMAIN s |-> W[s[i]]]
           h == [i \in DOMAIN s |-> <<s[i]>>]
<1>1. \A i \in DOMAIN s : W[s[i]] = <<s[i]>>
  <2>1. \A i \in DOMAIN s : s[i] \in S
    OBVIOUS
  <2> QED
    BY <2>1 DEF ItemAt, Walks
<1>2. g = h
  BY <1>1
<1>3. FlattenSeq(h) = s
  BY FlattenSingles
<1>4. MapJoin(W, s) = FlattenSeq(g)
  BY DEF MapJoin
<1> QED
  BY <1>2, <1>3, <1>4, Zenon

\* The recursion of a walk, seven times.
LEMMA SevenLevels ==
  ASSUME NEW keys, NEW v, NEW c, c[0] = <<Visit(v)>>, \A n \in 1 .. 7 : c[n] = ObjectsBelow(c[n - 1], keys)
  PROVE  ObjectsUnder(keys, v) = AllFound(c[7])
<1> DEFINE Rec(g) == [n \in 0 .. Depth |-> IF n = 0 THEN <<Visit(v)>> ELSE ObjectsBelow(g[n - 1], keys)]
           T(g) == {n \in Nat : n \in 0 .. 7 => g[n] = c[n]}
<1>1. ObjectsUnder(keys, v) = AllFound((CHOOSE g : g = Rec(g))[7])
  BY DEF ObjectsUnder, Depth
<1>2. \A g : \A n \in 0 .. 7 : Rec(g)[n] = IF n = 0 THEN <<Visit(v)>> ELSE ObjectsBelow(g[n - 1], keys)
  BY DEF Depth
<1>3. \E g : g = Rec(g)
  <2> DEFINE g == [n \in 0 .. 7 |-> c[n]]
  <2>1. ASSUME NEW n \in 0 .. 7 PROVE g[n] = IF n = 0 THEN <<Visit(v)>> ELSE ObjectsBelow(g[n - 1], keys)
    <3>1. n # 0 => n \in 1 .. 7 /\ n - 1 \in 0 .. 7
      OBVIOUS
    <3> QED
      BY <3>1
  <2>2. g = Rec(g)
    BY <2>1 DEF Depth
  <2> QED
    BY <2>2
<1>4. PICK g : g = Rec(g) /\ ObjectsUnder(keys, v) = AllFound(g[7])
  BY <1>1, <1>3
<1>5. \A n \in 0 .. 7 : g[n] = IF n = 0 THEN <<Visit(v)>> ELSE ObjectsBelow(g[n - 1], keys)
  <2> HIDE DEF Rec
  <2> QED
    BY <1>2, <1>4
<1> HIDE DEF Rec
<1>6. 0 \in T(g)
  BY <1>5
<1>7. ASSUME NEW n \in 0 .. 6, n \in T(g) PROVE n + 1 \in T(g)
  <2>1. n \in 0 .. 7 /\ n + 1 \in 0 .. 7 /\ n + 1 \in 1 .. 7 /\ n + 1 # 0 /\ n + 1 - 1 = n /\ n + 1 \in Nat
    OBVIOUS
  <2>2. g[n] = c[n]
    BY <1>7, <2>1
  <2>3. g[n + 1] = ObjectsBelow(g[n], keys) /\ c[n + 1] = ObjectsBelow(c[n], keys)
    BY <1>5, <2>1
  <2> QED
    BY <2>1, <2>2, <2>3
<1>8. 0 .. 7 \subseteq T(g)
  <2>1. 7 \in Nat /\ 7 - 1 = 6 /\ T(g) \in SUBSET Nat
    OBVIOUS
  <2> QED
    BY <1>6, <1>7, <2>1, EachNatural
<1>9. g[7] = c[7]
  <2>1. 7 \in 0 .. 7
    OBVIOUS
  <2> QED
    BY <1>8, <2>1
<1> QED
  BY <1>4, <1>9

\* A level of the walk over n elements: what it has of each of them.
StepsTo(W, n, f, g) == \A i \in 1 .. n : MapJoin(W, f[i]) = g[i]

\* A walk over a list of n elements, of which it has found all after four levels.
WalksOver(v, n, W, S, l1, l2, l3, l4) ==
    /\ Walks(W, S) /\ n \in Nat /\ v.k = "arr" /\ DOMAIN v.a = 1 .. n
    /\ {l1, l2, l3, l4} \subseteq [1 .. n -> Seq(S)]
    /\ \A i \in 1 .. n : l1[i] = <<Visit(v.a[i])>> /\ Visit(v.a[i]) \in S
    /\ StepsTo(W, n, l1, l2) /\ StepsTo(W, n, l2, l3) /\ StepsTo(W, n, l3, l4) /\ StepsTo(W, n, l4, l4)

LEMMA ListWalk ==
  ASSUME NEW v, NEW n, NEW W, NEW S, NEW l1, NEW l2, NEW l3, NEW l4, WalksOver(v, n, W, S, l1, l2, l3, l4)
  PROVE  collectObjects(v) = AllFound(FlattenSeq(l4))
<1>1. Walks(W, S) /\ n \in Nat /\ v.k = "arr" /\ DOMAIN v.a = 1 .. n
  BY DEF WalksOver
<1>2. /\ l1 \in [1 .. n -> Seq(S)] /\ l2 \in [1 .. n -> Seq(S)]
      /\ l3 \in [1 .. n -> Seq(S)] /\ l4 \in [1 .. n -> Seq(S)]
  BY DEF WalksOver
<1>3. /\ \A i \in 1 .. n : l1[i] = <<Visit(v.a[i])>> /\ Visit(v.a[i]) \in S
      /\ StepsTo(W, n, l1, l2) /\ StepsTo(W, n, l2, l3) /\ StepsTo(W, n, l3, l4) /\ StepsTo(W, n, l4, l4)
  BY DEF WalksOver
<1>4. ObjectsBelow(<<Visit(v)>>, ObjectKeys) = FlattenSeq(l1)
  <2> DEFINE V == [i \in 1 .. n |-> Visit(v.a[i])]
  <2>1. Elements(v) = V
    BY <1>1 DEF Elements
  <2>2. V \in Seq(S)
    BY <1>1, <1>3
  <2>3. FlattenSeq(l1) = V
    <3>1. l1 = [i \in DOMAIN V |-> <<V[i]>>]
      BY <1>2, <1>3
    <3> HIDE DEF V
    <3> QED
      BY <2>2, <3>1, FlattenSingles
  <2>4. ObjectsAt(v, ObjectKeys) = V
    BY <1>1, <2>1 DEF ObjectsAt
  <2> HIDE DEF V
  <2>5. ObjectsBelow(<<Visit(v)>>, ObjectKeys) = FlattenSeq(<<V>>)
    <3> DEFINE s == <<Visit(v)>>
    <3>1. DOMAIN s = 1 .. 1 /\ s[1] = Visit(v)
      OBVIOUS
    <3> HIDE DEF s
    <3>2. \A i \in DOMAIN s : (IF s[i].found THEN <<s[i]>> ELSE ObjectsAt(s[i].value, ObjectKeys)) = V
      <4>1. s[1].found = FALSE /\ s[1].value = v
        BY <3>1, Marks
      <4>2. \A i \in DOMAIN s : i = 1
        BY <3>1
      <4> QED
        BY <2>4, <4>1, <4>2
    <3>3. [i \in DOMAIN s |-> IF s[i].found THEN <<s[i]>> ELSE ObjectsAt(s[i].value, ObjectKeys)] = [i \in 1 .. 1 |-> V]
      BY <3>1, <3>2
    <3>4. [i \in 1 .. 1 |-> V] = <<V>>
      OBVIOUS
    <3> QED
      BY <3>3, <3>4, Zenon DEF ObjectsBelow, s
  <2>6. FlattenSeq(<<V>>) = V
    BY <2>2, FlattenOne
  <2> QED
    BY <2>3, <2>5, <2>6
<1> DEFINE c == [k \in 0 .. 7 |-> IF k = 0 THEN <<Visit(v)>>
                                  ELSE IF k = 1 THEN FlattenSeq(l1)
                                  ELSE IF k = 2 THEN FlattenSeq(l2)
                                  ELSE IF k = 3 THEN FlattenSeq(l3) ELSE FlattenSeq(l4)]
<1>5. /\ ObjectsBelow(FlattenSeq(l1), ObjectKeys) = FlattenSeq(l2)
      /\ ObjectsBelow(FlattenSeq(l2), ObjectKeys) = FlattenSeq(l3)
      /\ ObjectsBelow(FlattenSeq(l3), ObjectKeys) = FlattenSeq(l4)
      /\ ObjectsBelow(FlattenSeq(l4), ObjectKeys) = FlattenSeq(l4)
  <2>1. MapEach(W, n, l1) = l2 /\ MapEach(W, n, l2) = l3 /\ MapEach(W, n, l3) = l4 /\ MapEach(W, n, l4) = l4
    BY <1>2, <1>3 DEF MapEach, StepsTo
  <2>2. /\ ObjectsBelow(FlattenSeq(l1), ObjectKeys) = FlattenSeq(MapEach(W, n, l1))
        /\ ObjectsBelow(FlattenSeq(l2), ObjectKeys) = FlattenSeq(MapEach(W, n, l2))
        /\ ObjectsBelow(FlattenSeq(l3), ObjectKeys) = FlattenSeq(MapEach(W, n, l3))
        /\ ObjectsBelow(FlattenSeq(l4), ObjectKeys) = FlattenSeq(MapEach(W, n, l4))
    BY <1>1, <1>2, EachStep
  <2> QED
    BY <2>1, <2>2, Zenon
<1>6. /\ c[0] = <<Visit(v)>> /\ c[1] = FlattenSeq(l1) /\ c[2] = FlattenSeq(l2) /\ c[3] = FlattenSeq(l3)
      /\ c[4] = FlattenSeq(l4) /\ c[5] = FlattenSeq(l4) /\ c[6] = FlattenSeq(l4) /\ c[7] = FlattenSeq(l4)
  OBVIOUS
<1> HIDE DEF c
<1>7. \A k \in 1 .. 7 : c[k] = ObjectsBelow(c[k - 1], ObjectKeys)
  <2>1. \A k \in 1 .. 7 : \/ (k = 1 /\ k - 1 = 0) \/ (k = 2 /\ k - 1 = 1) \/ (k = 3 /\ k - 1 = 2)
                          \/ (k = 4 /\ k - 1 = 3) \/ (k = 5 /\ k - 1 = 4) \/ (k = 6 /\ k - 1 = 5)
                          \/ (k = 7 /\ k - 1 = 6)
    OBVIOUS
  <2> QED
    BY <1>4, <1>5, <1>6, <2>1
<1>8. ObjectsUnder(ObjectKeys, v) = AllFound(c[7])
  <2>1. c[0] = <<Visit(v)>>
    BY <1>6
  <2> QED
    BY ONLY <1>7, <2>1, SevenLevels
<1> QED
  BY <1>6, <1>8 DEF collectObjects
=============================================================================
