--------------------------- MODULE Selection_proofs ---------------------------
(***************************************************************************)
(* Facts about numbers, sequences and sums that the other proofs cite.  The *)
(* induction theorems of the library take an operator, which the provers    *)
(* cannot instantiate; the least member of a set of counterexamples serves  *)
(* instead, and from it come the facts about Among and about sums.  Those   *)
(* about Ranked come from counting what is before each member.              *)
(***************************************************************************)
EXTENDS Selection, Integers, SequencesExt, NaturalsInduction, WellFoundedInduction,
        FiniteSetTheorems, SequenceTheorems, TLAPS

-----------------------------------------------------------------------------
\* A set of natural numbers that has a member has a least one.
LEMMA LeastNumber ==
  ASSUME NEW T, T \subseteq Nat, T # {}
  PROVE  \E x \in T : \A y \in T : x <= y
  <1>1. PICK x \in T : \A y \in T : ~(<<y, x>> \in OpToRel(<, Nat))
    BY NatLessThanWellFounded, WFMin
  <1>2. \A y \in T : ~(y < x)
    BY <1>1 DEF OpToRel
  <1>3. \A y \in T : x <= y
    <2> TAKE y \in T
    <2>1. x \in Nat /\ y \in Nat /\ ~(y < x)
      BY <1>2
    <2>2. QED
      BY <2>1
  <1>4. QED
    BY <1>3

\* f is the function in the definition of Among.
Selects(f, s, S, n) ==
  f = [k \in 0..n |-> IF k = 0 THEN <<>> ELSE IF s[k] \in S THEN Append(f[k - 1], s[k]) ELSE f[k - 1]]

\* Among is the last value of the one function that satisfies its equation.
LEMMA AmongIs ==
  ASSUME NEW s, NEW S, NEW f, Selects(f, s, S, Len(s)), \A g : Selects(g, s, S, Len(s)) => g = f
  PROVE  Among(s, S) = f[Len(s)]
  <1> DEFINE R(g) == g = [n \in 0..Len(s) |-> IF n = 0 THEN <<>> ELSE IF s[n] \in S THEN Append(g[n - 1], s[n]) ELSE g[n - 1]]
  <1>1. R(CHOOSE g : R(g))
    BY DEF Selects
  <1>2. (CHOOSE g : R(g)) = f
    BY <1>1 DEF Selects
  <1>3. QED
    BY <1>2 DEF Among
LEMMA SelectsOne ==
  ASSUME NEW s, NEW S, NEW n \in Nat, NEW f, NEW g, Selects(f, s, S, n), Selects(g, s, S, n)
  PROVE  f = g
  <1> DEFINE T == {k \in 0..n : f[k] # g[k]}
  <1>1. ASSUME T # {} PROVE FALSE
    <2>1. T \subseteq Nat
      OBVIOUS
    <2>2. PICK k \in T : \A j \in T : k <= j
      BY <1>1, <2>1, LeastNumber
    <2>3. k # 0
      BY <2>2 DEF Selects
    <2>4. k - 1 \in 0..n /\ k - 1 \notin T
      BY <2>2, <2>3
    <2>5. f[k - 1] = g[k - 1]
      BY <2>4
    <2>6. f[k] = IF s[k] \in S THEN Append(f[k - 1], s[k]) ELSE f[k - 1]
      BY <2>2, <2>3 DEF Selects
    <2>7. g[k] = IF s[k] \in S THEN Append(g[k - 1], s[k]) ELSE g[k - 1]
      BY <2>2, <2>3 DEF Selects
    <2>8. QED
      BY <2>2, <2>5, <2>6, <2>7
  <1>2. \A k \in 0..n : f[k] = g[k]
    BY <1>1
  <1>3. QED
    BY <1>2 DEF Selects

LEMMA SelectsSome ==
  ASSUME NEW s, NEW S, NEW n \in Nat
  PROVE  \E f : Selects(f, s, S, n)
  <1> DEFINE T == {k \in Nat : ~\E f : Selects(f, s, S, k)}
  <1>1. ASSUME T # {} PROVE FALSE
    <2>1. PICK k \in T : \A j \in T : k <= j
      BY <1>1, LeastNumber
    <2>2. k # 0
      <3>1. Selects([j \in 0..0 |-> <<>>], s, S, 0)
        BY DEF Selects
      <3>2. QED
        BY <2>1, <3>1
    <2>3. k - 1 \in Nat /\ k - 1 \notin T
      BY <2>1, <2>2
    <2>4. PICK g : Selects(g, s, S, k - 1)
      BY <2>3
    <2> DEFINE f == [j \in 0..k |-> IF j < k THEN g[j]
                                    ELSE IF s[k] \in S THEN Append(g[k - 1], s[k]) ELSE g[k - 1]]
    <2>5. \A j \in 0..k : f[j] = IF j = 0 THEN <<>> ELSE IF s[j] \in S THEN Append(f[j - 1], s[j]) ELSE f[j - 1]
      <3> TAKE j \in 0..k
      <3>1. CASE j < k
        <4>1. j \in 0..(k - 1) /\ f[j] = g[j] /\ (j # 0 => f[j - 1] = g[j - 1])
          BY <3>1, <2>1
        <4>2. g[j] = IF j = 0 THEN <<>> ELSE IF s[j] \in S THEN Append(g[j - 1], s[j]) ELSE g[j - 1]
          BY <4>1, <2>4 DEF Selects
        <4>3. QED
          BY <4>1, <4>2
      <3>2. CASE j = k
        <4>1. j # 0 /\ f[j - 1] = g[j - 1] /\ f[j] = IF s[k] \in S THEN Append(g[k - 1], s[k]) ELSE g[k - 1]
          BY <3>2, <2>1, <2>2
        <4>2. QED
          BY <3>2, <4>1
      <3>3. QED
        BY <3>1, <3>2, <2>1
    <2>6. Selects(f, s, S, k)
      BY <2>5 DEF Selects
    <2>7. QED
      BY <2>1, <2>6
  <1>2. QED
    BY <1>1

LEMMA AmongEmpty ==
  ASSUME NEW S PROVE Among(<<>>, S) = <<>>
  <1>1. PICK f : Selects(f, <<>>, S, 0)
    BY SelectsSome
  <1>2. \A g : Selects(g, <<>>, S, Len(<<>>)) => g = f
    BY <1>1, SelectsOne
  <1>3. Among(<<>>, S) = f[0]
    BY <1>1, <1>2, AmongIs
  <1>4. QED
    BY <1>1, <1>3 DEF Selects

\* A longer sequence selects one member more, or none.
LEMMA AmongAppend ==
  ASSUME NEW X, NEW s \in Seq(X), NEW x \in X, NEW S
  PROVE  Among(Append(s, x), S) = IF x \in S THEN Append(Among(s, S), x) ELSE Among(s, S)
  <1> DEFINE r == Append(s, x)
  <1> DEFINE n == Len(s)
  <1>1. n \in Nat /\ Len(r) = n + 1 /\ r[n + 1] = x /\ \A k \in 1..n : r[k] = s[k]
    OBVIOUS
  <1> HIDE DEF r, n
  <1>0. n + 1 \in Nat
    BY <1>1
  <1>2. PICK f : Selects(f, r, S, n + 1)
    BY <1>0, SelectsSome
  <1> DEFINE g == [k \in 0..n |-> f[k]]
  <1>3. \A k \in 0..n : f[k] = IF k = 0 THEN <<>> ELSE IF r[k] \in S THEN Append(f[k - 1], r[k]) ELSE f[k - 1]
    <2> TAKE k \in 0..n
    <2>1. k \in 0..(n + 1)
      BY <1>1
    <2>2. QED
      BY <1>2, <2>1 DEF Selects
  <1>4. \A k \in 0..n : g[k] = IF k = 0 THEN <<>> ELSE IF s[k] \in S THEN Append(g[k - 1], s[k]) ELSE g[k - 1]
    <2> TAKE k \in 0..n
    <2>1. k # 0 => k \in 1..n /\ k - 1 \in 0..n
      BY <1>1
    <2>2. QED
      BY <1>1, <1>3, <2>1
  <1>5. Selects(g, s, S, n)
    BY <1>4 DEF Selects
  <1>6. Among(s, S) = f[n]
    <2>1. \A h : Selects(h, s, S, n) => h = g
      BY <1>1, <1>5, SelectsOne
    <2>2. Among(s, S) = g[n]
      BY <1>5, <2>1, AmongIs DEF n
    <2>3. QED
      BY <1>1, <2>2
  <1>7. Among(r, S) = f[n + 1]
    <2>1. \A h : Selects(h, r, S, n + 1) => h = f
      BY <1>1, <1>2, SelectsOne
    <2>2. QED
      BY <1>1, <1>2, <2>1, AmongIs
  <1>8. f[n + 1] = IF r[n + 1] \in S THEN Append(f[n], r[n + 1]) ELSE f[n]
    <2>1. n + 1 \in 0..(n + 1) /\ n + 1 # 0 /\ (n + 1) - 1 = n
      BY <1>1
    <2>2. QED
      BY <1>2, <2>1 DEF Selects
  <1>9. QED
    BY <1>1, <1>6, <1>7, <1>8 DEF r
\* A set of sequences has a shortest member: if it is not the empty one, what
\* is left of it without its last entry is outside the set.
LEMMA Shortest ==
  ASSUME NEW X, NEW T, T \subseteq Seq(X), T # {}, <<>> \notin T
  PROVE  \E s \in Seq(X), x \in X : Append(s, x) \in T /\ s \notin T
  <1> DEFINE L == {Len(s) : s \in T}
  <1>1. L \subseteq Nat /\ L # {}
    <2>1. \A s \in T : Len(s) \in Nat
      OBVIOUS
    <2>2. QED
      BY <2>1
  <1>2. PICK n \in L : \A m \in L : n <= m
    BY <1>1, LeastNumber
  <1>3. PICK r \in T : Len(r) = n
    BY <1>2
  <1>4. r \in Seq(X) /\ r # <<>>
    BY <1>3
  <1>5. PICK s \in Seq(X), x \in X : r = Append(s, x)
    <2>1. SubSeq(r, 1, Len(r) - 1) \in Seq(X) /\ r[Len(r)] \in X /\ r = Append(SubSeq(r, 1, Len(r) - 1), r[Len(r)])
      BY <1>4
    <2>2. QED
      BY <2>1
  <1>6. Len(s) \in Nat /\ n = Len(s) + 1
    BY <1>3, <1>5
  <1>7. s \notin T
    <2>1. s \in T => n <= Len(s)
      BY <1>2
    <2>2. QED
      BY <1>6, <2>1
  <1>8. QED
    BY <1>3, <1>5, <1>7

LEMMA RangeAppend ==
  ASSUME NEW X, NEW s \in Seq(X), NEW x \in X
  PROVE  Range(Append(s, x)) = Range(s) \cup {x}
  <1> DEFINE r == Append(s, x)
  <1> DEFINE n == Len(s)
  <1>1. n \in Nat /\ DOMAIN s = 1..n /\ DOMAIN r = 1..(n + 1) /\ r[n + 1] = x /\ \A i \in 1..n : r[i] = s[i]
    OBVIOUS
  <1> HIDE DEF r, n
  <1>2. 1..(n + 1) = (1..n) \cup {n + 1}
    BY <1>1
  <1>3. Range(r) = Range(s) \cup {x}
    BY <1>1, <1>2 DEF Range
  <1>4. QED
    BY <1>3 DEF r

\* What is selected are the members that are wanted.
LEMMA AmongSeq ==
  ASSUME NEW X, NEW s \in Seq(X), NEW S
  PROVE  Among(s, S) \in Seq(X) /\ Range(Among(s, S)) = Range(s) \cap S
  <1> DEFINE T == {r \in Seq(X) : ~(Among(r, S) \in Seq(X) /\ Range(Among(r, S)) = Range(r) \cap S)}
  <1>1. ASSUME T # {} PROVE FALSE
    <2>1. <<>> \notin T
      <3>1. Among(<<>>, S) = <<>> /\ Range(<<>>) = {} /\ <<>> \in Seq(X)
        BY AmongEmpty DEF Range
      <3>2. QED
        BY <3>1
    <2>2. PICK r \in Seq(X), x \in X : Append(r, x) \in T /\ r \notin T
      BY <1>1, <2>1, Shortest
    <2>3. Among(r, S) \in Seq(X) /\ Range(Among(r, S)) = Range(r) \cap S
      BY <2>2
    <2>4. Among(Append(r, x), S) = IF x \in S THEN Append(Among(r, S), x) ELSE Among(r, S)
      BY AmongAppend
    <2>5. Among(Append(r, x), S) \in Seq(X)
      BY <2>3, <2>4
    <2>6. Range(Append(Among(r, S), x)) = Range(Among(r, S)) \cup {x} /\ Range(Append(r, x)) = Range(r) \cup {x}
      BY <2>3, RangeAppend
    <2>7. QED
      BY <2>2, <2>3, <2>4, <2>5, <2>6
  <1>2. QED
    BY <1>1

\* Only what the test says of the members counts.
LEMMA AmongSame ==
  ASSUME NEW X, NEW s \in Seq(X), NEW S, NEW U, Range(s) \cap S = Range(s) \cap U
  PROVE  Among(s, S) = Among(s, U)
  <1> DEFINE T == {r \in Seq(X) : Range(r) \cap S = Range(r) \cap U /\ Among(r, S) # Among(r, U)}
  <1>1. ASSUME T # {} PROVE FALSE
    <2>1. <<>> \notin T
      BY AmongEmpty
    <2>2. PICK r \in Seq(X), x \in X : Append(r, x) \in T /\ r \notin T
      BY <1>1, <2>1, Shortest
    <2>3. Range(Append(r, x)) = Range(r) \cup {x}
      BY RangeAppend
    <2>4. Range(r) \cap S = Range(r) \cap U /\ (x \in S <=> x \in U)
      BY <2>2, <2>3
    <2>5. Among(r, S) = Among(r, U)
      BY <2>2, <2>4
    <2>6. Among(Append(r, x), S) = IF x \in S THEN Append(Among(r, S), x) ELSE Among(r, S)
      BY AmongAppend
    <2>8. Among(Append(r, x), U) = IF x \in U THEN Append(Among(r, U), x) ELSE Among(r, U)
      BY AmongAppend
    <2>7. QED
      BY <2>2, <2>4, <2>5, <2>6, <2>8
  <1>2. QED
    BY <1>1

\* A selection from a selection.
LEMMA AmongTwice ==
  ASSUME NEW X, NEW s \in Seq(X), NEW S, NEW U
  PROVE  Among(Among(s, S), U) = Among(s, S \cap U)
  <1> DEFINE T == {r \in Seq(X) : Among(Among(r, S), U) # Among(r, S \cap U)}
  <1>1. ASSUME T # {} PROVE FALSE
    <2>1. <<>> \notin T
      BY AmongEmpty
    <2>2. PICK r \in Seq(X), x \in X : Append(r, x) \in T /\ r \notin T
      BY <1>1, <2>1, Shortest
    <2>3. Among(r, S) \in Seq(X)
      BY AmongSeq
    <2>4. Among(Append(r, x), S) = IF x \in S THEN Append(Among(r, S), x) ELSE Among(r, S)
      BY AmongAppend
    <2>5. Among(Append(Among(r, S), x), U) = IF x \in U THEN Append(Among(Among(r, S), U), x) ELSE Among(Among(r, S), U)
      BY <2>3, AmongAppend
    <2>6. Among(Append(r, x), S \cap U) = IF x \in S \cap U THEN Append(Among(r, S \cap U), x) ELSE Among(r, S \cap U)
      BY AmongAppend
    <2>7. Among(Among(r, S), U) = Among(r, S \cap U)
      BY <2>2
    <2>8. Among(Among(Append(r, x), S), U) = Among(Append(r, x), S \cap U)
      <3>1. CASE x \in S
        <4>1. Among(Among(Append(r, x), S), U) = Among(Append(Among(r, S), x), U)
          BY <2>4, <3>1
        <4>2. x \in S \cap U <=> x \in U
          BY <3>1
        <4>3. QED
          BY <4>1, <4>2, <2>5, <2>6, <2>7
      <3>2. CASE x \notin S
        <4>1. Among(Among(Append(r, x), S), U) = Among(Among(r, S), U)
          BY <2>4, <3>2
        <4>2. x \notin S \cap U
          BY <3>2
        <4>3. QED
          BY <4>1, <4>2, <2>6, <2>7
      <3>3. QED
        BY <3>1, <3>2
    <2>9. QED
      BY <2>2, <2>8
  <1>2. QED
    BY <1>1

LEMMA AmongAll ==
  ASSUME NEW X, NEW s \in Seq(X), NEW S, Range(s) \subseteq S
  PROVE  Among(s, S) = s
  <1> DEFINE T == {r \in Seq(X) : Range(r) \subseteq S /\ Among(r, S) # r}
  <1>1. ASSUME T # {} PROVE FALSE
    <2>1. <<>> \notin T
      BY AmongEmpty
    <2>2. PICK r \in Seq(X), x \in X : Append(r, x) \in T /\ r \notin T
      BY <1>1, <2>1, Shortest
    <2>3. Range(Append(r, x)) = Range(r) \cup {x}
      BY RangeAppend
    <2>4. Among(r, S) = r /\ x \in S
      BY <2>2, <2>3
    <2>5. QED
      BY <2>2, <2>4, AmongAppend
  <1>2. QED
    BY <1>1

LEMMA AmongNone ==
  ASSUME NEW X, NEW s \in Seq(X), NEW S, Range(s) \cap S = {}
  PROVE  Among(s, S) = <<>>
  <1>1. Among(s, S) \in Seq(X) /\ Range(Among(s, S)) = {}
    BY AmongSeq
  <1>2. DOMAIN Among(s, S) = {}
    BY <1>1 DEF Range
  <1>3. QED
    BY <1>1, <1>2

LEMMA AmongConcat ==
  ASSUME NEW X, NEW s \in Seq(X), NEW r \in Seq(X), NEW S
  PROVE  Among(s \o r, S) = Among(s, S) \o Among(r, S)
  <1> DEFINE T == {q \in Seq(X) : Among(s \o q, S) # Among(s, S) \o Among(q, S)}
  <1>0. Among(s, S) \in Seq(X)
    BY AmongSeq
  <1>1. ASSUME T # {} PROVE FALSE
    <2>1. <<>> \notin T
      <3>1. s \o <<>> = s /\ Among(s, S) \o <<>> = Among(s, S)
        BY <1>0
      <3>2. QED
        BY <3>1, AmongEmpty
    <2>2. PICK q \in Seq(X), x \in X : Append(q, x) \in T /\ q \notin T
      BY <1>1, <2>1, Shortest
    <2>3. Among(q, S) \in Seq(X)
      BY AmongSeq
    <2>4. s \o Append(q, x) = Append(s \o q, x) /\ s \o q \in Seq(X)
      OBVIOUS
    <2>5. Among(s, S) \o Append(Among(q, S), x) = Append(Among(s, S) \o Among(q, S), x)
      BY <1>0, <2>3
    <2>6. Among(Append(s \o q, x), S) = IF x \in S THEN Append(Among(s \o q, S), x) ELSE Among(s \o q, S)
      BY <2>4, AmongAppend
    <2>7. Among(Append(q, x), S) = IF x \in S THEN Append(Among(q, S), x) ELSE Among(q, S)
      BY AmongAppend
    <2>8. Among(s \o q, S) = Among(s, S) \o Among(q, S)
      BY <2>2
    <2>9. Among(s \o Append(q, x), S) = Among(s, S) \o Among(Append(q, x), S)
      BY <2>4, <2>5, <2>6, <2>7, <2>8
    <2>10. QED
      BY <2>2, <2>9
  <1>2. QED
    BY <1>1

LEMMA SplitAt ==
  ASSUME NEW X, NEW s \in Seq(X), NEW k \in Nat, k < Len(s)
  PROVE  \E p, r \in Seq(X) : p = SubSeq(s, 1, k) /\ Len(p) = k /\ s = p \o r /\ Range(p) \subseteq Range(s)
  <1> DEFINE n == Len(s)
  <1>1. n \in Nat /\ 1 \in Int /\ k \in Int /\ k + 1 \in Int /\ n \in Int /\ DOMAIN s = 1..n /\ \A i \in 1..n : s[i] \in X
    OBVIOUS
  <1>2. k < n
    OBVIOUS
  <1> HIDE DEF n
  <1>3. /\ SubSeq(s, 1, k) \in Seq(X) /\ Len(SubSeq(s, 1, k)) = k
        /\ \A i \in 1..k : SubSeq(s, 1, k)[i] = s[i]
    <2>1. \A i \in 1..k : s[i] \in X
      BY <1>1, <1>2
    <2>2. /\ SubSeq(s, 1, k) \in Seq(X) /\ Len(SubSeq(s, 1, k)) = IF 1 <= k THEN k - 1 + 1 ELSE 0
          /\ \A i \in 1..(k - 1 + 1) : SubSeq(s, 1, k)[i] = s[1 + i - 1]
      BY <1>1, <2>1, SubSeqProperties
    <2>3. QED
      BY <1>1, <2>2
  <1>4. SubSeq(s, k + 1, n) \in Seq(X)
    <2>1. \A i \in (k + 1)..n : s[i] \in X
      BY <1>1, <1>2
    <2>2. QED
      BY <1>1, <2>1, SubSeqProperties
  <1>5. SubSeq(s, 1, k) \o SubSeq(s, k + 1, n) = SubSeq(s, 1, n)
    <2>1. 1 \in 1..(n + 1) /\ k \in (1 - 1)..n /\ n \in k..n
      BY <1>1, <1>2
    <2>2. QED
      BY <2>1, ConcatAdjacentSubSeq DEF n
  <1>6. SubSeq(s, 1, n) = s
    BY SubSeqFull DEF n
  <1>7. Range(SubSeq(s, 1, k)) \subseteq Range(s)
    <2>1. DOMAIN SubSeq(s, 1, k) = 1..k
      BY <1>3
    <2>2. QED
      BY <1>1, <1>2, <1>3, <2>1 DEF Range
  <1>8. QED
    BY <1>3, <1>4, <1>5, <1>6, <1>7

LEMMA AmongShorter ==
  ASSUME NEW X, NEW s \in Seq(X), NEW S
  PROVE  Len(Among(s, S)) <= Len(s)
  <1> DEFINE T == {r \in Seq(X) : ~(Len(Among(r, S)) <= Len(r))}
  <1>1. ASSUME T # {} PROVE FALSE
    <2>1. <<>> \notin T
      BY AmongEmpty
    <2>2. PICK r \in Seq(X), x \in X : Append(r, x) \in T /\ r \notin T
      BY <1>1, <2>1, Shortest
    <2>3. PICK a \in Seq(X) : a = Among(r, S) /\ Len(a) <= Len(r)
      BY <2>2, AmongSeq
    <2>4. Among(Append(r, x), S) = IF x \in S THEN Append(a, x) ELSE a
      BY <2>3, AmongAppend
    <2>5. Len(Append(a, x)) = Len(a) + 1 /\ Len(Append(r, x)) = Len(r) + 1 /\ Len(a) \in Nat /\ Len(r) \in Nat
      OBVIOUS
    <2>6. Len(Among(Append(r, x), S)) <= Len(Append(r, x))
      BY <2>3, <2>4, <2>5
    <2>7. QED
      BY <2>2, <2>6
  <1>2. QED
    BY <1>1

\* The members of a sequence, each as a function has it.
Through(F, s) == [i \in DOMAIN s |-> F[s[i]]]

\* Selecting by what a function keeps is the same before and behind it.
LEMMA AmongThrough ==
  ASSUME NEW X, NEW F, NEW S, NEW U, NEW s \in Seq(X), \A x \in X : x \in S <=> F[x] \in U
  PROVE  Among(Through(F, s), U) = Through(F, Among(s, S))
  <1>0. PICK Y : \A x \in X : F[x] \in Y
    <2>1. \A x \in X : F[x] \in {F[z] : z \in X}
      OBVIOUS
    <2>2. QED
      BY <2>1
  <1> DEFINE T == {r \in Seq(X) : Among(Through(F, r), U) # Through(F, Among(r, S))}
  <1>1. ASSUME T # {} PROVE FALSE
    <2>1. <<>> \notin T
      <3>1. Through(F, <<>>) = <<>>
        BY DEF Through
      <3>2. QED
        BY <3>1, AmongEmpty
    <2>2. PICK r \in Seq(X), x \in X : Append(r, x) \in T /\ r \notin T
      BY <1>1, <2>1, Shortest
    <2>3. PICK a \in Seq(X) : a = Among(r, S) /\ Among(Through(F, r), U) = Through(F, a)
      BY <2>2, AmongSeq
    <2>4. Among(Append(r, x), S) = IF x \in S THEN Append(a, x) ELSE a
      BY <2>3, AmongAppend
    <2>5. PICK b \in Seq(Y), y \in Y : b = Through(F, r) /\ y = F[x] /\ Through(F, Append(r, x)) = Append(b, y)
      <3>1. Through(F, r) \in Seq(Y)
        <4>1. \A i \in DOMAIN r : r[i] \in X
          OBVIOUS
        <4>2. QED
          BY <1>0, <4>1 DEF Through
      <3>2. Through(F, Append(r, x)) = Append(Through(F, r), F[x])
        BY DEF Through
      <3>3. F[x] \in Y
        BY <1>0
      <3>4. QED
        BY <3>1, <3>2, <3>3
    <2>6. Among(Append(b, y), U) = IF y \in U THEN Append(Among(b, U), y) ELSE Among(b, U)
      BY AmongAppend
    <2>7. Through(F, Append(a, x)) = Append(Through(F, a), F[x])
      BY DEF Through
    <2>8. Among(Through(F, Append(r, x)), U) = Through(F, Among(Append(r, x), S))
      BY <2>3, <2>4, <2>5, <2>6, <2>7
    <2>9. QED
      BY <2>2, <2>8
  <1>2. QED
    BY <1>1
-----------------------------------------------------------------------------
(* What comes of sorting a finite set.                                     *)
IsOrderOn(R, S) ==
  /\ \A x \in S : <<x, x>> \notin R
  /\ \A x, y \in S : x # y => <<x, y>> \in R \/ <<y, x>> \in R
  /\ \A x, y, z \in S : <<x, y>> \in R /\ <<y, z>> \in R => <<x, z>> \in R

BelowIn(R, S, x) == {y \in S : <<y, x>> \in R}

\* How many members come before one tells which is the first of two.
LEMMA BelowGrows ==
  ASSUME NEW S, IsFiniteSet(S), NEW R, IsOrderOn(R, S)
  PROVE  /\ \A x \in S : Cardinality(BelowIn(R, S, x)) \in 0 .. (Cardinality(S) - 1)
         /\ \A x, y \in S : <<x, y>> \in R <=> Cardinality(BelowIn(R, S, x)) < Cardinality(BelowIn(R, S, y))
         /\ Cardinality(S) \in Nat
  <1>0. Cardinality(S) \in Nat
    BY FS_CardinalityType
  <1>1. ASSUME NEW x \in S
        PROVE  /\ IsFiniteSet(BelowIn(R, S, x)) /\ Cardinality(BelowIn(R, S, x)) \in Nat
               /\ Cardinality(BelowIn(R, S, x)) <= Cardinality(S) /\ Cardinality(BelowIn(R, S, x)) # Cardinality(S)
    <2>1. BelowIn(R, S, x) \in SUBSET S /\ x \notin BelowIn(R, S, x)
      BY DEF BelowIn, IsOrderOn
    <2>2. QED
      BY <2>1, FS_Subset, FS_CardinalityType
  <1>2. ASSUME NEW x \in S, NEW y \in S, <<x, y>> \in R
        PROVE  Cardinality(BelowIn(R, S, x)) < Cardinality(BelowIn(R, S, y))
    <2>1. BelowIn(R, S, x) \in SUBSET BelowIn(R, S, y) /\ x \in BelowIn(R, S, y) /\ x \notin BelowIn(R, S, x)
      BY <1>2 DEF BelowIn, IsOrderOn
    <2>2. /\ Cardinality(BelowIn(R, S, x)) <= Cardinality(BelowIn(R, S, y))
          /\ Cardinality(BelowIn(R, S, x)) # Cardinality(BelowIn(R, S, y))
      BY <1>1, <2>1, FS_Subset
    <2>3. QED
      BY <1>1, <2>2
  <1>3. ASSUME NEW x \in S, NEW y \in S, Cardinality(BelowIn(R, S, x)) < Cardinality(BelowIn(R, S, y))
        PROVE  <<x, y>> \in R
    <2>1. x # y
      BY <1>1, <1>3
    <2>2. <<y, x>> \in R => FALSE
      BY <1>1, <1>2, <1>3
    <2>3. QED
      BY <2>1, <2>2 DEF IsOrderOn
  <1>4. QED
    BY <1>0, <1>1, <1>2, <1>3

\* s lists S in the order of R, each member once.
Lists(s, S, R) ==
  /\ s \in Seq(S) /\ Len(s) = Cardinality(S) /\ DOMAIN s = 1 .. Cardinality(S)
  /\ \A k \in 1 .. Cardinality(S) : s[k] \in S /\ Cardinality(BelowIn(R, S, s[k])) = k - 1
  /\ \A x \in S : Cardinality(BelowIn(R, S, x)) + 1 \in 1 .. Cardinality(S) /\ s[Cardinality(BelowIn(R, S, x)) + 1] = x
  /\ \A i, j \in 1 .. Cardinality(S) : i < j <=> <<s[i], s[j]>> \in R

LEMMA RankedLists ==
  ASSUME NEW S, IsFiniteSet(S), NEW R, IsOrderOn(R, S)
  PROVE  Lists(Ranked(S, R), S, R)
  <1> DEFINE n == Cardinality(S)
             rank == [x \in S |-> Cardinality(BelowIn(R, S, x)) + 1]
             s == Ranked(S, R)
  <1>1. n \in Nat /\ rank \in [S -> 1 .. n]
    BY BelowGrows
  <1>2. \A x, y \in S : rank[x] = rank[y] => x = y
    <2> SUFFICES ASSUME NEW x \in S, NEW y \in S, rank[x] = rank[y], x # y
                 PROVE  FALSE
      OBVIOUS
    <2>1. Cardinality(BelowIn(R, S, x)) = Cardinality(BelowIn(R, S, y)) /\ Cardinality(BelowIn(R, S, x)) \in Nat
      BY BelowGrows
    <2>2. <<x, y>> \in R \/ <<y, x>> \in R
      BY DEF IsOrderOn
    <2>3. QED
      BY <2>1, <2>2, BelowGrows
  <1>3. \A k \in 1 .. n : \E x \in S : rank[x] = k
    <2>1. rank \in Injection(S, 1 .. n)
      BY <1>1, <1>2 DEF Injection, IsInjective
    <2>2. IsFiniteSet(1 .. n) /\ Cardinality(1 .. n) = n
      BY <1>1, FS_Interval
    <2>3. rank \in Surjection(S, 1 .. n)
      BY <2>1, <2>2, FS_Injection
    <2>4. QED
      BY <2>3 DEF Surjection
  <1>4. s = [k \in 1 .. n |-> CHOOSE x \in S : Cardinality(BelowIn(R, S, x)) = k - 1]
    BY DEF Ranked, BelowIn
  <1>5. \A k \in 1 .. n : s[k] \in S /\ Cardinality(BelowIn(R, S, s[k])) = k - 1
    <2> TAKE k \in 1 .. n
    <2>1. \E x \in S : Cardinality(BelowIn(R, S, x)) = k - 1
      BY <1>1, <1>3, BelowGrows
    <2>2. s[k] = CHOOSE x \in S : Cardinality(BelowIn(R, S, x)) = k - 1
      BY <1>4
    <2> HIDE DEF s
    <2>3. QED
      BY <2>1, <2>2
  <1>6. s = [k \in 1 .. n |-> s[k]] /\ DOMAIN s = 1 .. n
    BY <1>4
  <1> HIDE DEF s
  <1>7. s \in Seq(S) /\ Len(s) = n
    <2>1. s \in [1 .. n -> S]
      BY <1>5, <1>6
    <2>2. QED
      BY <1>1, <2>1
  <1>8. \A x \in S : rank[x] \in 1 .. n /\ s[rank[x]] = x
    <2> TAKE x \in S
    <2>1. rank[x] \in 1 .. n
      BY <1>1
    <2>2. s[rank[x]] \in S /\ Cardinality(BelowIn(R, S, s[rank[x]])) = rank[x] - 1
      BY <1>5, <2>1
    <2>3. rank[s[rank[x]]] = rank[x]
      BY <2>1, <2>2
    <2>4. QED
      BY <1>2, <2>1, <2>2, <2>3
  <1>9. \A i, j \in 1 .. n : i < j <=> <<s[i], s[j]>> \in R
    <2> TAKE i, j \in 1 .. n
    <2>1. s[i] \in S /\ s[j] \in S /\ Cardinality(BelowIn(R, S, s[i])) = i - 1 /\ Cardinality(BelowIn(R, S, s[j])) = j - 1
      BY <1>5
    <2>2. <<s[i], s[j]>> \in R <=> i - 1 < j - 1
      BY <2>1, BelowGrows
    <2>3. QED
      BY <2>2, <1>1
  <1>10. QED
    BY <1>1, <1>5, <1>6, <1>7, <1>8, <1>9 DEF Lists, s

-----------------------------------------------------------------------------
(* Sums over finite sets.  g is the function in the definition of the sum  *)
(* of F over S.                                                            *)
Sums(g, S, F) ==
  g = [T \in SUBSET S |-> IF T = {} THEN 0
                          ELSE F[CHOOSE x \in T : TRUE] + g[T \ {CHOOSE x \in T : TRUE}]]

\* The same for the subsets that have at most n members.
SumsUpTo(g, S, F, n) ==
  \A T \in SUBSET S : Cardinality(T) <= n =>
    g[T] = IF T = {} THEN 0 ELSE F[CHOOSE x \in T : TRUE] + g[T \ {CHOOSE x \in T : TRUE}]

LEMMA SumsLonger ==
  ASSUME NEW S, IsFiniteSet(S), NEW F, NEW n \in Nat, NEW g, SumsUpTo(g, S, F, n)
  PROVE  \E h : SumsUpTo(h, S, F, n + 1)
  <1> DEFINE h == [T \in SUBSET S |-> IF T = {} THEN 0
                     ELSE F[CHOOSE x \in T : TRUE] + g[T \ {CHOOSE x \in T : TRUE}]]
  <1>1. ASSUME NEW T \in SUBSET S, Cardinality(T) <= n
        PROVE  h[T] = g[T]
    BY <1>1 DEF SumsUpTo
  <1>2. ASSUME NEW T \in SUBSET S, Cardinality(T) <= n + 1, T # {}
        PROVE  T \ {CHOOSE x \in T : TRUE} \in SUBSET S /\ Cardinality(T \ {CHOOSE x \in T : TRUE}) <= n
    <2>1. PICK x \in T : x = CHOOSE y \in T : TRUE
      BY <1>2
    <2>2. IsFiniteSet(T)
      BY FS_Subset
    <2>3. PICK m \in Nat : m = Cardinality(T)
      BY <2>2, FS_CardinalityType
    <2>4. Cardinality(T \ {x}) = m - 1 /\ m <= n + 1
      BY <1>2, <2>2, <2>3, FS_RemoveElement
    <2>5. m - 1 <= n
      BY <2>4
    <2>6. QED
      BY <2>1, <2>4, <2>5
  <1>3. ASSUME NEW T \in SUBSET S, Cardinality(T) <= n + 1
        PROVE  h[T] = IF T = {} THEN 0 ELSE F[CHOOSE x \in T : TRUE] + h[T \ {CHOOSE x \in T : TRUE}]
    <2>1. CASE T = {}
      BY <2>1
    <2>2. CASE T # {}
      <3> DEFINE U == T \ {CHOOSE x \in T : TRUE}
      <3>1. h[T] = F[CHOOSE x \in T : TRUE] + g[U]
        BY <2>2
      <3>2. U \in SUBSET S /\ Cardinality(U) <= n
        BY <1>2, <1>3, <2>2
      <3> HIDE DEF h
      <3>3. h[U] = g[U]
        BY <1>1, <3>2
      <3>4. QED
        BY <2>2, <3>1, <3>3
    <2>3. QED
      BY <2>1, <2>2
  <1> HIDE DEF h
  <1>4. QED
    BY <1>3 DEF SumsUpTo

LEMMA SumsExist ==
  ASSUME NEW S, IsFiniteSet(S), NEW F
  PROVE  \E g : Sums(g, S, F)
  <1> DEFINE W == {n \in Nat : ~\E g : SumsUpTo(g, S, F, n)}
  <1>1. ASSUME W # {} PROVE FALSE
    <2>1. PICK n \in W : \A m \in W : n <= m
      BY <1>1, LeastNumber
    <2>2. CASE n = 0
      <3> DEFINE g == [T \in SUBSET S |-> 0]
      <3>1. \A T \in SUBSET S : Cardinality(T) <= 0 => T = {}
        BY FS_EmptySet, FS_Subset, FS_CardinalityType
      <3>2. SumsUpTo(g, S, F, 0)
        BY <3>1 DEF SumsUpTo
      <3>3. QED
        BY <2>1, <2>2, <3>2
    <2>3. CASE n # 0
      <3>1. n - 1 \in Nat /\ ~(n <= n - 1) /\ (n - 1) + 1 = n
        BY <2>3
      <3>2. PICK g : SumsUpTo(g, S, F, n - 1)
        BY <2>1, <3>1
      <3>3. \E h : SumsUpTo(h, S, F, (n - 1) + 1)
        BY <3>1, <3>2, SumsLonger
      <3>4. QED
        BY <2>1, <3>1, <3>3
    <2>4. QED
      BY <2>2, <2>3
  <1>2. PICK n \in Nat : n = Cardinality(S)
    BY FS_CardinalityType
  <1>3. PICK g : SumsUpTo(g, S, F, n)
    BY <1>1, <1>2
  <1> DEFINE h == [T \in SUBSET S |-> g[T]]
  <1>4. \A T \in SUBSET S : Cardinality(T) <= n
    BY <1>2, FS_Subset
  <1>5. ASSUME NEW T \in SUBSET S
        PROVE  g[T] = IF T = {} THEN 0 ELSE F[CHOOSE x \in T : TRUE] + h[T \ {CHOOSE x \in T : TRUE}]
    BY <1>3, <1>4 DEF SumsUpTo
  <1>6. h = [T \in SUBSET S |-> IF T = {} THEN 0
                     ELSE F[CHOOSE x \in T : TRUE] + h[T \ {CHOOSE x \in T : TRUE}]]
    <2>1. h = [T \in SUBSET S |-> h[T]] /\ \A T \in SUBSET S : h[T] = g[T]
      OBVIOUS
    <2> HIDE DEF h
    <2>2. QED
      BY <1>5, <2>1
  <1> HIDE DEF h
  <1>7. QED
    BY <1>6 DEF Sums

\* What MapThenSumSet(LAMBDA x : F[x], S) stands for.
Total(F, S) == (CHOOSE g : Sums(g, S, F))[S]

\* A sum of natural numbers is one; and what it is of no number and of one.
LEMMA SumOfNumbers ==
  ASSUME NEW S, IsFiniteSet(S), NEW F, \A x \in S : F[x] \in Nat
  PROVE  /\ Total(F, S) \in Nat
         /\ S = {} => Total(F, S) = 0
         /\ \A a : S = {a} => Total(F, S) = F[a]
  <1> DEFINE g == CHOOSE f : Sums(f, S, F)
  <1>1. Sums(g, S, F)
    BY SumsExist
  <1> HIDE DEF g
  <1>2. \A T \in SUBSET S : g[T] = IF T = {} THEN 0 ELSE F[CHOOSE x \in T : TRUE] + g[T \ {CHOOSE x \in T : TRUE}]
    BY <1>1 DEF Sums
  <1> DEFINE W == {n \in Nat : \E T \in SUBSET S : Cardinality(T) = n /\ g[T] \notin Nat}
  <1>3. ASSUME W # {} PROVE FALSE
    <2>1. PICK n \in W : \A m \in W : n <= m
      BY <1>3, LeastNumber
    <2>2. PICK T \in SUBSET S : Cardinality(T) = n /\ g[T] \notin Nat
      BY <2>1
    <2>3. T # {}
      BY <1>2, <2>2
    <2>4. PICK x \in T : x = CHOOSE y \in T : TRUE
      BY <2>3
    <2>5. g[T] = F[x] + g[T \ {x}] /\ F[x] \in Nat
      BY <1>2, <2>3, <2>4
    <2>6. IsFiniteSet(T)
      BY FS_Subset
    <2>7. Cardinality(T \ {x}) = n - 1 /\ Cardinality(T \ {x}) \in Nat
      BY <2>2, <2>6, FS_RemoveElement, FS_CardinalityType
    <2>8. n - 1 \notin W
      BY <2>1, <2>7
    <2>9. g[T \ {x}] \in Nat
      BY <2>7, <2>8
    <2>10. QED
      BY <2>2, <2>5, <2>9
  <1>4. g[S] \in Nat
    BY <1>3, FS_CardinalityType
  <1>5. S = {} => g[S] = 0
    BY <1>2
  <1>6. ASSUME NEW a, S = {a}
        PROVE  g[S] = F[a]
    <2>1. (CHOOSE y \in S : TRUE) = a /\ S \ {a} = {}
      BY <1>6
    <2>2. g[S] = F[a] + g[{}] /\ g[{}] = 0
      BY <1>2, <1>6, <2>1
    <2>3. QED
      BY <1>6, <2>2
  <1>7. Total(F, S) = g[S]
    BY DEF Total, g
  <1>8. QED
    BY <1>4, <1>5, <1>6, <1>7

LEMMA MaxOfTwo ==
  ASSUME NEW a \in Int, NEW b \in Int
  PROVE  Max({a, b}) = IF a >= b THEN a ELSE b
  <1>1. \E x \in {a, b} : \A y \in {a, b} : x >= y
    <2>1. CASE a >= b
      BY <2>1
    <2>2. CASE ~(a >= b)
      BY <2>2
    <2>3. QED
      BY <2>1, <2>2
  <1>2. Max({a, b}) \in {a, b} /\ \A y \in {a, b} : Max({a, b}) >= y
    BY <1>1 DEF Max
  <1>3. QED
    BY <1>2

\* A part of a sequence has the members at its places.
LEMMA PartOf ==
  ASSUME NEW X, NEW s \in Seq(X), NEW lo \in Nat, NEW hi \in Nat, lo >= 1, hi <= Len(s)
  PROVE  /\ SubSeq(s, lo, hi) \in Seq(X) /\ Len(SubSeq(s, lo, hi)) = IF lo <= hi THEN hi - lo + 1 ELSE 0
         /\ \A i \in 1 .. (hi - lo + 1) : SubSeq(s, lo, hi)[i] = s[lo + i - 1]
         /\ Range(SubSeq(s, lo, hi)) = {s[k] : k \in lo .. hi}
  <1> DEFINE t == SubSeq(s, lo, hi)
  <1>1. \A k \in lo .. hi : s[k] \in X
    BY ElementOfSeq
  <1>2. /\ t \in Seq(X) /\ Len(t) = IF lo <= hi THEN hi - lo + 1 ELSE 0
        /\ \A i \in 1 .. (hi - lo + 1) : t[i] = s[lo + i - 1]
    BY <1>1, SubSeqProperties
  <1> HIDE DEF t
  <1>3. DOMAIN t = 1 .. (hi - lo + 1)
    <2>1. DOMAIN t = 1 .. Len(t)
      BY <1>2, LenProperties
    <2>2. QED
      BY <1>2, <2>1
  <1>4. ASSUME NEW k \in lo .. hi
        PROVE  \E i \in DOMAIN t : t[i] = s[k]
    <2>1. PICK j \in Nat : j = k - lo + 1 /\ j \in 1 .. (hi - lo + 1) /\ lo + j - 1 = k
      OBVIOUS
    <2>2. t[j] = s[k] /\ j \in DOMAIN t
      BY <1>2, <1>3, <2>1
    <2>3. QED
      BY <2>2
  <1>5. ASSUME NEW i \in DOMAIN t
        PROVE  \E k \in lo .. hi : t[i] = s[k]
    <2>1. PICK j \in Nat : j = lo + i - 1 /\ j \in lo .. hi
      BY <1>3
    <2>2. t[i] = s[j]
      BY <1>2, <1>3, <2>1
    <2>3. QED
      BY <2>1, <2>2
  <1>6. Range(t) = {t[i] : i \in DOMAIN t}
    BY DEF Range
  <1>7. Range(t) = {s[k] : k \in lo .. hi}
    BY <1>4, <1>5, <1>6
  <1>8. QED
    BY <1>2, <1>7 DEF t

\* The first m of a list are those that fewer than m come before.
LEMMA FirstPart ==
  ASSUME NEW S, IsFiniteSet(S), NEW R, NEW s, Lists(s, S, R), NEW m \in Nat, m <= Cardinality(S)
  PROVE  Range(SubSeq(s, 1, m)) = {x \in S : Cardinality(BelowIn(R, S, x)) < m}
  <1>1. PICK n \in Nat : n = Cardinality(S)
    BY FS_CardinalityType
  <1>2. s \in Seq(S) /\ Len(s) = n
    BY <1>1 DEF Lists
  <1>3. Range(SubSeq(s, 1, m)) = {s[k] : k \in 1 .. m}
    BY <1>1, <1>2, PartOf
  <1>4. ASSUME NEW k \in 1 .. m
        PROVE  s[k] \in S /\ Cardinality(BelowIn(R, S, s[k])) < m
    <2>1. k \in 1 .. n /\ k - 1 < m
      BY <1>1
    <2>2. s[k] \in S /\ Cardinality(BelowIn(R, S, s[k])) = k - 1
      BY <1>1, <2>1 DEF Lists
    <2>3. QED
      BY <2>1, <2>2
  <1>5. ASSUME NEW x \in S, Cardinality(BelowIn(R, S, x)) < m
        PROVE  \E k \in 1 .. m : s[k] = x
    <2>1. PICK k \in 1 .. n : k = Cardinality(BelowIn(R, S, x)) + 1 /\ s[k] = x
      BY <1>1 DEF Lists
    <2>2. Cardinality(BelowIn(R, S, x)) = k - 1
      BY <1>1, <2>1 DEF Lists
    <2>3. k \in 1 .. m
      BY <1>5, <2>2
    <2>4. QED
      BY <2>1, <2>3
  <1>6. QED
    BY <1>3, <1>4, <1>5

\* The last w are those that fewer than w come after.
LEMMA LastPart ==
  ASSUME NEW S, IsFiniteSet(S), NEW R, NEW s, Lists(s, S, R), NEW w \in Nat
  PROVE  Range(SubSeq(s, Max({0, Len(s) - w}) + 1, Len(s)))
           = {x \in S : Cardinality(S) - 1 - Cardinality(BelowIn(R, S, x)) < w}
  <1>1. PICK n \in Nat : n = Cardinality(S)
    BY FS_CardinalityType
  <1>2. s \in Seq(S) /\ Len(s) = n
    BY <1>1 DEF Lists
  <1>3. PICK lo \in Nat : lo = Max({0, n - w}) + 1 /\ lo >= 1 /\ lo = IF 0 >= n - w THEN 1 ELSE n - w + 1
    <2>1. Max({0, n - w}) = IF 0 >= n - w THEN 0 ELSE n - w
      BY MaxOfTwo
    <2>2. QED
      BY <2>1
  <1>4. Range(SubSeq(s, lo, n)) = {s[k] : k \in lo .. n}
    <2>1. lo >= 1 /\ n <= Len(s)
      BY <1>2, <1>3
    <2>2. QED
      BY <1>2, <2>1, PartOf
  <1>5. ASSUME NEW k \in lo .. n
        PROVE  s[k] \in S /\ n - 1 - Cardinality(BelowIn(R, S, s[k])) < w
    <2>1. k \in 1 .. n /\ n - 1 - (k - 1) < w
      BY <1>3
    <2>2. s[k] \in S /\ Cardinality(BelowIn(R, S, s[k])) = k - 1
      BY <1>1, <2>1 DEF Lists
    <2>3. QED
      BY <2>1, <2>2
  <1>6. ASSUME NEW x \in S, n - 1 - Cardinality(BelowIn(R, S, x)) < w
        PROVE  \E k \in lo .. n : s[k] = x
    <2>1. PICK k \in 1 .. n : k = Cardinality(BelowIn(R, S, x)) + 1 /\ s[k] = x
      BY <1>1 DEF Lists
    <2>2. Cardinality(BelowIn(R, S, x)) = k - 1
      BY <1>1, <2>1 DEF Lists
    <2>3. n - 1 - (k - 1) < w
      BY <1>6, <2>2
    <2>4. k \in lo .. n
      BY <1>3, <2>3
    <2>5. QED
      BY <2>1, <2>4
  <1>7. QED
    BY <1>1, <1>2, <1>3, <1>4, <1>5, <1>6

LEMMA MinOf ==
  ASSUME NEW S, S \subseteq Nat, S # {}
  PROVE  Min(S) \in S /\ \A y \in S : Min(S) <= y
  BY LeastNumber DEF Min

Ascends(S) == {p \in S \X S : p[1] < p[2]}

LEMMA AscendsOrder ==
  ASSUME NEW S, IsFiniteSet(S), S \subseteq Nat
  PROVE  Lists(Ranked(S, Ascends(S)), S, Ascends(S))
  <1>1. \A x, y \in S : <<x, y>> \in Ascends(S) <=> x < y
    BY DEF Ascends
  <1>2. IsOrderOn(Ascends(S), S)
    BY <1>1 DEF IsOrderOn
  <1>3. QED
    BY <1>2, RankedLists

\* z is one list of four, of these lengths.
Joined(z, A, B, C, E, a, b, c, e) ==
  /\ DOMAIN z = 1 .. (a + b + c + e)
  /\ \A i \in 1 .. a : z[i] = A[i]
  /\ \A i \in 1 .. b : z[a + i] = B[i]
  /\ \A i \in 1 .. c : z[a + b + i] = C[i]
  /\ \A i \in 1 .. e : z[a + b + c + i] = E[i]

LEMMA JoinedIs ==
  ASSUME NEW X, NEW A \in Seq(X), NEW B \in Seq(X), NEW C \in Seq(X), NEW E \in Seq(X)
  PROVE  /\ A \o B \o C \o E \in Seq(X)
         /\ Joined(A \o B \o C \o E, A, B, C, E, Len(A), Len(B), Len(C), Len(E))
  <1>0. PICK a \in Nat, b \in Nat, c \in Nat, e \in Nat : a = Len(A) /\ b = Len(B) /\ c = Len(C) /\ e = Len(E)
    BY LenProperties
  <1>z. PICK z : z = A \o B \o C \o E
    OBVIOUS
  <1> DEFINE P == A \o B
             Q == P \o C
  <1>1. P \in Seq(X) /\ Len(P) = a + b /\ \A i \in 1 .. (a + b) : P[i] = IF i <= a THEN A[i] ELSE B[i - a]
    BY <1>0, ConcatProperties
  <1> HIDE DEF P
  <1>2. Q \in Seq(X) /\ Len(Q) = a + b + c /\ \A i \in 1 .. (a + b + c) : Q[i] = IF i <= a + b THEN P[i] ELSE C[i - (a + b)]
    <2>1. PICK n \in Nat : n = a + b /\ Len(P) = n
      BY <1>1
    <2>2. Q \in Seq(X) /\ Len(Q) = n + c /\ \A i \in 1 .. (n + c) : Q[i] = IF i <= n THEN P[i] ELSE C[i - n]
      <3>1. P \in Seq(X)
        BY <1>1
      <3>2. /\ P \o C \in Seq(X) /\ Len(P \o C) = Len(P) + Len(C)
            /\ \A i \in 1 .. Len(P) + Len(C) : (P \o C)[i] = IF i <= Len(P) THEN P[i] ELSE C[i - Len(P)]
        BY <3>1, ConcatProperties
      <3>3. QED
        BY <1>0, <2>1, <3>2
    <2> HIDE DEF Q
    <2>3. QED
      BY <2>1, <2>2
  <1> HIDE DEF Q
  <1>3. /\ z \in Seq(X) /\ Len(z) = a + b + c + e
        /\ \A i \in 1 .. (a + b + c + e) : z[i] = IF i <= a + b + c THEN Q[i] ELSE E[i - (a + b + c)]
    BY <1>0, <1>z, <1>2, ConcatProperties DEF Q, P
  <1>4. DOMAIN z = 1 .. (a + b + c + e)
    BY <1>3, LenProperties
  <1>5. ASSUME NEW i \in 1 .. a PROVE z[i] = A[i]
    <2>1. i \in 1 .. (a + b) /\ i \in 1 .. (a + b + c) /\ i \in 1 .. (a + b + c + e) /\ i <= a + b /\ i <= a + b + c
      OBVIOUS
    <2>2. QED
      BY <1>1, <1>2, <1>3, <2>1
  <1>6. ASSUME NEW i \in 1 .. b PROVE z[a + i] = B[i]
    <2>1. PICK k \in Nat : k = a + i
      OBVIOUS
    <2>2. /\ k \in 1 .. (a + b) /\ k \in 1 .. (a + b + c) /\ k \in 1 .. (a + b + c + e) /\ k <= a + b /\ k <= a + b + c
          /\ ~(k <= a) /\ k - a = i
      BY <2>1
    <2>3. z[k] = B[k - a]
      BY <1>1, <1>2, <1>3, <2>2
    <2>4. QED
      BY <2>1, <2>2, <2>3
  <1>7. ASSUME NEW i \in 1 .. c PROVE z[a + b + i] = C[i]
    <2>1. PICK k \in Nat : k = a + b + i
      OBVIOUS
    <2>2. k \in 1 .. (a + b + c) /\ k \in 1 .. (a + b + c + e) /\ k <= a + b + c /\ ~(k <= a + b) /\ k - (a + b) = i
      BY <2>1
    <2>3. z[k] = C[k - (a + b)]
      BY <1>2, <1>3, <2>2
    <2>4. QED
      BY <2>1, <2>2, <2>3
  <1>8. ASSUME NEW i \in 1 .. e PROVE z[a + b + c + i] = E[i]
    <2>1. PICK k \in Nat : k = a + b + c + i
      OBVIOUS
    <2>2. k \in 1 .. (a + b + c + e) /\ ~(k <= a + b + c) /\ k - (a + b + c) = i
      BY <2>1
    <2>3. z[k] = E[k - (a + b + c)]
      BY <1>3, <2>2
    <2>4. QED
      BY <2>1, <2>2, <2>3
  <1>9. QED
    BY <1>0, <1>z, <1>3, <1>4, <1>5, <1>6, <1>7, <1>8 DEF Joined

LEMMA MembersOfJoined ==
  ASSUME NEW X, NEW A \in Seq(X), NEW B \in Seq(X), NEW C \in Seq(X), NEW E \in Seq(X)
  PROVE  ToSet(A \o B \o C \o E) = ToSet(A) \cup ToSet(B) \cup ToSet(C) \cup ToSet(E)
  <1>z. PICK z : z = A \o B \o C \o E
    OBVIOUS
  <1>1. PICK a \in Nat, b \in Nat, c \in Nat, e \in Nat : a = Len(A) /\ b = Len(B) /\ c = Len(C) /\ e = Len(E)
    BY LenProperties
  <1>2. /\ DOMAIN z = 1 .. (a + b + c + e)
        /\ \A i \in 1 .. a : z[i] = A[i]
        /\ \A i \in 1 .. b : z[a + i] = B[i]
        /\ \A i \in 1 .. c : z[a + b + i] = C[i]
        /\ \A i \in 1 .. e : z[a + b + c + i] = E[i]
    <2>1. Joined(z, A, B, C, E, a, b, c, e)
      BY <1>1, <1>z, JoinedIs
    <2>2. QED
      BY <2>1 DEF Joined
  <1>3. DOMAIN A = 1 .. a /\ DOMAIN B = 1 .. b /\ DOMAIN C = 1 .. c /\ DOMAIN E = 1 .. e
    BY <1>1, LenProperties
  <1>4. /\ ToSet(A) = {A[i] : i \in 1 .. a} /\ ToSet(B) = {B[i] : i \in 1 .. b}
        /\ ToSet(C) = {C[i] : i \in 1 .. c} /\ ToSet(E) = {E[i] : i \in 1 .. e}
        /\ ToSet(z) = {z[i] : i \in 1 .. (a + b + c + e)}
    BY <1>2, <1>3 DEF ToSet
  <1>5. ToSet(A) \subseteq ToSet(z)
    <2>1. ASSUME NEW i \in 1 .. a PROVE i \in 1 .. (a + b + c + e) /\ z[i] = A[i]
      BY <1>2
    <2>2. QED
      BY <1>4, <2>1
  <1>6. ToSet(B) \subseteq ToSet(z)
    <2>1. ASSUME NEW i \in 1 .. b PROVE a + i \in 1 .. (a + b + c + e) /\ z[a + i] = B[i]
      BY <1>2
    <2>2. QED
      BY <1>4, <2>1
  <1>7. ToSet(C) \subseteq ToSet(z)
    <2>1. ASSUME NEW i \in 1 .. c PROVE a + b + i \in 1 .. (a + b + c + e) /\ z[a + b + i] = C[i]
      <3>1. a + b + i \in 1 .. (a + b + c + e)
        OBVIOUS
      <3>2. QED
        BY <1>2, <3>1
    <2>2. QED
      BY <1>4, <2>1
  <1>8. ToSet(E) \subseteq ToSet(z)
    <2>1. ASSUME NEW i \in 1 .. e PROVE a + b + c + i \in 1 .. (a + b + c + e) /\ z[a + b + c + i] = E[i]
      <3>1. a + b + c + i \in 1 .. (a + b + c + e)
        OBVIOUS
      <3>2. QED
        BY <1>2, <3>1
    <2>2. QED
      BY <1>4, <2>1
  <1>9. ASSUME NEW k \in 1 .. (a + b + c + e)
        PROVE  z[k] \in ToSet(A) \cup ToSet(B) \cup ToSet(C) \cup ToSet(E)
    <2>1. CASE k \in 1 .. a
      BY <1>2, <1>4, <2>1
    <2>2. CASE k - a \in 1 .. b
      <3>1. a + (k - a) = k
        OBVIOUS
      <3>2. z[k] = B[k - a]
        BY <1>2, <2>2, <3>1
      <3>3. QED
        BY <1>4, <2>2, <3>2
    <2>3. CASE k - (a + b) \in 1 .. c
      <3>1. a + b + (k - (a + b)) = k
        OBVIOUS
      <3>2. z[k] = C[k - (a + b)]
        BY <1>2, <2>3, <3>1
      <3>3. QED
        BY <1>4, <2>3, <3>2
    <2>4. CASE k - (a + b + c) \in 1 .. e
      <3>1. a + b + c + (k - (a + b + c)) = k
        OBVIOUS
      <3>2. z[k] = E[k - (a + b + c)]
        BY <1>2, <2>4, <3>1
      <3>3. QED
        BY <1>4, <2>4, <3>2
    <2>5. k \in 1 .. a \/ k - a \in 1 .. b \/ k - (a + b) \in 1 .. c \/ k - (a + b + c) \in 1 .. e
      OBVIOUS
    <2>6. QED
      BY <2>1, <2>2, <2>3, <2>4, <2>5
  <1>10. ToSet(z) \subseteq ToSet(A) \cup ToSet(B) \cup ToSet(C) \cup ToSet(E)
    BY <1>4, <1>9
  <1>11. QED
    BY <1>z, <1>5, <1>6, <1>7, <1>8, <1>10

LEMMA BoundedIsSeq ==
  ASSUME NEW S, NEW n, NEW q \in BoundedSeq(S, n)
  PROVE  q \in Seq(S)
  <1>1. PICK m \in 0 .. n : q \in [1 .. m -> S]
    BY DEF BoundedSeq, SeqOf
  <1>2. m \in Nat
    OBVIOUS
  <1>3. QED
    BY <1>1, <1>2, SeqDef

LEMMA GreatestNumber ==
  ASSUME NEW n \in Nat, NEW S, S \subseteq 1 .. n, S # {}
  PROVE  \E x \in S : \A y \in S : y <= x
  <1> DEFINE T == {n - x : x \in S}
  <1>0. ASSUME NEW x \in S PROVE x \in 1 .. n /\ n - x \in Nat
    <2>1. x \in 1 .. n
      OBVIOUS
    <2>2. QED
      BY <2>1
  <1>1. T \subseteq Nat /\ T # {}
    BY <1>0
  <1>2. PICK t \in T : \A u \in T : t <= u
    BY <1>1, LeastNumber
  <1>3. PICK x \in S : t = n - x
    BY <1>2
  <1>4. ASSUME NEW y \in S PROVE y <= x
    <2>1. n - x <= n - y
      BY <1>2, <1>3
    <2>2. x \in 1 .. n /\ y \in 1 .. n
      BY <1>0
    <2>3. QED
      BY <2>1, <2>2
  <1>5. QED
    BY <1>4

Descends(S) == {p \in S \X S : p[1] > p[2]}

LEMMA DescendsOrder ==
  ASSUME NEW S, IsFiniteSet(S), S \subseteq Nat
  PROVE  Lists(Ranked(S, Descends(S)), S, Descends(S)) /\ IsOrderOn(Descends(S), S)
  <1>1. \A x, y \in S : <<x, y>> \in Descends(S) <=> x > y
    BY DEF Descends
  <1>2. IsOrderOn(Descends(S), S)
    BY <1>1 DEF IsOrderOn
  <1>3. QED
    BY <1>2, RankedLists

\* Of any two in the list the first comes before the second.
InOrderOf(s, R) == \A i, j \in DOMAIN s : i < j => <<s[i], s[j]>> \in R

LEMMA JoinedInOrder ==
  ASSUME NEW X, NEW A \in Seq(X), NEW B \in Seq(X), NEW R, InOrderOf(A, R), InOrderOf(B, R),
         \A x \in ToSet(A), y \in ToSet(B) : <<x, y>> \in R
  PROVE  A \o B \in Seq(X) /\ ToSet(A \o B) = ToSet(A) \cup ToSet(B) /\ InOrderOf(A \o B, R)
  <1>1. PICK a \in Nat, b \in Nat : a = Len(A) /\ b = Len(B)
    BY LenProperties
  <1>2. PICK z : z = A \o B
    OBVIOUS
  <1>3. z \in Seq(X) /\ Len(z) = a + b /\ \A i \in 1 .. (a + b) : z[i] = IF i <= a THEN A[i] ELSE B[i - a]
    BY <1>1, <1>2, ConcatProperties
  <1>4. DOMAIN A = 1 .. a /\ DOMAIN B = 1 .. b /\ DOMAIN z = 1 .. (a + b)
    BY <1>1, <1>3, LenProperties
  <1>5. \A i \in 1 .. a : i \in 1 .. (a + b) /\ z[i] = A[i]
    BY <1>3
  <1>6. ASSUME NEW i \in 1 .. b PROVE a + i \in 1 .. (a + b) /\ z[a + i] = B[i]
    <2>1. a + i \in 1 .. (a + b) /\ ~(a + i <= a) /\ (a + i) - a = i
      OBVIOUS
    <2>2. z[a + i] = B[(a + i) - a]
      BY <1>3, <2>1
    <2>3. QED
      BY <2>1, <2>2
  <1>7. ASSUME NEW i \in 1 .. (a + b), ~(i <= a) PROVE i - a \in 1 .. b /\ z[i] = B[i - a]
    BY <1>3, <1>7
  <1>8. ToSet(z) = ToSet(A) \cup ToSet(B)
    <2>1. ToSet(A) = {A[i] : i \in 1 .. a} /\ ToSet(B) = {B[i] : i \in 1 .. b} /\ ToSet(z) = {z[i] : i \in 1 .. (a + b)}
      BY <1>4 DEF ToSet
    <2>2. ToSet(A) \subseteq ToSet(z)
      BY <1>5, <2>1
    <2>3. ToSet(B) \subseteq ToSet(z)
      BY <1>6, <2>1
    <2>4. ASSUME NEW i \in 1 .. (a + b) PROVE z[i] \in ToSet(A) \cup ToSet(B)
      <3>1. CASE i <= a
        <4>1. i \in 1 .. a /\ z[i] = A[i]
          BY <1>3, <3>1
        <4>2. QED
          BY <2>1, <4>1
      <3>2. CASE ~(i <= a)
        BY <1>7, <2>1, <3>2
      <3>3. QED
        BY <3>1, <3>2
    <2>5. QED
      BY <2>1, <2>2, <2>3, <2>4
  <1>9. ASSUME NEW i \in 1 .. (a + b), NEW j \in 1 .. (a + b), i < j
        PROVE  <<z[i], z[j]>> \in R
    <2>1. CASE j <= a
      <3>1. i \in 1 .. a /\ j \in 1 .. a /\ z[i] = A[i] /\ z[j] = A[j]
        BY <1>3, <1>9, <2>1
      <3>2. <<A[i], A[j]>> \in R
        BY <1>4, <1>9, <3>1 DEF InOrderOf
      <3>3. QED
        BY <3>1, <3>2
    <2>2. CASE ~(i <= a)
      <3>1. ~(j <= a)
        BY <1>9, <2>2
      <3>2. /\ i - a \in 1 .. b /\ z[i] = B[i - a]
            /\ j - a \in 1 .. b /\ z[j] = B[j - a]
        BY <1>7, <2>2, <3>1
      <3>3. i - a < j - a
        BY <1>9
      <3>4. <<B[i - a], B[j - a]>> \in R
        BY <1>4, <3>2, <3>3 DEF InOrderOf
      <3>5. QED
        BY <3>2, <3>4
    <2>3. CASE i <= a /\ ~(j <= a)
      <3>1. i \in 1 .. a /\ z[i] = A[i]
        BY <1>3, <2>3
      <3>2. j - a \in 1 .. b /\ z[j] = B[j - a]
        BY <1>7, <2>3
      <3>3. A[i] \in ToSet(A) /\ B[j - a] \in ToSet(B)
        BY <1>4, <3>1, <3>2 DEF ToSet
      <3>4. <<A[i], B[j - a]>> \in R
        BY <3>3
      <3>5. QED
        BY <3>1, <3>2, <3>4
    <2>4. QED
      BY <2>1, <2>2, <2>3
  <1>10. InOrderOf(z, R)
    BY <1>4, <1>9 DEF InOrderOf
  <1>11. QED
    BY <1>2, <1>3, <1>8, <1>10

\* For each in T there is one in U that is not before it.
Reaches(U, T) == \A x \in T : \E y \in U : y >= x

LEMMA OldestGivenUp ==
  ASSUME NEW U, U \subseteq Nat, IsFiniteSet(U), Cardinality(U) > 1, NEW T, T \subseteq Nat, Reaches(U, T)
  PROVE  Min(U) \in U /\ Reaches(U \ {Min(U)}, T)
  <1>1. U # {}
    <2>1. U = {} => Cardinality(U) = 0
      BY FS_EmptySet
    <2>2. QED
      BY <2>1
  <1>2. PICK m \in U : m = Min(U) /\ \A y \in U : m <= y
    BY <1>1, MinOf
  <1>3. PICK z \in U : z # m
    <2>1. Cardinality({m}) = 1
      BY FS_Singleton
    <2>2. U # {m}
      BY <2>1
    <2>3. QED
      BY <2>2
  <1>4. ASSUME NEW x \in T PROVE \E y \in U \ {m} : y >= x
    <2>1. PICK y \in U : y >= x
      BY DEF Reaches
    <2>2. CASE y # m
      BY <2>1, <2>2
    <2>3. CASE y = m
      <3>1. x \in Nat /\ y \in Nat /\ z \in Nat /\ y <= z
        BY <1>2, <2>3
      <3>2. z >= x
        BY <2>1, <3>1
      <3>3. QED
        BY <1>3, <3>2
    <2>4. QED
      BY <2>2, <2>3
  <1>5. QED
    BY <1>2, <1>4 DEF Reaches
=============================================================================
