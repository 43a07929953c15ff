------------------------- MODULE ModelIngress_proofs -------------------------
(***************************************************************************)
(* Theorems about ModelAdmission, for every set of callers, each number of *)
(* slots and every bound of the queues; and, from the section on the       *)
(* ingress, about ModelIngress, for every set of requests beside.          *)
(***************************************************************************)
EXTENDS ModelIngress, SequenceTheorems, WellFoundedInduction, TLAPS

-----------------------------------------------------------------------------
(***************************************************************************)
(* Queues.                                                                 *)
(***************************************************************************)

\* A non-empty set of natural numbers has a least element.
LEMMA LeastNatural ==
  ASSUME NEW S \in SUBSET Nat, S # {}
  PROVE  \E m \in S : \A n \in S : m <= n
  <1>1. PICK m \in S : \A n \in S : ~ (<<n, m>> \in OpToRel(<, Nat))
    BY NatLessThanWellFounded, WFMin, Zenon
  <1>2. \A n \in S : <<n, m>> \in Nat \X Nat
    OBVIOUS
  <1>3. \A n \in S : ~(n < m)
    BY <1>1, <1>2 DEF OpToRel
  <1>4. QED
    BY <1>3

\* deque.append adds one member.
LEMMA JoinedEffect ==
  ASSUME NEW q \in Seq(Callers), NEW c \in Callers, Distinct(q), c \notin Members(q)
  PROVE  /\ Joined(q, c) \in Seq(Callers)
         /\ Members(Joined(q, c)) = Members(q) \cup {c}
         /\ Distinct(Joined(q, c))
  <1> DEFINE r == Append(q, c)
  <1>1. /\ r \in Seq(Callers) /\ Len(r) = Len(q) + 1
        /\ r[Len(q) + 1] = c /\ \A i \in 1..Len(q) : r[i] = q[i]
    OBVIOUS
  <1> HIDE DEF r
  <1>2. Members(r) = Members(q) \cup {c}
    BY <1>1 DEF Members
  <1>3. Distinct(r)
    BY <1>1 DEF Distinct, Members
  <1>4. QED
    BY <1>1, <1>2, <1>3 DEF Joined, r

\* deque.popleft takes the head away.
LEMMA TailEffect ==
  ASSUME NEW q \in Seq(Callers), q # <<>>, Distinct(q)
  PROVE  /\ Tail(q) \in Seq(Callers)
         /\ Head(q) \in Members(q)
         /\ Members(Tail(q)) = Members(q) \ {Head(q)}
         /\ Distinct(Tail(q))
  <1> DEFINE r == Tail(q)
  <1>1. /\ r \in Seq(Callers) /\ Len(r) = Len(q) - 1 /\ Len(q) \in Nat \ {0}
        /\ Head(q) = q[1] /\ \A i \in 1..Len(r) : r[i] = q[i + 1]
    OBVIOUS
  <1> HIDE DEF r
  <1>2. Head(q) \in Members(q)
    BY <1>1 DEF Members
  <1>3. \A c \in Members(r) : c \in Members(q) /\ c # Head(q)
    <2> SUFFICES ASSUME NEW i \in 1..Len(r)
                 PROVE  r[i] \in Members(q) /\ r[i] # Head(q)
      BY DEF Members
    <2>1. i + 1 \in 1..Len(q) /\ 1 \in 1..Len(q) /\ i + 1 # 1 /\ r[i] = q[i + 1]
      BY <1>1
    <2>2. QED
      BY <1>1, <2>1 DEF Members, Distinct
  <1>4. \A c \in Members(q) : c # Head(q) => c \in Members(r)
    <2> SUFFICES ASSUME NEW i \in 1..Len(q), q[i] # Head(q)
                 PROVE  q[i] \in Members(r)
      BY DEF Members
    <2>1. i - 1 \in 1..Len(r) /\ r[i - 1] = q[i]
      BY <1>1
    <2>2. QED
      BY <2>1 DEF Members
  <1>5. Distinct(r)
    <2> SUFFICES ASSUME NEW i \in 1..Len(r), NEW j \in 1..Len(r), r[i] = r[j]
                 PROVE  i = j
      BY DEF Distinct
    <2>1. i + 1 \in 1..Len(q) /\ j + 1 \in 1..Len(q) /\ q[i + 1] = q[j + 1]
      BY <1>1
    <2>2. QED
      BY <1>1, <2>1 DEF Distinct
  <1>6. QED
    BY <1>1, <1>2, <1>3, <1>4, <1>5 DEF r

\* A suffix keeps the order: no member appears, none twice.
LEMMA SuffixEffect ==
  ASSUME NEW q \in Seq(Callers), NEW k \in 1..Len(q), Distinct(q)
  PROVE  /\ SubSeq(q, k, Len(q)) \in Seq(Callers)
         /\ SubSeq(q, k, Len(q)) # <<>>
         /\ Head(SubSeq(q, k, Len(q))) = q[k]
         /\ Members(SubSeq(q, k, Len(q))) = {q[i] : i \in k..Len(q)}
         /\ Distinct(SubSeq(q, k, Len(q)))
  <1> DEFINE r == SubSeq(q, k, Len(q))
  <1>1. /\ r \in Seq(Callers) /\ Len(r) = Len(q) - k + 1 /\ Len(q) \in Nat
        /\ \A i \in 1..Len(r) : r[i] = q[k + i - 1]
    <2>1. \A i \in k..Len(q) : q[i] \in Callers
      OBVIOUS
    <2>2. QED
      BY <2>1, SubSeqProperties
  <1> HIDE DEF r
  <1>2. Len(r) > 0 /\ r # <<>> /\ Head(r) = r[1] /\ r[1] = q[k]
    BY <1>1
  <1>3. Members(r) = {q[i] : i \in k..Len(q)}
    <2>1. \A i \in 1..Len(r) : r[i] \in {q[j] : j \in k..Len(q)}
      <3> SUFFICES ASSUME NEW i \in 1..Len(r)
                   PROVE  r[i] \in {q[j] : j \in k..Len(q)}
        OBVIOUS
      <3>1. k + i - 1 \in k..Len(q) /\ r[i] = q[k + i - 1]
        BY <1>1
      <3>2. QED
        BY <3>1
    <2>2. \A j \in k..Len(q) : q[j] \in Members(r)
      <3> SUFFICES ASSUME NEW j \in k..Len(q)
                   PROVE  q[j] \in Members(r)
        OBVIOUS
      <3>1. j - k + 1 \in 1..Len(r) /\ k + (j - k + 1) - 1 = j
        BY <1>1
      <3>2. r[j - k + 1] = q[j]
        BY <1>1, <3>1
      <3>3. QED
        BY <3>1, <3>2 DEF Members
    <2>3. QED
      BY <2>1, <2>2 DEF Members
  <1>4. Distinct(r)
    <2> SUFFICES ASSUME NEW i \in 1..Len(r), NEW j \in 1..Len(r), r[i] = r[j]
                 PROVE  i = j
      BY DEF Distinct
    <2>1. /\ k + i - 1 \in 1..Len(q) /\ k + j - 1 \in 1..Len(q)
          /\ q[k + i - 1] = q[k + j - 1]
      BY <1>1
    <2>2. k + i - 1 = k + j - 1
      BY <2>1 DEF Distinct
    <2>3. QED
      BY <2>2
  <1>5. QED
    BY <1>1, <1>2, <1>3, <1>4 DEF r

\* What _wake drops from the front of a queue is cancelled, and then the front
\* is not.
LEMMA PurgedEffect ==
  ASSUME NEW q \in Seq(Callers), NEW P, Distinct(q)
  PROVE  /\ Purged(q, P) \in Seq(Callers)
         /\ Distinct(Purged(q, P))
         /\ Members(Purged(q, P)) \subseteq Members(q)
         /\ \A c \in Members(q) : P[c] # "cancelled" => c \in Members(Purged(q, P))
         /\ Purged(q, P) # <<>> => P[Head(Purged(q, P))] # "cancelled"
  <1> DEFINE live == {i \in 1..Len(q) : P[q[i]] # "cancelled"}
  <1>1. CASE live = {}
    <2>1. Purged(q, P) = <<>>
      BY <1>1 DEF Purged
    <2>2. Members(<<>>) = {} /\ Distinct(<<>>) /\ <<>> \in Seq(Callers)
      BY DEF Members, Distinct
    <2>3. \A c \in Members(q) : P[c] = "cancelled"
      BY <1>1 DEF Members
    <2>4. QED
      BY <2>1, <2>2, <2>3
  <1>2. CASE live # {}
    <2> DEFINE k == CHOOSE i \in live : \A j \in live : i <= j
    <2>1. k \in live /\ \A j \in live : k <= j
      <3>1. live \in SUBSET Nat
        OBVIOUS
      <3>2. \E i \in live : \A j \in live : i <= j
        BY <1>2, <3>1, LeastNatural
      <3>3. QED
        BY <3>2
    <2>2. Purged(q, P) = SubSeq(q, k, Len(q))
      BY <1>2 DEF Purged
    <2> HIDE DEF k
    <2>3. k \in 1..Len(q) /\ P[q[k]] # "cancelled"
      BY <2>1
    <2>4. {q[i] : i \in k..Len(q)} \subseteq Members(q)
      BY <2>3 DEF Members
    <2>5. \A i \in 1..Len(q) : P[q[i]] # "cancelled" => i \in k..Len(q)
      BY <2>1
    <2>6. \A c \in Members(q) : P[c] # "cancelled" => c \in {q[i] : i \in k..Len(q)}
      BY <2>5 DEF Members
    <2>7. QED
      BY <2>2, <2>3, <2>4, <2>6, SuffixEffect
  <1>3. QED
    BY <1>1, <1>2

\* deque.remove takes away the one entry of a caller.
LEMMA WithoutEffect ==
  ASSUME NEW q \in Seq(Callers), NEW c \in Callers, Distinct(q)
  PROVE  /\ Without(q, c) \in Seq(Callers)
         /\ Distinct(Without(q, c))
         /\ Members(Without(q, c)) = Members(q) \ {c}
  <1>1. CASE c \notin Members(q)
    BY <1>1 DEF Without
  <1>2. CASE c \in Members(q)
    <2> DEFINE k == CHOOSE j \in 1..Len(q) : q[j] = c
               a == SubSeq(q, 1, k - 1)
               b == SubSeq(q, k + 1, Len(q))
               r == a \o b
    <2>1. k \in 1..Len(q) /\ q[k] = c
      BY <1>2 DEF Members
    <2>2. Without(q, c) = r
      BY <1>2 DEF Without
    <2> HIDE DEF k
    <2>3. \A i \in 1..Len(q) : q[i] \in Callers
      OBVIOUS
    <2>4. /\ a \in Seq(Callers) /\ Len(a) = k - 1
          /\ \A i \in 1..(k - 1) : a[i] = q[i]
      BY <2>1, <2>3, SubSeqProperties
    <2>5. /\ b \in Seq(Callers) /\ Len(b) = Len(q) - k
          /\ \A i \in 1..(Len(q) - k) : b[i] = q[k + i]
      <3>1. \A i \in (k + 1)..Len(q) : q[i] \in Callers
        BY <2>1, <2>3
      <3>2. /\ b \in Seq(Callers)
            /\ Len(b) = IF k + 1 <= Len(q) THEN Len(q) - (k + 1) + 1 ELSE 0
            /\ \A i \in 1..(Len(q) - (k + 1) + 1) : b[i] = q[(k + 1) + i - 1]
        BY <2>1, <3>1, SubSeqProperties
      <3>3. QED
        BY <2>1, <3>2
    <2> HIDE DEF a, b
    <2>6. /\ r \in Seq(Callers) /\ Len(r) = Len(q) - 1 /\ Len(q) \in Nat
          /\ \A i \in 1..Len(r) : r[i] = q[IF i < k THEN i ELSE i + 1]
      <3>1. /\ r \in Seq(Callers) /\ Len(r) = Len(a) + Len(b)
            /\ \A i \in 1..(Len(a) + Len(b)) :
                 r[i] = IF i <= Len(a) THEN a[i] ELSE b[i - Len(a)]
        BY <2>4, <2>5, ConcatProperties
      <3> HIDE DEF r
      <3>2. Len(q) \in Nat /\ Len(r) = Len(q) - 1
        BY <2>1, <2>4, <2>5, <3>1
      <3>3. ASSUME NEW i \in 1..Len(r), i < k
            PROVE  r[i] = q[i]
        <4>1. i \in 1..(k - 1) /\ i <= Len(a) /\ i \in 1..(Len(a) + Len(b))
          BY <2>1, <2>4, <2>5, <3>1, <3>3
        <4>2. r[i] = a[i]
          BY <3>1, <4>1
        <4>3. QED
          BY <2>4, <4>1, <4>2
      <3>4. ASSUME NEW i \in 1..Len(r), ~(i < k)
            PROVE  r[i] = q[i + 1]
        <4>1. r[i] = b[i - (k - 1)]
          BY <2>1, <2>4, <2>5, <3>1, <3>4
        <4>2. i - (k - 1) \in 1..(Len(q) - k) /\ k + (i - (k - 1)) = i + 1
          BY <2>1, <3>2, <3>4
        <4>3. QED
          BY <2>5, <4>1, <4>2
      <3>5. QED
        BY <3>1, <3>2, <3>3, <3>4
    <2> HIDE DEF r
    <2>7. \A i \in 1..Len(r) :
            /\ (IF i < k THEN i ELSE i + 1) \in 1..Len(q)
            /\ (IF i < k THEN i ELSE i + 1) # k
      BY <2>1, <2>6
    <2>8. Members(r) \subseteq Members(q) \ {c}
      BY <2>1, <2>6, <2>7 DEF Members, Distinct
    <2>9. Members(q) \ {c} \subseteq Members(r)
      <3> SUFFICES ASSUME NEW j \in 1..Len(q), q[j] # c
                   PROVE  q[j] \in Members(r)
        BY DEF Members
      <3>1. j # k
        BY <2>1
      <3>2. CASE j < k
        <4>1. j \in 1..Len(r) /\ r[j] = q[j]
          BY <2>1, <2>6, <3>2
        <4>2. QED
          BY <4>1 DEF Members
      <3>3. CASE j > k
        <4>1. j - 1 \in 1..Len(r) /\ r[j - 1] = q[j]
          BY <2>1, <2>6, <3>3
        <4>2. QED
          BY <4>1 DEF Members
      <3>4. QED
        BY <2>1, <3>1, <3>2, <3>3
    <2>10. Distinct(r)
      <3> SUFFICES ASSUME NEW i \in 1..Len(r), NEW j \in 1..Len(r), r[i] = r[j]
                   PROVE  i = j
        BY DEF Distinct
      <3>1. (IF i < k THEN i ELSE i + 1) = (IF j < k THEN j ELSE j + 1)
        BY <2>6, <2>7 DEF Distinct
      <3>2. QED
        BY <2>1, <3>1
    <2>11. QED
      BY <2>2, <2>6, <2>8, <2>9, <2>10
  <1>3. QED
    BY <1>1, <1>2

-----------------------------------------------------------------------------
(***************************************************************************)
(* The inductive invariant.                                                *)
(***************************************************************************)

\* QueueLive and SlotAccounted of any queues, phases, lanes and slots: what
\* holds between an action's own changes and the _wake that ends it.
LiveQueues(Q, P, L) ==
  /\ \A l \in LANES : \A c \in Members(Q[l]) :
       L[c] = l /\ P[c] \in {"queued", "cancelled"}
  /\ \A l \in LANES : Distinct(Q[l])
  /\ \A c \in Callers : P[c] = "queued" => c \in Members(Q[L[c]])

Owner(P, c) == P[c] \in {"granted", "revoked", "holding"}

Accounted(P, L, B) ==
  /\ \A c \in Callers : Owner(P, c) => SlotOf(L[c]) \in B
  /\ \A s \in B : \E c \in Callers : Owner(P, c) /\ SlotOf(L[c]) = s
  /\ \A c, d \in Callers :
       Owner(P, c) /\ Owner(P, d) /\ SlotOf(L[c]) = SlotOf(L[d]) => c = d

\* From the phases P on, _wake touches only callers that were waiting: it gives
\* them the slot.
Granted(P, running) ==
  \A c \in Callers :
    \/ phase'[c] = P[c]
    \/ P[c] = "queued" /\ phase'[c] = IF c \in running THEN "holding" ELSE "granted"

\* A grant that passed a waiting worker was counted in the streak.
PassedCounted == passed <= streak

IInv == TypeOK /\ QueueLive /\ SlotAccounted /\ NoIdleSlot /\ PassedCounted

\* Distinct lanes that may both be served have distinct slots, and a lane is
\* served only when somebody waits and its slot is free.
LEMMA LuckyEffect ==
  ASSUME NEW Q \in [LANES -> Seq(Callers)], NEW B, streak \in 0..2
  PROVE  /\ Lucky(Q, B) \subseteq ServedLanes
         /\ \A l \in Lucky(Q, B) : Q[l] # <<>> /\ SlotOf(l) \notin B
         /\ \A k, l \in Lucky(Q, B) : SlotOf(k) = SlotOf(l) => k = l
         /\ \A l \in ServedLanes :
              Q[l] # <<>> => SlotOf(l) \in B \/ \E k \in Lucky(Q, B) : SlotOf(k) = SlotOf(l)
  <1>1. CASE Slots = 1
    <2>1. ServedLanes = {"conversation", "worker"}
      BY <1>1 DEF ServedLanes, LANES
    <2>2. \A l \in ServedLanes : SlotOf(l) = "shared"
      BY <1>1 DEF SlotOf
    <2>3. Preferred(Q) \in ServedLanes
      BY <2>1 DEF Preferred
    <2>4. \A l \in ServedLanes : Q[l] # <<>> => Q[Preferred(Q)] # <<>>
      BY <2>1 DEF Preferred
    <2>5. Lucky(Q, B) = {l \in {Preferred(Q)} : Q[l] # <<>> /\ "shared" \notin B}
      BY <1>1 DEF Lucky
    <2>6. QED
      BY <2>2, <2>3, <2>4, <2>5
  <1>2. CASE Slots # 1
    <2>1. \A l \in ServedLanes : SlotOf(l) = l
      BY <1>2 DEF SlotOf
    <2>2. Lucky(Q, B) = {l \in ServedLanes : Q[l] # <<>> /\ l \notin B}
      BY <1>2 DEF Lucky
    <2>3. QED
      BY <2>1, <2>2
  <1>3. QED
    BY <1>1, <1>2

\* _wake keeps the queues and the slots accounted for, leaves no slot idle,
\* counts whom it prefers and touches only callers that wait.
LEMMA WakeEffect ==
  ASSUME NEW Q \in [LANES -> Seq(Callers)], NEW P \in [Callers -> Phases],
         NEW L \in [Callers -> ServedLanes], NEW B \in SUBSET SlotNames, NEW running,
         LiveQueues(Q, P, L), Accounted(P, L, B),
         streak \in 0..2, passed \in 0..3, PassedCounted,
         Wake(Q, P, B, running), lane' = L, closed' \in BOOLEAN
  PROVE  IInv' /\ Granted(P, running)
  <1> DEFINE first == [l \in LANES |-> Purged(Q[l], P)]
             lucky == Lucky(first, B)
             left == [l \in LANES |-> IF l \in lucky THEN Tail(first[l]) ELSE first[l]]
             chosen == {Head(first[l]) : l \in lucky}
  <1>1. \A l \in LANES :
          /\ first[l] \in Seq(Callers)
          /\ Distinct(first[l])
          /\ Members(first[l]) \subseteq Members(Q[l])
          /\ \A c \in Members(Q[l]) : P[c] # "cancelled" => c \in Members(first[l])
          /\ first[l] # <<>> => P[Head(first[l])] # "cancelled"
    BY PurgedEffect DEF LiveQueues
  <1>2. first \in [LANES -> Seq(Callers)]
    BY <1>1
  <1>3. ServedLanes \subseteq LANES
    BY DEF ServedLanes
  <1>4. /\ queue' = left
        /\ phase' = [c \in Callers |->
                       IF c \in chosen
                       THEN IF c \in running THEN "holding" ELSE "granted"
                       ELSE P[c]]
        /\ busy' = B \cup Taken(lucky)
        /\ streak' = NextStreak(lucky)
        /\ passed' = NextPassed(lucky, left)
    BY DEF Wake
  <1> HIDE DEF first
  <1>5. /\ lucky \subseteq ServedLanes
        /\ \A l \in lucky : first[l] # <<>> /\ SlotOf(l) \notin B
        /\ \A k, l \in lucky : SlotOf(k) = SlotOf(l) => k = l
        /\ \A l \in ServedLanes :
             first[l] # <<>> => SlotOf(l) \in B \/ \E k \in lucky : SlotOf(k) = SlotOf(l)
    BY <1>2, LuckyEffect
  <1>6. (Slots = 1 /\ lucky # {}) => lucky = {Preferred(first)}
    BY DEF Lucky
  <1> HIDE DEF lucky
  <1>7. \A l \in lucky :
          /\ Tail(first[l]) \in Seq(Callers)
          /\ Head(first[l]) \in Members(first[l])
          /\ Members(Tail(first[l])) = Members(first[l]) \ {Head(first[l])}
          /\ Distinct(Tail(first[l]))
    BY <1>1, <1>3, <1>5, TailEffect
  <1>8. \A l \in lucky :
          /\ Head(first[l]) \in Callers
          /\ L[Head(first[l])] = l
          /\ P[Head(first[l])] = "queued"
    <2> SUFFICES ASSUME NEW l \in lucky
                 PROVE  /\ Head(first[l]) \in Callers
                        /\ L[Head(first[l])] = l
                        /\ P[Head(first[l])] = "queued"
      OBVIOUS
    <2>1. l \in LANES /\ first[l] # <<>> /\ Head(first[l]) \in Members(Q[l])
      BY <1>1, <1>3, <1>5, <1>7
    <2>2. Head(first[l]) \in Callers
      BY <1>1, <2>1
    <2>3. QED
      BY <1>1, <2>1, <2>2 DEF LiveQueues
  <1>9. \A c \in chosen : /\ c \in Callers /\ L[c] \in lucky
                          /\ c = Head(first[L[c]]) /\ P[c] = "queued"
    BY <1>8
  <1>10. \A l \in lucky : Head(first[l]) \in chosen
    OBVIOUS
  <1> HIDE DEF chosen
  <1>11. \A c \in Callers :
           /\ c \in chosen => phase'[c] \in {"granted", "holding"}
           /\ c \notin chosen => phase'[c] = P[c]
    BY <1>4
  <1>12. \A l \in LANES :
           /\ left[l] \in Seq(Callers)
           /\ Distinct(left[l])
           /\ Members(left[l]) \subseteq Members(Q[l])
           /\ \A c \in Members(left[l]) : c \notin chosen
           /\ \A c \in Members(Q[l]) :
                c \notin chosen /\ P[c] # "cancelled" => c \in Members(left[l])
    <2> SUFFICES ASSUME NEW l \in LANES
                 PROVE  /\ left[l] \in Seq(Callers)
                        /\ Distinct(left[l])
                        /\ Members(left[l]) \subseteq Members(Q[l])
                        /\ \A c \in Members(left[l]) : c \notin chosen
                        /\ \A c \in Members(Q[l]) :
                             c \notin chosen /\ P[c] # "cancelled" => c \in Members(left[l])
      OBVIOUS
    <2>1. CASE l \in lucky
      <3>1. left[l] = Tail(first[l])
        BY <2>1
      <3> HIDE DEF left
      <3>2. Members(left[l]) = Members(first[l]) \ {Head(first[l])}
        BY <1>7, <2>1, <3>1
      <3>3. \A c \in Members(left[l]) : c \notin chosen
        BY <1>1, <1>9, <3>2 DEF LiveQueues
      <3>4. QED
        BY <1>1, <1>7, <1>10, <2>1, <3>1, <3>2, <3>3
    <2>2. CASE l \notin lucky
      <3>1. left[l] = first[l]
        BY <2>2
      <3> HIDE DEF left
      <3>2. \A c \in Members(left[l]) : c \notin chosen
        BY <1>1, <1>9, <2>2, <3>1 DEF LiveQueues
      <3>3. QED
        BY <1>1, <3>1, <3>2
    <2>3. QED
      BY <2>1, <2>2
  <1>13. left \in [LANES -> Seq(Callers)]
    BY <1>12
  <1> HIDE DEF left
  <1>14. /\ \A s \in Taken(lucky) : \E l \in lucky : s = SlotOf(l)
         /\ \A l \in lucky : SlotOf(l) \in Taken(lucky)
    BY DEF Taken
  <1>15. streak' \in 0..2 /\ passed' \in 0..3 /\ passed' <= streak'
    <2>1. CASE Slots # 1
      BY <1>4, <2>1 DEF NextStreak, NextPassed
    <2>2. CASE Slots = 1 /\ lucky = {}
      BY <1>4, <2>2 DEF NextStreak, NextPassed, PassedCounted
    <2>3. CASE Slots = 1 /\ lucky # {}
      <3>1. lucky = {Preferred(first)}
        BY <1>6, <2>3
      <3>2. CASE Preferred(first) = "worker"
        BY <1>4, <2>3, <3>1, <3>2 DEF NextStreak, NextPassed
      <3>3. CASE Preferred(first) # "worker"
        <4>1. "conversation" \in lucky /\ "worker" \notin lucky
          BY <3>1, <3>3 DEF Preferred
        <4>2. CASE left["worker"] = <<>>
          BY <1>4, <2>3, <4>1, <4>2 DEF NextStreak, NextPassed
        <4>3. CASE left["worker"] # <<>>
          <5>1. first["worker"] # <<>>
            BY <4>1, <4>3 DEF left, LANES
          <5>2. ~(streak >= 2)
            BY <3>3, <5>1 DEF Preferred
          <5>3. QED
            BY <1>4, <2>3, <4>1, <4>3, <5>2 DEF NextStreak, NextPassed, PassedCounted
        <4>4. QED
          BY <4>2, <4>3
      <3>4. QED
        BY <3>2, <3>3
    <2>4. QED
      BY <2>1, <2>2, <2>3
  <1>16. TypeOK'
    <2>1. queue' \in [LANES -> Seq(Callers)]
      BY <1>4, <1>13
    <2>2. phase' \in [Callers -> Phases]
      BY <1>4 DEF Phases
    <2>3. busy' \subseteq SlotNames
      BY <1>4, <1>5, <1>14 DEF SlotNames
    <2>4. QED
      BY <1>15, <2>1, <2>2, <2>3 DEF TypeOK
  <1>17. QueueLive'
    <2>1. \A l \in LANES : \A c \in Members(queue'[l]) :
            lane'[c] = l /\ phase'[c] \in {"queued", "cancelled"}
      <3> SUFFICES ASSUME NEW l \in LANES, NEW c \in Members(left[l])
                   PROVE  L[c] = l /\ phase'[c] \in {"queued", "cancelled"}
        BY <1>4
      <3>1. c \in Callers
        <4>1. \A i \in 1..Len(left[l]) : left[l][i] \in Callers
          BY <1>12
        <4>2. QED
          BY <4>1 DEF Members
      <3>2. QED
        BY <1>11, <1>12, <3>1 DEF LiveQueues
    <2>2. \A l \in LANES : Distinct(queue'[l])
      BY <1>4, <1>12
    <2>3. \A c \in Callers : phase'[c] = "queued" => c \in Members(queue'[lane'[c]])
      BY <1>3, <1>4, <1>11, <1>12 DEF LiveQueues
    <2>4. QED
      BY <2>1, <2>2, <2>3 DEF QueueLive, Members, Distinct
  <1>18. \A c \in Callers : Owns(c)' <=> (Owner(P, c) \/ c \in chosen)
    BY <1>9, <1>11 DEF Owns, Owner
  <1>19. SlotAccounted'
    <2>1. \A c \in Callers : Owns(c)' => SlotOf(lane'[c]) \in busy'
      BY <1>4, <1>9, <1>14, <1>18 DEF Accounted
    <2>2. \A s \in busy' : \E c \in Callers : Owns(c)' /\ SlotOf(lane'[c]) = s
      <3> SUFFICES ASSUME NEW s \in busy'
                   PROVE  \E c \in Callers : Owns(c)' /\ SlotOf(L[c]) = s
        OBVIOUS
      <3>1. CASE s \in B
        BY <1>18, <3>1 DEF Accounted
      <3>2. CASE s \in Taken(lucky)
        BY <1>8, <1>10, <1>14, <1>18, <3>2
      <3>3. QED
        BY <1>4, <3>1, <3>2
    <2>3. \A c, d \in Callers :
            Owns(c)' /\ Owns(d)' /\ SlotOf(lane'[c]) = SlotOf(lane'[d]) => c = d
      BY <1>5, <1>9, <1>18 DEF Accounted
    <2>4. QED
      BY <2>1, <2>2, <2>3 DEF SlotAccounted, SlotOf
  <1>20. NoIdleSlot'
    <2> SUFFICES ASSUME NEW c \in Callers, phase'[c] = "queued"
                 PROVE  SlotOf(L[c]) \in busy'
      BY DEF NoIdleSlot, SlotOf
    <2>1. P[c] = "queued" /\ c \in Members(Q[L[c]]) /\ L[c] \in ServedLanes
      BY <1>11 DEF LiveQueues
    <2>2. c \in Members(first[L[c]])
      BY <1>1, <1>3, <2>1
    <2>3. first[L[c]] # <<>>
      BY <2>2 DEF Members
    <2>4. QED
      BY <1>4, <1>5, <1>14, <2>1, <2>3
  <1>21. Granted(P, running)
    BY <1>4, <1>9 DEF Granted
  <1>22. QED
    BY <1>15, <1>16, <1>17, <1>19, <1>20, <1>21 DEF IInv, PassedCounted

-----------------------------------------------------------------------------
(***************************************************************************)
(* Every step preserves it.                                                *)
(***************************************************************************)

\* The invariant in the form _wake's lemma takes it.
LEMMA InvariantParts ==
  ASSUME IInv
  PROVE  /\ queue \in [LANES -> Seq(Callers)] /\ phase \in [Callers -> Phases]
         /\ lane \in [Callers -> ServedLanes] /\ busy \in SUBSET SlotNames
         /\ streak \in 0..2 /\ passed \in 0..3 /\ closed \in BOOLEAN /\ PassedCounted
         /\ LiveQueues(queue, phase, lane)
         /\ Accounted(phase, lane, busy)
  <1>1. LiveQueues(queue, phase, lane)
    BY DEF IInv, QueueLive, LiveQueues
  <1>2. Accounted(phase, lane, busy)
    BY DEF IInv, SlotAccounted, Accounted, Owns, Owner
  <1>3. QED
    BY <1>1, <1>2 DEF IInv, TypeOK

\* The entries of a queue are callers.
LEMMA EntriesAreCallers ==
  ASSUME NEW Q \in [LANES -> Seq(Callers)], NEW l \in LANES, NEW d \in Members(Q[l])
  PROVE  d \in Callers
  <1>1. \A i \in 1..Len(Q[l]) : Q[l][i] \in Callers
    OBVIOUS
  <1>2. QED
    BY <1>1 DEF Members

LEMMA InitInvariant == Init => IInv
  <1> SUFFICES ASSUME Init PROVE IInv
    OBVIOUS
  <1>1. "conversation" \in ServedLanes
    BY DEF ServedLanes, LANES
  <1>2. \A l \in LANES : queue[l] = <<>>
    BY DEF Init
  <1>3. TypeOK
    <2>1. <<>> \in Seq(Callers)
      OBVIOUS
    <2>2. queue \in [LANES -> Seq(Callers)]
      BY <2>1 DEF Init
    <2>3. phase \in [Callers -> Phases]
      BY DEF Init, Phases
    <2>4. lane \in [Callers -> ServedLanes]
      BY <1>1 DEF Init
    <2>5. busy \subseteq SlotNames
      BY DEF Init
    <2>6. streak \in 0..2 /\ passed \in 0..3
      BY DEF Init
    <2>7. closed \in BOOLEAN
      BY DEF Init
    <2>8. QED
      BY <2>2, <2>3, <2>4, <2>5, <2>6, <2>7 DEF TypeOK
  <1>4. QueueLive
    BY <1>2 DEF Init, QueueLive, Members, Distinct
  <1>5. SlotAccounted /\ NoIdleSlot /\ PassedCounted
    BY DEF Init, SlotAccounted, NoIdleSlot, PassedCounted, Owns
  <1>6. QED
    BY <1>3, <1>4, <1>5 DEF IInv

\* acquire: its own future is the only new entry.
LEMMA AcquireStep ==
  ASSUME IInv, NEW c \in Callers, NEW l \in LANES, Acquire(c, l)
  PROVE  IInv' /\ Granted([phase EXCEPT ![c] = "queued"], {c})
  <1> DEFINE Q == [queue EXCEPT ![l] = Joined(@, c)]
             P == [phase EXCEPT ![c] = "queued"]
             L == [lane EXCEPT ![c] = l]
  <1>1. /\ phase[c] = "idle" /\ l \in ServedLanes
        /\ lane' = L /\ closed' = closed /\ Wake(Q, P, busy, {c})
    BY DEF Acquire
  <1>2. \A k \in LANES : c \notin Members(queue[k])
    BY <1>1, InvariantParts DEF LiveQueues
  <1>3. /\ queue[l] \in Seq(Callers) /\ Distinct(queue[l])
        /\ Joined(queue[l], c) \in Seq(Callers)
        /\ Members(Joined(queue[l], c)) = Members(queue[l]) \cup {c}
        /\ Distinct(Joined(queue[l], c))
    BY <1>2, InvariantParts, JoinedEffect DEF LiveQueues
  <1>4. /\ Q \in [LANES -> Seq(Callers)] /\ P \in [Callers -> Phases]
        /\ L \in [Callers -> ServedLanes]
    BY <1>1, <1>3, InvariantParts DEF Phases
  <1>5. \A k \in LANES : /\ Distinct(Q[k])
                         /\ Members(Q[k]) = IF k = l THEN Members(queue[l]) \cup {c}
                                                     ELSE Members(queue[k])
    BY <1>3, InvariantParts DEF LiveQueues
  <1>6. \A d \in Callers : /\ d # c => P[d] = phase[d] /\ L[d] = lane[d]
                           /\ P[c] = "queued" /\ L[c] = l
    BY InvariantParts
  <1> HIDE DEF Q, P, L
  <1>7. LiveQueues(Q, P, L)
    <2>1. \A k \in LANES : \A d \in Members(Q[k]) :
            L[d] = k /\ P[d] \in {"queued", "cancelled"}
      <3> SUFFICES ASSUME NEW k \in LANES, NEW d \in Members(Q[k])
                   PROVE  L[d] = k /\ P[d] \in {"queued", "cancelled"}
        OBVIOUS
      <3>1. d \in Callers
        BY <1>4, EntriesAreCallers
      <3>2. CASE d = c
        BY <1>2, <1>5, <1>6, <3>2
      <3>3. CASE d # c
        BY <1>5, <1>6, <3>1, <3>3, InvariantParts DEF LiveQueues
      <3>4. QED
        BY <3>2, <3>3
    <2>2. \A d \in Callers : P[d] = "queued" => d \in Members(Q[L[d]])
      <3>1. \A d \in Callers : lane[d] \in LANES
        BY InvariantParts DEF ServedLanes
      <3>2. QED
        BY <1>5, <1>6, <3>1, InvariantParts DEF LiveQueues
    <2>3. QED
      BY <1>5, <2>1, <2>2 DEF LiveQueues
  <1>8. Accounted(P, L, busy)
    <2>1. \A d \in Callers : /\ Owner(P, d) <=> Owner(phase, d)
                             /\ Owner(P, d) => L[d] = lane[d]
      BY <1>1, <1>6 DEF Owner
    <2>2. Accounted(phase, lane, busy)
      BY InvariantParts
    <2>3. QED
      BY <2>1, <2>2 DEF Accounted
  <1>9. QED
    BY <1>1, <1>4, <1>7, <1>8, InvariantParts, WakeEffect DEF P

\* Steps that touch phases only: a caller is cancelled, or runs on with the slot
\* it was given.
LEMMA PhaseStep ==
  ASSUME IInv, phase' \in [Callers -> Phases],
         \A d \in Callers :
           \/ phase'[d] = phase[d]
           \/ phase[d] = "queued" /\ phase'[d] = "cancelled"
           \/ phase[d] = "granted" /\ phase'[d] \in {"revoked", "holding"},
         UNCHANGED <<queue, lane, busy, streak, closed, passed>>
  PROVE  IInv'
  <1>1. \A d \in Callers : Owns(d)' <=> Owns(d)
    BY DEF Owns
  <1>2. TypeOK'
    BY DEF IInv, TypeOK
  <1>3. QueueLive'
    <2>1. \A l \in LANES : \A d \in Members(queue[l]) :
            lane[d] = l /\ phase'[d] \in {"queued", "cancelled"}
      <3> SUFFICES ASSUME NEW l \in LANES, NEW d \in Members(queue[l])
                   PROVE  lane[d] = l /\ phase'[d] \in {"queued", "cancelled"}
        OBVIOUS
      <3>1. d \in Callers /\ lane[d] = l /\ phase[d] \in {"queued", "cancelled"}
        BY InvariantParts, EntriesAreCallers DEF LiveQueues
      <3>2. QED
        BY <3>1
    <2>2. \A d \in Callers : phase'[d] = "queued" => d \in Members(queue[lane[d]])
      BY InvariantParts DEF LiveQueues
    <2>3. \A l \in LANES : Distinct(queue[l])
      BY InvariantParts DEF LiveQueues
    <2>4. QED
      BY <2>1, <2>2, <2>3 DEF QueueLive, Members, Distinct
  <1>4. SlotAccounted'
    BY <1>1 DEF IInv, SlotAccounted, SlotOf
  <1>5. NoIdleSlot'
    BY DEF IInv, NoIdleSlot, SlotOf
  <1>6. QED
    BY <1>2, <1>3, <1>4, <1>5 DEF IInv, PassedCounted

\* Task.cancel: the entry stays until the caller, or _wake, removes it.
LEMMA CancelStep ==
  ASSUME IInv, NEW c \in Callers, Cancel(c)
  PROVE  IInv'
  <1>1. phase' \in [Callers -> Phases]
    BY InvariantParts DEF Cancel, Phases
  <1>2. \A d \in Callers :
          \/ phase'[d] = phase[d]
          \/ phase[d] = "queued" /\ phase'[d] = "cancelled"
          \/ phase[d] = "granted" /\ phase'[d] = "revoked"
    BY InvariantParts DEF Cancel
  <1>3. QED
    BY <1>1, <1>2, PhaseStep DEF Cancel

\* acquire returns: the owner stays the owner.
LEMMA ResumeStep ==
  ASSUME IInv, NEW c \in Callers, Resume(c)
  PROVE  IInv'
  <1>1. phase' \in [Callers -> Phases]
    BY InvariantParts DEF Resume, Phases
  <1>2. \A d \in Callers :
          \/ phase'[d] = phase[d]
          \/ phase[d] = "granted" /\ phase'[d] = "holding"
    BY InvariantParts DEF Resume
  <1>3. QED
    BY <1>1, <1>2, PhaseStep DEF Resume

\* release, and acquire's release of a transferred lease: the slot of one owner
\* is free, and nobody else had it.
LEMMA OwnerLeaves ==
  ASSUME IInv, NEW c \in Callers, phase[c] \in {"revoked", "holding"},
         Wake(queue, [phase EXCEPT ![c] = "idle"], busy \ {SlotOf(lane[c])}, {}),
         lane' = lane, closed' = closed
  PROVE  IInv' /\ Granted([phase EXCEPT ![c] = "idle"], {})
  <1> DEFINE P == [phase EXCEPT ![c] = "idle"]
             B == busy \ {SlotOf(lane[c])}
  <1>1. P \in [Callers -> Phases] /\ B \in SUBSET SlotNames
    BY InvariantParts DEF Phases
  <1>2. \A d \in Callers : (d # c => P[d] = phase[d]) /\ P[c] = "idle"
    BY InvariantParts
  <1>3. Wake(queue, P, B, {})
    OBVIOUS
  <1> HIDE DEF P
  <1>4. \A l \in LANES : \A d \in Members(queue[l]) : d \in Callers
    BY InvariantParts, EntriesAreCallers
  <1>5. LiveQueues(queue, P, lane)
    BY <1>2, <1>4, InvariantParts DEF LiveQueues
  <1>6. Accounted(P, lane, B)
    BY <1>2, InvariantParts DEF Accounted, Owner
  <1> HIDE DEF B
  <1>7. QED
    BY <1>1, <1>3, <1>5, <1>6, InvariantParts, WakeEffect DEF P

\* acquire's other way out: the entry of a cancelled or refused caller goes.
LEMMA LeaveStep ==
  ASSUME IInv, NEW c \in Callers, Leave(c)
  PROVE  IInv' /\ Granted([phase EXCEPT ![c] = "idle"], {})
  <1> DEFINE Q == [queue EXCEPT ![lane[c]] = Without(@, c)]
             P == [phase EXCEPT ![c] = "idle"]
  <1>1. /\ phase[c] \in {"cancelled", "refused"}
        /\ lane' = lane /\ closed' = closed /\ Wake(Q, P, busy, {})
    BY DEF Leave
  <1>2. lane[c] \in LANES
    BY InvariantParts DEF ServedLanes
  <1>3. /\ Without(queue[lane[c]], c) \in Seq(Callers)
        /\ Distinct(Without(queue[lane[c]], c))
        /\ Members(Without(queue[lane[c]], c)) = Members(queue[lane[c]]) \ {c}
    BY <1>2, InvariantParts, WithoutEffect DEF LiveQueues
  <1>4. Q \in [LANES -> Seq(Callers)] /\ P \in [Callers -> Phases]
    BY <1>3, InvariantParts DEF Phases
  <1>5. \A l \in LANES : Distinct(Q[l]) /\ Members(Q[l]) = Members(queue[l]) \ {c}
    BY <1>2, <1>3, InvariantParts DEF LiveQueues
  <1>6. \A d \in Callers : (d # c => P[d] = phase[d]) /\ P[c] = "idle"
    BY InvariantParts
  <1> HIDE DEF Q, P
  <1>7. LiveQueues(Q, P, lane)
    <2>1. \A l \in LANES : \A d \in Members(Q[l]) : d \in Callers
      BY <1>4, EntriesAreCallers
    <2>2. \A d \in Callers : lane[d] \in LANES
      BY InvariantParts DEF ServedLanes
    <2>3. \A l \in LANES : \A d \in Members(Q[l]) :
            lane[d] = l /\ P[d] \in {"queued", "cancelled"}
      BY <1>5, <1>6, <2>1, InvariantParts DEF LiveQueues
    <2>4. \A d \in Callers : P[d] = "queued" => d \in Members(Q[lane[d]])
      <3> SUFFICES ASSUME NEW d \in Callers, P[d] = "queued"
                   PROVE  d \in Members(Q[lane[d]])
        OBVIOUS
      <3>1. d # c /\ phase[d] = "queued"
        BY <1>6
      <3>2. d \in Members(queue[lane[d]])
        BY <3>1, InvariantParts DEF LiveQueues
      <3>3. QED
        BY <1>5, <2>2, <3>1, <3>2
    <2>5. QED
      BY <1>5, <2>3, <2>4 DEF LiveQueues
  <1>8. Accounted(P, lane, busy)
    BY <1>1, <1>6, InvariantParts DEF Accounted, Owner
  <1>9. QED
    BY <1>1, <1>4, <1>7, <1>8, InvariantParts, WakeEffect DEF P

\* close: whoever waits is refused, owners are not touched.
LEMMA CloseStep ==
  ASSUME IInv, Close
  PROVE  IInv'
  <1> USE InvariantParts DEF Close
  <1>1. \A d \in Callers :
          /\ phase[d] = "queued" => phase'[d] = "refused"
          /\ phase[d] # "queued" => phase'[d] = phase[d]
    OBVIOUS
  <1>2. \A d \in Callers : Owns(d)' <=> Owns(d)
    BY <1>1 DEF Owns
  <1>3. TypeOK'
    BY DEF IInv, TypeOK, Phases
  <1>4. \A d \in Callers : phase'[d] # "queued"
    BY <1>1
  <1>5. QueueLive'
    <2>1. \A l \in LANES : queue'[l] = <<>>
      OBVIOUS
    <2>2. QED
      BY <1>4, <2>1 DEF QueueLive, Members, Distinct
  <1>6. SlotAccounted'
    BY <1>2 DEF IInv, SlotAccounted, SlotOf
  <1>7. NoIdleSlot'
    BY <1>4 DEF NoIdleSlot
  <1>8. QED
    BY <1>3, <1>5, <1>6, <1>7 DEF IInv, PassedCounted

LEMMA StepInvariant == IInv /\ [Next]_vars => IInv'
  <1> SUFFICES ASSUME IInv, [Next]_vars PROVE IInv'
    OBVIOUS
  <1>1. CASE UNCHANGED vars
    BY <1>1, PhaseStep DEF vars, IInv, TypeOK
  <1>2. CASE Close
    BY <1>2, CloseStep
  <1>3. ASSUME NEW c \in Callers, NEW l \in LANES, Acquire(c, l)
        PROVE  IInv'
    BY <1>3, AcquireStep
  <1>4. ASSUME NEW c \in Callers, Cancel(c)
        PROVE  IInv'
    BY <1>4, CancelStep
  <1>5. ASSUME NEW c \in Callers, Resume(c)
        PROVE  IInv'
    BY <1>5, ResumeStep
  <1>6. ASSUME NEW c \in Callers, GiveBack(c)
        PROVE  IInv'
    BY <1>6, OwnerLeaves DEF GiveBack
  <1>7. ASSUME NEW c \in Callers, Leave(c)
        PROVE  IInv'
    BY <1>7, LeaveStep
  <1>8. ASSUME NEW c \in Callers, Release(c)
        PROVE  IInv'
    BY <1>8, OwnerLeaves DEF Release
  <1>9. QED
    BY <1>1, <1>2, <1>3, <1>4, <1>5, <1>6, <1>7, <1>8 DEF Next

LEMMA Invariance == Spec => []IInv
  BY InitInvariant, StepInvariant, PTL DEF Spec

-----------------------------------------------------------------------------
\* No future is in a queue twice, in another lane's queue, or when its caller is
\* through, and no pending future is outside: set_result and popleft always meet
\* a future that still waits.
THEOREM QueuesAreLive == Spec => []QueueLive
  <1>1. IInv => QueueLive
    BY DEF IInv
  <1>2. QED
    BY <1>1, Invariance, PTL

\* A slot is in use exactly when one caller owns it, whatever the order of
\* grants, cancellations, releases and the shutdown.
THEOREM LeasesAreAccounted == Spec => []SlotAccounted
  <1>1. IInv => SlotAccounted
    BY DEF IInv
  <1>2. QED
    BY <1>1, Invariance, PTL

\* Nobody waits for a slot that is free: every way a slot or the head of a queue
\* goes ends in a _wake that is enough.
THEOREM WaitersMeanBusySlots == Spec => []NoIdleSlot
  <1>1. IInv => NoIdleSlot
    BY DEF IInv
  <1>2. QED
    BY <1>1, Invariance, PTL

\* The foreground's preference is bounded: two conversation requests in a row
\* may pass a waiting worker, never three.
THEOREM PreferenceIsBounded == Spec => []BoundedOvertaking
  <1>1. IInv => BoundedOvertaking
    BY DEF IInv, TypeOK, PassedCounted, BoundedOvertaking
  <1>2. QED
    BY <1>1, Invariance, PTL

-----------------------------------------------------------------------------
(* The ingress.                                                            *)
IngressInv == IInv /\ IngressTypeOK /\ LeaseFlow

-----------------------------------------------------------------------------
(***************************************************************************)
(* The ingress uses the admission as any caller does.                      *)
(***************************************************************************)

LEMMA IngressUsesAdmission == [IngressNext]_allVars => [Next]_vars
  <1> SUFFICES ASSUME [IngressNext]_allVars PROVE [Next]_vars
    OBVIOUS
  <1> USE IngressAssumption
  <1>1. "worker" \in LANES /\ "conversation" \in LANES
    BY DEF LANES
  <1>2. CASE UNCHANGED allVars
    BY <1>2 DEF allVars
  <1>3. CASE Start \/ CloseWaited \/ CloseDone
    BY <1>3 DEF Start, CloseWaited, CloseDone
  <1>4. CASE CloseIngress \/ AdmissionCloses
    BY <1>4 DEF CloseIngress, AdmissionCloses, Next
  <1>5. CASE Others
    BY <1>1, <1>5 DEF Others, Next
  <1>6. ASSUME NEW c \in Requests, WorkStep(c)
        PROVE  [Next]_vars
    <2>1. CASE ContextChecked(c)
      BY <1>1, <2>1 DEF ContextChecked, Next
    <2>2. CASE Acquired(c) \/ AcquireRaises(c)
      BY <2>2 DEF Acquired, AcquireRaises, Next
    <2>3. CASE ContextFails(c) \/ Sent(c) \/ BodyArrived(c) \/ TransportFails(c) \/ WorkDies(c)
      BY <2>3 DEF ContextFails, Sent, BodyArrived, TransportFails, WorkDies
    <2>4. QED
      BY <1>6, <2>1, <2>2, <2>3 DEF WorkStep
  <1>7. ASSUME NEW c \in Requests, OwnerStep(c)
        PROVE  [Next]_vars
    <2>1. CASE Arrive(c) \/ Parsed(c) \/ Rejected(c) \/ Hangup(c) \/ Connected(c)
               \/ BodyRead(c) \/ StreamEnds(c)
      BY <2>1 DEF Arrive, Parsed, Rejected, Hangup, Connected, BodyRead, StreamEnds
    <2>2. CancelWork(c) => [Next]_vars
      BY DEF CancelWork, Next
    <2>3. CleanedUp(c) => [Next]_vars
      BY DEF CleanedUp, Next
    <2>4. CASE Disconnected(c)
      BY <2>2, <2>4 DEF Disconnected
    <2>5. CASE WorkFailed(c) \/ Left(c) \/ Cleaned(c) \/ CleanupRaises(c)
      BY <2>3, <2>5 DEF WorkFailed, Left, Cleaned, CleanupRaises, CleanupFails, Raises
    <2>6. CASE OwnerCancelled(c)
      BY <2>2, <2>3, <2>6 DEF OwnerCancelled, CleanupFails, Raises
    <2>7. QED
      BY <1>7, <2>1, <2>4, <2>5, <2>6 DEF OwnerStep
  <1>8. QED
    BY <1>2, <1>3, <1>4, <1>5, <1>6, <1>7 DEF IngressNext

-----------------------------------------------------------------------------
(***************************************************************************)
(* What the steps of the admission do to the caller and to everybody else. *)
(***************************************************************************)

\* Nothing happens to a request except, perhaps, the end of its wait.
Undisturbed(d) ==
  /\ work'[d] = work[d] /\ owner'[d] = owner[d]
  /\ lease'[d] = lease[d] /\ response'[d] = response[d] /\ lane'[d] = lane[d]
  /\ phase'[d] = phase[d] \/ (phase[d] = "queued" /\ phase'[d] \in {"granted", "refused"})

LEMMA UndisturbedFlow ==
  ASSUME NEW d \in Requests, Flow(d), Undisturbed(d)
  PROVE  Flow(d)'
  BY DEF Flow, Undisturbed

\* Everybody but c.
OthersWait(c) ==
  \A d \in Callers \ {c} :
    /\ lane'[d] = lane[d]
    /\ phase'[d] = phase[d] \/ (phase[d] = "queued" /\ phase'[d] = "granted")

LEMMA AcquireMoves ==
  ASSUME IInv, NEW c \in Callers, NEW l \in LANES, Acquire(c, l)
  PROVE  phase'[c] \in {"queued", "holding"} /\ lane'[c] = l /\ OthersWait(c)
  <1> DEFINE P == [phase EXCEPT ![c] = "queued"]
  <1>1. Granted(P, {c})
    BY AcquireStep
  <1>2. \A d \in Callers : P[d] = IF d = c THEN "queued" ELSE phase[d]
    BY InvariantParts
  <1>3. lane' = [lane EXCEPT ![c] = l]
    BY DEF Acquire
  <1> HIDE DEF P
  <1>4. QED
    BY <1>1, <1>2, <1>3, InvariantParts DEF Granted, OthersWait

LEMMA LeavingMoves ==
  ASSUME IInv, NEW c \in Callers, Leave(c) \/ GiveBack(c) \/ Release(c)
  PROVE  phase'[c] = "idle" /\ lane' = lane /\ OthersWait(c)
  <1> DEFINE P == [phase EXCEPT ![c] = "idle"]
  <1>1. Granted(P, {})
    <2>1. CASE Leave(c)
      BY <2>1, LeaveStep
    <2>2. CASE GiveBack(c)
      BY <2>2, OwnerLeaves DEF GiveBack
    <2>3. CASE Release(c)
      BY <2>3, OwnerLeaves DEF Release
    <2>4. QED
      BY <2>1, <2>2, <2>3
  <1>2. \A d \in Callers : P[d] = IF d = c THEN "idle" ELSE phase[d]
    BY InvariantParts
  <1>3. lane' = lane
    BY DEF Leave, GiveBack, Release
  <1> HIDE DEF P
  <1>4. QED
    BY <1>1, <1>2, <1>3 DEF Granted, OthersWait

LEMMA CancelMoves ==
  ASSUME IInv, NEW c \in Callers, Cancel(c)
  PROVE  phase'[c] \in {"cancelled", "revoked"} /\ lane' = lane /\ OthersWait(c)
  BY InvariantParts DEF Cancel, OthersWait

LEMMA ResumeMoves ==
  ASSUME IInv, NEW c \in Callers, Resume(c)
  PROVE  phase'[c] = "holding" /\ lane' = lane /\ OthersWait(c)
  BY InvariantParts DEF Resume, OthersWait

LEMMA StillMoves ==
  ASSUME NEW c, UNCHANGED vars
  PROVE  phase' = phase /\ lane' = lane /\ OthersWait(c)
  BY DEF vars, OthersWait

\* A step of request c that leaves everybody else alone has to be right for c.
LEMMA OneRequest ==
  ASSUME IngressInv, NEW c \in Requests, OthersWait(c), Flow(c)',
         \A d \in Requests \ {c} : /\ work'[d] = work[d] /\ owner'[d] = owner[d]
                                   /\ lease'[d] = lease[d] /\ response'[d] = response[d]
  PROVE  LeaseFlow'
  <1> SUFFICES ASSUME NEW d \in Requests PROVE Flow(d)'
    BY DEF LeaseFlow
  <1>1. CASE d = c
    BY <1>1
  <1>2. CASE d # c
    <2>1. d \in Callers
      BY IngressAssumption
    <2>2. Undisturbed(d)
      BY <1>2, <2>1 DEF OthersWait, Undisturbed
    <2>3. QED
      BY <2>2, UndisturbedFlow DEF IngressInv, LeaseFlow
  <1>3. QED
    BY <1>1, <1>2

-----------------------------------------------------------------------------
(***************************************************************************)
(* Every step keeps the flow of leases.                                    *)
(***************************************************************************)

LEMMA WorkStepFlow ==
  ASSUME IngressInv, NEW c \in Requests, WorkStep(c)
  PROVE  IngressTypeOK' /\ LeaseFlow'
  <1> USE DEF IngressTypeOK
  <1>1. c \in Callers /\ Flow(c) /\ IngressTypeOK /\ IInv /\ "worker" \in LANES
    BY IngressAssumption DEF IngressInv, LeaseFlow, LANES
  <1>2. \A how \in {"failed"} : WorkEnds(c, how) => work' \in [Requests -> Works]
    BY <1>1 DEF WorkEnds, Works
  <1>3. CASE ContextChecked(c)
    <2>1. phase'[c] \in {"queued", "holding"} /\ lane'[c] = "worker" /\ OthersWait(c)
      BY <1>1, <1>3, AcquireMoves DEF ContextChecked
    <2>2. IngressTypeOK'
      BY <1>1, <1>3 DEF ContextChecked, Works
    <2>3. Flow(c)'
      BY <1>1, <1>3, <2>1 DEF ContextChecked, Flow
    <2>4. QED
      BY <1>1, <1>3, <2>1, <2>2, <2>3, OneRequest DEF ContextChecked
  <1>4. CASE ContextFails(c)
    <2>1. phase' = phase /\ lane' = lane /\ OthersWait(c)
      BY <1>4, StillMoves DEF ContextFails
    <2>2. Flow(c)'
      BY <1>1, <1>4, <2>1 DEF ContextFails, WorkEnds, Flow
    <2>3. QED
      BY <1>1, <1>2, <1>4, <2>1, <2>2, OneRequest DEF ContextFails, WorkEnds
  <1>5. CASE Acquired(c)
    <2>1. phase'[c] = "holding" /\ lane' = lane /\ OthersWait(c)
      BY <1>1, <1>5, ResumeMoves DEF Acquired
    <2>2. phase[c] = "granted"
      BY <1>5 DEF Acquired, Resume
    <2>3. Flow(c)'
      BY <1>1, <1>5, <2>1, <2>2 DEF Acquired, Flow
    <2>4. IngressTypeOK'
      BY <1>1, <1>5 DEF Acquired, Works
    <2>5. QED
      BY <1>1, <1>5, <2>1, <2>3, <2>4, OneRequest DEF Acquired
  <1>6. CASE AcquireRaises(c)
    <2>1. phase'[c] = "idle" /\ lane' = lane /\ OthersWait(c)
      BY <1>1, <1>6, LeavingMoves DEF AcquireRaises
    <2>2. Flow(c)'
      BY <1>1, <1>6, <2>1 DEF AcquireRaises, WorkEnds, Flow
    <2>3. QED
      BY <1>1, <1>2, <1>6, <2>1, <2>2, OneRequest DEF AcquireRaises, WorkEnds
  <1>7. CASE Sent(c) \/ BodyArrived(c)
    <2>1. phase' = phase /\ lane' = lane /\ OthersWait(c)
      BY <1>7, StillMoves DEF Sent, BodyArrived
    <2>2. Flow(c)'
      BY <1>1, <1>7, <2>1 DEF Sent, BodyArrived, Flow
    <2>3. IngressTypeOK'
      BY <1>1, <1>7 DEF Sent, BodyArrived, Works
    <2>4. QED
      BY <1>1, <1>7, <2>1, <2>2, <2>3, OneRequest DEF Sent, BodyArrived
  <1>8. CASE TransportFails(c) \/ WorkDies(c)
    <2>1. phase' = phase /\ lane' = lane /\ OthersWait(c)
      BY <1>8, StillMoves DEF TransportFails, WorkDies
    <2>2. Flow(c)'
      BY <1>1, <1>8, <2>1 DEF TransportFails, WorkDies, WorkEnds, Flow
    <2>3. QED
      BY <1>1, <1>2, <1>8, <2>1, <2>2, OneRequest DEF TransportFails, WorkDies, WorkEnds
  <1>9. QED
    BY <1>3, <1>4, <1>5, <1>6, <1>7, <1>8 DEF WorkStep, IngressInv

\* work.cancel(): what it awaits is cancelled or it dies on its own.
LEMMA CancelWorkMoves ==
  ASSUME IngressInv, NEW c \in Requests, CancelWork(c)
  PROVE  /\ OthersWait(c) /\ lane' = lane
         /\ work' \in [Requests -> Works]
         /\ \A d \in Requests \ {c} : work'[d] = work[d]
         /\ work'[c] \notin {"context", "send", "read"}
         /\ work'[c] = "acquire" <=> work[c] = "acquire"
         /\ work[c] # "acquire" => phase'[c] = phase[c]
         /\ work[c] = "acquire" =>
              phase'[c] \notin {"idle", "holding", "queued", "granted"}
  <1>1. c \in Callers /\ Flow(c) /\ IInv /\ work \in [Requests -> Works]
    BY IngressAssumption DEF IngressInv, LeaseFlow, IngressTypeOK
  <1>2. CASE work[c] = "acquire" /\ Cancel(c) /\ UNCHANGED work
    BY <1>1, <1>2, CancelMoves
  <1>3. CASE /\ work[c] \in {"context", "send", "read"}
             /\ work' = [work EXCEPT ![c] = "dying"]
             /\ UNCHANGED vars
    BY <1>1, <1>3, StillMoves DEF Works
  <1>4. CASE /\ \/ work[c] = "acquire" /\ phase[c] \notin {"queued", "granted"}
                \/ work[c] = "dying" \/ Over(c)
             /\ UNCHANGED <<vars, work>>
    BY <1>1, <1>4, StillMoves DEF Flow, Over
  <1>5. QED
    BY <1>2, <1>3, <1>4 DEF CancelWork

\* A handler that may hold a lease calls cleanup: it has none afterwards.
LEMMA CleanedUpMoves ==
  ASSUME IngressInv, NEW c \in Requests, CleanedUp(c)
  PROVE  /\ OthersWait(c) /\ lane' = lane
         /\ lease' = [lease EXCEPT ![c] = FALSE]
         /\ phase'[c] = IF lease[c] THEN "idle" ELSE phase[c]
  <1>1. c \in Callers /\ IInv
    BY IngressAssumption DEF IngressInv
  <1>2. CASE lease[c]
    BY <1>1, <1>2, LeavingMoves DEF CleanedUp
  <1>3. CASE ~lease[c]
    BY <1>1, <1>3, StillMoves DEF CleanedUp
  <1>4. QED
    BY <1>2, <1>3

\* Disconnected and the first cancellation: an exception leaves the wait.
LEMMA LeavingFlow ==
  ASSUME IngressInv, NEW c \in Requests, owner[c] \in {"connecting", "reading"},
         owner' = [owner EXCEPT ![c] = "leaving"], CancelWork(c),
         UNCHANGED <<lease, response>>
  PROVE  owner' \in [Requests -> Owners] /\ work' \in [Requests -> Works] /\ LeaseFlow'
  <1>1. Flow(c) /\ owner \in [Requests -> Owners]
    BY DEF IngressInv, LeaseFlow, IngressTypeOK
  <1>2. owner' \in [Requests -> Owners]
    BY <1>1 DEF Owners
  <1>3. Flow(c)'
    BY <1>1, CancelWorkMoves DEF Flow
  <1>4. QED
    BY <1>1, <1>2, <1>3, CancelWorkMoves, OneRequest

\* The end of a handler, also beside work that is dying or leaves the queue.
LEMMA EndingFlow ==
  ASSUME IngressInv, NEW c \in Requests, CleanedUp(c), Ends(c),
         work[c] \notin {"context", "send", "read"},
         work[c] = "acquire" => phase[c] \notin {"queued", "granted"}
  PROVE  /\ owner' \in [Requests -> Owners] /\ work' \in [Requests -> Works]
         /\ lease' \in [Requests -> BOOLEAN] /\ response' \in [Requests -> BOOLEAN]
         /\ LeaseFlow'
  <1>1. Flow(c) /\ IngressTypeOK
    BY DEF IngressInv, LeaseFlow
  <1>2. /\ owner' \in [Requests -> Owners] /\ work' \in [Requests -> Works]
        /\ lease' \in [Requests -> BOOLEAN] /\ response' \in [Requests -> BOOLEAN]
    BY <1>1, CleanedUpMoves DEF IngressTypeOK, Ends, Owners, Works
  <1>3. /\ owner'[c] = "none" /\ response'[c] = FALSE /\ lease'[c] = FALSE
        /\ work'[c] = IF Over(c) THEN "none" ELSE work[c]
        /\ \A d \in Requests \ {c} : /\ work'[d] = work[d] /\ owner'[d] = owner[d]
                                       /\ lease'[d] = lease[d] /\ response'[d] = response[d]
    BY <1>1, CleanedUpMoves DEF IngressTypeOK, Ends
  <1>4. work'[c] \in {"none", "acquire", "dying"}
    BY <1>1, <1>3 DEF IngressTypeOK, Over, Works
  <1>5. Flow(c)'
    BY <1>1, <1>3, <1>4, CleanedUpMoves DEF Flow, Over
  <1>6. QED
    BY <1>2, <1>3, <1>5, CleanedUpMoves, OneRequest

LEMMA RaisesFlow ==
  ASSUME IngressInv, NEW c \in Requests, Raises(c),
         \/ owner[c] \in {"connecting", "reading"} /\ work[c] = "failed"
         \/ owner[c] = "leaving"
  PROVE  /\ owner' \in [Requests -> Owners] /\ work' \in [Requests -> Works]
         /\ lease' \in [Requests -> BOOLEAN] /\ response' \in [Requests -> BOOLEAN]
         /\ LeaseFlow'
  <1>1. Flow(c) /\ IngressTypeOK
    BY DEF IngressInv, LeaseFlow
  <1>2. CASE response[c]
    <2>1. /\ owner' = [owner EXCEPT ![c] = "cleanup"]
          /\ UNCHANGED <<vars, work, lease, response>>
      BY <1>2 DEF Raises
    <2>2. phase' = phase /\ lane' = lane /\ OthersWait(c)
      BY <2>1, StillMoves
    <2>3. work[c] \in {"none", "dying", "done", "failed"}
      BY <1>1, <1>2 DEF Flow, IngressTypeOK, Works
    <2>4. owner' \in [Requests -> Owners]
      BY <1>1, <2>1 DEF IngressTypeOK, Owners
    <2>5. Flow(c)'
      BY <1>1, <2>1, <2>2, <2>3 DEF Flow, IngressTypeOK
    <2>6. QED
      BY <1>1, <2>1, <2>2, <2>4, <2>5, OneRequest DEF IngressTypeOK
  <1>3. CASE ~response[c]
    <2>1. CleanedUp(c) /\ Ends(c)
      BY <1>3 DEF Raises
    <2>2. /\ work[c] \notin {"context", "send", "read"}
          /\ work[c] = "acquire" => phase[c] \notin {"queued", "granted"}
      BY <1>1 DEF Flow
    <2>3. QED
      BY <2>1, <2>2, EndingFlow
  <1>4. QED
    BY <1>2, <1>3

\* The first cleanup is interrupted: the lease is returned all the same.
LEMMA CleanupFailsFlow ==
  ASSUME IngressInv, NEW c \in Requests, CleanupFails(c)
  PROVE  /\ owner' \in [Requests -> Owners] /\ lease' \in [Requests -> BOOLEAN]
         /\ LeaseFlow'
  <1>1. Flow(c) /\ IngressTypeOK
    BY DEF IngressInv, LeaseFlow
  <1>2. CleanedUp(c)
    BY DEF CleanupFails
  <1>3. owner' \in [Requests -> Owners] /\ lease' \in [Requests -> BOOLEAN]
    BY <1>1, <1>2, CleanedUpMoves DEF CleanupFails, IngressTypeOK, Owners
  <1>4. Flow(c)'
    BY <1>1, <1>2, CleanedUpMoves DEF CleanupFails, Flow, IngressTypeOK
  <1>5. QED
    BY <1>1, <1>2, <1>3, <1>4, CleanedUpMoves, OneRequest DEF CleanupFails, IngressTypeOK

LEMMA OwnerStepFlow ==
  ASSUME IngressInv, NEW c \in Requests, OwnerStep(c)
  PROVE  IngressTypeOK' /\ LeaseFlow'
  <1>1. c \in Callers /\ Flow(c) /\ IngressTypeOK /\ IInv
    BY IngressAssumption DEF IngressInv, LeaseFlow
  <1>2. CASE Arrive(c) \/ Parsed(c) \/ Rejected(c) \/ Hangup(c)
    <2>1. phase' = phase /\ lane' = lane /\ OthersWait(c)
      BY <1>2, StillMoves DEF Arrive, Parsed, Rejected, Hangup
    <2>2. IngressTypeOK'
      BY <1>1, <1>2 DEF IngressTypeOK, Owners, Works, Arrive, Parsed, Rejected, Hangup
    <2>3. Flow(c)'
      <3>1. CASE Arrive(c)
        BY <1>1, <2>1, <3>1 DEF Flow, IngressTypeOK, Arrive
      <3>2. CASE Parsed(c)
        BY <1>1, <2>1, <3>2 DEF Flow, IngressTypeOK, Parsed
      <3>3. CASE Rejected(c)
        BY <1>1, <2>1, <3>3 DEF Flow, IngressTypeOK, Rejected
      <3>4. CASE Hangup(c)
        BY <1>1, <2>1, <3>4 DEF Flow, Hangup
      <3>5. QED
        BY <1>2, <3>1, <3>2, <3>3, <3>4
    <2>4. QED
      BY <1>1, <1>2, <2>1, <2>2, <2>3, OneRequest DEF IngressTypeOK, Arrive, Parsed, Rejected, Hangup
  <1>3. CASE Connected(c) \/ BodyRead(c) \/ StreamEnds(c)
    <2>1. phase' = phase /\ lane' = lane /\ OthersWait(c)
      BY <1>3, StillMoves DEF Connected, BodyRead, StreamEnds
    <2>2. IngressTypeOK'
      BY <1>1, <1>3 DEF IngressTypeOK, Owners, Works, Connected, BodyRead, StreamEnds
    <2>3. Flow(c)'
      BY <1>1, <1>3, <2>1 DEF Flow, IngressTypeOK, Connected, BodyRead, StreamEnds
    <2>4. QED
      BY <1>1, <1>3, <2>1, <2>2, <2>3, OneRequest DEF IngressTypeOK, Connected, BodyRead, StreamEnds
  <1>4. CASE Disconnected(c)
    BY <1>1, <1>4, LeavingFlow DEF Disconnected, IngressTypeOK
  <1>5. CASE WorkFailed(c) \/ Left(c)
    BY <1>1, <1>5, RaisesFlow DEF WorkFailed, Left, IngressTypeOK
  <1>6. owner[c] \in {"finishing", "cleanup", "again"} =>
          work[c] \notin {"context", "send", "read", "acquire"}
    BY <1>1 DEF Flow
  <1>7. CASE Cleaned(c)
    BY <1>1, <1>6, <1>7, EndingFlow DEF Cleaned, IngressTypeOK
  <1>8. CASE CleanupRaises(c)
    BY <1>1, <1>8, CleanupFailsFlow DEF CleanupRaises, CleanupFails, IngressTypeOK
  <1>9. CASE OwnerCancelled(c)
    <2>1. /\ doomed' \in [Requests -> BOOLEAN]
          /\ UNCHANGED <<life, borrowed, gone, active>>
      BY <1>1, <1>9 DEF OwnerCancelled, IngressTypeOK
    <2>2. CASE /\ owner[c] \in {"connecting", "reading"}
               /\ owner' = [owner EXCEPT ![c] = "leaving"]
               /\ CancelWork(c)
               /\ UNCHANGED <<lease, response>>
      BY <1>1, <2>1, <2>2, LeavingFlow DEF IngressTypeOK
    <2>3. CASE owner[c] = "leaving" /\ Raises(c)
      BY <1>1, <2>1, <2>3, RaisesFlow DEF IngressTypeOK
    <2>4. CASE /\ owner[c] = "streaming"
               /\ owner' = [owner EXCEPT ![c] = "cleanup"]
               /\ UNCHANGED <<vars, work, lease, response>>
      <3>1. phase' = phase /\ lane' = lane /\ OthersWait(c)
        BY <2>4, StillMoves
      <3>2. Flow(c)'
        BY <1>1, <2>4, <3>1 DEF Flow, IngressTypeOK
      <3>3. IngressTypeOK'
        BY <1>1, <2>1, <2>4 DEF IngressTypeOK, Owners
      <3>4. QED
        BY <1>1, <2>4, <3>1, <3>2, <3>3, OneRequest DEF IngressTypeOK
    <2>5. CASE CleanupFails(c)
      BY <1>1, <2>1, <2>5, CleanupFailsFlow DEF CleanupFails, IngressTypeOK
    <2>6. CASE owner[c] \in {"cleanup", "again"} /\ CleanedUp(c) /\ Ends(c)
      BY <1>1, <1>6, <2>1, <2>6, EndingFlow DEF IngressTypeOK
    <2>7. QED
      BY <1>9, <2>2, <2>3, <2>4, <2>5, <2>6 DEF OwnerCancelled
  <1>10. QED
    BY <1>2, <1>3, <1>4, <1>5, <1>7, <1>8, <1>9 DEF OwnerStep

\* Steps that leave every request where it is.
LEMMA QuietFlow ==
  ASSUME IngressInv, UNCHANGED <<owner, work, lease, response>>,
         \A d \in Requests :
           /\ lane'[d] = lane[d]
           /\ phase'[d] = phase[d] \/ (phase[d] = "queued" /\ phase'[d] \in {"granted", "refused"})
  PROVE  LeaseFlow'
  <1> SUFFICES ASSUME NEW d \in Requests PROVE Flow(d)'
    BY DEF LeaseFlow
  <1>1. QED
    BY UndisturbedFlow DEF Undisturbed, IngressInv, LeaseFlow

LEMMA IngressInit_Inv == IngressInit => IngressInv
  <1> SUFFICES ASSUME IngressInit PROVE IngressInv
    OBVIOUS
  <1>1. IInv
    BY InitInvariant DEF IngressInit
  <1>2. IngressTypeOK
    BY DEF IngressInit, IngressTypeOK, Owners, Works
  <1>3. \A c \in Requests : Flow(c)
    BY IngressAssumption DEF IngressInit, Init, Flow
  <1>4. QED
    BY <1>1, <1>2, <1>3 DEF IngressInv, LeaseFlow

LEMMA IngressStep == IngressInv /\ [IngressNext]_allVars => IngressInv'
  <1> SUFFICES ASSUME IngressInv, [IngressNext]_allVars PROVE IngressInv'
    OBVIOUS
  <1>1. IInv' /\ IInv /\ IngressTypeOK
    BY IngressUsesAdmission, StepInvariant DEF IngressInv
  <1>2. CASE UNCHANGED allVars
    BY <1>1, <1>2, QuietFlow DEF allVars, vars, ingress, IngressInv, IngressTypeOK
  <1>3. CASE Start \/ CloseWaited \/ CloseDone
    <2>1. IngressTypeOK'
      BY <1>1, <1>3 DEF Start, CloseWaited, CloseDone, IngressTypeOK, Registered
    <2>2. LeaseFlow'
      BY <1>3, QuietFlow DEF Start, CloseWaited, CloseDone, vars
    <2>3. QED
      BY <1>1, <2>1, <2>2 DEF IngressInv
  <1>4. CASE CloseIngress \/ AdmissionCloses
    <2>1. UNCHANGED vars \/ Close
      BY <1>4 DEF CloseIngress, AdmissionCloses
    <2>2. \A d \in Requests :
            /\ lane'[d] = lane[d]
            /\ phase'[d] = phase[d] \/ (phase[d] = "queued" /\ phase'[d] = "refused")
      BY <2>1, IngressAssumption DEF vars, Close
    <2>3. LeaseFlow'
      BY <1>4, <2>2, QuietFlow DEF CloseIngress, AdmissionCloses, ingress
    <2>4. IngressTypeOK'
      <3>1. CASE CloseIngress
        <4>1. active' \subseteq Requests /\ doomed' \in [Requests -> BOOLEAN]
          BY <3>1 DEF CloseIngress
        <4>2. QED
          BY <1>1, <3>1, <4>1 DEF CloseIngress, IngressTypeOK
      <3>2. CASE AdmissionCloses
        BY <1>1, <3>2 DEF AdmissionCloses, ingress, IngressTypeOK
      <3>3. QED
        BY <1>4, <3>1, <3>2
    <2>5. QED
      BY <1>1, <2>3, <2>4 DEF IngressInv
  <1>5. CASE Others
    <2>1. PICK c \in Callers \ Requests :
            Acquire(c, "conversation") \/ Cancel(c) \/ Resume(c)
              \/ GiveBack(c) \/ Leave(c) \/ Release(c)
      BY <1>5 DEF Others
    <2>2. OthersWait(c)
      BY <1>1, <2>1, AcquireMoves, CancelMoves, ResumeMoves, LeavingMoves DEF LANES
    <2>3. LeaseFlow'
      BY <1>5, <2>2, IngressAssumption, QuietFlow DEF Others, ingress, OthersWait
    <2>4. IngressTypeOK'
      BY <1>1, <1>5 DEF Others, ingress, IngressTypeOK
    <2>5. QED
      BY <1>1, <2>3, <2>4 DEF IngressInv
  <1>6. ASSUME NEW c \in Requests, WorkStep(c) \/ OwnerStep(c)
        PROVE  IngressInv'
    BY <1>1, <1>6, WorkStepFlow, OwnerStepFlow DEF IngressInv
  <1>7. QED
    BY <1>2, <1>3, <1>4, <1>5, <1>6 DEF IngressNext

LEMMA IngressInvariance == IngressSpec => []IngressInv
  BY IngressInit_Inv, IngressStep, PTL DEF IngressSpec

-----------------------------------------------------------------------------
\* The ingress, whatever is cancelled and however often, is a user of the
\* admission like any other: what holds of ModelAdmission holds under it.
THEOREM IngressImplementsAdmission == IngressSpec => Spec
  <1>1. IngressInit => Init
    BY DEF IngressInit
  <1>2. QED
    BY <1>1, IngressUsesAdmission, PTL DEF IngressSpec, Spec

\* The "lease" variable of a handler says exactly whether its request holds a
\* slot, so that its cleanup neither leaks one nor returns somebody else's.
THEOREM LeasesAreKnown == IngressSpec => []LeaseIsKnown
  <1>1. IngressInv => LeaseIsKnown
    BY DEF IngressInv, LeaseFlow, Flow, LeaseIsKnown, IngressTypeOK
  <1>2. QED
    BY <1>1, IngressInvariance, PTL

\* A handler that is over leaves no lease and no live future behind.
THEOREM OverRequestsOwnNothing == IngressSpec => []OverOwnsNothing
  <1>1. IngressInv => OverOwnsNothing
    <2> SUFFICES ASSUME IngressInv, NEW c \in Requests, owner[c] = "none"
                 PROVE  /\ phase[c] \in {"idle", "cancelled", "revoked", "refused"}
                        /\ phase[c] # "idle" => work[c] = "acquire"
      BY DEF OverOwnsNothing
    <2>1. Flow(c) /\ phase[c] \in Phases
      BY IngressAssumption, InvariantParts DEF IngressInv, LeaseFlow
    <2>2. QED
      BY <2>1 DEF Flow, Phases
  <1>2. QED
    BY <1>1, IngressInvariance, PTL

=============================================================================
