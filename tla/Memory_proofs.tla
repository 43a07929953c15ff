---------------------------- MODULE Memory_proofs ---------------------------
(***************************************************************************)
(* Theorems about Conversation, for every set of sessions, turns and       *)
(* findings, and about the memory that MC_Host composes with the rest.     *)
(***************************************************************************)
EXTENDS Host_proofs

-----------------------------------------------------------------------------
Memory == [asked : Writers \cup {"none"}, said : Writers]
InTurn == {"retrieving", "written"} \cup Thinking \cup Writing
Reflecting == Thinking \cup {"storing", "askingHalf", "replyingHalf"}
Past == {"savingTrace", "summarizing", "counting", "written", "ended"}
WithPen == {"opening", "asking", "replying", "lost"}
Queuers == Turns \cup {"reset"}
Distinct(s) == \A i, j \in DOMAIN s : s[i] = s[j] => i = j

Asked(t) == turn[t].stage # "unasked"
Remembered(t) == \E i \in DOMAIN folder[Home(t)].memories : folder[Home(t)].memories[i].said = t
Recorded(t) == t \in folder[Home(t)].traces /\ t \in Range(folder[Home(t)].summaries)

TurnsShape ==
  /\ turn = [t \in Turns |-> [stage |-> turn[t].stage, home |-> turn[t].home, request |-> turn[t].request,
                              kind |-> turn[t].kind, knew |-> turn[t].knew, draft |-> turn[t].draft,
                              remember |-> turn[t].remember]]
  /\ \A t \in Turns : turn[t].stage \in Stages /\ turn[t].knew \in Seq(Memory) /\ (Asked(t) => Home(t) \in Sessions)

FolderOk(d) ==
  /\ d = [there |-> d.there, info |-> d.info, count |-> d.count, memories |-> d.memories, half |-> d.half,
          traces |-> d.traces, summaries |-> d.summaries]
  /\ d.count \in Nat /\ d.memories \in Seq(Memory) /\ d.half \in Writers \cup {"none"} /\ d.summaries \in Seq(Turns)

FoldersShape == folder = [s \in Sessions |-> folder[s]] /\ \A s \in Sessions : FolderOk(folder[s])

RestShape ==
  /\ line \in [Sessions -> Seq(Queuers)]
  /\ find \in [Finds -> {"ready", "ended"} \cup WithPen]
  /\ reset = [step |-> reset.step, home |-> reset.home] /\ reset.step \in {"none", "waiting", "removed"}
  /\ (reset.step # "none" => reset.home \in Sessions) /\ (reset.step = "none" => reset = NoReset)
  /\ dropped \subseteq Sessions /\ told \subseteq Turns

ConvShape == TurnsShape /\ FoldersShape /\ RestShape

\* A session is had by the first in its line, in which each is once.
LinesInv ==
  /\ \A s \in Sessions : Distinct(line[s])
  /\ \A s \in Sessions : \A w \in Range(line[s]) :
       IF w \in Turns THEN Home(w) = s /\ turn[w].stage \in {"waiting"} \cup InTurn ELSE reset.step # "none" /\ reset.home = s
  /\ \A t \in Turns : turn[t].stage \in InTurn => Holds(Home(t), t) /\ folder[Home(t)].info
  /\ reset.step = "removed" => Holds(reset.home, "reset")

\* One identity is in use, and after a reset another one.
Unmade(s) == folder[s] = Nothing /\ line[s] = <<>> /\ \A t \in Turns : Asked(t) => Home(t) # s
LivesInv ==
  /\ \A s \in Sessions : folder[s].info \/ s \in dropped \/ Unmade(s)
  /\ \A s, x \in Sessions : folder[s].info /\ folder[x].info => s = x
  /\ \A s, x \in dropped : s = x
  /\ \A s \in dropped : ~folder[s].info
  /\ dropped = {} => \E s \in Sessions : folder[s].info
  /\ reset.step = "waiting" => dropped = {} /\ folder[reset.home].info
  /\ reset.step = "removed" => reset.home \in dropped /\ \A s \in Sessions : ~folder[s].info

(* What a turn has: the pen while it writes its pair, the memories of its  *)
(* session until it is remembered itself, and on disk what it has written. *)
TurnSound(t) ==
  /\ turn[t].stage \in {"askingHalf", "replyingHalf"} => pen = t
  /\ turn[t].stage = "replyingHalf" => folder[Home(t)].half = t
  /\ turn[t].stage \in Reflecting => TurnsOf(turn[t].knew) = TurnsOf(folder[Home(t)].memories)
  /\ turn[t].stage \in {"savingTrace", "summarizing", "counting", "written"} /\ turn[t].remember => Remembered(t)
  /\ turn[t].stage = "counting" => turn[t].remember
  /\ turn[t].stage = "summarizing" => t \in folder[Home(t)].traces
  /\ turn[t].stage \in {"counting", "written"} => Recorded(t)
  /\ t \in told => turn[t].stage = "ended" /\ (Home(t) \in dropped \/ (Remembered(t) /\ Recorded(t)))
  /\ turn[t].kind # "openai" /\ turn[t].remember => turn[t].draft = "prose"
  /\ ~Asked(t) => ~turn[t].remember

FindSound(f) ==
  /\ find[f] \in WithPen => pen = f
  /\ find[f] = "replying" => folder[FindHome].half = f

\* What a session has: whole pairs, of turns that are over, one after the other, and their count.
PairsIn(s) == \A i \in DOMAIN folder[s].memories : folder[s].memories[i].asked = folder[s].memories[i].said
PastIn(s) == \A i \in DOMAIN folder[s].memories :
  folder[s].memories[i].said \in Turns => turn[folder[s].memories[i].said].stage \in Past
SerialIn(s) == LET those == TurnsOf(folder[s].memories) IN
  \A i \in DOMAIN those : TurnsOf(turn[those[i].said].knew) = SubSeq(those, 1, i - 1)
Credited(s) == {t \in Turns : Home(t) = s /\ (t \in told \/ (turn[t].stage = "written" /\ turn[t].remember))}
CountIn(s) == IsFiniteSet(Credited(s)) /\ (s \notin dropped => folder[s].count >= Cardinality(Credited(s)))
SessionSound(s) == PairsIn(s) /\ PastIn(s) /\ SerialIn(s) /\ CountIn(s)

ConvInv ==
  /\ ConvShape /\ LinesInv /\ LivesInv
  /\ (\A t \in Turns : TurnSound(t)) /\ (\A f \in Finds : FindSound(f)) /\ (\A s \in Sessions : SessionSound(s))
-----------------------------------------------------------------------------
\* Lines, in which each is once.
LEMMA LineAppend ==
  ASSUME NEW X, NEW s \in Seq(X), NEW w \in X, Distinct(s), w \notin Range(s)
  PROVE  /\ Append(s, w) \in Seq(X) /\ Distinct(Append(s, w)) /\ Range(Append(s, w)) = Range(s) \cup {w}
         /\ Append(s, w) # <<>> /\ (s # <<>> => Head(Append(s, w)) = Head(s))
  <1>1. Range(Append(s, w)) = Range(s) \cup {w}
    BY RangeAppend
  <1>2. \A i \in DOMAIN s : s[i] # w
    BY DEF Range
  <1>3. Distinct(Append(s, w))
    <2>1. /\ Len(s) \in Nat /\ DOMAIN s = 1..Len(s) /\ DOMAIN Append(s, w) = 1..(Len(s) + 1)
          /\ Append(s, w)[Len(s) + 1] = w /\ \A i \in 1..Len(s) : Append(s, w)[i] = s[i]
      OBVIOUS
    <2>2. \A i, j \in 1..Len(s) : s[i] = s[j] => i = j
      BY <2>1 DEF Distinct
    <2>3. \A i, j \in 1..(Len(s) + 1) : Append(s, w)[i] = Append(s, w)[j] => i = j
      <3> TAKE i, j \in 1..(Len(s) + 1)
      <3>1. CASE i \in 1..Len(s) /\ j \in 1..Len(s)
        BY <3>1, <2>1, <2>2
      <3>2. CASE i = Len(s) + 1 /\ j \in 1..Len(s)
        BY <3>2, <2>1, <1>2
      <3>3. CASE i \in 1..Len(s) /\ j = Len(s) + 1
        BY <3>3, <2>1, <1>2
      <3>4. QED
        BY <3>1, <3>2, <3>3, <2>1
    <2>4. QED
      BY <2>1, <2>3 DEF Distinct
  <1>4. QED
    BY <1>1, <1>3

LEMMA LineTail ==
  ASSUME NEW X, NEW s \in Seq(X), Distinct(s), s # <<>>
  PROVE  Tail(s) \in Seq(X) /\ Distinct(Tail(s)) /\ Range(Tail(s)) = Range(s) \ {Head(s)} /\ Head(s) \in Range(s)
  <1>1. PICK n \in Nat : Len(s) = n + 1 /\ DOMAIN s = 1..(n + 1) /\ Len(Tail(s)) = n /\ DOMAIN Tail(s) = 1..n
    <2>1. Len(s) \in Nat /\ Len(s) # 0
      OBVIOUS
    <2>2. PICK n \in Nat : n = Len(s) - 1
      BY <2>1
    <2>3. Len(s) = n + 1 /\ Len(Tail(s)) = n
      BY <2>1, <2>2
    <2>4. DOMAIN s = 1..(n + 1) /\ DOMAIN Tail(s) = 1..n
      BY <2>3
    <2>5. QED
      BY <2>3, <2>4
  <1>2. Tail(s) \in Seq(X) /\ Head(s) = s[1] /\ \A i \in 1..n : Tail(s)[i] = s[i + 1]
    BY <1>1
  <1>3. \A i, j \in 1..(n + 1) : s[i] = s[j] => i = j
    BY <1>1 DEF Distinct
  <1>4. Distinct(Tail(s))
    <2>1. \A i, j \in 1..n : Tail(s)[i] = Tail(s)[j] => i = j
      <3> TAKE i, j \in 1..n
      <3>1. i + 1 \in 1..(n + 1) /\ j + 1 \in 1..(n + 1)
        BY <1>1
      <3>2. Tail(s)[i] = s[i + 1] /\ Tail(s)[j] = s[j + 1]
        BY <1>2
      <3>3. s[i + 1] = s[j + 1] => i + 1 = j + 1
        BY <3>1, <1>3
      <3>4. i \in Nat /\ j \in Nat /\ (i + 1 = j + 1 => i = j)
        OBVIOUS
      <3>5. QED
        BY <3>2, <3>3, <3>4, Zenon
    <2>2. QED
      BY <2>1, <1>1 DEF Distinct
  <1>5. Range(Tail(s)) = Range(s) \ {Head(s)}
    <2>1. ASSUME NEW x \in Range(Tail(s)) PROVE x \in Range(s) \ {Head(s)}
      <3>1. PICK i \in 1..n : x = Tail(s)[i]
        BY <1>1 DEF Range
      <3>2. i + 1 \in 1..(n + 1) /\ 1 \in 1..(n + 1) /\ i + 1 # 1 /\ x = s[i + 1]
        BY <1>1, <1>2, <3>1
      <3>3. x # s[1]
        BY <3>2, <1>3
      <3>4. QED
        BY <3>2, <3>3, <1>1, <1>2 DEF Range
    <2>2. ASSUME NEW x \in Range(s) \ {Head(s)} PROVE x \in Range(Tail(s))
      <3>1. PICK i \in 1..(n + 1) : x = s[i]
        BY <1>1 DEF Range
      <3>2. i # 1
        BY <1>2, <3>1
      <3>3. i - 1 \in 1..n /\ (i - 1) + 1 = i
        BY <1>1, <3>2
      <3>4. Tail(s)[i - 1] = x
        BY <3>1, <3>3, <1>2
      <3>5. QED
        BY <3>3, <3>4, <1>1 DEF Range
    <2>3. QED
      BY <2>1, <2>2
  <1>6. Head(s) \in Range(s)
    <2>1. 1 \in DOMAIN s
      BY <1>1
    <2>2. QED
      BY <2>1, <1>2 DEF Range
  <1>7. QED
    BY <1>2, <1>4, <1>5, <1>6

LEMMA LineLeft ==
  ASSUME NEW X, NEW s \in Seq(X), NEW w, Distinct(s)
  PROVE  LET q == Among(s, Range(s) \ {w}) IN
           /\ q \in Seq(X) /\ Distinct(q) /\ Range(q) = Range(s) \ {w}
           /\ (s # <<>> /\ Head(s) # w => q # <<>> /\ Head(q) = Head(s))
  <1> DEFINE U == Range(s) \ {w}
  <1>1. Among(s, U) \in Seq(X) /\ Range(Among(s, U)) = Range(s) \cap U
    BY AmongSeq
  <1>2. Distinct(Among(s, U))
    <2> DEFINE T == {r \in Seq(X) : Distinct(r) /\ ~Distinct(Among(r, U))}
    <2>1. ASSUME T # {} PROVE FALSE
      <3>1. <<>> \notin T
        BY AmongEmpty DEF Distinct
      <3>2. PICK r \in Seq(X), x \in X : Append(r, x) \in T /\ r \notin T
        BY <2>1, <3>1, Shortest
      <3>3. Distinct(r) /\ x \notin Range(r)
        <4>1. /\ Len(r) \in Nat /\ DOMAIN r = 1..Len(r) /\ DOMAIN Append(r, x) = 1..(Len(r) + 1)
              /\ Append(r, x)[Len(r) + 1] = x /\ \A i \in 1..Len(r) : Append(r, x)[i] = r[i] /\ i # Len(r) + 1
          OBVIOUS
        <4>2. \A i, j \in 1..(Len(r) + 1) : Append(r, x)[i] = Append(r, x)[j] => i = j
          BY <3>2, <4>1 DEF Distinct
        <4>3. \A i \in 1..Len(r) : i \in 1..(Len(r) + 1)
          BY <4>1
        <4>4. Len(r) + 1 \in 1..(Len(r) + 1)
          BY <4>1
        <4>5. \A i, j \in 1..Len(r) : r[i] = r[j] => i = j
          BY <4>1, <4>2, <4>3
        <4>6. \A i \in 1..Len(r) : r[i] # x
          BY <4>1, <4>2, <4>3, <4>4
        <4>7. QED
          BY <4>1, <4>5, <4>6 DEF Distinct, Range
      <3>4. PICK a \in Seq(X) : a = Among(r, U) /\ Range(a) = Range(r) \cap U
        BY AmongSeq
      <3>5. Distinct(a) /\ x \notin Range(a)
        BY <3>2, <3>3, <3>4
      <3>6. Among(Append(r, x), U) = IF x \in U THEN Append(a, x) ELSE a
        BY <3>4, AmongAppend
      <3>7. Distinct(Append(a, x))
        BY <3>5, LineAppend
      <3>8. QED
        BY <3>2, <3>5, <3>6, <3>7
    <2>2. QED
      BY <2>1
  <1>3. ASSUME s # <<>>, Head(s) # w PROVE Among(s, U) # <<>> /\ Head(Among(s, U)) = Head(s)
    <2>1. Head(s) \in X /\ Tail(s) \in Seq(X) /\ s = <<Head(s)>> \o Tail(s) /\ Head(s) \in Range(s)
      <3>1. Head(s) \in X /\ Tail(s) \in Seq(X) /\ s = <<Head(s)>> \o Tail(s) /\ 1 \in DOMAIN s /\ s[1] = Head(s)
        BY <1>3
      <3>2. QED
        BY <3>1 DEF Range
    <2>2. PICK h \in Seq(X), r \in Seq(X) : h = <<Head(s)>> /\ r = Tail(s) /\ s = h \o r
      <3>1. <<Head(s)>> \in Seq(X)
        BY <2>1
      <3>2. QED
        BY <2>1, <3>1
    <2>3. Among(h, U) = h
      <3>1. Range(h) \subseteq U
        BY <1>3, <2>1, <2>2 DEF Range
      <3>2. QED
        BY <3>1, AmongAll
    <2>4. Among(h \o r, U) = Among(h, U) \o Among(r, U)
      <3> HIDE DEF U
      <3>1. QED
        BY AmongConcat
    <2>5. PICK b \in Seq(X) : b = Among(r, U)
      BY AmongSeq
    <2>6. Among(s, U) = <<Head(s)>> \o b
      BY <2>2, <2>3, <2>4, <2>5
    <2>7. <<Head(s)>> \o b # <<>> /\ Head(<<Head(s)>> \o b) = Head(s)
      <3>1. Len(<<Head(s)>> \o b) = 1 + Len(b) /\ Len(b) \in Nat /\ (<<Head(s)>> \o b)[1] = Head(s)
        BY <2>1
      <3>2. QED
        BY <3>1
    <2>8. QED
      BY <2>6, <2>7
  <1>4. QED
    BY <1>1, <1>2, <1>3
-----------------------------------------------------------------------------
\* The memories of turns, among those of finished research.
LEMMA TurnsOfIs ==
  ASSUME NEW m \in Seq(Memory)
  PROVE  /\ TurnsOf(m) = Among(m, {x \in Memory : x.said \in Turns})
         /\ TurnsOf(m) \in Seq(Memory) /\ Range(TurnsOf(m)) = {x \in Range(m) : x.said \in Turns}
  <1>1. Range(m) \subseteq Memory
    BY DEF Range
  <1>2. Range(m) \cap {x \in Range(m) : x.said \in Turns} = Range(m) \cap {x \in Memory : x.said \in Turns}
    BY <1>1
  <1>3. Among(m, {x \in Range(m) : x.said \in Turns}) = Among(m, {x \in Memory : x.said \in Turns})
    BY <1>2, AmongSame
  <1>4. /\ Among(m, {x \in Range(m) : x.said \in Turns}) \in Seq(Memory)
        /\ Range(Among(m, {x \in Range(m) : x.said \in Turns})) = Range(m) \cap {x \in Range(m) : x.said \in Turns}
    BY AmongSeq
  <1>5. QED
    BY <1>3, <1>4 DEF TurnsOf

LEMMA TurnsOfAppend ==
  ASSUME NEW m \in Seq(Memory), NEW x \in Memory
  PROVE  /\ Append(m, x) \in Seq(Memory)
         /\ x.said \in Turns => TurnsOf(Append(m, x)) = Append(TurnsOf(m), x)
         /\ x.said \notin Turns => TurnsOf(Append(m, x)) = TurnsOf(m)
  <1>1. PICK S : S = {y \in Memory : y.said \in Turns}
    OBVIOUS
  <1>2. Append(m, x) \in Seq(Memory)
    OBVIOUS
  <1>3. TurnsOf(Append(m, x)) = Among(Append(m, x), S) /\ TurnsOf(m) = Among(m, S)
    BY <1>1, <1>2, TurnsOfIs
  <1>4. Among(Append(m, x), S) = IF x \in S THEN Append(Among(m, S), x) ELSE Among(m, S)
    BY AmongAppend
  <1>5. QED
    BY <1>1, <1>2, <1>3, <1>4

LEMMA PairIs ==
  ASSUME NEW w \in Writers PROVE [asked |-> w, said |-> w] \in Memory
  BY DEF Memory

-----------------------------------------------------------------------------
\* What the operators on the turns and the folders do.
Keeps(t) ==
  /\ TurnsShape' /\ \A u \in Turns : u # t => turn'[u] = turn[u]
  /\ turn'[t].home = turn[t].home /\ turn'[t].kind = turn[t].kind

LEMMA GoesTo ==
  ASSUME TurnsShape, NEW t \in Turns, NEW stage \in Stages, Asked(t), Goes(t, stage)
  PROVE  /\ Keeps(t) /\ turn'[t].stage = stage /\ turn'[t].knew = turn[t].knew
         /\ turn'[t].draft = turn[t].draft /\ turn'[t].remember = turn[t].remember
  <1>1. turn' = [turn EXCEPT ![t].stage = stage]
    BY DEF Goes
  <1>2. turn'[t] = [stage |-> stage, home |-> turn[t].home, request |-> turn[t].request,
                    kind |-> turn[t].kind, knew |-> turn[t].knew, draft |-> turn[t].draft,
                    remember |-> turn[t].remember]
    BY <1>1 DEF TurnsShape
  <1>3. \A u \in Turns : u # t => turn'[u] = turn[u]
    BY <1>1 DEF TurnsShape
  <1>4. turn' = [u \in Turns |-> turn'[u]]
    BY <1>1 DEF TurnsShape
  <1>5. /\ turn'[t].stage = stage /\ turn'[t].home = turn[t].home /\ turn'[t].request = turn[t].request
        /\ turn'[t].kind = turn[t].kind /\ turn'[t].knew = turn[t].knew
        /\ turn'[t].draft = turn[t].draft /\ turn'[t].remember = turn[t].remember
    BY <1>2
  <1>6. \A u \in Turns : turn'[u] = [stage |-> turn'[u].stage, home |-> turn'[u].home, request |-> turn'[u].request,
              kind |-> turn'[u].kind, knew |-> turn'[u].knew, draft |-> turn'[u].draft,
              remember |-> turn'[u].remember]
    BY <1>2, <1>3, <1>5 DEF TurnsShape
  <1>7. \A u \in Turns : /\ turn'[u].stage \in Stages /\ turn'[u].knew \in Seq(Memory)
                         /\ (turn'[u].stage # "unasked" => turn'[u].home \in Sessions)
    BY <1>3, <1>5 DEF TurnsShape, Asked, Home
  <1>8. TurnsShape'
    BY <1>4, <1>6, <1>7 DEF TurnsShape, Asked, Home
  <1>9. QED
    BY <1>3, <1>5, <1>8 DEF Keeps

LEMMA SettlesTo ==
  ASSUME TurnsShape, NEW t \in Turns, Asked(t), NEW draft, NEW remember \in BOOLEAN, Settles(t, draft, remember)
  PROVE  /\ Keeps(t) /\ turn'[t].knew = turn[t].knew
         /\ turn'[t].draft = draft /\ (turn'[t].remember <=> (remember /\ draft # "none"))
         /\ turn'[t].stage = IF draft # "none" /\ remember THEN "storing" ELSE "savingTrace"
  <1>0. PICK r : r = (remember /\ draft # "none")
    OBVIOUS
  <1>00. PICK stage : stage = IF draft # "none" /\ remember THEN "storing" ELSE "savingTrace"
    OBVIOUS
  <1>1. turn' = [turn EXCEPT ![t] = [@ EXCEPT !.draft = draft, !.remember = r, !.stage = stage]]
    BY <1>0, <1>00 DEF Settles
  <1>2. turn'[t] = [stage |-> stage, home |-> turn[t].home, request |-> turn[t].request,
                    kind |-> turn[t].kind, knew |-> turn[t].knew, draft |-> draft, remember |-> r]
    <2>1. turn'[t] = [turn[t] EXCEPT !.draft = draft, !.remember = r, !.stage = stage]
      BY <1>1 DEF TurnsShape
    <2>2. turn[t] = [stage |-> turn[t].stage, home |-> turn[t].home, request |-> turn[t].request,
                     kind |-> turn[t].kind, knew |-> turn[t].knew, draft |-> turn[t].draft,
                     remember |-> turn[t].remember]
      BY DEF TurnsShape
    <2>3. QED
      BY <2>1, <2>2
  <1>3. \A u \in Turns : u # t => turn'[u] = turn[u]
    BY <1>1 DEF TurnsShape
  <1>4. turn' = [u \in Turns |-> turn'[u]]
    BY <1>1 DEF TurnsShape
  <1>5. /\ turn'[t].stage = stage /\ turn'[t].home = turn[t].home /\ turn'[t].request = turn[t].request
        /\ turn'[t].kind = turn[t].kind /\ turn'[t].knew = turn[t].knew
        /\ turn'[t].draft = draft /\ turn'[t].remember = r
    BY <1>2
  <1>6. \A u \in Turns : turn'[u] = [stage |-> turn'[u].stage, home |-> turn'[u].home, request |-> turn'[u].request,
              kind |-> turn'[u].kind, knew |-> turn'[u].knew, draft |-> turn'[u].draft,
              remember |-> turn'[u].remember]
    BY <1>2, <1>3, <1>5 DEF TurnsShape
  <1>7. stage \in Stages
    BY <1>00 DEF Stages, Writing
  <1>8. \A u \in Turns : /\ turn'[u].stage \in Stages /\ turn'[u].knew \in Seq(Memory)
                         /\ (turn'[u].stage # "unasked" => turn'[u].home \in Sessions)
    BY <1>3, <1>5, <1>7 DEF TurnsShape, Asked, Home
  <1>9. TurnsShape'
    BY <1>4, <1>6, <1>8 DEF TurnsShape, Asked, Home
  <1>10. QED
    BY <1>0, <1>00, <1>3, <1>5, <1>9 DEF Keeps
LEMMA FolderPut ==
  ASSUME FoldersShape, NEW s \in Sessions, NEW d, FolderOk(d), OnDisk(s, d)
  PROVE  FoldersShape' /\ folder'[s] = d /\ \A x \in Sessions : x # s => folder'[x] = folder[x]
  <1>1. folder' = [folder EXCEPT ![s] = d]
    BY DEF OnDisk
  <1>2. folder'[s] = d /\ (\A x \in Sessions : x # s => folder'[x] = folder[x]) /\ folder' = [x \in Sessions |-> folder'[x]]
    BY <1>1 DEF FoldersShape
  <1>3. \A x \in Sessions : FolderOk(folder'[x])
    BY <1>2 DEF FoldersShape
  <1>4. QED
    BY <1>2, <1>3 DEF FoldersShape

\* What may be put into a folder: something is added to it.
MadeOf(d, e) == LET f == folder[d] IN
  /\ FolderOk(e) /\ e.info = f.info /\ e.count >= f.count /\ f.traces \subseteq e.traces
  /\ Range(f.summaries) \subseteq Range(e.summaries)

LEMMA MadeThere ==
  ASSUME FoldersShape, NEW s \in Sessions
  PROVE  LET e == [folder[s] EXCEPT !.there = TRUE] IN
           MadeOf(s, e) /\ e.count = folder[s].count /\ e.memories = folder[s].memories /\ e.half = folder[s].half
  <1>1. PICK f : f = folder[s] /\ FolderOk(f)
    BY DEF FoldersShape
  <1>2. PICK e : e = [f EXCEPT !.there = TRUE]
    OBVIOUS
  <1>3. /\ e = [there |-> TRUE, info |-> f.info, count |-> f.count, memories |-> f.memories, half |-> f.half,
                traces |-> f.traces, summaries |-> f.summaries]
    BY <1>1, <1>2 DEF FolderOk
  <1>4. /\ e.info = f.info /\ e.count = f.count /\ e.memories = f.memories /\ e.half = f.half
        /\ e.traces = f.traces /\ e.summaries = f.summaries /\ e.there = TRUE
    BY <1>3
  <1>5. FolderOk(e)
    BY <1>1, <1>3, <1>4 DEF FolderOk
  <1>6. f.count >= f.count
    BY <1>1 DEF FolderOk
  <1>7. QED
    BY <1>1, <1>2, <1>4, <1>5, <1>6 DEF MadeOf

LEMMA MadeHalved ==
  ASSUME FoldersShape, NEW s \in Sessions, NEW w \in Writers
  PROVE  LET e == Halved(s, w) IN
           MadeOf(s, e) /\ e.count = folder[s].count /\ e.memories = folder[s].memories /\ e.half = w
  <1>1. PICK f : f = folder[s] /\ FolderOk(f)
    BY DEF FoldersShape
  <1>2. PICK e : e = [f EXCEPT !.half = w]
    OBVIOUS
  <1>3. /\ e = [there |-> f.there, info |-> f.info, count |-> f.count, memories |-> f.memories, half |-> w,
                traces |-> f.traces, summaries |-> f.summaries]
    BY <1>1, <1>2 DEF FolderOk
  <1>4. /\ e.info = f.info /\ e.count = f.count /\ e.memories = f.memories /\ e.half = w
        /\ e.traces = f.traces /\ e.summaries = f.summaries /\ e.there = f.there
    BY <1>3
  <1>5. FolderOk(e)
    BY <1>1, <1>3, <1>4 DEF FolderOk
  <1>6. f.count >= f.count
    BY <1>1 DEF FolderOk
  <1>7. QED
    BY <1>1, <1>2, <1>4, <1>5, <1>6 DEF MadeOf, Halved

\* A pair is made of the half that is there.
LEMMA MadePaired ==
  ASSUME FoldersShape, NEW s \in Sessions, NEW w \in Writers
  PROVE  LET e == Paired(s, w) IN
           MadeOf(s, e) /\ e.count = folder[s].count /\ e.half = "none"
             /\ e.memories = Append(folder[s].memories, [asked |-> folder[s].half, said |-> w])
  <1>1. PICK f : f = folder[s] /\ FolderOk(f)
    BY DEF FoldersShape
  <1>2. PICK m : m = Append(f.memories, [asked |-> f.half, said |-> w])
    OBVIOUS
  <1>0. m \in Seq(Memory)
    <2>1. [asked |-> f.half, said |-> w] \in Memory
      BY <1>1 DEF FolderOk, Memory
    <2>2. f.memories \in Seq(Memory)
      BY <1>1 DEF FolderOk
    <2>3. QED
      BY <1>2, <2>1, <2>2
  <1>22. PICK e : e = [f EXCEPT !.half = "none", !.memories = m]
    OBVIOUS
  <1>3. /\ e = [there |-> f.there, info |-> f.info, count |-> f.count, memories |-> m, half |-> "none",
                traces |-> f.traces, summaries |-> f.summaries]
    BY <1>1, <1>22 DEF FolderOk
  <1>4. /\ e.info = f.info /\ e.count = f.count /\ e.memories = m /\ e.half = "none"
        /\ e.traces = f.traces /\ e.summaries = f.summaries /\ e.there = f.there
    BY <1>3
  <1>5. FolderOk(e)
    BY <1>0, <1>1, <1>3, <1>4 DEF FolderOk
  <1>6. f.count >= f.count
    BY <1>1 DEF FolderOk
  <1>7. e = Paired(s, w)
    BY <1>1, <1>2, <1>22 DEF Paired
  <1>8. QED
    BY <1>1, <1>2, <1>4, <1>5, <1>6, <1>7 DEF MadeOf

LEMMA MadeTrace ==
  ASSUME FoldersShape, NEW s \in Sessions, NEW t
  PROVE  LET e == [folder[s] EXCEPT !.there = TRUE, !.traces = @ \cup {t}] IN
           /\ MadeOf(s, e) /\ e.count = folder[s].count /\ e.memories = folder[s].memories
           /\ e.half = folder[s].half /\ t \in e.traces
  <1>1. PICK f : f = folder[s] /\ FolderOk(f)
    BY DEF FoldersShape
  <1>2. PICK e : e = [f EXCEPT !.there = TRUE, !.traces = @ \cup {t}]
    OBVIOUS
  <1>3. /\ e = [there |-> TRUE, info |-> f.info, count |-> f.count, memories |-> f.memories, half |-> f.half,
                traces |-> f.traces \cup {t}, summaries |-> f.summaries]
    BY <1>1, <1>2 DEF FolderOk
  <1>4. /\ e.info = f.info /\ e.count = f.count /\ e.memories = f.memories /\ e.half = f.half
        /\ e.traces = f.traces \cup {t} /\ e.summaries = f.summaries /\ e.there = TRUE
    BY <1>3
  <1>5. FolderOk(e)
    BY <1>1, <1>3, <1>4 DEF FolderOk
  <1>6. f.count >= f.count
    BY <1>1 DEF FolderOk
  <1>7. QED
    BY <1>1, <1>2, <1>4, <1>5, <1>6 DEF MadeOf

LEMMA MadeSummary ==
  ASSUME FoldersShape, NEW s \in Sessions, NEW t \in Turns
  PROVE  LET e == [folder[s] EXCEPT !.summaries = Append(@, t)] IN
           /\ MadeOf(s, e) /\ e.count = folder[s].count /\ e.memories = folder[s].memories
           /\ e.half = folder[s].half /\ t \in Range(e.summaries)
  <1>1. PICK f : f = folder[s] /\ FolderOk(f)
    BY DEF FoldersShape
  <1>2. PICK q : q = Append(f.summaries, t)
    OBVIOUS
  <1>0. q \in Seq(Turns) /\ Range(q) = Range(f.summaries) \cup {t}
    <2>1. f.summaries \in Seq(Turns)
      BY <1>1 DEF FolderOk
    <2>2. Range(Append(f.summaries, t)) = Range(f.summaries) \cup {t}
      BY <2>1, RangeAppend
    <2>3. QED
      BY <1>2, <2>1, <2>2
  <1>22. PICK e : e = [f EXCEPT !.summaries = q]
    OBVIOUS
  <1>3. /\ e = [there |-> f.there, info |-> f.info, count |-> f.count, memories |-> f.memories, half |-> f.half,
                traces |-> f.traces, summaries |-> q]
    BY <1>1, <1>22 DEF FolderOk
  <1>4. /\ e.info = f.info /\ e.count = f.count /\ e.memories = f.memories /\ e.half = f.half
        /\ e.traces = f.traces /\ e.summaries = q /\ e.there = f.there
    BY <1>3
  <1>5. FolderOk(e)
    BY <1>0, <1>1, <1>3, <1>4 DEF FolderOk
  <1>6. f.count >= f.count
    BY <1>1 DEF FolderOk
  <1>7. e = [folder[s] EXCEPT !.summaries = Append(@, t)]
    BY <1>1, <1>2, <1>22
  <1>8. QED
    BY <1>0, <1>1, <1>4, <1>5, <1>6, <1>7 DEF MadeOf

LEMMA MadeCount ==
  ASSUME FoldersShape, NEW s \in Sessions
  PROVE  LET e == [folder[s] EXCEPT !.count = @ + 1] IN
           /\ MadeOf(s, e) /\ e.count = folder[s].count + 1 /\ e.memories = folder[s].memories
           /\ e.half = folder[s].half
  <1>1. PICK f : f = folder[s] /\ FolderOk(f)
    BY DEF FoldersShape
  <1>2. PICK n \in Nat : n = f.count + 1 /\ n >= f.count
    BY <1>1 DEF FolderOk
  <1>22. PICK e : e = [f EXCEPT !.count = n]
    OBVIOUS
  <1>3. /\ e = [there |-> f.there, info |-> f.info, count |-> n, memories |-> f.memories, half |-> f.half,
                traces |-> f.traces, summaries |-> f.summaries]
    BY <1>1, <1>22 DEF FolderOk
  <1>4. /\ e.info = f.info /\ e.count = n /\ e.memories = f.memories /\ e.half = f.half
        /\ e.traces = f.traces /\ e.summaries = f.summaries /\ e.there = f.there
    BY <1>3
  <1>5. FolderOk(e)
    BY <1>1, <1>3, <1>4 DEF FolderOk
  <1>7. e = [folder[s] EXCEPT !.count = @ + 1]
    BY <1>1, <1>2, <1>22
  <1>8. QED
    BY <1>1, <1>2, <1>4, <1>5, <1>7 DEF MadeOf
-----------------------------------------------------------------------------
\* Where finished research goes.
FindHas == /\ FindHome \in Sessions
           /\ dropped = {} => folder[FindHome].info
           /\ dropped # {} => FindHome \in dropped

LEMMA FindIs == LivesInv /\ dropped \subseteq Sessions => FindHas
  <1> SUFFICES ASSUME LivesInv, dropped \subseteq Sessions PROVE FindHas
    OBVIOUS
  <1>1. CASE dropped = {}
    <2>1. \E s \in Sessions : s \in dropped \/ folder[s].info
      BY <1>1 DEF LivesInv
    <2>2. TheSession \in Sessions /\ (TheSession \in dropped \/ folder[TheSession].info)
      BY <2>1 DEF TheSession
    <2>3. FindHome = TheSession
      BY <1>1 DEF FindHome
    <2>4. QED
      BY <1>1, <2>2, <2>3 DEF FindHas
  <1>2. CASE dropped # {}
    <2>1. FindHome \in dropped
      BY <1>2 DEF FindHome
    <2>2. QED
      BY <1>2, <2>1 DEF FindHas
  <1>3. QED
    BY <1>1, <1>2

LEMMA FindStays ==
  ASSUME LivesInv, LivesInv', dropped \subseteq Sessions, UNCHANGED dropped,
         \A s \in Sessions : folder'[s].info = folder[s].info
  PROVE  FindHome' = FindHome /\ FindHas /\ FindHas'
  <1>1. FindHas
    BY FindIs
  <1>2. (LivesInv /\ dropped \subseteq Sessions => FindHas)'
    BY FindIs, PTL
  <1>3. FindHas'
    BY <1>2
  <1>4. CASE dropped = {}
    <2>1. folder[FindHome].info /\ FindHome \in Sessions
      BY <1>1, <1>4 DEF FindHas
    <2>2. folder'[FindHome'].info /\ FindHome' \in Sessions
      BY <1>3, <1>4 DEF FindHas
    <2>3. folder[FindHome'].info
      BY <2>2
    <2>4. QED
      BY <1>1, <1>3, <2>1, <2>2, <2>3 DEF LivesInv
  <1>5. CASE dropped # {}
    <2>1. FindHome \in dropped /\ FindHome' \in dropped
      BY <1>1, <1>3, <1>5 DEF FindHas
    <2>2. QED
      BY <1>1, <1>3, <2>1 DEF LivesInv
  <1>6. QED
    BY <1>4, <1>5

-----------------------------------------------------------------------------
\* What any step of a turn that was asked does to what it shares with others.
Remembers(t) == LET h == turn[t].home IN
  /\ turn[t].stage = "replyingHalf" /\ turn'[t].stage \in Past /\ turn'[t].knew = turn[t].knew
  /\ folder'[h].memories = Append(folder[h].memories, [asked |-> t, said |-> t])

Effect(t) == LET h == turn[t].home IN
  /\ ConvShape' /\ turn[t].stage # "unasked" /\ turn'[t].stage # "unasked"
  /\ \A u \in Turns : u # t => turn'[u] = turn[u]
  /\ turn'[t].home = h /\ turn'[t].kind = turn[t].kind
  /\ (turn[t].stage \in Past => turn'[t].stage \in Past /\ turn'[t].knew = turn[t].knew)
  /\ UNCHANGED <<reset, dropped, find>>
  /\ (\A s \in Sessions : s # h => folder'[s] = folder[s]) /\ MadeOf(h, folder'[h])
  /\ pen' = pen \/ (pen = "none" /\ pen' = t) \/ (pen = t /\ pen' = "none")
  /\ folder'[h].half = folder[h].half \/ pen = t
  /\ folder'[h].memories = folder[h].memories \/ Remembers(t)
  /\ told \subseteq told' /\ told' \subseteq told \cup {t}

\* A turn that is inside has the session to itself.
LEMMA OneInside ==
  ASSUME LinesInv, NEW t \in Turns, NEW u \in Turns, Home(t) = Home(u), turn[t].stage \in InTurn, turn[u].stage \in InTurn
  PROVE  t = u
  BY DEF LinesInv, Holds

LEMMA RemembersInside ==
  ASSUME NEW t \in Turns, Remembers(t) PROVE turn[t].stage \in InTurn
  BY DEF Remembers, InTurn, Writing

LEMMA OthersSound ==
  ASSUME ConvInv, NEW t \in Turns, Effect(t), NEW u \in Turns, u # t
  PROVE  TurnSound(u)'
  <1>0. ConvShape /\ LinesInv /\ TurnSound(u) /\ (Asked(t) => Home(t) \in Sessions) /\ (Asked(u) => Home(u) \in Sessions)
    BY DEF ConvInv, ConvShape, TurnsShape
  <1>1. turn'[u] = turn[u] /\ dropped' = dropped /\ u \notin told' \ told
    BY DEF Effect
  <1>2. u # "none" /\ t # "none"
    BY ConversationAssumption
  <1>3. pen = u => pen' = u
    BY <1>2 DEF Effect
  <1>4. ASSUME pen = u, Asked(u) PROVE folder'[Home(u)].half = folder[Home(u)].half
    <2>1. CASE Home(u) = Home(t)
      BY <1>4, <2>1 DEF Effect, Home
    <2>2. CASE Home(u) # Home(t) /\ Asked(u)
      BY <2>2, <1>0 DEF Effect, Home
    <2>3. QED
      BY <1>4, <2>1, <2>2
  <1>5. ASSUME turn[u].stage \in InTurn PROVE folder'[Home(u)].memories = folder[Home(u)].memories
    <2>1. CASE Home(u) = Home(t)
      <3>1. ~Remembers(t)
        BY <1>0, <1>5, <2>1, OneInside, RemembersInside
      <3>2. QED
        BY <2>1, <3>1 DEF Effect, Home
    <2>2. CASE Home(u) # Home(t)
      <3>1. Home(u) \in Sessions
        BY <1>0, <1>5 DEF Asked, InTurn, Thinking, Writing
      <3>2. QED
        BY <2>2, <3>1 DEF Effect, Home
    <2>3. QED
      BY <2>1, <2>2
  <1>6. ASSUME Asked(u), Remembered(u) PROVE Remembered(u)'
    <2>1. PICK h \in Sessions : h = Home(u) /\ h = Home(u)' /\ folder[h].memories \in Seq(Memory)
      BY <1>0, <1>1, <1>6 DEF Home, ConvShape, FoldersShape, FolderOk
    <2>2. PICK i \in DOMAIN folder[h].memories : folder[h].memories[i].said = u
      BY <1>6, <2>1 DEF Remembered
    <2>3. folder'[h].memories = folder[h].memories \/ \E x : folder'[h].memories = Append(folder[h].memories, x)
      BY <2>1 DEF Effect, Remembers
    <2>4. i \in DOMAIN folder'[h].memories /\ folder'[h].memories[i] = folder[h].memories[i]
      BY <2>1, <2>2, <2>3
    <2>5. QED
      BY <2>1, <2>2, <2>4 DEF Remembered
  <1>7. ASSUME Asked(u), Recorded(u) PROVE Recorded(u)'
    <2>1. PICK h \in Sessions : h = Home(u) /\ h = Home(u)'
      BY <1>0, <1>1, <1>7 DEF Home
    <2>2. folder[h].traces \subseteq folder'[h].traces /\ Range(folder[h].summaries) \subseteq Range(folder'[h].summaries)
      BY <2>1 DEF Effect, MadeOf
    <2>3. u \in folder[h].traces /\ u \in Range(folder[h].summaries)
      BY <1>7, <2>1 DEF Recorded
    <2>4. QED
      BY <2>1, <2>2, <2>3 DEF Recorded
  <1>8. Home(u)' = Home(u) /\ Asked(u)' = Asked(u)
    BY <1>1 DEF Home, Asked
  <1>9. /\ (turn[u].stage \in {"askingHalf", "replyingHalf"} => pen = u)'
        /\ (turn[u].stage = "replyingHalf" => folder[Home(u)].half = u)'
    <2>1. turn[u].stage \in {"askingHalf", "replyingHalf"} => pen' = u /\ Asked(u)
      BY <1>0, <1>3 DEF TurnSound, Asked
    <2>2. turn[u].stage = "replyingHalf" => folder'[Home(u)].half = u
      BY <1>0, <1>4, <2>1 DEF TurnSound
    <2>3. QED
      BY <1>1, <1>8, <2>1, <2>2
  <1>10. (turn[u].stage \in Reflecting => TurnsOf(turn[u].knew) = TurnsOf(folder[Home(u)].memories))'
    <2>1. turn[u].stage \in Reflecting => turn[u].stage \in InTurn
      BY DEF Reflecting, InTurn, Writing, Thinking
    <2>2. turn[u].stage \in Reflecting => TurnsOf(turn[u].knew) = TurnsOf(folder'[Home(u)].memories)
      BY <1>0, <1>5, <2>1 DEF TurnSound
    <2>3. QED
      BY <1>1, <1>8, <2>2
  <1>11. /\ (turn[u].stage \in {"savingTrace", "summarizing", "counting", "written"} /\ turn[u].remember => Remembered(u))'
         /\ (turn[u].stage \in {"counting", "written"} => Recorded(u))'
         /\ (turn[u].stage = "summarizing" => u \in folder[Home(u)].traces)'
    <2>1. turn[u].stage \in {"savingTrace", "summarizing", "counting", "written"} => Asked(u)
      BY DEF Asked
    <2>2. turn[u].stage = "summarizing" => u \in folder'[Home(u)].traces
      <3>1. turn[u].stage = "summarizing" => u \in folder[Home(u)].traces /\ Home(u) \in Sessions
        BY <1>0, <2>1 DEF TurnSound
      <3>2. QED
        BY <3>1 DEF Effect, MadeOf
    <2>3. QED
      BY <1>0, <1>1, <1>6, <1>7, <1>8, <2>1, <2>2 DEF TurnSound
  <1>12. (u \in told => turn[u].stage = "ended" /\ (Home(u) \in dropped \/ (Remembered(u) /\ Recorded(u))))'
    <2>1. u \in told' => turn[u].stage = "ended" /\ (Home(u) \in dropped \/ (Remembered(u) /\ Recorded(u))) /\ Asked(u)
      BY <1>0, <1>1 DEF TurnSound, Asked
    <2>2. QED
      BY <1>1, <1>6, <1>7, <1>8, <2>1
  <1>13. /\ (turn[u].stage = "counting" => turn[u].remember)'
         /\ (turn[u].kind # "openai" /\ turn[u].remember => turn[u].draft = "prose")'
         /\ (~Asked(u) => ~turn[u].remember)'
    BY <1>0, <1>1, <1>8 DEF TurnSound
  <1>14. QED
    BY <1>9, <1>10, <1>11, <1>12, <1>13 DEF TurnSound
LEMMA FindsSound ==
  ASSUME ConvInv, NEW t \in Turns, Effect(t), LivesInv', NEW f \in Finds
  PROVE  FindSound(f)'
  <1>0. LivesInv /\ FindSound(f) /\ dropped \subseteq Sessions
    BY DEF ConvInv, ConvShape, RestShape
  <1>1. find' = find /\ dropped' = dropped /\ \A s \in Sessions : folder'[s].info = folder[s].info
    BY DEF Effect, MadeOf
  <1>2. FindHome' = FindHome /\ FindHome \in Sessions
    BY <1>0, <1>1, FindStays DEF FindHas
  <1>3. f # t /\ f # "none"
    BY ConversationAssumption
  <1>4. pen = f => pen' = f /\ folder'[FindHome].half = folder[FindHome].half
    BY <1>2, <1>3 DEF Effect
  <1>5. /\ (find[f] \in WithPen => pen' = f)
        /\ (find[f] = "replying" => folder'[FindHome].half = f)
    BY <1>0, <1>4 DEF FindSound, WithPen
  <1>6. QED
    BY <1>1, <1>2, <1>5 DEF FindSound

-----------------------------------------------------------------------------
\* What a session has, when a writer has added to it or not.
SettledStay == \A u \in Turns : turn[u].stage \in Past => turn'[u].stage \in Past /\ turn'[u].knew = turn[u].knew

LEMMA SessionSame ==
  ASSUME ConvShape, NEW s \in Sessions, SessionSound(s), SettledStay, folder'[s].memories = folder[s].memories
  PROVE  PairsIn(s)' /\ PastIn(s)' /\ SerialIn(s)'
  <1>1. PICK m \in Seq(Memory) : m = folder[s].memories /\ m = folder'[s].memories
    BY DEF ConvShape, FoldersShape, FolderOk
  <1>2. PairsIn(s)'
    BY <1>1 DEF SessionSound, PairsIn
  <1>3. PastIn(s)'
    BY <1>1 DEF SessionSound, PastIn, SettledStay
  <1>4. PICK k \in Seq(Memory) : k = TurnsOf(m) /\ Range(k) = {x \in Range(m) : x.said \in Turns}
    BY TurnsOfIs
  <1>5. \A i \in DOMAIN k : turn'[k[i].said].knew = turn[k[i].said].knew
    <2> TAKE i \in DOMAIN k
    <2>1. k[i] \in Range(m) /\ k[i].said \in Turns
      BY <1>4 DEF Range
    <2>2. PICK j \in DOMAIN m : k[i] = m[j]
      BY <2>1 DEF Range
    <2>3. turn[k[i].said].stage \in Past
      BY <1>1, <2>1, <2>2 DEF SessionSound, PastIn
    <2>4. QED
      BY <2>1, <2>3 DEF SettledStay
  <1>6. \A i \in DOMAIN k : TurnsOf(turn[k[i].said].knew) = SubSeq(k, 1, i - 1)
    BY <1>1, <1>4 DEF SessionSound, SerialIn
  <1>7. SerialIn(s)'
    BY <1>1, <1>4, <1>5, <1>6 DEF SerialIn
  <1>8. QED
    BY <1>2, <1>3, <1>7

LEMMA SessionGains ==
  ASSUME ConvShape, NEW s \in Sessions, SessionSound(s), SettledStay, NEW w \in Writers,
         folder'[s].memories = Append(folder[s].memories, [asked |-> w, said |-> w]),
         w \in Turns => turn'[w].stage \in Past /\ TurnsOf(turn'[w].knew) = TurnsOf(folder[s].memories)
  PROVE  PairsIn(s)' /\ PastIn(s)' /\ SerialIn(s)'
  <1>1. PICK m \in Seq(Memory) : m = folder[s].memories
    BY DEF ConvShape, FoldersShape, FolderOk
  <1>2. PICK x \in Memory : x = [asked |-> w, said |-> w] /\ x.asked = w /\ x.said = w
    BY PairIs
  <1>3. PICK q \in Seq(Memory) : q = Append(m, x) /\ q = folder'[s].memories
    <2>1. Append(m, x) \in Seq(Memory)
      OBVIOUS
    <2>2. folder'[s].memories = Append(m, x)
      BY <1>1, <1>2
    <2>3. QED
      BY <2>1, <2>2
  <1>4. /\ Len(m) \in Nat /\ DOMAIN m = 1..Len(m) /\ DOMAIN q = 1..(Len(m) + 1)
        /\ q[Len(m) + 1] = x /\ \A i \in 1..Len(m) : q[i] = m[i]
    <2>1. /\ Len(m) \in Nat /\ DOMAIN m = 1..Len(m) /\ DOMAIN Append(m, x) = 1..(Len(m) + 1)
          /\ Append(m, x)[Len(m) + 1] = x /\ \A i \in 1..Len(m) : Append(m, x)[i] = m[i]
      OBVIOUS
    <2>2. QED
      BY <1>3, <2>1
  <1>5. \A i \in DOMAIN q : i \in DOMAIN m \/ i = Len(m) + 1
    BY <1>4
  <1>6. PairsIn(s)'
    <2>1. \A i \in DOMAIN m : m[i].asked = m[i].said
      BY <1>1 DEF SessionSound, PairsIn
    <2>2. \A i \in DOMAIN q : q[i].asked = q[i].said
      BY <1>2, <1>4, <1>5, <2>1
    <2>3. QED
      BY <1>3, <2>2 DEF PairsIn
  <1>7. PastIn(s)'
    <2>1. \A i \in DOMAIN m : m[i].said \in Turns => turn[m[i].said].stage \in Past
      BY <1>1 DEF SessionSound, PastIn
    <2>2. \A i \in DOMAIN q : q[i].said \in Turns => turn'[q[i].said].stage \in Past
      BY <1>2, <1>4, <1>5, <2>1 DEF SettledStay
    <2>3. QED
      BY <1>3, <2>2 DEF PastIn
  <1>8. PICK k \in Seq(Memory) : k = TurnsOf(m) /\ Range(k) = {y \in Range(m) : y.said \in Turns}
    BY TurnsOfIs
  <1>9. \A i \in DOMAIN k : turn'[k[i].said].knew = turn[k[i].said].knew
    <2> TAKE i \in DOMAIN k
    <2>1. k[i] \in Range(m) /\ k[i].said \in Turns
      BY <1>8 DEF Range
    <2>2. PICK j \in DOMAIN m : k[i] = m[j]
      BY <2>1 DEF Range
    <2>3. turn[k[i].said].stage \in Past
      BY <1>1, <2>1, <2>2 DEF SessionSound, PastIn
    <2>4. QED
      BY <2>1, <2>3 DEF SettledStay
  <1>10. \A i \in DOMAIN k : TurnsOf(turn'[k[i].said].knew) = SubSeq(k, 1, i - 1)
    BY <1>1, <1>8, <1>9 DEF SessionSound, SerialIn
  <1>11. PICK l : l = TurnsOf(q)
    OBVIOUS
  <1>12. CASE w \notin Turns
    <2>1. l = k
      BY <1>2, <1>3, <1>8, <1>11, <1>12, TurnsOfAppend
    <2>2. QED
      BY <1>3, <1>6, <1>7, <1>10, <1>11, <2>1 DEF SerialIn
  <1>13. CASE w \in Turns
    <2>1. l = Append(k, x)
      BY <1>2, <1>3, <1>8, <1>11, <1>13, TurnsOfAppend, ZenonT(60)
    <2>2. /\ Len(k) \in Nat /\ DOMAIN k = 1..Len(k) /\ DOMAIN l = 1..(Len(k) + 1)
          /\ l[Len(k) + 1] = x /\ \A i \in 1..Len(k) : l[i] = k[i] /\ SubSeq(l, 1, i - 1) = SubSeq(k, 1, i - 1)
      BY <2>1
    <2>3. SubSeq(l, 1, (Len(k) + 1) - 1) = k
      BY <2>1
    <2>4. TurnsOf(turn'[w].knew) = k
      BY <1>1, <1>8, <1>13
    <2>5. \A i \in DOMAIN l : TurnsOf(turn'[l[i].said].knew) = SubSeq(l, 1, i - 1)
      <3> TAKE i \in DOMAIN l
      <3>1. CASE i \in 1..Len(k)
        BY <3>1, <1>10, <2>2
      <3>2. CASE i = Len(k) + 1
        BY <3>2, <1>2, <2>2, <2>3, <2>4
      <3>3. QED
        BY <3>1, <3>2, <2>2
    <2>6. QED
      BY <1>3, <1>6, <1>7, <1>11, <2>5 DEF SerialIn
  <1>14. QED
    BY <1>12, <1>13

\* The turns that are counted, and their count.
LEMMA CountSame ==
  ASSUME NEW s \in Sessions, CountIn(s), folder[s].count \in Nat, folder'[s].count \in Nat,
         s \in dropped => s \in dropped', folder'[s].count >= folder[s].count, Credited(s)' \subseteq Credited(s)
  PROVE  CountIn(s)'
  <1>1. PICK c : c = Credited(s)
    OBVIOUS
  <1>2. PICK d : d = Credited(s)' /\ d \subseteq c
    BY <1>1
  <1>3. IsFiniteSet(c) /\ (s \notin dropped => folder[s].count >= Cardinality(c))
    BY <1>1 DEF CountIn
  <1>4. IsFiniteSet(d) /\ Cardinality(d) <= Cardinality(c) /\ Cardinality(d) \in Nat /\ Cardinality(c) \in Nat
    BY <1>2, <1>3, FS_Subset, FS_CardinalityType
  <1>5. s \notin dropped' => folder'[s].count >= Cardinality(d)
    BY <1>3, <1>4
  <1>6. QED
    BY <1>2, <1>4, <1>5 DEF CountIn

LEMMA CountMore ==
  ASSUME NEW s \in Sessions, CountIn(s), folder[s].count \in Nat, NEW t,
         s \in dropped => s \in dropped', folder'[s].count = folder[s].count + 1, Credited(s)' \subseteq Credited(s) \cup {t}
  PROVE  CountIn(s)'
  <1>1. PICK c : c = Credited(s)
    OBVIOUS
  <1>2. PICK d : d = Credited(s)' /\ d \subseteq c \cup {t}
    BY <1>1
  <1>3. IsFiniteSet(c) /\ (s \notin dropped => folder[s].count >= Cardinality(c))
    BY <1>1 DEF CountIn
  <1>4. IsFiniteSet(c \cup {t}) /\ Cardinality(c) \in Nat /\ Cardinality(c \cup {t}) <= Cardinality(c) + 1
    <2>1. Cardinality(c) \in Nat
      BY <1>3, FS_CardinalityType
    <2>2. IsFiniteSet(c \cup {t}) /\ (Cardinality(c \cup {t}) = Cardinality(c) \/ Cardinality(c \cup {t}) = Cardinality(c) + 1)
      BY <1>3, FS_AddElement
    <2>3. QED
      BY <2>1, <2>2
  <1>5. IsFiniteSet(d) /\ Cardinality(d) <= Cardinality(c \cup {t}) /\ Cardinality(d) \in Nat
        /\ Cardinality(c \cup {t}) \in Nat
    BY <1>2, <1>4, FS_Subset, FS_CardinalityType
  <1>6. s \notin dropped' => folder'[s].count >= Cardinality(d)
    BY <1>3, <1>4, <1>5
  <1>7. QED
    BY <1>2, <1>5, <1>6 DEF CountIn
\* A turn that is done was counted.
Credit(t) == t \in told \/ (turn[t].stage = "written" /\ turn[t].remember)
Earned(t) == Credit(t)' => Credit(t) \/ folder'[turn[t].home].count = folder[turn[t].home].count + 1

LEMMA SessionsSound ==
  ASSUME ConvInv, NEW t \in Turns, Effect(t), Earned(t), NEW s \in Sessions
  PROVE  SessionSound(s)'
  <1>0. ConvShape /\ SessionSound(s) /\ TurnSound(t) /\ Home(t) \in Sessions
    BY DEF ConvInv, ConvShape, TurnsShape, Effect, Asked
  <1>1. SettledStay
    BY DEF Effect, SettledStay
  <1>2. folder[s].count \in Nat /\ folder'[s].count \in Nat
    BY <1>0 DEF Effect, ConvShape, FoldersShape, FolderOk
  <1>3. PairsIn(s)' /\ PastIn(s)' /\ SerialIn(s)'
    <2>1. CASE folder'[s].memories = folder[s].memories
      BY <1>0, <1>1, <2>1, SessionSame
    <2>2. CASE folder'[s].memories # folder[s].memories
      <3>1. s = Home(t) /\ Remembers(t)
        BY <1>0, <2>2 DEF Effect, Home
      <3>2. TurnsOf(turn'[t].knew) = TurnsOf(folder[s].memories)
        BY <1>0, <3>1 DEF TurnSound, Remembers, Reflecting
      <3>3. t \in Writers /\ turn'[t].stage \in Past /\ folder'[s].memories = Append(folder[s].memories, [asked |-> t, said |-> t])
        BY <3>1 DEF Remembers, Home, Writers
      <3>4. QED
        BY <1>0, <1>1, <3>2, <3>3, SessionGains
    <2>3. QED
      BY <2>1, <2>2
  <1>4. \A u \in Turns : (Home(u))' = Home(u) /\ (u # t => (Credit(u)' <=> Credit(u)))
    BY DEF Effect, Home, Credit
  <1>5. /\ Credited(s) = {u \in Turns : Home(u) = s /\ Credit(u)}
        /\ Credited(s)' = {u \in Turns : (Home(u))' = s /\ Credit(u)'}
    BY DEF Credited, Credit
  <1>6. folder'[s].count >= folder[s].count /\ (s \in dropped => s \in dropped')
    BY <1>2 DEF Effect, MadeOf
  <1>7. CountIn(s)'
    <2>1. CASE s = Home(t) /\ Credit(t)' /\ ~Credit(t)
      <3>1. folder'[s].count = folder[s].count + 1
        BY <2>1 DEF Earned, Home
      <3>2. Credited(s)' \subseteq Credited(s) \cup {t}
        BY <1>4, <1>5
      <3>3. CountIn(s)
        BY <1>0 DEF SessionSound
      <3>4. QED
        BY <1>2, <1>6, <3>1, <3>2, <3>3, CountMore
    <2>2. CASE s # Home(t) \/ ~Credit(t)' \/ Credit(t)
      <3>1. Credited(s)' \subseteq Credited(s)
        BY <1>4, <1>5, <2>2
      <3>2. CountIn(s)
        BY <1>0 DEF SessionSound
      <3>3. QED
        BY <1>2, <1>6, <3>1, <3>2, CountSame
    <2>3. QED
      BY <2>1, <2>2
  <1>8. QED
    BY <1>3, <1>7 DEF SessionSound

\* A step of a turn that leaves the lines and itself sound leaves all sound.
LEMMA StepSound ==
  ASSUME ConvInv, NEW t \in Turns, Effect(t), Earned(t), LinesInv', LivesInv', TurnSound(t)'
  PROVE  ConvInv'
  <1>1. ConvShape'
    BY DEF Effect
  <1>2. \A u \in Turns : TurnSound(u)'
    BY OthersSound
  <1>3. \A f \in Finds : FindSound(f)'
    BY FindsSound
  <1>4. \A s \in Sessions : SessionSound(s)'
    BY SessionsSound
  <1>5. QED
    BY <1>1, <1>2, <1>3, <1>4 DEF ConvInv

-----------------------------------------------------------------------------
\* The lines, when nobody comes or goes.
InLine == {"waiting"} \cup InTurn

LEMMA LinesStay ==
  ASSUME ConvInv, NEW t \in Turns, Effect(t), UNCHANGED line,
         turn[t].stage \in InLine => turn'[t].stage \in InLine,
         turn'[t].stage \in InTurn => Holds(Home(t), t) /\ folder[Home(t)].info
  PROVE  LinesInv' /\ LivesInv'
  <1>0. ConvShape /\ LinesInv /\ LivesInv /\ Home(t) \in Sessions
    BY DEF ConvInv, ConvShape, TurnsShape, Effect, Asked
  <1>1. \A u \in Turns : turn'[u].home = turn[u].home /\ (u # t => turn'[u] = turn[u])
    BY DEF Effect
  <1>2. (\A s \in Sessions : folder'[s].info = folder[s].info) /\ line' = line /\ reset' = reset /\ dropped' = dropped
    BY DEF Effect, MadeOf
  <1>3. \A u \in Turns : turn[u].stage \in InLine => turn'[u].stage \in InLine
    BY <1>1
  <1>4. \A s \in Sessions : Distinct(line'[s])
    BY <1>0, <1>2 DEF LinesInv
  <1>5. \A s \in Sessions : \A w \in Range(line'[s]) :
       IF w \in Turns THEN turn'[w].home = s /\ turn'[w].stage \in InLine ELSE reset'.step # "none" /\ reset'.home = s
    <2>1. \A s \in Sessions : \A w \in Range(line[s]) :
       IF w \in Turns THEN turn[w].home = s /\ turn[w].stage \in InLine ELSE reset.step # "none" /\ reset.home = s
      BY <1>0 DEF LinesInv, InLine, Home
    <2>2. QED
      BY <2>1, <1>1, <1>2, <1>3
  <1>6. \A u \in Turns : turn'[u].stage \in InTurn => line'[turn'[u].home] # <<>> /\ Head(line'[turn'[u].home]) = u
                                                     /\ folder'[turn'[u].home].info
    <2> TAKE u \in Turns
    <2>1. HAVE turn'[u].stage \in InTurn
    <2>2. Holds(Home(u), u) /\ folder[Home(u)].info
      BY <1>0, <1>1, <2>1 DEF LinesInv
    <2>3. Home(u) \in Sessions
      <3>1. u # t => Asked(u)
        BY <1>1, <2>1 DEF Asked, InTurn, Thinking, Writing
      <3>2. QED
        BY <1>0, <3>1 DEF ConvShape, TurnsShape
    <2>4. QED
      BY <1>1, <1>2, <2>2, <2>3 DEF Holds, Home
  <1>7. LinesInv'
    <2>1. reset'.step = "removed" => line'[reset'.home] # <<>> /\ Head(line'[reset'.home]) = "reset"
      BY <1>0, <1>2 DEF LinesInv, Holds
    <2>2. QED
      BY <1>4, <1>5, <1>6, <2>1 DEF LinesInv, Holds, Home, InLine
  <1>8. \A s \in Sessions : Unmade(s) => Unmade(s)'
    <2> TAKE s \in Sessions
    <2>1. HAVE Unmade(s)
    <2>2. s # Home(t)
      BY <2>1 DEF Unmade, Effect, Asked
    <2>3. folder'[s] = folder[s]
      BY <2>2 DEF Effect, Home
    <2>4. \A u \in Turns : Asked(u)' => Asked(u)
      BY <1>1 DEF Asked, Effect
    <2>5. QED
      BY <1>1, <1>2, <2>1, <2>3, <2>4 DEF Unmade, Home
  <1>9. LivesInv'
    BY <1>0, <1>2, <1>8 DEF LivesInv, ConvShape, RestShape
  <1>10. QED
    BY <1>7, <1>9
\* The lines, when one leaves.
LeavesLine(w, h) ==
  /\ line' \in [Sessions -> Seq(Queuers)] /\ \A s \in Sessions : s # h => line'[s] = line[s]
  /\ Distinct(line'[h]) /\ Range(line'[h]) = Range(line[h]) \ {w}
  /\ line[h] # <<>> /\ Head(line[h]) # w => line'[h] # <<>> /\ Head(line'[h]) = Head(line[h])

LEMMA WithoutLeaves ==
  ASSUME ConvInv, NEW t \in Turns, Asked(t), line' = LineWithout(t)
  PROVE  LeavesLine(t, Home(t))
  <1>1. Home(t) \in Sessions /\ line \in [Sessions -> Seq(Queuers)] /\ Distinct(line[Home(t)])
    BY DEF ConvInv, ConvShape, TurnsShape, RestShape, LinesInv
  <1>2. PICK q : q = Among(line[Home(t)], Range(line[Home(t)]) \ {t})
    OBVIOUS
  <1>3. line' = [line EXCEPT ![Home(t)] = q]
    BY <1>2 DEF LineWithout
  <1>4. line[Home(t)] \in Seq(Queuers)
    BY <1>1
  <1>5. /\ q \in Seq(Queuers) /\ Distinct(q) /\ Range(q) = Range(line[Home(t)]) \ {t}
        /\ (line[Home(t)] # <<>> /\ Head(line[Home(t)]) # t => q # <<>> /\ Head(q) = Head(line[Home(t)]))
    BY <1>1, <1>2, <1>4, LineLeft
  <1>6. line'[Home(t)] = q /\ line' \in [Sessions -> Seq(Queuers)] /\ \A s \in Sessions : s # Home(t) => line'[s] = line[s]
    BY <1>1, <1>3, <1>5
  <1>7. QED
    BY <1>5, <1>6 DEF LeavesLine

LEMMA UnlockedLeaves ==
  ASSUME ConvInv, NEW h \in Sessions, NEW w, Holds(h, w), Unlocked(h)
  PROVE  LeavesLine(w, h)
  <1>1. line \in [Sessions -> Seq(Queuers)] /\ Distinct(line[h])
    BY DEF ConvInv, ConvShape, RestShape, LinesInv
  <1>2. PICK q : q = Tail(line[h])
    OBVIOUS
  <1>3. line' = [line EXCEPT ![h] = q]
    BY <1>2 DEF Unlocked
  <1>4. line[h] \in Seq(Queuers) /\ line[h] # <<>> /\ Head(line[h]) = w
    BY <1>1 DEF Holds
  <1>5. q \in Seq(Queuers) /\ Distinct(q) /\ Range(q) = Range(line[h]) \ {w}
    BY <1>1, <1>2, <1>4, LineTail
  <1>6. line'[h] = q /\ line' \in [Sessions -> Seq(Queuers)] /\ \A s \in Sessions : s # h => line'[s] = line[s]
    BY <1>1, <1>3, <1>5
  <1>7. QED
    BY <1>4, <1>5, <1>6 DEF LeavesLine

LEMMA LinesLeft ==
  ASSUME ConvInv, NEW t \in Turns, Effect(t), LeavesLine(t, Home(t)), turn'[t].stage \notin InLine
  PROVE  LinesInv' /\ LivesInv'
  <1>0. ConvShape /\ LinesInv /\ LivesInv /\ Home(t) \in Sessions
    BY DEF ConvInv, ConvShape, TurnsShape, Effect, Asked
  <1>1. \A u \in Turns : turn'[u].home = turn[u].home /\ (u # t => turn'[u] = turn[u])
    BY DEF Effect
  <1>2. (\A s \in Sessions : folder'[s].info = folder[s].info) /\ reset' = reset /\ dropped' = dropped
    BY DEF Effect, MadeOf
  <1>4. \A s \in Sessions : Distinct(line'[s])
    BY <1>0 DEF LinesInv, LeavesLine
  <1>5. \A s \in Sessions : \A w \in Range(line'[s]) :
       IF w \in Turns THEN turn'[w].home = s /\ turn'[w].stage \in InLine ELSE reset'.step # "none" /\ reset'.home = s
    <2>1. \A s \in Sessions : \A w \in Range(line[s]) :
       IF w \in Turns THEN turn[w].home = s /\ turn[w].stage \in InLine ELSE reset.step # "none" /\ reset.home = s
      BY <1>0 DEF LinesInv, InLine, Home
    <2>2. \A s \in Sessions : \A w \in Range(line'[s]) : w \in Range(line[s]) /\ w # t
      BY <2>1 DEF LeavesLine, Home
    <2>3. QED
      BY <2>1, <2>2, <1>1, <1>2
  <1>6. \A u \in Turns : turn'[u].stage \in InTurn => line'[turn'[u].home] # <<>> /\ Head(line'[turn'[u].home]) = u
                                                     /\ folder'[turn'[u].home].info
    <2> TAKE u \in Turns
    <2>1. HAVE turn'[u].stage \in InTurn
    <2>2. u # t
      BY <2>1 DEF InLine
    <2>3. Holds(Home(u), u) /\ folder[Home(u)].info /\ Home(u) \in Sessions
      <3>1. Asked(u) /\ turn[u].stage \in InTurn
        BY <1>1, <2>1, <2>2 DEF Asked, InTurn, Thinking, Writing
      <3>2. QED
        BY <1>0, <3>1 DEF ConvShape, TurnsShape, LinesInv
    <2>4. line'[Home(u)] # <<>> /\ Head(line'[Home(u)]) = u
      BY <2>2, <2>3 DEF LeavesLine, Holds
    <2>5. QED
      BY <1>1, <1>2, <2>3, <2>4 DEF Home
  <1>7. LinesInv'
    <2>1. reset'.step = "removed" => line'[reset'.home] # <<>> /\ Head(line'[reset'.home]) = "reset"
      <3>1. HAVE reset'.step = "removed"
      <3>2. Holds(reset.home, "reset") /\ reset.home \in Sessions /\ "reset" # t
        BY <1>0, <1>2, <3>1, ConversationAssumption DEF LinesInv, ConvShape, RestShape
      <3>3. QED
        BY <1>2, <3>2 DEF LeavesLine, Holds
    <2>2. QED
      BY <1>4, <1>5, <1>6, <2>1 DEF LinesInv, Holds, Home, InLine
  <1>8. \A s \in Sessions : Unmade(s) => Unmade(s)'
    <2> TAKE s \in Sessions
    <2>1. HAVE Unmade(s)
    <2>2. s # Home(t)
      BY <2>1 DEF Unmade, Effect, Asked
    <2>3. folder'[s] = folder[s] /\ line'[s] = line[s]
      BY <2>2 DEF Effect, Home, LeavesLine
    <2>4. \A u \in Turns : Asked(u)' => Asked(u)
      BY <1>1 DEF Asked, Effect
    <2>5. QED
      BY <1>1, <1>2, <2>1, <2>3, <2>4 DEF Unmade, Home
  <1>9. LivesInv'
    BY <1>0, <1>2, <1>8 DEF LivesInv, ConvShape, RestShape
  <1>10. QED
    BY <1>7, <1>9
-----------------------------------------------------------------------------
\* The steps of the code have such effects.
PenTurns(t) == pen' = pen \/ (pen = "none" /\ pen' = t) \/ (pen = t /\ pen' = "none")
MovesOn(t) == /\ turn'[t].stage # "unasked"
              /\ turn[t].stage \in Past => turn'[t].stage \in Past /\ turn'[t].knew = turn[t].knew
ToldOne(t) == told \subseteq told' /\ told' \subseteq told \cup {t}

LEMMA EffectIs ==
  ASSUME ConvInv, NEW t \in Turns, Asked(t), Keeps(t), MovesOn(t), PenTurns(t), ToldOne(t),
         line' \in [Sessions -> Seq(Queuers)], UNCHANGED <<find, reset, dropped>>,
         FoldersShape', \A s \in Sessions : s # Home(t) => folder'[s] = folder[s], MadeOf(Home(t), folder'[Home(t)]),
         folder'[Home(t)].half = folder[Home(t)].half \/ pen = t,
         folder'[Home(t)].memories = folder[Home(t)].memories \/ Remembers(t)
  PROVE  Effect(t)
  <1>1. RestShape'
    BY DEF ConvInv, ConvShape, RestShape, ToldOne
  <1>2. ConvShape'
    BY <1>1 DEF ConvShape, Keeps
  <1>3. QED
    BY <1>2 DEF Effect, Keeps, MovesOn, PenTurns, ToldOne, Asked, Home

LEMMA EffectQuiet ==
  ASSUME ConvInv, NEW t \in Turns, Asked(t), Keeps(t), MovesOn(t), PenTurns(t), ToldOne(t),
         line' \in [Sessions -> Seq(Queuers)], UNCHANGED <<folder, find, reset, dropped>>
  PROVE  Effect(t)
  <1>1. FoldersShape /\ FoldersShape'
    BY DEF ConvInv, ConvShape, FoldersShape, FolderOk
  <1>2. Home(t) \in Sessions
    BY DEF ConvInv, ConvShape, TurnsShape
  <1>3. MadeOf(Home(t), folder'[Home(t)])
    <2>1. FolderOk(folder[Home(t)]) /\ folder[Home(t)].count \in Nat
      BY <1>1, <1>2 DEF FoldersShape, FolderOk
    <2>2. folder[Home(t)].count >= folder[Home(t)].count
      BY <2>1
    <2>3. QED
      BY <2>1, <2>2 DEF MadeOf
  <1>4. QED
    BY <1>1, <1>3, EffectIs

LEMMA EffectWrites ==
  ASSUME ConvInv, NEW t \in Turns, Asked(t), Keeps(t), MovesOn(t), PenTurns(t), ToldOne(t),
         UNCHANGED <<line, find, reset, dropped>>, NEW e, OnDisk(Home(t), e), MadeOf(Home(t), e),
         e.half = folder[Home(t)].half \/ pen = t,
         e.memories = folder[Home(t)].memories \/ Remembers(t)
  PROVE  Effect(t) /\ folder'[Home(t)] = e
  <1>1. FoldersShape /\ Home(t) \in Sessions /\ line' \in [Sessions -> Seq(Queuers)]
    BY DEF ConvInv, ConvShape, TurnsShape, RestShape
  <1>2. FoldersShape' /\ folder'[Home(t)] = e /\ \A x \in Sessions : x # Home(t) => folder'[x] = folder[x]
    BY <1>1, FolderPut DEF MadeOf
  <1>3. QED
    BY <1>1, <1>2, EffectIs

\* What a turn that thinks does.
Thinks(t) ==
  \/ \E stage \in Thinking : Goes(t, stage)
  \/ \E draft \in {"none", "prose", "payload"}, remember \in BOOLEAN :
       Settles(t, draft, remember) /\ (turn[t].kind # "openai" => draft # "payload")

LEMMA ThinkStep ==
  ASSUME ConvInv, NEW t \in Turns, turn[t].stage \in Thinking, Thinks(t), Thought
  PROVE  ConvInv'
  <1>0. TurnsShape /\ LinesInv /\ TurnSound(t) /\ line \in [Sessions -> Seq(Queuers)]
    BY DEF ConvInv, ConvShape, RestShape
  <1>1. Asked(t) /\ turn[t].stage \in InTurn /\ turn[t].stage \notin Past /\ turn[t].stage \in Reflecting
    BY DEF Asked, Thinking, Past, InTurn, Reflecting
  <1>2. /\ Keeps(t) /\ turn'[t].knew = turn[t].knew /\ turn'[t].stage \in Thinking \cup {"storing", "savingTrace"}
        /\ turn'[t].kind # "openai" /\ turn'[t].remember => turn'[t].draft = "prose"
        /\ turn'[t].stage = "savingTrace" => ~turn'[t].remember
    <2>1. ASSUME NEW stage \in Thinking, Goes(t, stage)
          PROVE  /\ Keeps(t) /\ turn'[t].knew = turn[t].knew /\ turn'[t].stage = stage
                 /\ turn'[t].draft = turn[t].draft /\ turn'[t].remember = turn[t].remember
      <3>1. stage \in Stages
        BY DEF Stages
      <3>2. QED
        BY <1>0, <1>1, <2>1, <3>1, GoesTo
    <2>2. ASSUME NEW draft \in {"none", "prose", "payload"}, NEW remember \in BOOLEAN, Settles(t, draft, remember)
          PROVE  /\ Keeps(t) /\ turn'[t].knew = turn[t].knew
                 /\ turn'[t].draft = draft /\ (turn'[t].remember <=> (remember /\ draft # "none"))
                 /\ turn'[t].stage = IF draft # "none" /\ remember THEN "storing" ELSE "savingTrace"
      BY <1>0, <1>1, <2>2, SettlesTo
    <2>3. CASE \E stage \in Thinking : Goes(t, stage)
      BY <2>3, <2>1, <1>0 DEF Keeps, TurnSound, Thinking
    <2>4. CASE \E draft \in {"none", "prose", "payload"}, remember \in BOOLEAN :
                 Settles(t, draft, remember) /\ (turn[t].kind # "openai" => draft # "payload")
      <3>1. PICK draft \in {"none", "prose", "payload"}, remember \in BOOLEAN :
                 Settles(t, draft, remember) /\ (turn[t].kind # "openai" => draft # "payload")
        BY <2>4
      <3>2. /\ Keeps(t) /\ turn'[t].knew = turn[t].knew
            /\ turn'[t].draft = draft /\ (turn'[t].remember <=> (remember /\ draft # "none"))
            /\ turn'[t].stage = IF draft # "none" /\ remember THEN "storing" ELSE "savingTrace"
        BY <3>1, <2>2
      <3>3. turn'[t].stage \in {"storing", "savingTrace"} /\ (turn'[t].stage = "savingTrace" => ~turn'[t].remember)
        BY <3>2
      <3>4. turn'[t].kind # "openai" /\ turn'[t].remember => turn'[t].draft = "prose"
        BY <3>1, <3>2 DEF Keeps
      <3>5. QED
        BY <3>2, <3>3, <3>4
    <2>5. QED
      BY <2>3, <2>4 DEF Thinks
  <1>3. /\ turn'[t].stage \in InTurn /\ turn'[t].stage \notin {"ended", "written", "summarizing", "counting", "unasked"}
        /\ turn'[t].stage \notin {"askingHalf", "replyingHalf"}
    BY <1>2 DEF Thinking, InTurn, Writing
  <1>4. Effect(t)
    <2>1. MovesOn(t) /\ PenTurns(t) /\ ToldOne(t)
      BY <1>1, <1>3 DEF MovesOn, PenTurns, ToldOne, Thought
    <2>2. QED
      BY <1>0, <1>1, <1>2, <2>1, EffectQuiet DEF Thought
  <1>5. LinesInv' /\ LivesInv'
    BY <1>0, <1>1, <1>3, <1>4, LinesStay DEF LinesInv, Thought, InLine
  <1>6. TurnSound(t)'
    <2>1. t \notin told'
      BY <1>0 DEF TurnSound, Thought, Thinking
    <2>2. Home(t)' = Home(t) /\ folder' = folder
      BY <1>4 DEF Effect, Home, Thought
    <2>3. (turn[t].stage \in Reflecting => TurnsOf(turn[t].knew) = TurnsOf(folder[Home(t)].memories))'
      BY <1>0, <1>1, <1>2, <2>2 DEF TurnSound
    <2>4. QED
      BY <1>2, <1>3, <2>1, <2>3 DEF TurnSound, Asked
  <1>7. Earned(t)
    <2>1. ~Credit(t)'
      <3>1. t \notin told' /\ turn'[t].stage # "written"
        BY <1>0, <1>3 DEF TurnSound, Thought, Thinking
      <3>2. QED
        BY <3>1 DEF Credit
    <2>2. QED
      BY <2>1 DEF Earned
  <1>8. QED
    BY <1>4, <1>5, <1>6, <1>7, StepSound
Reflects(t) ==
  \/ PlainReply(t) \/ FirstPhase(t) \/ SubagentEnds(t) \/ SecondPhase(t) \/ Repaired(t) \/ TaskReply(t) \/ Recovered(t)
  \/ TaskStarted(t) \/ Commanded(t) \/ CommandRefused(t) \/ Acknowledged(t)

LEMMA ThinkingSound == ASSUME ConvInv, NEW t \in Turns, Reflects(t) PROVE ConvInv'
  <1>1. turn[t].stage \in Thinking /\ Thought
    BY DEF Reflects, PlainReply, FirstPhase, SubagentEnds, SecondPhase, Repaired, TaskReply, Recovered, TaskStarted,
       Commanded, CommandRefused, Acknowledged, Thinking
  <1>2. ASSUME NEW stage \in Thinking, Goes(t, stage) PROVE Thinks(t)
    BY <1>2 DEF Thinks
  <1>3. ASSUME NEW draft \in {"none", "prose"}, NEW remember \in BOOLEAN, Settles(t, draft, remember) PROVE Thinks(t)
    BY <1>3 DEF Thinks
  <1>4. /\ \A stage \in {"delegated", "answering", "repairing", "recovering", "ordering", "acknowledging"} : stage \in Thinking
        /\ TRUE \in BOOLEAN /\ FALSE \in BOOLEAN
    BY DEF Thinking
  <1>5. Thinks(t)
    <2>1. CASE PlainReply(t)
      BY <2>1 DEF PlainReply, Thinks
    <2>2. CASE FirstPhase(t)
      BY <2>2, <1>2, <1>3, <1>4 DEF FirstPhase
    <2>3. CASE SubagentEnds(t)
      BY <2>3, <1>2, <1>4 DEF SubagentEnds
    <2>4. CASE SecondPhase(t)
      BY <2>4, <1>2, <1>3, <1>4 DEF SecondPhase
    <2>5. CASE Repaired(t)
      BY <2>5, <1>3, <1>4 DEF Repaired, Rewritten
    <2>6. CASE TaskReply(t)
      BY <2>6, <1>2, <1>3, <1>4 DEF TaskReply
    <2>7. CASE Recovered(t)
      BY <2>7, <1>2, <1>3, <1>4 DEF Recovered
    <2>8. CASE TaskStarted(t)
      BY <2>8, <1>2, <1>4 DEF TaskStarted
    <2>9. CASE Commanded(t)
      BY <2>9, <1>2, <1>4 DEF Commanded
    <2>10. CASE CommandRefused(t)
      BY <2>10, <1>2, <1>4 DEF CommandRefused
    <2>11. CASE Acknowledged(t)
      BY <2>11, <1>3, <1>4 DEF Acknowledged
    <2>12. QED
      BY <2>1, <2>2, <2>3, <2>4, <2>5, <2>6, <2>7, <2>8, <2>9, <2>10, <2>11 DEF Reflects
  <1>6. QED
    BY <1>1, <1>5, ThinkStep

LEMMA RetrievalStartsSound == ASSUME ConvInv, NEW t \in Turns, RetrievalStarts(t) PROVE ConvInv'
  <1>0. TurnsShape /\ LinesInv /\ TurnSound(t) /\ line \in [Sessions -> Seq(Queuers)]
    BY DEF ConvInv, ConvShape, RestShape
  <1>1. Asked(t) /\ Holds(Home(t), t) /\ Home(t) \in Sessions /\ turn[t].stage = "waiting"
    BY <1>0 DEF RetrievalStarts, Asked, TurnsShape
  <1>2. t \notin told' /\ ToldOne(t) /\ PenTurns(t) /\ UNCHANGED <<folder, find, reset, dropped, pen, told>>
    BY <1>0, <1>1 DEF RetrievalStarts, TurnSound, ToldOne, PenTurns
  <1>3. CASE folder[Home(t)].info
    <2>1. Goes(t, "retrieving") /\ UNCHANGED line /\ "retrieving" \in Stages
      BY <1>3 DEF RetrievalStarts, Stages
    <2>2. Keeps(t) /\ turn'[t].stage = "retrieving" /\ turn'[t].knew = turn[t].knew
           /\ turn'[t].draft = turn[t].draft /\ turn'[t].remember = turn[t].remember
      BY <1>0, <1>1, <2>1, GoesTo
    <2>3. MovesOn(t) /\ line' \in [Sessions -> Seq(Queuers)]
      BY <1>0, <1>1, <2>1, <2>2 DEF MovesOn, Past
    <2>4. Effect(t)
      BY <1>1, <1>2, <2>2, <2>3, EffectQuiet
    <2>5. LinesInv' /\ LivesInv'
      BY <1>1, <1>3, <2>1, <2>2, <2>4, LinesStay DEF InLine, InTurn
    <2>6. TurnSound(t)'
      <3>1. turn'[t].kind # "openai" /\ turn'[t].remember => turn'[t].draft = "prose"
        BY <1>0, <2>2 DEF TurnSound, Keeps
      <3>2. QED
        BY <1>2, <2>2, <3>1 DEF TurnSound, Reflecting, Thinking, Asked
    <2>7. Earned(t)
      BY <1>2, <2>2 DEF Earned, Credit
    <2>8. QED
      BY <2>4, <2>5, <2>6, <2>7, StepSound
  <1>4. CASE ~folder[Home(t)].info
    <2>1. Goes(t, "ended") /\ Unlocked(Home(t)) /\ "ended" \in Stages
      BY <1>4 DEF RetrievalStarts, Stages
    <2>2. Keeps(t) /\ turn'[t].stage = "ended" /\ turn'[t].knew = turn[t].knew
           /\ turn'[t].draft = turn[t].draft /\ turn'[t].remember = turn[t].remember
      BY <1>0, <1>1, <2>1, GoesTo
    <2>3. LeavesLine(t, Home(t))
      BY <1>1, <2>1, UnlockedLeaves
    <2>4. MovesOn(t) /\ line' \in [Sessions -> Seq(Queuers)]
      BY <1>1, <2>2, <2>3 DEF MovesOn, Past, LeavesLine
    <2>5. Effect(t)
      BY <1>1, <1>2, <2>2, <2>4, EffectQuiet
    <2>6. LinesInv' /\ LivesInv'
      <3>1. turn'[t].stage \notin InLine
        BY <2>2 DEF InLine, InTurn, Thinking, Writing
      <3>2. QED
        BY <2>3, <2>5, <3>1, LinesLeft
    <2>7. TurnSound(t)'
      <3>1. turn'[t].kind # "openai" /\ turn'[t].remember => turn'[t].draft = "prose"
        BY <1>0, <2>2 DEF TurnSound, Keeps
      <3>2. QED
        BY <1>2, <2>2, <3>1 DEF TurnSound, Reflecting, Thinking, Asked
    <2>8. Earned(t)
      BY <1>2, <2>2 DEF Earned, Credit
    <2>9. QED
      BY <2>5, <2>6, <2>7, <2>8, StepSound
  <1>5. QED
    BY <1>3, <1>4
LEMMA RetrievalEndsSound == ASSUME ConvInv, NEW t \in Turns, RetrievalEnds(t) PROVE ConvInv'
  <1>0. ConvShape /\ TurnsShape /\ FoldersShape /\ LinesInv /\ TurnSound(t) /\ line \in [Sessions -> Seq(Queuers)]
    BY DEF ConvInv, ConvShape, RestShape
  <1>1. Asked(t) /\ Home(t) \in Sessions /\ turn[t].stage \in {"retrieving", "orphan"}
    BY <1>0 DEF RetrievalEnds, Asked, TurnsShape
  <1>2. /\ t \notin told' /\ ToldOne(t) /\ PenTurns(t) /\ UNCHANGED <<line, find, reset, dropped, pen, told>>
    BY <1>0, <1>1 DEF RetrievalEnds, TurnSound, ToldOne, PenTurns
  <1>3. PICK stage \in Stages : stage = IF turn[t].stage = "orphan" THEN "ended" ELSE "retrieved"
    BY DEF Stages, Thinking
  <1>4. PICK m \in Seq(Memory) : m = folder[Home(t)].memories
    BY <1>0, <1>1 DEF FoldersShape, FolderOk
  <1>5. /\ Keeps(t) /\ turn'[t].stage = stage /\ turn'[t].knew = m
        /\ turn'[t].draft = turn[t].draft /\ turn'[t].remember = turn[t].remember
    <2>1. turn' = [turn EXCEPT ![t].knew = m, ![t].stage = stage]
      BY <1>3, <1>4 DEF RetrievalEnds
    <2>2. turn'[t] = [turn[t] EXCEPT !.knew = m, !.stage = stage]
      BY <2>1, <1>0 DEF TurnsShape
    <2>3. turn[t] = [stage |-> turn[t].stage, home |-> turn[t].home, request |-> turn[t].request,
                     kind |-> turn[t].kind, knew |-> turn[t].knew, draft |-> turn[t].draft,
                     remember |-> turn[t].remember]
      BY <1>0 DEF TurnsShape
    <2>4. turn'[t] = [stage |-> stage, home |-> turn[t].home, request |-> turn[t].request,
                    kind |-> turn[t].kind, knew |-> m, draft |-> turn[t].draft, remember |-> turn[t].remember]
      BY <2>2, <2>3
    <2>5. \A u \in Turns : u # t => turn'[u] = turn[u]
      BY <2>1, <1>0 DEF TurnsShape
    <2>6. turn' = [u \in Turns |-> turn'[u]]
      BY <2>1, <1>0 DEF TurnsShape
    <2>7. /\ turn'[t].stage = stage /\ turn'[t].home = turn[t].home /\ turn'[t].request = turn[t].request
          /\ turn'[t].kind = turn[t].kind /\ turn'[t].knew = m
          /\ turn'[t].draft = turn[t].draft /\ turn'[t].remember = turn[t].remember
      BY <2>4
    <2>8. \A u \in Turns : turn'[u] = [stage |-> turn'[u].stage, home |-> turn'[u].home, request |-> turn'[u].request,
                kind |-> turn'[u].kind, knew |-> turn'[u].knew, draft |-> turn'[u].draft,
                remember |-> turn'[u].remember]
      BY <1>0, <2>4, <2>5, <2>7 DEF TurnsShape
    <2>9. \A u \in Turns : /\ turn'[u].stage \in Stages /\ turn'[u].knew \in Seq(Memory)
                           /\ (turn'[u].stage # "unasked" => turn'[u].home \in Sessions)
      BY <1>0, <1>1, <2>5, <2>7 DEF TurnsShape, Asked, Home
    <2>10. TurnsShape'
      BY <2>6, <2>8, <2>9 DEF TurnsShape, Asked, Home
    <2>11. QED
      BY <2>5, <2>7, <2>10 DEF Keeps
  <1>6. PICK e : /\ e = [folder[Home(t)] EXCEPT !.there = TRUE] /\ MadeOf(Home(t), e)
                 /\ e.memories = folder[Home(t)].memories /\ e.half = folder[Home(t)].half
    BY <1>0, <1>1, MadeThere
  <1>7. OnDisk(Home(t), e)
    BY <1>6 DEF RetrievalEnds
  <1>8. MovesOn(t)
    BY <1>1, <1>3, <1>5 DEF MovesOn, Past
  <1>9. Effect(t) /\ folder'[Home(t)] = e
    BY <1>1, <1>2, <1>5, <1>6, <1>7, <1>8, EffectWrites
  <1>10. LinesInv' /\ LivesInv'
    <2>1. turn[t].stage \in InLine => turn'[t].stage \in InLine
      BY <1>1, <1>3, <1>5 DEF InLine, InTurn, Thinking, Writing
    <2>2. turn'[t].stage \in InTurn => turn[t].stage \in InTurn
      BY <1>1, <1>3, <1>5 DEF InTurn, Thinking, Writing
    <2>3. QED
      BY <1>0, <1>2, <1>9, <2>1, <2>2, LinesStay DEF LinesInv
  <1>11. TurnSound(t)'
    <2>1. turn'[t].kind # "openai" /\ turn'[t].remember => turn'[t].draft = "prose"
      BY <1>0, <1>5 DEF TurnSound, Keeps
    <2>2. Home(t)' = Home(t) /\ turn'[t].stage \in {"retrieved", "ended"}
      BY <1>3, <1>5 DEF Keeps, Home
    <2>3. TurnsOf(turn'[t].knew) = TurnsOf(folder'[Home(t)'].memories)
      BY <1>4, <1>5, <1>6, <1>9, <2>2
    <2>4. QED
      BY <1>2, <2>1, <2>2, <2>3 DEF TurnSound, Asked
  <1>12. Earned(t)
    BY <1>2, <1>3, <1>5 DEF Earned, Credit
  <1>13. QED
    BY <1>9, <1>10, <1>11, <1>12, StepSound

\* A turn that writes goes on to its next stage.
Writes(t, stage) == Goes(t, stage) /\ turn[t].stage \in Writing /\ stage \in {"askingHalf", "replyingHalf", "savingTrace",
                      "summarizing", "counting", "written"} /\ UNCHANGED <<line, find, reset, dropped, told>>

LEMMA WritesKeeps ==
  ASSUME ConvInv, NEW t \in Turns, NEW stage, Writes(t, stage), turn[t].stage \in Past => stage \in Past
  PROVE  /\ Keeps(t) /\ MovesOn(t) /\ ToldOne(t) /\ Asked(t) /\ Home(t) \in Sessions /\ Home(t)' = Home(t) /\ TurnSound(t)
         /\ FoldersShape /\ UNCHANGED <<line, find, reset, dropped, told>> /\ t \notin told'
         /\ turn'[t].stage = stage /\ turn'[t].knew = turn[t].knew /\ turn'[t].remember = turn[t].remember
         /\ turn'[t].kind # "openai" /\ turn'[t].remember => turn'[t].draft = "prose"
  <1>0. ConvShape /\ TurnsShape /\ FoldersShape /\ TurnSound(t)
    BY DEF ConvInv, ConvShape
  <1>1. Asked(t) /\ Home(t) \in Sessions
    BY <1>0 DEF Writes, Asked, TurnsShape, Writing
  <1>2. stage \in Stages /\ stage # "unasked"
    BY DEF Writes, Stages, Writing
  <1>3. Keeps(t) /\ turn'[t].stage = stage /\ turn'[t].knew = turn[t].knew
           /\ turn'[t].draft = turn[t].draft /\ turn'[t].remember = turn[t].remember
    BY <1>0, <1>1, <1>2, GoesTo DEF Writes
  <1>4. MovesOn(t) /\ ToldOne(t)
    BY <1>2, <1>3 DEF MovesOn, ToldOne, Writes
  <1>5. t \notin told'
    BY <1>0 DEF TurnSound, Writes, Writing
  <1>6. turn'[t].kind # "openai" /\ turn'[t].remember => turn'[t].draft = "prose"
    BY <1>0, <1>3 DEF TurnSound, Keeps
  <1>7. QED
    BY <1>0, <1>1, <1>3, <1>4, <1>5, <1>6 DEF Writes, Keeps, Home

LEMMA WritesLines ==
  ASSUME ConvInv, NEW t \in Turns, NEW stage, Writes(t, stage), Effect(t), turn'[t].stage = stage
  PROVE  LinesInv' /\ LivesInv'
  <1>1. turn[t].stage \in InTurn /\ turn'[t].stage \in InTurn
    BY DEF Writes, InTurn, Writing
  <1>2. Holds(Home(t), t) /\ folder[Home(t)].info
    BY <1>1 DEF ConvInv, LinesInv
  <1>3. QED
    BY <1>1, <1>2, LinesStay DEF InLine, Writes
LEMMA StoreOpenedSound == ASSUME ConvInv, NEW t \in Turns, StoreOpened(t) PROVE ConvInv'
  <1>1. Writes(t, "askingHalf") /\ (turn[t].stage \in Past => "askingHalf" \in Past)
    BY DEF StoreOpened, Writes, Writing, Past
  <1>2. /\ Keeps(t) /\ MovesOn(t) /\ ToldOne(t) /\ Asked(t) /\ Home(t) \in Sessions /\ Home(t)' = Home(t) /\ TurnSound(t)
        /\ UNCHANGED <<line, find, reset, dropped, told>> /\ t \notin told'
        /\ turn'[t].stage = "askingHalf" /\ turn'[t].knew = turn[t].knew /\ turn'[t].remember = turn[t].remember
        /\ turn'[t].kind # "openai" /\ turn'[t].remember => turn'[t].draft = "prose"
    BY <1>1, WritesKeeps
  <1>3. pen' = t /\ PenTurns(t) /\ UNCHANGED folder /\ line' \in [Sessions -> Seq(Queuers)] /\ turn[t].stage = "storing"
    BY <1>2 DEF StoreOpened, PenFor, PenTurns, ConvInv, ConvShape, RestShape
  <1>4. Effect(t)
    BY <1>2, <1>3, EffectQuiet
  <1>5. LinesInv' /\ LivesInv'
    BY <1>1, <1>2, <1>4, WritesLines
  <1>6. TurnSound(t)'
    <2>1. TurnsOf(turn'[t].knew) = TurnsOf(folder'[Home(t)'].memories)
      BY <1>2, <1>3 DEF TurnSound, Reflecting
    <2>2. QED
      BY <1>2, <1>3, <2>1 DEF TurnSound, Asked
  <1>7. Earned(t)
    BY <1>2 DEF Earned, Credit
  <1>8. QED
    BY <1>4, <1>5, <1>6, <1>7, StepSound

LEMMA UserAppendedSound == ASSUME ConvInv, NEW t \in Turns, UserAppended(t) PROVE ConvInv'
  <1>1. Writes(t, "replyingHalf") /\ (turn[t].stage \in Past => "replyingHalf" \in Past)
    BY DEF UserAppended, Writes, Writing, Past
  <1>2. /\ Keeps(t) /\ MovesOn(t) /\ ToldOne(t) /\ Asked(t) /\ Home(t) \in Sessions /\ Home(t)' = Home(t) /\ TurnSound(t)
        /\ UNCHANGED <<line, find, reset, dropped, told>> /\ t \notin told' /\ FoldersShape
        /\ turn'[t].stage = "replyingHalf" /\ turn'[t].knew = turn[t].knew /\ turn'[t].remember = turn[t].remember
        /\ turn'[t].kind # "openai" /\ turn'[t].remember => turn'[t].draft = "prose"
    BY <1>1, WritesKeeps
  <1>3. pen = t /\ pen' = t /\ PenTurns(t) /\ turn[t].stage = "askingHalf" /\ t \in Writers
    BY <1>2 DEF UserAppended, TurnSound, PenTurns, Writers
  <1>4. PICK e : /\ e = Halved(Home(t), t) /\ MadeOf(Home(t), e)
                 /\ e.memories = folder[Home(t)].memories /\ e.half = t
    BY <1>2, <1>3, MadeHalved
  <1>5. OnDisk(Home(t), e)
    BY <1>4 DEF UserAppended
  <1>6. Effect(t) /\ folder'[Home(t)] = e
    BY <1>2, <1>3, <1>4, <1>5, EffectWrites
  <1>7. LinesInv' /\ LivesInv'
    BY <1>1, <1>2, <1>6, WritesLines
  <1>8. TurnSound(t)'
    <2>1. TurnsOf(turn'[t].knew) = TurnsOf(folder'[Home(t)'].memories) /\ folder'[Home(t)'].half = t
      BY <1>2, <1>3, <1>4, <1>6 DEF TurnSound, Reflecting
    <2>2. QED
      BY <1>2, <1>3, <2>1 DEF TurnSound, Asked
  <1>9. Earned(t)
    BY <1>2 DEF Earned, Credit
  <1>10. QED
    BY <1>6, <1>7, <1>8, <1>9, StepSound

LEMMA AssistantAppendedSound == ASSUME ConvInv, NEW t \in Turns, AssistantAppended(t) PROVE ConvInv'
  <1>1. Writes(t, "savingTrace") /\ (turn[t].stage \in Past => "savingTrace" \in Past)
    BY DEF AssistantAppended, Writes, Writing, Past
  <1>2. /\ Keeps(t) /\ MovesOn(t) /\ ToldOne(t) /\ Asked(t) /\ Home(t) \in Sessions /\ Home(t)' = Home(t) /\ TurnSound(t)
        /\ UNCHANGED <<line, find, reset, dropped, told>> /\ t \notin told' /\ FoldersShape
        /\ turn'[t].stage = "savingTrace" /\ turn'[t].knew = turn[t].knew /\ turn'[t].remember = turn[t].remember
        /\ turn'[t].kind # "openai" /\ turn'[t].remember => turn'[t].draft = "prose"
    BY <1>1, WritesKeeps
  <1>3. /\ pen = t /\ pen' = "none" /\ PenTurns(t) /\ turn[t].stage = "replyingHalf" /\ t \in Writers
        /\ folder[Home(t)].half = t
    BY <1>2 DEF AssistantAppended, TurnSound, PenTurns, Writers
  <1>4. PICK e : /\ e = Paired(Home(t), t) /\ MadeOf(Home(t), e) /\ e.half = "none"
                 /\ e.memories = Append(folder[Home(t)].memories, [asked |-> t, said |-> t])
    BY <1>2, <1>3, MadePaired
  <1>5. OnDisk(Home(t), e)
    BY <1>4 DEF AssistantAppended
  <1>6. folder'[Home(t)] = e /\ FoldersShape'
    BY <1>2, <1>4, <1>5, FolderPut DEF MadeOf
  <1>7. Remembers(t)
    BY <1>2, <1>3, <1>4, <1>6 DEF Remembers, Past, Home
  <1>8. Effect(t)
    BY <1>2, <1>3, <1>4, <1>5, <1>7, EffectWrites
  <1>9. LinesInv' /\ LivesInv'
    BY <1>1, <1>2, <1>8, WritesLines
  <1>10. TurnSound(t)'
    <2>1. PICK m \in Seq(Memory) : m = folder[Home(t)].memories
      BY <1>2 DEF FoldersShape, FolderOk
    <2>2. PICK x \in Memory : x = [asked |-> t, said |-> t] /\ x.said = t
      BY <1>3, PairIs
    <2>3. Len(m) + 1 \in DOMAIN Append(m, x) /\ Append(m, x)[Len(m) + 1] = x
      OBVIOUS
    <2>4. folder'[Home(t)'].memories = Append(m, x)
      BY <1>2, <1>4, <1>6, <2>1, <2>2
    <2>5. Remembered(t)'
      BY <2>2, <2>3, <2>4 DEF Remembered
    <2>6. QED
      BY <1>2, <1>3, <2>5 DEF TurnSound, Asked, Reflecting, Thinking
  <1>11. Earned(t)
    BY <1>2 DEF Earned, Credit
  <1>12. QED
    BY <1>8, <1>9, <1>10, <1>11, StepSound
LEMMA TraceSavedSound == ASSUME ConvInv, NEW t \in Turns, TraceSaved(t) PROVE ConvInv'
  <1>1. Writes(t, "summarizing") /\ (turn[t].stage \in Past => "summarizing" \in Past)
    BY DEF TraceSaved, Writes, Writing, Past
  <1>2. /\ Keeps(t) /\ MovesOn(t) /\ ToldOne(t) /\ Asked(t) /\ Home(t) \in Sessions /\ Home(t)' = Home(t) /\ TurnSound(t)
        /\ UNCHANGED <<line, find, reset, dropped, told>> /\ t \notin told' /\ FoldersShape
        /\ turn'[t].stage = "summarizing" /\ turn'[t].knew = turn[t].knew /\ turn'[t].remember = turn[t].remember
        /\ turn'[t].kind # "openai" /\ turn'[t].remember => turn'[t].draft = "prose"
    BY <1>1, WritesKeeps
  <1>3. pen' = pen /\ PenTurns(t) /\ turn[t].stage = "savingTrace"
    BY <1>2 DEF TraceSaved, PenTurns
  <1>4. PICK e : /\ e = [folder[Home(t)] EXCEPT !.there = TRUE, !.traces = @ \cup {t}] /\ MadeOf(Home(t), e)
                 /\ e.memories = folder[Home(t)].memories /\ e.half = folder[Home(t)].half /\ t \in e.traces
    BY <1>2, MadeTrace
  <1>5. OnDisk(Home(t), e)
    BY <1>4 DEF TraceSaved
  <1>6. Effect(t) /\ folder'[Home(t)] = e
    BY <1>2, <1>3, <1>4, <1>5, EffectWrites
  <1>7. LinesInv' /\ LivesInv'
    BY <1>1, <1>2, <1>6, WritesLines
  <1>8. TurnSound(t)'
    <2>1. turn'[t].remember => Remembered(t)'
      BY <1>2, <1>3, <1>4, <1>6 DEF TurnSound, Remembered
    <2>2. t \in folder'[Home(t)'].traces
      BY <1>2, <1>4, <1>6
    <2>3. QED
      BY <1>2, <1>3, <2>1, <2>2 DEF TurnSound, Asked, Reflecting, Thinking
  <1>9. Earned(t)
    BY <1>2 DEF Earned, Credit
  <1>10. QED
    BY <1>6, <1>7, <1>8, <1>9, StepSound

LEMMA SummarizedSound == ASSUME ConvInv, NEW t \in Turns, Summarized(t) PROVE ConvInv'
  <1>0. PICK stage \in {"counting", "written"} : stage = IF turn[t].remember THEN "counting" ELSE "written"
    OBVIOUS
  <1>1. Writes(t, stage) /\ (turn[t].stage \in Past => stage \in Past)
    BY <1>0 DEF Summarized, Writes, Writing, Past
  <1>2. /\ Keeps(t) /\ MovesOn(t) /\ ToldOne(t) /\ Asked(t) /\ Home(t) \in Sessions /\ Home(t)' = Home(t) /\ TurnSound(t)
        /\ UNCHANGED <<line, find, reset, dropped, told>> /\ t \notin told' /\ FoldersShape
        /\ turn'[t].stage = stage /\ turn'[t].knew = turn[t].knew /\ turn'[t].remember = turn[t].remember
        /\ turn'[t].kind # "openai" /\ turn'[t].remember => turn'[t].draft = "prose"
    BY <1>1, WritesKeeps
  <1>3. pen' = pen /\ PenTurns(t) /\ turn[t].stage = "summarizing"
    BY <1>2 DEF Summarized, PenTurns
  <1>4. PICK e : /\ e = [folder[Home(t)] EXCEPT !.summaries = Append(@, t)] /\ MadeOf(Home(t), e)
                 /\ e.memories = folder[Home(t)].memories /\ e.half = folder[Home(t)].half /\ t \in Range(e.summaries)
    BY <1>2, MadeSummary
  <1>5. OnDisk(Home(t), e)
    BY <1>4 DEF Summarized
  <1>6. Effect(t) /\ folder'[Home(t)] = e
    BY <1>2, <1>3, <1>4, <1>5, EffectWrites
  <1>7. LinesInv' /\ LivesInv'
    BY <1>1, <1>2, <1>6, WritesLines
  <1>8. TurnSound(t)'
    <2>1. turn'[t].remember => Remembered(t)'
      BY <1>2, <1>3, <1>4, <1>6 DEF TurnSound, Remembered
    <2>2. Recorded(t)'
      <3>1. t \in folder[Home(t)].traces
        BY <1>2, <1>3 DEF TurnSound
      <3>2. t \in folder'[Home(t)].traces
        BY <1>2, <1>4, <1>6, <3>1 DEF MadeOf
      <3>3. QED
        BY <1>2, <1>4, <1>6, <3>2 DEF Recorded
    <2>3. turn'[t].stage = "counting" => turn'[t].remember
      BY <1>0, <1>2
    <2>4. QED
      BY <1>0, <1>2, <1>3, <2>1, <2>2, <2>3 DEF TurnSound, Asked, Reflecting, Thinking
  <1>9. Earned(t)
    BY <1>0, <1>2 DEF Earned, Credit
  <1>10. QED
    BY <1>6, <1>7, <1>8, <1>9, StepSound

LEMMA CountedSound == ASSUME ConvInv, NEW t \in Turns, Counted(t) PROVE ConvInv'
  <1>1. Writes(t, "written") /\ (turn[t].stage \in Past => "written" \in Past)
    BY DEF Counted, Writes, Writing, Past
  <1>2. /\ Keeps(t) /\ MovesOn(t) /\ ToldOne(t) /\ Asked(t) /\ Home(t) \in Sessions /\ Home(t)' = Home(t) /\ TurnSound(t)
        /\ UNCHANGED <<line, find, reset, dropped, told>> /\ t \notin told' /\ FoldersShape
        /\ turn'[t].stage = "written" /\ turn'[t].knew = turn[t].knew /\ turn'[t].remember = turn[t].remember
        /\ turn'[t].kind # "openai" /\ turn'[t].remember => turn'[t].draft = "prose"
    BY <1>1, WritesKeeps
  <1>3. pen' = pen /\ PenTurns(t) /\ turn[t].stage = "counting"
    BY <1>2 DEF Counted, PenTurns
  <1>4. PICK e : /\ e = [folder[Home(t)] EXCEPT !.count = @ + 1] /\ MadeOf(Home(t), e) /\ e.count = folder[Home(t)].count + 1
                 /\ e.memories = folder[Home(t)].memories /\ e.half = folder[Home(t)].half
    BY <1>2, MadeCount
  <1>5. OnDisk(Home(t), e)
    BY <1>4 DEF Counted
  <1>6. Effect(t) /\ folder'[Home(t)] = e
    BY <1>2, <1>3, <1>4, <1>5, EffectWrites
  <1>7. LinesInv' /\ LivesInv'
    BY <1>1, <1>2, <1>6, WritesLines
  <1>8. TurnSound(t)'
    <2>1. turn'[t].remember => Remembered(t)'
      BY <1>2, <1>3, <1>4, <1>6 DEF TurnSound, Remembered
    <2>2. Recorded(t)'
      <3>1. t \in folder[Home(t)].traces /\ t \in Range(folder[Home(t)].summaries)
        BY <1>2, <1>3 DEF TurnSound, Recorded
      <3>2. t \in e.traces /\ t \in Range(e.summaries)
        BY <1>4, <3>1 DEF MadeOf
      <3>3. QED
        BY <1>2, <1>6, <3>2 DEF Recorded
    <2>3. QED
      BY <1>2, <1>3, <2>1, <2>2 DEF TurnSound, Asked, Reflecting, Thinking
  <1>9. Earned(t)
    BY <1>4, <1>6 DEF Earned, Home
  <1>10. QED
    BY <1>6, <1>7, <1>8, <1>9, StepSound

\* A turn that is over leaves its line.
LEMMA OverSound ==
  ASSUME ConvInv, NEW t \in Turns, NEW stage \in {"ended", "orphan"}, Asked(t), Goes(t, stage), line' = LineWithout(t),
         turn[t].stage \in Past => stage = "ended", PenTurns(t), stage \in {"ended", "orphan"}, ToldOne(t),
         UNCHANGED <<folder, find, reset, dropped>>, TurnSound(t)', Earned(t)
  PROVE  ConvInv'
  <1>0. TurnsShape /\ stage \in Stages
    BY DEF ConvInv, ConvShape, Stages
  <1>1. Keeps(t) /\ turn'[t].stage = stage /\ turn'[t].knew = turn[t].knew
    BY <1>0, GoesTo
  <1>2. LeavesLine(t, Home(t))
    BY WithoutLeaves
  <1>3. MovesOn(t)
    BY <1>1 DEF MovesOn, Past
  <1>4. line' \in [Sessions -> Seq(Queuers)]
    BY <1>2 DEF LeavesLine
  <1>5. Effect(t)
    BY <1>1, <1>3, <1>4, EffectQuiet
  <1>6. turn'[t].stage \notin InLine
    BY <1>1 DEF InLine, InTurn, Thinking, Writing
  <1>7. LinesInv' /\ LivesInv'
    BY <1>2, <1>5, <1>6, LinesLeft
  <1>8. QED
    BY <1>5, <1>7, StepSound

LEMMA OverTurn ==
  ASSUME ConvInv, NEW t \in Turns, NEW stage \in {"ended", "orphan"}, Asked(t), Goes(t, stage), UNCHANGED <<folder, dropped>>
  PROVE  /\ turn'[t].stage = stage /\ turn'[t].remember = turn[t].remember /\ Home(t)' = Home(t)
         /\ turn'[t].kind # "openai" /\ turn'[t].remember => turn'[t].draft = "prose"
         /\ (Remembered(t) => Remembered(t)') /\ (Recorded(t) => Recorded(t)')
  <1>0. TurnsShape /\ stage \in Stages /\ TurnSound(t)
    BY DEF ConvInv, ConvShape, Stages
  <1>1. Keeps(t) /\ turn'[t].stage = stage /\ turn'[t].remember = turn[t].remember /\ turn'[t].draft = turn[t].draft
    BY <1>0, GoesTo
  <1>2. Home(t)' = Home(t)
    BY <1>1 DEF Keeps, Home
  <1>3. QED
    BY <1>0, <1>1, <1>2 DEF TurnSound, Keeps, Remembered, Recorded

LEMMA WriteFailsSound == ASSUME ConvInv, NEW t \in Turns, WriteFails(t) PROVE ConvInv'
  <1>1. Asked(t) /\ Goes(t, "ended") /\ line' = LineWithout(t) /\ UNCHANGED <<folder, find, reset, dropped, told>>
    BY DEF WriteFails, AfterFailure, Asked, Writing
  <1>2. PenTurns(t) /\ ToldOne(t) /\ TurnSound(t)
    BY <1>1 DEF WriteFails, PenTurns, ToldOne, ConvInv
  <1>3. t \notin told'
    BY <1>1, <1>2 DEF TurnSound, WriteFails, Writing
  <1>4. /\ turn'[t].stage = "ended"
        /\ turn'[t].kind # "openai" /\ turn'[t].remember => turn'[t].draft = "prose"
    BY <1>1, OverTurn
  <1>5. TurnSound(t)'
    BY <1>3, <1>4 DEF TurnSound, Asked, Reflecting, Thinking
  <1>6. Earned(t)
    BY <1>3, <1>4 DEF Earned, Credit
  <1>7. QED
    BY <1>1, <1>2, <1>5, <1>6, OverSound

LEMMA TurnDoneSound == ASSUME ConvInv, NEW t \in Turns, TurnDone(t) PROVE ConvInv'
  <1>1. Asked(t) /\ Goes(t, "ended") /\ line' = LineWithout(t) /\ UNCHANGED <<folder, find, reset, dropped, pen>>
    BY DEF TurnDone, Asked
  <1>2. PenTurns(t) /\ ToldOne(t) /\ TurnSound(t) /\ turn[t].stage = "written"
    BY <1>1 DEF TurnDone, PenTurns, ToldOne, ConvInv
  <1>3. /\ turn'[t].stage = "ended" /\ Home(t)' = Home(t)
        /\ turn'[t].kind # "openai" /\ turn'[t].remember => turn'[t].draft = "prose"
        /\ (Remembered(t) => Remembered(t)') /\ (Recorded(t) => Recorded(t)')
    BY <1>1, OverTurn
  <1>4. t \in told' => Remembered(t)' /\ Recorded(t)' /\ turn[t].remember
    <2>1. t \notin told
      BY <1>2 DEF TurnSound
    <2>2. t \in told' => turn[t].remember
      BY <2>1 DEF TurnDone
    <2>3. turn[t].remember => Remembered(t) /\ Recorded(t)
      BY <1>2 DEF TurnSound
    <2>4. QED
      BY <1>3, <2>2, <2>3
  <1>5. TurnSound(t)'
    BY <1>3, <1>4 DEF TurnSound, Asked, Reflecting, Thinking
  <1>6. Earned(t)
    BY <1>2, <1>3, <1>4 DEF Earned, Credit
  <1>7. QED
    BY <1>1, <1>2, <1>5, <1>6, OverSound
\* What the invariant is about.
inPlay == <<folder, turn, line, find, pen, reset, dropped, told>>

LEMMA NothingMoves == ConvInv /\ UNCHANGED inPlay => ConvInv'
  <1> SUFFICES ASSUME ConvInv, UNCHANGED inPlay PROVE ConvInv'
    OBVIOUS
  <1> USE DEF inPlay
  <1>1. ConvShape'
    BY DEF ConvInv, ConvShape, TurnsShape, FoldersShape, RestShape, FolderOk, Asked, Home
  <1>2. LinesInv' /\ LivesInv'
    BY DEF ConvInv, LinesInv, LivesInv, Home, Holds, Unmade, Asked
  <1>3. (\A t \in Turns : TurnSound(t))'
    BY DEF ConvInv, TurnSound, Remembered, Recorded, Home, Asked
  <1>4. (\A f \in Finds : FindSound(f))'
    BY DEF ConvInv, FindSound, FindHome, TheSession
  <1>5. (\A s \in Sessions : SessionSound(s))'
    <2>1. \A s \in Sessions : SessionSound(s)
      BY DEF ConvInv
    <2>2. \A s \in Sessions : Credited(s)' = Credited(s)
      BY DEF Credited, Home
    <2>3. \A s \in Sessions : CountIn(s)'
      BY <2>1, <2>2 DEF SessionSound, CountIn
    <2>4. \A s \in Sessions : PairsIn(s)' /\ PastIn(s)' /\ SerialIn(s)'
      BY <2>1 DEF SessionSound, PairsIn, PastIn, SerialIn
    <2>5. QED
      BY <2>3, <2>4 DEF SessionSound
  <1>6. QED
    BY <1>1, <1>2, <1>3, <1>4, <1>5 DEF ConvInv

LEMMA ClientLeavesSound == ASSUME ConvInv, NEW t \in Turns, ClientLeaves(t) PROVE ConvInv'
  <1>0. TurnsShape /\ TurnSound(t) /\ UNCHANGED <<folder, find, pen, reset, dropped, told>>
    BY DEF ConvInv, ConvShape, ClientLeaves
  <1>1. CASE turn[t].stage \in Writing
    <2>1. Goes(t, turn[t].stage) /\ line' = line
      BY <1>1 DEF ClientLeaves, StaysLocked, Writing
    <2>2. turn' = [turn EXCEPT ![t] = [turn[t] EXCEPT !.stage = turn[t].stage]]
      BY <2>1, <1>0 DEF Goes, TurnsShape
    <2>3. [turn[t] EXCEPT !.stage = turn[t].stage] = turn[t]
      <3>1. turn[t] = [stage |-> turn[t].stage, home |-> turn[t].home, request |-> turn[t].request,
                     kind |-> turn[t].kind, knew |-> turn[t].knew, draft |-> turn[t].draft,
                     remember |-> turn[t].remember]
        BY <1>0 DEF TurnsShape
      <3>2. QED
        BY <3>1
    <2>4. turn' = turn
      BY <1>0, <2>2, <2>3 DEF TurnsShape
    <2>5. QED
      BY <1>0, <2>1, <2>4, NothingMoves DEF inPlay
  <1>2. CASE turn[t].stage \notin Writing
    <2>1. turn[t].stage \in {"waiting", "retrieving"} \cup Thinking
      BY <1>2 DEF ClientLeaves
    <2>2. PICK stage \in {"ended", "orphan"} : stage = IF turn[t].stage = "retrieving" THEN "orphan" ELSE "ended"
      OBVIOUS
    <2>3. Goes(t, stage) /\ line' = LineWithout(t)
      BY <1>2, <2>2 DEF ClientLeaves, StaysLocked
    <2>4. Asked(t) /\ turn[t].stage \notin Past /\ turn[t].stage # "ended"
      BY <2>1 DEF Asked, Thinking, Past
    <2>5. t \notin told' /\ ToldOne(t) /\ PenTurns(t)
      BY <1>0, <2>4 DEF TurnSound, ToldOne, PenTurns
    <2>6. /\ turn'[t].stage = stage
          /\ turn'[t].kind # "openai" /\ turn'[t].remember => turn'[t].draft = "prose"
      BY <1>0, <2>3, <2>4, OverTurn
    <2>7. TurnSound(t)'
      BY <2>5, <2>6 DEF TurnSound, Asked, Reflecting, Thinking
    <2>8. Earned(t)
      BY <2>5, <2>6 DEF Earned, Credit
    <2>9. QED
      BY <1>0, <2>3, <2>4, <2>5, <2>7, <2>8, OverSound
  <1>3. QED
    BY <1>1, <1>2

LEMMA TurnAskedSound ==
  ASSUME ConvInv, NEW t \in Turns, NEW s \in Sessions, NEW r, NEW k, TurnAsked(t, s, r, k) PROVE ConvInv'
  <1>0. /\ ConvShape /\ TurnsShape /\ LinesInv /\ LivesInv /\ TurnSound(t) /\ turn[t].stage = "unasked" /\ folder[s].info
        /\ UNCHANGED <<folder, find, pen, reset, dropped, told>> /\ line \in [Sessions -> Seq(Queuers)]
    BY DEF ConvInv, ConvShape, RestShape, TurnAsked
  <1>1. t \notin told /\ turn[t].stage \notin Past /\ turn[t].stage \notin InLine /\ ~turn[t].remember
    BY <1>0 DEF TurnSound, Past, InLine, InTurn, Thinking, Writing, Asked
  <1>2. /\ TurnsShape' /\ \A u \in Turns : u # t => turn'[u] = turn[u]
        /\ turn'[t].stage = "waiting" /\ turn'[t].home = s /\ ~turn'[t].remember
    <2>1. turn' = [turn EXCEPT ![t] = [turn[t] EXCEPT !.stage = "waiting", !.home = s, !.request = r, !.kind = k]]
      BY DEF TurnAsked
    <2>2. turn[t] = [stage |-> turn[t].stage, home |-> turn[t].home, request |-> turn[t].request,
                     kind |-> turn[t].kind, knew |-> turn[t].knew, draft |-> turn[t].draft,
                     remember |-> turn[t].remember]
      BY <1>0 DEF TurnsShape
    <2>3. turn'[t] = [turn[t] EXCEPT !.stage = "waiting", !.home = s, !.request = r, !.kind = k]
      BY <1>0, <2>1 DEF TurnsShape
    <2>4. turn'[t] = [stage |-> "waiting", home |-> s, request |-> r, kind |-> k, knew |-> turn[t].knew,
                      draft |-> turn[t].draft, remember |-> turn[t].remember]
      BY <2>2, <2>3
    <2>5. \A u \in Turns : u # t => turn'[u] = turn[u]
      BY <2>1, <1>0 DEF TurnsShape
    <2>6. turn' = [u \in Turns |-> turn'[u]]
      BY <2>1, <1>0 DEF TurnsShape
    <2>7. /\ turn'[t].stage = "waiting" /\ turn'[t].home = s /\ turn'[t].request = r
          /\ turn'[t].kind = k /\ turn'[t].knew = turn[t].knew
          /\ turn'[t].draft = turn[t].draft /\ turn'[t].remember = turn[t].remember
      BY <2>4
    <2>8. \A u \in Turns : turn'[u] = [stage |-> turn'[u].stage, home |-> turn'[u].home, request |-> turn'[u].request,
                kind |-> turn'[u].kind, knew |-> turn'[u].knew, draft |-> turn'[u].draft,
                remember |-> turn'[u].remember]
      <3> TAKE u \in Turns
      <3>1. CASE u = t
        BY <3>1, <2>4, <2>7
      <3>2. CASE u # t
        <4>1. turn'[u] = turn[u]
          BY <3>2, <2>5
        <4>2. QED
          BY <4>1, <1>0 DEF TurnsShape
      <3>3. QED
        BY <3>1, <3>2
    <2>9. \A u \in Turns : /\ turn'[u].stage \in Stages /\ turn'[u].knew \in Seq(Memory)
                           /\ (turn'[u].stage # "unasked" => turn'[u].home \in Sessions)
      BY <1>0, <2>5, <2>7 DEF TurnsShape, Asked, Home, Stages
    <2>10. TurnsShape'
      BY <2>6, <2>8, <2>9 DEF TurnsShape, Asked, Home
    <2>11. QED
      BY <1>1, <2>5, <2>7, <2>10
  <1>3. PICK q : q = Append(line[s], t)
    OBVIOUS
  <1>4. line' = [line EXCEPT ![s] = q]
    BY <1>3 DEF TurnAsked
  <1>5. line[s] \in Seq(Queuers) /\ Distinct(line[s]) /\ t \notin Range(line[s]) /\ t \in Queuers
    BY <1>0, <1>1 DEF LinesInv, InLine, Queuers
  <1>6. /\ q \in Seq(Queuers) /\ Distinct(q) /\ Range(q) = Range(line[s]) \cup {t}
        /\ q # <<>> /\ (line[s] # <<>> => Head(q) = Head(line[s]))
    BY <1>3, <1>5, LineAppend
  <1>7. line' \in [Sessions -> Seq(Queuers)] /\ line'[s] = q /\ \A x \in Sessions : x # s => line'[x] = line[x]
    BY <1>0, <1>4, <1>6
  <1>8. ConvShape'
    BY <1>0, <1>2, <1>7 DEF ConvShape, RestShape, FoldersShape, FolderOk
  <1>9. \A x \in Sessions : line[x] # <<>> => line'[x] # <<>> /\ Head(line'[x]) = Head(line[x])
    BY <1>6, <1>7
  <1>10. LinesInv'
    <2>1. \A x \in Sessions : Distinct(line'[x])
      BY <1>0, <1>6, <1>7 DEF LinesInv
    <2>2. \A x \in Sessions : \A w \in Range(line'[x]) :
       IF w \in Turns THEN turn'[w].home = x /\ turn'[w].stage \in InLine ELSE reset.step # "none" /\ reset.home = x
      <3>1. \A x \in Sessions : \A w \in Range(line[x]) :
         IF w \in Turns THEN turn[w].home = x /\ turn[w].stage \in InLine ELSE reset.step # "none" /\ reset.home = x
        BY <1>0 DEF LinesInv, InLine, Home
      <3>2. \A x \in Sessions : \A w \in Range(line'[x]) : w \in Range(line[x]) \/ (w = t /\ x = s)
        BY <1>6, <1>7
      <3>3. t \in Turns /\ turn'[t].stage \in InLine
        BY <1>2 DEF InLine
      <3>4. QED
        BY <1>1, <1>2, <3>1, <3>2, <3>3
    <2>3. \A u \in Turns : turn'[u].stage \in InTurn => line'[turn'[u].home] # <<>> /\ Head(line'[turn'[u].home]) = u
                                                     /\ folder[turn'[u].home].info
      <3> TAKE u \in Turns
      <3>1. HAVE turn'[u].stage \in InTurn
      <3>2. u # t
        BY <1>2, <3>1 DEF InTurn, Thinking, Writing
      <3>3. Holds(Home(u), u) /\ folder[Home(u)].info /\ Home(u) \in Sessions /\ turn'[u] = turn[u]
        <4>1. Asked(u) /\ turn'[u] = turn[u]
          BY <1>2, <3>1, <3>2 DEF Asked, InTurn, Thinking, Writing
        <4>2. QED
          BY <1>0, <3>1, <4>1 DEF TurnsShape, LinesInv
      <3>4. QED
        BY <1>9, <3>3 DEF Holds, Home
    <2>4. reset.step = "removed" => line'[reset.home] # <<>> /\ Head(line'[reset.home]) = "reset"
      BY <1>0, <1>9 DEF LinesInv, Holds, ConvShape, RestShape
    <2>5. QED
      BY <1>0, <2>1, <2>2, <2>3, <2>4 DEF LinesInv, Holds, Home, InLine
  <1>11. LivesInv'
    <2>1. \A x \in Sessions : Unmade(x) => Unmade(x)'
      <3> TAKE x \in Sessions
      <3>1. HAVE Unmade(x)
      <3>2. x # s
        BY <1>0, <3>1 DEF Unmade, Nothing
      <3>3. QED
        BY <1>0, <1>2, <1>7, <3>1, <3>2 DEF Unmade, Asked, Home
    <2>2. QED
      BY <1>0, <2>1 DEF LivesInv, ConvShape, RestShape
  <1>12. \A u \in Turns : TurnSound(u)'
    <2> TAKE u \in Turns
    <2>1. CASE u = t
      BY <1>0, <1>1, <1>2, <2>1 DEF TurnSound, Asked, Reflecting, Thinking
    <2>2. CASE u # t
      <3>1. TurnSound(u) /\ turn'[u] = turn[u]
        BY <1>2, <2>2 DEF ConvInv
      <3>2. QED
        BY <1>0, <3>1 DEF TurnSound, Remembered, Recorded, Home, Asked
    <2>3. QED
      BY <2>1, <2>2
  <1>13. \A f \in Finds : FindSound(f)'
    BY <1>0 DEF ConvInv, FindSound, FindHome, TheSession
  <1>14. \A x \in Sessions : SessionSound(x)'
    <2> TAKE x \in Sessions
    <2>0. SessionSound(x)
      BY DEF ConvInv
    <2>1. SettledStay
      BY <1>1, <1>2 DEF SettledStay
    <2>2. PairsIn(x)' /\ PastIn(x)' /\ SerialIn(x)'
      BY <1>0, <2>0, <2>1, SessionSame
    <2>3. \A u \in Turns : Credit(u)' => Credit(u) /\ (Home(u))' = Home(u)
      BY <1>0, <1>1, <1>2 DEF Credit, Home
    <2>4. /\ Credited(x) = {u \in Turns : Home(u) = x /\ Credit(u)}
          /\ Credited(x)' = {u \in Turns : (Home(u))' = x /\ Credit(u)'}
      BY DEF Credited, Credit
    <2>5. Credited(x)' \subseteq Credited(x)
      BY <2>3, <2>4
    <2>6. folder[x].count \in Nat /\ folder'[x].count >= folder[x].count
      BY <1>0 DEF ConvShape, FoldersShape, FolderOk
    <2>7. CountIn(x)'
      BY <1>0, <2>0, <2>5, <2>6, CountSame DEF SessionSound
    <2>8. QED
      BY <2>2, <2>7 DEF SessionSound
  <1>15. QED
    BY <1>8, <1>10, <1>11, <1>12, <1>13, <1>14 DEF ConvInv
-----------------------------------------------------------------------------
\* What a step of finished research does.
Appends(f) == folder'[FindHome].memories = Append(folder[FindHome].memories, [asked |-> f, said |-> f])

FindEffect(f) ==
  /\ ConvShape' /\ UNCHANGED <<turn, line, reset, dropped, told>>
  /\ (\A s \in Sessions : s # FindHome => folder'[s] = folder[s]) /\ MadeOf(FindHome, folder'[FindHome])
  /\ pen' = pen \/ (pen = "none" /\ pen' = f) \/ (pen = f /\ pen' = "none")
  /\ folder'[FindHome].half = folder[FindHome].half \/ pen = f
  /\ folder'[FindHome].memories = folder[FindHome].memories \/ Appends(f)
  /\ \A g \in Finds : g # f => find'[g] = find[g]
  /\ find'[f] \in WithPen => pen' = f
  /\ find'[f] = "replying" => folder'[FindHome].half = f

LEMMA FindStepSound == ASSUME ConvInv, NEW f \in Finds, FindEffect(f) PROVE ConvInv'
  <1>0. ConvShape /\ LinesInv /\ LivesInv /\ FindHas /\ dropped \subseteq Sessions /\ f # "none" /\ f \notin Turns /\ f \in Writers
    BY FindIs, ConversationAssumption DEF ConvInv, ConvShape, RestShape, Writers
  <1>1. (\A s \in Sessions : folder'[s].info = folder[s].info) /\ UNCHANGED <<turn, line, reset, dropped, told>> /\ ConvShape'
    BY DEF FindEffect, MadeOf
  <1>2. LinesInv'
    <2>1. \A u \in Turns : turn[u].stage \in InTurn => Home(u) \in Sessions
      BY <1>0 DEF ConvShape, TurnsShape, Asked, InTurn, Thinking, Writing
    <2>2. QED
      BY <1>0, <1>1, <2>1 DEF LinesInv, Home, Holds
  <1>3. LivesInv'
    <2>1. \A s \in Sessions : folder'[s].info \/ s \in dropped' \/ Unmade(s)'
      <3> TAKE s \in Sessions
      <3>1. CASE s = FindHome
        BY <1>0, <1>1, <3>1 DEF FindHas
      <3>2. CASE s # FindHome
        <4>1. folder'[s] = folder[s]
          BY <3>2 DEF FindEffect
        <4>2. QED
          BY <1>0, <1>1, <4>1 DEF LivesInv, Unmade, Asked, Home
      <3>3. QED
        BY <3>1, <3>2
    <2>2. QED
      BY <1>0, <1>1, <2>1 DEF LivesInv, ConvShape, RestShape
  <1>4. FindHome' = FindHome /\ FindHome \in Sessions
    BY <1>0, <1>1, <1>3, FindStays DEF FindHas
  <1>5. \A w : w # "none" /\ w # f /\ pen = w => pen' = w /\ folder'[FindHome].half = folder[FindHome].half
    BY DEF FindEffect
  <1>6. \A s \in Sessions : TurnsOf(folder'[s].memories) = TurnsOf(folder[s].memories)
    <2> TAKE s \in Sessions
    <2>1. CASE folder'[s].memories = folder[s].memories
      BY <2>1
    <2>2. CASE folder'[s].memories # folder[s].memories
      <3>1. s = FindHome /\ Appends(f)
        BY <2>2 DEF FindEffect
      <3>2. PICK x \in Memory : x = [asked |-> f, said |-> f] /\ x.said = f
        BY <1>0, PairIs
      <3>3. folder[s].memories \in Seq(Memory)
        BY <1>0 DEF ConvShape, FoldersShape, FolderOk
      <3>4. folder'[s].memories = Append(folder[s].memories, x)
        BY <3>1, <3>2 DEF Appends
      <3>5. QED
        BY <1>0, <3>2, <3>3, <3>4, TurnsOfAppend
    <2>3. QED
      BY <2>1, <2>2
  <1>7. \A u \in Turns : Asked(u) /\ Remembered(u) => Remembered(u)'
    <2> TAKE u \in Turns
    <2>0. HAVE Asked(u) /\ Remembered(u)
    <2>1. PICK h \in Sessions : h = Home(u) /\ h = Home(u)' /\ folder[h].memories \in Seq(Memory)
      BY <1>0, <1>1, <2>0 DEF Home, ConvShape, TurnsShape, FoldersShape, FolderOk
    <2>2. PICK i \in DOMAIN folder[h].memories : folder[h].memories[i].said = u
      BY <2>0, <2>1 DEF Remembered
    <2>3. folder'[h].memories = folder[h].memories \/ \E x : folder'[h].memories = Append(folder[h].memories, x)
      BY <2>1 DEF FindEffect, Appends
    <2>4. i \in DOMAIN folder'[h].memories /\ folder'[h].memories[i] = folder[h].memories[i]
      BY <2>1, <2>2, <2>3
    <2>5. QED
      BY <2>1, <2>2, <2>4 DEF Remembered
  <1>8. \A s \in Sessions : folder[s].traces \subseteq folder'[s].traces /\ Range(folder[s].summaries) \subseteq Range(folder'[s].summaries)
                            /\ folder'[s].count >= folder[s].count /\ folder[s].count \in Nat /\ folder'[s].count \in Nat
    <2>1. \A s \in Sessions : folder[s].count \in Nat /\ folder'[s].count \in Nat
      BY <1>0, <1>1 DEF ConvShape, FoldersShape, FolderOk
    <2>2. \A s \in Sessions : folder'[s] = folder[s] \/ MadeOf(s, folder'[s])
      BY DEF FindEffect
    <2>3. QED
      BY <2>1, <2>2 DEF MadeOf
  <1>9. \A u \in Turns : TurnSound(u)'
    <2> TAKE u \in Turns
    <2>0. TurnSound(u) /\ u # f /\ u # "none" /\ (Asked(u) => Home(u) \in Sessions) /\ Home(u)' = Home(u) /\ turn' = turn
          /\ Asked(u)' = Asked(u)
      BY <1>0, <1>1, ConversationAssumption DEF ConvInv, ConvShape, TurnsShape, Home, Asked
    <2>1. pen = u => pen' = u /\ \A s \in Sessions : folder'[s].half = folder[s].half
      BY <1>5, <2>0 DEF FindEffect
    <2>2. /\ turn[u].stage \in {"askingHalf", "replyingHalf"} => pen' = u
          /\ turn[u].stage = "replyingHalf" => folder'[Home(u)].half = u
      BY <2>0, <2>1 DEF TurnSound, Asked
    <2>3. turn[u].stage \in Reflecting => TurnsOf(turn[u].knew) = TurnsOf(folder'[Home(u)].memories)
      <3>1. turn[u].stage \in Reflecting => Asked(u)
        BY DEF Reflecting, Thinking, Asked
      <3>2. QED
        BY <1>6, <2>0, <3>1 DEF TurnSound
    <2>4. Asked(u) /\ Recorded(u) => Recorded(u)'
      BY <1>8, <2>0 DEF Recorded
    <2>5. turn[u].stage = "summarizing" => u \in folder'[Home(u)].traces
      <3>1. turn[u].stage = "summarizing" => Home(u) \in Sessions /\ u \in folder[Home(u)].traces
        BY <2>0 DEF TurnSound, Asked
      <3>2. QED
        BY <1>8, <3>1
    <2>6. turn[u].stage \in {"savingTrace", "summarizing", "counting", "written", "ended"} => Asked(u)
      BY DEF Asked
    <2>7. QED
      BY <1>1, <1>7, <2>0, <2>2, <2>3, <2>4, <2>5, <2>6 DEF TurnSound
  <1>10. \A g \in Finds : FindSound(g)'
    <2> TAKE g \in Finds
    <2>1. CASE g = f
      BY <1>4, <2>1 DEF FindSound, FindEffect
    <2>2. CASE g # f
      <3>1. g # "none" /\ find'[g] = find[g] /\ FindSound(g)
        BY <2>2, ConversationAssumption DEF FindEffect, ConvInv
      <3>2. find[g] = "replying" => find[g] \in WithPen
        BY DEF WithPen
      <3>3. QED
        BY <1>4, <1>5, <2>2, <3>1, <3>2 DEF FindSound
    <2>3. QED
      BY <2>1, <2>2
  <1>11. \A s \in Sessions : SessionSound(s)'
    <2> TAKE s \in Sessions
    <2>0. SessionSound(s)
      BY DEF ConvInv
    <2>1. SettledStay
      BY <1>1 DEF SettledStay
    <2>2. PairsIn(s)' /\ PastIn(s)' /\ SerialIn(s)'
      <3>1. CASE folder'[s].memories = folder[s].memories
        BY <1>0, <2>0, <2>1, <3>1, SessionSame
      <3>2. CASE folder'[s].memories # folder[s].memories
        <4>1. folder'[s].memories = Append(folder[s].memories, [asked |-> f, said |-> f])
          BY <3>2 DEF FindEffect, Appends
        <4>2. QED
          BY <1>0, <2>0, <2>1, <4>1, SessionGains
      <3>3. QED
        BY <3>1, <3>2
    <2>3. Credited(s)' \subseteq Credited(s)
      BY <1>1 DEF Credited, Home
    <2>4. CountIn(s)'
      BY <1>1, <1>8, <2>0, <2>3, CountSame DEF SessionSound
    <2>5. QED
      BY <2>2, <2>4 DEF SessionSound
  <1>12. QED
    BY <1>1, <1>2, <1>3, <1>9, <1>10, <1>11 DEF ConvInv
FindPut(f, to, e) ==
  /\ to \in {"ready", "ended"} \cup WithPen /\ find' = [find EXCEPT ![f] = to]
  /\ UNCHANGED <<turn, line, reset, dropped, told>> /\ OnDisk(FindHome, e) /\ MadeOf(FindHome, e)
  /\ pen' = pen \/ (pen = "none" /\ pen' = f) \/ (pen = f /\ pen' = "none")
  /\ e.half = folder[FindHome].half \/ pen = f
  /\ e.memories = folder[FindHome].memories \/ e.memories = Append(folder[FindHome].memories, [asked |-> f, said |-> f])
  /\ to \in WithPen => pen' = f
  /\ to = "replying" => e.half = f

LEMMA FindEffectIs ==
  ASSUME ConvInv, NEW f \in Finds, NEW to, NEW e, FindPut(f, to, e)
  PROVE  FindEffect(f)
  <1>1. ConvShape /\ FoldersShape /\ FindHome \in Sessions
    BY FindIs DEF ConvInv, ConvShape, RestShape, FindHas
  <1>2. FoldersShape' /\ folder'[FindHome] = e /\ \A x \in Sessions : x # FindHome => folder'[x] = folder[x]
    BY <1>1, FolderPut DEF MadeOf, FindPut
  <1>3. find' \in [Finds -> {"ready", "ended"} \cup WithPen] /\ find'[f] = to /\ \A g \in Finds : g # f => find'[g] = find[g]
    BY <1>1 DEF ConvShape, RestShape, FindPut
  <1>4. ConvShape'
    BY <1>1, <1>2, <1>3 DEF ConvShape, RestShape, TurnsShape, Asked, Home, FindPut
  <1>5. QED
    BY <1>2, <1>3, <1>4 DEF FindEffect, Appends, FindPut

LEMMA MadeSame == ASSUME FoldersShape, NEW s \in Sessions PROVE MadeOf(s, folder[s])
  <1>1. FolderOk(folder[s]) /\ folder[s].count \in Nat
    BY DEF FoldersShape, FolderOk
  <1>2. folder[s].count >= folder[s].count
    BY <1>1
  <1>3. QED
    BY <1>1, <1>2 DEF MadeOf

Finding(f) == FindOpened(f) \/ FindMadeFolder(f) \/ FindAsked(f) \/ FindKept(f) \/ FindLost(f)

LEMMA FindingSound == ASSUME ConvInv, NEW f \in Finds, Finding(f) PROVE ConvInv'
  <1>0. ConvShape /\ FoldersShape /\ FindHome \in Sessions /\ FindSound(f) /\ f \in Writers
    BY FindIs DEF ConvInv, ConvShape, RestShape, FindHas, Writers
  <1>1. CASE FindOpened(f)
    <2>1. folder' = folder /\ UNCHANGED <<turn, line, reset, dropped, told>>
      BY <1>1 DEF FindOpened
    <2>2. OnDisk(FindHome, folder[FindHome])
      BY <1>0, <2>1 DEF OnDisk, FoldersShape
    <2>3. MadeOf(FindHome, folder[FindHome])
      BY <1>0, MadeSame
    <2>4. PICK to \in {"opening", "ended"} :
            /\ find' = [find EXCEPT ![f] = to] /\ (pen' = pen \/ (pen = "none" /\ pen' = f)) /\ (to \in WithPen => pen' = f)
            /\ to \in {"ready", "ended"} \cup WithPen /\ to # "replying"
      BY <1>1 DEF FindOpened, PenFor, WithPen
    <2>5. FindPut(f, to, folder[FindHome])
      <3>1. PICK e : e = folder[FindHome] /\ e.half = folder[FindHome].half /\ e.memories = folder[FindHome].memories
        OBVIOUS
      <3>2. OnDisk(FindHome, e) /\ MadeOf(FindHome, e)
        BY <2>2, <2>3, <3>1
      <3>3. FindPut(f, to, e)
        BY <2>1, <2>4, <3>1, <3>2 DEF FindPut
      <3>4. QED
        BY <3>1, <3>3
    <2>6. QED
      BY <2>5, FindEffectIs, FindStepSound
  <1>2. CASE FindMadeFolder(f)
    <2>1. /\ find[f] = "opening" /\ find' = [find EXCEPT ![f] = "asking"] /\ pen' = pen
          /\ UNCHANGED <<turn, line, reset, dropped, told>> /\ OnDisk(FindHome, [folder[FindHome] EXCEPT !.there = TRUE])
      BY <1>2 DEF FindMadeFolder, FindStep
    <2>2. pen = f /\ "asking" \in WithPen
      BY <1>0, <2>1 DEF FindSound, WithPen
    <2>3. PICK e : /\ e = [folder[FindHome] EXCEPT !.there = TRUE] /\ MadeOf(FindHome, e)
                   /\ e.memories = folder[FindHome].memories /\ e.half = folder[FindHome].half
      BY <1>0, MadeThere
    <2>4. OnDisk(FindHome, e)
      BY <2>1, <2>3
    <2>5. FindPut(f, "asking", e)
      BY <2>1, <2>2, <2>3, <2>4 DEF FindPut, WithPen
    <2>6. QED
      BY <2>5, FindEffectIs, FindStepSound
  <1>3. CASE FindAsked(f)
    <2>1. /\ find[f] = "asking" /\ find' = [find EXCEPT ![f] = "replying"] /\ pen' = pen
          /\ UNCHANGED <<turn, line, reset, dropped, told>> /\ OnDisk(FindHome, Halved(FindHome, f))
      BY <1>3 DEF FindAsked, FindStep
    <2>2. pen = f /\ "replying" \in WithPen
      BY <1>0, <2>1 DEF FindSound, WithPen
    <2>3. PICK e : /\ e = Halved(FindHome, f) /\ MadeOf(FindHome, e)
                   /\ e.memories = folder[FindHome].memories /\ e.half = f
      BY <1>0, MadeHalved
    <2>4. OnDisk(FindHome, e)
      BY <2>1, <2>3
    <2>5. FindPut(f, "replying", e)
      BY <2>1, <2>2, <2>3, <2>4 DEF FindPut, WithPen
    <2>6. QED
      BY <2>5, FindEffectIs, FindStepSound
  <1>4. CASE FindKept(f)
    <2>1. /\ find[f] = "replying" /\ find' = [find EXCEPT ![f] = "ended"] /\ pen' = IF pen = f THEN "none" ELSE pen
          /\ UNCHANGED <<turn, line, reset, dropped, told>> /\ OnDisk(FindHome, Paired(FindHome, f))
      BY <1>4 DEF FindKept, FindStep
    <2>2. pen = f /\ folder[FindHome].half = f /\ "ended" \notin WithPen
      BY <1>0, <2>1 DEF FindSound, WithPen
    <2>3. PICK e : /\ e = Paired(FindHome, f) /\ MadeOf(FindHome, e)
                   /\ e.memories = Append(folder[FindHome].memories, [asked |-> f, said |-> f])
      BY <1>0, <2>2, MadePaired
    <2>4. OnDisk(FindHome, e)
      BY <2>1, <2>3
    <2>5. FindPut(f, "ended", e)
      BY <2>1, <2>2, <2>3, <2>4 DEF FindPut, WithPen
    <2>6. QED
      BY <2>5, FindEffectIs, FindStepSound
  <1>5. CASE FindLost(f)
    <2>1. /\ find[f] = "lost" /\ find' = [find EXCEPT ![f] = "ended"] /\ pen' = IF pen = f THEN "none" ELSE pen
          /\ UNCHANGED <<turn, line, reset, dropped, told>> /\ OnDisk(FindHome, folder[FindHome]) /\ "ended" \notin WithPen
      BY <1>5 DEF FindLost, FindStep, WithPen
    <2>2. MadeOf(FindHome, folder[FindHome])
      BY <1>0, MadeSame
    <2>3. FindPut(f, "ended", folder[FindHome])
      BY <2>1, <2>2 DEF FindPut, WithPen
    <2>4. QED
      BY <2>3, FindEffectIs, FindStepSound
  <1>6. QED
    BY <1>1, <1>2, <1>3, <1>4, <1>5 DEF Finding

-----------------------------------------------------------------------------
\* A reset, and a crash.
LEMMA ResetAskedSound == ASSUME ConvInv, NEW s \in Sessions, ResetAsked(s) PROVE ConvInv'
  <1>0. /\ ConvShape /\ TurnsShape /\ LinesInv /\ LivesInv /\ reset = NoReset /\ dropped = {} /\ folder[s].info
        /\ UNCHANGED <<folder, turn, find, pen, dropped, told>> /\ line \in [Sessions -> Seq(Queuers)]
    BY DEF ConvInv, ConvShape, RestShape, ResetAsked
  <1>2. reset' = [step |-> "waiting", home |-> s] /\ reset'.step = "waiting" /\ reset'.home = s /\ reset.step = "none"
    BY <1>0 DEF ResetAsked, NoReset
  <1>3. PICK q : q = Append(line[s], "reset")
    OBVIOUS
  <1>4. line' = [line EXCEPT ![s] = q]
    BY <1>3 DEF ResetAsked
  <1>5. line[s] \in Seq(Queuers) /\ Distinct(line[s]) /\ "reset" \notin Range(line[s]) /\ "reset" \in Queuers
    BY <1>0, <1>2, ConversationAssumption DEF LinesInv, Queuers
  <1>6. /\ q \in Seq(Queuers) /\ Distinct(q) /\ Range(q) = Range(line[s]) \cup {"reset"}
        /\ q # <<>> /\ (line[s] # <<>> => Head(q) = Head(line[s]))
    BY <1>3, <1>5, LineAppend
  <1>7. line' \in [Sessions -> Seq(Queuers)] /\ line'[s] = q /\ \A x \in Sessions : x # s => line'[x] = line[x]
    BY <1>0, <1>4, <1>6
  <1>8. ConvShape'
    BY <1>0, <1>2, <1>7 DEF ConvShape, RestShape, FoldersShape, FolderOk, TurnsShape, Asked, Home
  <1>9. \A x \in Sessions : line[x] # <<>> => line'[x] # <<>> /\ Head(line'[x]) = Head(line[x])
    BY <1>6, <1>7
  <1>10. LinesInv'
    <2>1. \A x \in Sessions : Distinct(line'[x])
      BY <1>0, <1>6, <1>7 DEF LinesInv
    <2>2. \A x \in Sessions : \A w \in Range(line'[x]) :
       IF w \in Turns THEN turn[w].home = x /\ turn[w].stage \in InLine ELSE reset'.step # "none" /\ reset'.home = x
      <3>1. \A x \in Sessions : \A w \in Range(line[x]) : w \in Turns /\ turn[w].home = x /\ turn[w].stage \in InLine
        BY <1>0, <1>2 DEF LinesInv, InLine, Home
      <3>2. \A x \in Sessions : \A w \in Range(line'[x]) : w \in Range(line[x]) \/ (w = "reset" /\ x = s)
        BY <1>6, <1>7
      <3>3. "reset" \notin Turns
        BY ConversationAssumption
      <3>4. QED
        BY <1>2, <3>1, <3>2, <3>3
    <2>3. \A u \in Turns : turn[u].stage \in InTurn => line'[turn[u].home] # <<>> /\ Head(line'[turn[u].home]) = u
                                                     /\ folder[turn[u].home].info
      <3> TAKE u \in Turns
      <3>1. HAVE turn[u].stage \in InTurn
      <3>2. Holds(Home(u), u) /\ folder[Home(u)].info /\ Home(u) \in Sessions
        BY <1>0, <3>1 DEF TurnsShape, LinesInv, Asked, InTurn, Thinking, Writing
      <3>3. QED
        BY <1>9, <3>2 DEF Holds, Home
    <2>4. QED
      BY <1>0, <1>2, <2>1, <2>2, <2>3 DEF LinesInv, Holds, Home, InLine
  <1>11. LivesInv'
    <2>1. \A x \in Sessions : Unmade(x) => Unmade(x)'
      <3> TAKE x \in Sessions
      <3>1. HAVE Unmade(x)
      <3>2. x # s
        BY <1>0, <3>1 DEF Unmade, Nothing
      <3>3. QED
        BY <1>0, <1>7, <3>1, <3>2 DEF Unmade, Asked, Home
    <2>2. QED
      BY <1>0, <1>2, <2>1 DEF LivesInv
  <1>12. \A u \in Turns : TurnSound(u)'
    <2> TAKE u \in Turns
    <2>1. TurnSound(u) /\ UNCHANGED <<folder, turn, pen, dropped, told>>
      BY <1>0 DEF ConvInv
    <2>2. QED
      BY <2>1 DEF TurnSound, Remembered, Recorded, Home, Asked
  <1>13. \A f \in Finds : FindSound(f)'
    BY <1>0 DEF ConvInv, FindSound, FindHome, TheSession
  <1>14. \A x \in Sessions : SessionSound(x)'
    <2>1. \A x \in Sessions : SessionSound(x)
      BY DEF ConvInv
    <2>2. \A x \in Sessions : Credited(x)' = Credited(x)
      BY <1>0 DEF Credited, Home
    <2>3. \A x \in Sessions : CountIn(x)'
      BY <1>0, <2>1, <2>2 DEF SessionSound, CountIn
    <2>4. \A x \in Sessions : PairsIn(x)' /\ PastIn(x)' /\ SerialIn(x)'
      BY <1>0, <2>1 DEF SessionSound, PairsIn, PastIn, SerialIn
    <2>5. QED
      BY <2>3, <2>4 DEF SessionSound
  <1>15. QED
    BY <1>8, <1>10, <1>11, <1>12, <1>13, <1>14 DEF ConvInv
LEMMA FolderRemovedSound == ASSUME ConvInv, FolderRemoved PROVE ConvInv'
  <1>0. /\ ConvShape /\ TurnsShape /\ FoldersShape /\ LinesInv /\ LivesInv /\ reset.step = "waiting"
        /\ UNCHANGED <<turn, line, pen, told>>
    BY DEF ConvInv, ConvShape, FolderRemoved
  <1>1. PICK h \in Sessions : h = reset.home /\ Holds(h, "reset") /\ OnDisk(h, Nothing) /\ dropped' = dropped \cup {h}
    BY <1>0 DEF ConvShape, RestShape, FolderRemoved
  <1>2. dropped = {} /\ folder[h].info /\ dropped' = {h}
    BY <1>0, <1>1 DEF LivesInv
  <1>3. reset' = [step |-> "removed", home |-> h] /\ reset'.step = "removed" /\ reset'.home = h
    BY <1>0, <1>1 DEF FolderRemoved, ConvShape, RestShape
  <1>4. /\ Nothing.info = FALSE /\ Nothing.memories = <<>> /\ Nothing.half = "none" /\ Nothing.count = 0
        /\ FolderOk(Nothing)
    BY DEF Nothing, FolderOk
  <1>5. FoldersShape' /\ folder'[h] = Nothing /\ \A x \in Sessions : x # h => folder'[x] = folder[x]
    BY <1>0, <1>1, <1>4, FolderPut
  <1>6. \A x \in Sessions : ~folder'[x].info /\ (x # h => Unmade(x))
    <2> TAKE x \in Sessions
    <2>1. x # h => ~folder[x].info /\ Unmade(x)
      BY <1>0, <1>2 DEF LivesInv
    <2>2. QED
      BY <1>4, <1>5, <2>1
  <1>7. /\ find' \in [Finds -> {"ready", "ended"} \cup WithPen]
        /\ \A f \in Finds : find'[f] \in WithPen => find[f] \in WithPen
        /\ \A f \in Finds : find'[f] # "replying"
    <2>1. /\ find' = [f \in Finds |-> IF find[f] \in {"asking", "replying"} THEN "lost" ELSE find[f]]
          /\ find \in [Finds -> {"ready", "ended"} \cup WithPen]
      BY <1>0 DEF FolderRemoved, ConvShape, RestShape
    <2>2. \A f \in Finds : find'[f] = IF find[f] \in {"asking", "replying"} THEN "lost" ELSE find[f]
      BY <2>1
    <2>3. QED
      BY <2>1, <2>2 DEF WithPen
  <1>8. ConvShape'
    BY <1>0, <1>1, <1>2, <1>3, <1>5, <1>7 DEF ConvShape, RestShape, TurnsShape, Asked, Home
  \* The first in its line is the reset, so that no turn is inside.
  <1>9. \A t \in Turns : turn[t].stage \notin InTurn
    <2> TAKE t \in Turns
    <2>1. ASSUME turn[t].stage \in InTurn PROVE FALSE
      <3>1. Holds(Home(t), t) /\ folder[Home(t)].info /\ Home(t) \in Sessions
        BY <1>0, <2>1 DEF TurnsShape, LinesInv, Asked, InTurn, Thinking, Writing
      <3>2. Home(t) = h
        BY <1>0, <1>2, <3>1 DEF LivesInv
      <3>3. t = "reset"
        BY <1>1, <3>1, <3>2 DEF Holds
      <3>4. QED
        BY <3>3, ConversationAssumption
    <2>2. QED
      BY <2>1
  <1>10. LinesInv'
    <2>1. \A x \in Sessions : Distinct(line'[x])
      BY <1>0 DEF LinesInv
    <2>2. \A x \in Sessions : \A w \in Range(line'[x]) :
       IF w \in Turns THEN turn'[w].home = x /\ turn'[w].stage \in InLine ELSE reset'.step # "none" /\ reset'.home = x
      BY <1>0, <1>1, <1>3 DEF LinesInv, InLine, Home
    <2>3. line'[reset'.home] # <<>> /\ Head(line'[reset'.home]) = "reset"
      BY <1>0, <1>1, <1>3 DEF Holds
    <2>4. QED
      BY <1>0, <1>9, <2>1, <2>2, <2>3 DEF LinesInv, Holds, Home, InLine
  <1>11. LivesInv'
    <2>1. \A x \in Sessions : x \in dropped' \/ Unmade(x)'
      <3> TAKE x \in Sessions
      <3>1. CASE x = h
        BY <1>2, <3>1
      <3>2. CASE x # h
        BY <1>0, <1>5, <1>6, <3>2 DEF Unmade, Asked, Home
      <3>3. QED
        BY <3>1, <3>2
    <2>2. QED
      BY <1>2, <1>3, <1>6, <2>1 DEF LivesInv
  <1>12. \A t \in Turns : Asked(t) => Home(t) = h
    BY <1>0, <1>6 DEF TurnsShape, Unmade
  <1>13. \A t \in Turns : TurnSound(t)'
    <2> TAKE t \in Turns
    <2>1. /\ TurnSound(t) /\ turn[t].stage \notin InTurn /\ turn' = turn /\ told' = told
          /\ Asked(t)' = Asked(t) /\ Home(t)' = Home(t)
      BY <1>0, <1>9 DEF ConvInv, Asked, Home
    <2>2. /\ turn[t].stage \notin Reflecting
          /\ turn[t].stage \notin {"askingHalf", "replyingHalf", "savingTrace", "summarizing", "counting", "written"}
      BY <2>1 DEF InTurn, Reflecting, Writing
    <2>3. t \in told => Home(t) \in dropped' /\ turn[t].stage = "ended"
      BY <1>2, <1>12, <2>1 DEF TurnSound, Asked
    <2>4. QED
      BY <2>1, <2>2, <2>3 DEF TurnSound
  <1>14. \A f \in Finds : FindSound(f)'
    BY <1>0, <1>7 DEF ConvInv, FindSound
  <1>15. \A x \in Sessions : SessionSound(x)'
    <2> TAKE x \in Sessions
    <2>0. SessionSound(x)
      BY DEF ConvInv
    <2>1. PairsIn(x)' /\ PastIn(x)' /\ SerialIn(x)'
      <3>1. CASE x = h
        <4>1. folder'[x].memories = <<>> /\ DOMAIN <<>> = {}
          BY <1>4, <1>5, <3>1
        <4>2. TurnsOf(folder'[x].memories) = <<>>
          BY <4>1, AmongEmpty DEF TurnsOf
        <4>3. QED
          BY <4>1, <4>2 DEF PairsIn, PastIn, SerialIn
      <3>2. CASE x # h
        <4>1. folder'[x].memories = folder[x].memories
          BY <1>5, <3>2
        <4>2. SettledStay
          BY <1>0 DEF SettledStay
        <4>3. QED
          BY <1>0, <2>0, <4>1, <4>2, SessionSame
      <3>3. QED
        BY <3>1, <3>2
    <2>2. Credited(x)' = Credited(x)
      BY <1>0 DEF Credited, Home
    <2>3. x \notin dropped' => x # h /\ folder'[x].count = folder[x].count /\ x \notin dropped
      BY <1>2, <1>5
    <2>4. CountIn(x)'
      BY <2>0, <2>2, <2>3 DEF SessionSound, CountIn
    <2>5. QED
      BY <2>1, <2>4 DEF SessionSound
  <1>16. QED
    BY <1>8, <1>10, <1>11, <1>13, <1>14, <1>15 DEF ConvInv
LEMMA FreshIs ==
  Fresh = [there |-> TRUE, info |-> TRUE, count |-> 0, memories |-> <<>>, half |-> "none", traces |-> {}, summaries |-> <<>>]
  <1>1. PICK n : n = Nothing
    OBVIOUS
  <1>2. n = [there |-> FALSE, info |-> FALSE, count |-> 0, memories |-> <<>>, half |-> "none",
             traces |-> {}, summaries |-> <<>>]
    BY <1>1 DEF Nothing
  <1>3. Fresh = [n EXCEPT !.there = TRUE, !.info = TRUE]
    BY <1>1 DEF Fresh
  <1>4. [n EXCEPT !.there = TRUE, !.info = TRUE]
        = [there |-> TRUE, info |-> TRUE, count |-> 0, memories |-> <<>>, half |-> "none",
           traces |-> {}, summaries |-> <<>>]
    <2>1. PICK yes : yes = TRUE
      OBVIOUS
    <2>2. n = [there |-> n.there, info |-> n.info, count |-> n.count, memories |-> n.memories, half |-> n.half,
               traces |-> n.traces, summaries |-> n.summaries]
      BY <1>2
    <2>3. n.count = 0 /\ n.memories = <<>> /\ n.half = "none" /\ n.traces = {} /\ n.summaries = <<>>
      BY <1>2
    <2>4. PICK m : m = [n EXCEPT !.there = yes]
      OBVIOUS
    <2>5. m = [there |-> yes, info |-> n.info, count |-> n.count, memories |-> n.memories, half |-> n.half,
               traces |-> n.traces, summaries |-> n.summaries]
      BY <2>2, <2>4
    <2>6. PICK d : d = [m EXCEPT !.info = yes]
      OBVIOUS
    <2>7. d = [there |-> yes, info |-> yes, count |-> n.count, memories |-> n.memories, half |-> n.half,
               traces |-> n.traces, summaries |-> n.summaries]
      BY <2>5, <2>6
    <2>8. d = [n EXCEPT !.there = yes, !.info = yes]
      BY <2>4, <2>6
    <2>9. QED
      BY <2>1, <2>3, <2>7, <2>8
  <1>5. QED
    BY <1>3, <1>4

LEMMA FreshMadeSound == ASSUME ConvInv, FreshMade PROVE ConvInv'
  <1>0. /\ ConvShape /\ TurnsShape /\ FoldersShape /\ LinesInv /\ LivesInv /\ reset.step = "removed" /\ reset' = NoReset
        /\ UNCHANGED <<turn, find, pen, dropped, told>>
    BY DEF ConvInv, ConvShape, FreshMade
  <1>1. PICK s \in Sessions : s \notin dropped /\ OnDisk(s, Fresh)
    BY DEF FreshMade
  <1>2. PICK h \in Sessions : h = reset.home /\ h \in dropped /\ Holds(h, "reset") /\ Unlocked(h)
    BY <1>0 DEF ConvShape, RestShape, LinesInv, LivesInv, FreshMade
  <1>3. Unmade(s) /\ (\A x \in Sessions : ~folder[x].info) /\ s # h
    BY <1>0, <1>1, <1>2 DEF LivesInv
  <1>4. folder[s].memories = <<>> /\ folder[s].count = 0
    BY <1>3 DEF Unmade, Nothing
  <1>5. Fresh.info = TRUE /\ Fresh.memories = <<>> /\ Fresh.count = 0 /\ FolderOk(Fresh)
    <2>2. PICK d : d = Fresh /\ d = [there |-> TRUE, info |-> TRUE, count |-> 0, memories |-> <<>>, half |-> "none",
                                   traces |-> {}, summaries |-> <<>>]
      BY FreshIs
    <2>3. d.info = TRUE /\ d.memories = <<>> /\ d.count = 0 /\ FolderOk(d)
      BY <2>2 DEF FolderOk
    <2>4. QED
      BY <2>2, <2>3
  <1>6. FoldersShape' /\ folder'[s] = Fresh /\ \A x \in Sessions : x # s => folder'[x] = folder[x]
    BY <1>0, <1>1, <1>5, FolderPut
  <1>7. LeavesLine("reset", h)
    BY <1>2, UnlockedLeaves
  <1>8. ConvShape'
    BY <1>0, <1>6, <1>7 DEF ConvShape, RestShape, TurnsShape, Asked, Home, NoReset, LeavesLine
  <1>9. \A t \in Turns : turn[t].stage \notin InTurn
    <2>1. \A t \in Turns : turn[t].stage \in InTurn => Home(t) \in Sessions /\ folder[Home(t)].info
      BY <1>0 DEF TurnsShape, LinesInv, Asked, InTurn, Thinking, Writing
    <2>2. QED
      BY <1>3, <2>1
  <1>10. LinesInv'
    <2>1. \A x \in Sessions : Distinct(line'[x])
      BY <1>0, <1>7 DEF LinesInv, LeavesLine
    <2>2. \A x \in Sessions : \A w \in Range(line'[x]) : w \in Turns /\ turn'[w].home = x /\ turn'[w].stage \in InLine
      <3> TAKE x \in Sessions
      <3>1. \A w \in Range(line[x]) : w \in Turns \/ w = "reset"
        BY <1>0 DEF ConvShape, RestShape, Queuers, Range
      <3>2. \A w \in Range(line[x]) :
              IF w \in Turns THEN turn[w].home = x /\ turn[w].stage \in InLine ELSE h = x
        BY <1>0, <1>2 DEF LinesInv, InLine, Home
      <3>3. \A w \in Range(line'[x]) : w \in Range(line[x]) /\ (x = h => w # "reset")
        BY <1>7 DEF LeavesLine
      <3>4. QED
        BY <1>0, <3>1, <3>2, <3>3
    <2>3. QED
      BY <1>0, <1>9, <2>1, <2>2 DEF LinesInv, Home, InLine, NoReset
  <1>11. LivesInv'
    <2>1. \A x \in Sessions : folder'[x].info \/ x \in dropped \/ Unmade(x)'
      <3> TAKE x \in Sessions
      <3>1. CASE x = s
        BY <1>5, <1>6, <3>1
      <3>2. CASE x # s /\ x \notin dropped
        <4>1. Unmade(x) /\ x # h /\ line'[x] = line[x] /\ folder'[x] = folder[x]
          BY <1>0, <1>2, <1>3, <1>6, <1>7, <3>2 DEF LivesInv, LeavesLine
        <4>2. QED
          BY <1>0, <4>1 DEF Unmade, Asked, Home
      <3>3. QED
        BY <3>1, <3>2
    <2>2. \A x \in Sessions : folder'[x].info => x = s
      BY <1>3, <1>6
    <2>3. \A x \in dropped : x \in Sessions /\ x # s
      BY <1>0, <1>1 DEF ConvShape, RestShape
    <2>4. dropped # {} /\ \A x, y \in dropped : x = y
      BY <1>0, <1>2 DEF LivesInv
    <2>5. QED
      BY <1>0, <2>1, <2>2, <2>3, <2>4 DEF LivesInv, NoReset
  <1>12. \A t \in Turns : Asked(t) => Home(t) \in Sessions /\ folder'[Home(t)] = folder[Home(t)]
    BY <1>0, <1>3, <1>6 DEF TurnsShape, Unmade
  <1>13. \A t \in Turns : TurnSound(t)'
    <2> TAKE t \in Turns
    <2>1. /\ TurnSound(t) /\ turn[t].stage \notin InTurn /\ turn' = turn /\ told' = told /\ dropped' = dropped
          /\ Asked(t)' = Asked(t) /\ Home(t)' = Home(t)
      BY <1>0, <1>9 DEF ConvInv, Asked, Home
    <2>2. /\ turn[t].stage \notin Reflecting
          /\ turn[t].stage \notin {"askingHalf", "replyingHalf", "savingTrace", "summarizing", "counting", "written"}
      BY <2>1 DEF InTurn, Reflecting, Writing
    <2>3. Asked(t) => Remembered(t)' = Remembered(t) /\ Recorded(t)' = Recorded(t)
      BY <1>12, <2>1 DEF Remembered, Recorded
    <2>4. t \in told => turn[t].stage = "ended" /\ (Home(t) \in dropped \/ (Remembered(t) /\ Recorded(t))')
      BY <2>1, <2>3 DEF TurnSound, Asked
    <2>5. QED
      BY <2>1, <2>2, <2>4 DEF TurnSound
  <1>14. \A f \in Finds : FindSound(f)'
    <2>1. FindHas
      BY <1>0, FindIs DEF ConvShape, RestShape
    <2>2. FindHome' = FindHome
      BY <1>0, <1>2 DEF FindHome
    <2>3. folder'[FindHome] = folder[FindHome]
      BY <1>1, <1>2, <1>6, <2>1 DEF FindHas
    <2>4. QED
      BY <1>0, <2>2, <2>3 DEF ConvInv, FindSound
  <1>15. \A x \in Sessions : SessionSound(x)'
    <2> TAKE x \in Sessions
    <2>0. SessionSound(x)
      BY DEF ConvInv
    <2>1. folder'[x].memories = folder[x].memories /\ folder'[x].count = folder[x].count
      BY <1>4, <1>5, <1>6
    <2>2. SettledStay
      BY <1>0 DEF SettledStay
    <2>3. PairsIn(x)' /\ PastIn(x)' /\ SerialIn(x)'
      BY <1>0, <2>0, <2>1, <2>2, SessionSame
    <2>4. Credited(x)' = Credited(x)
      BY <1>0 DEF Credited, Home
    <2>5. CountIn(x)'
      BY <1>0, <2>0, <2>1, <2>4 DEF SessionSound, CountIn
    <2>6. QED
      BY <2>3, <2>5 DEF SessionSound
  <1>16. QED
    BY <1>8, <1>10, <1>11, <1>13, <1>14, <1>15 DEF ConvInv
LEMMA CrashSound == ASSUME ConvInv, CrashOfHost PROVE ConvInv'
  <1>0. /\ ConvShape /\ TurnsShape /\ LinesInv /\ LivesInv /\ pen' = "none" /\ reset' = NoReset
        /\ line' = [s \in Sessions |-> <<>>] /\ UNCHANGED <<folder, dropped, told>>
    BY DEF ConvInv, ConvShape, CrashOfHost
  <1>1. /\ TurnsShape'
        /\ \A t \in Turns : /\ turn'[t].home = turn[t].home /\ turn'[t].kind = turn[t].kind /\ turn'[t].knew = turn[t].knew
                            /\ turn'[t].draft = turn[t].draft /\ turn'[t].remember = turn[t].remember
                            /\ turn'[t].stage = IF turn[t].stage = "unasked" THEN "unasked" ELSE "ended"
    <2>1. turn' = [t \in Turns |-> IF turn[t].stage = "unasked" THEN turn[t] ELSE [turn[t] EXCEPT !.stage = "ended"]]
      BY DEF CrashOfHost
    <2>2. \A t \in Turns :
            turn'[t] = [stage |-> IF turn[t].stage = "unasked" THEN "unasked" ELSE "ended", home |-> turn[t].home,
                        request |-> turn[t].request, kind |-> turn[t].kind, knew |-> turn[t].knew,
                        draft |-> turn[t].draft, remember |-> turn[t].remember]
      <3> TAKE t \in Turns
      <3>1. turn[t] = [stage |-> turn[t].stage, home |-> turn[t].home, request |-> turn[t].request,
                       kind |-> turn[t].kind, knew |-> turn[t].knew, draft |-> turn[t].draft,
                       remember |-> turn[t].remember]
        BY <1>0 DEF TurnsShape
      <3>2. CASE turn[t].stage = "unasked"
        <4>1. turn'[t] = turn[t]
          BY <2>1, <3>2
        <4>2. QED
          BY <3>1, <3>2, <4>1
      <3>3. CASE turn[t].stage # "unasked"
        <4>1. turn'[t] = [turn[t] EXCEPT !.stage = "ended"]
          BY <2>1, <3>3
        <4>2. QED
          BY <3>1, <3>3, <4>1
      <3>4. QED
        BY <3>2, <3>3
    <2>3. \A t \in Turns : /\ turn'[t].home = turn[t].home /\ turn'[t].kind = turn[t].kind /\ turn'[t].knew = turn[t].knew
                           /\ turn'[t].draft = turn[t].draft /\ turn'[t].remember = turn[t].remember
                           /\ turn'[t].stage = IF turn[t].stage = "unasked" THEN "unasked" ELSE "ended"
                           /\ turn'[t].request = turn[t].request
      <3> TAKE t \in Turns
      <3>1. PICK x, y : x = turn'[t] /\ y = IF turn[t].stage = "unasked" THEN "unasked" ELSE "ended"
        OBVIOUS
      <3>2. x = [stage |-> y, home |-> turn[t].home, request |-> turn[t].request, kind |-> turn[t].kind,
                 knew |-> turn[t].knew, draft |-> turn[t].draft, remember |-> turn[t].remember]
        BY <2>2, <3>1
      <3>3. /\ x.home = turn[t].home /\ x.kind = turn[t].kind /\ x.knew = turn[t].knew /\ x.draft = turn[t].draft
            /\ x.remember = turn[t].remember /\ x.request = turn[t].request /\ x.stage = y
        BY <3>2
      <3>4. QED
        BY <3>1, <3>3
    <2>4. turn' = [t \in Turns |-> turn'[t]]
      BY <2>1
    <2>5. turn' = [t \in Turns |-> [stage |-> turn'[t].stage, home |-> turn'[t].home,
                                    request |-> turn'[t].request, kind |-> turn'[t].kind, knew |-> turn'[t].knew,
                                    draft |-> turn'[t].draft, remember |-> turn'[t].remember]]
      BY <2>2, <2>3, <2>4
    <2>6. \A t \in Turns : /\ turn'[t].stage \in Stages /\ turn'[t].knew \in Seq(Memory)
                           /\ turn'[t].stage # "unasked" => turn'[t].home \in Sessions
      BY <1>0, <2>3 DEF TurnsShape, Asked, Home, Stages
    <2>7. TurnsShape'
      BY <2>5, <2>6 DEF TurnsShape, Asked, Home
    <2>8. QED
      BY <2>3, <2>7
  <1>2. \A t \in Turns : turn'[t].stage \in {"unasked", "ended"} /\ (turn'[t].stage = "unasked" <=> turn[t].stage = "unasked")
    BY <1>1
  <1>3. find' \in [Finds -> {"ready", "ended"} \cup WithPen] /\ \A f \in Finds : find'[f] \in {"ready", "ended"}
    BY DEF CrashOfHost
  <1>4. line' \in [Sessions -> Seq(Queuers)] /\ \A s \in Sessions : line'[s] = <<>>
    BY <1>0
  <1>5. ConvShape'
    BY <1>0, <1>1, <1>3, <1>4 DEF ConvShape, RestShape, FoldersShape, FolderOk, NoReset
  <1>6. LinesInv'
    <2>1. \A s \in Sessions : Distinct(line'[s]) /\ Range(line'[s]) = {}
      BY <1>4 DEF Distinct, Range
    <2>2. \A t \in Turns : turn'[t].stage \notin InTurn
      BY <1>2 DEF InTurn, Thinking, Writing
    <2>3. QED
      BY <1>0, <2>1, <2>2 DEF LinesInv, NoReset
  <1>7. LivesInv'
    <2>1. \A s \in Sessions : Unmade(s) => Unmade(s)'
      BY <1>0, <1>1, <1>2, <1>4 DEF Unmade, Asked, Home
    <2>2. QED
      BY <1>0, <2>1 DEF LivesInv, NoReset
  <1>8. \A t \in Turns : TurnSound(t)'
    <2> TAKE t \in Turns
    <2>1. TurnSound(t) /\ Home(t)' = Home(t) /\ Asked(t)' = Asked(t)
      BY <1>1, <1>2 DEF ConvInv, Home, Asked
    <2>2. Remembered(t)' = Remembered(t) /\ Recorded(t)' = Recorded(t)
      BY <1>0, <2>1 DEF Remembered, Recorded
    <2>3. turn'[t].stage \notin Reflecting
      BY <1>2 DEF Reflecting, Thinking
    <2>4. t \in told => turn'[t].stage = "ended" /\ (Home(t) \in dropped \/ (Remembered(t) /\ Recorded(t)))
      BY <1>1, <2>1 DEF TurnSound
    <2>5. /\ turn'[t].kind # "openai" /\ turn'[t].remember => turn'[t].draft = "prose"
          /\ turn'[t].stage = "unasked" => ~turn'[t].remember
      BY <1>1, <2>1 DEF TurnSound, Asked
    <2>6. QED
      BY <1>0, <1>2, <2>1, <2>2, <2>3, <2>4, <2>5 DEF TurnSound, Asked
  <1>9. \A f \in Finds : FindSound(f)'
    BY <1>3 DEF FindSound, WithPen
  <1>10. \A s \in Sessions : SessionSound(s)'
    <2> TAKE s \in Sessions
    <2>0. SessionSound(s)
      BY DEF ConvInv
    <2>1. SettledStay
      BY <1>1 DEF SettledStay, Past
    <2>2. PairsIn(s)' /\ PastIn(s)' /\ SerialIn(s)'
      BY <1>0, <2>0, <2>1, SessionSame
    <2>3. Credited(s)' \subseteq Credited(s)
      BY <1>0, <1>1, <1>2 DEF Credited, Home
    <2>4. folder[s].count \in Nat /\ folder'[s].count >= folder[s].count
      BY <1>0 DEF ConvShape, FoldersShape, FolderOk
    <2>5. CountIn(s)'
      BY <1>0, <2>0, <2>3, <2>4, CountSame DEF SessionSound
    <2>6. QED
      BY <2>2, <2>5 DEF SessionSound
  <1>11. QED
    BY <1>5, <1>6, <1>7, <1>8, <1>9, <1>10 DEF ConvInv

LEMMA ConvInitially == ConversationInit => ConvInv
  <1> SUFFICES ASSUME ConversationInit PROVE ConvInv
    OBVIOUS
  <1>1. PICK s \in Sessions : folder = [x \in Sessions |-> IF x = s THEN Fresh ELSE Nothing]
    BY DEF ConversationInit
  <1>2. /\ turn = [t \in Turns |-> Unasked] /\ line = [x \in Sessions |-> <<>>] /\ find = [f \in Finds |-> "ready"]
        /\ pen = "none" /\ reset = NoReset /\ dropped = {} /\ told = {}
    BY DEF ConversationInit
  <1>3. PICK d : d = Fresh /\ d = [there |-> TRUE, info |-> TRUE, count |-> 0, memories |-> <<>>, half |-> "none",
                                   traces |-> {}, summaries |-> <<>>]
    BY FreshIs
  <1>4. PICK e : e = Nothing /\ e = [there |-> FALSE, info |-> FALSE, count |-> 0, memories |-> <<>>, half |-> "none",
                                     traces |-> {}, summaries |-> <<>>]
    BY DEF Nothing
  <1>5. FolderOk(d) /\ FolderOk(e) /\ d.info = TRUE /\ e.info = FALSE /\ d.memories = <<>> /\ e.memories = <<>>
        /\ d.count = 0 /\ e.count = 0
    BY <1>3, <1>4 DEF FolderOk
  <1>6. folder[s] = d /\ (\A x \in Sessions : x # s => folder[x] = e) /\ folder = [x \in Sessions |-> folder[x]]
    BY <1>1, <1>3, <1>4
  <1>7. FoldersShape
    BY <1>5, <1>6 DEF FoldersShape
  <1>8. \A t \in Turns : turn[t] = Unasked /\ turn[t].stage = "unasked" /\ turn[t].knew = <<>> /\ ~turn[t].remember
    BY <1>2 DEF Unasked
  <1>9. TurnsShape
    <2>1. PICK u : u = Unasked /\ u = [stage |-> "unasked", home |-> "none", request |-> "none", kind |-> "none",
                                       knew |-> <<>>, draft |-> "none", remember |-> FALSE]
      BY DEF Unasked
    <2>2. /\ u = [stage |-> u.stage, home |-> u.home, request |-> u.request, kind |-> u.kind, knew |-> u.knew,
                  draft |-> u.draft, remember |-> u.remember]
          /\ u.stage = "unasked" /\ u.knew = <<>>
      BY <2>1
    <2>3. turn = [t \in Turns |-> u] /\ \A t \in Turns : turn[t] = u
      BY <1>2, <2>1
    <2>4. \A t \in Turns : turn[t].stage \in Stages /\ turn[t].knew \in Seq(Memory) /\ ~Asked(t)
      <3>1. "unasked" \in Stages /\ <<>> \in Seq(Memory)
        BY DEF Stages
      <3>2. QED
        BY <2>2, <2>3, <3>1 DEF Asked
    <2>5. turn = [t \in Turns |-> [stage |-> turn[t].stage, home |-> turn[t].home, request |-> turn[t].request,
                              kind |-> turn[t].kind, knew |-> turn[t].knew, draft |-> turn[t].draft,
                              remember |-> turn[t].remember]]
      BY <2>2, <2>3
    <2>6. QED
      BY <2>4, <2>5 DEF TurnsShape
  <1>10. RestShape
    BY <1>2 DEF RestShape, NoReset
  <1>11. LinesInv
    <2>1. \A x \in Sessions : Distinct(line[x]) /\ Range(line[x]) = {}
      BY <1>2 DEF Distinct, Range
    <2>2. \A t \in Turns : turn[t].stage \notin InTurn
      BY <1>8 DEF InTurn, Thinking, Writing
    <2>3. QED
      BY <1>2, <2>1, <2>2 DEF LinesInv, NoReset
  <1>12. LivesInv
    <2>1. \A x \in Sessions : x # s => Unmade(x)
      BY <1>2, <1>4, <1>6, <1>8 DEF Unmade, Asked
    <2>2. QED
      BY <1>2, <1>5, <1>6, <2>1 DEF LivesInv, NoReset
  <1>13. \A t \in Turns : TurnSound(t)
    BY <1>2, <1>8 DEF TurnSound, Reflecting, Thinking
  <1>14. \A f \in Finds : FindSound(f)
    BY <1>2 DEF FindSound, WithPen
  <1>15. \A x \in Sessions : SessionSound(x)
    <2> TAKE x \in Sessions
    <2>1. folder[x].memories = <<>> /\ folder[x].count = 0 /\ DOMAIN <<>> = {}
      BY <1>5, <1>6
    <2>2. TurnsOf(folder[x].memories) = <<>>
      BY <2>1, AmongEmpty DEF TurnsOf
    <2>3. PairsIn(x) /\ PastIn(x) /\ SerialIn(x)
      BY <2>1, <2>2 DEF PairsIn, PastIn, SerialIn
    <2>4. Credited(x) = {}
      BY <1>2, <1>8 DEF Credited
    <2>5. IsFiniteSet(Credited(x)) /\ Cardinality(Credited(x)) = 0
      BY <2>4, FS_EmptySet
    <2>6. CountIn(x)
      BY <2>1, <2>5 DEF CountIn
    <2>7. QED
      BY <2>3, <2>6 DEF SessionSound
  <1>16. QED
    BY <1>7, <1>9, <1>10, <1>11, <1>12, <1>13, <1>14, <1>15 DEF ConvInv, ConvShape
LEMMA ConvStep == ConvInv /\ [ConversationNext]_conversationVars => ConvInv'
  <1> SUFFICES ASSUME ConvInv, [ConversationNext]_conversationVars PROVE ConvInv'
    OBVIOUS
  <1>1. ASSUME NEW t \in Turns, NEW s \in Sessions, NEW r \in Requests, NEW k \in Kinds, TurnAsked(t, s, r, k)
        PROVE  ConvInv'
    BY <1>1, TurnAskedSound
  <1>2. ASSUME NEW t \in Turns, Reflects(t) PROVE ConvInv'
    BY <1>2, ThinkingSound
  <1>3. ASSUME NEW t \in Turns, RetrievalStarts(t) \/ RetrievalEnds(t) PROVE ConvInv'
    BY <1>3, RetrievalStartsSound, RetrievalEndsSound
  <1>4. ASSUME NEW t \in Turns, StoreOpened(t) \/ UserAppended(t) \/ AssistantAppended(t) PROVE ConvInv'
    BY <1>4, StoreOpenedSound, UserAppendedSound, AssistantAppendedSound
  <1>5. ASSUME NEW t \in Turns, TraceSaved(t) \/ Summarized(t) \/ Counted(t) PROVE ConvInv'
    BY <1>5, TraceSavedSound, SummarizedSound, CountedSound
  <1>6. ASSUME NEW t \in Turns, TurnDone(t) \/ WriteFails(t) \/ ClientLeaves(t) PROVE ConvInv'
    BY <1>6, TurnDoneSound, WriteFailsSound, ClientLeavesSound
  <1>7. ASSUME NEW f \in Finds, Finding(f) PROVE ConvInv'
    BY <1>7, FindingSound
  <1>8. ASSUME NEW s \in Sessions, ResetAsked(s) PROVE ConvInv'
    BY <1>8, ResetAskedSound
  <1>9. CASE FolderRemoved \/ FreshMade \/ CrashOfHost
    BY <1>9, FolderRemovedSound, FreshMadeSound, CrashSound
  <1>10. CASE UNCHANGED conversationVars
    <2>1. UNCHANGED inPlay
      BY <1>10 DEF conversationVars, inPlay
    <2>2. QED
      BY <2>1, NothingMoves
  <1>11. QED
    BY <1>1, <1>2, <1>3, <1>4, <1>5, <1>6, <1>7, <1>8, <1>9, <1>10 DEF ConversationNext, Reflects, Finding

THEOREM MemoryIsSound == ConversationSpec => []ConvInv
  BY ConvInitially, ConvStep, PTL DEF ConversationSpec

LEMMA ToldIn == ASSUME ConvInv PROVE ToldIsKept
  <1> SUFFICES ASSUME NEW t \in told, Home(t) \notin dropped
               PROVE  /\ \E i \in DOMAIN folder[Home(t)].memories : folder[Home(t)].memories[i].said = t
                      /\ t \in Range(History(Home(t)))
                      /\ folder[Home(t)].count >= Cardinality({u \in told : Home(u) = Home(t)})
    BY DEF ToldIsKept
  <1>1. t \in Turns /\ told \subseteq Turns /\ TurnSound(t) /\ ConvShape
    BY DEF ConvInv, ConvShape, RestShape
  <1>2. turn[t].stage = "ended" /\ Remembered(t) /\ Recorded(t)
    BY <1>1 DEF TurnSound
  <1>3. PICK h \in Sessions : h = Home(t)
    BY <1>1, <1>2 DEF ConvShape, TurnsShape, Asked
  <1>4. FolderOk(folder[h]) /\ SessionSound(h) /\ h \notin dropped
    BY <1>1, <1>3 DEF ConvInv, ConvShape, FoldersShape
  <1>5. t \in Range(History(h))
    <2>1. PICK sums, traced : sums = folder[h].summaries /\ traced = folder[h].traces
      OBVIOUS
    <2>2. sums \in Seq(Turns) /\ t \in Range(sums) /\ t \in traced
      BY <1>2, <1>3, <1>4, <2>1 DEF FolderOk, Recorded
    <2>3. Range(Among(sums, traced)) = Range(sums) \cap traced
      BY <2>2, AmongSeq
    <2>4. QED
      BY <2>1, <2>2, <2>3 DEF History
  <1>6. folder[h].count >= Cardinality({u \in told : Home(u) = h})
    <2>1. PICK c : c = Credited(h)
      OBVIOUS
    <2>2. PICK d : d = {u \in told : Home(u) = h}
      OBVIOUS
    <2>3. d \subseteq c
      BY <1>1, <2>1, <2>2 DEF Credited
    <2>4. IsFiniteSet(c) /\ folder[h].count >= Cardinality(c) /\ folder[h].count \in Nat
      BY <1>4, <2>1 DEF SessionSound, CountIn, FolderOk
    <2>5. IsFiniteSet(d) /\ Cardinality(d) <= Cardinality(c) /\ Cardinality(d) \in Nat /\ Cardinality(c) \in Nat
      BY <2>3, <2>4, FS_Subset, FS_CardinalityType
    <2>6. folder[h].count >= Cardinality(d)
      BY <2>4, <2>5
    <2>7. QED
      BY <2>2, <2>6
  <1>7. QED
    BY <1>2, <1>3, <1>5, <1>6 DEF Remembered

LEMMA WholeIn == ConvInv => PairsAreWhole /\ TurnsAreSerial /\ ToldIsKept /\ DraftsStayOut
  <1> SUFFICES ASSUME ConvInv PROVE PairsAreWhole /\ TurnsAreSerial /\ ToldIsKept /\ DraftsStayOut
    OBVIOUS
  <1>1. PairsAreWhole
    BY DEF ConvInv, SessionSound, PairsIn, PairsAreWhole
  <1>2. TurnsAreSerial
    BY DEF ConvInv, SessionSound, SerialIn, TurnsAreSerial
  <1>3. ToldIsKept
    BY ToldIn
  <1>4. DraftsStayOut
    BY DEF ConvInv, TurnSound, DraftsStayOut
  <1>5. QED
    BY <1>1, <1>2, <1>3, <1>4

(* What a conversation remembers is whole pairs of turns that ran one      *)
(* after the other, and all that a user was told was kept is on disk until *)
(* the session is reset; no draft that repeats a payload is remembered     *)
(* (session.py, api.py 300-700).                                           *)
THEOREM MemoryStaysWhole == ConversationSpec => [](PairsAreWhole /\ TurnsAreSerial /\ ToldIsKept /\ DraftsStayOut)
  BY MemoryIsSound, WholeIn, PTL

-----------------------------------------------------------------------------
\* The reply (ReplyStream).  What the filter looks for, in the text and in what
\* is left of it.
Writings == Seq(Letters)
Symbols == {"<", "/", "t"}
MarksIn(inside) == IF inside THEN {CloseMark} ELSE Markers

LEMMA MarkFacts ==
  /\ Markers = {OpenMark, CloseMark} /\ OpenMark \in Seq(Symbols) /\ CloseMark \in Seq(Symbols)
  /\ Len(OpenMark) = 2 /\ Len(CloseMark) = 3 /\ OpenMark[2] # CloseMark[2] /\ OpenMark # CloseMark
  <1>1. Markers = {OpenMark, CloseMark}
    BY DEF Markers
  <1>2. Len(OpenMark) = 2 /\ OpenMark[2] = "t"
    BY DEF OpenMark
  <1>3. Len(CloseMark) = 3 /\ CloseMark[2] = "/"
    BY DEF CloseMark
  <1>4. OpenMark \in Seq(Symbols)
    BY DEF OpenMark, Symbols
  <1>5. CloseMark \in Seq(Symbols)
    BY DEF CloseMark, Symbols
  <1>6. "t" # "/"
    OBVIOUS
  <1>7. OpenMark[2] # CloseMark[2]
    BY <1>2, <1>3, <1>6
  <1>8. OpenMark # CloseMark
    BY <1>7
  <1>9. QED
    BY <1>1, <1>2, <1>3, <1>4, <1>5, <1>7, <1>8

LEMMA MarkIs ==
  ASSUME NEW m \in Markers
  PROVE  m \in Seq(Symbols) /\ Len(m) \in Nat /\ Len(m) > 0 /\ 2 \in 1..Len(m) /\ Len(m) <= 3
  <1>1. m = OpenMark \/ m = CloseMark
    BY MarkFacts
  <1>2. CASE m = OpenMark
    BY <1>2, MarkFacts
  <1>3. CASE m = CloseMark
    BY <1>3, MarkFacts
  <1>4. QED
    BY <1>1, <1>2, <1>3

LEMMA OccursIs ==
  ASSUME NEW text \in Writings, NEW m \in Seq(Symbols), Len(m) > 0, NEW i \in Nat \ {0}
  PROVE  Occurs(text, m, i) <=> i + Len(m) - 1 <= Len(text) /\ \A k \in 1..Len(m) : text[i + k - 1] = m[k]
  <1>1. Len(m) \in Nat /\ Len(text) \in Nat
    BY DEF Writings
  <1>2. CASE i + Len(m) - 1 <= Len(text)
    <2>1. PICK s : s = SubSeq(text, i, i + Len(m) - 1)
      OBVIOUS
    <2>2. s \in Seq(Letters) /\ Len(s) = Len(m) /\ \A k \in 1..Len(m) : s[k] = text[i + k - 1]
      BY <1>1, <1>2, <2>1 DEF Writings
    <2>3. s = m <=> \A k \in 1..Len(m) : s[k] = m[k]
      BY <2>2
    <2>4. QED
      BY <1>2, <2>1, <2>2, <2>3 DEF Occurs
  <1>3. QED
    BY <1>2 DEF Occurs

LEMMA FromIs ==
  ASSUME NEW text \in Writings, NEW i \in 1..(Len(text) + 1)
  PROVE  /\ From(text, i) \in Writings /\ Len(From(text, i)) = Len(text) + 1 - i
         /\ \A k \in 1..(Len(text) + 1 - i) : From(text, i)[k] = text[i + k - 1]
  BY DEF From, Writings

LEMMA UptoIs ==
  ASSUME NEW text \in Writings, NEW n \in 0..Len(text)
  PROVE  /\ Upto(text, n) \in Writings /\ Len(Upto(text, n)) = n /\ \A k \in 1..n : Upto(text, n)[k] = text[k]
  <1>1. (IF n < Len(text) THEN n ELSE Len(text)) = n
    BY DEF Writings
  <1>2. QED
    BY <1>1 DEF Upto, Writings

LEMMA FromFrom ==
  ASSUME NEW text \in Writings, NEW i \in 1..(Len(text) + 1), NEW k \in 1..(Len(text) + 2 - i)
  PROVE  From(From(text, i), k) = From(text, i + k - 1)
  <1>1. PICK s : s = From(text, i)
    OBVIOUS
  <1>0. Len(text) \in Nat
    BY DEF Writings
  <1>2. s \in Writings /\ Len(s) = Len(text) + 1 - i /\ Len(text) \in Nat
    BY <1>0, <1>1, FromIs
  <1>3. k \in 1..(Len(s) + 1) /\ i + k - 1 \in 1..(Len(text) + 1)
    BY <1>2
  <1>4. PICK a : a = From(s, k)
    OBVIOUS
  <1>5. PICK b : b = From(text, i + k - 1)
    OBVIOUS
  <1>6. a \in Writings /\ Len(a) = Len(s) + 1 - k /\ \A j \in 1..(Len(s) + 1 - k) : a[j] = s[k + j - 1]
    BY <1>2, <1>3, <1>4, FromIs
  <1>7. /\ b \in Writings /\ Len(b) = Len(text) + 1 - (i + k - 1)
        /\ \A j \in 1..(Len(text) + 1 - (i + k - 1)) : b[j] = text[(i + k - 1) + j - 1]
    BY <1>3, <1>5, FromIs
  <1>8. \A j \in 1..(Len(text) + 1 - i) : s[j] = text[i + j - 1]
    BY <1>1, FromIs
  <1>9. Len(a) = Len(b)
    BY <1>2, <1>6, <1>7
  <1>10. \A j \in 1..Len(a) : a[j] = b[j]
    <2> TAKE j \in 1..Len(a)
    <2>1. a[j] = s[k + j - 1]
      BY <1>6
    <2>2. k + j - 1 \in 1..(Len(text) + 1 - i)
      BY <1>2, <1>6
    <2>3. s[k + j - 1] = text[i + (k + j - 1) - 1]
      BY <1>8, <2>2
    <2>4. j \in 1..(Len(text) + 1 - (i + k - 1))
      BY <1>2, <1>6
    <2>5. b[j] = text[(i + k - 1) + j - 1]
      BY <1>7, <2>4
    <2>6. i + (k + j - 1) - 1 = (i + k - 1) + j - 1
      BY <1>2, <1>6
    <2>7. QED
      BY <2>1, <2>3, <2>5, <2>6
  <1>11. a = b
    <2>1. a \in Seq(Letters) /\ b \in Seq(Letters)
      BY <1>6, <1>7 DEF Writings
    <2>2. QED
      BY <1>9, <1>10, <2>1, SeqEqual
  <1>12. QED
    BY <1>1, <1>4, <1>5, <1>11

\* A marker occurs in the rest of a text where it occurs in the text.
LEMMA OccursFrom ==
  ASSUME NEW text \in Writings, NEW d \in 1..(Len(text) + 1), NEW m \in Seq(Symbols), Len(m) > 0,
         NEW i \in Nat \ {0}
  PROVE  Occurs(From(text, d), m, i) <=> Occurs(text, m, d + i - 1)
  <1>1. PICK s : s = From(text, d)
    OBVIOUS
  <1>2. s \in Writings /\ Len(s) = Len(text) + 1 - d /\ \A k \in 1..Len(s) : s[k] = text[d + k - 1]
    BY <1>1, FromIs
  <1>3. Len(text) \in Nat /\ Len(m) \in Nat /\ d + i - 1 \in Nat \ {0} /\ Len(s) \in Nat
    BY <1>2 DEF Writings
  <1>4. Occurs(s, m, i) <=> i + Len(m) - 1 <= Len(s) /\ \A k \in 1..Len(m) : s[i + k - 1] = m[k]
    BY <1>2, OccursIs
  <1>5. Occurs(text, m, d + i - 1) <=>
          (d + i - 1) + Len(m) - 1 <= Len(text) /\ \A k \in 1..Len(m) : text[(d + i - 1) + k - 1] = m[k]
    BY <1>3, OccursIs
  <1>6. i + Len(m) - 1 <= Len(s) <=> (d + i - 1) + Len(m) - 1 <= Len(text)
    BY <1>2, <1>3
  <1>7. ASSUME i + Len(m) - 1 <= Len(s), NEW k \in 1..Len(m)
        PROVE  s[i + k - 1] = text[(d + i - 1) + k - 1]
    <2>1. i + k - 1 \in 1..Len(s) /\ d + (i + k - 1) - 1 = (d + i - 1) + k - 1
      BY <1>3, <1>7
    <2>2. QED
      BY <1>2, <2>1
  <1>8. QED
    BY <1>1, <1>4, <1>5, <1>6, <1>7

-----------------------------------------------------------------------------
\* The reference reads a text from left to right: one step of the function that
\* its definition recurses on.
MarksAt(text, i) == {m \in Markers : Occurs(text, m, i)}

ReadAt(r, text, i, inside) ==
  IF i > Len(text) THEN <<>>
  ELSE IF inside
       THEN IF CloseMark \in MarksAt(text, i) THEN r[i + Len(CloseMark)][FALSE] ELSE r[i + 1][TRUE]
       ELSE IF MarksAt(text, i) = {} THEN <<text[i]>> \o r[i + 1][FALSE]
            ELSE LET m == CHOOSE n \in MarksAt(text, i) : TRUE IN r[i + Len(m)][m = OpenMark]

IsReading(r, text) == r = [i \in 1 .. Len(text) + 1 |-> [inside \in BOOLEAN |-> ReadAt(r, text, i, inside)]]
Reading(text) == CHOOSE r : IsReading(r, text)
Read(text, inside) == Reading(text)[1][inside]

LEMMA CleanedIs == ASSUME NEW text PROVE Cleaned(text) = Read(text, FALSE)
  BY DEF Cleaned, Read, Reading, IsReading, ReadAt, MarksAt

LEMMA OneMark ==
  ASSUME NEW text \in Writings, NEW i \in Nat \ {0}, NEW m \in MarksAt(text, i), NEW n \in MarksAt(text, i)
  PROVE  m = n
  <1>1. ASSUME NEW k \in MarksAt(text, i) PROVE k \in {OpenMark, CloseMark} /\ text[i + 1] = k[2]
    <2>1. k \in {OpenMark, CloseMark} /\ Occurs(text, k, i)
      BY <1>1, MarkFacts DEF MarksAt
    <2>2. k \in Seq(Symbols) /\ Len(k) > 0 /\ 2 \in 1..Len(k)
      BY <2>1, MarkIs DEF MarksAt
    <2>3. text[i + 2 - 1] = k[2]
      BY <2>1, <2>2, OccursIs
    <2>4. i + 2 - 1 = i + 1
      OBVIOUS
    <2>5. QED
      BY <2>1, <2>3, <2>4
  <1>2. m[2] = n[2]
    BY <1>1
  <1>3. QED
    BY <1>1, <1>2, MarkFacts

\* The cases of a step.
LEMMA ReadAtIs ==
  ASSUME NEW r, NEW text \in Writings, NEW i \in 1..(Len(text) + 1)
  PROVE  /\ i = Len(text) + 1 => ReadAt(r, text, i, TRUE) = <<>> /\ ReadAt(r, text, i, FALSE) = <<>>
         /\ i # Len(text) + 1 =>
              /\ CloseMark \in MarksAt(text, i) => ReadAt(r, text, i, TRUE) = r[i + 3][FALSE]
              /\ CloseMark \notin MarksAt(text, i) => ReadAt(r, text, i, TRUE) = r[i + 1][TRUE]
              /\ MarksAt(text, i) = {} => ReadAt(r, text, i, FALSE) = <<text[i]>> \o r[i + 1][FALSE]
              /\ \A m \in MarksAt(text, i) : ReadAt(r, text, i, FALSE) = r[i + Len(m)][m = OpenMark]
  <1>1. Len(text) \in Nat
    BY DEF Writings
  <1>2. ASSUME i = Len(text) + 1
        PROVE  ReadAt(r, text, i, TRUE) = <<>> /\ ReadAt(r, text, i, FALSE) = <<>>
    <2>1. i > Len(text)
      BY <1>1, <1>2
    <2>2. QED
      BY <2>1 DEF ReadAt
  <1>3. ASSUME i # Len(text) + 1 PROVE ~(i > Len(text))
    BY <1>1, <1>3
  <1>4. ASSUME i # Len(text) + 1, CloseMark \in MarksAt(text, i)
        PROVE  ReadAt(r, text, i, TRUE) = r[i + 3][FALSE]
    BY <1>3, <1>4, MarkFacts DEF ReadAt
  <1>5. ASSUME i # Len(text) + 1, CloseMark \notin MarksAt(text, i)
        PROVE  ReadAt(r, text, i, TRUE) = r[i + 1][TRUE]
    BY <1>3, <1>5 DEF ReadAt
  <1>6. ASSUME i # Len(text) + 1, MarksAt(text, i) = {}
        PROVE  ReadAt(r, text, i, FALSE) = <<text[i]>> \o r[i + 1][FALSE]
    BY <1>3, <1>6 DEF ReadAt
  <1>7. ASSUME i # Len(text) + 1, NEW m \in MarksAt(text, i)
        PROVE  ReadAt(r, text, i, FALSE) = r[i + Len(m)][m = OpenMark]
    <2>1. PICK n : n = CHOOSE k \in MarksAt(text, i) : TRUE
      OBVIOUS
    <2>2. n \in MarksAt(text, i)
      BY <1>7, <2>1
    <2>3. n = m
      BY <1>7, <2>2, OneMark
    <2>4. ReadAt(r, text, i, FALSE) = r[i + Len(n)][n = OpenMark]
      BY <1>3, <1>7, <2>1 DEF ReadAt
    <2>5. QED
      BY <2>3, <2>4
  <1>8. QED
    BY <1>2, <1>4, <1>5, <1>6, <1>7

\* Reading on is the same in the text and in what is left of it.
AgreeAfter(r, q, d, i, n) == \A j \in (i + 1)..(n + 1), c \in BOOLEAN : r[j + d][c] = q[j][c]

LEMMA ReadAtSame ==
  ASSUME NEW text \in Writings, NEW d \in 0..Len(text), NEW s, s = From(text, d + 1), NEW i \in 1..(Len(s) + 1),
         NEW r, NEW q, AgreeAfter(r, q, d, i, Len(s)), NEW inside \in BOOLEAN
  PROVE  ReadAt(r, text, i + d, inside) = ReadAt(q, s, i, inside)
  <1>1. Len(text) \in Nat /\ d + 1 \in 1..(Len(text) + 1)
    BY DEF Writings
  <1>2. s \in Writings /\ Len(s) = Len(text) - d /\ \A k \in 1..Len(s) : s[k] = text[(d + 1) + k - 1]
    <2>1. PICK e \in 1..(Len(text) + 1) : e = d + 1
      BY <1>1
    <2>2. /\ s \in Writings /\ Len(s) = Len(text) + 1 - e
          /\ \A k \in 1..(Len(text) + 1 - e) : s[k] = text[e + k - 1]
      BY <2>1, FromIs
    <2>3. Len(text) + 1 - e = Len(text) - d
      BY <1>1, <2>1
    <2>4. QED
      BY <2>1, <2>2, <2>3
  <1>3. i + d \in 1..(Len(text) + 1) /\ (i = Len(s) + 1 <=> i + d = Len(text) + 1) /\ Len(s) \in Nat
    BY <1>1, <1>2
  <1>4. MarksAt(text, i + d) = MarksAt(s, i)
    <2>1. ASSUME NEW m \in Markers PROVE Occurs(s, m, i) <=> Occurs(text, m, i + d)
      <3>1. m \in Seq(Symbols) /\ Len(m) > 0
        BY <2>1, MarkIs
      <3>2. i \in Nat \ {0} /\ d \in Nat
        BY <1>1, <1>3
      <3>3. (d + 1) + i - 1 = i + d
        BY <3>2
      <3>4. Occurs(s, m, i) <=> Occurs(text, m, (d + 1) + i - 1)
        BY <1>1, <3>1, <3>2, OccursFrom
      <3>5. QED
        BY <3>3, <3>4
    <2>2. QED
      BY <2>1 DEF MarksAt
  <1>5. CASE i = Len(s) + 1
    <2>1. ReadAt(r, text, i + d, TRUE) = <<>> /\ ReadAt(r, text, i + d, FALSE) = <<>>
      <3>1. PICK e \in 1..(Len(text) + 1) : e = i + d /\ e = Len(text) + 1
        BY <1>3, <1>5
      <3>2. ReadAt(r, text, e, TRUE) = <<>> /\ ReadAt(r, text, e, FALSE) = <<>>
        BY <3>1, ReadAtIs
      <3>3. QED
        BY <3>1, <3>2
    <2>2. ReadAt(q, s, i, TRUE) = <<>> /\ ReadAt(q, s, i, FALSE) = <<>>
      BY <1>2, <1>5, ReadAtIs
    <2>3. inside = TRUE \/ inside = FALSE
      OBVIOUS
    <2>4. QED
      BY <2>1, <2>2, <2>3
  <1>6. CASE i # Len(s) + 1
    <2>1. ASSUME NEW m \in MarksAt(s, i) PROVE i + Len(m) \in (i + 1)..(Len(s) + 1)
      <3>1. m \in Seq(Symbols) /\ Len(m) \in {2, 3} /\ Occurs(s, m, i)
        BY <2>1, MarkFacts DEF MarksAt
      <3>2. i + Len(m) - 1 <= Len(s)
        BY <3>1 DEF Occurs
      <3>3. i \in Nat
        BY <1>3
      <3>4. QED
        BY <1>3, <3>1, <3>2, <3>3
    <2>2. i + 1 \in (i + 1)..(Len(s) + 1)
      BY <1>3, <1>6
    <2>3. \A j \in (i + 1)..(Len(s) + 1), c \in BOOLEAN : r[j + d][c] = q[j][c]
      BY DEF AgreeAfter
    <2>4. s[i] = text[i + d]
      BY <1>2, <1>3, <1>6
    <2>5. r[(i + 1) + d][TRUE] = q[i + 1][TRUE] /\ r[(i + 1) + d][FALSE] = q[i + 1][FALSE]
      BY <2>2, <2>3
    <2>6. (i + 1) + d = (i + d) + 1 /\ (i + 3) + d = (i + d) + 3
      BY <1>3
    <2>7. CASE inside /\ CloseMark \in MarksAt(s, i)
      <3>1. i + 3 \in (i + 1)..(Len(s) + 1)
        BY <2>1, <2>7, MarkFacts
      <3>2. r[(i + 3) + d][FALSE] = q[i + 3][FALSE]
        BY <2>3, <3>1
      <3>3. ReadAt(q, s, i, TRUE) = q[i + 3][FALSE]
        BY <1>2, <1>6, <2>7, ReadAtIs
      <3>4. ReadAt(r, text, i + d, TRUE) = r[(i + d) + 3][FALSE]
        BY <1>3, <1>4, <1>6, <2>7, ReadAtIs
      <3>5. inside = TRUE
        BY <2>7
      <3>6. QED
        BY <2>6, <3>2, <3>3, <3>4, <3>5
    <2>8. CASE inside /\ CloseMark \notin MarksAt(s, i)
      <3>1. ReadAt(q, s, i, TRUE) = q[i + 1][TRUE]
        BY SMTT(40), ZenonT(40), <1>2, <1>6, <2>8, ReadAtIs
      <3>2. ReadAt(r, text, i + d, TRUE) = r[(i + d) + 1][TRUE]
        BY <1>3, <1>4, <1>6, <2>8, ReadAtIs
      <3>3. inside = TRUE
        BY <2>8
      <3>4. QED
        BY <2>5, <2>6, <3>1, <3>2, <3>3
    <2>9. CASE ~inside /\ MarksAt(s, i) = {}
      <3>1. ReadAt(q, s, i, FALSE) = <<s[i]>> \o q[i + 1][FALSE]
        BY <1>2, <1>6, <2>9, ReadAtIs
      <3>2. ReadAt(r, text, i + d, FALSE) = <<text[i + d]>> \o r[(i + d) + 1][FALSE]
        BY <1>3, <1>4, <1>6, <2>9, ReadAtIs
      <3>3. inside = FALSE
        BY <2>9
      <3>4. QED
        BY <2>4, <2>5, <2>6, <3>1, <3>2, <3>3
    <2>10. CASE ~inside /\ MarksAt(s, i) # {}
      <3>1. PICK m \in MarksAt(s, i) : TRUE
        BY <2>10
      <3>2. PICK o \in BOOLEAN : o = (m = OpenMark)
        OBVIOUS
      <3>3. r[(i + Len(m)) + d][o] = q[i + Len(m)][o]
        BY <2>1, <2>3
      <3>4. ReadAt(q, s, i, FALSE) = q[i + Len(m)][m = OpenMark]
        BY <1>2, <1>6, ReadAtIs, ZenonT(180)
      <3>5. ReadAt(r, text, i + d, FALSE) = r[(i + d) + Len(m)][m = OpenMark]
        <4>1. PICK e \in 1..(Len(text) + 1) : e = i + d
          BY <1>3
        <4>2. e # Len(text) + 1 /\ m \in MarksAt(text, e)
          BY <1>3, <1>4, <1>6, <4>1
        <4>3. ReadAt(r, text, e, FALSE) = r[e + Len(m)][m = OpenMark]
          BY <4>2, ReadAtIs
        <4>4. QED
          BY <4>1, <4>3
      <3>6. (i + Len(m)) + d = (i + d) + Len(m)
        BY <1>3, <2>1, MarkFacts DEF MarksAt
      <3>7. inside = FALSE
        BY <2>10
      <3>8. QED
        BY <3>2, <3>3, <3>4, <3>5, <3>6, <3>7
    <2>11. QED
      BY <2>7, <2>8, <2>9, <2>10
  <1>7. QED
    BY <1>5, <1>6

LEMMA ReadsAre ==
  ASSUME NEW r, NEW text, IsReading(r, text), NEW i \in 1..(Len(text) + 1), NEW inside \in BOOLEAN
  PROVE  r[i][inside] = ReadAt(r, text, i, inside) /\ r[i] = [c \in BOOLEAN |-> ReadAt(r, text, i, c)]
  <1> DEFINE f == [k \in 1..(Len(text) + 1) |-> [c \in BOOLEAN |-> ReadAt(r, text, k, c)]]
             g == [c \in BOOLEAN |-> ReadAt(r, text, i, c)]
  <1>1. r = f
    BY DEF IsReading
  <1>2. f[i] = g
    OBVIOUS
  <1>3. g[inside] = ReadAt(r, text, i, inside)
    OBVIOUS
  <1> HIDE DEF f
  <1>4. QED
    BY <1>1, <1>2, <1>3

\* There is one reading of a text, and what is left of the text is read the same.
LEMMA ReadsSame ==
  ASSUME NEW text \in Writings, NEW d \in 0..Len(text), NEW s, s = From(text, d + 1),
         NEW r, NEW q, IsReading(r, text), IsReading(q, s), NEW i \in 1..(Len(s) + 1), NEW inside \in BOOLEAN
  PROVE  r[i + d][inside] = q[i][inside]
  <1>1. Len(text) \in Nat /\ d + 1 \in 1..(Len(text) + 1)
    BY DEF Writings
  <1>2. PICK n \in Nat : n = Len(s) /\ n + d = Len(text)
    <2>1. PICK e \in 1..(Len(text) + 1) : e = d + 1
      BY <1>1
    <2>2. Len(s) = Len(text) + 1 - e
      BY <2>1, FromIs
    <2>3. QED
      BY <1>1, <2>1, <2>2
  <1> DEFINE Amiss(k) == \E c \in BOOLEAN : r[k + d][c] # q[k][c]
             W == {j \in 0..n : \E k \in 1..(n + 1) : j + k = n + 1 /\ Amiss(k)}
  <1> HIDE DEF Amiss
  <1>3. ASSUME NEW k \in 1..(n + 1), AgreeAfter(r, q, d, k, Len(s)) PROVE ~Amiss(k)
    <2>1. SUFFICES ASSUME NEW c \in BOOLEAN PROVE r[k + d][c] = q[k][c]
      BY DEF Amiss
    <2>2. k \in 1..(Len(s) + 1)
      BY <1>2
    <2>3. ReadAt(r, text, k + d, c) = ReadAt(q, s, k, c)
      BY <1>3, <2>2, ReadAtSame
    <2>4. q[k][c] = ReadAt(q, s, k, c)
      BY <2>2, ReadsAre
    <2>5. k + d \in 1..(Len(text) + 1)
      BY <1>1, <1>2
    <2>6. r[k + d][c] = ReadAt(r, text, k + d, c)
      BY <2>5, ReadsAre
    <2>7. QED
      BY <2>3, <2>4, <2>6
  <1>4. W = {}
    <2> SUFFICES ASSUME W # {} PROVE FALSE
      OBVIOUS
    <2>1. W \subseteq Nat
      OBVIOUS
    <2>2. PICK j \in W : \A k \in W : j <= k
      BY <2>1, LeastNumber
    <2>3. PICK k \in 1..(n + 1) : j \in 0..n /\ j + k = n + 1 /\ Amiss(k)
      BY <2>2
    <2>4. ASSUME NEW h \in (k + 1)..(n + 1) PROVE ~Amiss(h)
      <3>1. SUFFICES ASSUME Amiss(h) PROVE FALSE
        OBVIOUS
      <3>2. PICK l \in 0..n : l + h = n + 1 /\ l < j
        <4>1. n + 1 - h \in 0..n /\ (n + 1 - h) + h = n + 1 /\ n + 1 - h < j
          BY <2>3, <2>4
        <4>2. QED
          BY <4>1
      <3>3. h \in 1..(n + 1)
        BY <2>3, <2>4
      <3>4. l \in W
        BY <3>1, <3>2, <3>3
      <3>5. j <= l
        BY <2>2, <3>4
      <3>6. QED
        BY <2>3, <3>2, <3>5
    <2>5. AgreeAfter(r, q, d, k, Len(s))
      BY <1>2, <2>4 DEF AgreeAfter, Amiss
    <2>6. QED
      BY <1>3, <2>3, <2>5
  <1>5. i \in 1..(n + 1)
    BY <1>2
  <1>6. n + 1 - i \in 0..n /\ (n + 1 - i) + i = n + 1
    BY <1>5
  <1>7. ~Amiss(i)
    BY <1>4, <1>5, <1>6
  <1>8. QED
    BY <1>7 DEF Amiss

LEMMA FromOne == ASSUME NEW text \in Writings PROVE From(text, 1) = text
  BY DEF From, Writings

LEMMA ReadsExists == ASSUME NEW text \in Writings PROVE \E r : IsReading(r, text)
  <1> DEFINE W == {n \in Nat : \E t \in Writings : Len(t) = n /\ ~(\E r : IsReading(r, t))}
  <1>1. Len(text) \in Nat
    BY DEF Writings
  <1>2. SUFFICES ASSUME W # {} PROVE FALSE
    BY <1>1
  <1>3. PICK n \in W : \A k \in W : n <= k
    BY <1>2, LeastNumber
  <1>4. PICK t \in Writings : Len(t) = n /\ ~(\E r : IsReading(r, t))
    BY <1>3
  <1>5. CASE n = 0
    <2> DEFINE r == [i \in 1..1 |-> [inside \in BOOLEAN |-> <<>>]]
    <2>1. \A i \in 1..1 : i = 1 /\ 1 = Len(t) + 1
      BY <1>4, <1>5
    <2>2. 1 \in 1..(Len(t) + 1) /\ Len(t) + 1 = 1
      BY <1>4, <1>5
    <2> HIDE DEF r
    <2>3. ReadAt(r, t, 1, TRUE) = <<>> /\ ReadAt(r, t, 1, FALSE) = <<>>
      BY <2>2, ReadAtIs
    <2>4. \A i \in 1..1, inside \in BOOLEAN : ReadAt(r, t, i, inside) = <<>>
      BY <2>1, <2>3
    <2>5. r = [i \in 1..1 |-> [inside \in BOOLEAN |-> <<>>]]
      BY DEF r
    <2>6. r = [i \in 1..1 |-> [inside \in BOOLEAN |-> ReadAt(r, t, i, inside)]]
      BY <2>4, <2>5
    <2>7. IsReading(r, t)
      BY <2>2, <2>6 DEF IsReading
    <2>8. QED
      BY <1>4, <2>7
  <1>6. CASE n # 0
    <2>1. n \in Nat /\ n - 1 \in Nat /\ ~(n <= n - 1) /\ 1 \in 0..Len(t) /\ 2 \in 1..(Len(t) + 1)
      BY <1>4, <1>6
    <2>2. PICK s : s = From(t, 1 + 1)
      OBVIOUS
    <2>3. s \in Writings /\ Len(s) = n - 1
      BY <1>4, <2>1, <2>2, FromIs
    <2>4. n - 1 \notin W
      BY <1>3, <2>1
    <2>5. PICK q : IsReading(q, s)
      BY <2>1, <2>3, <2>4
    <2> DEFINE f == [i \in 1..(n + 1) |-> q[i - 1]]
               r == [i \in 1..(n + 1) |->
                       IF i = 1 THEN [inside \in BOOLEAN |-> ReadAt(f, t, 1, inside)] ELSE q[i - 1]]
    <2>6. \A i \in 1..n, c \in BOOLEAN : r[i + 1][c] = q[i][c] /\ f[i + 1][c] = q[i][c]
      <3> TAKE i \in 1..n, c \in BOOLEAN
      <3>1. i + 1 \in 1..(n + 1) /\ i + 1 # 1 /\ (i + 1) - 1 = i
        BY <2>1
      <3>2. QED
        BY <3>1
    <2>7. \A inside \in BOOLEAN : r[1][inside] = ReadAt(f, t, 1, inside)
      BY <2>1
    <2>8. r = [i \in 1..(n + 1) |-> r[i]] /\ r[1] = [inside \in BOOLEAN |-> r[1][inside]]
      <3>1. 1 \in 1..(n + 1)
        BY <2>1
      <3>2. r[1] = [inside \in BOOLEAN |-> ReadAt(f, t, 1, inside)]
        BY <3>1
      <3>3. r = [i \in 1..(n + 1) |-> r[i]]
        OBVIOUS
      <3>4. r[1] = [inside \in BOOLEAN |-> r[1][inside]]
        BY <3>2
      <3>5. QED
        BY <3>3, <3>4
    <2>9. \A i \in 1..n : r[i + 1] = q[i]
      <3> TAKE i \in 1..n
      <3>1. i + 1 \in 1..(n + 1) /\ i + 1 # 1 /\ (i + 1) - 1 = i
        BY <2>1
      <3>2. QED
        BY <3>1
    <2> HIDE DEF r, f
    <2>10. ASSUME NEW inside \in BOOLEAN PROVE ReadAt(r, t, 1, inside) = ReadAt(f, t, 1, inside)
      <3>1. AgreeAfter(r, f, 0, 1, Len(t))
        <4>1. ASSUME NEW j \in (1 + 1)..(n + 1), NEW c \in BOOLEAN PROVE r[j + 0][c] = f[j][c]
          <5>1. PICK i \in 1..n : i + 1 = j /\ j + 0 = j
            BY <2>1, <4>1
          <5>2. r[i + 1][c] = q[i][c] /\ f[i + 1][c] = q[i][c]
            BY <2>6
          <5>3. QED
            BY <5>1, <5>2
        <4>2. QED
          BY <1>4, <4>1 DEF AgreeAfter
      <3>2. 0 \in 0..Len(t) /\ t = From(t, 0 + 1) /\ 1 \in 1..(Len(t) + 1) /\ 1 + 0 = 1
        BY <1>4, <2>1, FromOne
      <3>3. ReadAt(r, t, 1 + 0, inside) = ReadAt(f, t, 1, inside)
        BY <3>1, <3>2, ReadAtSame
      <3>4. QED
        BY <3>2, <3>3
    <2>11. ASSUME NEW i \in 1..n, NEW inside \in BOOLEAN PROVE r[i + 1][inside] = ReadAt(r, t, i + 1, inside)
      <3>1. AgreeAfter(r, q, 1, i, Len(s))
        <4>1. ASSUME NEW j \in (i + 1)..((n - 1) + 1), NEW c \in BOOLEAN PROVE r[j + 1][c] = q[j][c]
          <5>1. j \in 1..n
            BY <2>1, <4>1
          <5>2. QED
            BY <2>6, <5>1
        <4>2. QED
          BY <2>3, <4>1 DEF AgreeAfter
      <3>2. i \in 1..(Len(s) + 1)
        BY <2>1, <2>3
      <3>3. ReadAt(r, t, i + 1, inside) = ReadAt(q, s, i, inside)
        BY <2>1, <2>2, <3>1, <3>2, ReadAtSame
      <3>4. q[i][inside] = ReadAt(q, s, i, inside)
        BY <2>5, <3>2, ReadsAre
      <3>5. r[i + 1][inside] = q[i][inside]
        BY <2>6
      <3>6. QED
        BY <3>3, <3>4, <3>5
    <2>12. ASSUME NEW i \in 1..(n + 1) PROVE r[i] = [inside \in BOOLEAN |-> ReadAt(r, t, i, inside)]
      <3>1. CASE i = 1
        <4>1. \A inside \in BOOLEAN : r[1][inside] = ReadAt(r, t, 1, inside)
          BY <2>7, <2>10
        <4>2. QED
          BY <2>8, <3>1, <4>1
      <3>2. CASE i # 1
        <4>1. PICK k \in 1..n : k + 1 = i
          BY <2>1, <3>2
        <4>2. k \in 1..(Len(s) + 1)
          BY <2>1, <2>3
        <4>3. q[k] = [inside \in BOOLEAN |-> ReadAt(q, s, k, inside)]
          BY <2>5, <4>2, ReadsAre
        <4>4. r[k + 1] = [inside \in BOOLEAN |-> r[k + 1][inside]]
          BY <2>9, <4>3
        <4>5. r[i] = [inside \in BOOLEAN |-> r[i][inside]]
          BY <4>1, <4>4
        <4>6. \A inside \in BOOLEAN : r[i][inside] = ReadAt(r, t, i, inside)
          BY <2>11, <4>1
        <4>7. QED
          BY <4>5, <4>6
      <3>3. QED
        BY <3>1, <3>2
    <2>13. r = [i \in 1..(n + 1) |-> [inside \in BOOLEAN |-> ReadAt(r, t, i, inside)]]
      BY <2>8, <2>12
    <2>14. IsReading(r, t)
      BY <1>4, <2>13 DEF IsReading
    <2>15. QED
      BY <1>4, <2>14
  <1>7. QED
    BY <1>5, <1>6

-----------------------------------------------------------------------------
LEMMA ReadingReads == ASSUME NEW text \in Writings PROVE IsReading(Reading(text), text)
  BY ReadsExists DEF Reading

LEMMA ReadingOn ==
  ASSUME NEW text \in Writings, NEW i \in 1..(Len(text) + 1), NEW inside \in BOOLEAN
  PROVE  Reading(text)[i][inside] = Read(From(text, i), inside)
  <1>1. Len(text) \in Nat
    BY DEF Writings
  <1>2. PICK d \in 0..Len(text) : d + 1 = i /\ 1 + d = i
    <2>1. i - 1 \in 0..Len(text) /\ (i - 1) + 1 = i /\ 1 + (i - 1) = i
      BY <1>1
    <2>2. QED
      BY <2>1
  <1>3. PICK s : s = From(text, d + 1)
    OBVIOUS
  <1>4. s \in Writings /\ Len(s) \in Nat
    <2>1. s \in Writings
      BY <1>2, <1>3, FromIs
    <2>2. QED
      BY <2>1 DEF Writings
  <1>5. 1 \in 1..(Len(s) + 1)
    BY <1>4
  <1>6. Reading(text)[1 + d][inside] = Reading(s)[1][inside]
    BY <1>3, <1>4, <1>5, ReadingReads, ReadsSame
  <1>7. QED
    BY <1>2, <1>3, <1>6 DEF Read

LEMMA ReadEmpty ==
  ASSUME NEW text \in Writings, Len(text) = 0, NEW inside \in BOOLEAN
  PROVE  Read(text, inside) = <<>>
  <1>1. 1 \in 1..(Len(text) + 1) /\ 1 = Len(text) + 1
    OBVIOUS
  <1>2. Read(text, inside) = ReadAt(Reading(text), text, 1, inside)
    BY <1>1, ReadingReads, ReadsAre DEF Read
  <1>3. ReadAt(Reading(text), text, 1, TRUE) = <<>> /\ ReadAt(Reading(text), text, 1, FALSE) = <<>>
    BY <1>1, ReadAtIs
  <1>4. inside = TRUE \/ inside = FALSE
    OBVIOUS
  <1>5. QED
    BY <1>2, <1>3, <1>4

\* What is read of a symbol that begins no marker, and of a marker.
Kept(inside, text) == IF inside THEN <<>> ELSE text
NoMark(text, inside, n) == \A m \in MarksIn(inside), i \in 1..n : ~Occurs(text, m, i)

LEMMA ReadSkip ==
  ASSUME NEW text \in Writings, Len(text) > 0, NEW inside \in BOOLEAN, NoMark(text, inside, 1)
  PROVE  Read(text, inside) = (IF inside THEN Read(From(text, 2), TRUE)
                               ELSE <<text[1]>> \o Read(From(text, 2), FALSE))
  <1>1. Len(text) \in Nat
    BY DEF Writings
  <1>2. 1 \in 1..(Len(text) + 1) /\ 1 # Len(text) + 1 /\ 2 \in 1..(Len(text) + 1) /\ 1 + 1 = 2 /\ 1 \in 1..1
    BY <1>1
  <1>3. PICK r : r = Reading(text)
    OBVIOUS
  <1>4. Read(text, inside) = ReadAt(r, text, 1, inside)
    BY <1>2, <1>3, ReadingReads, ReadsAre DEF Read
  <1>5. r[2][TRUE] = Read(From(text, 2), TRUE) /\ r[2][FALSE] = Read(From(text, 2), FALSE)
    BY <1>2, <1>3, ReadingOn
  <1>6. CASE inside
    <2>1. CloseMark \notin MarksAt(text, 1)
      BY <1>2, <1>6 DEF NoMark, MarksIn, MarksAt
    <2>2. ReadAt(r, text, 1, TRUE) = r[1 + 1][TRUE]
      BY <1>2, <2>1, ReadAtIs
    <2>3. inside = TRUE
      BY <1>6
    <2>4. QED
      BY <1>2, <1>4, <1>5, <2>2, <2>3
  <1>7. CASE ~inside
    <2>1. MarksAt(text, 1) = {}
      BY <1>2, <1>7 DEF NoMark, MarksIn, MarksAt
    <2>2. ReadAt(r, text, 1, FALSE) = <<text[1]>> \o r[1 + 1][FALSE]
      BY <1>2, <2>1, ReadAtIs
    <2>3. inside = FALSE
      BY <1>7
    <2>4. QED
      BY <1>2, <1>4, <1>5, <2>2, <2>3
  <1>8. QED
    BY <1>6, <1>7

LEMMA ReadMark ==
  ASSUME NEW text \in Writings, NEW inside \in BOOLEAN, NEW m \in MarksIn(inside), Occurs(text, m, 1)
  PROVE  /\ 1 + Len(m) \in 1..(Len(text) + 1)
         /\ Read(text, inside) = Read(From(text, 1 + Len(m)), ~inside /\ m = OpenMark)
  <1>1. Len(text) \in Nat /\ m \in Markers
    BY MarkFacts DEF Writings, MarksIn
  <1>2. Len(m) \in Nat /\ Len(m) > 0 /\ 1 + Len(m) - 1 <= Len(text)
    BY <1>1, MarkIs DEF Occurs
  <1>3. 1 \in 1..(Len(text) + 1) /\ 1 # Len(text) + 1 /\ 1 + Len(m) \in 1..(Len(text) + 1)
    BY <1>1, <1>2
  <1>4. PICK r : r = Reading(text)
    OBVIOUS
  <1>5. Read(text, inside) = ReadAt(r, text, 1, inside)
    BY <1>3, <1>4, ReadingReads, ReadsAre DEF Read
  <1>6. PICK o \in BOOLEAN : o = (~inside /\ m = OpenMark)
    OBVIOUS
  <1>7. r[1 + Len(m)][o] = Read(From(text, 1 + Len(m)), o)
    BY <1>3, <1>4, ReadingOn
  <1>8. m \in MarksAt(text, 1)
    BY <1>1 DEF MarksAt
  <1>9. CASE inside
    <2>1. m = CloseMark /\ Len(m) = 3
      BY <1>9, MarkFacts DEF MarksIn
    <2>2. ReadAt(r, text, 1, TRUE) = r[1 + 3][FALSE]
      BY <1>3, <1>8, <2>1, ReadAtIs
    <2>3. inside = TRUE /\ o = FALSE
      BY <1>6, <1>9
    <2>4. QED
      BY <1>3, <1>5, <1>6, <1>7, <2>1, <2>2, <2>3
  <1>10. CASE ~inside
    <2>1. ReadAt(r, text, 1, FALSE) = r[1 + Len(m)][m = OpenMark]
      BY <1>3, <1>8, ReadAtIs
    <2>2. inside = FALSE /\ o = (m = OpenMark)
      BY <1>6, <1>10
    <2>3. QED
      BY <1>3, <1>5, <1>6, <1>7, <2>1, <2>2
  <1>11. QED
    BY <1>9, <1>10

LEMMA ReadType == ASSUME NEW text \in Writings, NEW inside \in BOOLEAN PROVE Read(text, inside) \in Writings
  <1> DEFINE W == {n \in Nat : \E t \in Writings, o \in BOOLEAN : Len(t) = n /\ Read(t, o) \notin Writings}
  <1>1. Len(text) \in Nat
    BY DEF Writings
  <1>2. SUFFICES ASSUME W # {} PROVE FALSE
    BY <1>1
  <1>3. PICK n \in W : \A k \in W : n <= k
    BY <1>2, LeastNumber
  <1>4. PICK t \in Writings, o \in BOOLEAN : Len(t) = n /\ Read(t, o) \notin Writings /\ n \in Nat
    BY <1>3
  <1>5. ASSUME NEW i \in 2..(n + 1), NEW b \in BOOLEAN PROVE Read(From(t, i), b) \in Writings
    <2>1. i \in 1..(Len(t) + 1)
      BY <1>4, <1>5
    <2>2. From(t, i) \in Writings /\ Len(From(t, i)) = n + 1 - i
      BY <1>4, <2>1, FromIs
    <2>3. n + 1 - i \in Nat /\ ~(n <= n + 1 - i)
      BY <1>4, <1>5
    <2>4. n + 1 - i \notin W
      BY <1>3, <2>3
    <2>5. QED
      BY <2>2, <2>3, <2>4
  <1>6. n # 0
    <2>1. <<>> \in Writings
      BY DEF Writings
    <2>2. QED
      BY <1>4, <2>1, ReadEmpty
  <1>7. CASE NoMark(t, o, 1)
    <2>1. Read(t, o) = (IF o THEN Read(From(t, 2), TRUE) ELSE <<t[1]>> \o Read(From(t, 2), FALSE))
      <3>1. Len(t) > 0
        BY <1>4, <1>6
      <3>2. QED
        BY <1>7, <3>1, ReadSkip
    <2>2. 2 \in 2..(n + 1)
      BY <1>4, <1>6
    <2>3. Read(From(t, 2), TRUE) \in Writings /\ Read(From(t, 2), FALSE) \in Writings
      BY <1>5, <2>2
    <2>4. t[1] \in Letters
      BY <1>4, <1>6 DEF Writings
    <2>5. <<t[1]>> \o Read(From(t, 2), FALSE) \in Writings
      <3>1. PICK x \in Letters : x = t[1]
        BY <2>4
      <3>2. PICK y \in Writings : y = Read(From(t, 2), FALSE)
        BY <2>3
      <3>3. <<x>> \o y \in Writings
        BY DEF Writings
      <3>4. QED
        BY <3>1, <3>2, <3>3
    <2>6. QED
      BY <1>4, <2>1, <2>3, <2>5
  <1>8. CASE ~NoMark(t, o, 1)
    <2>1. PICK m \in MarksIn(o), i \in 1..1 : Occurs(t, m, i)
      BY <1>8 DEF NoMark
    <2>2. Occurs(t, m, 1) /\ m \in Markers
      <3>1. i = 1
        OBVIOUS
      <3>2. QED
        BY <2>1, <3>1, MarkFacts DEF MarksIn
    <2>3. PICK b \in BOOLEAN : b = (~o /\ m = OpenMark)
      OBVIOUS
    <2>4. 1 + Len(m) \in 1..(Len(t) + 1) /\ Read(t, o) = Read(From(t, 1 + Len(m)), b)
      BY <2>2, <2>3, ReadMark
    <2>5. 1 + Len(m) \in 2..(n + 1)
      BY <1>4, <2>2, <2>4, MarkIs
    <2>6. QED
      BY <1>4, <1>5, <2>4, <2>5
  <1>9. QED
    BY <1>7, <1>8

-----------------------------------------------------------------------------
\* Writings in parts.
LEMMA JoinIs ==
  ASSUME NEW s \in Writings, NEW t \in Writings
  PROVE  /\ s \o t \in Writings /\ Len(s \o t) = Len(s) + Len(t) /\ Len(s) \in Nat /\ Len(t) \in Nat
         /\ \A k \in 1..Len(s) : (s \o t)[k] = s[k]
         /\ \A k \in 1..Len(t) : (s \o t)[Len(s) + k] = t[k]
  BY DEF Writings

LEMMA SameText ==
  ASSUME NEW s \in Writings, NEW t \in Writings, Len(s) = Len(t), \A k \in 1..Len(s) : s[k] = t[k]
  PROVE  s = t
  BY DEF Writings

LEMMA JoinJoin ==
  ASSUME NEW s \in Writings, NEW t \in Writings, NEW u \in Writings
  PROVE  (s \o t) \o u = s \o (t \o u)
  BY DEF Writings

LEMMA JoinEmpty == ASSUME NEW s \in Writings PROVE <<>> \o s = s /\ s \o <<>> = s /\ <<>> \in Writings
  BY DEF Writings

LEMMA FromJoin ==
  ASSUME NEW s \in Writings, NEW t \in Writings, NEW i \in 1..(Len(s) + 1)
  PROVE  From(s \o t, i) = From(s, i) \o t
  <1>1. PICK j : j = s \o t
    OBVIOUS
  <1>2. /\ j \in Writings /\ Len(j) = Len(s) + Len(t) /\ Len(s) \in Nat /\ Len(t) \in Nat
        /\ \A k \in 1..Len(s) : j[k] = s[k]
        /\ \A k \in 1..Len(t) : j[Len(s) + k] = t[k]
    BY <1>1, JoinIs
  <1>3. i \in 1..(Len(j) + 1)
    BY <1>2
  <1>4. PICK a : a = From(j, i)
    OBVIOUS
  <1>5. a \in Writings /\ Len(a) = Len(j) + 1 - i /\ \A k \in 1..(Len(j) + 1 - i) : a[k] = j[i + k - 1]
    BY <1>2, <1>3, <1>4, FromIs
  <1>6. PICK f : f = From(s, i)
    OBVIOUS
  <1>7. f \in Writings /\ Len(f) = Len(s) + 1 - i /\ \A k \in 1..(Len(s) + 1 - i) : f[k] = s[i + k - 1]
    BY <1>6, FromIs
  <1>8. PICK b : b = f \o t
    OBVIOUS
  <1>9. /\ b \in Writings /\ Len(b) = Len(f) + Len(t)
        /\ \A k \in 1..Len(f) : b[k] = f[k]
        /\ \A k \in 1..Len(t) : b[Len(f) + k] = t[k]
    BY <1>7, <1>8, JoinIs
  <1>10. Len(a) = Len(b) /\ i \in Nat /\ i >= 1
    BY <1>2, <1>5, <1>7, <1>9
  <1>11. ASSUME NEW k \in 1..Len(a) PROVE a[k] = b[k]
    <2>1. a[k] = j[i + k - 1] /\ k \in Nat /\ k >= 1 /\ k <= Len(s) + Len(t) + 1 - i
      BY <1>2, <1>5, <1>10, <1>11
    <2>2. CASE k <= Len(f)
      <3>1. i + k - 1 \in 1..Len(s) /\ k \in 1..Len(f) /\ k \in 1..(Len(s) + 1 - i)
        BY <1>2, <1>7, <1>10, <2>1, <2>2
      <3>2. QED
        BY <1>2, <1>7, <1>9, <2>1, <3>1
    <2>3. CASE k > Len(f)
      <3>1. PICK h \in 1..Len(t) : k = Len(f) + h /\ i + k - 1 = Len(s) + h
        <4>1. k - Len(f) \in 1..Len(t) /\ k = Len(f) + (k - Len(f)) /\ i + k - 1 = Len(s) + (k - Len(f))
          BY <1>2, <1>7, <1>10, <2>1, <2>3
        <4>2. QED
          BY <4>1
      <3>2. QED
        BY <1>2, <1>9, <2>1, <3>1
    <2>4. Len(f) \in Nat
      BY <1>2, <1>7, <1>10
    <2>5. QED
      BY <2>1, <2>2, <2>3, <2>4
  <1>12. a = b
    BY <1>5, <1>9, <1>10, <1>11, SameText
  <1>13. QED
    BY <1>1, <1>4, <1>6, <1>8, <1>12

LEMMA UptoJoin ==
  ASSUME NEW s \in Writings, NEW t \in Writings, NEW n \in 0..Len(s)
  PROVE  Upto(s \o t, n) = Upto(s, n)
  <1>1. PICK j : j = s \o t
    OBVIOUS
  <1>2. /\ j \in Writings /\ Len(j) = Len(s) + Len(t) /\ Len(s) \in Nat /\ Len(t) \in Nat
        /\ \A k \in 1..Len(s) : j[k] = s[k]
    BY <1>1, JoinIs
  <1>3. n \in 0..Len(j)
    BY <1>2
  <1>4. /\ Upto(j, n) \in Writings /\ Len(Upto(j, n)) = n /\ \A k \in 1..n : Upto(j, n)[k] = j[k]
        /\ Upto(s, n) \in Writings /\ Len(Upto(s, n)) = n /\ \A k \in 1..n : Upto(s, n)[k] = s[k]
    BY <1>2, <1>3, UptoIs
  <1>5. \A k \in 1..n : Upto(j, n)[k] = Upto(s, n)[k]
    BY <1>2, <1>4
  <1>6. Upto(j, n) = Upto(s, n)
    BY <1>4, <1>5, SameText
  <1>7. QED
    BY <1>1, <1>6

LEMMA UptoFrom ==
  ASSUME NEW s \in Writings, NEW n \in 0..Len(s)
  PROVE  s = Upto(s, n) \o From(s, n + 1)
  <1>1. PICK a : a = Upto(s, n)
    OBVIOUS
  <1>2. PICK b : b = From(s, n + 1)
    OBVIOUS
  <1>3. Len(s) \in Nat /\ n + 1 \in 1..(Len(s) + 1)
    BY DEF Writings
  <1>4. a \in Writings /\ Len(a) = n /\ \A k \in 1..n : a[k] = s[k]
    BY <1>1, UptoIs
  <1>5. b \in Writings /\ Len(b) = Len(s) - n /\ \A k \in 1..(Len(s) - n) : b[k] = s[n + k]
    <2>1. PICK e \in 1..(Len(s) + 1) : e = n + 1
      BY <1>3
    <2>2. b \in Writings /\ Len(b) = Len(s) + 1 - e /\ \A k \in 1..(Len(s) + 1 - e) : b[k] = s[e + k - 1]
      BY <1>2, <2>1, FromIs
    <2>3. Len(s) + 1 - e = Len(s) - n /\ \A k \in Nat : e + k - 1 = n + k
      BY <1>3, <2>1
    <2>4. QED
      BY <2>2, <2>3
  <1>6. PICK j : j = a \o b
    OBVIOUS
  <1>7. /\ j \in Writings /\ Len(j) = n + (Len(s) - n)
        /\ \A k \in 1..n : j[k] = a[k]
        /\ \A k \in 1..(Len(s) - n) : j[n + k] = b[k]
    <2>1. /\ j \in Writings /\ Len(j) = Len(a) + Len(b)
          /\ \A k \in 1..Len(a) : j[k] = a[k]
          /\ \A k \in 1..Len(b) : j[Len(a) + k] = b[k]
      BY <1>4, <1>5, <1>6, JoinIs
    <2>2. QED
      BY <1>4, <1>5, <2>1
  <1>8. Len(j) = Len(s)
    BY <1>3, <1>7
  <1>9. ASSUME NEW k \in 1..Len(j) PROVE j[k] = s[k]
    <2>1. CASE k <= n
      BY <1>4, <1>7, <2>1
    <2>2. CASE k > n
      <3>1. PICK h \in 1..(Len(s) - n) : n + h = k
        <4>1. k - n \in 1..(Len(s) - n) /\ n + (k - n) = k
          BY <1>3, <1>8, <2>2
        <4>2. QED
          BY <4>1
      <3>2. QED
        BY <1>5, <1>7, <3>1
    <2>3. QED
      BY <1>3, <2>1, <2>2
  <1>10. j = s
    BY <1>7, <1>8, <1>9, SameText
  <1>11. QED
    BY <1>1, <1>2, <1>6, <1>10

LEMMA UptoNext ==
  ASSUME NEW s \in Writings, NEW n \in 1..Len(s)
  PROVE  Upto(s, n) = Upto(s, n - 1) \o <<s[n]>>
  <1>1. PICK a : a = Upto(s, n - 1)
    OBVIOUS
  <1>2. Len(s) \in Nat /\ n - 1 \in 0..Len(s) /\ n \in 0..Len(s) /\ n \in Nat
    BY DEF Writings
  <1>3. PICK m \in 0..Len(s) : m = n - 1 /\ m + 1 = n
    BY <1>2
  <1>4. a \in Writings /\ Len(a) = m /\ \A k \in 1..m : a[k] = s[k]
    BY <1>1, <1>3, UptoIs
  <1>5. PICK b : b = <<s[n]>>
    OBVIOUS
  <1>6. b \in Writings /\ Len(b) = 1 /\ b[1] = s[n]
    BY <1>2, <1>5 DEF Writings
  <1>7. PICK j : j = a \o b
    OBVIOUS
  <1>8. /\ j \in Writings /\ Len(j) = m + 1
        /\ \A k \in 1..m : j[k] = a[k]
        /\ \A k \in 1..1 : j[m + k] = b[k]
    <2>1. /\ j \in Writings /\ Len(j) = Len(a) + Len(b)
          /\ \A k \in 1..Len(a) : j[k] = a[k]
          /\ \A k \in 1..Len(b) : j[Len(a) + k] = b[k]
      BY <1>4, <1>6, <1>7, JoinIs
    <2>2. QED
      BY <1>4, <1>6, <2>1
  <1>9. Upto(s, n) \in Writings /\ Len(Upto(s, n)) = n /\ \A k \in 1..n : Upto(s, n)[k] = s[k]
    BY <1>2, UptoIs
  <1>10. ASSUME NEW k \in 1..n PROVE Upto(s, n)[k] = j[k]
    <2>1. CASE k <= m
      <3>1. k \in 1..m
        BY <1>3, <2>1
      <3>2. QED
        BY <1>4, <1>8, <1>9, <3>1
    <2>2. CASE k > m
      <3>1. k = n /\ k = m + 1 /\ 1 \in 1..1
        BY <1>2, <1>3, <2>2
      <3>2. QED
        BY <1>6, <1>8, <1>9, <3>1
    <2>3. QED
      BY <1>2, <1>3, <2>1, <2>2
  <1>11. Upto(s, n) = j
    BY <1>3, <1>8, <1>9, <1>10, SameText
  <1>12. QED
    BY <1>1, <1>5, <1>7, <1>11

-----------------------------------------------------------------------------
\* Up to the first marker a text is read as it is, or not at all inside.
LEMMA PassesOver ==
  ASSUME NEW text \in Writings, NEW inside \in BOOLEAN, NEW n \in 0..Len(text), NoMark(text, inside, n)
  PROVE  Read(text, inside) = Kept(inside, Upto(text, n)) \o Read(From(text, n + 1), inside)
  <1> DEFINE Says(k) == Read(text, inside) = Kept(inside, Upto(text, k)) \o Read(From(text, k + 1), inside)
             W == {k \in 0..n : ~Says(k)}
  <1> HIDE DEF Says
  <1>1. Len(text) \in Nat /\ n \in Nat /\ n <= Len(text)
    BY DEF Writings
  <1>2. Says(0)
    <2>1. Read(text, inside) \in Writings
      BY ReadType
    <2>2. From(text, 0 + 1) = text
      BY FromOne
    <2>3. Upto(text, 0) = <<>>
      <3>1. 0 \in 0..Len(text)
        BY <1>1
      <3>2. Upto(text, 0) \in Writings /\ Len(Upto(text, 0)) = 0
        BY <3>1, UptoIs
      <3>3. QED
        BY <3>2 DEF Writings
    <2>4. Kept(inside, <<>>) = <<>>
      BY DEF Kept
    <2>5. QED
      BY <2>1, <2>2, <2>3, <2>4, JoinEmpty DEF Says
  <1>3. ASSUME NEW k \in 1..n, Says(k - 1) PROVE Says(k)
    <2>1. PICK h \in 0..n : h = k - 1 /\ h + 1 = k
      <3>1. k - 1 \in 0..n /\ (k - 1) + 1 = k
        BY <1>1
      <3>2. QED
        BY <3>1
    <2>2. k \in 1..(Len(text) + 1) /\ k + 1 \in 1..(Len(text) + 1) /\ k \in 1..Len(text)
          /\ k + 2 - 1 = k + 1 /\ h \in 0..Len(text) /\ k \in 0..Len(text) /\ 2 \in 1..(Len(text) + 2 - k)
      BY <1>1, <2>1
    <2>3. PICK t : t = From(text, k)
      OBVIOUS
    <2>4. t \in Writings /\ Len(t) = Len(text) + 1 - k /\ \A i \in 1..(Len(text) + 1 - k) : t[i] = text[k + i - 1]
      BY <2>2, <2>3, FromIs
    <2>5. Len(t) > 0 /\ 1 \in 1..(Len(text) + 1 - k) /\ k + 1 - 1 = k
      BY <1>1, <2>2, <2>4
    <2>6. t[1] = text[k]
      BY <2>4, <2>5
    <2>7. From(t, 2) = From(text, k + 1)
      BY <2>2, <2>3, FromFrom
    <2>8. NoMark(t, inside, 1)
      <3>1. ASSUME NEW m \in MarksIn(inside), NEW i \in 1..1 PROVE ~Occurs(t, m, i)
        <4>1. i = 1 /\ m \in Markers
          BY MarkFacts DEF MarksIn
        <4>2. m \in Seq(Symbols) /\ Len(m) > 0 /\ 1 \in Nat \ {0}
          BY <4>1, MarkIs
        <4>3. Occurs(t, m, 1) <=> Occurs(text, m, k + 1 - 1)
          BY <2>2, <2>3, <4>2, OccursFrom
        <4>4. ~Occurs(text, m, k)
          BY <3>1 DEF NoMark
        <4>5. QED
          BY <2>5, <4>1, <4>3, <4>4
      <3>2. QED
        BY <3>1 DEF NoMark
    <2>9. Read(t, inside) = (IF inside THEN Read(From(t, 2), TRUE) ELSE <<t[1]>> \o Read(From(t, 2), FALSE))
      BY <2>4, <2>5, <2>8, ReadSkip
    <2>10. Read(text, inside) = Kept(inside, Upto(text, h)) \o Read(t, inside)
      BY <1>3, <2>1, <2>3 DEF Says
    <2>11. PICK v : v = Read(From(text, k + 1), inside)
      OBVIOUS
    <2>12. v \in Writings
      BY <2>2, <2>11, FromIs, ReadType
    <2>13. CASE inside
      <3>1. inside = TRUE
        BY <2>13
      <3>2. Read(t, inside) = v
        BY <2>7, <2>9, <2>11, <3>1
      <3>3. Kept(inside, Upto(text, h)) = Kept(inside, Upto(text, k))
        BY <2>13 DEF Kept
      <3>4. QED
        BY <2>10, <2>11, <3>2, <3>3 DEF Says
    <2>14. CASE ~inside
      <3>1. inside = FALSE
        BY <2>14
      <3>2. Read(t, inside) = <<text[k]>> \o v
        BY <2>6, <2>7, <2>9, <2>11, <3>1
      <3>3. Kept(inside, Upto(text, h)) = Upto(text, h) /\ Kept(inside, Upto(text, k)) = Upto(text, k)
        BY <2>14 DEF Kept
      <3>4. Upto(text, h) \in Writings /\ Upto(text, k) = Upto(text, h) \o <<text[k]>>
        BY <2>1, <2>2, UptoIs, UptoNext
      <3>5. <<text[k]>> \in Writings
        BY <2>2 DEF Writings
      <3>6. (Upto(text, h) \o <<text[k]>>) \o v = Upto(text, h) \o (<<text[k]>> \o v)
        BY <2>12, <3>4, <3>5, JoinJoin
      <3>7. QED
        BY <2>10, <2>11, <3>2, <3>3, <3>4, <3>6 DEF Says
    <2>15. QED
      BY <2>13, <2>14
  <1>4. W = {}
    <2> SUFFICES ASSUME W # {} PROVE FALSE
      OBVIOUS
    <2>1. W \subseteq Nat
      OBVIOUS
    <2>2. PICK k \in W : \A h \in W : k <= h
      BY <2>1, LeastNumber
    <2>3. k \in 0..n /\ ~Says(k) /\ k # 0
      BY <1>2, <2>2
    <2>4. k \in 1..n /\ k - 1 \in 0..n /\ ~(k <= k - 1)
      BY <1>1, <2>3
    <2>5. Says(k - 1)
      BY <2>2, <2>4
    <2>6. QED
      BY <1>3, <2>3, <2>4, <2>5
  <1>5. n \in 0..n
    BY <1>1
  <1>6. Says(n)
    BY <1>4, <1>5
  <1>7. QED
    BY <1>6 DEF Says

-----------------------------------------------------------------------------
\* A filter that has come so far: whatever follows, what is read of it all is
\* what was let through and what is read of the rest.
IsFilter(f) == f.pending \in Writings /\ f.inside \in BOOLEAN /\ f.clean \in Writings
LowerKeeps == \A t \in Writings : Lower(t) = t
SameReading(all, f) ==
  \A more \in Writings : Read(all.pending \o more, all.inside) = f.clean \o Read(f.pending \o more, f.inside)

\* The first marker of a text; no other one begins before it, even in a longer text.
LEMMA FirstIs ==
  ASSUME NEW text \in Writings, NEW inside \in BOOLEAN, NEW hit, hit = First(text, MarksIn(inside))
  PROVE  /\ hit.i = 0 => NoMark(text, inside, Len(text))
         /\ hit.i # 0 => /\ hit.i \in 1..Len(text) /\ hit.mark \in MarksIn(inside)
                         /\ Occurs(text, hit.mark, hit.i) /\ NoMark(text, inside, hit.i - 1)
  <1> DEFINE marks == MarksIn(inside)
             at == {[i |-> i, mark |-> m] : i \in DOMAIN text, m \in marks}
             found == {a \in at : Occurs(text, a.mark, a.i)}
             first == CHOOSE a \in found : \A b \in found : a.i <= b.i
  <1>1. hit = IF found = {} THEN [i |-> 0, mark |-> <<>>] ELSE first
    BY DEF First
  <1>2. DOMAIN text = 1..Len(text) /\ Len(text) \in Nat
    BY DEF Writings
  <1>3. ASSUME NEW m \in marks, NEW i \in 1..Len(text), Occurs(text, m, i)
        PROVE  \E a \in found : a.i = i
    <2>1. [i |-> i, mark |-> m] \in found
      BY <1>2, <1>3
    <2>2. QED
      BY <2>1
  <1>4. \A a \in found : a.i \in 1..Len(text) /\ a.mark \in marks /\ Occurs(text, a.mark, a.i)
    BY <1>2
  <1> HIDE DEF found, marks
  <1>5. CASE found = {}
    <2>1. hit.i = 0
      BY <1>1, <1>5
    <2>2. NoMark(text, inside, Len(text))
      BY <1>3, <1>5 DEF NoMark, marks
    <2>3. QED
      BY <2>1, <2>2
  <1>6. CASE found # {}
    <2> DEFINE places == {a.i : a \in found}
    <2>1. places \subseteq Nat /\ places # {}
      BY <1>2, <1>4, <1>6
    <2>2. PICK p \in places : \A q \in places : p <= q
      BY <2>1, LeastNumber
    <2>3. \E a \in found : \A b \in found : a.i <= b.i
      BY <2>2
    <2>4. first \in found /\ \A b \in found : first.i <= b.i
      BY <2>3
    <2>5. hit = first
      BY <1>1, <1>6
    <2> HIDE DEF first
    <2>6. hit.i \in 1..Len(text) /\ hit.mark \in marks /\ Occurs(text, hit.mark, hit.i)
      BY <1>4, <2>4, <2>5
    <2>7. NoMark(text, inside, hit.i - 1)
      <3>1. ASSUME NEW m \in marks, NEW i \in 1..(hit.i - 1), Occurs(text, m, i) PROVE FALSE
        <4>1. i \in 1..Len(text) /\ ~(hit.i <= i)
          BY <1>2, <2>6, <3>1
        <4>2. PICK a \in found : a.i = i
          BY <1>3, <3>1, <4>1
        <4>3. QED
          BY <2>4, <2>5, <4>1, <4>2
      <3>2. QED
        BY <3>1 DEF NoMark, marks
    <2>8. hit.i # 0
      BY <2>6
    <2>9. QED
      BY <2>6, <2>7, <2>8 DEF marks
  <1>7. QED
    BY <1>5, <1>6

\* A marker that would end in what follows is the only one that a text may hide.
LEMMA OccursJoin ==
  ASSUME NEW s \in Writings, NEW t \in Writings, NEW m \in Markers, NEW i \in Nat \ {0},
         i + Len(m) - 1 <= Len(s)
  PROVE  Occurs(s \o t, m, i) <=> Occurs(s, m, i)
  <1>1. m \in Seq(Symbols) /\ Len(m) > 0 /\ Len(m) \in Nat
    BY MarkIs
  <1>2. PICK j : j = s \o t
    OBVIOUS
  <1>3. /\ j \in Writings /\ Len(j) = Len(s) + Len(t) /\ Len(s) \in Nat /\ Len(t) \in Nat
        /\ \A k \in 1..Len(s) : j[k] = s[k]
    BY <1>2, JoinIs
  <1>4. Occurs(j, m, i) <=> i + Len(m) - 1 <= Len(j) /\ \A k \in 1..Len(m) : j[i + k - 1] = m[k]
    BY <1>1, <1>3, OccursIs
  <1>5. Occurs(s, m, i) <=> i + Len(m) - 1 <= Len(s) /\ \A k \in 1..Len(m) : s[i + k - 1] = m[k]
    BY <1>1, OccursIs
  <1>6. ASSUME NEW k \in 1..Len(m) PROVE j[i + k - 1] = s[i + k - 1]
    <2>1. i + k - 1 \in 1..Len(s)
      BY <1>1, <1>3
    <2>2. QED
      BY <1>3, <2>1
  <1>7. i + Len(m) - 1 <= Len(j)
    BY <1>1, <1>3
  <1>8. QED
    BY <1>2, <1>4, <1>5, <1>6, <1>7

\* One round: up to and with the first marker.
LEMMA CutReads ==
  ASSUME NEW f, IsFilter(f), NEW g, g = Cut(f), LowerKeeps
  PROVE  /\ IsFilter(g)
         /\ \A more \in Writings : f.clean \o Read(f.pending \o more, f.inside) = g.clean \o Read(g.pending \o more, g.inside)
         /\ (g = f /\ NoMark(f.pending, f.inside, Len(f.pending))) \/ Len(g.pending) < Len(f.pending)
  <1> DEFINE p == f.pending
             b == f.inside
             hit == First(Lower(p), IF b THEN {CloseMark} ELSE Markers)
  <1>1. p \in Writings /\ b \in BOOLEAN /\ f.clean \in Writings /\ Lower(p) = p /\ Len(p) \in Nat
    <2>1. p \in Writings /\ b \in BOOLEAN /\ f.clean \in Writings
      BY DEF IsFilter
    <2>2. Len(p) \in Nat
      BY <2>1 DEF Writings
    <2>3. QED
      BY <2>1, <2>2 DEF LowerKeeps
  <1>2. hit = First(p, MarksIn(b))
    BY <1>1 DEF MarksIn
  <1>3. g = IF hit.i = 0 THEN f
            ELSE [pending |-> From(p, hit.i + Len(hit.mark)), inside |-> ~b /\ hit.mark = OpenMark,
                  clean |-> IF b THEN f.clean ELSE f.clean \o Upto(p, hit.i - 1)]
    BY DEF Cut
  <1>4. PICK i, m : i = hit.i /\ m = hit.mark
    OBVIOUS
  <1>5. /\ i = 0 => NoMark(p, b, Len(p))
        /\ i # 0 => i \in 1..Len(p) /\ m \in MarksIn(b) /\ Occurs(p, m, i) /\ NoMark(p, b, i - 1)
    BY <1>1, <1>2, <1>4, FirstIs
  <1> HIDE DEF hit
  <1>6. CASE i = 0
    <2>1. g = f
      BY <1>3, <1>4, <1>6
    <2>2. QED
      BY <1>5, <1>6, <2>1
  <1>7. CASE i # 0
    <2>1. i \in 1..Len(p) /\ m \in MarksIn(b) /\ Occurs(p, m, i) /\ NoMark(p, b, i - 1)
      BY <1>5, <1>7
    <2>2. m \in Markers /\ m \in Seq(Symbols) /\ Len(m) \in Nat /\ 2 \in 1..Len(m) /\ Len(m) <= 3
      BY <2>1, MarkFacts, MarkIs DEF MarksIn
    <2>3. i + Len(m) - 1 <= Len(p)
      BY <2>1 DEF Occurs
    <2>4. PICK e \in 1..(Len(p) + 1) : e = i + Len(m)
      <3>1. i + Len(m) \in 1..(Len(p) + 1)
        BY <1>1, <2>1, <2>2, <2>3
      <3>2. QED
        BY <3>1
    <2>5. PICK n \in 0..Len(p) : n = i - 1 /\ n + 1 = i
      <3>1. i - 1 \in 0..Len(p) /\ (i - 1) + 1 = i
        BY <1>1, <2>1
      <3>2. QED
        BY <3>1
    <2>6. PICK o \in BOOLEAN : o = (~b /\ m = OpenMark)
      OBVIOUS
    <2>7. PICK c : c = IF b THEN f.clean ELSE f.clean \o Upto(p, n)
      OBVIOUS
    <2>8. g = [pending |-> From(p, e), inside |-> o, clean |-> c]
      BY <1>3, <1>4, <1>7, <2>4, <2>5, <2>6, <2>7
    <2>9. g.pending = From(p, e) /\ g.inside = o /\ g.clean = c
      BY <2>8
    <2>10. From(p, e) \in Writings /\ Len(From(p, e)) = Len(p) + 1 - e /\ Upto(p, n) \in Writings
      BY <1>1, FromIs, UptoIs
    <2>11. c \in Writings /\ c = f.clean \o Kept(b, Upto(p, n)) /\ Kept(b, Upto(p, n)) \in Writings
      <3>1. CASE b
        <4>1. c = f.clean /\ Kept(b, Upto(p, n)) = <<>>
          BY <2>7, <3>1 DEF Kept
        <4>2. QED
          BY <1>1, <4>1, JoinEmpty
      <3>2. CASE ~b
        <4>1. c = f.clean \o Upto(p, n) /\ Kept(b, Upto(p, n)) = Upto(p, n)
          BY <2>7, <3>2 DEF Kept
        <4>2. QED
          BY <1>1, <2>10, <4>1, JoinIs
      <3>3. QED
        BY <3>1, <3>2
    <2>12. IsFilter(g)
      BY <2>9, <2>10, <2>11 DEF IsFilter
    <2>13. Len(g.pending) < Len(p)
      BY <1>1, <2>1, <2>2, <2>4, <2>9, <2>10
    <2>14. ASSUME NEW more \in Writings
           PROVE  f.clean \o Read(p \o more, b) = c \o Read(g.pending \o more, o)
      <3>1. PICK x : x = p \o more
        OBVIOUS
      <3>2. x \in Writings /\ Len(x) = Len(p) + Len(more) /\ Len(more) \in Nat
        BY <1>1, <3>1, JoinIs
      <3>3. NoMark(x, b, n)
        <4>1. SUFFICES ASSUME NEW q \in MarksIn(b), NEW h \in 1..n PROVE ~Occurs(x, q, h)
          BY DEF NoMark
        <4>2. q \in Markers /\ Len(q) \in Nat /\ Len(q) <= 3
          BY MarkFacts, MarkIs DEF MarksIn
        <4>3. h + Len(q) - 1 <= Len(p)
          BY <1>1, <2>1, <2>2, <2>3, <2>5, <4>2
        <4>4. h \in Nat \ {0}
          BY <2>5
        <4>5. Occurs(x, q, h) <=> Occurs(p, q, h)
          BY <1>1, <3>1, <4>2, <4>3, <4>4, OccursJoin
        <4>6. ~Occurs(p, q, h)
          BY <2>1, <2>5 DEF NoMark
        <4>7. QED
          BY <4>5, <4>6
      <3>4. n \in 0..Len(x) /\ i \in 1..(Len(x) + 1) /\ i \in 1..(Len(p) + 1) /\ e \in 1..(Len(x) + 1)
        BY <1>1, <2>1, <2>4, <3>2
      <3>5. PICK y : y = From(x, i)
        OBVIOUS
      <3>6. Read(x, b) = Kept(b, Upto(x, n)) \o Read(y, b)
        BY SMTT(30), <1>1, <2>5, <3>2, <3>3, <3>4, <3>5, PassesOver
      <3>7. y \in Writings
        BY <3>2, <3>4, <3>5, FromIs
      <3>8. Occurs(y, m, 1)
        <4>1. i + 1 - 1 = i /\ 1 \in Nat \ {0} /\ Len(m) > 0 /\ i \in Nat \ {0}
          BY <2>1, <2>2
        <4>2. Occurs(y, m, 1) <=> Occurs(x, m, i + 1 - 1)
          BY <2>2, <3>2, <3>4, <3>5, <4>1, OccursFrom
        <4>3. Occurs(x, m, i) <=> Occurs(p, m, i)
          BY <1>1, <2>2, <2>3, <3>1, <4>1, OccursJoin
        <4>4. QED
          BY <2>1, <4>1, <4>2, <4>3
      <3>9. 1 + Len(m) \in 1..(Len(y) + 1) /\ Read(y, b) = Read(From(y, 1 + Len(m)), o)
        BY <1>1, <2>1, <2>6, <3>7, <3>8, ReadMark
      <3>10. From(y, 1 + Len(m)) = From(x, e)
        <4>1. 1 + Len(m) \in 1..(Len(x) + 2 - i) /\ i + (1 + Len(m)) - 1 = e
          BY SMTT(30), <1>1, <2>1, <2>2, <2>3, <2>4, <3>2
        <4>2. From(From(x, i), 1 + Len(m)) = From(x, i + (1 + Len(m)) - 1)
          BY <3>2, <3>4, <4>1, FromFrom
        <4>3. QED
          BY <3>5, <4>1, <4>2
      <3>11. From(x, e) = From(p, e) \o more
        BY <1>1, <3>1, FromJoin
      <3>12. Upto(x, n) = Upto(p, n)
        BY <1>1, <3>1, UptoJoin
      <3>13. PICK v : v = Read(g.pending \o more, o)
        OBVIOUS
      <3>14. v \in Writings
        BY <2>9, <2>10, <3>13, JoinIs, ReadType
      <3>15. Read(x, b) = Kept(b, Upto(p, n)) \o v
        BY <2>9, <3>6, <3>9, <3>10, <3>11, <3>12, <3>13
      <3>16. f.clean \o (Kept(b, Upto(p, n)) \o v) = (f.clean \o Kept(b, Upto(p, n))) \o v
        <4>1. PICK k \in Writings : k = Kept(b, Upto(p, n))
          BY <2>11
        <4>2. PICK u \in Writings : u = f.clean
          BY <1>1
        <4>3. PICK w \in Writings : w = v
          BY <3>14
        <4>4. u \o (k \o w) = (u \o k) \o w
          BY JoinJoin
        <4>5. QED
          BY <4>1, <4>2, <4>3, <4>4
      <3>17. QED
        BY <2>11, <3>1, <3>13, <3>15, <3>16
    <2>15. QED
      BY <2>9, <2>12, <2>13, <2>14
  <1>8. QED
    BY <1>6, <1>7

-----------------------------------------------------------------------------
\* The rounds of one piece: as many as it has symbols are enough.
Rounds(r, all) == r = [n \in 0 .. Len(all.pending) |-> IF n = 0 THEN all ELSE Cut(r[n - 1])]
AfterRounds(all) == (CHOOSE r : Rounds(r, all))[Len(all.pending)]

\* The recursion over a number has a value at each.
CutsTo(r, all, n) == r = [k \in 0..n |-> IF k = 0 THEN all ELSE Cut(r[k - 1])]

LEMMA CutsExist == ASSUME NEW all, NEW n \in Nat PROVE \E r : CutsTo(r, all, n)
  <1> DEFINE W == {k \in Nat : ~(\E r : CutsTo(r, all, k))}
  <1>1. SUFFICES ASSUME W # {} PROVE FALSE
    OBVIOUS
  <1>2. PICK k \in W : \A i \in W : k <= i
    BY <1>1, LeastNumber
  <1>3. CASE k = 0
    <2> DEFINE r == [i \in 0..0 |-> all]
    <2>1. \A i \in 0..0 : i = 0
      OBVIOUS
    <2>2. r = [i \in 0..0 |-> IF i = 0 THEN all ELSE Cut(r[i - 1])]
      BY <2>1
    <2> HIDE DEF r
    <2>3. CutsTo(r, all, 0)
      BY <2>2 DEF CutsTo
    <2>4. QED
      BY <1>2, <1>3, <2>3
  <1>4. CASE k # 0
    <2>1. k - 1 \in Nat /\ ~(k <= k - 1) /\ k \in Nat
      BY <1>4
    <2>2. k - 1 \notin W
      BY <1>2, <2>1
    <2>3. PICK q : CutsTo(q, all, k - 1)
      BY <2>1, <2>2
    <2>4. PICK g : g = [i \in 0..(k - 1) |-> IF i = 0 THEN all ELSE Cut(q[i - 1])]
      OBVIOUS
    <2>5. q = g
      BY <2>3, <2>4 DEF CutsTo
    <2>6. \A i \in 0..(k - 1) : q[i] = IF i = 0 THEN all ELSE Cut(q[i - 1])
      BY <2>4, <2>5
    <2> DEFINE r == [i \in 0..k |-> IF i = k THEN Cut(q[k - 1]) ELSE q[i]]
    <2>7. ASSUME NEW i \in 0..k PROVE r[i] = IF i = 0 THEN all ELSE Cut(r[i - 1])
      <3>1. CASE i = 0
        <4>1. i # k /\ i \in 0..(k - 1)
          BY <1>4, <2>1, <3>1
        <4>2. q[i] = all
          BY <2>6, <3>1, <4>1
        <4>3. QED
          BY <3>1, <4>1, <4>2
      <3>2. CASE i # 0 /\ i # k
        <4>1. i \in 0..(k - 1) /\ i - 1 \in 0..k /\ i - 1 # k
          BY <2>1, <3>2
        <4>2. q[i] = Cut(q[i - 1])
          BY <2>6, <3>2, <4>1
        <4>3. r[i] = q[i] /\ r[i - 1] = q[i - 1]
          BY <3>2, <4>1
        <4>4. QED
          BY <3>2, <4>2, <4>3
      <3>3. CASE i # 0 /\ i = k
        <4>1. i - 1 \in 0..k /\ i - 1 # k
          BY <2>1, <3>3
        <4>2. r[i] = Cut(q[k - 1]) /\ r[i - 1] = q[i - 1]
          BY <3>3, <4>1
        <4>3. QED
          BY <3>3, <4>2
      <3>4. QED
        BY <3>1, <3>2, <3>3
    <2>8. r = [i \in 0..k |-> r[i]]
      OBVIOUS
    <2> HIDE DEF r
    <2>9. r = [i \in 0..k |-> IF i = 0 THEN all ELSE Cut(r[i - 1])]
      BY <2>7, <2>8
    <2>10. CutsTo(r, all, k)
      BY <2>9 DEF CutsTo
    <2>11. QED
      BY <1>2, <2>10
  <1>5. QED
    BY <1>3, <1>4

LEMMA LastIs ==
  ASSUME NEW all, NEW n \in Nat, n = Len(all.pending)
  PROVE  \E r : /\ r[0] = all /\ r[n] = AfterRounds(all)
                /\ \A k \in 1..n : r[k] = Cut(r[k - 1])
  <1>1. \E r : Rounds(r, all)
    <2>1. PICK r : CutsTo(r, all, n)
      BY CutsExist
    <2>2. CutsTo(r, all, n) <=> CutsTo(r, all, Len(all.pending))
      OBVIOUS
    <2>3. Rounds(r, all)
      BY <2>1, <2>2 DEF CutsTo, Rounds
    <2>4. QED
      BY <2>3
  <1>2. PICK r : r = CHOOSE q : Rounds(q, all)
    OBVIOUS
  <1>3. Rounds(r, all)
    BY <1>1, <1>2
  <1>4. PICK g : g = [k \in 0..n |-> IF k = 0 THEN all ELSE Cut(r[k - 1])]
    OBVIOUS
  <1>5. r = g
    BY <1>3, <1>4 DEF Rounds
  <1>6. \A k \in 0..n : r[k] = IF k = 0 THEN all ELSE Cut(r[k - 1])
    BY <1>4, <1>5
  <1>7. r[0] = all
    BY <1>6
  <1>8. \A k \in 1..n : r[k] = Cut(r[k - 1])
    <2> TAKE k \in 1..n
    <2>1. k \in 0..n /\ k # 0
      OBVIOUS
    <2>2. QED
      BY <1>6, <2>1
  <1>9. r[n] = AfterRounds(all)
    BY <1>2 DEF AfterRounds
  <1>10. QED
    BY <1>7, <1>8, <1>9

\* After the rounds there is no marker left, and nothing else has changed.
LEMMA LastReads ==
  ASSUME NEW all, IsFilter(all), all.clean = <<>>, NEW f, f = AfterRounds(all), LowerKeeps
  PROVE  IsFilter(f) /\ SameReading(all, f) /\ NoMark(f.pending, f.inside, Len(f.pending))
  <1>1. PICK n \in Nat : n = Len(all.pending)
    BY DEF IsFilter, Writings
  <1>2. PICK r : r[0] = all /\ r[n] = AfterRounds(all) /\ \A k \in 1..n : r[k] = Cut(r[k - 1])
    BY <1>1, LastIs
  <1> DEFINE Good(g, k) ==
               /\ IsFilter(g) /\ SameReading(all, g)
               /\ (NoMark(g.pending, g.inside, Len(g.pending)) /\ Cut(g) = g) \/ Len(g.pending) + k <= n
             W == {k \in 0..n : ~Good(r[k], k)}
  <1> HIDE DEF Good
  <1>3. Good(r[0], 0)
    <2>1. SameReading(all, all)
      <3>1. ASSUME NEW more \in Writings
            PROVE  Read(all.pending \o more, all.inside) = all.clean \o Read(all.pending \o more, all.inside)
        <4>1. Read(all.pending \o more, all.inside) \in Writings
          BY JoinIs, ReadType DEF IsFilter
        <4>2. QED
          BY <4>1, JoinEmpty
      <3>2. QED
        BY <3>1 DEF SameReading
    <2>2. Len(all.pending) + 0 <= n
      BY <1>1
    <2>3. QED
      BY <1>2, <2>1, <2>2 DEF Good
  <1>4. ASSUME NEW k \in 1..n, Good(r[k - 1], k - 1) PROVE Good(r[k], k)
    <2>1. PICK g : g = r[k - 1]
      OBVIOUS
    <2>2. PICK h : h = r[k]
      OBVIOUS
    <2>3. h = Cut(g) /\ IsFilter(g) /\ SameReading(all, g)
      BY <1>2, <1>4, <2>1, <2>2 DEF Good
    <2>4. /\ IsFilter(h)
          /\ \A more \in Writings : g.clean \o Read(g.pending \o more, g.inside) = h.clean \o Read(h.pending \o more, h.inside)
          /\ (h = g /\ NoMark(g.pending, g.inside, Len(g.pending))) \/ Len(h.pending) < Len(g.pending)
      BY <2>3, CutReads
    <2>5. SameReading(all, h)
      BY <2>3, <2>4 DEF SameReading
    <2>6. Len(g.pending) \in Nat /\ Len(h.pending) \in Nat
      BY <2>3, <2>4 DEF IsFilter, Writings
    <2>7. CASE h = g /\ NoMark(g.pending, g.inside, Len(g.pending))
      BY <2>2, <2>3, <2>4, <2>5, <2>7 DEF Good
    <2>8. CASE ~(h = g /\ NoMark(g.pending, g.inside, Len(g.pending)))
      <3>1. Len(h.pending) < Len(g.pending)
        BY <2>4, <2>8
      <3>2. Len(g.pending) + (k - 1) <= n
        BY <1>4, <2>1, <2>3, <2>8 DEF Good
      <3>3. Len(h.pending) + k <= n
        BY <2>6, <3>1, <3>2
      <3>4. QED
        BY <2>2, <2>4, <2>5, <3>3 DEF Good
    <2>9. QED
      BY <2>7, <2>8
  <1>5. W = {}
    <2> SUFFICES ASSUME W # {} PROVE FALSE
      OBVIOUS
    <2>1. W \subseteq Nat
      OBVIOUS
    <2>2. PICK k \in W : \A h \in W : k <= h
      BY <2>1, LeastNumber
    <2>3. k \in 0..n /\ ~Good(r[k], k) /\ k # 0
      BY <1>3, <2>2
    <2>4. k \in 1..n /\ k - 1 \in 0..n /\ ~(k <= k - 1)
      BY <2>3
    <2>5. Good(r[k - 1], k - 1)
      BY <2>2, <2>4
    <2>6. QED
      BY <1>4, <2>3, <2>4, <2>5
  <1>6. Good(f, n)
    <2>1. n \in 0..n
      OBVIOUS
    <2>2. QED
      BY <1>2, <1>5, <2>1
  <1>7. IsFilter(f) /\ SameReading(all, f)
    BY <1>6 DEF Good
  <1>8. NoMark(f.pending, f.inside, Len(f.pending))
    <2>1. CASE Len(f.pending) + n <= n
      <3>1. Len(f.pending) = 0
        <4>1. Len(f.pending) \in Nat
          BY <1>7 DEF IsFilter, Writings
        <4>2. QED
          BY <2>1, <4>1
      <3>2. QED
        BY <3>1 DEF NoMark
    <2>2. QED
      BY <1>6, <2>1 DEF Good
  <1>9. QED
    BY <1>7, <1>8

\* What is held back is the longest end that may begin a marker, so that none
\* begins before it.
LEMMA HeldBack ==
  ASSUME NEW text \in Writings, NEW inside \in BOOLEAN, NoMark(text, inside, Len(text)),
         NEW keep, keep = PartialSuffix(text, MarksIn(inside)), LowerKeeps
  PROVE  /\ keep \in 0..Len(text)
         /\ \A more \in Writings : NoMark(text \o more, inside, Len(text) - keep)
  <1> DEFINE marks == MarksIn(inside)
             fits == {k \in 1 .. Len(text) : \E m \in marks :
                        k < Len(m) /\ SubSeq(text, Len(text) - k + 1, Len(text)) = SubSeq(m, 1, k)}
  <1>1. Len(text) \in Nat /\ Lower(text) = text
    BY DEF Writings, LowerKeeps
  <1>2. keep = IF fits = {} THEN 0 ELSE CHOOSE k \in fits : \A j \in fits : j <= k
    BY <1>1 DEF PartialSuffix
  <1>3. keep \in 0..Len(text) /\ \A k \in fits : k <= keep
    <2>1. CASE fits = {}
      <3>1. keep = 0
        BY <1>2, <2>1
      <3> HIDE DEF fits
      <3>2. QED
        BY <1>1, <2>1, <3>1
    <2>2. CASE fits # {}
      <3> HIDE DEF marks
      <3> DEFINE gaps == {Len(text) - k : k \in fits}
      <3>0. fits \subseteq 1..Len(text)
        OBVIOUS
      <3>1. gaps \subseteq Nat /\ gaps # {}
        <4> HIDE DEF fits
        <4>1. ASSUME NEW k \in fits PROVE Len(text) - k \in Nat
          BY <1>1, <3>0
        <4>2. QED
          BY <2>2, <4>1
      <3>2. PICK p \in gaps : \A q \in gaps : p <= q
        BY <3>1, LeastNumber
      <3>3. PICK k \in fits : p = Len(text) - k
        BY <3>2
      <3> HIDE DEF fits
      <3>4. \A j \in fits : j <= k
        <4> TAKE j \in fits
        <4>1. Len(text) - j \in gaps
          OBVIOUS
        <4>2. p <= Len(text) - j
          BY <3>2, <4>1
        <4>3. QED
          <5>1. k \in 1..Len(text) /\ j \in 1..Len(text)
            BY <3>0
          <5>2. QED
            BY <1>1, <3>3, <4>2, <5>1
      <3>5. keep \in fits /\ \A j \in fits : j <= keep
        BY <1>2, <2>2, <3>4
      <3>6. keep \in 1..Len(text)
        BY <3>0, <3>5
      <3>7. QED
        BY <1>1, <3>5, <3>6
    <2>3. QED
      BY <2>1, <2>2
  <1>4. ASSUME NEW more \in Writings, NEW m \in marks, NEW i \in 1..(Len(text) - keep), Occurs(text \o more, m, i)
        PROVE  FALSE
    <2>1. m \in Markers /\ m \in Seq(Symbols) /\ Len(m) \in Nat /\ Len(m) > 0
      BY MarkFacts, MarkIs DEF MarksIn
    <2>2. i \in Nat \ {0} /\ i \in 1..Len(text) /\ keep \in Nat
      BY <1>1, <1>3
    <2>3. PICK j : j = text \o more
      OBVIOUS
    <2>4. /\ j \in Writings /\ Len(j) = Len(text) + Len(more) /\ Len(more) \in Nat
          /\ \A k \in 1..Len(text) : j[k] = text[k]
      BY <2>3, JoinIs
    <2>5. i + Len(m) - 1 > Len(text)
      <3>1. SUFFICES ASSUME i + Len(m) - 1 <= Len(text) PROVE FALSE
        BY <1>1, <2>1, <2>2
      <3>2. Occurs(text, m, i)
        BY <1>4, <2>1, <2>2, <3>1, OccursJoin
      <3>3. QED
        BY <2>2, <3>2 DEF NoMark
    <2>6. PICK k \in 1..Len(text) : k = Len(text) + 1 - i /\ Len(text) - k + 1 = i /\ k > keep /\ k < Len(m)
      <3>1. Len(text) + 1 - i \in 1..Len(text)
        BY <1>1, <2>2
      <3>2. Len(text) - (Len(text) + 1 - i) + 1 = i /\ Len(text) + 1 - i > keep /\ Len(text) + 1 - i < Len(m)
        BY <1>1, <2>1, <2>2, <2>5
      <3>3. QED
        BY <3>1, <3>2
    <2>7. \A h \in 1..Len(m) : j[i + h - 1] = m[h]
      BY <1>4, <2>1, <2>2, <2>3, <2>4, OccursIs
    <2>8. PICK a : a = SubSeq(text, i, Len(text))
      OBVIOUS
    <2>9. PICK b : b = SubSeq(m, 1, k)
      OBVIOUS
    <2>10. DOMAIN a = 1..k /\ a = [h \in 1..k |-> a[h]] /\ \A h \in 1..k : a[h] = text[i + h - 1]
      <3>1. a \in Seq(Letters) /\ Len(a) = k /\ \A h \in 1..k : a[h] = text[i + h - 1]
        BY <1>1, <2>2, <2>6, <2>8 DEF Writings
      <3>2. QED
        BY <3>1
    <2>11. DOMAIN b = 1..k /\ b = [h \in 1..k |-> b[h]] /\ \A h \in 1..k : b[h] = m[h]
      <3>1. k \in Nat /\ k <= Len(m)
        BY <2>1, <2>6
      <3>2. b \in Seq(Symbols) /\ Len(b) = k /\ \A h \in 1..k : b[h] = m[h]
        BY <2>1, <2>9, <3>1
      <3>3. QED
        BY <3>2
    <2>12. \A h \in 1..k : a[h] = b[h]
      <3> TAKE h \in 1..k
      <3>1. h \in 1..Len(m) /\ i + h - 1 \in 1..Len(text)
        BY <1>1, <2>1, <2>2, <2>6
      <3>2. QED
        BY <2>4, <2>7, <2>10, <2>11, <3>1
    <2>13. a = b
      BY <2>10, <2>11, <2>12
    <2>14. k \in fits
      BY <2>6, <2>8, <2>9, <2>13
    <2>15. k <= keep
      BY <1>3, <2>14
    <2>16. QED
      BY <2>2, <2>6, <2>15
  <1>5. QED
    BY <1>3, <1>4 DEF NoMark
\* What a piece lets through, and what it leaves to be read.
LEMMA FedIs ==
  ASSUME NEW f, NEW piece
  PROVE  Fed(f, piece) =
           LET all == [pending |-> f.pending \o piece, inside |-> f.inside, clean |-> <<>>]
               rest == AfterRounds(all)
               keep == PartialSuffix(rest.pending, MarksIn(rest.inside))
               emit == Len(rest.pending) - keep
           IN [pending |-> From(rest.pending, emit + 1), inside |-> rest.inside,
               clean |-> IF rest.inside THEN rest.clean ELSE rest.clean \o Upto(rest.pending, emit)]
  BY DEF Fed, AfterRounds, Rounds, MarksIn

FedRight(f, piece, g) ==
  /\ IsFilter(g)
  /\ \A more \in Writings : Read(f.pending \o (piece \o more), f.inside) = g.clean \o Read(g.pending \o more, g.inside)
  /\ NoMark(g.pending, g.inside, Len(g.pending))

LEMMA FedReads ==
  ASSUME NEW f, f.pending \in Writings, f.inside \in BOOLEAN, NEW piece \in Writings,
         NEW g, g = Fed(f, piece), LowerKeeps
  PROVE  FedRight(f, piece, g)
  <1>1. PICK all : all = [pending |-> f.pending \o piece, inside |-> f.inside, clean |-> <<>>]
    OBVIOUS
  <1>2. all.pending = f.pending \o piece /\ all.inside = f.inside /\ all.clean = <<>>
    BY <1>1
  <1>3. PICK rest : rest = AfterRounds(all)
    OBVIOUS
  <1>4. IsFilter(all)
    <2>1. f.pending \o piece \in Writings
      BY JoinIs
    <2>2. <<>> \in Writings
      BY JoinEmpty
    <2>3. QED
      BY <1>2, <2>1, <2>2 DEF IsFilter
  <1>5. IsFilter(rest) /\ SameReading(all, rest) /\ NoMark(rest.pending, rest.inside, Len(rest.pending))
    BY <1>2, <1>3, <1>4, LastReads
  <1>6. PICK p \in Writings : p = rest.pending
    BY <1>5 DEF IsFilter
  <1>7. PICK b \in BOOLEAN : b = rest.inside
    BY <1>5 DEF IsFilter
  <1>8. PICK c \in Writings : c = rest.clean
    BY <1>5 DEF IsFilter
  <1>9. PICK keep : keep = PartialSuffix(p, MarksIn(b))
    OBVIOUS
  <1>10. NoMark(p, b, Len(p))
    BY <1>5, <1>6, <1>7
  <1>11. keep \in 0..Len(p) /\ \A more \in Writings : NoMark(p \o more, b, Len(p) - keep)
    BY <1>9, <1>10, HeldBack
  <1>12. PICK e \in 0..Len(p) : e = Len(p) - keep
    <2>1. Len(p) \in Nat
      BY DEF Writings
    <2>2. QED
      BY <1>11, <2>1
  <1>13. g = [pending |-> From(p, e + 1), inside |-> b, clean |-> IF b THEN c ELSE c \o Upto(p, e)]
    <2>1. g = [pending |-> From(rest.pending, Len(rest.pending) - PartialSuffix(rest.pending, MarksIn(rest.inside)) + 1),
               inside |-> rest.inside,
               clean |-> IF rest.inside THEN rest.clean
                         ELSE rest.clean \o Upto(rest.pending,
                                                 Len(rest.pending) - PartialSuffix(rest.pending, MarksIn(rest.inside)))]
      BY <1>1, <1>3, FedIs
    <2>2. QED
      BY <1>6, <1>7, <1>8, <1>9, <1>12, <2>1
  <1>14. PICK k \in Writings : k = Kept(b, Upto(p, e))
    <2>1. Upto(p, e) \in Writings
      BY UptoIs
    <2>2. <<>> \in Writings
      BY JoinEmpty
    <2>3. QED
      BY <2>1, <2>2 DEF Kept
  <1>15. g.pending = From(p, e + 1) /\ g.inside = b /\ g.clean = c \o k
    <2>1. c \o <<>> = c
      BY JoinEmpty
    <2>2. (IF b THEN c ELSE c \o Upto(p, e)) = c \o k
      BY <1>14, <2>1 DEF Kept
    <2>3. QED
      BY <1>13, <2>2
  <1>16. PICK d \in 1..(Len(p) + 1) : d = e + 1
    <2>1. Len(p) \in Nat
      BY DEF Writings
    <2>2. QED
      BY <2>1
  <1>17. PICK q \in Writings : q = From(p, d)
    BY FromIs
  <1>18. g.pending = q /\ IsFilter(g)
    <2>1. c \o k \in Writings
      BY JoinIs
    <2>2. QED
      BY <1>15, <1>16, <1>17, <2>1 DEF IsFilter
  <1>19. \A u \in Writings : (c \o k) \o u = c \o (k \o u)
    BY JoinJoin
  <1>20. ASSUME NEW more \in Writings
         PROVE  Read(f.pending \o (piece \o more), f.inside) = g.clean \o Read(g.pending \o more, g.inside)
    <2>1. PICK x \in Writings : x = p \o more
      BY JoinIs
    <2>2. e \in 0..Len(x)
      <3>1. Len(x) = Len(p) + Len(more) /\ Len(p) \in Nat /\ Len(more) \in Nat
        BY <2>1, JoinIs
      <3>2. QED
        BY <3>1
    <2>3. NoMark(x, b, e)
      BY <1>11, <1>12, <2>1
    <2>4. Read(x, b) = Kept(b, Upto(x, e)) \o Read(From(x, e + 1), b)
      BY <2>2, <2>3, PassesOver
    <2>5. Upto(x, e) = Upto(p, e)
      BY <2>1, UptoJoin
    <2>6. From(x, d) = q \o more
      BY <1>17, <2>1, FromJoin
    <2>7. PICK v \in Writings : v = Read(q \o more, b)
      <3>1. q \o more \in Writings
        BY JoinIs
      <3>2. QED
        BY <3>1, ReadType
    <2>8. Read(p \o more, b) = k \o v
      BY <1>14, <1>16, <2>1, <2>4, <2>5, <2>6, <2>7
    <2>9. Read(all.pending \o more, all.inside) = c \o (k \o v)
      BY <1>5, <1>6, <1>7, <1>8, <2>8 DEF SameReading
    <2>10. (c \o k) \o v = c \o (k \o v)
      BY <1>19
    <2>11. (f.pending \o piece) \o more = f.pending \o (piece \o more)
      <3>1. PICK a \in Writings : a = f.pending
        OBVIOUS
      <3>2. \A u \in Writings : (a \o piece) \o u = a \o (piece \o u)
        BY JoinJoin
      <3>3. (a \o piece) \o more = a \o (piece \o more)
        BY <3>2
      <3>4. QED
        BY <3>1, <3>3
    <2>12. QED
      BY <1>2, <1>15, <1>18, <2>7, <2>9, <2>10, <2>11
  <1>21. NoMark(q, b, Len(q))
    <2>1. SUFFICES ASSUME NEW m \in MarksIn(b), NEW i \in 1..Len(q), Occurs(q, m, i) PROVE FALSE
      BY DEF NoMark
    <2>2. m \in Markers /\ m \in Seq(Symbols) /\ Len(m) > 0
      BY MarkFacts, MarkIs DEF MarksIn
    <2>3. Len(q) = Len(p) + 1 - d /\ Len(p) \in Nat /\ Len(q) \in Nat
      <3>1. Len(From(p, d)) = Len(p) + 1 - d
        BY FromIs
      <3>2. Len(p) \in Nat /\ Len(q) \in Nat
        BY DEF Writings
      <3>3. QED
        BY <1>17, <3>1, <3>2
    <2>4. i \in Nat \ {0} /\ d + i - 1 \in 1..Len(p)
      BY <2>3
    <2>5. Occurs(p, m, d + i - 1)
      BY <1>17, <2>1, <2>2, <2>4, OccursFrom
    <2>6. QED
      BY <1>10, <2>4, <2>5 DEF NoMark
  <1>22. QED
    BY <1>15, <1>18, <1>20, <1>21 DEF FedRight

\* What waits for the rest of a marker that never came is text.
LEMMA TailReads ==
  ASSUME NEW p \in Writings, NEW b \in BOOLEAN, NoMark(p, b, Len(p))
  PROVE  Read(p, b) = Kept(b, p)
  <1>1. Len(p) \in Nat /\ Len(p) \in 0..Len(p)
    BY DEF Writings
  <1>2. PICK n \in 0..Len(p) : n = Len(p)
    BY <1>1
  <1>3. PICK d \in 1..(Len(p) + 1) : d = n + 1
    BY <1>1
  <1>4. From(p, d) \in Writings /\ Len(From(p, d)) = 0
    <2>1. From(p, d) \in Writings /\ Len(From(p, d)) = Len(p) + 1 - d
      BY FromIs
    <2>2. QED
      BY <1>1, <1>2, <1>3, <2>1
  <1>5. Read(From(p, d), b) = <<>>
    BY <1>4, ReadEmpty
  <1>6. From(p, d) = <<>>
    BY <1>4 DEF Writings
  <1>7. PICK u \in Writings : u = Upto(p, n)
    BY UptoIs
  <1>8. u \o <<>> = u
    BY JoinEmpty
  <1>9. p = u
    <2>1. p = Upto(p, n) \o From(p, n + 1)
      BY UptoFrom
    <2>2. QED
      BY <1>3, <1>6, <1>7, <1>8, <2>1
  <1>10. Read(p, b) = Kept(b, Upto(p, n)) \o Read(From(p, n + 1), b)
    BY <1>2, PassesOver
  <1>11. Read(p, b) = Kept(b, u) \o <<>>
    BY <1>3, <1>5, <1>7, <1>10
  <1>12. Kept(b, u) \in Writings
    BY JoinEmpty DEF Kept
  <1>13. Kept(b, u) \o <<>> = Kept(b, u)
    BY <1>12, JoinEmpty
  <1>14. QED
    BY <1>9, <1>11, <1>13

\* lower() keeps a text of letters that it keeps one for one.
LEMMA LowerIs ==
  ASSUME "I" \notin Letters, NEW t \in Writings
  PROVE  Lower(t) = t
  <1>1. Len(t) \in Nat /\ DOMAIN t = 1..Len(t) /\ \A i \in 1..Len(t) : t[i] \in Letters
    BY DEF Writings
  <1>2. PICK s : s = [i \in 1..Len(t) |-> <<t[i]>>]
    OBVIOUS
  <1>3. Lower(t) = FlattenSeq(s)
    <2>1. \A i \in 1..Len(t) : t[i] # "I"
      BY <1>1
    <2>2. [i \in DOMAIN t |-> IF t[i] = "I" THEN <<"i", "dot">> ELSE <<t[i]>>] = s
      BY <1>1, <1>2, <2>1
    <2>3. QED
      BY <2>2 DEF Lower
  <1>4. Len(s) = Len(t)
    BY <1>1, <1>2
  <1> DEFINE Flat(f) == f = [i \in 1..Len(s) |-> IF i = 1 THEN s[i] ELSE f[i - 1] \o s[i]]
  <1>5. FlattenSeq(s) = IF Len(s) = 0 THEN s ELSE (CHOOSE f : Flat(f))[Len(s)]
    BY DEF FlattenSeq
  <1> HIDE DEF Flat
  <1>6. \A i \in 1..Len(t) : s[i] = <<t[i]>>
    BY <1>2
  <1>7. ASSUME NEW i \in 1..Len(t) PROVE Upto(t, i) = IF i = 1 THEN s[i] ELSE Upto(t, i - 1) \o s[i]
    <2>1. Upto(t, i) = Upto(t, i - 1) \o <<t[i]>>
      BY UptoNext
    <2>2. CASE i = 1
      <3>1. 0 \in 0..Len(t) /\ i - 1 = 0
        BY <1>1, <2>2
      <3>2. Upto(t, 0) \in Writings /\ Len(Upto(t, 0)) = 0
        BY <3>1, UptoIs
      <3>3. Upto(t, 0) = <<>>
        BY <3>2 DEF Writings
      <3>4. <<t[i]>> \in Writings
        BY <1>1 DEF Writings
      <3>5. <<>> \o <<t[i]>> = <<t[i]>>
        BY <3>4, JoinEmpty
      <3>6. QED
        BY <1>6, <2>1, <2>2, <3>1, <3>3, <3>5
    <2>3. QED
      BY <1>6, <2>1, <2>2
  <1>8. \E f : Flat(f)
    <2>1. PICK f : f = [i \in 1..Len(t) |-> Upto(t, i)]
      OBVIOUS
    <2>2. ASSUME NEW i \in 1..Len(t) PROVE f[i] = IF i = 1 THEN s[i] ELSE f[i - 1] \o s[i]
      <3>1. CASE i = 1
        BY <1>7, <2>1, <3>1
      <3>2. CASE i # 1
        <4>1. i - 1 \in 1..Len(t)
          BY <1>1, <3>2
        <4>2. f[i] = Upto(t, i) /\ f[i - 1] = Upto(t, i - 1)
          BY <2>1, <4>1
        <4>3. QED
          BY <1>7, <3>2, <4>2
      <3>3. QED
        BY <3>1, <3>2
    <2>3. PICK g : g = [i \in 1..Len(t) |-> IF i = 1 THEN s[i] ELSE f[i - 1] \o s[i]]
      OBVIOUS
    <2>4. f = g
      BY <2>1, <2>2, <2>3
    <2>5. Flat(f)
      BY <1>4, <2>3, <2>4 DEF Flat
    <2>6. QED
      BY <2>5
  <1>9. PICK f : f = CHOOSE h : Flat(h)
    OBVIOUS
  <1>10. Flat(f)
    BY <1>8, <1>9
  <1>11. \A i \in 1..Len(t) : f[i] = IF i = 1 THEN s[i] ELSE f[i - 1] \o s[i]
    <2>1. PICK g : g = [i \in 1..Len(t) |-> IF i = 1 THEN s[i] ELSE f[i - 1] \o s[i]]
      OBVIOUS
    <2>2. f = g
      BY <1>4, <1>10, <2>1 DEF Flat
    <2>3. QED
      BY <2>1, <2>2
  <1> DEFINE W == {i \in 1..Len(t) : f[i] # Upto(t, i)}
  <1>12. W = {}
    <2>1. SUFFICES ASSUME W # {} PROVE FALSE
      OBVIOUS
    <2>2. W \subseteq Nat
      BY <1>1
    <2>3. PICK i \in W : \A j \in W : i <= j
      BY <2>1, <2>2, LeastNumber
    <2>4. i \in 1..Len(t) /\ f[i] # Upto(t, i)
      OBVIOUS
    <2>5. CASE i = 1
      BY <1>7, <1>11, <2>4, <2>5
    <2>6. CASE i # 1
      <3>1. i - 1 \in 1..Len(t) /\ ~(i <= i - 1)
        BY <1>1, <2>4, <2>6
      <3>2. f[i - 1] = Upto(t, i - 1)
        BY <2>3, <3>1
      <3>3. QED
        BY <1>7, <1>11, <2>4, <2>6, <3>2
    <2>7. QED
      BY <2>5, <2>6
  <1>13. CASE Len(t) = 0
    <2>1. FlattenSeq(s) = s
      BY <1>4, <1>5, <1>13
    <2>2. s = t
      BY <1>1, <1>2, <1>13
    <2>3. QED
      BY <1>3, <2>1, <2>2
  <1>14. CASE Len(t) # 0
    <2>1. Len(t) \in 1..Len(t) /\ Len(t) \in 0..Len(t)
      BY <1>1, <1>14
    <2>2. FlattenSeq(s) = f[Len(t)]
      BY <1>4, <1>5, <1>9, <1>14
    <2>3. f[Len(t)] = Upto(t, Len(t))
      BY <1>12, <2>1
    <2>4. Upto(t, Len(t)) = t
      BY <1>1 DEF Upto, Writings
    <2>5. QED
      BY <1>3, <2>2, <2>3, <2>4
  <1>15. QED
    BY <1>13, <1>14
LEMMA PrefixJoin == ASSUME NEW s \in Writings, NEW v \in Writings PROVE IsPrefix(s, s \o v)
  <1>1. PICK j : j = s \o v
    OBVIOUS
  <1>2. /\ j \in Writings /\ Len(j) = Len(s) + Len(v) /\ Len(s) \in Nat /\ Len(v) \in Nat
        /\ \A k \in 1..Len(s) : j[k] = s[k]
    BY <1>1, JoinIs
  <1>3. PICK a : a = SubSeq(s, 1, Len(s))
    OBVIOUS
  <1>4. PICK b : b = SubSeq(j, 1, Len(s))
    OBVIOUS
  <1>5. a \in Writings /\ Len(a) = Len(s) /\ \A k \in 1..Len(s) : a[k] = s[k]
    BY <1>2, <1>3 DEF Writings
  <1>6. b \in Writings /\ Len(b) = Len(s) /\ \A k \in 1..Len(s) : b[k] = j[k]
    BY <1>2, <1>4 DEF Writings
  <1>7. a = b
    BY <1>2, <1>5, <1>6, SameText
  <1>8. Len(s) <= Len(j)
    BY <1>2
  <1>9. QED
    BY <1>1, <1>3, <1>4, <1>7, <1>8 DEF IsPrefix

-----------------------------------------------------------------------------
\* While a reply streams: whatever follows, a reading of all the server sent is
\* what was let through and a reading of what waits.
HeardRight == \A more \in Writings : Read(server.text \o more, FALSE) = content \o Read(filter.pending \o more, filter.inside)
Fragments == /\ server = [text |-> server.text, calls |-> server.calls, sent |-> server.sent]
             /\ DOMAIN parts = ToolCalls /\ DOMAIN server.calls = ToolCalls
             /\ \A c \in ToolCalls : parts[c] = server.calls[c]
Streaming == kind # "structured" /\ trace.end = "streaming"
ReplyInv ==
  /\ filter.pending \in Writings /\ filter.inside \in BOOLEAN /\ content \in Writings /\ server.text \in Writings
  /\ Fragments
  /\ Streaming => HeardRight /\ NoMark(filter.pending, filter.inside, Len(filter.pending))
  /\ kind # "structured" => IsPrefix(content, Cleaned(server.text))
  /\ kind # "structured" /\ trace.end = "done" => trace.said = Cleaned(server.text)

LEMMA HeardPrefix ==
  ASSUME filter.pending \in Writings, filter.inside \in BOOLEAN, content \in Writings, server.text \in Writings, HeardRight
  PROVE  /\ IsPrefix(content, Cleaned(server.text))
         /\ Cleaned(server.text) = content \o Read(filter.pending, filter.inside)
  <1>1. PICK v \in Writings : v = Read(filter.pending, filter.inside)
    BY ReadType
  <1>2. <<>> \in Writings /\ server.text \o <<>> = server.text /\ filter.pending \o <<>> = filter.pending
    BY JoinEmpty
  <1>3. Cleaned(server.text) = content \o v
    BY <1>1, <1>2, CleanedIs DEF HeardRight
  <1>4. IsPrefix(content, content \o v)
    BY PrefixJoin
  <1>5. QED
    BY <1>1, <1>3, <1>4

LEMMA ReplyStarts == ReplyInit => ReplyInv
  <1> SUFFICES ASSUME ReplyInit PROVE ReplyInv
    OBVIOUS
  <1>1. <<>> \in Writings
    BY DEF Writings
  <1>2. /\ server.text = <<>> /\ filter.pending = <<>> /\ filter.inside = FALSE /\ content = <<>>
        /\ trace.end = "streaming"
    BY DEF ReplyInit
  <1>3. Fragments
    <2>1. /\ server = [text |-> <<>>, calls |-> [c \in ToolCalls |-> <<>>], sent |-> 0]
          /\ parts = [c \in ToolCalls |-> <<>>]
      BY DEF ReplyInit
    <2>2. QED
      BY <2>1 DEF Fragments
  <1>4. HeardRight
    <2>1. ASSUME NEW more \in Writings PROVE Read(<<>> \o more, FALSE) = <<>> \o Read(<<>> \o more, FALSE)
      <3>1. <<>> \o more = more
        BY JoinEmpty
      <3>2. Read(more, FALSE) \in Writings
        BY ReadType
      <3>3. <<>> \o Read(more, FALSE) = Read(more, FALSE)
        BY <3>2, JoinEmpty
      <3>4. QED
        BY <3>1, <3>3
    <2>2. QED
      BY <1>2, <2>1 DEF HeardRight
  <1>5. NoMark(filter.pending, filter.inside, Len(filter.pending))
    <2>1. Len(filter.pending) = 0
      BY <1>2
    <2>2. 1..Len(filter.pending) = {}
      BY <2>1
    <2>3. QED
      BY <2>2 DEF NoMark
  <1>6. IsPrefix(content, Cleaned(server.text))
    BY <1>1, <1>2, <1>4, HeardPrefix
  <1>7. QED
    BY <1>1, <1>2, <1>3, <1>4, <1>5, <1>6 DEF ReplyInv

LEMMA ReplyStep ==
  ASSUME "I" \notin Letters
  PROVE  ReplyInv /\ [ReplyNext]_replyVars => ReplyInv'
  <1> SUFFICES ASSUME ReplyInv, [ReplyNext]_replyVars PROVE ReplyInv'
    OBVIOUS
  <1>1. LowerKeeps
    BY LowerIs DEF LowerKeeps
  <1>2. ASSUME NEW n \in 1..MaxPiece, NEW piece \in [1..n -> Letters], ContentArrives(piece) PROVE ReplyInv'
    <2>1. piece \in Writings
      <3>1. piece \in Seq(Letters)
        OBVIOUS
      <3>2. QED
        BY <3>1 DEF Writings
    <2>2. /\ trace.end = "streaming" /\ trace' = trace /\ kind' = kind /\ parts' = parts
          /\ server' = [server EXCEPT !.text = @ \o piece]
      BY <1>2 DEF ContentArrives
    <2>3. server.text \o piece \in Writings
      BY <2>1, JoinIs DEF ReplyInv
    <2>4. server'.text = server.text \o piece /\ Fragments'
      BY <2>2 DEF ReplyInv, Fragments
    <2>5. CASE kind = "structured"
      <3>1. content' = content \o piece /\ filter' = filter
        BY <1>2, <2>5 DEF ContentArrives
      <3>2. content \o piece \in Writings
        BY <2>1, JoinIs DEF ReplyInv
      <3>3. QED
        BY <2>2, <2>3, <2>4, <2>5, <3>1, <3>2 DEF ReplyInv, Streaming
    <2>6. CASE kind # "structured"
      <3>1. PICK g : g = Fed(filter, piece)
        OBVIOUS
      <3>2. content' = content \o g.clean /\ filter' = [pending |-> g.pending, inside |-> g.inside]
        BY <1>2, <2>6, <3>1 DEF ContentArrives
      <3>3. filter.pending \in Writings /\ filter.inside \in BOOLEAN /\ content \in Writings /\ server.text \in Writings /\ HeardRight
        BY <2>2, <2>6 DEF ReplyInv, Streaming
      <3>4. /\ IsFilter(g) /\ NoMark(g.pending, g.inside, Len(g.pending))
            /\ \A more \in Writings : Read(filter.pending \o (piece \o more), filter.inside) = g.clean \o Read(g.pending \o more, g.inside)
        <4>1. FedRight(filter, piece, g)
          BY <1>1, <2>1, <3>1, <3>3, FedReads
        <4>2. QED
          BY <4>1 DEF FedRight
      <3>5. PICK c \in Writings : c = content
        BY <3>3
      <3>6. PICK d \in Writings : d = g.clean
        BY <3>4 DEF IsFilter
      <3>7. PICK s \in Writings : s = server.text
        BY <3>3
      <3>8. content' = c \o d /\ c \o d \in Writings
        BY <3>2, <3>5, <3>6, JoinIs
      <3>9. HeardRight'
        <4>1. ASSUME NEW more \in Writings
              PROVE  Read((s \o piece) \o more, FALSE) = (c \o d) \o Read(g.pending \o more, g.inside)
          <5>1. PICK u \in Writings : u = piece \o more
            BY <2>1, JoinIs
          <5>2. (s \o piece) \o more = s \o u
            BY <2>1, <5>1, JoinJoin
          <5>3. Read(s \o u, FALSE) = c \o Read(filter.pending \o u, filter.inside)
            BY <3>3, <3>5, <3>7 DEF HeardRight
          <5>4. PICK v \in Writings : v = Read(g.pending \o more, g.inside)
            <6>1. g.pending \o more \in Writings /\ g.inside \in BOOLEAN
              BY <3>4, JoinIs DEF IsFilter
            <6>2. QED
              BY <6>1, ReadType
          <5>5. Read(filter.pending \o u, filter.inside) = d \o v
            BY <3>4, <3>6, <5>1, <5>4
          <5>6. (c \o d) \o v = c \o (d \o v)
            BY JoinJoin, ZenonT(60)
          <5>7. QED
            BY <5>2, <5>3, <5>4, <5>5, <5>6
        <4>2. filter'.pending = g.pending /\ filter'.inside = g.inside
          BY <3>2
        <4>3. QED
          BY <2>4, <3>7, <3>8, <4>1, <4>2 DEF HeardRight
      <3>10. filter'.pending = g.pending /\ filter'.inside = g.inside
        BY <3>2
      <3>11. filter'.pending \in Writings /\ filter'.inside \in BOOLEAN /\ content' \in Writings /\ server'.text \in Writings
        BY <2>3, <2>4, <3>4, <3>8, <3>10 DEF IsFilter
      <3>12. NoMark(filter'.pending, filter'.inside, Len(filter'.pending))
        BY <3>4, <3>10
      <3>13. (filter.pending \in Writings /\ filter.inside \in BOOLEAN /\ content \in Writings /\ server.text \in Writings /\ HeardRight
              => IsPrefix(content, Cleaned(server.text)))'
        BY HeardPrefix, PTL
      <3>14. IsPrefix(content', Cleaned(server'.text))
        BY <3>9, <3>11, <3>13
      <3>15. QED
        BY <2>2, <2>4, <3>9, <3>11, <3>12, <3>14 DEF ReplyInv, Streaming
    <2>7. QED
      BY <2>5, <2>6
  <1>3. ASSUME NEW c \in ToolCalls, FragmentArrives(c) PROVE ReplyInv'
    <2>1. UNCHANGED <<kind, filter, content, trace>>
      BY <1>3 DEF FragmentArrives
    <2>2. PICK piece : /\ server' = [server EXCEPT !.calls[c] = Append(@, piece), !.sent = @ + 1]
                       /\ parts' = [parts EXCEPT ![c] = Append(@, piece)]
      BY <1>3 DEF FragmentArrives, SlotOf
    <2>3. /\ server = [text |-> server.text, calls |-> server.calls, sent |-> server.sent]
          /\ DOMAIN parts = ToolCalls /\ DOMAIN server.calls = ToolCalls
          /\ \A d \in ToolCalls : parts[d] = server.calls[d]
      BY DEF ReplyInv, Fragments
    <2>4. PICK calls : calls = [server.calls EXCEPT ![c] = Append(@, piece)]
      OBVIOUS
    <2>5. server' = [text |-> server.text, calls |-> calls, sent |-> server.sent + 1]
      BY <2>2, <2>3, <2>4
    <2>6. DOMAIN parts' = ToolCalls /\ DOMAIN calls = ToolCalls
      BY <2>2, <2>3, <2>4
    <2>7. ASSUME NEW d \in ToolCalls PROVE parts'[d] = calls[d]
      <3>1. parts'[d] = IF d = c THEN Append(parts[c], piece) ELSE parts[d]
        BY <2>2, <2>3
      <3>2. calls[d] = IF d = c THEN Append(server.calls[c], piece) ELSE server.calls[d]
        BY <2>3, <2>4
      <3>3. QED
        BY <2>3, <3>1, <3>2
    <2>8. Fragments' /\ server'.text = server.text
      BY <2>5, <2>6, <2>7 DEF Fragments
    <2>9. HeardRight => HeardRight'
      BY <2>1, <2>8 DEF HeardRight
    <2>10. QED
      BY <2>1, <2>8, <2>9 DEF ReplyInv, Streaming
  <1>4. ASSUME NEW valid \in BOOLEAN, StreamEnds(valid) PROVE ReplyInv'
    <2>1. /\ trace.end = "streaming" /\ filter' = [filter EXCEPT !.pending = <<>>]
          /\ kind' = kind /\ server' = server /\ parts' = parts
          /\ content' = IF kind = "structured" THEN content ELSE content \o TailOf(filter)
      BY <1>4 DEF StreamEnds
    <2>2. trace'.end # "streaming" /\ (kind # "structured" => trace'.said = content')
      BY <1>4 DEF StreamEnds
    <2>3. Fragments'
      BY <2>1 DEF ReplyInv, Fragments
    <2>4. <<>> \in Writings
      BY JoinEmpty DEF ReplyInv
    <2>5. filter'.pending \in Writings /\ filter'.inside \in BOOLEAN
      BY <2>1, <2>4 DEF ReplyInv
    <2>6. CASE kind = "structured"
      BY <2>1, <2>2, <2>3, <2>5, <2>6 DEF ReplyInv, Streaming
    <2>7. CASE kind # "structured"
      <3>1. /\ filter.pending \in Writings /\ filter.inside \in BOOLEAN /\ content \in Writings /\ server.text \in Writings
            /\ HeardRight /\ NoMark(filter.pending, filter.inside, Len(filter.pending))
        BY <2>1, <2>7 DEF ReplyInv, Streaming
      <3>2. Read(filter.pending, filter.inside) = TailOf(filter)
        <4>1. Read(filter.pending, filter.inside) = Kept(filter.inside, filter.pending)
          BY <3>1, TailReads
        <4>2. QED
          BY <4>1 DEF Kept, TailOf
      <3>3. Cleaned(server.text) = content \o TailOf(filter)
        BY <3>1, <3>2, HeardPrefix
      <3>4. content' = Cleaned(server.text)
        BY <2>1, <2>7, <3>3
      <3>5. TailOf(filter) \in Writings
        BY <2>4, <3>1 DEF TailOf
      <3>6. content' \in Writings
        BY <2>1, <2>7, <3>1, <3>5, JoinIs
      <3>7. IsPrefix(content', content')
        <4>1. content' \o <<>> = content'
          BY <3>6, JoinEmpty
        <4>2. IsPrefix(content', content' \o <<>>)
          BY <2>4, <3>6, PrefixJoin
        <4>3. QED
          BY <4>1, <4>2
      <3>8. QED
        BY <2>1, <2>2, <2>3, <2>5, <3>1, <3>4, <3>6, <3>7 DEF ReplyInv, Streaming
    <2>8. QED
      BY <2>6, <2>7
  <1>5. CASE StreamBreaks
    <2>1. UNCHANGED <<kind, server, filter, content, parts>> /\ trace'.end = "broken"
      BY <1>5 DEF StreamBreaks
    <2>2. Fragments'
      BY <2>1 DEF ReplyInv, Fragments
    <2>3. QED
      BY <2>1, <2>2 DEF ReplyInv, Streaming
  <1>6. CASE UNCHANGED replyVars
    <2>1. UNCHANGED <<kind, server, filter, content, parts, trace>>
      BY <1>6 DEF replyVars
    <2>2. QED
      BY <2>1 DEF ReplyInv, Streaming, HeardRight, Fragments
  <1>7. QED
    BY <1>2, <1>3, <1>4, <1>5, <1>6 DEF ReplyNext

\* A reply is the same however it was cut into deltas: read whole, no markup, and
\* no text lost or added around it; no fragment of a call goes to another one
\* (generator.py 78-140).  For letters that lower() keeps one for one.
THEOREM ReplyStaysWhole == ASSUME "I" \notin Letters PROVE ReplySpec => []ReplyIsWhole
  <1>1. ReplyInit => ReplyInv
    BY ReplyStarts
  <1>2. ReplyInv /\ [ReplyNext]_replyVars => ReplyInv'
    BY ReplyStep
  <1>3. ReplyInv => ReplyIsWhole
    BY DEF ReplyInv, Fragments, ReplyIsWhole
  <1>4. QED
    BY <1>1, <1>2, <1>3, PTL DEF ReplySpec

-----------------------------------------------------------------------------
(* What a conversation remembers is whole: pairs of turns that ran one     *)
(* after the other, and what a user was told was kept (session.py, api.py  *)
(* 300-700), for the composition that TLC runs.                            *)
THEOREM MemoryStaysWholeHere == HostSpec => []MemoryIsWhole
  BY HostIsItsParts, MemoryStaysWhole, PTL DEF MemoryIsWhole

(* A reply is the same however it was cut into deltas (generator.py        *)
(* 78-140), for the composition that TLC runs.                             *)
THEOREM ReplyStaysWholeHere == ASSUME "I" \notin Letters PROVE HostSpec => []ReplyIsWhole
  <1>1. ReplySpec => []ReplyIsWhole
    BY ReplyStaysWhole
  <1>2. HostSpec => ReplySpec
    <2>1. HostInit => ReplyInit
      BY DEF HostInit
    <2>2. [HostNext]_hostVars => [ReplyNext]_replyVars
      BY DEF HostNext, hostVars, Only, Still
    <2>3. QED
      BY <2>1, <2>2, PTL DEF HostSpec, ReplySpec
  <1>3. QED
    BY <1>1, <1>2, PTL
=============================================================================
