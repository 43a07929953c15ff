---------------------------- MODULE Words_proofs ----------------------------
(***************************************************************************)
(* Theorems about the words of the user at the open microphone: they reach *)
(* the conversation in the order in which they were spoken, and each once, *)
(* wherever a text ends, whatever is canceled and however decodes are      *)
(* late.  The invariant EarHolds relates the frames that wait, those that  *)
(* are decoded and the texts sent so far.  The last section states the     *)
(* types of all parts of MC_Builds.                                        *)
(***************************************************************************)
EXTENDS Builds_proofs
-----------------------------------------------------------------------------
(* The words of the open microphone arrive once and in order.              *)
\* Frames in the order in which they were spoken, none after the k-th.
Rising(s, k) ==
  /\ s \in AFrames
  /\ \A i \in DOMAIN s : 1 <= s[i].n /\ s[i].n <= k
  /\ \A i, j \in DOMAIN s : i < j => s[i].n < s[j].n

Before(s, t) == \A i \in DOMAIN s, j \in DOMAIN t : s[i].n < t[j].n
TakenFrom(t, s) == \A i \in DOMAIN t : \E j \in DOMAIN s : t[i] = s[j]

\* The texts sent so far, and that what is held was spoken after all of them.
Tales == Seq(SUBSET AFrame)
Told(T, k) ==
  /\ T \in Tales
  /\ \A i \in DOMAIN T : \A a \in T[i] : a.n <= k
  /\ \A i, j \in DOMAIN T : i < j => \A a \in T[i], b \in T[j] : a.n < b.n
Later(T, s) == \A i \in DOMAIN T : \A a \in T[i] : \A j \in DOMAIN s : a.n < s[j].n

LEMMA FramesAre ==
  ASSUME NEW s \in AFrames
  PROVE  /\ Len(s) \in Nat /\ DOMAIN s = 1..Len(s) /\ s \in Seq(AFrame)
         /\ \A i \in DOMAIN s : s[i] \in AFrame /\ s[i].n \in Nat /\ s[i].kind \in FrameKinds
  <1>1. Len(s) \in Nat /\ DOMAIN s = 1..Len(s) /\ s \in Seq(AFrame) /\ \A i \in DOMAIN s : s[i] \in AFrame
    BY DEF AFrames
  <1>2. \A f \in AFrame : f.n \in Nat /\ f.kind \in FrameKinds
    BY DEF AFrame
  <1>3. QED
    BY <1>1, <1>2

LEMMA RisingNone == ASSUME NEW k PROVE Rising(<<>>, k)
  BY NoFrames DEF Rising

LEMMA RisingMore ==
  ASSUME NEW k \in Nat, NEW m \in Nat, k <= m, NEW s, Rising(s, k)
  PROVE  Rising(s, m)
  <1>1. s \in AFrames
    BY DEF Rising
  <1>2. \A i \in DOMAIN s : s[i].n \in Nat
    BY <1>1, FramesAre
  <1>3. QED
    BY <1>2 DEF Rising

LEMMA RisingAppend ==
  ASSUME NEW k \in Nat, NEW s, Rising(s, k), NEW f \in AFrame, k < f.n
  PROVE  Rising(Append(s, f), f.n)
  <1>1. s \in AFrames /\ f.n \in Nat
    BY DEF Rising, AFrame
  <1>2. /\ Len(s) \in Nat /\ DOMAIN s = 1..Len(s) /\ s \in Seq(AFrame) /\ \A i \in DOMAIN s : s[i].n \in Nat
    BY <1>1, FramesAre
  <1>3. PICK t : t = Append(s, f)
    OBVIOUS
  <1>4. /\ t \in AFrames /\ DOMAIN t = 1..(Len(s) + 1) /\ \A i \in DOMAIN s : t[i] = s[i]
        /\ t[Len(s) + 1] = f
    BY <1>2, <1>3 DEF AFrames
  <1>5. \A i \in DOMAIN t : i \in DOMAIN s \/ i = Len(s) + 1
    BY <1>2, <1>4
  <1>6. \A i \in DOMAIN s : 1 <= s[i].n /\ s[i].n <= k
    BY DEF Rising
  <1>7. \A i \in DOMAIN t : 1 <= t[i].n /\ t[i].n <= f.n
    BY <1>1, <1>2, <1>4, <1>5, <1>6
  <1>8. ASSUME NEW i \in DOMAIN t, NEW j \in DOMAIN t, i < j PROVE t[i].n < t[j].n
    <2>1. i \in DOMAIN s
      BY <1>2, <1>4, <1>8
    <2>2. CASE j \in DOMAIN s
      BY <1>4, <1>8, <2>1, <2>2 DEF Rising
    <2>3. CASE j = Len(s) + 1
      BY <1>1, <1>2, <1>4, <1>6, <2>1, <2>3
    <2>4. QED
      BY <1>5, <2>2, <2>3
  <1>9. QED
    BY <1>3, <1>4, <1>7, <1>8 DEF Rising

LEMMA RisingPart ==
  ASSUME NEW k \in Nat, NEW s, Rising(s, k), NEW a \in Nat, NEW b \in Nat, 1 <= a, b <= Len(s)
  PROVE  /\ Rising(SubSeq(s, a, b), k) /\ TakenFrom(SubSeq(s, a, b), s)
         /\ Len(SubSeq(s, a, b)) = IF a <= b THEN b - a + 1 ELSE 0
         /\ \A i \in DOMAIN SubSeq(s, a, b) : a + i - 1 \in DOMAIN s /\ SubSeq(s, a, b)[i] = s[a + i - 1]
  <1>1. s \in AFrames
    BY DEF Rising
  <1>2. Len(s) \in Nat /\ DOMAIN s = 1..Len(s) /\ s \in Seq(AFrame)
    BY <1>1, FramesAre
  <1>3. PICK t : t = SubSeq(s, a, b)
    OBVIOUS
  <1>4. /\ t \in Seq(AFrame) /\ Len(t) = (IF a <= b THEN b - a + 1 ELSE 0) /\ DOMAIN t = 1..Len(t)
        /\ \A i \in 1..Len(t) : t[i] = s[a + i - 1]
    BY <1>2, <1>3
  <1>5. \A i \in DOMAIN t : a + i - 1 \in DOMAIN s /\ t[i] = s[a + i - 1]
    BY <1>2, <1>4
  <1>6. TakenFrom(t, s)
    BY <1>5 DEF TakenFrom
  <1>7. \A i \in DOMAIN t : 1 <= t[i].n /\ t[i].n <= k
    BY <1>5 DEF Rising
  <1>8. ASSUME NEW i \in DOMAIN t, NEW j \in DOMAIN t, i < j PROVE t[i].n < t[j].n
    <2>1. a + i - 1 \in DOMAIN s /\ a + j - 1 \in DOMAIN s /\ t[i] = s[a + i - 1] /\ t[j] = s[a + j - 1]
      BY <1>5
    <2>2. a + i - 1 < a + j - 1
      BY <1>4, <1>8
    <2>3. QED
      BY <2>1, <2>2 DEF Rising
  <1>9. t \in AFrames
    BY <1>4 DEF AFrames
  <1>10. QED
    BY <1>3, <1>4, <1>5, <1>6, <1>7, <1>8, <1>9 DEF Rising

LEMMA RisingLast ==
  ASSUME NEW k \in Nat, NEW s, Rising(s, k), NEW m \in Nat
  PROVE  /\ Rising(LastOf(s, m), k) /\ TakenFrom(LastOf(s, m), s) /\ Len(LastOf(s, m)) <= m
         /\ (m > 0 /\ Len(s) > 0 => \E i \in DOMAIN LastOf(s, m) : LastOf(s, m)[i] = s[Len(s)])
  <1>1. s \in AFrames
    BY DEF Rising
  <1>2. Len(s) \in Nat /\ DOMAIN s = 1..Len(s)
    BY <1>1, FramesAre
  <1>3. PICK a : a = IF Len(s) > m THEN Len(s) - m + 1 ELSE 1
    OBVIOUS
  <1>4. a \in Nat /\ 1 <= a
    BY <1>2, <1>3
  <1>5. PICK t : t = LastOf(s, m)
    OBVIOUS
  <1>6. t = SubSeq(s, a, Len(s))
    BY <1>3, <1>5 DEF LastOf
  <1>7. /\ Rising(t, k) /\ TakenFrom(t, s) /\ Len(t) = (IF a <= Len(s) THEN Len(s) - a + 1 ELSE 0)
        /\ \A i \in DOMAIN t : t[i] = s[a + i - 1]
    BY <1>2, <1>4, <1>6, RisingPart
  <1>8. Len(t) <= m
    BY <1>2, <1>3, <1>7
  <1>9. ASSUME m > 0, Len(s) > 0 PROVE \E i \in DOMAIN t : t[i] = s[Len(s)]
    <2>1. a <= Len(s)
      BY <1>2, <1>3, <1>9
    <2>2. PICK i : i = Len(s) - a + 1
      OBVIOUS
    <2>3. i = Len(t) /\ i >= 1 /\ i \in Nat /\ a + i - 1 = Len(s)
      BY <1>2, <1>4, <1>7, <2>1, <2>2
    <2>4. t \in AFrames
      BY <1>7 DEF Rising
    <2>5. i \in DOMAIN t
      BY <2>3, <2>4, FramesAre
    <2>6. QED
      BY <1>7, <2>3, <2>5
  <1>10. QED
    BY <1>5, <1>7, <1>8, <1>9

Joins(u, s, t, k) ==
  /\ Rising(u, k) /\ TakenFrom(s, u) /\ TakenFrom(t, u)
  /\ \A i \in DOMAIN u : (\E j \in DOMAIN s : u[i] = s[j]) \/ (\E j \in DOMAIN t : u[i] = t[j])

LEMMA RisingJoin ==
  ASSUME NEW k \in Nat, NEW s, NEW t, Rising(s, k), Rising(t, k), Before(s, t), NEW u, u = s \o t
  PROVE  Joins(u, s, t, k)
  <1>1. s \in AFrames /\ t \in AFrames
    BY DEF Rising
  <1>2. /\ Len(s) \in Nat /\ DOMAIN s = 1..Len(s) /\ s \in Seq(AFrame)
        /\ Len(t) \in Nat /\ DOMAIN t = 1..Len(t) /\ t \in Seq(AFrame)
    BY <1>1, FramesAre
  <1>4. /\ u \in Seq(AFrame) /\ Len(u) = Len(s) + Len(t) /\ DOMAIN u = 1..(Len(s) + Len(t))
        /\ \A i \in 1..Len(s) : u[i] = s[i]
        /\ \A i \in 1..Len(t) : u[Len(s) + i] = t[i]
    BY <1>2
  <1>5. ASSUME NEW i \in DOMAIN u
        PROVE  (i \in DOMAIN s /\ u[i] = s[i]) \/ (i - Len(s) \in DOMAIN t /\ u[i] = t[i - Len(s)])
    <2>1. CASE i <= Len(s)
      BY <1>2, <1>4, <1>5, <2>1
    <2>2. CASE i > Len(s)
      <3>1. i - Len(s) \in 1..Len(t) /\ Len(s) + (i - Len(s)) = i
        BY <1>2, <1>4, <1>5, <2>2
      <3>2. QED
        BY <1>2, <1>4, <3>1
    <2>3. QED
      BY <1>2, <1>4, <1>5, <2>1, <2>2
  <1>6. \A i \in DOMAIN u : 1 <= u[i].n /\ u[i].n <= k
    BY <1>5 DEF Rising
  <1>7. ASSUME NEW i \in DOMAIN u, NEW j \in DOMAIN u, i < j PROVE u[i].n < u[j].n
    <2>1. CASE i \in DOMAIN s /\ u[i] = s[i] /\ j \in DOMAIN s /\ u[j] = s[j]
      BY <1>7, <2>1 DEF Rising
    <2>2. CASE i \in DOMAIN s /\ u[i] = s[i] /\ j - Len(s) \in DOMAIN t /\ u[j] = t[j - Len(s)]
      BY <2>2 DEF Before
    <2>3. CASE i - Len(s) \in DOMAIN t /\ u[i] = t[i - Len(s)] /\ j - Len(s) \in DOMAIN t /\ u[j] = t[j - Len(s)]
      <3>1. i - Len(s) < j - Len(s)
        BY <1>2, <1>4, <1>7
      <3>2. QED
        BY <2>3, <3>1 DEF Rising
    <2>4. CASE i - Len(s) \in DOMAIN t /\ j \in DOMAIN s
      <3>1. FALSE
        BY <1>2, <1>4, <1>7, <2>4
      <3>2. QED
        BY <3>1
    <2>5. QED
      BY <1>5, <2>1, <2>2, <2>3, <2>4
  <1>8. TakenFrom(s, u)
    <2>1. \A i \in DOMAIN s : i \in DOMAIN u /\ s[i] = u[i]
      BY <1>2, <1>4
    <2>2. QED
      BY <2>1 DEF TakenFrom
  <1>9. TakenFrom(t, u)
    <2>1. \A i \in DOMAIN t : Len(s) + i \in DOMAIN u /\ t[i] = u[Len(s) + i]
      BY <1>2, <1>4
    <2>2. QED
      BY <2>1 DEF TakenFrom
  <1>10. u \in AFrames
    BY <1>4 DEF AFrames
  <1>11. Rising(u, k)
    BY <1>6, <1>7, <1>10 DEF Rising
  <1>12. \A i \in DOMAIN u : (\E j \in DOMAIN s : u[i] = s[j]) \/ (\E j \in DOMAIN t : u[i] = t[j])
    BY <1>5
  <1>13. QED
    BY <1>8, <1>9, <1>11, <1>12 DEF Joins

\* There are no more of them than were spoken.
LEMMA RisingShort ==
  ASSUME NEW k \in Nat, NEW s, Rising(s, k)
  PROVE  Len(s) <= k
  <1>1. s \in AFrames
    BY DEF Rising
  <1>2. Len(s) \in Nat /\ DOMAIN s = 1..Len(s) /\ \A i \in DOMAIN s : s[i].n \in Nat
    BY <1>1, FramesAre
  <1> DEFINE W == {i \in DOMAIN s : s[i].n < i}
  <1>3. W = {}
    <2> SUFFICES ASSUME W # {} PROVE FALSE
      OBVIOUS
    <2>1. W \in SUBSET Nat
      BY <1>2
    <2>2. PICK i \in W : \A j \in W : i <= j
      BY <2>1, LeastNumber
    <2>3. i \in 1..Len(s) /\ s[i].n < i /\ 1 <= s[i].n
      BY <1>2, <2>2 DEF Rising
    <2>4. i - 1 \in DOMAIN s /\ i - 1 < i /\ ~(i <= i - 1)
      BY <1>2, <2>3
    <2>5. s[i - 1].n >= i - 1
      <3>1. ~(s[i - 1].n < i - 1)
        BY <2>2, <2>4
      <3>2. i - 1 \in Nat /\ s[i - 1].n \in Nat
        BY <1>2, <2>3, <2>4
      <3>3. QED
        BY <3>1, <3>2
    <2>6. s[i - 1].n < s[i].n
      BY <1>2, <2>3, <2>4 DEF Rising
    <2>7. QED
      BY <1>2, <2>3, <2>4, <2>5, <2>6
  <1>4. CASE Len(s) = 0
    BY <1>4
  <1>5. CASE Len(s) > 0
    <2>1. Len(s) \in DOMAIN s
      BY <1>2, <1>5
    <2>2. ~(s[Len(s)].n < Len(s)) /\ s[Len(s)].n <= k
      BY <1>3, <2>1 DEF Rising
    <2>3. QED
      BY <1>2, <2>1, <2>2
  <1>6. QED
    BY <1>2, <1>4, <1>5

LEMMA TakenKeeps ==
  ASSUME NEW s, NEW t, TakenFrom(t, s), NEW T, NEW a
  PROVE  (Later(T, s) => Later(T, t)) /\ (Before(a, s) => Before(a, t))
  BY DEF TakenFrom, Later, Before

-----------------------------------------------------------------------------
\* A final that is wanted: what it decodes is what the listener holds.
Final(j) == j.real /\ j.final
Live(j) == Final(j) /\ ~j.canceled

EarTyped(e) ==
  /\ e.backend \in Backends /\ e.from \in {"waiting", "listening"}
  /\ e.playback \in BOOLEAN /\ e.dictation \in BOOLEAN /\ e.finalPending \in BOOLEAN
  /\ e.job.final \in BOOLEAN /\ e.job.canceled \in BOOLEAN
  /\ e.running.final \in BOOLEAN /\ e.running.canceled \in BOOLEAN
  /\ e.onset \in Nat /\ e.heard \subseteq 1..MaxFrames

EarHolds(e, T, k) ==
  /\ Rising(e.audio, k) /\ Rising(e.command, k) /\ Rising(e.preroll, k) /\ Before(e.audio, e.command)
  /\ Len(e.command) <= KeepFrames /\ (e.backend = "whisper" => Len(e.audio) <= LongestFrames)
  /\ Told(T, k) /\ Later(T, e.audio) /\ Later(T, e.command) /\ Later(T, e.preroll)

EarDecodes(e) ==
  /\ e.backend = "vosk" => ~e.finalPending /\ ~e.job.real /\ ~e.running.real
  /\ Final(e.job) => e.job.audio = e.audio /\ ~e.dictation /\ e.finalPending /\ ~Live(e.running)
  /\ Live(e.running) => e.running.audio = e.audio /\ ~e.dictation /\ e.finalPending

EarRests(e) ==
  /\ e.dictation => e.command = <<>>
  /\ ~e.dictation /\ ~e.finalPending => e.audio = <<>>
  /\ e.preroll # <<>> => e.state = "waiting"
  /\ e.state = "waiting" =>
       e.audio = <<>> /\ e.command = <<>> /\ ~e.dictation /\ ~Live(e.running) /\ ~Final(e.job)

\* One clear frame is an onset; what is clearly spoken is held, or was sent.
OneFrameStarts == StartFrames <= 1 /\ KeepFrames > 0
Loud(s, n) == \E i \in DOMAIN s : s[i].n = n /\ s[i].kind = "loud"
WasSent(T, n) == \E i \in DOMAIN T : \E a \in T[i] : a.n = n
EarCovers(e, T) == OneFrameStarts => \A n \in e.heard : Loud(e.audio, n) \/ WasSent(T, n)

EarSound(e, T, k) ==
  IsEar(e) /\ EarTyped(e) /\ EarHolds(e, T, k) /\ EarDecodes(e) /\ EarRests(e)
EarKeeps(e, T, k) == EarSound(e, T, k) /\ EarCovers(e, T)

Same(e, d, changed) == \A x \in EarFields \ changed : d[x] = e[x]

\* Fields that none of this speaks of.
PlainFields == {"length", "silence", "partial", "draftAt", "out", "said"}
LEMMA PlainSound ==
  ASSUME NEW e, NEW d, NEW T, NEW k, EarSound(e, T, k), IsEar(d), Same(e, d, PlainFields)
  PROVE  EarSound(d, T, k) /\ (EarCovers(e, T) => EarCovers(d, T))
  <1>1. /\ d.backend = e.backend /\ d.state = e.state /\ d.from = e.from /\ d.playback = e.playback
        /\ d.preroll = e.preroll /\ d.dictation = e.dictation /\ d.onset = e.onset
        /\ d.command = e.command /\ d.audio = e.audio /\ d.finalPending = e.finalPending
        /\ d.job = e.job /\ d.running = e.running /\ d.heard = e.heard
    BY DEF Same, PlainFields, EarFields
  <1>2. EarTyped(d)
    BY <1>1 DEF EarSound, EarTyped
  <1>3. EarHolds(d, T, k)
    BY <1>1 DEF EarSound, EarHolds
  <1>4. EarDecodes(d)
    BY <1>1 DEF EarSound, EarDecodes
  <1>5. EarRests(d)
    BY <1>1 DEF EarSound, EarRests
  <1>6. EarCovers(e, T) => EarCovers(d, T)
    BY <1>1 DEF EarCovers
  <1>7. QED
    BY <1>2, <1>3, <1>4, <1>5, <1>6 DEF EarSound

LEMMA PlainKeeps ==
  ASSUME NEW e, NEW d, NEW T, NEW k, EarKeeps(e, T, k), IsEar(d), Same(e, d, PlainFields)
  PROVE  EarKeeps(d, T, k)
  BY PlainSound DEF EarKeeps

\* What is published is said, and what was sent is said besides.
SaidBy(e, event) == IF event.type \in {"transcript", "limit"} THEN Append(e.said, event.text) ELSE e.said

LEMMA SendsIs ==
  ASSUME NEW e, IsEar(e), NEW event
  PROVE  /\ IsEar(Sends(e, event)) /\ Same(e, Sends(e, event), PlainFields)
         /\ Sends(e, event).said = SaidBy(e, event) /\ Sends(e, event).state = e.state
  <1>1. PICK a : a = Append(e.out, event)
    OBVIOUS
  <1>2. PICK b : b = SaidBy(e, event)
    OBVIOUS
  <1>3. PICK d : d = [e EXCEPT !.out = a, !.said = b]
    OBVIOUS
  <1>4. d = Sends(e, event)
    BY <1>1, <1>2, <1>3 DEF Sends, SaidBy
  <1>5. d.said = b /\ d.state = e.state
    BY <1>3 DEF IsEar, EarFields
  <1>6. \A x \in EarFields \ {"out", "said"} : d[x] = e[x]
    BY <1>3 DEF IsEar
  <1>7. Same(e, d, PlainFields)
    BY <1>6 DEF Same, PlainFields
  <1>8. IsEar(d)
    BY <1>4, SendsSame, SameEar
  <1>9. QED
    BY <1>2, <1>4, <1>5, <1>7, <1>8

LEMMA EventsAre ==
  /\ \A e : StateEvent(e).type = "state"
  /\ \A type, text : Event(type, text).type = type /\ Event(type, text).text = text
  BY DEF StateEvent, Event

LEMMA SendsKeeps ==
  ASSUME NEW e, NEW T, NEW k, EarKeeps(e, T, k), NEW event
  PROVE  EarKeeps(Sends(e, event), T, k) /\ Sends(e, event).said = SaidBy(e, event)
  <1>1. IsEar(e)
    BY DEF EarKeeps, EarSound
  <1>2. QED
    BY <1>1, SendsIs, PlainKeeps

LEMMA SendsPlain ==
  ASSUME NEW e, NEW T, NEW k, EarKeeps(e, T, k), NEW event, event.type \notin {"transcript", "limit"}
  PROVE  EarKeeps(Sends(e, event), T, k) /\ Sends(e, event).said = e.said
  BY SendsKeeps DEF SaidBy

-----------------------------------------------------------------------------
\* A listener that holds nothing, and waits for no decode.
Blank(e) ==
  e.audio = <<>> /\ e.command = <<>> /\ ~e.dictation /\ ~e.finalPending /\ ~e.job.real /\ ~Live(e.running)

\* It may be put in any state.
MovedFields == {"state", "from", "playback", "preroll", "out", "said"}
LEMMA BlankKeeps ==
  ASSUME NEW e, NEW d, NEW T, NEW k, EarKeeps(e, T, k), Blank(e), IsEar(d), Same(e, d, MovedFields),
         d.preroll = <<>>, d.from \in {"waiting", "listening"}, d.playback \in BOOLEAN
  PROVE  EarKeeps(d, T, k) /\ Blank(d)
  <1>1. /\ d.backend = e.backend /\ d.dictation = e.dictation /\ d.onset = e.onset
        /\ d.command = e.command /\ d.audio = e.audio /\ d.finalPending = e.finalPending
        /\ d.job = e.job /\ d.running = e.running /\ d.heard = e.heard
    BY DEF Same, MovedFields, EarFields
  <1>2. EarTyped(d)
    BY <1>1 DEF EarKeeps, EarSound, EarTyped
  <1>3. EarHolds(d, T, k)
    <2>1. Rising(<<>>, k) /\ Later(T, <<>>)
      BY RisingNone DEF Later
    <2>2. QED
      BY <1>1, <2>1 DEF EarKeeps, EarSound, EarHolds
  <1>4. EarDecodes(d)
    BY <1>1 DEF EarKeeps, EarSound, EarDecodes
  <1>5. EarRests(d)
    BY <1>1 DEF EarRests, Blank, Final
  <1>6. EarCovers(d, T)
    BY <1>1 DEF EarKeeps, EarCovers
  <1>7. Blank(d)
    BY <1>1 DEF Blank
  <1>8. QED
    BY <1>2, <1>3, <1>4, <1>5, <1>6, <1>7 DEF EarKeeps, EarSound

\* Canceled decodes, and what a cleared attempt leaves.
LEMMA InvalidateIs ==
  ASSUME NEW e, IsEar(e), EarTyped(e), NEW preserve \in BOOLEAN, NEW d, d = Invalidate(e, preserve)
  PROVE  /\ IsEar(d) /\ Same(e, d, {"job", "running", "finalPending", "audio", "draftAt"})
         /\ (e.backend = "vosk" => d = e)
         /\ (e.backend # "vosk" =>
               /\ d.job = NoJob /\ ~Live(d.running) /\ ~d.finalPending /\ d.finalPending \in BOOLEAN
               /\ d.running.final = e.running.final /\ d.running.canceled \in BOOLEAN
               /\ d.audio = IF preserve THEN e.audio ELSE <<>>)
  <1>1. IsEar(d)
    BY InvalidateSame, SameEar
  <1>2. CASE e.backend = "vosk"
    BY <1>1, <1>2 DEF Invalidate, Same
  <1>3. CASE e.backend # "vosk"
    <2>1. PICK r : r = [e.running EXCEPT !.canceled = e.running.real]
      OBVIOUS
    <2>2. /\ r.canceled = e.running.real /\ r.real = e.running.real /\ r.final = e.running.final
          /\ r.canceled \in BOOLEAN
      BY <2>1 DEF IsEar, IsJob, JobFields
    <2>3. PICK j : j = NoJob
      OBVIOUS
    <2>4. PICK a : a = IF preserve THEN e.audio ELSE <<>>
      OBVIOUS
    <2>5. PICK n : n = IF preserve THEN e.draftAt ELSE 0
      OBVIOUS
    <2>6. d = [e EXCEPT !.job = j, !.running = r, !.finalPending = FALSE, !.audio = a, !.draftAt = n]
      BY <1>3, <2>1, <2>3, <2>4, <2>5 DEF Invalidate
    <2>7. d.job = j /\ d.running = r /\ d.finalPending = FALSE /\ d.audio = a
      BY <2>6 DEF IsEar, EarFields
    <2>8. Same(e, d, {"job", "running", "finalPending", "audio", "draftAt"})
      <3>1. \A x \in EarFields \ {"job", "running", "finalPending", "audio", "draftAt"} : d[x] = e[x]
        BY <2>6 DEF IsEar
      <3>2. QED
        BY <3>1 DEF Same
    <2>9. ~Live(r)
      BY <2>2 DEF Live, Final
    <2>10. QED
      BY <1>1, <1>3, <2>2, <2>3, <2>4, <2>7, <2>8, <2>9
  <1>4. QED
    BY <1>2, <1>3

ClearedFields == {"dictation", "onset", "length", "silence", "command", "partial", "audio"}
LEMMA ResetIs ==
  ASSUME NEW e, IsEar(e), NEW d, d = ResetAttempt(e)
  PROVE  /\ IsEar(d) /\ Same(e, d, ClearedFields)
         /\ d.dictation = FALSE /\ d.onset = 0 /\ d.command = <<>>
         /\ d.audio = IF e.backend = "vosk" THEN <<>> ELSE e.audio
  <1>1. IsEar(d)
    BY ResetSame, SameEar
  <1>2. PICK a : a = IF e.backend = "vosk" THEN <<>> ELSE e.audio
    OBVIOUS
  <1>3. d = [e EXCEPT !.dictation = FALSE, !.onset = 0, !.length = 0, !.silence = 0, !.command = <<>>,
                      !.partial = {}, !.audio = a]
    BY <1>2 DEF ResetAttempt
  <1>4. d.dictation = FALSE /\ d.onset = 0 /\ d.command = <<>> /\ d.audio = a
    BY <1>3 DEF IsEar, EarFields
  <1>5. \A x \in EarFields \ ClearedFields : d[x] = e[x]
    BY <1>3 DEF IsEar, ClearedFields
  <1>6. QED
    BY <1>1, <1>2, <1>4, <1>5 DEF Same

LEMMA ClearedKeeps ==
  ASSUME NEW e, NEW T, NEW k, EarKeeps(e, T, k), e.heard = {} \/ e.audio = <<>>,
         NEW d, d = ResetAttempt(Invalidate(e, FALSE))
  PROVE  /\ EarKeeps(d, T, k) /\ Blank(d) /\ d.said = e.said /\ d.heard = e.heard
         /\ d.state = e.state /\ d.from = e.from /\ d.playback = e.playback /\ d.backend = e.backend
  <1>0. IsEar(e) /\ EarTyped(e) /\ EarHolds(e, T, k) /\ EarDecodes(e) /\ EarRests(e) /\ EarCovers(e, T)
    BY DEF EarKeeps, EarSound
  <1>1. PICK c : c = Invalidate(e, FALSE)
    OBVIOUS
  <1>2. /\ IsEar(c) /\ Same(e, c, {"job", "running", "finalPending", "audio", "draftAt"})
        /\ (e.backend = "vosk" => c = e)
        /\ (e.backend # "vosk" =>
              /\ c.job = NoJob /\ ~Live(c.running) /\ ~c.finalPending /\ c.finalPending \in BOOLEAN
              /\ c.running.final = e.running.final /\ c.running.canceled \in BOOLEAN
              /\ c.audio = <<>>)
    BY <1>0, <1>1, InvalidateIs
  <1>3. /\ IsEar(d) /\ Same(c, d, ClearedFields)
        /\ d.dictation = FALSE /\ d.onset = 0 /\ d.command = <<>>
        /\ d.audio = IF c.backend = "vosk" THEN <<>> ELSE c.audio
    BY <1>1, <1>2, ResetIs
  <1>4. /\ c.backend = e.backend /\ c.state = e.state /\ c.from = e.from /\ c.playback = e.playback
        /\ c.preroll = e.preroll /\ c.heard = e.heard /\ c.said = e.said
    BY <1>2 DEF Same, EarFields
  <1>5. /\ d.backend = c.backend /\ d.state = c.state /\ d.from = c.from /\ d.playback = c.playback
        /\ d.preroll = c.preroll /\ d.heard = c.heard /\ d.said = c.said
        /\ d.job = c.job /\ d.running = c.running /\ d.finalPending = c.finalPending
    BY <1>3 DEF Same, EarFields, ClearedFields
  <1>6. d.audio = <<>>
    BY <1>2, <1>3, <1>4
  <1>7. /\ ~d.job.real /\ ~Live(d.running) /\ ~d.finalPending /\ d.finalPending \in BOOLEAN
        /\ d.job.final \in BOOLEAN /\ d.job.canceled \in BOOLEAN
        /\ d.running.final \in BOOLEAN /\ d.running.canceled \in BOOLEAN
        /\ (e.backend = "vosk" => ~d.running.real)
    <2>1. CASE e.backend = "vosk"
      BY <1>0, <1>2, <1>5, <2>1 DEF EarTyped, EarDecodes, Live, Final
    <2>2. CASE e.backend # "vosk"
      <3>1. NoJob.real = FALSE /\ NoJob.final = FALSE /\ NoJob.canceled = FALSE
        BY DEF NoJob
      <3>2. e.running.final \in BOOLEAN
        BY <1>0 DEF EarTyped
      <3>3. QED
        BY <1>2, <1>5, <2>2, <3>1, <3>2
    <2>3. QED
      BY <2>1, <2>2
  <1>8. Blank(d)
    BY <1>3, <1>6, <1>7 DEF Blank
  <1>9. EarTyped(d)
    <2>1. d.dictation \in BOOLEAN /\ d.onset \in Nat
      <3>1. d.dictation = FALSE /\ d.onset = 0
        BY <1>3
      <3>2. d.dictation \in BOOLEAN
        BY <3>1, Zenon
      <3>3. 0 \in Nat
        OBVIOUS
      <3>4. QED
        BY <3>1, <3>2, <3>3, Zenon
    <2>2. /\ d.backend = e.backend /\ d.from = e.from /\ d.playback = e.playback /\ d.heard = e.heard
      BY <1>4, <1>5
    <2>3. QED
      BY <1>0, <1>7, <2>1, <2>2 DEF EarTyped
  <1>10. EarHolds(d, T, k)
    <2>1. Rising(<<>>, k) /\ Later(T, <<>>) /\ Before(<<>>, <<>>) /\ Len(<<>>) = 0
      BY RisingNone DEF Later, Before
    <2>2. KeepFrames >= 0 /\ LongestFrames >= 0
      BY ListeningAssumption
    <2>3. QED
      BY <1>0, <1>3, <1>4, <1>5, <1>6, <2>1, <2>2 DEF EarHolds
  <1>11. EarDecodes(d)
    BY <1>4, <1>5, <1>7 DEF EarDecodes, Final
  <1>12. EarRests(d)
    BY <1>0, <1>3, <1>4, <1>5, <1>6, <1>7 DEF EarRests, Final
  <1>13. EarCovers(d, T)
    <2>1. CASE e.heard = {}
      BY <1>4, <1>5, <2>1 DEF EarCovers
    <2>2. CASE e.audio = <<>>
      BY <1>0, <1>4, <1>5, <1>6, <2>2 DEF EarCovers
    <2>3. QED
      BY <2>1, <2>2
  <1>14. QED
    BY <1>3, <1>4, <1>5, <1>8, <1>9, <1>10, <1>11, <1>12, <1>13 DEF EarKeeps, EarSound

\* Resume, pause and unpause.
LEMMA WokenKeeps ==
  ASSUME NEW e, NEW T, NEW k, EarKeeps(e, T, k), e.heard = {} \/ e.audio = <<>>
  PROVE  EarKeeps(Woken(e), T, k) /\ Blank(Woken(e)) /\ Woken(e).said = e.said /\ Woken(e).preroll = <<>>
  <1>1. PICK d : d = ResetAttempt(Invalidate(e, FALSE))
    OBVIOUS
  <1>2. EarKeeps(d, T, k) /\ Blank(d) /\ d.said = e.said
    BY <1>1, ClearedKeeps
  <1>3. IsEar(e) /\ IsEar(d) /\ EarTyped(d)
    BY <1>2 DEF EarKeeps, EarSound
  <1>4. PICK c : c = Woken(e)
    OBVIOUS
  <1>5. c = [d EXCEPT !.preroll = <<>>, !.playback = FALSE, !.state = "waiting"]
    BY <1>1, <1>4 DEF Woken
  <1>6. IsEar(c)
    BY <1>3, <1>4, WokenSame, SameEar
  <1>7. c.preroll = <<>> /\ c.playback = FALSE /\ c.from = d.from /\ c.said = d.said
    BY <1>3, <1>5 DEF IsEar, EarFields
  <1>8. \A x \in EarFields \ MovedFields : c[x] = d[x]
    BY <1>3, <1>5 DEF IsEar, MovedFields
  <1>9. Same(d, c, MovedFields)
    BY <1>8 DEF Same
  <1>10. c.from \in {"waiting", "listening"} /\ c.playback \in BOOLEAN
    BY <1>3, <1>7 DEF EarTyped
  <1>11. EarKeeps(c, T, k) /\ Blank(c)
    BY <1>2, <1>6, <1>7, <1>9, <1>10, BlankKeeps
  <1>12. QED
    BY <1>2, <1>4, <1>7, <1>11

LEMMA PausedKeeps ==
  ASSUME NEW e, NEW T, NEW k, EarKeeps(e, T, k), e.heard = {} \/ e.audio = <<>>
  PROVE  EarKeeps(Paused(e), T, k) /\ Paused(e).said = e.said
  <1>1. PICK d : d = ResetAttempt(Invalidate(e, FALSE))
    OBVIOUS
  <1>2. EarKeeps(d, T, k) /\ Blank(d) /\ d.said = e.said /\ d.from = e.from
    BY <1>1, ClearedKeeps
  <1>3. IsEar(e) /\ IsEar(d) /\ EarTyped(e)
    BY <1>2 DEF EarKeeps, EarSound
  <1>4. PICK y : y = IF e.state = "paused" THEN d.from ELSE e.state
    OBVIOUS
  <1>5. y \in {"waiting", "listening"}
    BY <1>2, <1>3, <1>4 DEF EarTyped, IsEar, EarStates
  <1>6. PICK c : c = Muffled(e)
    OBVIOUS
  <1>7. c = [d EXCEPT !.from = y, !.state = "paused", !.preroll = <<>>]
    BY <1>1, <1>4, <1>6 DEF Muffled
  <1>8. IsEar(c)
    BY <1>3, <1>6, MuffledSame, SameEar
  <1>9. c.preroll = <<>> /\ c.playback = d.playback /\ c.from = y /\ c.said = d.said
    BY <1>3, <1>7 DEF IsEar, EarFields
  <1>10. \A x \in EarFields \ MovedFields : c[x] = d[x]
    BY <1>3, <1>7 DEF IsEar, MovedFields
  <1>11. Same(d, c, MovedFields)
    BY <1>10 DEF Same
  <1>12. d.playback \in BOOLEAN
    BY <1>2 DEF EarKeeps, EarSound, EarTyped
  <1>13. EarKeeps(c, T, k)
    BY <1>2, <1>5, <1>8, <1>9, <1>11, <1>12, BlankKeeps
  <1>14. EarKeeps(Sends(c, StateEvent(c)), T, k) /\ Sends(c, StateEvent(c)).said = c.said
    BY <1>13, EventsAre, SendsPlain
  <1>15. QED
    BY <1>2, <1>6, <1>9, <1>14 DEF Paused

LEMMA ResumedKeeps ==
  ASSUME NEW e, NEW T, NEW k, EarKeeps(e, T, k), e.heard = {} \/ e.audio = <<>>
  PROVE  EarKeeps(Resumed(e), T, k) /\ Resumed(e).said = e.said
  <1>1. PICK d : d = Woken(e)
    OBVIOUS
  <1>2. EarKeeps(d, T, k) /\ d.said = e.said
    BY <1>1, WokenKeeps
  <1>3. EarKeeps(Sends(d, StateEvent(d)), T, k) /\ Sends(d, StateEvent(d)).said = d.said
    BY <1>2, EventsAre, SendsPlain
  <1>4. QED
    BY <1>1, <1>2, <1>3 DEF Resumed

LEMMA UnpausedKeeps ==
  ASSUME NEW e, NEW T, NEW k, EarKeeps(e, T, k), e.heard = {} \/ e.audio = <<>>
  PROVE  EarKeeps(Unpaused(e), T, k) /\ Unpaused(e).said = e.said
  <1>1. PICK d : d = Woken(e)
    OBVIOUS
  <1>2. EarKeeps(d, T, k) /\ Blank(d) /\ d.said = e.said /\ d.preroll = <<>>
    BY <1>1, WokenKeeps
  <1>3. IsEar(e) /\ IsEar(d) /\ EarTyped(e)
    BY <1>2 DEF EarKeeps, EarSound
  <1>4. PICK c : c = [d EXCEPT !.state = e.from, !.playback = e.playback]
    OBVIOUS
  <1>5. IsEar(c)
    <2>1. PICK b : b = [d EXCEPT !.state = e.from]
      OBVIOUS
    <2>2. e.from \in EarStates
      BY <1>3 DEF IsEar
    <2>3. SameDecode(d, b)
      BY <1>3, <2>1, <2>2, SameField
    <2>4. SameDecode(b, [b EXCEPT !.playback = e.playback])
      BY <2>3, SameEar, SameField
    <2>5. c = [b EXCEPT !.playback = e.playback]
      BY <1>4, <2>1
    <2>6. QED
      BY <2>4, <2>5, SameEar
  <1>6. c.preroll = <<>> /\ c.playback = e.playback /\ c.from = d.from /\ c.said = d.said
    BY <1>2, <1>3, <1>4 DEF IsEar, EarFields
  <1>7. \A x \in EarFields \ MovedFields : c[x] = d[x]
    BY <1>3, <1>4 DEF IsEar, MovedFields
  <1>8. Same(d, c, MovedFields)
    BY <1>7 DEF Same
  <1>9. d.from \in {"waiting", "listening"} /\ e.playback \in BOOLEAN
    BY <1>2, <1>3 DEF EarKeeps, EarSound, EarTyped
  <1>10. EarKeeps(c, T, k)
    BY <1>2, <1>5, <1>6, <1>8, <1>9, BlankKeeps
  <1>11. EarKeeps(Sends(c, StateEvent(c)), T, k) /\ Sends(c, StateEvent(c)).said = c.said
    BY <1>10, EventsAre, SendsPlain
  <1>12. EarKeeps(Sends(e, StateEvent(e)), T, k) /\ Sends(e, StateEvent(e)).said = e.said
    BY EventsAre, SendsPlain
  <1>13. Unpaused(e) = IF e.state # "paused" THEN Sends(e, StateEvent(e)) ELSE Sends(c, StateEvent(c))
    BY <1>1, <1>4 DEF Unpaused
  <1>14. QED
    BY <1>2, <1>6, <1>11, <1>12, <1>13

LEMMA SetPlaybackKeeps ==
  ASSUME NEW e, NEW T, NEW k, EarKeeps(e, T, k), NEW active \in BOOLEAN
  PROVE  EarKeeps(SetPlayback(e, active), T, k) /\ SetPlayback(e, active).said = e.said
  <1>0. IsEar(e) /\ EarTyped(e) /\ EarHolds(e, T, k) /\ EarDecodes(e) /\ EarRests(e) /\ EarCovers(e, T)
    BY DEF EarKeeps, EarSound
  <1>1. PICK y : y = IF active = e.playback THEN e.onset ELSE 0
    OBVIOUS
  <1>2. PICK d : d = [e EXCEPT !.playback = active, !.onset = y]
    OBVIOUS
  <1>3. d = SetPlayback(e, active)
    BY <1>1, <1>2 DEF SetPlayback
  <1>4. IsEar(d)
    BY <1>0, <1>3, SetPlaybackSame, SameEar
  <1>5. d.playback = active /\ d.onset = y /\ d.said = e.said
    BY <1>0, <1>2 DEF IsEar, EarFields
  <1>6. /\ d.backend = e.backend /\ d.state = e.state /\ d.from = e.from
        /\ d.preroll = e.preroll /\ d.dictation = e.dictation
        /\ d.command = e.command /\ d.audio = e.audio /\ d.finalPending = e.finalPending
        /\ d.job = e.job /\ d.running = e.running /\ d.heard = e.heard
    BY <1>0, <1>2 DEF IsEar, EarFields
  <1>7. y \in Nat
    BY <1>0, <1>1 DEF EarTyped
  <1>8. EarTyped(d)
    BY <1>0, <1>5, <1>6, <1>7 DEF EarTyped
  <1>9. EarHolds(d, T, k)
    BY <1>0, <1>6 DEF EarHolds
  <1>10. EarDecodes(d) /\ EarRests(d) /\ EarCovers(d, T)
    BY <1>0, <1>6 DEF EarDecodes, EarRests, EarCovers
  <1>11. QED
    BY <1>3, <1>4, <1>5, <1>8, <1>9, <1>10 DEF EarKeeps, EarSound

-----------------------------------------------------------------------------
\* What a decode that is asked for changes.
IsScheduled(e, d, final) ==
  /\ IsEar(d) /\ Same(e, d, {"job", "running"})
  /\ d.job.audio = e.audio /\ d.job.final = final /\ d.job.canceled = FALSE
  /\ d.running.final = e.running.final /\ d.running.canceled \in BOOLEAN
  /\ d.running.real = e.running.real
  /\ (~final => d.running = e.running) /\ (final => ~Live(d.running))

LEMMA ScheduledIs ==
  ASSUME NEW e, IsEar(e), EarTyped(e), NEW final \in BOOLEAN, NEW limit, NEW d, d = Scheduled(e, final, limit)
  PROVE  IsScheduled(e, d, final)
  <1>1. IsEar(d)
    BY ScheduledSame, SameEar
  <1>2. PICK j : j = [audio |-> e.audio, final |-> final, limit |-> limit, canceled |-> FALSE, real |-> TRUE]
    OBVIOUS
  <1>3. PICK c \in BOOLEAN : c = (e.running.canceled \/ (final /\ e.running.real))
    OBVIOUS
  <1>4. PICK r : r = [e.running EXCEPT !.canceled = c]
    OBVIOUS
  <1>5. r.canceled = c /\ r.final = e.running.final /\ r.real = e.running.real
    BY <1>4 DEF IsEar, IsJob, JobFields
  <1>6. d = [e EXCEPT !.job = j, !.running = r]
    <2>1. [e EXCEPT !.job = j].running = e.running
      BY DEF IsEar, EarFields
    <2>2. Scheduled(e, final, limit) =
            [e EXCEPT !.job = j, !.running.canceled = @ \/ (final /\ e.running.real)]
      BY <1>2 DEF Scheduled
    <2>3. [e EXCEPT !.job = j, !.running.canceled = @ \/ (final /\ e.running.real)]
            = [e EXCEPT !.job = j, !.running = r]
      BY <1>3, <1>4, <2>1 DEF IsEar, EarFields
    <2>4. QED
      BY <2>2, <2>3
  <1>7. d.job = j /\ d.running = r
    BY <1>6 DEF IsEar, EarFields
  <1>8. \A x \in EarFields \ {"job", "running"} : d[x] = e[x]
    BY <1>6 DEF IsEar
  <1>9. j.audio = e.audio /\ j.final = final /\ j.canceled = FALSE
    BY <1>2
  <1>10. ~final => r = e.running
    <2>1. SUFFICES ASSUME ~final PROVE r = e.running
      OBVIOUS
    <2>2. e.running.canceled \in BOOLEAN
      BY DEF EarTyped
    <2>3. c = e.running.canceled
      BY <1>3, <2>1, <2>2
    <2>4. QED
      BY <1>4, <2>3 DEF IsEar, IsJob, JobFields
  <1>11. final => ~Live(r)
    BY <1>3, <1>5 DEF Live, Final
  <1>12. QED
    BY <1>1, <1>3, <1>5, <1>7, <1>8, <1>9, <1>10, <1>11 DEF Same, IsScheduled

\* What recognition takes of the frames it is given, and what it cuts.
DecodedFields == {"audio", "heard", "job", "length", "partial", "draftAt", "out"}
LEMMA DecodeIs ==
  ASSUME NEW e, IsEar(e), EarTyped(e), e.audio \in AFrames, NEW pcm \in AFrames,
         e.backend = "whisper" => Len(e.audio) <= LongestFrames, NEW d, d = Decode(e, pcm)
  PROVE  \E m \in 0..Len(pcm) :
           /\ IsEar(d) /\ Same(e, d, DecodedFields)
           /\ d.audio = e.audio \o SubSeq(pcm, 1, m)
           /\ d.heard = e.heard \ {pcm[i].n : i \in (m + 1)..Len(pcm)}
           /\ d.job = e.job \/ (d.job.final = FALSE /\ d.job.canceled = FALSE)
           /\ (e.backend = "vosk" => d.job = e.job)
           /\ (e.backend = "whisper" => Len(d.audio) <= LongestFrames)
  <1>0. /\ Len(pcm) \in Nat /\ DOMAIN pcm = 1..Len(pcm) /\ pcm \in Seq(AFrame)
        /\ Len(e.audio) \in Nat /\ e.audio \in Seq(AFrame)
    BY FramesAre
  <1>1. IsEar(d)
    BY DecodeSame, SameEar
  <1>2. CASE e.backend = "vosk"
    <2>1. PICK a : a = e.audio \o pcm
      OBVIOUS
    <2>2. PICK w : w = Worded(a)
      OBVIOUS
    <2>3. PICK c : c = [e EXCEPT !.audio = a, !.partial = w]
      OBVIOUS
    <2>4. d = IF c.partial = e.partial THEN c ELSE Sends(c, Event("partial", c.partial))
      BY <1>2, <2>1, <2>2, <2>3 DEF Decode
    <2>5. c.audio = a
      BY <2>3 DEF IsEar, EarFields
    <2>6. \A x \in EarFields \ {"audio", "partial"} : c[x] = e[x]
      BY <2>3 DEF IsEar
    <2>7. IsEar(c)
      <3>1. PICK b : b = [e EXCEPT !.audio = a]
        OBVIOUS
      <3>2. IsEar(b)
        BY <3>1, SameField, SameEar
      <3>3. c = [b EXCEPT !.partial = w]
        BY <2>3, <3>1
      <3>4. QED
        BY <3>2, <3>3, SameField, SameEar
    <2>8. \A x \in EarFields \ {"audio", "partial", "out"} : d[x] = c[x]
      <3>1. PICK ev : ev = Event("partial", c.partial)
        OBVIOUS
      <3>2. ev.type = "partial"
        BY <3>1, EventsAre
      <3>3. Sends(c, ev) = [c EXCEPT !.out = Append(c.out, ev), !.said = c.said]
        BY <3>2 DEF Sends
      <3>4. PICK o : o = Append(c.out, ev)
        OBVIOUS
      <3>5. PICK b : b = [c EXCEPT !.out = o, !.said = c.said]
        OBVIOUS
      <3>6. \A x \in EarFields \ {"out"} : b[x] = c[x]
        BY <2>7, <3>5 DEF IsEar
      <3>7. d = c \/ d = b
        BY <2>4, <3>1, <3>3, <3>4, <3>5
      <3>8. QED
        BY <3>6, <3>7
    <2>9. d.audio = c.audio
      <3>1. PICK ev : ev = Event("partial", c.partial)
        OBVIOUS
      <3>2. Same(c, Sends(c, ev), PlainFields)
        BY <2>7, SendsIs
      <3>3. Sends(c, ev).audio = c.audio
        BY <3>2 DEF Same, PlainFields, EarFields
      <3>4. QED
        BY <2>4, <3>1, <3>3
    <2>10. Same(e, d, DecodedFields)
      BY <2>6, <2>8 DEF Same, DecodedFields
    <2>11. d.heard = e.heard /\ d.job = e.job
      BY <2>6, <2>8 DEF EarFields
    <2>12. SubSeq(pcm, 1, Len(pcm)) = pcm /\ (Len(pcm) + 1)..Len(pcm) = {} /\ Len(pcm) \in 0..Len(pcm)
      BY <1>0
    <2>13. d.heard = e.heard \ {pcm[i].n : i \in (Len(pcm) + 1)..Len(pcm)}
      BY <2>11, <2>12
    <2>14. d.audio = e.audio \o SubSeq(pcm, 1, Len(pcm))
      BY <2>1, <2>5, <2>9, <2>12
    <2>15. QED
      BY <1>1, <1>2, <2>10, <2>11, <2>12, <2>13, <2>14
  <1>3. CASE e.backend # "vosk"
    <2>0. e.backend = "whisper"
      BY <1>3 DEF EarTyped, Backends
    <2>1. PICK room : room = LongestFrames - Len(e.audio)
      OBVIOUS
    <2>2. room \in Nat
      BY <1>0, <2>0, <2>1, ListeningAssumption
    <2>3. PICK m : m = IF room < Len(pcm) THEN room ELSE Len(pcm)
      OBVIOUS
    <2>4. m \in 0..Len(pcm) /\ m <= room
      <3>1. PICK size \in Nat : size = Len(pcm)
        BY <1>0
      <3>2. m = IF room < size THEN room ELSE size
        BY <2>3, <3>1
      <3>3. m \in 0..size /\ m <= room
        BY <2>2, <3>2
      <3>4. QED
        BY <3>1, <3>3
    <2>5. PICK kept : kept = SubSeq(pcm, 1, m)
      OBVIOUS
    <2>6. Len(kept) = m /\ kept \in Seq(AFrame)
      BY <1>0, <2>4, <2>5
    <2>7. PICK cut : cut = SubSeq(pcm, m + 1, Len(pcm))
      OBVIOUS
    <2>8. {cut[i].n : i \in DOMAIN cut} = {pcm[i].n : i \in (m + 1)..Len(pcm)}
      <3>1. Len(cut) = Len(pcm) - m /\ DOMAIN cut = 1..Len(cut) /\ \A i \in 1..Len(cut) : cut[i] = pcm[m + i]
        <4>1. m + 1 \in Nat /\ m + 1 >= 1 /\ Len(pcm) \in Nat
          BY <1>0, <2>4
        <4>2. /\ Len(cut) = (IF m + 1 <= Len(pcm) THEN Len(pcm) - (m + 1) + 1 ELSE 0) /\ DOMAIN cut = 1..Len(cut)
              /\ \A i \in 1..Len(cut) : cut[i] = pcm[(m + 1) + i - 1]
          BY <1>0, <2>7, <4>1
        <4>3. Len(cut) = Len(pcm) - m
          <5>1. PICK size \in Nat : size = Len(pcm)
            BY <1>0
          <5>2. m \in 0..size /\ Len(cut) = IF m + 1 <= size THEN size - (m + 1) + 1 ELSE 0
            BY <2>4, <4>2, <5>1
          <5>3. Len(cut) = size - m
            BY <5>2
          <5>4. QED
            BY <5>1, <5>3
        <4>4. \A i \in 1..Len(cut) : (m + 1) + i - 1 = m + i
          BY <2>4
        <4>5. QED
          BY <4>2, <4>3, <4>4
      <3>2. \A i \in 1..Len(cut) : m + i \in (m + 1)..Len(pcm)
        BY <1>0, <2>4, <3>1
      <3>3. \A i \in (m + 1)..Len(pcm) : i - m \in 1..Len(cut) /\ m + (i - m) = i
        BY <1>0, <2>4, <3>1
      <3>4. \A i \in DOMAIN cut : \E j \in (m + 1)..Len(pcm) : cut[i].n = pcm[j].n
        BY <3>1, <3>2
      <3>5. \A j \in (m + 1)..Len(pcm) : \E i \in DOMAIN cut : cut[i].n = pcm[j].n
        <4>1. TAKE j \in (m + 1)..Len(pcm)
        <4>2. j - m \in DOMAIN cut /\ cut[j - m] = pcm[j]
          BY <3>1, <3>3
        <4>3. QED
          BY <4>2
      <3>6. QED
        BY <3>4, <3>5
    <2>9. PICK h : h = e.heard \ {pcm[i].n : i \in (m + 1)..Len(pcm)}
      OBVIOUS
    <2>10. PICK a : a = e.audio \o kept
      OBVIOUS
    <2>11. Len(a) = Len(e.audio) + m
      <3>1. PICK held \in Seq(AFrame) : held = e.audio
        BY <1>0
      <3>2. Len(held \o kept) = Len(held) + Len(kept)
        BY <2>6
      <3>3. QED
        BY <2>6, <2>10, <3>1, <3>2
    <2>12. PICK b : b = [e EXCEPT !.audio = a, !.length = Len(a), !.heard = h]
      OBVIOUS
    <2>13. PICK c : c = [b EXCEPT !.draftAt = Len(b.audio)]
      OBVIOUS
    <2>14. d = IF Len(b.audio) - b.draftAt >= DraftFrames THEN Scheduled(c, FALSE, FALSE) ELSE b
      <3> DEFINE r == LongestFrames - Len(e.audio)
                 q == SubSeq(pcm, 1, IF r < Len(pcm) THEN r ELSE Len(pcm))
                 z == SubSeq(pcm, Len(q) + 1, Len(pcm))
                 y == [e EXCEPT !.audio = @ \o q, !.length = Len(e.audio \o q),
                                !.heard = @ \ {z[i].n : i \in DOMAIN z}]
      <3>1. Decode(e, pcm) = IF Len(y.audio) - y.draftAt >= DraftFrames
                             THEN Scheduled([y EXCEPT !.draftAt = Len(y.audio)], FALSE, FALSE) ELSE y
        BY <1>3 DEF Decode
      <3>2. q = kept
        BY <2>1, <2>3, <2>5
      <3>3. z = cut
        BY <2>6, <2>7, <3>2
      <3> HIDE DEF q, z
      <3>4. y = b
        BY <2>8, <2>9, <2>10, <2>12, <3>2, <3>3
      <3> HIDE DEF y
      <3>5. QED
        BY <2>13, <3>1, <3>4
    <2>15. b.audio = a /\ b.heard = h
      BY <2>12 DEF IsEar, EarFields
    <2>16. \A x \in EarFields \ {"audio", "length", "heard"} : b[x] = e[x]
      BY <2>12 DEF IsEar
    <2>17. IsEar(b)
      <3>1. PICK y : y = [e EXCEPT !.audio = a]
        OBVIOUS
      <3>2. IsEar(y)
        BY <3>1, SameField, SameEar
      <3>3. PICK n : n = Len(a)
        OBVIOUS
      <3>4. PICK z : z = [y EXCEPT !.length = n]
        OBVIOUS
      <3>5. IsEar(z)
        BY <3>2, <3>4, SameField, SameEar
      <3>6. b = [z EXCEPT !.heard = h]
        BY <2>12, <3>1, <3>3, <3>4
      <3>7. QED
        BY <3>5, <3>6, SameField, SameEar
    <2>18. IsEar(c)
      BY <2>13, <2>17, SameField, SameEar
    <2>19. \A x \in EarFields \ {"draftAt"} : c[x] = b[x]
      BY <2>13, <2>17 DEF IsEar
    <2>20. EarTyped(c)
      <3>1. /\ c.backend = e.backend /\ c.from = e.from /\ c.playback = e.playback /\ c.dictation = e.dictation
            /\ c.finalPending = e.finalPending /\ c.job = e.job /\ c.running = e.running /\ c.onset = e.onset
            /\ c.heard = h
        BY <2>15, <2>16, <2>19 DEF EarFields
      <3>2. h \subseteq e.heard
        BY <2>9
      <3>3. QED
        BY <3>1, <3>2 DEF EarTyped
    <2>21. PICK s : s = Scheduled(c, FALSE, FALSE)
      OBVIOUS
    <2>22. /\ IsEar(s) /\ Same(c, s, {"job", "running"}) /\ s.job.final = FALSE /\ s.job.canceled = FALSE
           /\ s.running = c.running
      <3>1. PICK off \in BOOLEAN : off = FALSE
        OBVIOUS
      <3>0. PICK short : short = FALSE
        OBVIOUS
      <3>2. s = Scheduled(c, off, short)
        BY <2>21, <3>0, <3>1, Zenon
      <3>3. IsScheduled(c, s, off)
        BY <2>18, <2>20, <3>2, ScheduledIs
      <3>4. QED
        BY <3>1, <3>3 DEF IsScheduled
    <2>23. \A x \in EarFields \ {"job"} : s[x] = c[x]
      BY <2>22 DEF Same
    <2>24. d = s \/ d = b
      BY <2>14, <2>21
    <2>25. Same(e, d, DecodedFields)
      BY <2>16, <2>19, <2>23, <2>24 DEF Same, DecodedFields
    <2>26. d.audio = a /\ d.heard = h
      BY <2>15, <2>19, <2>23, <2>24 DEF EarFields
    <2>27. d.job = e.job \/ (d.job.final = FALSE /\ d.job.canceled = FALSE)
      <3>1. CASE d = s
        BY <2>22, <3>1
      <3>2. CASE d = b
        BY <2>16, <3>2 DEF EarFields
      <3>3. QED
        BY <2>24, <3>1, <3>2
    <2>28. Len(d.audio) <= LongestFrames
      BY SMTT(30), <1>0, <2>1, <2>4, <2>11, <2>26, ListeningAssumption
    <2>29. QED
      BY <1>1, <1>3, <2>4, <2>5, <2>9, <2>10, <2>25, <2>26, <2>27, <2>28
  <1>4. QED
    BY <1>2, <1>3

-----------------------------------------------------------------------------
\* A listener in the middle of an utterance.
Dictates(e, T, k) ==
  /\ IsEar(e) /\ EarTyped(e) /\ e.dictation /\ e.state = "listening" /\ e.preroll = <<>>
  /\ ~Final(e.job) /\ ~Live(e.running)
  /\ e.backend = "vosk" => ~e.finalPending /\ ~e.job.real /\ ~e.running.real
  /\ Rising(e.audio, k) /\ (e.backend = "whisper" => Len(e.audio) <= LongestFrames)
  /\ Told(T, k) /\ Later(T, e.audio)

\* What was clearly spoken is held, or was sent, or is about to be decoded.
EarWillCover(e, T, pcm) ==
  OneFrameStarts => \A n \in e.heard : Loud(e.audio, n) \/ WasSent(T, n) \/ Loud(pcm, n)

LEMMA DictatesSound ==
  ASSUME NEW e, NEW T, NEW k, Dictates(e, T, k), e.command = <<>>
  PROVE  EarSound(e, T, k)
  <1>1. Rising(<<>>, k) /\ Later(T, <<>>) /\ Before(e.audio, <<>>) /\ Len(<<>>) = 0
    BY RisingNone DEF Later, Before
  <1>2. KeepFrames >= 0
    BY ListeningAssumption
  <1>3. EarHolds(e, T, k)
    BY <1>1, <1>2 DEF Dictates, EarHolds
  <1>4. EarDecodes(e)
    BY DEF Dictates, EarDecodes
  <1>5. EarRests(e)
    BY DEF Dictates, EarRests
  <1>6. QED
    BY <1>3, <1>4, <1>5 DEF Dictates, EarSound

LEMMA SoundDictates ==
  ASSUME NEW e, NEW T, NEW k, EarSound(e, T, k), e.dictation, e.state = "listening"
  PROVE  Dictates(e, T, k) /\ e.command = <<>>
  BY DEF Dictates, EarSound, EarHolds, EarDecodes, EarRests

LEMMA ToldMore ==
  ASSUME NEW T, NEW k \in Nat, NEW m \in Nat, k <= m, Told(T, k)
  PROVE  Told(T, m)
  <1>1. \A i \in DOMAIN T : \A a \in T[i] : a.n \in Nat
    <2>1. T \in Seq(SUBSET AFrame)
      BY DEF Told, Tales
    <2>2. \A i \in DOMAIN T : T[i] \in SUBSET AFrame
      BY <2>1
    <2>3. \A a \in AFrame : a.n \in Nat
      BY DEF AFrame
    <2>4. QED
      BY <2>2, <2>3
  <1>2. QED
    BY <1>1 DEF Told

\* A frame after all that was told is spoken later.
LEMMA FrameIsLater ==
  ASSUME NEW T, NEW k \in Nat, Told(T, k), NEW s, Later(T, s), NEW f \in AFrame, k < f.n,
         NEW a, Rising(a, k), Before(a, s), s \in AFrames
  PROVE  Later(T, Append(s, f)) /\ Before(a, Append(s, f))
  <1>1. f.n \in Nat /\ Len(s) \in Nat /\ DOMAIN s = 1..Len(s) /\ s \in Seq(AFrame)
    BY FramesAre DEF AFrame
  <1>2. PICK t : t = Append(s, f)
    OBVIOUS
  <1>3. \A j \in DOMAIN t : (j \in DOMAIN s /\ t[j] = s[j]) \/ t[j] = f
    <2>1. DOMAIN t = 1..(Len(s) + 1) /\ \A i \in 1..Len(s) : t[i] = s[i]
      BY <1>1, <1>2
    <2>2. t[Len(s) + 1] = f
      BY <1>1, <1>2
    <2>3. \A j \in 1..(Len(s) + 1) : j \in 1..Len(s) \/ j = Len(s) + 1
      BY <1>1
    <2>4. QED
      BY <1>1, <2>1, <2>2, <2>3
  <1>4. \A i \in DOMAIN T : \A w \in T[i] : w.n < f.n
    <2>1. \A i \in DOMAIN T : \A w \in T[i] : w.n \in Nat /\ w.n <= k
      <3>1. T \in Seq(SUBSET AFrame) /\ \A i \in DOMAIN T : \A w \in T[i] : w.n <= k
        BY DEF Told, Tales
      <3>2. \A i \in DOMAIN T : T[i] \in SUBSET AFrame
        BY <3>1
      <3>3. \A w \in AFrame : w.n \in Nat
        BY DEF AFrame
      <3>4. QED
        BY <3>1, <3>2, <3>3
    <2>2. QED
      BY <1>1, <2>1
  <1>5. \A i \in DOMAIN a : a[i].n < f.n
    <2>1. a \in AFrames /\ \A i \in DOMAIN a : a[i].n <= k
      BY DEF Rising
    <2>2. \A i \in DOMAIN a : a[i].n \in Nat
      BY <2>1, FramesAre
    <2>3. QED
      BY <1>1, <2>1, <2>2
  <1>6. Later(T, t)
    BY <1>3, <1>4 DEF Later
  <1>7. Before(a, t)
    BY <1>3, <1>5 DEF Before
  <1>8. QED
    BY <1>2, <1>6, <1>7

LEMMA DecodeDictates ==
  ASSUME NEW e, NEW T, NEW k \in Nat, NEW m \in Nat, k <= m, Dictates(e, T, k),
         NEW pcm, Rising(pcm, m), Before(e.audio, pcm), Later(T, pcm), EarWillCover(e, T, pcm),
         NEW d, d = Decode(e, pcm)
  PROVE  Dictates(d, T, m) /\ EarCovers(d, T) /\ d.said = e.said /\ d.command = e.command
  <1>0. pcm \in AFrames /\ e.audio \in AFrames /\ IsEar(e) /\ EarTyped(e)
    BY DEF Rising, Dictates
  <1>1. e.backend = "whisper" => Len(e.audio) <= LongestFrames
    BY DEF Dictates
  <1>2. PICK i \in 0..Len(pcm) :
          /\ IsEar(d) /\ Same(e, d, DecodedFields)
          /\ d.audio = e.audio \o SubSeq(pcm, 1, i)
          /\ d.heard = e.heard \ {pcm[j].n : j \in (i + 1)..Len(pcm)}
          /\ d.job = e.job \/ (d.job.final = FALSE /\ d.job.canceled = FALSE)
          /\ (e.backend = "vosk" => d.job = e.job)
          /\ (e.backend = "whisper" => Len(d.audio) <= LongestFrames)
    BY <1>0, <1>1, DecodeIs
  <1>3. PICK part : part = SubSeq(pcm, 1, i)
    OBVIOUS
  <1>4. Len(pcm) \in Nat /\ DOMAIN pcm = 1..Len(pcm) /\ i \in Nat /\ i <= Len(pcm)
    BY <1>0, FramesAre
  <1>5. /\ Rising(part, m) /\ TakenFrom(part, pcm) /\ Len(part) = (IF 1 <= i THEN i - 1 + 1 ELSE 0)
        /\ \A j \in DOMAIN part : 1 + j - 1 \in DOMAIN pcm /\ part[j] = pcm[1 + j - 1]
    <2>1. 1 \in Nat /\ 1 <= 1
      OBVIOUS
    <2>2. QED
      BY <1>3, <1>4, <2>1, RisingPart
  <1>6. Before(e.audio, part) /\ Later(T, part)
    BY <1>5, TakenKeeps
  <1>7. Rising(e.audio, m)
    BY RisingMore DEF Dictates
  <1>8. /\ Rising(d.audio, m)
        /\ \A j \in DOMAIN d.audio :
             (\E l \in DOMAIN e.audio : d.audio[j] = e.audio[l]) \/ (\E l \in DOMAIN part : d.audio[j] = part[l])
        /\ TakenFrom(e.audio, d.audio) /\ TakenFrom(part, d.audio)
    <2>1. d.audio = e.audio \o part
      BY <1>2, <1>3
    <2>2. Joins(d.audio, e.audio, part, m)
      BY <1>5, <1>6, <1>7, <2>1, RisingJoin
    <2>3. QED
      BY <2>2 DEF Joins
  <1>9. Later(T, d.audio)
    BY <1>6, <1>8 DEF Later, Dictates
  <1>10. /\ d.backend = e.backend /\ d.state = e.state /\ d.from = e.from /\ d.playback = e.playback
         /\ d.preroll = e.preroll /\ d.dictation = e.dictation /\ d.onset = e.onset
         /\ d.command = e.command /\ d.finalPending = e.finalPending
         /\ d.running = e.running /\ d.said = e.said
    BY <1>2 DEF Same, DecodedFields, EarFields
  <1>11. d.job.final \in BOOLEAN /\ d.job.canceled \in BOOLEAN /\ ~Final(d.job)
    <2>1. CASE d.job = e.job
      BY <2>1 DEF Dictates, EarTyped
    <2>2. CASE d.job.final = FALSE /\ d.job.canceled = FALSE
      <3>1. d.job.final \in BOOLEAN /\ d.job.canceled \in BOOLEAN
        BY <2>2, Zenon
      <3>2. ~Final(d.job)
        BY <2>2 DEF Final
      <3>3. QED
        BY <3>1, <3>2, Zenon
    <2>3. QED
      BY <1>2, <2>1, <2>2
  <1>12. d.heard \subseteq e.heard
    BY <1>2
  <1>13. EarTyped(d)
    BY <1>0, <1>10, <1>11, <1>12 DEF EarTyped
  <1>14. Told(T, m)
    BY ToldMore DEF Dictates
  <1>15. Dictates(d, T, m)
    BY <1>2, <1>8, <1>9, <1>10, <1>11, <1>13, <1>14 DEF Dictates
  <1>16. ASSUME OneFrameStarts, NEW n \in d.heard PROVE Loud(d.audio, n) \/ WasSent(T, n)
    <2>1. n \in e.heard /\ n \notin {pcm[j].n : j \in (i + 1)..Len(pcm)}
      BY <1>2, <1>16
    <2>2. CASE Loud(e.audio, n)
      <3>1. Loud(d.audio, n)
        BY <1>8, <2>2 DEF Loud, TakenFrom
      <3>2. QED
        BY <3>1
    <2>3. CASE Loud(pcm, n)
      <3>1. PICK j \in DOMAIN pcm : pcm[j].n = n /\ pcm[j].kind = "loud"
        BY <2>3 DEF Loud
      <3>2. j \in Nat /\ 1 <= j /\ j <= i
        <4>1. j \in 1..Len(pcm)
          BY <1>4, <3>1
        <4>2. j \notin (i + 1)..Len(pcm)
          BY <2>1, <3>1
        <4>3. QED
          BY <1>4, <4>1, <4>2
      <3>3. Len(part) = i
        BY <1>4, <1>5, <3>2
      <3>4. j \in DOMAIN part
        <4>1. part \in AFrames
          BY <1>5 DEF Rising
        <4>2. DOMAIN part = 1..i
          BY <3>3, <4>1, FramesAre
        <4>3. QED
          BY <3>2, <4>2
      <3>5. part[j] = pcm[j]
        <4>1. 1 + j - 1 = j
          BY <3>2
        <4>2. QED
          BY <1>5, <3>4, <4>1
      <3>6. Loud(part, n)
        BY <3>1, <3>4, <3>5 DEF Loud
      <3>7. Loud(d.audio, n)
        BY <1>8, <3>6 DEF Loud, TakenFrom
      <3>8. QED
        BY <3>7
    <2>4. QED
      BY <1>16, <2>1, <2>2, <2>3 DEF EarWillCover
  <1>17. EarCovers(d, T)
    BY <1>16 DEF EarCovers
  <1>18. QED
    BY <1>10, <1>15, <1>17

LEMMA KeepsMore ==
  ASSUME NEW e, NEW T, NEW k \in Nat, NEW m \in Nat, k <= m, EarSound(e, T, k)
  PROVE  EarSound(e, T, m)
  <1>1. EarHolds(e, T, m)
    <2>1. Rising(e.audio, m) /\ Rising(e.command, m) /\ Rising(e.preroll, m) /\ Told(T, m)
      BY RisingMore, ToldMore DEF EarSound, EarHolds
    <2>2. QED
      BY <2>1 DEF EarSound, EarHolds
  <1>2. QED
    BY <1>1 DEF EarSound

-----------------------------------------------------------------------------
\* Where speech begins.
OnsetCount(e, f) == IF Sounds(e, f) THEN e.onset + 1 ELSE 0

Nearby(e, f) ==
  [e EXCEPT !.command = LastOf(Append(@, f), KeepFrames), !.onset = IF Sounds(e, f) THEN @ + 1 ELSE 0]

IsNear(e, T, k, f, near) ==
  /\ EarSound(near, T, f.n) /\ Same(e, near, {"command", "onset"})
  /\ Rising(near.audio, k) /\ Told(T, k)
  /\ near.onset = OnsetCount(e, f)
  /\ (KeepFrames > 0 => \E i \in DOMAIN near.command : near.command[i] = f)

LEMMA NearIs ==
  ASSUME NEW e, NEW T, NEW k \in Nat, EarSound(e, T, k), ~e.dictation, e.state = "listening",
         NEW f \in AFrame, k < f.n, NEW near, near = Nearby(e, f)
  PROVE  IsNear(e, T, k, f, near)
  <1>0. /\ IsEar(e) /\ EarTyped(e) /\ EarHolds(e, T, k) /\ EarDecodes(e) /\ EarRests(e)
        /\ f.n \in Nat /\ KeepFrames \in Nat /\ e.onset \in Nat
    BY ListeningAssumption DEF EarSound, EarTyped, AFrame
  <1>1. PICK s : s = Append(e.command, f)
    OBVIOUS
  <1>2. e.command \in AFrames /\ e.audio \in AFrames /\ Len(e.command) \in Nat
    <2>1. e.command \in AFrames /\ e.audio \in AFrames
      BY <1>0 DEF EarHolds, Rising
    <2>2. QED
      BY <2>1, FramesAre
  <1>3. Rising(s, f.n)
    BY <1>0, <1>1, RisingAppend DEF EarHolds
  <1>4. Later(T, s) /\ Before(e.audio, s)
    BY <1>0, <1>1, <1>2, FrameIsLater DEF EarHolds
  <1>5. PICK c : c = LastOf(s, KeepFrames)
    OBVIOUS
  <1>6. /\ Rising(c, f.n) /\ TakenFrom(c, s) /\ Len(c) <= KeepFrames
        /\ (KeepFrames > 0 /\ Len(s) > 0 => \E i \in DOMAIN c : c[i] = s[Len(s)])
    BY <1>0, <1>3, <1>5, RisingLast
  <1>7. Later(T, c) /\ Before(e.audio, c)
    BY <1>4, <1>6, TakenKeeps
  <1>8. s[Len(s)] = f /\ Len(s) > 0
    <2>1. e.command \in Seq(AFrame)
      BY <1>2, FramesAre
    <2>2. QED
      BY <1>1, <2>1
  <1>9. PICK o : o = OnsetCount(e, f)
    OBVIOUS
  <1>10. o \in Nat
    BY <1>0, <1>9 DEF OnsetCount
  <1>11. near = [e EXCEPT !.command = c, !.onset = o]
    BY <1>1, <1>5, <1>9 DEF OnsetCount, Nearby
  <1>12. near.command = c /\ near.onset = o
    BY <1>0, <1>11 DEF IsEar, EarFields
  <1>13. \A x \in EarFields \ {"command", "onset"} : near[x] = e[x]
    BY <1>0, <1>11 DEF IsEar
  <1>14. IsEar(near)
    <2>1. PICK b : b = [e EXCEPT !.command = c]
      OBVIOUS
    <2>2. IsEar(b)
      BY <1>0, <2>1, SameField, SameEar
    <2>3. near = [b EXCEPT !.onset = o]
      BY <1>11, <2>1
    <2>4. QED
      BY <2>2, <2>3, SameField, SameEar
  <1>15. /\ near.backend = e.backend /\ near.state = e.state /\ near.from = e.from
         /\ near.playback = e.playback /\ near.preroll = e.preroll /\ near.dictation = e.dictation
         /\ near.audio = e.audio /\ near.finalPending = e.finalPending
         /\ near.job = e.job /\ near.running = e.running /\ near.heard = e.heard
    BY <1>13 DEF EarFields
  <1>16. EarTyped(near)
    BY <1>0, <1>10, <1>12, <1>15 DEF EarTyped
  <1>17. EarHolds(near, T, f.n)
    <2>1. Rising(e.audio, f.n) /\ Rising(e.preroll, f.n) /\ Told(T, f.n)
      BY <1>0, RisingMore, ToldMore DEF EarHolds
    <2>2. QED
      BY <1>0, <1>6, <1>7, <1>12, <1>15, <2>1 DEF EarHolds
  <1>18. EarDecodes(near)
    BY <1>0, <1>15 DEF EarDecodes
  <1>19. EarRests(near)
    BY <1>0, <1>15 DEF EarRests
  <1>20. Rising(near.audio, k) /\ Told(T, k)
    BY <1>0, <1>15 DEF EarHolds
  <1>21. QED
    BY <1>6, <1>8, <1>9, <1>12, <1>13, <1>14, <1>16, <1>17, <1>18, <1>19, <1>20 DEF Same, EarSound, IsNear

\* The frame that is new, if it was clear, is what is not covered yet.
NewlyHeard(e, T, f) ==
  OneFrameStarts => \A n \in e.heard : Loud(e.audio, n) \/ WasSent(T, n) \/ (n = f.n /\ f.kind = "loud")

LEMMA OnsetKeeps ==
  ASSUME NEW e, NEW T, NEW k \in Nat, EarSound(e, T, k), ~e.dictation, e.state = "listening",
         NEW f \in AFrame, k < f.n, NewlyHeard(e, T, f), NEW d, d = Onset(e, f)
  PROVE  EarKeeps(d, T, f.n) /\ d.said = e.said
  <1> DEFINE near == Nearby(e, f)
             over == Invalidate(near, Extends(near))
             begun == [over EXCEPT !.dictation = TRUE, !.length = Len(near.command)]
             said == Sends(begun, Event("speech_start", {}))
             spoken == Decode(said, near.command)
  <1>1. d = IF near.onset < StartFrames THEN near ELSE [spoken EXCEPT !.command = <<>>]
    BY DEF Onset, Nearby
  <1>2. /\ EarSound(near, T, f.n) /\ Same(e, near, {"command", "onset"})
        /\ Rising(near.audio, k) /\ Told(T, k)
        /\ near.onset = OnsetCount(e, f)
        /\ (KeepFrames > 0 => \E i \in DOMAIN near.command : near.command[i] = f)
    <2>1. IsNear(e, T, k, f, near)
      BY NearIs
    <2>2. QED
      BY <2>1 DEF IsNear
  <1> HIDE DEF near
  <1>3. /\ near.audio = e.audio /\ near.heard = e.heard /\ near.said = e.said /\ near.dictation = e.dictation
        /\ near.state = e.state /\ near.finalPending = e.finalPending
    BY <1>2 DEF Same, EarFields
  <1>4. f.n \in Nat /\ StartFrames \in Nat /\ KeepFrames \in Nat /\ e.onset \in Nat
    BY ListeningAssumption DEF EarSound, EarTyped, AFrame
  <1>5. CASE near.onset < StartFrames
    <2>1. d = near
      BY <1>1, <1>5
    <2>2. OneFrameStarts => f.kind # "loud"
      BY <1>2, <1>4, <1>5 DEF OneFrameStarts, OnsetCount, Sounds
    <2>3. EarCovers(near, T)
      BY <1>3, <2>2 DEF EarCovers, NewlyHeard
    <2>4. QED
      BY <1>2, <1>3, <2>1, <2>3 DEF EarKeeps
  <1>6. CASE ~(near.onset < StartFrames)
    <2>1. IsEar(near) /\ EarTyped(near) /\ EarDecodes(near) /\ EarRests(near) /\ EarHolds(near, T, f.n)
      BY <1>2 DEF EarSound
    <2>2. PICK keep \in BOOLEAN : keep = near.finalPending
      BY <2>1 DEF EarTyped
    <2>3. over = Invalidate(near, keep)
      BY <2>2 DEF Extends
    <2> HIDE DEF over
    <2>4. /\ IsEar(over) /\ Same(near, over, {"job", "running", "finalPending", "audio", "draftAt"})
          /\ (near.backend = "vosk" => over = near)
          /\ (near.backend # "vosk" =>
                /\ over.job = NoJob /\ ~Live(over.running) /\ ~over.finalPending /\ over.finalPending \in BOOLEAN
                /\ over.running.final = near.running.final /\ over.running.canceled \in BOOLEAN
                /\ over.audio = IF keep THEN near.audio ELSE <<>>)
      BY <2>1, <2>3, InvalidateIs
    <2>5. over.audio = near.audio
      <3>1. ~keep => near.audio = <<>>
        BY <1>3, <2>1, <2>2 DEF EarRests
      <3>2. QED
        BY <2>4, <3>1
    <2>6. /\ over.backend = near.backend /\ over.state = near.state /\ over.from = near.from
          /\ over.playback = near.playback /\ over.preroll = near.preroll /\ over.onset = near.onset
          /\ over.command = near.command /\ over.heard = near.heard /\ over.said = near.said
      BY <2>4 DEF Same, EarFields
    <2>7. /\ ~over.finalPending /\ over.finalPending \in BOOLEAN /\ ~Live(over.running) /\ ~Final(over.job)
          /\ over.job.final \in BOOLEAN /\ over.job.canceled \in BOOLEAN
          /\ over.running.final \in BOOLEAN /\ over.running.canceled \in BOOLEAN
          /\ (over.backend = "vosk" => ~over.job.real /\ ~over.running.real)
      <3>1. CASE near.backend = "vosk"
        BY <2>1, <2>4, <3>1 DEF EarTyped, EarDecodes, Live, Final
      <3>2. CASE near.backend # "vosk"
        <4>1. NoJob.real = FALSE /\ NoJob.final = FALSE /\ NoJob.canceled = FALSE
          BY DEF NoJob
        <4>2. near.running.final \in BOOLEAN
          BY <2>1 DEF EarTyped
        <4>3. QED
          BY <2>4, <2>6, <3>2, <4>1, <4>2 DEF Final
      <3>3. QED
        BY <3>1, <3>2
    <2>8. PICK n : n = Len(near.command)
      OBVIOUS
    <2>9. PICK on \in BOOLEAN : on = TRUE
      OBVIOUS
    <2>10. begun = [over EXCEPT !.dictation = on, !.length = n]
      BY <2>8, <2>9
    <2> HIDE DEF begun
    <2>11. IsEar(begun)
      <3>1. PICK b : b = [over EXCEPT !.dictation = on]
        OBVIOUS
      <3>2. IsEar(b)
        BY <2>4, <3>1, SameField, SameEar
      <3>3. begun = [b EXCEPT !.length = n]
        BY <2>10, <3>1
      <3>4. QED
        BY <3>2, <3>3, SameField, SameEar
    <2>12. begun.dictation = on
      BY <2>4, <2>10 DEF IsEar, EarFields
    <2>13. \A x \in EarFields \ {"dictation", "length"} : begun[x] = over[x]
      BY <2>4, <2>10 DEF IsEar
    <2>14. PICK event : event = Event("speech_start", {})
      OBVIOUS
    <2>15. event.type = "speech_start" /\ said = Sends(begun, event)
      BY <2>14, EventsAre
    <2> HIDE DEF said
    <2>16. IsEar(said) /\ Same(begun, said, PlainFields) /\ said.said = begun.said
      BY <2>11, <2>15, SendsIs DEF SaidBy
    <2>17. /\ said.backend = near.backend /\ said.state = near.state /\ said.from = near.from
           /\ said.playback = near.playback /\ said.preroll = near.preroll /\ said.onset = near.onset
           /\ said.command = near.command /\ said.heard = near.heard /\ said.said = near.said
           /\ said.audio = near.audio /\ said.dictation = on
           /\ said.finalPending = over.finalPending /\ said.job = over.job /\ said.running = over.running
      BY <2>5, <2>6, <2>12, <2>13, <2>16 DEF Same, PlainFields, EarFields
    <2>18. EarTyped(said)
      BY <2>1, <2>7, <2>17 DEF EarTyped
    <2>19. said.preroll = <<>>
      BY <1>3, <2>1, <2>17 DEF EarRests
    <2>20. Rising(said.audio, k) /\ Later(T, said.audio)
           /\ (said.backend = "whisper" => Len(said.audio) <= LongestFrames)
      BY <1>2, <2>1, <2>17 DEF EarHolds
    <2>21. said.dictation
      BY <2>9, <2>17
    <2>22. Dictates(said, T, k)
      BY <1>2, <1>3, <2>6, <2>7, <2>16, <2>17, <2>18, <2>19, <2>20, <2>21 DEF Dictates
    <2>23. EarWillCover(said, T, near.command)
      <3>1. ASSUME OneFrameStarts, NEW i \in said.heard
            PROVE  Loud(said.audio, i) \/ WasSent(T, i) \/ Loud(near.command, i)
        <4>1. Loud(e.audio, i) \/ WasSent(T, i) \/ (i = f.n /\ f.kind = "loud")
          BY <1>3, <2>17, <3>1 DEF NewlyHeard
        <4>2. \E j \in DOMAIN near.command : near.command[j] = f
          BY <1>2, <3>1 DEF OneFrameStarts
        <4>3. i = f.n /\ f.kind = "loud" => Loud(near.command, i)
          BY <4>2 DEF Loud
        <4>4. QED
          BY <1>3, <2>17, <4>1, <4>3
      <3>2. QED
        BY <3>1 DEF EarWillCover
    <2>24. Rising(near.command, f.n) /\ Before(said.audio, near.command) /\ Later(T, near.command)
      BY <2>1, <2>17 DEF EarHolds
    <2>25. spoken = Decode(said, near.command)
      OBVIOUS
    <2> HIDE DEF spoken
    <2>26. Dictates(spoken, T, f.n) /\ EarCovers(spoken, T) /\ spoken.said = said.said
      BY <1>4, <2>22, <2>23, <2>24, <2>25, DecodeDictates
    <2>27. d = [spoken EXCEPT !.command = <<>>]
      BY <1>1, <1>6
    <2>28. IsEar(spoken)
      BY <2>26 DEF Dictates
    <2>29. IsEar(d)
      BY <2>27, <2>28, SameField, SameEar
    <2>30. d.command = <<>>
      BY <2>27, <2>28 DEF IsEar, EarFields
    <2>31. /\ d.backend = spoken.backend /\ d.state = spoken.state /\ d.from = spoken.from
           /\ d.playback = spoken.playback /\ d.preroll = spoken.preroll /\ d.dictation = spoken.dictation
           /\ d.onset = spoken.onset /\ d.audio = spoken.audio /\ d.finalPending = spoken.finalPending
           /\ d.job = spoken.job /\ d.running = spoken.running /\ d.heard = spoken.heard /\ d.said = spoken.said
      BY <2>27, <2>28 DEF IsEar, EarFields
    <2>32. EarTyped(d)
      BY <2>26, <2>31 DEF Dictates, EarTyped
    <2>33. Dictates(d, T, f.n)
      BY <2>26, <2>29, <2>31, <2>32 DEF Dictates
    <2>34. EarCovers(d, T)
      BY <2>26, <2>31 DEF EarCovers
    <2>35. QED
      BY <1>3, <2>17, <2>26, <2>30, <2>31, <2>33, <2>34, DictatesSound DEF EarKeeps
  <1>7. QED
    BY <1>5, <1>6

-----------------------------------------------------------------------------
\* The tale goes on by a text, or stays as it was.
Tells(e, T, d, k) ==
  \/ d.said = e.said /\ EarKeeps(d, T, k)
  \/ \E text \in SUBSET AFrame : d.said = Append(e.said, text) /\ EarKeeps(d, Append(T, text), k)

LEMMA WordedIs ==
  ASSUME NEW s \in AFrames
  PROVE  /\ Worded(s) \in SUBSET AFrame
         /\ \A w \in Worded(s) : \E i \in DOMAIN s : w = s[i]
         /\ \A n : Loud(s, n) => \E w \in Worded(s) : w.n = n
  <1>1. Worded(s) = {f \in {s[i] : i \in DOMAIN s} : f.kind \in {"soft", "loud", "wake"}}
    BY DEF Worded, ToSet
  <1>2. \A i \in DOMAIN s : s[i] \in AFrame
    BY FramesAre
  <1>3. Worded(s) \in SUBSET AFrame /\ \A w \in Worded(s) : \E i \in DOMAIN s : w = s[i]
    BY <1>1, <1>2
  <1>4. ASSUME NEW n, Loud(s, n) PROVE \E w \in Worded(s) : w.n = n
    <2>1. PICK i \in DOMAIN s : s[i].n = n /\ s[i].kind = "loud"
      BY <1>4 DEF Loud
    <2>2. s[i] \in Worded(s)
      BY <1>1, <2>1
    <2>3. QED
      BY <2>1, <2>2
  <1>5. QED
    BY <1>3, <1>4

\* What is held, once it is sent, is told after the rest.
LEMMA SentIsTold ==
  ASSUME NEW T, NEW k \in Nat, NEW s, Rising(s, k), Told(T, k), Later(T, s), NEW a, Before(s, a), Later(T, a)
  PROVE  /\ Told(Append(T, Worded(s)), k) /\ Later(Append(T, Worded(s)), a)
         /\ \A n : WasSent(T, n) \/ Loud(s, n) => WasSent(Append(T, Worded(s)), n)
  <1>1. s \in AFrames /\ T \in Tales
    BY DEF Rising, Told
  <1>2. PICK t : t = Worded(s)
    OBVIOUS
  <1>3. /\ t \in SUBSET AFrame /\ \A w \in t : \E i \in DOMAIN s : w = s[i]
        /\ \A n : Loud(s, n) => \E w \in t : w.n = n
    BY <1>1, <1>2, WordedIs
  <1>4. PICK U : U = Append(T, t)
    OBVIOUS
  <1>5. /\ U \in Tales /\ Len(T) \in Nat /\ DOMAIN T = 1..Len(T) /\ DOMAIN U = 1..(Len(T) + 1)
        /\ \A i \in DOMAIN T : U[i] = T[i]
    BY <1>1, <1>3, <1>4 DEF Tales
  <1>6. U[Len(T) + 1] = t
    BY <1>1, <1>3, <1>4 DEF Tales
  <1>7. \A i \in DOMAIN U : i \in DOMAIN T \/ i = Len(T) + 1
    BY <1>5
  <1>8. \A w \in t : w.n <= k
    BY <1>3 DEF Rising
  <1>9. \A i \in DOMAIN U : \A w \in U[i] : w.n <= k
    BY <1>5, <1>6, <1>7, <1>8 DEF Told
  <1>10. \A i \in DOMAIN T : \A w \in T[i], x \in t : w.n < x.n
    BY <1>3 DEF Later
  <1>11. ASSUME NEW i \in DOMAIN U, NEW j \in DOMAIN U, i < j, NEW w \in U[i], NEW x \in U[j]
         PROVE  w.n < x.n
    <2>1. i \in DOMAIN T
      BY <1>5, <1>11
    <2>2. CASE j \in DOMAIN T
      BY <1>5, <1>11, <2>1, <2>2 DEF Told
    <2>3. CASE j = Len(T) + 1
      BY <1>5, <1>6, <1>10, <1>11, <2>1, <2>3
    <2>4. QED
      BY <1>7, <2>2, <2>3
  <1>12. Told(U, k)
    BY <1>5, <1>9, <1>11 DEF Told
  <1>13. \A w \in t : \A j \in DOMAIN a : w.n < a[j].n
    BY <1>3 DEF Before
  <1>14. Later(U, a)
    BY <1>5, <1>6, <1>7, <1>13 DEF Later
  <1>15. \A n : WasSent(T, n) => WasSent(U, n)
    BY <1>5 DEF WasSent
  <1>16. \A n : Loud(s, n) => WasSent(U, n)
    <2>1. Len(T) + 1 \in DOMAIN U
      BY <1>5
    <2>2. QED
      BY <1>3, <1>6, <2>1 DEF WasSent
  <1>17. QED
    BY <1>2, <1>4, <1>12, <1>14, <1>15, <1>16

\* The end of a Vosk utterance is its transcript; that of a Whisper utterance
\* asks for a final.
LEMMA VoskEnds ==
  ASSUME NEW e, NEW T, NEW k \in Nat, Dictates(e, T, k), EarCovers(e, T), e.backend = "vosk",
         NEW limit \in BOOLEAN, NEW d, d = Ended(e, limit)
  PROVE  Tells(e, T, d, k)
  <1>0. IsEar(e) /\ EarTyped(e) /\ e.audio \in AFrames
    BY DEF Dictates, Rising
  <1>1. PICK text : text = Worded(e.audio)
    OBVIOUS
  <1>2. text \in SUBSET AFrame
    BY <1>0, <1>1, WordedIs
  <1>3. PICK c : c = ResetAttempt(e)
    OBVIOUS
  <1>4. /\ IsEar(c) /\ Same(e, c, ClearedFields) /\ c.dictation = FALSE /\ c.onset = 0 /\ c.command = <<>>
        /\ c.audio = <<>>
    BY <1>0, <1>3, ResetIs
  <1>5. /\ c.backend = e.backend /\ c.state = e.state /\ c.from = e.from /\ c.playback = e.playback
        /\ c.preroll = e.preroll /\ c.heard = e.heard /\ c.said = e.said
        /\ c.job = e.job /\ c.running = e.running /\ c.finalPending = e.finalPending
    BY <1>4 DEF Same, EarFields, ClearedFields
  <1>6. EarTyped(c)
    <2>1. c.dictation \in BOOLEAN /\ c.onset \in Nat
      <3>1. c.dictation \in BOOLEAN
        BY <1>4, Zenon
      <3>2. c.onset \in Nat
        BY <1>4
      <3>3. QED
        BY <3>1, <3>2, Zenon
    <2>2. QED
      BY <1>0, <1>5, <2>1 DEF EarTyped
  <1>7. ~c.dictation
    BY <1>4
  <1>8. ASSUME NEW U, Told(U, k), EarCovers(c, U) PROVE EarKeeps(c, U, k)
    <2>1. Rising(<<>>, k) /\ Later(U, <<>>) /\ Before(<<>>, <<>>) /\ Len(<<>>) = 0
      BY RisingNone DEF Later, Before
    <2>2. KeepFrames >= 0 /\ LongestFrames >= 0 /\ c.preroll = <<>>
      BY <1>5, ListeningAssumption DEF Dictates
    <2>3. EarHolds(c, U, k)
      BY <1>4, <1>8, <2>1, <2>2 DEF EarHolds
    <2>4. EarDecodes(c)
      BY <1>5 DEF Dictates, EarDecodes, Live, Final
    <2>5. EarRests(c)
      BY <1>4, <1>5, <1>7, <2>2 DEF Dictates, EarRests
    <2>6. QED
      BY <1>4, <1>6, <1>8, <2>3, <2>4, <2>5 DEF EarKeeps, EarSound
  <1>9. PICK off : off = Paused(c)
    OBVIOUS
  <1>10. PICK event : event = Event(IF text = {} THEN "partial" ELSE "transcript", text)
    OBVIOUS
  <1>11. PICK long : long = Event("limit", text)
    OBVIOUS
  <1>12. PICK on : on = Sends(c, StateEvent(c))
    OBVIOUS
  <1>13. d = IF limit /\ text # {} THEN Sends(off, long) ELSE Sends(on, event)
    BY <1>1, <1>3, <1>9, <1>10, <1>11, <1>12 DEF Ended
  <1>14. /\ long.type = "limit" /\ long.text = text /\ event.text = text
         /\ event.type = IF text = {} THEN "partial" ELSE "transcript"
    BY <1>10, <1>11, EventsAre
  <1>15. CASE text = {}
    <2>1. Told(T, k)
      BY DEF Dictates
    <2>2. EarCovers(c, T)
      <3>1. \A n : ~Loud(e.audio, n)
        BY <1>0, <1>1, <1>15, WordedIs
      <3>2. QED
        BY <1>5, <3>1 DEF EarCovers
    <2>3. EarKeeps(c, T, k)
      BY <1>8, <2>1, <2>2
    <2>4. EarKeeps(on, T, k) /\ on.said = c.said
      BY <1>12, <2>3, EventsAre, SendsPlain
    <2>5. d = Sends(on, event) /\ event.type = "partial"
      BY <1>13, <1>14, <1>15
    <2>6. EarKeeps(d, T, k) /\ d.said = on.said
      BY <2>4, <2>5, SendsPlain
    <2>7. QED
      BY <1>5, <2>4, <2>6 DEF Tells
  <1>16. CASE text # {}
    <2>1. PICK U : U = Append(T, text)
      OBVIOUS
    <2>2. Told(U, k) /\ \A n : WasSent(T, n) \/ Loud(e.audio, n) => WasSent(U, n)
      <3>1. Rising(e.audio, k) /\ Told(T, k) /\ Later(T, e.audio) /\ Before(e.audio, <<>>) /\ Later(T, <<>>)
        BY DEF Dictates, Before, Later
      <3>2. QED
        BY <1>1, <2>1, <3>1, SentIsTold
    <2>3. EarCovers(c, U)
      BY <1>5, <2>2 DEF EarCovers
    <2>4. EarKeeps(c, U, k)
      BY <1>8, <2>2, <2>3
    <2>5. EarKeeps(on, U, k) /\ on.said = c.said
      BY <1>12, <2>4, EventsAre, SendsPlain
    <2>6. EarKeeps(off, U, k) /\ off.said = c.said
      BY <1>4, <1>9, <2>4, PausedKeeps
    <2>7. EarKeeps(Sends(off, long), U, k) /\ Sends(off, long).said = Append(off.said, text)
      BY <1>14, <2>6, SendsKeeps DEF SaidBy
    <2>8. EarKeeps(Sends(on, event), U, k) /\ Sends(on, event).said = Append(on.said, text)
      BY <1>14, <1>16, <2>5, SendsKeeps DEF SaidBy
    <2>9. EarKeeps(d, U, k) /\ d.said = Append(e.said, text)
      BY <1>5, <1>13, <2>5, <2>6, <2>7, <2>8
    <2>10. QED
      BY <1>2, <2>1, <2>9 DEF Tells
  <1>17. QED
    BY <1>15, <1>16

LEMMA WhisperEnds ==
  ASSUME NEW e, NEW T, NEW k \in Nat, Dictates(e, T, k), EarCovers(e, T), e.backend # "vosk",
         NEW limit \in BOOLEAN, NEW d, d = Ended(e, limit)
  PROVE  EarKeeps(d, T, k) /\ d.said = e.said
  <1>0. IsEar(e) /\ EarTyped(e)
    BY DEF Dictates
  <1>1. PICK all \in BOOLEAN : all = TRUE
    OBVIOUS
  <1>2. PICK s : s = Scheduled(e, all, limit)
    OBVIOUS
  <1>3. IsScheduled(e, s, all)
    BY <1>0, <1>2, ScheduledIs
  <1>4. /\ IsEar(s) /\ Same(e, s, {"job", "running"}) /\ s.job.audio = e.audio /\ s.job.final = all
        /\ s.job.canceled = FALSE /\ s.running.final = e.running.final /\ s.running.canceled \in BOOLEAN
        /\ ~Live(s.running)
    BY <1>1, <1>3 DEF IsScheduled
  <1>5. PICK c : c = [s EXCEPT !.finalPending = all]
    OBVIOUS
  <1>6. IsEar(c)
    BY <1>4, <1>5, SameField, SameEar
  <1>7. c.finalPending = all
    BY <1>4, <1>5 DEF IsEar, EarFields
  <1>8. \A x \in EarFields \ {"finalPending"} : c[x] = s[x]
    BY <1>4, <1>5 DEF IsEar
  <1>9. PICK a : a = ResetAttempt(c)
    OBVIOUS
  <1>10. /\ IsEar(a) /\ Same(c, a, ClearedFields) /\ a.dictation = FALSE /\ a.onset = 0 /\ a.command = <<>>
         /\ a.audio = IF c.backend = "vosk" THEN <<>> ELSE c.audio
    BY <1>6, <1>9, ResetIs
  <1>11. d = IF limit THEN [a EXCEPT !.from = "listening", !.state = "paused"] ELSE a
    BY <1>1, <1>2, <1>5, <1>9 DEF Ended
  <1>12. PICK x : x = IF limit THEN "listening" ELSE a.from
    OBVIOUS
  <1>13. PICK y : y = IF limit THEN "paused" ELSE a.state
    OBVIOUS
  <1>14. d = [a EXCEPT !.from = x, !.state = y]
    <2>1. CASE limit
      BY <1>11, <1>12, <1>13, <2>1
    <2>2. CASE ~limit
      BY <1>10, <1>11, <1>12, <1>13, <2>2 DEF IsEar, EarFields
    <2>3. QED
      BY <2>1, <2>2
  <1>15. d.from = x /\ d.state = y
    BY <1>10, <1>14 DEF IsEar, EarFields
  <1>16. \A z \in EarFields \ {"from", "state"} : d[z] = a[z]
    BY <1>10, <1>14 DEF IsEar
  <1>17. /\ a.from = e.from /\ a.state = e.state /\ a.backend = e.backend /\ a.playback = e.playback
         /\ a.preroll = e.preroll /\ a.heard = e.heard /\ a.said = e.said /\ a.finalPending = all
         /\ a.job = s.job /\ a.running = s.running /\ a.audio = e.audio
    BY <1>4, <1>7, <1>8, <1>10 DEF Same, ClearedFields, EarFields
  <1>18. x \in {"waiting", "listening"} /\ y \in {"listening", "paused"}
    BY <1>0, <1>12, <1>13, <1>17 DEF EarTyped, Dictates
  <1>19. IsEar(d)
    <2>1. PICK b : b = [a EXCEPT !.from = x]
      OBVIOUS
    <2>2. x \in EarStates /\ y \in EarStates
      BY <1>18 DEF EarStates
    <2>3. IsEar(b)
      BY <1>10, <2>1, <2>2, SameField, SameEar
    <2>4. d = [b EXCEPT !.state = y]
      BY <1>14, <2>1
    <2>5. QED
      BY <2>2, <2>3, <2>4, SameField, SameEar
  <1>20. /\ d.backend = e.backend /\ d.playback = e.playback /\ d.preroll = e.preroll /\ d.heard = e.heard
         /\ d.said = e.said /\ d.finalPending = all /\ d.job = s.job /\ d.running = s.running
         /\ d.audio = e.audio /\ d.command = <<>> /\ d.dictation = a.dictation /\ d.onset = a.onset
    BY <1>10, <1>16, <1>17 DEF EarFields
  <1>21. EarTyped(d)
    <2>1. a.dictation \in BOOLEAN
      BY <1>10, Zenon
    <2>2. d.dictation \in BOOLEAN /\ d.onset \in Nat
      <3>1. d.dictation \in BOOLEAN
        BY <1>20, <2>1, Zenon
      <3>2. d.onset \in Nat
        BY <1>10, <1>20
      <3>3. QED
        BY <3>1, <3>2, Zenon
    <2>3. s.job.final \in BOOLEAN /\ s.job.canceled \in BOOLEAN
      <3>1. s.job.canceled \in BOOLEAN
        BY <1>4, Zenon
      <3>2. s.job.final \in BOOLEAN
        BY <1>4
      <3>3. QED
        BY <3>1, <3>2, Zenon
    <2>4. s.running.final \in BOOLEAN /\ s.running.canceled \in BOOLEAN
      BY <1>0, <1>4 DEF EarTyped
    <2>5. QED
      BY <1>0, <1>15, <1>18, <1>20, <2>2, <2>3, <2>4 DEF EarTyped
  <1>22. ~d.dictation /\ d.finalPending
    BY <1>1, <1>10, <1>20
  <1>23. EarHolds(d, T, k)
    <2>1. Rising(<<>>, k) /\ Later(T, <<>>) /\ Before(e.audio, <<>>) /\ Len(<<>>) = 0
      BY RisingNone DEF Later, Before
    <2>2. KeepFrames >= 0 /\ d.preroll = <<>>
      BY <1>20, ListeningAssumption DEF Dictates
    <2>3. QED
      BY <1>20, <2>1, <2>2 DEF EarHolds, Dictates
  <1>24. EarDecodes(d)
    BY <1>4, <1>20, <1>22 DEF EarDecodes
  <1>25. EarRests(d)
    <2>1. d.preroll = <<>> /\ d.state # "waiting"
      BY <1>15, <1>18, <1>20 DEF Dictates
    <2>2. QED
      BY <1>22, <2>1 DEF EarRests
  <1>26. EarCovers(d, T)
    BY <1>20 DEF EarCovers
  <1>27. QED
    BY <1>19, <1>20, <1>21, <1>23, <1>24, <1>25, <1>26 DEF EarKeeps, EarSound

-----------------------------------------------------------------------------
\* A frame of an utterance is decoded, and may end it.
LEMMA WithinTells ==
  ASSUME NEW e, NEW T, NEW k \in Nat, EarSound(e, T, k), e.dictation, e.state = "listening",
         NEW f \in AFrame, k < f.n, NewlyHeard(e, T, f), NEW d, d = Within(e, f)
  PROVE  Tells(e, T, d, f.n)
  <1> DEFINE near == [e EXCEPT !.length = @ + 1, !.silence = IF f.kind = "quiet" THEN @ + 1 ELSE 0]
             all == Decode(near, <<f>>)
             still == all.silence >= EndFrames
             full == all.length >= LongestFrames
             empty == e.backend = "vosk" /\ all.partial = {} /\ all.length >= WaitFrames
             over == Ended(all, full /\ ~still)
  <1>1. d = IF still \/ full \/ empty THEN over ELSE all
    BY DEF Within
  <1>0. IsEar(e) /\ f.n \in Nat
    BY DEF EarSound, AFrame
  <1>2. IsEar(near) /\ Same(e, near, PlainFields) /\ near.said = e.said
    <2>1. PICK x : x = e.length + 1
      OBVIOUS
    <2>2. PICK y : y = IF f.kind = "quiet" THEN e.silence + 1 ELSE 0
      OBVIOUS
    <2>3. PICK c : c = [e EXCEPT !.length = x]
      OBVIOUS
    <2>4. IsEar(c)
      BY <1>0, <2>3, SameField, SameEar
    <2>5. near = [c EXCEPT !.silence = y]
      BY <2>1, <2>2, <2>3
    <2>6. IsEar(near)
      BY <2>4, <2>5, SameField, SameEar
    <2>7. near = [e EXCEPT !.length = x, !.silence = y]
      BY <2>1, <2>2
    <2>8. \A z \in EarFields \ {"length", "silence"} : near[z] = e[z]
      BY <1>0, <2>7 DEF IsEar
    <2>9. near.said = e.said
      BY <2>8 DEF EarFields
    <2>10. Same(e, near, PlainFields)
      BY <2>8 DEF Same, PlainFields
    <2>11. QED
      BY <2>6, <2>9, <2>10
  <1> HIDE DEF near
  <1>3. /\ near.dictation = e.dictation /\ near.state = e.state /\ near.heard = e.heard /\ near.audio = e.audio
        /\ near.backend = e.backend
    BY <1>2 DEF Same, PlainFields, EarFields
  <1>4. EarSound(near, T, k)
    BY <1>2, PlainSound
  <1>5. Dictates(near, T, k) /\ near.command = <<>>
    BY <1>3, <1>4, SoundDictates
  <1>6. PICK pcm : pcm = Append(<<>>, f)
    OBVIOUS
  <1>7. pcm = <<f>> /\ DOMAIN pcm = 1..1 /\ pcm[1] = f
    BY <1>6
  <1>8. Rising(pcm, f.n)
    <2>1. Rising(<<>>, k)
      BY RisingNone
    <2>2. QED
      BY <1>6, <2>1, RisingAppend
  <1>9. Later(T, pcm) /\ Before(near.audio, pcm)
    <2>1. Later(T, <<>>) /\ Before(near.audio, <<>>) /\ <<>> \in AFrames
      BY NoFrames DEF Later, Before
    <2>2. Told(T, k) /\ Rising(near.audio, k)
      BY <1>5 DEF Dictates
    <2>3. QED
      BY <1>6, <2>1, <2>2, FrameIsLater
  <1>10. EarWillCover(near, T, pcm)
    <2>1. f.kind = "loud" => Loud(pcm, f.n)
      BY <1>7 DEF Loud
    <2>2. QED
      BY <1>3, <2>1 DEF EarWillCover, NewlyHeard
  <1>11. all = Decode(near, pcm)
    BY <1>7
  <1> HIDE DEF all
  <1>12. k <= f.n
    BY <1>0
  <1>13. Dictates(all, T, f.n) /\ EarCovers(all, T) /\ all.said = e.said /\ all.command = <<>>
    BY <1>0, <1>2, <1>5, <1>8, <1>9, <1>10, <1>11, <1>12, DecodeDictates
  <1>14. Tells(e, T, all, f.n)
    BY <1>13, DictatesSound DEF EarKeeps, Tells
  <1>15. PICK limit \in BOOLEAN : limit = (full /\ ~still)
    OBVIOUS
  <1>16. over = Ended(all, limit)
    BY <1>15
  <1>17. Tells(all, T, over, f.n)
    <2>1. CASE all.backend = "vosk"
      BY <1>0, <1>13, <1>16, <2>1, VoskEnds
    <2>2. CASE all.backend # "vosk"
      BY <1>0, <1>13, <1>16, <2>2, WhisperEnds DEF Tells
    <2>3. QED
      BY <2>1, <2>2
  <1>18. Tells(e, T, over, f.n)
    BY <1>13, <1>17 DEF Tells
  <1> HIDE DEF over, still, full, empty
  <1>19. QED
    BY <1>1, <1>14, <1>18

\* A frame that arrives at the listener.
LEMMA FrameTells ==
  ASSUME NEW e, NEW T, NEW k \in Nat, EarKeeps(e, T, k),
         NEW f \in AFrame, k < f.n, f.n \in 1..MaxFrames, NEW d, d = Frame(e, f)
  PROVE  Tells(e, T, d, f.n)
  <1> DEFINE on == [e EXCEPT !.heard = IF f.kind = "loud" THEN @ \cup {f.n} ELSE @]
  <1>1. d = IF e.state # "listening" THEN e ELSE IF on.dictation THEN Within(on, f) ELSE Onset(on, f)
    BY DEF Frame
  <1>0. /\ IsEar(e) /\ EarTyped(e) /\ EarHolds(e, T, k) /\ EarDecodes(e) /\ EarRests(e) /\ EarCovers(e, T)
        /\ f.n \in Nat /\ k <= f.n
    BY DEF EarKeeps, EarSound, AFrame
  <1>2. PICK h : h = IF f.kind = "loud" THEN e.heard \cup {f.n} ELSE e.heard
    OBVIOUS
  <1>3. on = [e EXCEPT !.heard = h]
    BY <1>2
  <1> HIDE DEF on
  <1>4. IsEar(on)
    BY <1>0, <1>3, SameField, SameEar
  <1>5. on.heard = h /\ on.said = e.said
    BY <1>0, <1>3 DEF IsEar, EarFields
  <1>6. /\ on.backend = e.backend /\ on.state = e.state /\ on.from = e.from /\ on.playback = e.playback
        /\ on.preroll = e.preroll /\ on.dictation = e.dictation /\ on.onset = e.onset
        /\ on.command = e.command /\ on.audio = e.audio /\ on.finalPending = e.finalPending
        /\ on.job = e.job /\ on.running = e.running
    BY <1>0, <1>3 DEF IsEar, EarFields
  <1>7. h \subseteq 1..MaxFrames
    BY <1>0, <1>2 DEF EarTyped
  <1>8. EarTyped(on)
    BY <1>0, <1>5, <1>6, <1>7 DEF EarTyped
  <1>9. EarHolds(on, T, k) /\ EarDecodes(on) /\ EarRests(on)
    <2>1. EarHolds(on, T, k)
      BY <1>0, <1>6 DEF EarHolds
    <2>2. EarDecodes(on)
      BY <1>0, <1>6 DEF EarDecodes
    <2>3. EarRests(on)
      BY <1>0, <1>6 DEF EarRests
    <2>4. QED
      BY <2>1, <2>2, <2>3
  <1>10. EarSound(on, T, k)
    BY <1>4, <1>8, <1>9 DEF EarSound
  <1>11. NewlyHeard(on, T, f)
    BY <1>0, <1>2, <1>5, <1>6 DEF NewlyHeard, EarCovers
  <1>12. CASE e.state # "listening"
    <2>1. EarSound(e, T, f.n)
      BY <1>0, KeepsMore DEF EarKeeps
    <2>2. QED
      BY <1>0, <1>1, <1>12, <2>1 DEF EarKeeps, Tells
  <1>13. CASE e.state = "listening" /\ on.dictation
    <2>1. Tells(on, T, Within(on, f), f.n)
      BY <1>6, <1>10, <1>11, <1>13, WithinTells
    <2>2. QED
      BY <1>1, <1>5, <1>13, <2>1 DEF Tells
  <1>14. CASE e.state = "listening" /\ ~on.dictation
    <2>1. EarKeeps(Onset(on, f), T, f.n) /\ Onset(on, f).said = on.said
      BY <1>6, <1>10, <1>11, <1>14, OnsetKeeps
    <2>2. QED
      BY <1>1, <1>5, <1>14, <2>1 DEF Tells
  <1>15. QED
    BY <1>12, <1>13, <1>14

-----------------------------------------------------------------------------
\* What a listener still has to publish goes on from what was sent.
SaysOn(past, e, k) == e.said \in Tales /\ EarKeeps(e, past \o e.said, k)

LEMMA TellsSaysOn ==
  ASSUME NEW past \in Tales, NEW e, e.said \in Tales, NEW k, NEW d, Tells(e, past \o e.said, d, k)
  PROVE  SaysOn(past, d, k)
  <1>1. CASE d.said = e.said /\ EarKeeps(d, past \o e.said, k)
    BY <1>1 DEF SaysOn
  <1>2. CASE \E text \in SUBSET AFrame : d.said = Append(e.said, text) /\ EarKeeps(d, Append(past \o e.said, text), k)
    <2>1. PICK text \in SUBSET AFrame :
            d.said = Append(e.said, text) /\ EarKeeps(d, Append(past \o e.said, text), k)
      BY <1>2
    <2>2. PICK said \in Tales : said = e.said
      OBVIOUS
    <2>3. Append(said, text) \in Tales
      BY DEF Tales
    <2>4. past \o Append(said, text) = Append(past \o said, text)
      BY DEF Tales
    <2>5. QED
      BY <2>1, <2>2, <2>3, <2>4 DEF SaysOn
  <1>3. QED
    BY <1>1, <1>2 DEF Tells

LEMMA SaysOnMore ==
  ASSUME NEW past, NEW e, NEW k \in Nat, NEW m \in Nat, k <= m, SaysOn(past, e, k)
  PROVE  SaysOn(past, e, m)
  <1>1. PICK T : T = past \o e.said
    OBVIOUS
  <1>2. EarSound(e, T, k) /\ EarCovers(e, T)
    BY <1>1 DEF SaysOn, EarKeeps
  <1>3. EarSound(e, T, m)
    BY <1>2, KeepsMore
  <1>4. QED
    BY <1>1, <1>2, <1>3 DEF SaysOn, EarKeeps

LEMMA FrameSaysOn ==
  ASSUME NEW past \in Tales, NEW e, NEW k \in Nat, SaysOn(past, e, k),
         NEW f \in AFrame, k < f.n, f.n \in 1..MaxFrames
  PROVE  SaysOn(past, Frame(e, f), f.n)
  <1>1. PICK T : T = past \o e.said
    OBVIOUS
  <1>2. EarKeeps(e, T, k) /\ e.said \in Tales
    BY <1>1 DEF SaysOn
  <1>3. PICK d : d = Frame(e, f)
    OBVIOUS
  <1>4. Tells(e, T, d, f.n)
    BY <1>2, <1>3, FrameTells
  <1>5. QED
    BY <1>1, <1>2, <1>3, <1>4, TellsSaysOn

LEMMA FramesSayOn ==
  ASSUME NEW past \in Tales, NEW e, NEW k \in Nat, SaysOn(past, e, k), NEW m \in Nat, k <= m, m <= MaxFrames,
         NEW s, Rising(s, m), \A i \in DOMAIN s : k < s[i].n
  PROVE  SaysOn(past, Framed(e, s), m)
  <1>1. s \in AFrames
    BY DEF Rising
  <1>2. /\ Len(s) \in Nat /\ DOMAIN s = 1..Len(s)
        /\ \A i \in DOMAIN s : s[i] \in AFrame /\ s[i].n \in Nat
    BY <1>1, FramesAre
  <1>3. PICK n \in Nat : n = Len(s)
    BY <1>2
  <1>4. DOMAIN s = 1..n
    BY <1>2, <1>3
  <1>5. PICK h : RunsOver(h, e, s, n)
    BY <1>4, FoldRuns
  <1>6. h[0] = e /\ h[n] = Framed(e, s) /\ \A i \in 1..n : h[i] = Frame(h[i - 1], s[i])
    BY <1>5 DEF RunsOver
  <1> DEFINE bound(i) == IF i = 0 THEN k ELSE s[i].n
             W == {i \in 0..n : ~SaysOn(past, h[i], bound(i))}
  <1>7. W = {}
    <2> SUFFICES ASSUME W # {} PROVE FALSE
      OBVIOUS
    <2>1. W \in SUBSET Nat
      OBVIOUS
    <2>2. PICK i \in W : \A j \in W : i <= j
      BY <2>1, LeastNumber
    <2>3. i # 0
      BY <1>6, <2>2
    <2>4. i - 1 \in 0..n /\ i \in 1..n /\ ~(i <= i - 1)
      BY <2>3
    <2>5. SaysOn(past, h[i - 1], bound(i - 1))
      BY <2>2, <2>4
    <2>6. bound(i - 1) \in Nat /\ bound(i - 1) < s[i].n
      <3>1. CASE i - 1 = 0
        BY <1>4, <2>4, <3>1
      <3>2. CASE i - 1 # 0
        <4>1. i - 1 \in DOMAIN s /\ i \in DOMAIN s /\ i - 1 < i
          BY <1>4, <2>4, <3>2
        <4>2. s[i - 1].n < s[i].n /\ s[i - 1].n \in Nat
          BY <1>2, <4>1 DEF Rising
        <4>3. QED
          BY <3>2, <4>2
      <3>3. QED
        BY <3>1, <3>2
    <2>7. s[i] \in AFrame /\ s[i].n \in 1..MaxFrames
      <3>1. i \in DOMAIN s
        BY <1>4, <2>4
      <3>2. s[i] \in AFrame /\ s[i].n \in Nat /\ 1 <= s[i].n /\ s[i].n <= m
        BY <1>2, <3>1 DEF Rising
      <3>3. MaxFrames \in Nat
        BY ListeningAssumption
      <3>4. QED
        BY <3>2, <3>3
    <2>8. SaysOn(past, Frame(h[i - 1], s[i]), s[i].n)
      BY <2>5, <2>6, <2>7, FrameSaysOn
    <2>9. SaysOn(past, h[i], bound(i))
      BY <1>6, <2>3, <2>4, <2>8
    <2>10. QED
      BY <2>2, <2>9
  <1>8. SaysOn(past, Framed(e, s), bound(n))
    <2>1. n \in 0..n
      OBVIOUS
    <2>2. QED
      BY <1>6, <1>7, <2>1
  <1>9. bound(n) \in Nat /\ bound(n) <= m
    <2>1. CASE n = 0
      BY <2>1
    <2>2. CASE n # 0
      <3>1. n \in DOMAIN s
        BY <1>4, <2>2
      <3>2. s[n].n \in Nat /\ s[n].n <= m
        BY <1>2, <3>1 DEF Rising
      <3>3. QED
        BY <2>2, <3>2
    <2>3. QED
      BY <2>1, <2>2
  <1>10. QED
    BY <1>8, <1>9, SaysOnMore

-----------------------------------------------------------------------------
\* What a decode that ended publishes.
LEMMA NoJobIs ==
  NoJob.real = FALSE /\ NoJob.final = FALSE /\ NoJob.canceled = FALSE /\ IsJob(NoJob)
  BY DEF NoJob, IsJob, JobFields

LEMMA FreedKeeps ==
  ASSUME NEW e, NEW T, NEW k, EarKeeps(e, T, k), NEW d, d = [e EXCEPT !.running = NoJob]
  PROVE  EarKeeps(d, T, k) /\ d.said = e.said
  <1>0. /\ IsEar(e) /\ EarTyped(e) /\ EarHolds(e, T, k) /\ EarDecodes(e) /\ EarRests(e) /\ EarCovers(e, T)
    BY DEF EarKeeps, EarSound
  <1>1. PICK j : j = NoJob
    OBVIOUS
  <1>2. ~j.real /\ j.final \in BOOLEAN /\ j.canceled \in BOOLEAN /\ IsJob(j)
    <2>1. j.final \in BOOLEAN /\ j.canceled \in BOOLEAN
      BY <1>1, NoJobIs, Zenon
    <2>2. QED
      BY <1>1, <2>1, NoJobIs, Zenon
  <1>3. d = [e EXCEPT !.running = j]
    BY <1>1
  <1>4. /\ d.backend = e.backend /\ d.state = e.state /\ d.from = e.from /\ d.playback = e.playback
        /\ d.preroll = e.preroll /\ d.dictation = e.dictation /\ d.onset = e.onset
        /\ d.command = e.command /\ d.audio = e.audio /\ d.finalPending = e.finalPending
        /\ d.job = e.job /\ d.running = j /\ d.heard = e.heard /\ d.said = e.said
    BY <1>0, <1>3 DEF IsEar, EarFields
  <1>5. IsEar(d)
    BY <1>0, <1>2, <1>3 DEF IsEar, EarFields
  <1>6. EarTyped(d)
    BY <1>0, <1>2, <1>4 DEF EarTyped
  <1>7. EarHolds(d, T, k)
    BY <1>0, <1>4 DEF EarHolds
  <1>8. EarDecodes(d)
    BY <1>0, <1>2, <1>4 DEF EarDecodes, Live, Final
  <1>9. EarRests(d)
    BY <1>0, <1>2, <1>4 DEF EarRests, Live, Final
  <1>10. EarCovers(d, T)
    BY <1>0, <1>4 DEF EarCovers
  <1>11. QED
    BY <1>4, <1>5, <1>6, <1>7, <1>8, <1>9, <1>10 DEF EarKeeps, EarSound

DeliveredFields == {"running", "finalPending", "audio", "draftAt", "state"}
LEMMA DeliveredKeeps ==
  ASSUME NEW e, NEW T, NEW k, EarKeeps(e, T, k), Live(e.running), e.backend # "vosk",
         NEW d, IsEar(d), Same(e, d, DeliveredFields), d.running = NoJob, ~d.finalPending, d.finalPending \in BOOLEAN,
         d.audio = <<>>, d.state \in {e.state, "listening"},
         NEW U, Told(U, k), Later(U, e.command), \A n : WasSent(T, n) \/ Loud(e.audio, n) => WasSent(U, n)
  PROVE  EarKeeps(d, U, k) /\ d.said = e.said
  <1>0. /\ IsEar(e) /\ EarTyped(e) /\ EarHolds(e, T, k) /\ EarDecodes(e) /\ EarRests(e) /\ EarCovers(e, T)
    BY DEF EarKeeps, EarSound
  <1>1. ~d.running.real /\ d.running.final \in BOOLEAN /\ d.running.canceled \in BOOLEAN
    BY NoJobIs, Zenon
  <1>2. /\ d.backend = e.backend /\ d.from = e.from /\ d.playback = e.playback
        /\ d.preroll = e.preroll /\ d.dictation = e.dictation /\ d.onset = e.onset
        /\ d.command = e.command /\ d.job = e.job /\ d.heard = e.heard /\ d.said = e.said
    BY DEF Same, DeliveredFields, EarFields
  <1>3. e.state # "waiting" /\ e.preroll = <<>> /\ d.state # "waiting"
    BY <1>0 DEF EarRests
  <1>4. ~Final(e.job) /\ ~e.dictation
    BY <1>0 DEF EarDecodes
  <1>5. EarTyped(d)
    BY <1>0, <1>1, <1>2 DEF EarTyped
  <1>6. EarHolds(d, U, k)
    <2>1. Rising(<<>>, k) /\ Later(U, <<>>) /\ Before(<<>>, e.command) /\ Len(<<>>) = 0
      BY RisingNone DEF Later, Before
    <2>2. LongestFrames >= 0
      BY ListeningAssumption
    <2>3. QED
      BY <1>0, <1>2, <1>3, <2>1, <2>2 DEF EarHolds
  <1>7. EarDecodes(d)
    BY <1>1, <1>2, <1>4 DEF EarDecodes, Live, Final
  <1>8. EarRests(d)
    BY <1>2, <1>3, <1>4 DEF EarRests
  <1>9. EarCovers(d, U)
    BY <1>0, <1>2 DEF EarCovers
  <1>10. QED
    BY <1>2, <1>5, <1>6, <1>7, <1>8, <1>9 DEF EarKeeps, EarSound

LEMMA CompletedTells ==
  ASSUME NEW e, NEW T, NEW k \in Nat, EarKeeps(e, T, k), e.running.real, e.backend # "vosk",
         NEW text, text = Worded(e.running.audio), NEW d, d = Completed(e, text)
  PROVE  Tells(e, T, d, k)
  <1> DEFINE free == [e EXCEPT !.running = NoJob]
             all == [free EXCEPT !.finalPending = FALSE, !.audio = <<>>, !.draftAt = 0]
             awake == [all EXCEPT !.state = "listening"]
             asDraft == [free EXCEPT !.partial = text]
             word == Event(IF text = {} THEN "partial" ELSE "transcript", text)
             one == Sends(asDraft, Event("partial", text))
             two == Sends(Sends(all, StateEvent(all)), Event("limit", text))
             three == Sends(Sends(awake, StateEvent(awake)), word)
  <1>1. d = CASE Outdated(e.running) -> free
              [] ~Outdated(e.running) /\ ~e.running.final -> IF text = e.partial THEN free ELSE one
              [] ~Outdated(e.running) /\ e.running.final /\ e.running.limit /\ text # {} -> two
              [] OTHER -> three
    BY DEF Completed
  <1>2. EarKeeps(free, T, k) /\ free.said = e.said
    BY FreedKeeps
  <1>3. IsEar(e) /\ IsEar(free) /\ EarHolds(e, T, k) /\ EarDecodes(e)
    BY <1>2 DEF EarKeeps, EarSound
  <1>4. Tells(e, T, free, k)
    BY <1>2 DEF Tells
  <1>5. \A x \in EarFields \ {"running"} : free[x] = e[x]
    BY <1>3 DEF IsEar
  <1>6. free.running = NoJob
    <2>1. PICK j : j = NoJob
      OBVIOUS
    <2>2. [e EXCEPT !.running = j].running = j
      BY <1>3 DEF IsEar, EarFields
    <2>3. QED
      BY <2>1, <2>2
  <1> HIDE DEF free
  <1>7. Tells(e, T, one, k)
    <2>1. IsEar(asDraft)
      BY <1>3, SameField, SameEar
    <2>2. \A x \in EarFields \ {"partial"} : asDraft[x] = free[x]
      BY <1>3 DEF IsEar
    <2>3. Same(free, asDraft, PlainFields) /\ asDraft.said = free.said
      BY <2>2 DEF Same, PlainFields, EarFields
    <2> HIDE DEF asDraft
    <2>4. EarKeeps(asDraft, T, k)
      BY <1>2, <2>1, <2>3, PlainKeeps
    <2>5. EarKeeps(one, T, k) /\ one.said = asDraft.said
      BY <2>4, EventsAre, SendsPlain
    <2>6. QED
      BY <1>2, <2>3, <2>5 DEF Tells
  <1>8. CASE Outdated(e.running) \/ ~e.running.final
    <2>1. d = free \/ d = one
      <3> HIDE DEF one, two, three
      <3>1. QED
        BY <1>1, <1>8
    <2>2. QED
      BY <1>4, <1>7, <2>1
  <1>9. CASE ~Outdated(e.running) /\ e.running.final
    <2>1. Live(e.running)
      BY <1>9 DEF Outdated, Live, Final
    <2>2. e.running.audio = e.audio /\ text = Worded(e.audio)
      BY <1>3, <2>1 DEF EarDecodes
    <2>3. /\ IsEar(all) /\ all.finalPending = FALSE /\ all.audio = <<>>
          /\ \A x \in EarFields \ {"finalPending", "audio", "draftAt"} : all[x] = free[x]
      <3>1. PICK b : b = [free EXCEPT !.finalPending = FALSE]
        OBVIOUS
      <3>2. PICK c : c = [b EXCEPT !.audio = <<>>]
        OBVIOUS
      <3>3. all = [c EXCEPT !.draftAt = 0]
        BY <3>1, <3>2
      <3>4. IsEar(b)
        BY <1>3, <3>1, SameField, SameEar
      <3>5. IsEar(c)
        BY <3>2, <3>4, SameField, SameEar
      <3>6. IsEar(all)
        BY <3>3, <3>5, SameField, SameEar
      <3>7. all.finalPending = FALSE /\ all.audio = <<>>
        BY <1>3 DEF IsEar, EarFields
      <3>8. \A x \in EarFields \ {"finalPending", "audio", "draftAt"} : all[x] = free[x]
        BY <1>3 DEF IsEar
      <3>9. QED
        BY <3>6, <3>7, <3>8
    <2> HIDE DEF all
    <2>4. /\ IsEar(awake) /\ awake.state = "listening"
          /\ \A x \in EarFields \ {"state"} : awake[x] = all[x]
      <3>1. "listening" \in EarStates
        BY DEF EarStates
      <3>2. IsEar(awake)
        BY <2>3, <3>1, SameField, SameEar
      <3>3. awake.state = "listening"
        BY <2>3 DEF IsEar, EarFields
      <3>4. \A x \in EarFields \ {"state"} : awake[x] = all[x]
        BY <2>3 DEF IsEar
      <3>5. QED
        BY <3>2, <3>3, <3>4
    <2> HIDE DEF awake
    <2>5. /\ Same(e, all, DeliveredFields) /\ all.running = NoJob /\ ~all.finalPending /\ all.finalPending \in BOOLEAN
          /\ all.audio = <<>> /\ all.state \in {e.state, "listening"}
      <3>1. Same(e, all, DeliveredFields)
        BY <1>5, <2>3 DEF Same, DeliveredFields
      <3>2. all.running = NoJob /\ all.state = e.state
        BY <1>5, <1>6, <2>3 DEF EarFields
      <3>3. all.finalPending \in BOOLEAN
        BY <2>3, Zenon
      <3>4. QED
        BY <2>3, <3>1, <3>2, <3>3
    <2>6. /\ Same(e, awake, DeliveredFields) /\ awake.running = NoJob
          /\ ~awake.finalPending /\ awake.finalPending \in BOOLEAN
          /\ awake.audio = <<>> /\ awake.state \in {e.state, "listening"}
      <3>1. Same(e, awake, DeliveredFields)
        BY <1>5, <2>3, <2>4 DEF Same, DeliveredFields
      <3>2. awake.running = all.running /\ awake.finalPending = all.finalPending /\ awake.audio = all.audio
        BY <2>4 DEF EarFields
      <3>3. QED
        BY <2>4, <2>5, <3>1, <3>2
    <2>7. ASSUME NEW U, Told(U, k), Later(U, e.command), \A n : WasSent(T, n) \/ Loud(e.audio, n) => WasSent(U, n)
          PROVE  /\ EarKeeps(all, U, k) /\ all.said = e.said
                 /\ EarKeeps(awake, U, k) /\ awake.said = e.said
      <3>1. EarKeeps(all, U, k) /\ all.said = e.said
        BY <2>1, <2>3, <2>5, <2>7, DeliveredKeeps
      <3>2. EarKeeps(awake, U, k) /\ awake.said = e.said
        BY <2>1, <2>4, <2>6, <2>7, DeliveredKeeps
      <3>3. QED
        BY <3>1, <3>2
    <2>8. PICK long : long = Event("limit", text)
      OBVIOUS
    <2>9. PICK w : w = word
      OBVIOUS
    <2>10. PICK off : off = Sends(all, StateEvent(all))
      OBVIOUS
    <2>11. PICK on : on = Sends(awake, StateEvent(awake))
      OBVIOUS
    <2>12. d = IF e.running.limit /\ text # {} THEN Sends(off, long) ELSE Sends(on, w)
      <3>1. d = IF e.running.limit /\ text # {} THEN two ELSE three
        <4> HIDE DEF one, two, three
        <4>1. QED
          BY <1>1, <1>9
      <3>2. QED
        BY <2>8, <2>9, <2>10, <2>11, <3>1
    <2>13. /\ long.type = "limit" /\ long.text = text /\ w.text = text
           /\ w.type = IF text = {} THEN "partial" ELSE "transcript"
      BY <2>8, <2>9, EventsAre
    <2>14. e.audio \in AFrames /\ Rising(e.audio, k) /\ Told(T, k) /\ Later(T, e.audio)
           /\ Before(e.audio, e.command) /\ Later(T, e.command)
      BY <1>3 DEF EarHolds, Rising
    <2>15. text \in SUBSET AFrame
      BY <2>2, <2>14, WordedIs
    <2> HIDE DEF word, two, three
    <2>16. CASE text = {}
      <3>1. \A n : ~Loud(e.audio, n)
        BY <2>2, <2>14, <2>16, WordedIs
      <3>2. EarKeeps(awake, T, k) /\ awake.said = e.said
        BY <2>7, <2>14, <3>1
      <3>3. EarKeeps(on, T, k) /\ on.said = awake.said
        BY <2>11, <3>2, EventsAre, SendsPlain
      <3>4. d = Sends(on, w) /\ w.type = "partial"
        BY <2>12, <2>13, <2>16
      <3>5. EarKeeps(d, T, k) /\ d.said = on.said
        BY <3>3, <3>4, SendsPlain
      <3>6. QED
        BY <3>2, <3>3, <3>5 DEF Tells
    <2>17. CASE text # {}
      <3>1. PICK U : U = Append(T, text)
        OBVIOUS
      <3>2. Told(U, k) /\ Later(U, e.command) /\ \A n : WasSent(T, n) \/ Loud(e.audio, n) => WasSent(U, n)
        BY <2>2, <2>14, <3>1, SentIsTold
      <3>3. /\ EarKeeps(all, U, k) /\ all.said = e.said
            /\ EarKeeps(awake, U, k) /\ awake.said = e.said
        BY <2>7, <3>2
      <3>4. EarKeeps(on, U, k) /\ on.said = e.said /\ EarKeeps(off, U, k) /\ off.said = e.said
        BY <2>10, <2>11, <3>3, EventsAre, SendsPlain
      <3>5. EarKeeps(Sends(off, long), U, k) /\ Sends(off, long).said = Append(e.said, text)
        <4>1. SaidBy(off, long) = Append(off.said, text)
          BY <2>13 DEF SaidBy
        <4>2. EarKeeps(Sends(off, long), U, k) /\ Sends(off, long).said = SaidBy(off, long)
          BY <3>4, SendsKeeps
        <4>3. QED
          BY <3>4, <4>1, <4>2
      <3>6. EarKeeps(Sends(on, w), U, k) /\ Sends(on, w).said = Append(e.said, text)
        <4>1. w.type = "transcript" /\ w.text = text
          BY <2>13, <2>17
        <4>2. SaidBy(on, w) = Append(on.said, text)
          BY <4>1 DEF SaidBy
        <4>3. EarKeeps(Sends(on, w), U, k) /\ Sends(on, w).said = SaidBy(on, w)
          BY <3>4, SendsKeeps
        <4>4. QED
          BY <3>4, <4>2, <4>3
      <3>7. EarKeeps(d, U, k) /\ d.said = Append(e.said, text)
        BY <2>12, <3>5, <3>6
      <3>8. QED
        BY <2>15, <3>1, <3>7 DEF Tells
    <2>18. QED
      BY <2>16, <2>17
  <1>10. QED
    BY <1>8, <1>9

-----------------------------------------------------------------------------
\* While the listener waits for its wake word it keeps the last frames.
LEMMA NearbyFrames ==
  ASSUME NEW T, NEW k \in Nat, Told(T, k), NEW s, Rising(s, k), Later(T, s), NEW f \in AFrame, k < f.n,
         NEW near, near = LastOf(Append(s, f), WakeFrames)
  PROVE  Rising(near, f.n) /\ Later(T, near)
  <1>1. WakeFrames \in Nat /\ f.n \in Nat
    BY ListeningAssumption DEF AFrame
  <1>2. PICK t : t = Append(s, f)
    OBVIOUS
  <1>3. Rising(t, f.n)
    BY <1>2, RisingAppend
  <1>4. Later(T, t)
    <2>1. Rising(<<>>, k) /\ Before(<<>>, s) /\ s \in AFrames
      BY RisingNone DEF Before, Rising
    <2>2. QED
      BY <1>2, <2>1, FrameIsLater
  <1>5. Rising(near, f.n) /\ TakenFrom(near, t)
    BY <1>1, <1>2, <1>3, RisingLast
  <1>6. QED
    BY <1>4, <1>5, TakenKeeps

LEMMA PrerollKeeps ==
  ASSUME NEW e, NEW T, NEW k \in Nat, EarKeeps(e, T, k), e.state = "waiting", NEW m \in Nat, k <= m,
         NEW near, Rising(near, m), Later(T, near), NEW d, d = [e EXCEPT !.preroll = near]
  PROVE  EarKeeps(d, T, m) /\ d.said = e.said
  <1>0. EarSound(e, T, m) /\ EarCovers(e, T)
    BY KeepsMore DEF EarKeeps
  <1>1. IsEar(e) /\ EarTyped(e) /\ EarHolds(e, T, m) /\ EarDecodes(e) /\ EarRests(e)
    BY <1>0 DEF EarSound
  <1>2. /\ d.backend = e.backend /\ d.state = e.state /\ d.from = e.from /\ d.playback = e.playback
        /\ d.preroll = near /\ d.dictation = e.dictation /\ d.onset = e.onset
        /\ d.command = e.command /\ d.audio = e.audio /\ d.finalPending = e.finalPending
        /\ d.job = e.job /\ d.running = e.running /\ d.heard = e.heard /\ d.said = e.said
    BY <1>1 DEF IsEar, EarFields
  <1>3. near \in AFrames
    BY DEF Rising
  <1>4. IsEar(d)
    BY <1>1, <1>3 DEF IsEar, EarFields
  <1>5. EarTyped(d)
    BY <1>1, <1>2 DEF EarTyped
  <1>6. EarHolds(d, T, m)
    BY <1>1, <1>2 DEF EarHolds
  <1>7. EarDecodes(d) /\ EarCovers(d, T)
    <2>1. EarDecodes(d)
      BY <1>1, <1>2 DEF EarDecodes
    <2>2. EarCovers(d, T)
      BY <1>0, <1>2 DEF EarCovers
    <2>3. QED
      BY <2>1, <2>2
  <1>8. EarRests(d)
    BY <1>1, <1>2 DEF EarRests
  <1>9. QED
    BY <1>2, <1>4, <1>5, <1>6, <1>7, <1>8 DEF EarKeeps, EarSound

LEMMA AwakeKeeps ==
  ASSUME NEW e, NEW T, NEW k, EarKeeps(e, T, k), e.state = "waiting", NEW m, Told(T, m),
         NEW d, d = [e EXCEPT !.state = "listening", !.preroll = <<>>]
  PROVE  EarKeeps(d, T, m) /\ d.said = e.said
  <1>1. /\ IsEar(e) /\ EarTyped(e) /\ EarHolds(e, T, k) /\ EarDecodes(e) /\ EarRests(e) /\ EarCovers(e, T)
    BY DEF EarKeeps, EarSound
  <1>2. /\ d.backend = e.backend /\ d.state = "listening" /\ d.from = e.from /\ d.playback = e.playback
        /\ d.preroll = <<>> /\ d.dictation = e.dictation /\ d.onset = e.onset
        /\ d.command = e.command /\ d.audio = e.audio /\ d.finalPending = e.finalPending
        /\ d.job = e.job /\ d.running = e.running /\ d.heard = e.heard /\ d.said = e.said
    BY <1>1 DEF IsEar, EarFields
  <1>3. e.audio = <<>> /\ e.command = <<>>
    BY <1>1 DEF EarRests
  <1>4. IsEar(d)
    BY <1>1, NoFrames DEF IsEar, EarFields, EarStates
  <1>5. EarTyped(d)
    BY <1>1, <1>2 DEF EarTyped
  <1>6. EarHolds(d, T, m)
    <2>1. Rising(<<>>, m) /\ Later(T, <<>>) /\ Before(<<>>, <<>>) /\ Len(<<>>) = 0
      BY RisingNone DEF Later, Before
    <2>2. LongestFrames >= 0 /\ KeepFrames >= 0
      BY ListeningAssumption
    <2>3. QED
      BY <1>2, <1>3, <2>1, <2>2 DEF EarHolds
  <1>7. EarDecodes(d)
    BY <1>1, <1>2 DEF EarDecodes
  <1>8. EarRests(d)
    BY <1>1, <1>2, <1>3 DEF EarRests
  <1>9. EarCovers(d, T)
    BY <1>1, <1>2 DEF EarCovers
  <1>10. QED
    BY <1>2, <1>4, <1>5, <1>6, <1>7, <1>8, <1>9 DEF EarKeeps, EarSound

\* The rest of a packet after its wake word.
LEMMA RestRises ==
  ASSUME NEW T, NEW near, NEW m \in Nat, Rising(near, m), Later(T, near), NEW k \in Nat, Told(T, k),
         NEW at \in DOMAIN near, NEW rest, rest = SubSeq(near, at + 1, Len(near))
  PROVE  /\ Rising(rest, m) /\ near[at].n \in Nat /\ near[at].n <= m
         /\ Told(T, near[at].n) /\ \A i \in DOMAIN rest : near[at].n < rest[i].n
  <1>1. near \in AFrames
    BY DEF Rising
  <1>2. /\ Len(near) \in Nat /\ DOMAIN near = 1..Len(near) /\ \A i \in DOMAIN near : near[i].n \in Nat
    BY <1>1, FramesAre
  <1>3. at + 1 \in Nat /\ 1 <= at + 1 /\ at \in Nat
    BY <1>2
  <1>4. /\ Rising(rest, m)
        /\ \A i \in DOMAIN rest : (at + 1) + i - 1 \in DOMAIN near /\ rest[i] = near[(at + 1) + i - 1]
    BY SMTT(30), <1>2, <1>3, RisingPart
  <1>5. ASSUME NEW i \in DOMAIN rest PROVE near[at].n < rest[i].n
    <2>1. rest \in AFrames
      BY <1>4 DEF Rising
    <2>2. i \in Nat /\ 1 <= i
      BY <2>1, FramesAre
    <2>3. at < (at + 1) + i - 1
      BY <1>3, <2>2
    <2>4. QED
      BY <1>4, <2>3 DEF Rising
  <1>6. \A i \in DOMAIN T : \A a \in T[i] : a.n <= near[at].n
    <2>1. T \in Seq(SUBSET AFrame)
      BY DEF Told, Tales
    <2>2. \A i \in DOMAIN T : T[i] \in SUBSET AFrame
      BY <2>1
    <2>3. \A a \in AFrame : a.n \in Nat
      BY DEF AFrame
    <2>4. QED
      BY <1>2, <2>2, <2>3 DEF Later
  <1>7. Told(T, near[at].n)
    BY <1>6 DEF Told
  <1>8. QED
    BY <1>2, <1>4, <1>5, <1>7 DEF Rising

-----------------------------------------------------------------------------
\* The microphone, and what its listener holds after what was sent.
MicFields == {"stage", "opens", "frames", "controls"}
IsMic ==
  /\ DOMAIN mic = MicFields /\ mic = [x \in MicFields |-> mic[x]]
  /\ mic.stage \in {"closed", "open"} /\ mic.frames \in 0..MaxFrames
WordsKept == EarKeeps(ear, sent, mic.frames) /\ ear.said = <<>>
WordInv == EarInv /\ IsMic /\ leftover \in BOOLEAN /\ WordsKept

LEMMA WordsSayOn ==
  ASSUME WordsKept
  PROVE  sent \in Tales /\ SaysOn(sent, ear, mic.frames)
  <1>1. sent \in Tales
    BY DEF WordsKept, EarKeeps, EarSound, EarHolds, Told
  <1>2. sent \o <<>> = sent /\ <<>> \in Tales
    BY <1>1 DEF Tales
  <1>3. QED
    BY <1>1, <1>2 DEF WordsKept, SaysOn

LEMMA WordsPublished ==
  ASSUME NEW e, NEW k, SaysOn(sent, e, k), Published(e), mic'.frames = k
  PROVE  WordsKept'
  <1>1. PICK T : T = sent \o e.said
    OBVIOUS
  <1>2. EarKeeps(e, T, k)
    BY <1>1 DEF SaysOn
  <1>3. IsEar(e)
    BY <1>2 DEF EarKeeps, EarSound
  <1>4. PICK d : d = Emptied(e)
    OBVIOUS
  <1>5. IsEar(d)
    BY <1>3, <1>4, EmptiedIs, SameEar
  <1>6. d = [e EXCEPT !.out = <<>>, !.said = <<>>]
    BY <1>4 DEF Emptied
  <1>7. d.said = <<>>
    BY <1>3, <1>6 DEF IsEar, EarFields
  <1>8. \A x \in EarFields \ {"out", "said"} : d[x] = e[x]
    BY <1>3, <1>6 DEF IsEar
  <1>9. EarKeeps(d, T, k)
    BY <1>2, <1>5, <1>8, PlainKeeps DEF Same, PlainFields
  <1>10. ear' = d /\ sent' = T
    BY <1>1, <1>6 DEF Published
  <1>11. QED
    BY <1>7, <1>9, <1>10 DEF WordsKept

LEMMA MicStays ==
  ASSUME IsMic, leftover \in BOOLEAN, [ListeningNext]_listeningVars
  PROVE  IsMic' /\ leftover' \in BOOLEAN
  <1>0. MaxFrames \in Nat
    BY ListeningAssumption
  <1>1. IsMic'
    <2>1. CASE UNCHANGED mic
      BY <2>1 DEF IsMic
    <2>2. CASE mic' = [mic EXCEPT !.stage = "open", !.opens = @ + 1]
      BY <2>2 DEF IsMic, MicFields
    <2>3. CASE mic' = [mic EXCEPT !.stage = "closed"]
      BY <2>3 DEF IsMic, MicFields
    <2>4. CASE mic.frames < MaxFrames /\ mic' = [mic EXCEPT !.frames = @ + 1]
      BY <1>0, <2>4 DEF IsMic, MicFields
    <2>5. CASE mic' = [mic EXCEPT !.controls = @ + 1]
      BY <2>5 DEF IsMic, MicFields
    <2>6. QED
      BY <2>1, <2>2, <2>3, <2>4, <2>5 DEF ListeningNext, listeningVars, MicOpens, MicCloses, FrameArrives,
           ControlArrives, DecoderTakes, DecoderEnds, LeftoverEnds, DecoderPublishes, DecoderFails
  <1>2. leftover' \in BOOLEAN
    BY DEF ListeningNext, listeningVars, MicOpens, MicCloses, FrameArrives,
           ControlArrives, DecoderTakes, DecoderEnds, LeftoverEnds, DecoderPublishes, DecoderFails
  <1>3. QED
    BY <1>1, <1>2

\* Spoken to a listener that waits for its wake word.
LEMMA WaitingWords ==
  ASSUME EarInv, WordsKept, NEW f \in AFrame, mic.frames \in Nat, f.n = mic.frames + 1, f.n <= MaxFrames,
         ear.state = "waiting", NEW near, near = LastOf(Append(ear.preroll, f), WakeFrames)
  PROVE  /\ SaysOn(sent, Woken(ear), f.n) /\ SaysOn(sent, [ear EXCEPT !.preroll = near], f.n)
         /\ \A at \in DOMAIN near : \A up :
              up = [ear EXCEPT !.state = "listening", !.preroll = <<>>] =>
                SaysOn(sent, Framed(Sends(up, StateEvent(up)), SubSeq(near, at + 1, Len(near))), f.n)
  <1>1. PICK k \in Nat : k = mic.frames
    OBVIOUS
  <1>2. EarKeeps(ear, sent, k) /\ ear.said = <<>>
    BY <1>1 DEF WordsKept
  <1>3. sent \in Tales /\ <<>> \in Tales /\ sent \o <<>> = sent
    BY WordsSayOn DEF Tales
  <1>4. k < f.n /\ k <= f.n /\ f.n \in Nat
    BY <1>1
  <1>5. Told(sent, k) /\ Rising(ear.preroll, k) /\ Later(sent, ear.preroll) /\ ear.audio = <<>>
    BY <1>2 DEF EarKeeps, EarSound, EarHolds, EarRests
  <1>6. Rising(near, f.n) /\ Later(sent, near)
    BY <1>4, <1>5, NearbyFrames
  <1>7. SaysOn(sent, Woken(ear), f.n)
    <2>1. EarKeeps(Woken(ear), sent, k) /\ Woken(ear).said = <<>>
      BY <1>2, <1>5, WokenKeeps
    <2>2. SaysOn(sent, Woken(ear), k)
      BY <1>3, <2>1 DEF SaysOn
    <2>3. QED
      BY <1>4, <2>2, SaysOnMore
  <1>8. SaysOn(sent, [ear EXCEPT !.preroll = near], f.n)
    <2>1. PICK d : d = [ear EXCEPT !.preroll = near]
      OBVIOUS
    <2>2. EarKeeps(d, sent, f.n) /\ d.said = <<>>
      BY <1>2, <1>4, <1>6, <2>1, PrerollKeeps
    <2>3. QED
      BY <1>3, <2>1, <2>2 DEF SaysOn
  <1>9. ASSUME NEW at \in DOMAIN near, NEW up, up = [ear EXCEPT !.state = "listening", !.preroll = <<>>]
        PROVE  SaysOn(sent, Framed(Sends(up, StateEvent(up)), SubSeq(near, at + 1, Len(near))), f.n)
    <2>1. PICK rest : rest = SubSeq(near, at + 1, Len(near))
      OBVIOUS
    <2>2. PICK m \in Nat : m = near[at].n
      BY <1>4, <1>5, <1>6, <2>1, RestRises
    <2>3. Rising(rest, f.n) /\ m <= f.n /\ Told(sent, m) /\ \A i \in DOMAIN rest : m < rest[i].n
      BY <1>4, <1>5, <1>6, <2>1, <2>2, RestRises
    <2>4. EarKeeps(up, sent, m) /\ up.said = <<>>
      BY <1>2, <1>9, <2>3, AwakeKeeps
    <2>5. PICK on : on = Sends(up, StateEvent(up))
      OBVIOUS
    <2>6. EarKeeps(on, sent, m) /\ on.said = <<>>
      BY <2>4, <2>5, EventsAre, SendsPlain
    <2>7. SaysOn(sent, on, m)
      BY <1>3, <2>6 DEF SaysOn
    <2>8. SaysOn(sent, Framed(on, rest), f.n)
      BY <1>3, <1>4, <2>3, <2>7, FramesSayOn
    <2>9. QED
      BY <2>1, <2>5, <2>8
  <1>10. QED
    BY <1>7, <1>8, <1>9

LEMMA FrameWords ==
  ASSUME EarInv, IsMic, WordsKept, NEW kind \in FrameKinds, NEW spotted \in BOOLEAN, NEW ended \in BOOLEAN,
         FrameArrives(kind, spotted, ended)
  PROVE  WordsKept'
  <1> DEFINE g == [n |-> mic.frames + 1, kind |-> kind]
             near == LastOf(Append(ear.preroll, g), WakeFrames)
             phrase == {i \in DOMAIN near : near[i].kind = "wake"}
             up == [ear EXCEPT !.state = "listening", !.preroll = <<>>]
             at == CHOOSE i \in phrase : \A j \in phrase : i <= j
             rest == SubSeq(near, at + 1, Len(near))
  <1>0. MaxFrames \in Nat /\ mic.frames \in Nat /\ IsEar(ear)
    BY ListeningAssumption DEF IsMic, EarInv
  <1>1. /\ mic.frames < MaxFrames /\ mic'.frames = mic.frames + 1
    <2>1. mic.frames < MaxFrames /\ mic' = [mic EXCEPT !.frames = @ + 1]
      BY DEF FrameArrives
    <2>2. QED
      BY <2>1 DEF IsMic, MicFields
  <1>2. PICK f \in AFrame : f = g
    <2>1. PICK m \in Nat : m = mic.frames + 1
      BY <1>0
    <2>2. [n |-> m, kind |-> kind] \in AFrame
      BY DEF AFrame
    <2>3. QED
      BY <2>1, <2>2
  <1>3. f.n = mic.frames + 1 /\ f.n \in Nat /\ f.n <= MaxFrames /\ mic'.frames = f.n
    BY <1>0, <1>1, <1>2
  <1>4. SaysOn(sent, ear, mic.frames) /\ sent \in Tales
    BY WordsSayOn
  <1>5. CASE ear.state = "paused"
    <2>1. Published(ear)
      BY <1>5 DEF FrameArrives
    <2>2. SaysOn(sent, ear, f.n)
      BY <1>0, <1>3, <1>4, SaysOnMore
    <2>3. QED
      BY <1>3, <2>1, <2>2, WordsPublished
  <1>6. CASE ear.state = "listening"
    <2>1. Published(Frame(ear, f))
      BY <1>2, <1>6 DEF FrameArrives
    <2>2. SaysOn(sent, Frame(ear, f), f.n)
      BY <1>0, <1>3, <1>4, FrameSaysOn
    <2>3. QED
      BY <1>3, <2>1, <2>2, WordsPublished
  <1>7. CASE ear.state = "waiting"
    <2>1. near = LastOf(Append(ear.preroll, f), WakeFrames)
      BY <1>2
    <2>2. CASE spotted
      <3>1. phrase # {}
        BY <1>7, <2>2 DEF FrameArrives
      <3>2. Published(Framed(Sends(up, StateEvent(up)), rest))
        BY <1>7, <2>2 DEF FrameArrives, Framed
      <3>3. near \in AFrames
        <4>1. ear.preroll \in AFrames
          BY <1>0 DEF IsEar
        <4>2. QED
          BY <1>0, <4>1, PrerollIs
      <3>4. at \in DOMAIN near
        <4>1. phrase \subseteq Nat
          BY <3>3 DEF AFrames
        <4>2. \E i \in phrase : \A j \in phrase : i <= j
          <5> HIDE DEF phrase
          <5>1. QED
            BY <3>1, <4>1, LeastNumber
        <4>3. at \in phrase
          <5> HIDE DEF phrase
          <5>1. QED
            BY <4>2
        <4>4. QED
          BY <4>3
      <3> HIDE DEF near, at
      <3>5. PICK d : d = up
        OBVIOUS
      <3>6. SaysOn(sent, Framed(Sends(d, StateEvent(d)), rest), f.n)
        BY <1>0, <1>3, <1>7, <2>1, <3>4, <3>5, WaitingWords
      <3>7. Published(Framed(Sends(d, StateEvent(d)), rest))
        BY <3>2, <3>5
      <3> HIDE DEF rest
      <3>8. QED
        BY <1>3, <3>6, <3>7, WordsPublished
    <2>3. CASE ~spotted /\ ended
      <3>1. Published(Woken(ear))
        BY <1>7, <2>3 DEF FrameArrives
      <3>2. SaysOn(sent, Woken(ear), f.n)
        BY <1>0, <1>3, <1>7, <2>1, WaitingWords
      <3>3. QED
        BY <1>3, <3>1, <3>2, WordsPublished
    <2>4. CASE ~spotted /\ ~ended
      <3>1. Published([ear EXCEPT !.preroll = near])
        BY <1>7, <2>4 DEF FrameArrives
      <3> HIDE DEF near
      <3>2. SaysOn(sent, [ear EXCEPT !.preroll = near], f.n)
        BY <1>0, <1>3, <1>7, <2>1, WaitingWords
      <3>3. QED
        BY <1>3, <3>1, <3>2, WordsPublished
    <2>5. QED
      BY <2>2, <2>3, <2>4
  <1>8. QED
    BY <1>0, <1>5, <1>6, <1>7 DEF IsEar, EarStates

\* What only clears what was heard, or the frames kept for the wake word.
LEMMA UnheardKeeps ==
  ASSUME NEW e, NEW T, NEW k, EarKeeps(e, T, k), NEW d, IsEar(d), Same(e, d, {"heard", "preroll"}), d.heard = {},
         d.preroll \in {e.preroll, <<>>}
  PROVE  EarKeeps(d, T, k) /\ d.said = e.said
  <1>1. /\ EarTyped(e) /\ EarHolds(e, T, k) /\ EarDecodes(e) /\ EarRests(e)
    BY DEF EarKeeps, EarSound
  <1>2. /\ d.backend = e.backend /\ d.state = e.state /\ d.from = e.from /\ d.playback = e.playback
        /\ d.dictation = e.dictation /\ d.onset = e.onset
        /\ d.command = e.command /\ d.audio = e.audio /\ d.finalPending = e.finalPending
        /\ d.job = e.job /\ d.running = e.running /\ d.said = e.said
    BY DEF Same, EarFields
  <1>3. EarTyped(d)
    BY <1>1, <1>2 DEF EarTyped
  <1>4. EarHolds(d, T, k)
    <2>1. Rising(<<>>, k) /\ Later(T, <<>>)
      BY RisingNone DEF Later
    <2>2. Rising(d.preroll, k) /\ Later(T, d.preroll)
      BY <1>1, <2>1 DEF EarHolds
    <2>3. QED
      BY <1>1, <1>2, <2>2 DEF EarHolds
  <1>5. EarDecodes(d)
    BY <1>1, <1>2 DEF EarDecodes
  <1>6. EarRests(d)
    BY <1>1, <1>2 DEF EarRests
  <1>7. EarCovers(d, T)
    BY DEF EarCovers
  <1>8. QED
    BY <1>2, <1>3, <1>4, <1>5, <1>6, <1>7 DEF EarKeeps, EarSound

LEMMA ControlWords ==
  ASSUME EarInv, IsMic, WordsKept, NEW control \in Controls, ControlArrives(control)
  PROVE  WordsKept'
  <1>1. PICK k : k = mic.frames
    OBVIOUS
  <1>2. mic'.frames = k
    <2>1. mic' = [mic EXCEPT !.controls = @ + 1]
      BY DEF ControlArrives
    <2>2. QED
      BY <1>1, <2>1 DEF IsMic, MicFields
  <1>3. EarKeeps(ear, sent, k) /\ ear.said = <<>> /\ IsEar(ear)
    BY <1>1 DEF WordsKept, EarInv
  <1>4. sent \in Tales /\ <<>> \in Tales /\ sent \o <<>> = sent
    BY WordsSayOn DEF Tales
  <1>5. PICK own : own = [ear EXCEPT !.heard = {}]
    OBVIOUS
  <1>6. IsEar(own) /\ own.heard = {} /\ Same(ear, own, {"heard", "preroll"}) /\ own.preroll = ear.preroll
    <2>1. IsEar(own)
      BY <1>3, <1>5, SameField, SameEar
    <2>2. own.heard = {} /\ own.preroll = ear.preroll
      BY <1>3, <1>5 DEF IsEar, EarFields
    <2>3. \A x \in EarFields \ {"heard", "preroll"} : own[x] = ear[x]
      BY <1>3, <1>5 DEF IsEar
    <2>4. QED
      BY <2>1, <2>2, <2>3 DEF Same
  <1>7. EarKeeps(own, sent, k) /\ own.said = <<>>
    BY <1>3, <1>6, UnheardKeeps
  <1>8. ASSUME NEW e, EarKeeps(e, sent, k), e.said = <<>>, Published(e)
        PROVE  WordsKept'
    BY <1>2, <1>4, <1>8, WordsPublished DEF SaysOn
  <1>9. CASE control = "pause"
    <2>1. Published(Paused(own))
      BY <1>5, <1>9 DEF ControlArrives
    <2>2. EarKeeps(Paused(own), sent, k) /\ Paused(own).said = <<>>
      BY <1>6, <1>7, PausedKeeps
    <2>3. QED
      BY <1>8, <2>1, <2>2
  <1>10. CASE control = "unpause"
    <2>1. Published(Unpaused(own))
      BY <1>5, <1>10 DEF ControlArrives
    <2>2. EarKeeps(Unpaused(own), sent, k) /\ Unpaused(own).said = <<>>
      BY <1>6, <1>7, UnpausedKeeps
    <2>3. QED
      BY <1>8, <2>1, <2>2
  <1>11. CASE control = "resume"
    <2>1. Published(Resumed(own))
      BY <1>5, <1>11 DEF ControlArrives
    <2>2. EarKeeps(Resumed(own), sent, k) /\ Resumed(own).said = <<>>
      BY <1>6, <1>7, ResumedKeeps
    <2>3. QED
      BY <1>8, <2>1, <2>2
  <1>12. ASSUME NEW on \in BOOLEAN, control = (IF on THEN "playing" ELSE "played")
         PROVE  WordsKept'
    <2>1. Published(SetPlayback(ear, on))
      <3>1. CASE on
        <4>1. control = "playing" /\ on = TRUE
          BY <1>12, <3>1
        <4>2. QED
          BY <4>1 DEF ControlArrives
      <3>2. CASE ~on
        <4>1. control = "played" /\ on = FALSE
          BY <1>12, <3>2
        <4>2. QED
          BY <4>1 DEF ControlArrives
      <3>3. QED
        BY <3>1, <3>2
    <2>2. EarKeeps(SetPlayback(ear, on), sent, k) /\ SetPlayback(ear, on).said = <<>>
      BY <1>3, SetPlaybackKeeps
    <2>3. QED
      BY <1>8, <2>1, <2>2
  <1>13. QED
    <2>1. control \in {"pause", "unpause", "resume"} \/ \E on \in BOOLEAN : control = (IF on THEN "playing" ELSE "played")
      BY DEF Controls
    <2>2. QED
      BY <1>9, <1>10, <1>11, <1>12, <2>1

LEMMA NewEarKeeps ==
  ASSUME NEW b \in Backends, NEW T, NEW k, Told(T, k), NEW e, e = NewEar(b)
  PROVE  EarKeeps(e, T, k) /\ e.said = <<>>
  <1>1. /\ e.backend = b /\ e.state = "waiting" /\ e.from = "waiting" /\ e.preroll = <<>>
        /\ e.onset = 0 /\ e.command = <<>> /\ e.audio = <<>> /\ e.heard = {} /\ e.said = <<>>
    BY DEF NewEar
  <1>2. /\ e.playback = FALSE /\ e.dictation = FALSE /\ e.finalPending = FALSE
        /\ e.job = NoJob /\ e.running = NoJob
    BY DEF NewEar
  <1>3. IsEar(e)
    BY NewEarIs
  <1>4. EarTyped(e)
    <2>1. /\ e.playback \in BOOLEAN /\ e.dictation \in BOOLEAN /\ e.finalPending \in BOOLEAN
          /\ e.job.final \in BOOLEAN /\ e.job.canceled \in BOOLEAN
          /\ e.running.final \in BOOLEAN /\ e.running.canceled \in BOOLEAN
      BY <1>2, NoJobIs, Zenon
    <2>2. e.backend \in Backends /\ e.from \in {"waiting", "listening"} /\ e.onset \in Nat /\ e.heard \subseteq 1..MaxFrames
      BY <1>1
    <2>3. QED
      BY <2>1, <2>2, Zenon DEF EarTyped
  <1>5. EarHolds(e, T, k)
    <2>1. Rising(<<>>, k) /\ Later(T, <<>>) /\ Before(<<>>, <<>>) /\ Len(<<>>) = 0
      BY RisingNone DEF Later, Before
    <2>2. LongestFrames >= 0 /\ KeepFrames >= 0
      BY ListeningAssumption
    <2>3. QED
      BY <1>1, <2>1, <2>2 DEF EarHolds
  <1>6. ~e.job.real /\ ~e.running.real /\ ~e.dictation /\ ~e.finalPending
    BY <1>2, NoJobIs
  <1>7. EarDecodes(e)
    BY <1>6 DEF EarDecodes, Live, Final
  <1>8. EarRests(e)
    BY <1>1, <1>6 DEF EarRests, Live, Final
  <1>9. EarCovers(e, T)
    BY <1>1 DEF EarCovers
  <1>10. QED
    BY <1>1, <1>3, <1>4, <1>5, <1>7, <1>8, <1>9 DEF EarKeeps, EarSound

LEMMA OpensWords ==
  ASSUME EarInv, IsMic, WordsKept, MicOpens
  PROVE  WordsKept'
  <1>1. PICK k : k = mic.frames
    OBVIOUS
  <1>2. mic'.frames = k
    <2>1. mic' = [mic EXCEPT !.stage = "open", !.opens = @ + 1]
      BY DEF MicOpens
    <2>2. QED
      BY <1>1, <2>1 DEF IsMic, MicFields
  <1>3. ear.backend \in Backends /\ Told(sent, k)
    BY <1>1 DEF WordsKept, EarKeeps, EarSound, EarTyped, EarHolds
  <1>4. PICK n : n = NewEar(ear.backend)
    OBVIOUS
  <1>5. EarKeeps(n, sent, k) /\ n.said = <<>>
    BY <1>3, <1>4, NewEarKeeps
  <1>6. PICK e : e = Sends(n, StateEvent(n))
    OBVIOUS
  <1>7. EarKeeps(e, sent, k) /\ e.said = <<>>
    BY <1>5, <1>6, EventsAre, SendsPlain
  <1>8. Published(e)
    BY <1>4, <1>6 DEF MicOpens
  <1>9. sent \in Tales /\ <<>> \in Tales /\ sent \o <<>> = sent
    BY WordsSayOn DEF Tales
  <1>10. QED
    BY <1>2, <1>7, <1>8, <1>9, WordsPublished DEF SaysOn

\* The listener is closed with its socket.
LEMMA ShutWords ==
  ASSUME EarInv, IsMic, WordsKept, mic' = [mic EXCEPT !.stage = "closed"], UNCHANGED sent,
         ear' = ResetAttempt(Invalidate([ear EXCEPT !.preroll = <<>>, !.heard = {}], FALSE))
  PROVE  WordsKept'
  <1>1. PICK k : k = mic.frames
    OBVIOUS
  <1>2. mic'.frames = k
    BY <1>1 DEF IsMic, MicFields
  <1>3. EarKeeps(ear, sent, k) /\ ear.said = <<>> /\ IsEar(ear)
    BY <1>1 DEF WordsKept, EarInv
  <1>4. PICK d : d = [ear EXCEPT !.preroll = <<>>, !.heard = {}]
    OBVIOUS
  <1>5. IsEar(d) /\ d.heard = {} /\ d.preroll = <<>> /\ Same(ear, d, {"heard", "preroll"})
    <2>1. PICK c : c = [ear EXCEPT !.preroll = <<>>]
      OBVIOUS
    <2>2. d = [c EXCEPT !.heard = {}]
      BY <1>4, <2>1
    <2>3. IsEar(c)
      BY <1>3, <2>1, SameField, SameEar
    <2>4. IsEar(d)
      BY <2>2, <2>3, SameField, SameEar
    <2>5. d.heard = {} /\ d.preroll = <<>>
      BY <1>3, <1>4 DEF IsEar, EarFields
    <2>6. \A x \in EarFields \ {"heard", "preroll"} : d[x] = ear[x]
      BY <1>3, <1>4 DEF IsEar
    <2>7. QED
      BY <2>4, <2>5, <2>6 DEF Same
  <1>6. EarKeeps(d, sent, k) /\ d.said = <<>>
    BY <1>3, <1>5, UnheardKeeps
  <1>7. PICK c : c = ResetAttempt(Invalidate(d, FALSE))
    OBVIOUS
  <1>8. EarKeeps(c, sent, k) /\ c.said = <<>>
    BY <1>5, <1>6, <1>7, ClearedKeeps
  <1>9. ear' = c
    BY <1>4, <1>7
  <1>10. QED
    BY <1>2, <1>8, <1>9 DEF WordsKept

LEMMA TakesWords ==
  ASSUME EarInv, IsMic, WordsKept, DecoderTakes
  PROVE  WordsKept'
  <1>1. PICK k : k = mic.frames
    OBVIOUS
  <1>2. EarKeeps(ear, sent, k) /\ ear.said = <<>>
    BY <1>1 DEF WordsKept
  <1>3. /\ IsEar(ear) /\ EarTyped(ear) /\ EarHolds(ear, sent, k) /\ EarDecodes(ear) /\ EarRests(ear)
        /\ EarCovers(ear, sent) /\ ear.job.real
    BY <1>2 DEF EarKeeps, EarSound, DecoderTakes
  <1>4. PICK j : j = NoJob
    OBVIOUS
  <1>5. ~j.real /\ j.final \in BOOLEAN /\ j.canceled \in BOOLEAN /\ IsJob(j)
    <2>1. j.final \in BOOLEAN /\ j.canceled \in BOOLEAN
      BY <1>4, NoJobIs, Zenon
    <2>2. QED
      BY <1>4, <2>1, NoJobIs, Zenon
  <1>6. PICK d : d = [ear EXCEPT !.running = ear.job, !.job = j]
    OBVIOUS
  <1>7. ear' = d /\ UNCHANGED <<mic, sent>>
    BY <1>4, <1>6 DEF DecoderTakes
  <1>8. /\ d.backend = ear.backend /\ d.state = ear.state /\ d.from = ear.from /\ d.playback = ear.playback
        /\ d.preroll = ear.preroll /\ d.dictation = ear.dictation /\ d.onset = ear.onset
        /\ d.command = ear.command /\ d.audio = ear.audio /\ d.finalPending = ear.finalPending
        /\ d.job = j /\ d.running = ear.job /\ d.heard = ear.heard /\ d.said = ear.said
    BY <1>3, <1>6 DEF IsEar, EarFields
  <1>9. IsEar(d)
    BY <1>3, <1>5, <1>6 DEF IsEar, EarFields
  <1>10. EarTyped(d)
    BY <1>3, <1>5, <1>8 DEF EarTyped
  <1>11. EarHolds(d, sent, k)
    BY <1>3, <1>8 DEF EarHolds
  <1>12. EarDecodes(d)
    BY <1>3, <1>5, <1>8 DEF EarDecodes, Live, Final
  <1>13. EarRests(d)
    BY <1>3, <1>5, <1>8 DEF EarRests, Live, Final
  <1>14. EarCovers(d, sent)
    BY <1>3, <1>8 DEF EarCovers
  <1>15. EarKeeps(d, sent, k)
    BY <1>9, <1>10, <1>11, <1>12, <1>13, <1>14 DEF EarKeeps, EarSound
  <1>16. QED
    BY <1>1, <1>2, <1>7, <1>8, <1>15 DEF WordsKept

LEMMA PublishesWords ==
  ASSUME EarInv, IsMic, WordsKept, DecoderPublishes
  PROVE  WordsKept'
  <1>1. /\ decoder.stage = "decoded" /\ Published(Completed(ear, decoder.text)) /\ UNCHANGED mic
    BY DEF DecoderPublishes
  <1>2. PICK text : text = decoder.text
    OBVIOUS
  <1>3. ear.running.real /\ ear.backend # "vosk" /\ text = Worded(ear.running.audio)
    BY <1>1, <1>2 DEF EarInv
  <1>4. PICK k \in Nat : k = mic.frames
    BY DEF IsMic
  <1>5. EarKeeps(ear, sent, k) /\ ear.said = <<>>
    BY <1>4 DEF WordsKept
  <1>6. PICK e : e = Completed(ear, text)
    OBVIOUS
  <1>7. Tells(ear, sent, e, k)
    BY <1>3, <1>5, <1>6, CompletedTells
  <1>8. sent \in Tales /\ <<>> \in Tales /\ sent \o <<>> = sent
    BY WordsSayOn DEF Tales
  <1>9. SaysOn(sent, e, k)
    BY <1>5, <1>7, <1>8, TellsSaysOn
  <1>10. Published(e) /\ mic'.frames = k
    BY <1>1, <1>2, <1>4, <1>6
  <1>11. QED
    BY <1>9, <1>10, WordsPublished

LEMMA WordsStay ==
  ASSUME WordInv, [ListeningNext]_listeningVars
  PROVE  WordInv'
  <1>0. EarInv /\ IsMic /\ WordsKept /\ leftover \in BOOLEAN
    BY DEF WordInv
  <1>1. EarInv' /\ IsMic' /\ leftover' \in BOOLEAN
    BY <1>0, EarStays, MicStays
  <1>2. WordsKept'
    <2>1. CASE MicOpens
      BY <1>0, <2>1, OpensWords
    <2>2. CASE MicCloses
      BY <1>0, <2>2, ShutWords DEF MicCloses
    <2>3. CASE \E kind \in FrameKinds, spotted, ended \in BOOLEAN : FrameArrives(kind, spotted, ended)
      BY <1>0, <2>3, FrameWords
    <2>4. CASE \E control \in Controls : ControlArrives(control)
      BY <1>0, <2>4, ControlWords
    <2>5. CASE DecoderTakes
      BY <1>0, <2>5, TakesWords
    <2>6. CASE UNCHANGED <<ear, mic, sent>>
      BY <1>0, <2>6 DEF WordsKept
    <2>7. CASE DecoderPublishes
      BY <1>0, <2>7, PublishesWords
    <2>8. CASE DecoderFails
      <3>1. CASE Outdated(ear.running)
        BY <2>6, <2>8, <3>1 DEF DecoderFails
      <3>2. CASE ~Outdated(ear.running)
        BY <1>0, <2>8, <3>2, ShutWords DEF DecoderFails
      <3>3. QED
        BY <3>1, <3>2
    <2>9. QED
      BY <2>1, <2>2, <2>3, <2>4, <2>5, <2>6, <2>7, <2>8
         DEF ListeningNext, listeningVars, DecoderEnds, LeftoverEnds
  <1>3. QED
    BY <1>1, <1>2 DEF WordInv

LEMMA WordsStart == ASSUME ListeningInit PROVE WordInv
  <1>1. PICK b \in Backends : ear = NewEar(b)
    BY DEF ListeningInit
  <1>2. mic = [stage |-> "closed", opens |-> 0, frames |-> 0, controls |-> 0] /\ sent = <<>> /\ leftover = FALSE
    BY DEF ListeningInit
  <1>3. IsMic /\ mic.frames = 0
    BY <1>2, ListeningAssumption DEF IsMic, MicFields
  <1>4. Told(sent, 0)
    <2>1. <<>> \in Tales /\ DOMAIN <<>> = {}
      BY DEF Tales
    <2>2. QED
      BY <1>2, <2>1 DEF Told
  <1>5. EarKeeps(ear, sent, 0) /\ ear.said = <<>>
    BY <1>1, <1>4, NewEarKeeps
  <1>6. leftover \in BOOLEAN
    BY <1>2, Zenon
  <1>7. QED
    BY <1>3, <1>5, <1>6, EarStarts DEF WordInv, WordsKept

\* What the invariant says of the words themselves.
LEMMA WordsAreInOrder ==
  ASSUME WordInv
  PROVE  /\ \A i, j \in DOMAIN sent : i < j => \A a \in WordsOf(sent[i]), b \in WordsOf(sent[j]) : a < b
         /\ (OneFrameStarts => WordsArriveOnce)
  <1>1. Told(sent, mic.frames) /\ EarCovers(ear, sent)
    BY DEF WordInv, WordsKept, EarKeeps, EarSound, EarHolds
  <1>2. \A i, j \in DOMAIN sent : i < j => \A a \in WordsOf(sent[i]), b \in WordsOf(sent[j]) : a < b
    BY <1>1 DEF Told, WordsOf
  <1>3. ASSUME OneFrameStarts, NEW n \in ear.heard
        PROVE  n \in Unsent \/ (\E i \in DOMAIN sent : n \in WordsOf(sent[i]))
    <2>1. CASE Loud(ear.audio, n)
      <3>1. PICK i \in DOMAIN ear.audio : ear.audio[i].n = n
        BY <2>1 DEF Loud
      <3>2. ear.audio[i] \in ToSet(ear.audio)
        BY <3>1 DEF ToSet
      <3>3. QED
        BY <3>1, <3>2 DEF Unsent, WordsOf
    <2>2. CASE WasSent(sent, n)
      BY <2>2 DEF WasSent, WordsOf
    <2>3. QED
      BY <1>1, <1>3, <2>1, <2>2 DEF EarCovers
  <1>4. QED
    BY <1>2, <1>3 DEF WordsArriveOnce

\* What is held, and the states of the parts of it.
LEMMA WordsAreTyped == ASSUME WordInv PROVE ListeningTypeOK
  <1>1. /\ EarInv /\ IsMic /\ leftover \in BOOLEAN
        /\ IsEar(ear) /\ EarTyped(ear) /\ EarHolds(ear, sent, mic.frames)
    BY DEF WordInv, WordsKept, EarKeeps, EarSound
  <1>2. mic.frames \in Nat /\ MaxFrames \in Nat /\ mic.frames <= MaxFrames
    BY <1>1, ListeningAssumption DEF IsMic
  <1>3. Len(ear.audio) \in Nat /\ Len(ear.audio) <= MaxFrames
    <2>1. Rising(ear.audio, mic.frames)
      BY <1>1 DEF EarHolds
    <2>2. Len(ear.audio) \in Nat /\ Len(ear.audio) <= mic.frames
      BY <1>2, <2>1, RisingShort, FramesAre DEF Rising
    <2>3. QED
      BY <1>2, <2>2
  <1>4. Len(ear.audio) <= (IF ear.backend = "whisper" THEN LongestFrames ELSE MaxFrames)
    BY <1>1, <1>3 DEF EarHolds
  <1>5. {ear.playback, ear.dictation, ear.finalPending, muted, leftover} \subseteq BOOLEAN
    BY <1>1 DEF EarTyped, EarInv
  <1>6. QED
    BY <1>1, <1>4, <1>5 DEF ListeningTypeOK, EarTyped, EarHolds, EarInv, IsDecoder, IsMic, IsEar, EarStates, Stages

(* Texts are sent in the order in which their words were spoken, whatever  *)
(* the lengths are (whisper_listener.py 60-230), for the composition that  *)
(* TLC runs.                                                               *)
WordsInOrder ==
  \A i, j \in DOMAIN sent : i < j => \A a \in WordsOf(sent[i]), b \in WordsOf(sent[j]) : a < b

THEOREM WordsStayInOrder == BuildsSpec => []WordsInOrder
  <1>1. WordInv => WordsInOrder
    BY WordsAreInOrder DEF WordsInOrder
  <1>2. QED
    BY <1>1, WordsStart, WordsStay, BuildsAreTheirParts, PTL DEF ListeningSpec

(* And no word that was clearly spoken is lost on the way, when one frame  *)
(* is enough for speech to begin, as in the run.                           *)
THEOREM WordsAreSentOnce ==
  ASSUME OneFrameStarts
  PROVE  BuildsSpec => []WordsArriveOnce
  <1>1. WordInv => WordsArriveOnce
    BY WordsAreInOrder
  <1>2. QED
    BY <1>1, WordsStart, WordsStay, BuildsAreTheirParts, PTL DEF ListeningSpec

(* The states and histories of the parts have the shape their code gives   *)
(* them (scheduling.py, selfmod, engine/voice.py), for the composition     *)
(* that TLC runs.                                                          *)
THEOREM BuildsStayTyped == BuildsSpec => []BuildsTypeOK
  <1>1. IInv /\ LossInv /\ TimerTyped /\ [Next]_vars => IInv' /\ LossInv' /\ TimerTyped'
    BY StepInvariant, LossStep, TimerStaysTyped
  <1>2. SpeechInv /\ SpeechTyped /\ [SpeechNext]_speechVars => SpeechInv' /\ SpeechTyped'
    BY SpeechNextInv, SpeechStaysTyped
  <1>3. SpeechInv /\ SpeechTyped => SpeechTypeOK
    BY SpeechIsTyped
  <1>4. WordInv => ListeningTypeOK
    BY WordsAreTyped
  <1>5. TypeOK /\ BuildTypeOK /\ ServiceTypeOK /\ StepsTypeOK /\ ListeningTypeOK /\ SpeechTypeOK => BuildsTypeOK
    BY DEF BuildsTypeOK
  <1>6. BuildsSpec => []TypeOK
    BY <1>1, InitInvariant, LossInitially, TimerBegins, TimerIsTyped, BuildsAreTheirParts, PTL
  <1>7. BuildsSpec => []SpeechTypeOK
    BY <1>2, <1>3, SpeechInitInv, SpeechBegins, BuildsAreTheirParts, PTL
  <1>8. BuildsSpec => []ListeningTypeOK
    BY <1>4, WordsStart, WordsStay, BuildsAreTheirParts, PTL DEF ListeningSpec
  <1>9. BuildsSpec => [](BuildTypeOK /\ ServiceTypeOK /\ StepsTypeOK)
    BY BuildsStayProven, ServiceStaysTyped, StepsStayTyped, BuildsAreTheirParts, PTL
  <1>10. QED
    BY <1>5, <1>6, <1>7, <1>8, <1>9, PTL
=============================================================================
