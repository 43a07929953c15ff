---------------------------- MODULE ModelAdmission ----------------------------
(***************************************************************************)
(* Who may use the language model: ModelAdmission of                       *)
(* src/recollect/engine/model_admission.py.                                *)
(*                                                                         *)
(* acquire puts a future into the queue of a lane and awaits it; _wake      *)
(* hands a free slot to the first live future of a lane.  Nothing here has  *)
(* a lock: between two awaits the code runs alone, so each piece of code    *)
(* between awaits is one action.  What interleaves is what asyncio leaves   *)
(* between setting a future and the caller's next step: the caller may be   *)
(* cancelled, or the admission closed, when the slot is already its own.    *)
(***************************************************************************)
EXTENDS Naturals, Sequences, FiniteSets

CONSTANTS
  Callers,     \* the coroutines that use the model, one acquire at a time each
  Slots,       \* server slots: 1, 2 or 3
  MaxWaiting   \* the bound of 32 on all waiters together

ASSUME AdmissionAssumption ==
  /\ Slots \in {1, 2, 3}
  /\ MaxWaiting \in Nat \ {0}
  /\ IsFiniteSet(Callers)

VARIABLES
  queue,    \* _foreground, _background and _modifier, by lane
  phase,    \* where each caller's acquire, or lease, is
  lane,     \* the lane each caller asked for last
  busy,     \* the slots in use
  streak,   \* _foreground_streak; only whether it reached 2 is ever read
  closed,   \* _closed
  passed    \* history: conversation grants in a row while a worker waits, up
            \* to 3

vars == <<queue, phase, lane, busy, streak, closed, passed>>

LANES == {"conversation", "worker", "modifier"}

\* _lane: only the three-slot profile has a modifier lane
ServedLanes == IF Slots = 3 THEN LANES ELSE LANES \ {"modifier"}

\* _busy is shared by the lanes of a single slot, otherwise each has its own.
SlotOf(l) == IF Slots = 1 THEN "shared" ELSE l
SlotNames == {SlotOf(l) : l \in ServedLanes}

Phases ==
  {"idle",
   "queued",     \* its future is pending
   "cancelled",  \* its future is cancelled, it has not run since
   "refused",    \* its future has close's exception, it has not run since
   "granted",    \* its future has a result, it has not run since
   "revoked",    \* granted, then cancelled before it ran
   "holding"}    \* acquire has returned

\* The callers a slot is taken for.
Owns(c) == phase[c] \in {"granted", "revoked", "holding"}

Members(q) == {q[i] : i \in 1..Len(q)}
Distinct(q) == \A i, j \in 1..Len(q) : q[i] = q[j] => i = j

Waiting(Q) == Len(Q["conversation"]) + Len(Q["worker"]) + Len(Q["modifier"])

\* Mutant: a newcomer is put first.
Joined_First(q, c) == <<c>> \o q

Joined(q, c) == Append(q, c)

\* Mutant: a place that is given up is kept.
Without_Nothing(q, c) == q

\* deque.remove, nothing if it is not there
Without(q, c) ==
  IF c \in Members(q)
  THEN LET i == CHOOSE j \in 1..Len(q) : q[j] = c
       IN SubSeq(q, 1, i - 1) \o SubSeq(q, i + 1, Len(q))
  ELSE q

\* "while queue and queue[0].cancelled(): queue.popleft()"
Purged(q, P) ==
  LET live == {i \in 1..Len(q) : P[q[i]] # "cancelled"}
  IN IF live = {} THEN <<>>
     ELSE SubSeq(q, CHOOSE i \in live : \A j \in live : i <= j, Len(q))

\* Mutant: the conversation always goes first.
Preferred_Conversation(Q) ==
  IF Q["worker"] # <<>> /\ Q["conversation"] = <<>>
  THEN "worker" ELSE "conversation"

\* The lane a single slot goes to.
Preferred(Q) ==
  IF Q["worker"] # <<>> /\ (Q["conversation"] = <<>> \/ streak >= 2)
  THEN "worker" ELSE "conversation"

\* The lanes whose first waiter is given a slot, when the slots B are in use.
Lucky(Q, B) ==
  IF Slots = 1
  THEN {l \in {Preferred(Q)} : Q[l] # <<>> /\ "shared" \notin B}
  ELSE {l \in ServedLanes : Q[l] # <<>> /\ l \notin B}

\* Mutant: the flag of the lane is set, also when the lanes share a slot.
Taken_Lane(lucky) == lucky

\* The slots of the lanes that are served.
Taken(lucky) == {SlotOf(l) : l \in lucky}

NextStreak(lucky) ==
  IF Slots # 1 \/ lucky = {} THEN streak
  ELSE IF "worker" \in lucky THEN 0
  ELSE IF streak >= 2 THEN 2 ELSE streak + 1

NextPassed(lucky, left) ==
  IF Slots # 1 \/ "worker" \in lucky \/ left["worker"] = <<>> THEN 0
  ELSE IF "conversation" \in lucky
  THEN (IF passed >= 3 THEN 3 ELSE passed + 1)
  ELSE passed

(***************************************************************************)
(* _wake, after its caller left the queues Q, the phases P and the slots B. *)
(* A caller that is given a slot while it runs, inside its own acquire,     *)
(* goes on at once: awaiting a future that is done does not suspend.        *)
(***************************************************************************)
Wake(Q, P, B, running) ==
  LET first == [l \in LANES |-> Purged(Q[l], P)]
      lucky == Lucky(first, B)
      left == [l \in LANES |-> IF l \in lucky THEN Tail(first[l]) ELSE first[l]]
  IN /\ queue' = left
     /\ phase' = [c \in Callers |->
                    IF \E l \in lucky : Head(first[l]) = c
                    THEN IF c \in running THEN "holding" ELSE "granted"
                    ELSE P[c]]
     /\ busy' = B \cup Taken(lucky)
     /\ streak' = NextStreak(lucky)
     /\ passed' = NextPassed(lucky, left)

Init ==
  /\ queue = [l \in LANES |-> <<>>]
  /\ phase = [c \in Callers |-> "idle"]
  /\ lane = [c \in Callers |-> "conversation"]
  /\ busy = {}
  /\ streak = 0
  /\ closed = FALSE
  /\ passed = 0

\* acquire; it raises, and changes nothing, when closed or full
Acquire(c, l) ==
  /\ phase[c] = "idle"
  /\ l \in ServedLanes
  /\ ~closed
  /\ Waiting(queue) < MaxWaiting
  /\ lane' = [lane EXCEPT ![c] = l]
  /\ Wake([queue EXCEPT ![l] = Joined(@, c)],
          [phase EXCEPT ![c] = "queued"], busy, {c})
  /\ UNCHANGED closed

\* Task.cancel on a caller that awaits its future
Cancel(c) ==
  /\ phase[c] \in {"queued", "granted"}
  /\ phase' = [phase EXCEPT ![c] = IF @ = "queued" THEN "cancelled" ELSE "revoked"]
  /\ UNCHANGED <<queue, lane, busy, streak, closed, passed>>

\* acquire returns
Resume(c) ==
  /\ phase[c] = "granted"
  /\ phase' = [phase EXCEPT ![c] = "holding"]
  /\ UNCHANGED <<queue, lane, busy, streak, closed, passed>>

\* Mutant: the transferred lease is forgotten.
GiveBack_Forgets(c) ==
  /\ phase[c] = "revoked"
  /\ phase' = [phase EXCEPT ![c] = "idle"]
  /\ UNCHANGED <<queue, lane, busy, streak, closed, passed>>

\* acquire raises: a lease that was already transferred is handed on
GiveBack(c) ==
  /\ phase[c] = "revoked"
  /\ Wake(queue, [phase EXCEPT ![c] = "idle"], busy \ {SlotOf(lane[c])}, {})
  /\ UNCHANGED <<lane, closed>>

\* ... and a place in the queue is given up
Leave(c) ==
  /\ phase[c] \in {"cancelled", "refused"}
  /\ Wake([queue EXCEPT ![lane[c]] = Without(@, c)],
          [phase EXCEPT ![c] = "idle"], busy, {})
  /\ UNCHANGED <<lane, closed>>

\* Mutant: the slot is freed and nobody is woken.
Release_Silent(c) ==
  /\ phase[c] = "holding"
  /\ phase' = [phase EXCEPT ![c] = "idle"]
  /\ busy' = busy \ {SlotOf(lane[c])}
  /\ UNCHANGED <<queue, lane, streak, closed, passed>>

\* release, at the end of the lease
Release(c) ==
  /\ phase[c] = "holding"
  /\ Wake(queue, [phase EXCEPT ![c] = "idle"], busy \ {SlotOf(lane[c])}, {})
  /\ UNCHANGED <<lane, closed>>

\* close: waiters are refused, owners keep their slot
Close ==
  /\ ~closed
  /\ closed' = TRUE
  /\ queue' = [l \in LANES |-> <<>>]
  /\ phase' = [c \in Callers |-> IF phase[c] = "queued" THEN "refused" ELSE phase[c]]
  /\ UNCHANGED <<lane, busy, streak, passed>>

Next ==
  \/ Close
  \/ \E c \in Callers :
       \/ \E l \in LANES : Acquire(c, l)
       \/ Cancel(c) \/ Resume(c) \/ GiveBack(c) \/ Leave(c) \/ Release(c)

Spec == Init /\ [][Next]_vars

(***************************************************************************)
(* Fairness: the event loop runs what is ready, and whoever holds a lease   *)
(* ends it: every inference has a timeout or an owner that is cancelled.    *)
(***************************************************************************)
Fairness ==
  \A c \in Callers :
    WF_vars(Resume(c)) /\ WF_vars(GiveBack(c)) /\ WF_vars(Leave(c)) /\ WF_vars(Release(c))

FairSpec == Spec /\ Fairness

-----------------------------------------------------------------------------
TypeOK ==
  /\ queue \in [LANES -> Seq(Callers)]
  /\ phase \in [Callers -> Phases]
  /\ lane \in [Callers -> ServedLanes]
  /\ busy \subseteq SlotNames
  /\ streak \in 0..2
  /\ closed \in BOOLEAN
  /\ passed \in 0..3

\* What _wake may take from a queue: every entry is a future of its lane that
\* is pending or cancelled, once, and every pending future has its entry.  So
\* set_result never meets a future that is done.
QueueLive ==
  /\ \A l \in LANES : \A c \in Members(queue[l]) :
       lane[c] = l /\ phase[c] \in {"queued", "cancelled"}
  /\ \A l \in LANES : Distinct(queue[l])
  /\ \A c \in Callers : phase[c] = "queued" => c \in Members(queue[lane[c]])

\* A slot is in use exactly when one caller owns it: no lease is leaked by a
\* cancellation after the transfer, and none is held twice.
SlotAccounted ==
  /\ \A c \in Callers : Owns(c) => SlotOf(lane[c]) \in busy
  /\ \A s \in busy : \E c \in Callers : Owns(c) /\ SlotOf(lane[c]) = s
  /\ \A c, d \in Callers :
       Owns(c) /\ Owns(d) /\ SlotOf(lane[c]) = SlotOf(lane[d]) => c = d

\* Nobody waits for a slot that is free.
NoIdleSlot ==
  \A c \in Callers : phase[c] = "queued" => SlotOf(lane[c]) \in busy

\* With one slot at most two conversation requests in a row pass a waiting
\* worker ("foreground preference does not starve background").
BoundedOvertaking == passed <= 2

\* c is before d: it has the slot d waits for, or an earlier place.
Ahead(c, d) ==
  LET q == queue[lane[d]] IN
  /\ lane[c] = lane[d]
  /\ Owns(c) \/ \E i, j \in 1..Len(q) : i < j /\ q[i] = c /\ q[j] = d

\* Within a lane, first come, first served: nobody gets ahead of a caller who
\* waits, not even one that arrives as the slot is freed.
FirstComeFirstServed ==
  [][\A c, d \in Callers :
       c # d /\ phase[d] = "queued" /\ phase'[d] = "queued" /\ ~Ahead(c, d) => ~Ahead(c, d)'
    ]_vars

\* Whoever waits gets a slot, or gives up, or is refused.
WaitersAreServed ==
  \A c \in Callers : phase[c] = "queued" ~> phase[c] # "queued"

\* After close the model comes to rest once the last owner is done.
CloseDrains == closed ~> (busy = {} /\ \A l \in LANES : queue[l] = <<>>)

=============================================================================
