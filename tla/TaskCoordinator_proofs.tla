----------------------- MODULE TaskCoordinator_proofs -----------------------
(***************************************************************************)
(* Theorems about TaskCoordinator, for every number of tasks, conversations *)
(* and requests and for every limit.  The first part says who owns the     *)
(* running work.  The second adds what the users are told of it: a request *)
(* takes effect once, a result hides no instruction, queued work keeps its *)
(* place, and what is reset is gone.                                       *)
(***************************************************************************)
EXTENDS MC_TaskCoordinator, SequenceTheorems, FiniteSetTheorems, TLAPS

-----------------------------------------------------------------------------
(***************************************************************************)
(* What the store's transactions do to one record.                         *)
(***************************************************************************)

Stores == [Ids -> TaskRecord]

\* TaskStore.update(state=...): one state changes.
LEMMA WithStateEffect ==
  ASSUME NEW store \in Stores, NEW t \in Ids, NEW x \in States \cup {"none"}
  PROVE  /\ WithState(store, t, x) \in Stores
         /\ WithState(store, t, x)[t].state = x
         /\ WithState(store, t, x)[t].steers = store[t].steers
         /\ \A u \in Ids : u # t => WithState(store, t, x)[u] = store[u]
  BY DEF WithState, Stores, TaskRecord

\* TaskStore.start: one record appears, queued.
LEMMA StartedEffect ==
  ASSUME NEW store \in Stores, NEW c \in Ids, NEW s \in Sessions \cup {NoSession},
         NEW r \in Requests, NEW p \in Ids \cup {NoTask}
  PROVE  /\ Started(store, c, s, r, p) \in Stores
         /\ Started(store, c, s, r, p)[c].state = "queued"
         /\ \A u \in Ids : u # c => Started(store, c, s, r, p)[u] = store[u]
  BY SMTT(60) DEF Started, NewTask, Stores, TaskRecord, States

\* TaskStore.steer: the instruction is filed, the state stays.
LEMMA WithSteerEffect ==
  ASSUME NEW store \in Stores, NEW t \in Ids, NEW r \in Requests
  PROVE  /\ WithSteer(store, t, r) \in Stores
         /\ \A u \in Ids : WithSteer(store, t, r)[u].state = store[u].state
         /\ \A u \in Ids : u # t => WithSteer(store, t, r)[u] = store[u]
  BY SMTT(60) DEF WithSteer, Stores, TaskRecord

\* TaskStore.accept_revision: the state stays.
LEMMA WithAcceptedEffect ==
  ASSUME NEW store \in Stores, NEW t \in Ids, NEW v \in Nat
  PROVE  /\ WithAccepted(store, t, v) \in Stores
         /\ \A u \in Ids : WithAccepted(store, t, v)[u].state = store[u].state
         /\ \A u \in Ids : u # t => WithAccepted(store, t, v)[u] = store[u]
  BY DEF WithAccepted, Stores, TaskRecord

\* The link to a follow-up: the state stays.
LEMMA WithFollowupEffect ==
  ASSUME NEW store \in Stores, NEW t \in Ids, NEW c \in Ids
  PROVE  /\ WithFollowup(store, t, c) \in Stores
         /\ \A u \in Ids : WithFollowup(store, t, c)[u].state = store[u].state
         /\ \A u \in Ids : u # t => WithFollowup(store, t, c)[u] = store[u]
  BY DEF WithFollowup, Stores, TaskRecord

\* "accepted_revision or 1" is a revision.
LEMMA CoveredType ==
  ASSUME NEW store \in Stores, NEW t \in Ids
  PROVE  Covered(store[t]) \in Nat /\ Revision(store[t]) \in Nat
  BY DEF Covered, Revision, Stores, TaskRecord

\* The end of a run: state and result of one task.
LEMMA WithResultEffect ==
  ASSUME NEW store \in Stores, NEW t \in Ids, NEW x \in States
  PROVE  /\ WithResult(store, t, x) \in Stores
         /\ WithResult(store, t, x)[t].state = x
         /\ WithResult(store, t, x)[t].steers = store[t].steers
         /\ WithResult(store, t, x)[t].accepted = store[t].accepted
         /\ \A u \in Ids : u # t => WithResult(store, t, x)[u] = store[u]
  <1>1. Covered(store[t]) \in Nat
    BY CoveredType
  <1>2. QED
    BY <1>1, ZenonT(60) DEF WithResult, Stores, TaskRecord

\* A row that is not there is a record as well.
LEMMA AbsentType == Absent \in TaskRecord /\ Absent.state = "none"
  BY DEF Absent, TaskRecord

\* TaskStore.recover: what was running is interrupted, the rest stays.
LEMMA RecoveredEffect ==
  ASSUME NEW store \in Stores
  PROVE  /\ Recovered(store) \in Stores
         /\ \A u \in Ids :
              IF store[u].state \in {"running", "cancel-requested"}
              THEN Recovered(store)[u].state = "interrupted"
              ELSE Recovered(store)[u] = store[u]
  BY DEF Recovered, Stores, TaskRecord, States

-----------------------------------------------------------------------------
(***************************************************************************)
(* The queue.                                                              *)
(***************************************************************************)

\* deque.remove yields a queue of the same tasks, and no work from nowhere.
LEMMA WithoutType ==
  ASSUME NEW q \in Seq(Ids), NEW t \in Ids
  PROVE  Without(q, t) \in Seq(Ids) /\ (Without(q, t) # <<>> => q # <<>>)
  <1>1. CASE \E i \in 1..Len(q) : q[i] = t
    <2> DEFINE i == CHOOSE j \in 1..Len(q) : q[j] = t
    <2>1. i \in 1..Len(q)
      BY <1>1
    <2> HIDE DEF i
    <2>2. SubSeq(q, 1, i - 1) \in Seq(Ids) /\ SubSeq(q, i + 1, Len(q)) \in Seq(Ids)
      <3>1. i - 1 \in Int /\ i + 1 \in Int /\ Len(q) \in Int
        BY <2>1
      <3>2. \A k \in 1..(i - 1) : q[k] \in Ids
        BY <2>1
      <3>3. \A k \in (i + 1)..Len(q) : q[k] \in Ids
        BY <2>1
      <3>4. SubSeq(q, 1, i - 1) \in Seq(Ids)
        BY <3>1, <3>2, SubSeqProperties
      <3>5. SubSeq(q, i + 1, Len(q)) \in Seq(Ids)
        BY <3>1, <3>3, SubSeqProperties
      <3>6. QED
        BY <3>4, <3>5
    <2>3. q # <<>>
      BY <2>1
    <2>4. Without(q, t) = SubSeq(q, 1, i - 1) \o SubSeq(q, i + 1, Len(q))
      BY <1>1 DEF Without, i
    <2>5. Without(q, t) \in Seq(Ids)
      BY <2>2, <2>4, ConcatProperties
    <2>6. QED
      BY <2>3, <2>5
  <1>2. CASE ~ \E i \in 1..Len(q) : q[i] = t
    BY <1>2 DEF Without
  <1>3. QED
    BY <1>1, <1>2

\* The queue of a conversation that is reset: what is left was there before.
LEMMA OnlyOthersPendingType ==
  ASSUME pending \in Seq(Ids), NEW s, OnlyOthersPending(s)
  PROVE  pending' \in Seq(Ids) /\ (pending' # <<>> => pending # <<>>)
  <1>1. PICK n \in 0..Len(pending) :
          \E f \in [1..n -> 1..Len(pending)] :
            pending' = [i \in 1..n |-> pending[f[i]]]
    BY DEF OnlyOthersPending
  <1>2. PICK f \in [1..n -> 1..Len(pending)] :
          pending' = [i \in 1..n |-> pending[f[i]]]
    BY <1>1
  <1>3. n \in Nat /\ \A i \in 1..n : f[i] \in 1..Len(pending)
    OBVIOUS
  <1>4. \A i \in 1..n : pending[f[i]] \in Ids
    BY <1>3
  <1>5. pending' \in Seq(Ids) /\ Len(pending') = n
    BY <1>2, <1>3, <1>4
  <1>6. pending' # <<>> => pending # <<>>
    BY <1>5
  <1>7. QED
    BY <1>5, <1>6

-----------------------------------------------------------------------------
(***************************************************************************)
(* The linked follow-up.                                                   *)
(***************************************************************************)

\* What is behind its instructions has a last instruction.
LEMMA BehindHasSteer ==
  ASSUME NEW store \in Stores, NEW t \in Ids, Behind(store[t])
  PROVE  LastSteer(store[t]) \in Requests
  <1>1. store[t].steers \in Seq(Requests) /\ store[t].accepted \in Nat
    BY DEF Stores, TaskRecord
  <1>2. Len(store[t].steers) >= 1
    BY <1>1 DEF Behind, Covered, Revision
  <1>3. QED
    BY <1>1, <1>2 DEF LastSteer

\* The child is a task, new or saved before a crash.
LEMMA ChildType ==
  ASSUME NEW store \in Stores, NEW t \in Ids, created \in 0..MaxTasks,
         FollowupFits(store, t)
  PROVE  /\ Child(store, t) \in Ids
         /\ SavedChild(store, t) = {} =>
              Child(store, t) = created + 1 /\ created < MaxTasks
  <1>1. SavedChild(store, t) \subseteq Ids
    BY DEF SavedChild, FindRequest, SessionTasks
  <1>2. QED
    BY <1>1, StoreAssumption DEF Child, FollowupFits, Ids

\* The store with the child: at most one record is new.
LEMMA WithChildEffect ==
  ASSUME NEW store \in Stores, NEW t \in Ids, created \in 0..MaxTasks,
         Behind(store[t]), FollowupFits(store, t)
  PROVE  /\ WithChild(store, t) \in Stores
         /\ SavedChild(store, t) # {} => WithChild(store, t) = store
         /\ SavedChild(store, t) = {} =>
              WithChild(store, t)[created + 1].state = "queued"
         /\ \A u \in Ids : u # created + 1 => WithChild(store, t)[u] = store[u]
  <1>1. CASE SavedChild(store, t) # {}
    BY <1>1 DEF WithChild
  <1>2. CASE SavedChild(store, t) = {}
    <2>1. created + 1 \in Ids
      BY <1>2, StoreAssumption DEF FollowupFits, Ids
    <2>2. LastSteer(store[t]) \in Requests
      BY BehindHasSteer
    <2>3. store[t].session \in Sessions \cup {NoSession} /\ t \in Ids \cup {NoTask}
      BY DEF Stores, TaskRecord
    <2>4. WithChild(store, t)
            = Started(store, created + 1, store[t].session, LastSteer(store[t]), t)
      BY <1>2 DEF WithChild
    <2> DEFINE started ==
          Started(store, created + 1, store[t].session, LastSteer(store[t]), t)
    <2>5. /\ started \in Stores
          /\ started[created + 1].state = "queued"
          /\ \A u \in Ids : u # created + 1 => started[u] = store[u]
      BY <2>1, <2>2, <2>3, StartedEffect, ZenonT(60)
    <2>6. QED
      BY <1>2, <2>4, <2>5, SMTT(60)
  <1>3. QED
    BY <1>1, <1>2

\* _followup_locked as a whole: the child is new, or it is queued work that
\* may be blocked; every other task keeps its state; new work wakes _run.
LEMMA FollowupEffect ==
  ASSUME NEW store \in Stores, NEW t \in Ids, created \in 0..MaxTasks,
         pending \in Seq(Ids), wake \in BOOLEAN,
         Behind(store[t]), FollowupFits(store, t), FollowupLocked(store, t)
  PROVE  /\ task' \in Stores
         /\ created' \in {created, created + 1} /\ created' \in 0..MaxTasks
         /\ pending' \in Seq(Ids) /\ wake' \in BOOLEAN
         /\ wake => wake'
         /\ pending' = pending \/ wake'
         /\ \A u \in Ids :
              \/ task'[u].state = store[u].state
              \/ store[u].state = "queued" /\ task'[u].state = "blocked"
              \/ /\ u = created + 1 /\ created' = created + 1
                 /\ task'[u].state \in {"queued", "blocked"}
  <1> DEFINE c == Child(store, t)
             started == WithChild(store, t)
             admit == started[c].state = "queued" /\ ~Queued(c)
             room == Len(pending) < MaxQueued
             store2 == IF admit /\ ~room THEN WithState(started, c, "blocked")
                       ELSE started
  <1>1. /\ task' = WithFollowup(store2, t, c)
        /\ created' = IF SavedChild(store, t) = {} THEN created + 1 ELSE created
        /\ pending' = IF admit /\ room THEN Append(pending, c) ELSE pending
        /\ wake' = (wake \/ (admit /\ room))
    BY DEF FollowupLocked
  <1>2. c \in Ids /\ (SavedChild(store, t) = {} => c = created + 1 /\ created < MaxTasks)
    BY ChildType
  <1>3. /\ started \in Stores
        /\ SavedChild(store, t) # {} => started = store
        /\ SavedChild(store, t) = {} => started[created + 1].state = "queued"
        /\ \A u \in Ids : u # created + 1 => started[u] = store[u]
    BY WithChildEffect
  <1> HIDE DEF c, started
  <1>4. /\ store2 \in Stores
        /\ \A u \in Ids : u # c => store2[u] = started[u]
        /\ \/ store2[c].state = started[c].state
           \/ started[c].state = "queued" /\ store2[c].state = "blocked"
    <2>1. CASE admit /\ ~room
      <3>1. "blocked" \in States
        BY DEF States
      <3>2. store2 = WithState(started, c, "blocked") /\ started[c].state = "queued"
        BY <2>1
      <3>3. QED
        BY <1>2, <1>3, <3>1, <3>2, WithStateEffect, SMTT(60)
    <2>2. CASE ~(admit /\ ~room)
      BY <1>3, <2>2
    <2>3. QED
      BY <2>1, <2>2
  <1> HIDE DEF admit, room, store2
  <1>5. task' \in Stores /\ \A u \in Ids : task'[u].state = store2[u].state
    BY <1>1, <1>2, <1>4, WithFollowupEffect, ZenonT(60)
  <1>6. created' \in {created, created + 1} /\ created' \in 0..MaxTasks
    BY <1>1, <1>2, StoreAssumption
  <1>7. pending' \in Seq(Ids)
    BY <1>1, <1>2
  <1>8. wake' \in BOOLEAN /\ (wake => wake') /\ (pending' = pending \/ wake')
    BY <1>1
  <1>9. ASSUME NEW u \in Ids
        PROVE  \/ task'[u].state = store[u].state
               \/ store[u].state = "queued" /\ task'[u].state = "blocked"
               \/ /\ u = created + 1 /\ created' = created + 1
                  /\ task'[u].state \in {"queued", "blocked"}
    <2>1. CASE SavedChild(store, t) # {}
      BY <1>3, <1>4, <1>5, <2>1
    <2>2. CASE SavedChild(store, t) = {}
      BY <1>1, <1>2, <1>3, <1>4, <1>5, <2>2
    <2>3. QED
      BY <2>1, <2>2
  <1>10. QED
    BY <1>5, <1>6, <1>7, <1>8, <1>9

-----------------------------------------------------------------------------
(***************************************************************************)
(* The inductive invariant: the types, and who owns the running work.      *)
(***************************************************************************)

\* Ids that were not handed out have no task.
Fresh == \A t \in Ids : t > created => task[t].state = "none"

\* _run awaits an execution exactly while there is an active task.
OneWorker ==
  /\ worker = "run" <=> exec # "none"
  /\ exec = "none" <=> active = NoTask
  /\ active <= created
  /\ proc # "up" => worker = "stopped"

\* start recovered what a lost process left running.
NothingRuns ==
  proc = "starting" =>
    \A t \in Ids : task[t].state \notin {"running", "cancel-requested"}

\* The active task is "running" only under a native worker or, with its
\* execution already cancelled, on the way to be settled by a shutdown.
Settled ==
  active # NoTask /\ task[active].state = "running" =>
    exec = "running" \/ (closing /\ exec \in {"cancelling", "done"})

\* Without the self-modification service no capability build exists.
NoBuild == ~SelfMod => \A t \in Ids : gap[t] = "none"

Work == Fresh /\ OneWorker /\ NothingRuns /\ Settled /\ OwnedWork

IInv == TypeOK /\ Work /\ NoLostWakeup /\ NoBuild

-----------------------------------------------------------------------------
(***************************************************************************)
(* Pieces that several actions share.                                      *)
(***************************************************************************)

NoteTable == [Ids -> Notes \cup {NoNote}]

\* _queue_update keeps the table a table.
LEMMA QueueUpdateType ==
  ASSUME NEW table \in NoteTable, NEW t \in Ids,
         NEW kind \in {"progress", "finding", "question", "blocked", "result"},
         NEW v \in Nat
  PROVE  QueueUpdate(table, t, kind, v) \in NoteTable
  BY DEF QueueUpdate, NoteTable, Notes, NoNote

\* A cancelled execution is still an execution, and never works again.
LEMMA CancelledEffect ==
  ASSUME NEW e \in ExecStates
  PROVE  /\ Cancelled(e) \in ExecStates
         /\ Cancelled(e) = "none" <=> e = "none"
         /\ Cancelled(e) \notin {"created", "running"}
         /\ Cancelled(e) = "cancelling" <=> e \in {"running", "cancelling"}
         /\ Cancelled(e) = "done" <=> e = "done"
  BY DEF Cancelled, ExecStates

\* Settling a task ends its cancellation and touches no other task.
LEMMA SettleEffect ==
  ASSUME TypeOK, NEW t \in Ids, Settle(t)
  PROVE  /\ task' \in Stores /\ notes' \in NoteTable
         /\ \A u \in Ids : u # t => task'[u] = task[u]
         /\ IF ToSettle(task[t])
            THEN task'[t].state = (IF closing THEN "interrupted" ELSE "canceled")
            ELSE task' = task
  <1>1. task \in Stores /\ notes \in NoteTable
    BY DEF TypeOK, Stores, NoteTable
  <1>2. CASE ToSettle(task[t])
    <2> DEFINE x == IF closing THEN "interrupted" ELSE "canceled"
    <2>1. x \in States
      BY DEF States
    <2>2. task' = WithState(task, t, x) /\ notes' = [notes EXCEPT ![t] = NoNote]
      BY <1>2 DEF Settle
    <2>3. notes' \in NoteTable
      BY <1>1, <2>2 DEF NoteTable
    <2> HIDE DEF x
    <2>4. /\ task' \in Stores /\ task'[t].state = x
          /\ \A u \in Ids : u # t => task'[u] = task[u]
      BY <1>1, <2>1, <2>2, WithStateEffect
    <2>5. QED
      BY <1>2, <2>3, <2>4 DEF x
  <1>3. CASE ~ToSettle(task[t])
    BY <1>1, <1>3 DEF Settle
  <1>4. QED
    BY <1>2, <1>3

\* A process that is gone leaves the store, and a memory of the right types.
LEMMA LoseMemoryType ==
  ASSUME LoseMemory, task' \in Stores, created' \in 0..MaxTasks, stops' \in 0..MaxStops
  PROVE  /\ TypeOK'
         /\ (OneWorker /\ NothingRuns /\ Settled /\ OwnedWork /\ NoLostWakeup /\ NoBuild)'
  <1>1. TypeOK'
    <2>1. pending' \in Seq(Ids) /\ commands' \in Seq(Nat)
      BY DEF LoseMemory
    <2>2. /\ resetting' \in [Sessions -> {"no", "marked", "stopped"}]
          /\ awaited' \in [Sessions -> Ids \cup {NoTask}]
          /\ gap' \in [Ids -> GapStages]
          /\ notes' \in [Ids -> Notes \cup {NoNote}]
      BY DEF LoseMemory, GapStages
    <2>3. exec' \in ExecStates
      BY DEF LoseMemory, ExecStates
    <2>4. QED
      BY <2>1, <2>2, <2>3 DEF LoseMemory, TypeOK, Stores
  <1>2. (OneWorker /\ NothingRuns /\ Settled /\ OwnedWork /\ NoLostWakeup /\ NoBuild)'
    BY DEF LoseMemory, OneWorker, NothingRuns, Settled, OwnedWork, NoLostWakeup,
           NoBuild, NoTask
  <1>3. QED
    BY <1>1, <1>2

\* A set of ids is counted by a number.
LEMMA CountIds ==
  ASSUME NEW S \in SUBSET Ids
  PROVE  IsFiniteSet(S) /\ Cardinality(S) \in Nat
  <1>1. IsFiniteSet(Ids)
    BY StoreAssumption, FS_Interval DEF Ids
  <1>2. QED
    BY <1>1, FS_Subset, FS_CardinalityType

\* A submission is given the next id.
LEMMA AdmitEffect ==
  ASSUME TypeOK, NEW s, NEW r, NEW p, Admit(s, r, p)
  PROVE  created' \in Ids /\ created' = created + 1
  <1>1. Promised(task) \in Nat
    BY CountIds DEF Promised
  <1>2. QED
    BY <1>1, StoreAssumption DEF Admit, TypeOK, Ids

-----------------------------------------------------------------------------
(***************************************************************************)
(* Every step keeps the types.                                             *)
(***************************************************************************)

\* Requests of the users.
LEMMA UserTypes ==
  ASSUME IInv, UserNext
  PROVE  TypeOK'
  <1> USE DEF vars, durable, process, queue, execution, reset, build
  <1>0. /\ TypeOK /\ task \in Stores /\ notes \in NoteTable
        /\ "canceled" \in States /\ "cancel-requested" \in States
    BY DEF IInv, TypeOK, Stores, NoteTable, States
  <1>1. ASSUME NEW s \in Sessions, NEW r \in Requests, Submit(s, r)
        PROVE  TypeOK'
    <2>1. created' \in Ids
      BY <1>0, <1>1, AdmitEffect DEF Submit
    <2>2. task' \in Stores
      BY <1>0, <1>1, <2>1, StartedEffect DEF Submit
    <2>3. pending' \in Seq(Ids)
      BY <1>0, <1>1, <2>1 DEF Submit, TypeOK
    <2>4. QED
      BY <1>0, <1>1, <2>1, <2>2, <2>3 DEF Submit, TypeOK, Stores, Ids
  <1>2. ASSUME NEW t \in Ids, NEW r \in Requests, Steer(t, r)
        PROVE  TypeOK'
    <2>1. task' \in Stores
      BY <1>0, <1>2, WithSteerEffect DEF Steer
    <2>2. commands' \in Seq(Nat)
      BY <1>0, <1>2, <2>1 DEF Steer, TypeOK, Delivered, Revision, Stores, TaskRecord
    <2>3. QED
      BY <1>0, <1>2, <2>1, <2>2 DEF Steer, TypeOK, Stores
  <1>3. ASSUME NEW t \in Ids, NEW r \in Requests, Continue(t, r)
        PROVE  TypeOK'
    <2>1. created' \in Ids
      BY <1>0, <1>3, AdmitEffect DEF Continue
    <2>2. task' \in Stores
      <3>1. task[t].session \in Sessions \cup {NoSession}
        BY <1>0 DEF Stores, TaskRecord
      <3>2. QED
        BY <1>0, <1>3, <2>1, <3>1, StartedEffect DEF Continue
    <2>3. pending' \in Seq(Ids)
      BY <1>0, <1>3, <2>1 DEF Continue, TypeOK
    <2>4. QED
      BY <1>0, <1>3, <2>1, <2>2, <2>3 DEF Continue, TypeOK, Stores, Ids
  <1>4. ASSUME NEW t \in Ids, Cancel(t)
        PROVE  TypeOK'
    <2>1. task' \in Stores
      BY <1>0, <1>4, WithStateEffect DEF Cancel
    <2>2. pending' \in Seq(Ids)
      BY <1>0, <1>4, WithoutType DEF Cancel, TypeOK
    <2>3. exec' \in ExecStates
      BY <1>0, <1>4, CancelledEffect DEF Cancel, TypeOK
    <2>4. gap' \in [Ids -> GapStages]
      BY <1>0, <1>4 DEF Cancel, TypeOK, GapAfterCancel, GapStages
    <2>5. notes' \in NoteTable
      BY <1>0, <1>4 DEF Cancel, NoteTable
    <2>6. QED
      BY <1>0, <1>4, <2>1, <2>2, <2>3, <2>4, <2>5
      DEF Cancel, TypeOK, Stores, NoteTable
  <1>5. ASSUME NEW t \in Ids, Delete(t)
        PROVE  TypeOK'
    <2>1. task' \in Stores
      BY <1>0, <1>5, AbsentType DEF Delete, Deleted, Stores
    <2>2. notes' \in NoteTable
      BY <1>0, <1>5 DEF Delete, NoteTable
    <2>3. QED
      BY <1>0, <1>5, <2>1, <2>2 DEF Delete, TypeOK, Stores, NoteTable
  <1>6. ASSUME NEW s \in Sessions, Reset(s)
        PROVE  TypeOK'
    <2>1. task' \in Stores
      BY <1>0, <1>6, AbsentType DEF Reset, ResetStore, Stores
    <2>2. notes' \in NoteTable
      BY <1>0, <1>6 DEF Reset, NotesWithout, NoteTable
    <2>3. QED
      BY <1>0, <1>6, <2>1, <2>2 DEF Reset, TypeOK, Stores, NoteTable
  <1>7. ASSUME NEW s \in Sessions, ResetMark(s)
        PROVE  TypeOK'
    BY <1>0, <1>7 DEF ResetMark, TypeOK
  <1>8. QED
    BY <1>1, <1>2, <1>3, <1>4, <1>5, <1>6, <1>7 DEF UserNext

\* The phases of a conversation's reset.
LEMMA ResetTypes ==
  ASSUME IInv, ResetNext
  PROVE  TypeOK'
  <1> USE DEF vars, durable, process, queue, execution, reset, build
  <1>0. /\ TypeOK /\ task \in Stores /\ notes \in NoteTable
        /\ "canceled" \in States /\ "cancel-requested" \in States
    BY DEF IInv, TypeOK, Stores, NoteTable, States
  <1>1. ASSUME NEW s \in Sessions, ResetStop(s)
        PROVE  TypeOK'
    <2>1. task' \in Stores
      BY <1>0, <1>1, ZenonT(180) DEF ResetStop, Stores, TaskRecord
    <2>2. pending' \in Seq(Ids)
      BY <1>0, <1>1, OnlyOthersPendingType DEF ResetStop, TypeOK
    <2>3. exec' \in ExecStates
      BY <1>0, <1>1, CancelledEffect DEF ResetStop, TypeOK
    <2>4. notes' \in NoteTable
      BY <1>0, <1>1 DEF ResetStop, NotesWithout, NoteTable
    <2>5. /\ resetting' \in [Sessions -> {"no", "marked", "stopped"}]
          /\ awaited' \in [Sessions -> Ids \cup {NoTask}]
      BY <1>0, <1>1 DEF ResetStop, TypeOK
    <2>6. QED
      BY <1>0, <1>1, <2>1, <2>2, <2>3, <2>4, <2>5
      DEF ResetStop, TypeOK, Stores, NoteTable
  <1>2. ASSUME NEW s \in Sessions, ResetSettle(s)
        PROVE  TypeOK'
    <2>1. awaited[s] \in Ids
      BY <1>0, <1>2 DEF ResetSettle, TypeOK
    <2>2. task' \in Stores /\ notes' \in NoteTable
      BY <1>0, <1>2, <2>1, SettleEffect DEF ResetSettle
    <2>3. QED
      BY <1>0, <1>2, <2>2 DEF ResetSettle, TypeOK, Stores, NoteTable
  <1>3. ASSUME NEW s \in Sessions, ResetFinish(s)
        PROVE  TypeOK'
    <2>1. task' \in Stores
      BY <1>0, <1>3, AbsentType DEF ResetFinish, ResetStore, Stores
    <2>2. QED
      BY <1>0, <1>3, <2>1 DEF ResetFinish, TypeOK, Stores
  <1>4. QED
    BY <1>1, <1>2, <1>3 DEF ResetNext

\* The calls of the self-modification service.
LEMMA SelfModTypes ==
  ASSUME IInv, SelfModNext
  PROVE  TypeOK'
  <1> USE DEF vars, durable, process, queue, execution, reset, build
  <1>0. TypeOK /\ task \in Stores /\ notes \in NoteTable /\ "blocked" \in States
    BY DEF IInv, TypeOK, Stores, NoteTable, States
  <1>1. ASSUME NEW t \in Ids, GapPropose(t)
        PROVE  TypeOK'
    <2>1. gap' \in [Ids -> GapStages]
      BY <1>0, <1>1 DEF GapPropose, TypeOK, GapStages
    <2>2. QED
      BY <1>0, <1>1, <2>1 DEF GapPropose, TypeOK
  <1>2. ASSUME NEW t \in Ids, GapInterrupt(t)
        PROVE  TypeOK'
    <2>1. gap' \in [Ids -> GapStages]
      BY <1>0, <1>2 DEF GapInterrupt, TypeOK, GapStages
    <2>2. task' \in Stores
      BY <1>0, <1>2, WithStateEffect DEF GapInterrupt
    <2>3. pending' \in Seq(Ids)
      BY <1>0, <1>2, WithoutType DEF GapInterrupt, TypeOK
    <2>4. exec' \in ExecStates
      BY <1>0, <1>2, CancelledEffect DEF GapInterrupt, TypeOK
    <2>5. notes' \in NoteTable
      BY <1>0, <1>2 DEF GapInterrupt, NoteTable
    <2>6. QED
      BY <1>0, <1>2, <2>1, <2>2, <2>3, <2>4, <2>5
      DEF GapInterrupt, TypeOK, Stores, NoteTable
  <1>3. ASSUME NEW p \in Ids, ReleaseHeld(p)
        PROVE  TypeOK'
    <2>1. linked \in Ids
      BY <1>0, <1>3 DEF ReleaseHeld, TypeOK
    <2>2. pending' \in Seq(Ids) /\ gap' \in [Ids -> GapStages]
      BY <1>0, <1>3, <2>1 DEF ReleaseHeld, TypeOK, GapStages
    <2>3. QED
      BY <1>0, <1>3, <2>2 DEF ReleaseHeld, TypeOK
  <1>4. ASSUME NEW p \in Ids, BuildEnds(p)
        PROVE  TypeOK'
    <2>1. gap' \in [Ids -> GapStages]
      BY <1>0, <1>4 DEF BuildEnds, TypeOK, GapStages
    <2>2. QED
      BY <1>0, <1>4, <2>1 DEF BuildEnds, TypeOK
  <1>5. ASSUME NEW p \in Ids, NEW r \in Requests, SubmitContinuation(p, r)
        PROVE  TypeOK'
    <2>1. created' \in Ids
      BY <1>0, <1>5, AdmitEffect DEF SubmitContinuation
    <2>2. task' \in Stores
      <3>1. task[p].session \in Sessions \cup {NoSession}
        BY <1>0 DEF Stores, TaskRecord
      <3>2. QED
        BY <1>0, <1>5, <2>1, <3>1, StartedEffect DEF SubmitContinuation
    <2>3. gap' \in [Ids -> GapStages]
      BY <1>0, <1>5 DEF SubmitContinuation, TypeOK, GapStages
    <2>4. QED
      BY <1>0, <1>5, <2>1, <2>2, <2>3 DEF SubmitContinuation, TypeOK, Stores, Ids
  <1>6. QED
    BY <1>1, <1>2, <1>3, <1>4, <1>5 DEF SelfModNext

\* The worker.
LEMMA WorkerTypes ==
  ASSUME IInv, WorkerNext
  PROVE  TypeOK'
  <1> USE DEF vars, durable, process, queue, execution, reset, build
  <1>0. /\ TypeOK /\ task \in Stores /\ notes \in NoteTable
        /\ \A q : NextStop(q) \in {"pop", "wait", "stopped"}
    BY DEF IInv, TypeOK, Stores, NoteTable, NextStop
  <1>1. CASE RunWake
    BY <1>0, <1>1 DEF RunWake, TypeOK
  <1>2. CASE RunPop
    <2>1. CASE pending = <<>>
      BY <1>0, <1>2, <2>1 DEF RunPop, TypeOK
    <2>2. CASE pending # <<>>
      <3>1. Head(pending) \in Ids /\ Tail(pending) \in Seq(Ids)
        BY <1>0, <2>2, HeadTailProperties DEF TypeOK
      <3>2. pending' \in Seq(Ids) /\ active' \in Ids \cup {NoTask}
        BY <1>0, <1>2, <2>2, <3>1 DEF RunPop, TypeOK
      <3>3. exec' \in ExecStates /\ commands' \in Seq(Nat) /\ revisions' \subseteq Nat
        <4>1. CASE UNCHANGED execution
          BY <1>0, <4>1 DEF TypeOK
        <4>2. CASE exec' = "created" /\ commands' = <<>> /\ revisions' = {}
          BY <4>2 DEF ExecStates
        <4>3. QED
          BY <1>2, <2>2, <4>1, <4>2 DEF RunPop
      <3>4. worker' \in {"wait", "pop", "run", "stopped"}
        BY <1>0, <1>2, <2>2 DEF RunPop
      <3>5. QED
        BY <1>0, <1>2, <3>2, <3>3, <3>4 DEF RunPop, TypeOK
    <2>3. QED
      BY <2>1, <2>2
  <1>3. CASE RunSettle
    <2>1. active \in Ids
      BY <1>0, <1>3 DEF RunSettle, IInv, Work, OneWorker, TypeOK
    <2>2. task' \in Stores /\ notes' \in NoteTable
      BY <1>0, <1>3, <2>1, SettleEffect DEF RunSettle
    <2>3. exec' \in ExecStates /\ commands' \in Seq(Nat) /\ revisions' \subseteq Nat
      BY <1>3 DEF RunSettle, ExecStates
    <2>4. QED
      BY <1>0, <1>3, <2>2, <2>3 DEF RunSettle, TypeOK, Stores, NoteTable
  <1>4. QED
    BY <1>1, <1>2, <1>3 DEF WorkerNext

\* What a report leaves in the store: the state of the active task may become
\* "running" or "blocked", nothing else.
LEMMA ReportEffect ==
  ASSUME TypeOK, NEW kind \in {"accepted", "progress", "finding", "question", "blocked"},
         NEW v \in revisions, active \in Ids, Report(kind, v)
  PROVE  /\ task' \in Stores /\ notes' \in NoteTable
         /\ \A u \in Ids : u # active => task'[u] = task[u]
         /\ task'[active].state \in {task[active].state, "running", "blocked"}
         /\ task[active].state # "blocked" /\ task'[active].state = "running" =>
              task[active].state = "running"
         /\ ~Stopped(task[active])
  <1> DEFINE rec == task[active]
             x == IF kind = "accepted" /\ rec.state = "blocked" THEN "running"
                  ELSE IF kind \in {"question", "blocked"} THEN "blocked"
                  ELSE rec.state
             store == IF kind = "accepted" THEN WithAccepted(task, active, v)
                      ELSE task
  <1>1. /\ ~Stopped(rec)
        /\ task' = WithState(store, active, x)
        /\ notes' = IF kind # "accepted" THEN QueueUpdate(notes, active, kind, v)
                    ELSE IF v > 1 THEN QueueUpdate(notes, active, "progress", v)
                    ELSE notes
    BY DEF Report
  <1>2. task \in Stores /\ notes \in NoteTable /\ v \in Nat
    BY DEF TypeOK, Stores, NoteTable
  <1>3. x \in States \cup {"none"}
    BY <1>2 DEF States, Stores, TaskRecord
  <1>4. x \in {rec.state, "running", "blocked"}
        /\ (rec.state # "blocked" /\ x = "running" => rec.state = "running")
    OBVIOUS
  <1>5. store \in Stores /\ \A u \in Ids : u # active => store[u] = task[u]
    BY <1>2, WithAcceptedEffect
  <1>6. notes' \in NoteTable
    BY <1>1, <1>2, QueueUpdateType
  <1> HIDE DEF x, store
  <1>7. /\ task' \in Stores /\ task'[active].state = x
        /\ \A u \in Ids : u # active => task'[u] = task[u]
    BY <1>1, <1>3, <1>5, WithStateEffect
  <1>8. QED
    BY <1>1, <1>4, <1>6, <1>7

\* The end of a run: the active task is completed or blocked, and as far behind
\* its instructions as it was.
LEMMA FinishedEffect ==
  ASSUME task \in Stores, active \in Ids, NEW ok \in BOOLEAN
  PROVE  /\ Finished(ok) \in Stores
         /\ Finished(ok)[active].state \in {"completed", "blocked"}
         /\ \A u \in Ids : u # active => Finished(ok)[u] = task[u]
         /\ Behind(task[active]) => Behind(Finished(ok)[active])
  <1> DEFINE x == IF ok THEN "completed" ELSE "blocked"
  <1>1. x \in States /\ x \in {"completed", "blocked"}
    BY DEF States
  <1>2. Finished(ok) = WithResult(task, active, x)
    BY DEF Finished
  <1> HIDE DEF x
  <1>3. /\ Finished(ok) \in Stores
        /\ Finished(ok)[active].state = x
        /\ Finished(ok)[active].steers = task[active].steers
        /\ Finished(ok)[active].accepted = task[active].accepted
        /\ \A u \in Ids : u # active => Finished(ok)[u] = task[u]
    BY <1>1, <1>2, WithResultEffect
  <1>4. Behind(task[active]) => Behind(Finished(ok)[active])
    BY <1>3 DEF Behind, Revision, Covered
  <1>5. QED
    BY <1>1, <1>3, <1>4

\* The execution of the active task.
LEMMA ExecTypes ==
  ASSUME IInv, ExecNext
  PROVE  TypeOK'
  <1> USE DEF vars, durable, process, queue, execution, reset, build
  <1>0. /\ TypeOK /\ task \in Stores /\ notes \in NoteTable
        /\ {"running", "blocked", "completed"} \subseteq States
    BY DEF IInv, TypeOK, Stores, NoteTable, States
  <1>1. ASSUME exec # "none"
        PROVE  active \in Ids /\ Covered(task[active]) \in Nat
    <2>1. active \in Ids
      BY <1>0, <1>1 DEF IInv, Work, OneWorker, TypeOK
    <2>2. QED
      BY <1>0, <2>1, CoveredType
  <1>2. CASE ExecBegin
    <2>1. active \in Ids
      BY <1>1, <1>2 DEF ExecBegin
    <2>2. task' \in Stores
      BY <1>0, <1>2, <2>1, WithStateEffect DEF ExecBegin
    <2>3. revisions' \subseteq Nat /\ exec' \in ExecStates
      BY <1>0, <1>2, <2>1, CoveredType DEF ExecBegin, TypeOK, ExecStates
    <2>4. QED
      BY <1>0, <1>2, <2>2, <2>3 DEF ExecBegin, TypeOK, Stores
  <1>3. CASE TakeCommand
    <2>1. Head(commands) \in Nat /\ Tail(commands) \in Seq(Nat)
      BY <1>0, <1>3, HeadTailProperties DEF TakeCommand, TypeOK
    <2>2. revisions' \subseteq Nat /\ commands' \in Seq(Nat)
      BY <1>0, <1>3, <2>1 DEF TakeCommand, TypeOK
    <2>3. QED
      BY <1>0, <1>3, <2>2 DEF TakeCommand, TypeOK
  <1>4. ASSUME NEW v \in revisions, ReportGap(v)
        PROVE  TypeOK'
    <2>1. active \in Ids /\ Report("blocked", v)
      BY <1>1, <1>4 DEF ReportGap, Report
    <2>2. task' \in Stores /\ notes' \in NoteTable
      BY <1>0, <2>1, ReportEffect
    <2>3. gap' \in [Ids -> GapStages]
      BY <1>0, <1>4 DEF ReportGap, TypeOK, GapStages
    <2>4. QED
      BY <1>0, <2>1, <2>2, <2>3 DEF Report, TypeOK, Stores, NoteTable
  <1>5. ASSUME NEW kind \in ReportKinds, NEW v \in revisions, ReportOnly(kind, v)
        PROVE  TypeOK'
    <2>1. active \in Ids /\ Report(kind, v) /\ UNCHANGED gap
      BY <1>1, <1>5 DEF ReportOnly, Report
    <2>2. task' \in Stores /\ notes' \in NoteTable
      BY <1>0, <2>1, CoordinatorAssumption, ReportEffect
    <2>3. QED
      BY <1>0, <2>1, <2>2 DEF Report, TypeOK, Stores, NoteTable
  <1>6. "done" \in ExecStates
    BY DEF ExecStates
  <1>7. ASSUME NEW ok \in BOOLEAN, Ended(ok)
        PROVE  /\ active \in Ids /\ Finished(ok) \in Stores
               /\ FinishNote(ok) \in NoteTable /\ FailNote \in NoteTable
               /\ Failed(Finished(ok)) \in Stores
    <2>1. active \in Ids /\ Covered(task[active]) \in Nat
      BY <1>1, <1>7 DEF Ended
    <2>2. Finished(ok) \in Stores
      BY <1>0, <2>1, FinishedEffect
    <2>3. Failed(Finished(ok)) \in Stores
      BY <1>0, <2>1, <2>2, WithStateEffect DEF Failed
    <2>4. FinishNote(ok) \in NoteTable /\ FailNote \in NoteTable
      BY <1>0, <2>1, QueueUpdateType DEF FinishNote, FailNote
    <2>5. QED
      BY <2>1, <2>2, <2>3, <2>4
  <1>8. ASSUME NEW ok \in BOOLEAN, ExecFinish(ok)
        PROVE  TypeOK'
    <2>1. task' \in Stores /\ notes' \in NoteTable
      BY <1>0, <1>7, <1>8 DEF ExecFinish
    <2>2. QED
      BY <1>0, <1>6, <1>8, <2>1 DEF ExecFinish, TypeOK, Stores, NoteTable
  <1>9. ASSUME NEW ok \in BOOLEAN, ExecFinishLate(ok)
        PROVE  TypeOK'
    <2>1. Ended(ok) /\ Behind(task[active]) /\ active \in Ids /\ Finished(ok) \in Stores
      BY <1>7, <1>9 DEF ExecFinishLate
    <2>2. Behind(Finished(ok)[active])
      BY <1>0, <2>1, FinishedEffect
    <2>3. /\ task' \in Stores /\ created' \in 0..MaxTasks
          /\ pending' \in Seq(Ids) /\ wake' \in BOOLEAN
      BY <1>0, <1>9, <2>1, <2>2, FollowupEffect DEF ExecFinishLate, TypeOK
    <2>4. notes' \in NoteTable
      BY <1>7, <1>9, <2>1 DEF ExecFinishLate
    <2>5. QED
      BY <1>0, <1>6, <1>9, <2>3, <2>4 DEF ExecFinishLate, TypeOK, Stores, NoteTable
  <1>10. ASSUME NEW ok \in BOOLEAN, ExecFinishFull(ok)
         PROVE  TypeOK'
    <2>1. task' \in Stores /\ notes' \in NoteTable
      BY <1>7, <1>10 DEF ExecFinishFull
    <2>2. QED
      BY <1>0, <1>6, <1>10, <2>1 DEF ExecFinishFull, TypeOK, Stores, NoteTable
  <1>11. CASE ExecFail
    <2>1. active \in Ids /\ Covered(task[active]) \in Nat
      BY <1>1, <1>11 DEF ExecFail
    <2>2. task' \in Stores
      BY <1>0, <1>11, <2>1, WithStateEffect DEF ExecFail, Failed
    <2>3. notes' \in NoteTable
      BY <1>0, <1>11, <2>1, QueueUpdateType DEF ExecFail, FailNote
    <2>4. QED
      BY <1>0, <1>6, <1>11, <2>2, <2>3 DEF ExecFail, TypeOK, Stores, NoteTable
  <1>12. ASSUME NEW settles \in BOOLEAN, ExecCancelled(settles)
         PROVE  TypeOK'
    <2>1. active \in Ids
      BY <1>1, <1>12 DEF ExecCancelled
    <2>2. task' \in Stores /\ notes' \in NoteTable
      BY <1>0, <1>12, <2>1, SettleEffect DEF ExecCancelled
    <2>3. QED
      BY <1>0, <1>6, <1>12, <2>2 DEF ExecCancelled, TypeOK, Stores, NoteTable
  <1>13. QED
    BY <1>2, <1>3, <1>4, <1>5, <1>8, <1>9, <1>10, <1>11, <1>12 DEF ExecNext

\* What may be waiting in the store for start: a known set of queued tasks.
LEMMA BootEffect ==
  ASSUME TypeOK, Boot
  PROVE  task' = Recovered(task) /\ task' \in Stores /\ pending' \in Seq(Ids)
  <1> DEFINE Q == {t \in Ids : task[t].state = "queued"}
  <1>1. Cardinality(Q) \in Nat
    BY CountIds
  <1>2. PICK q \in [1..Cardinality(Q) -> Q] : pending' = q
    BY DEF Boot
  <1>3. pending' \in Seq(Ids)
    <2> HIDE DEF Q
    <2>1. Q \subseteq Ids
      BY DEF Q
    <2>2. q \in Seq(Q)
      BY <1>1
    <2>3. QED
      BY <1>2, <2>1, <2>2, SeqMonotonic
  <1>4. task' = Recovered(task) /\ task' \in Stores
    BY RecoveredEffect DEF Boot, TypeOK, Stores
  <1>5. QED
    BY <1>3, <1>4

\* Starting.
LEMMA StartTypes ==
  ASSUME IInv, StartNext
  PROVE  TypeOK'
  <1> USE DEF vars, durable, process, queue, execution, reset, build
  <1>0. TypeOK /\ task \in Stores
    BY DEF IInv, TypeOK, Stores
  <1>1. CASE Boot
    BY <1>0, <1>1, BootEffect DEF Boot, TypeOK, Stores
  <1>2. ASSUME NEW t \in Ids, StartFollowup(t)
        PROVE  TypeOK'
    <2>1. /\ task' \in Stores /\ created' \in 0..MaxTasks
          /\ pending' \in Seq(Ids) /\ wake' \in BOOLEAN
      BY <1>0, <1>2, FollowupEffect DEF StartFollowup, NeedsFollowup, TypeOK
    <2>2. QED
      BY <1>0, <1>2, <2>1 DEF StartFollowup, TypeOK, Stores
  <1>3. ASSUME NEW t \in Ids, StartFails(t)
        PROVE  TypeOK'
    BY <1>0, <1>3, LoseMemoryType DEF StartFails, TypeOK
  <1>4. CASE StartDone
    BY <1>0, <1>4 DEF StartDone, TypeOK
  <1>5. QED
    BY <1>1, <1>2, <1>3, <1>4 DEF StartNext

\* Closing, and dying.
LEMMA StopTypes ==
  ASSUME IInv, StopNext
  PROVE  TypeOK'
  <1> USE DEF vars, durable, process, queue, execution, reset, build
  <1>0. TypeOK /\ task \in Stores /\ Cancelled(exec) \in ExecStates
    BY CancelledEffect DEF IInv, TypeOK, Stores
  <1>1. stops < MaxStops => stops + 1 \in 0..MaxStops
    BY <1>0, CoordinatorAssumption DEF TypeOK
  <1>2. CASE Crash
    BY <1>0, <1>1, <1>2, LoseMemoryType DEF Crash, TypeOK
  <1>3. CASE Close
    BY <1>0, <1>1, <1>3 DEF Close, TypeOK
  <1>4. CASE CloseForce
    BY <1>0, <1>4 DEF CloseForce, TypeOK
  <1>5. CASE Exit
    BY <1>0, <1>5, LoseMemoryType DEF Exit, TypeOK
  <1>6. ASSUME NEW ok \in BOOLEAN, CrashInFinish(ok)
        PROVE  TypeOK'
    <2>1. active \in Ids
      BY <1>0, <1>6 DEF CrashInFinish, Ended, IInv, Work, OneWorker, TypeOK, ExecStates
    <2>2. Finished(ok) \in Stores /\ Behind(Finished(ok)[active])
      BY <1>0, <1>6, <2>1, FinishedEffect DEF CrashInFinish
    <2>3. WithChild(Finished(ok), active) \in Stores
      BY <1>0, <1>6, <2>1, <2>2, WithChildEffect DEF CrashInFinish, TypeOK
    <2>4. created' \in 0..MaxTasks /\ task' \in Stores
      <3>1. CASE task' = Finished(ok) /\ UNCHANGED created
        BY <1>0, <2>2, <3>1 DEF TypeOK
      <3>2. CASE /\ task' = WithChild(Finished(ok), active)
                 /\ created' = IF SavedChild(Finished(ok), active) = {}
                               THEN created + 1 ELSE created
        <4>1. SavedChild(Finished(ok), active) = {} => created < MaxTasks
          BY <1>6 DEF CrashInFinish, FollowupFits
        <4>2. QED
          BY <1>0, <2>3, <3>2, <4>1, StoreAssumption DEF TypeOK
      <3>3. QED
        BY <1>6, <3>1, <3>2 DEF CrashInFinish
    <2>5. LoseMemory /\ stops' \in 0..MaxStops
      BY <1>1, <1>6 DEF CrashInFinish
    <2>6. QED
      BY <2>4, <2>5, LoseMemoryType
  <1>7. QED
    BY <1>2, <1>3, <1>4, <1>5, <1>6 DEF StopNext

-----------------------------------------------------------------------------
(***************************************************************************)
(* Every step keeps the owner of the running work.                         *)
(***************************************************************************)

\* A new queued task concerns no owner.
LEMMA NewTaskWork ==
  ASSUME TypeOK, Work, created' \in Ids, created' = created + 1,
         task'[created'].state = "queued",
         \A u \in Ids : u # created' => task'[u] = task[u],
         UNCHANGED <<proc, closing, worker, active, exec>>
  PROVE  Work'
  BY DEF Work, Fresh, OneWorker, NothingRuns, Settled, OwnedWork, TypeOK, Ids, NoTask

\* Requests of the users.
LEMMA UserWork ==
  ASSUME IInv, UserNext
  PROVE  Work'
  <1> USE DEF vars, durable, process, queue, execution, reset, build
  <1>0. /\ TypeOK /\ Work /\ task \in Stores
        /\ "canceled" \in States /\ "cancel-requested" \in States
    BY DEF IInv, TypeOK, Stores, States
  <1>2. ASSUME NEW s \in Sessions, NEW r \in Requests, Submit(s, r)
        PROVE  Work'
    <2>1. created' \in Ids /\ created' = created + 1
      BY <1>0, <1>2, AdmitEffect DEF Submit
    <2>2. QED
      BY <1>0, <1>2, <2>1, StartedEffect, NewTaskWork DEF Submit
  <1>3. ASSUME NEW t \in Ids, NEW r \in Requests, Continue(t, r)
        PROVE  Work'
    <2>1. created' \in Ids /\ created' = created + 1
      BY <1>0, <1>3, AdmitEffect DEF Continue
    <2>2. task[t].session \in Sessions \cup {NoSession}
      BY <1>0 DEF Stores, TaskRecord
    <2>3. task' = Started(task, created', task[t].session, r, t)
      BY <1>3 DEF Continue
    <2>4. /\ task' \in Stores
          /\ task'[created'].state = "queued"
          /\ \A u \in Ids : u # created' => task'[u] = task[u]
      BY <1>0, <2>1, <2>2, <2>3, StartedEffect
    <2>5. UNCHANGED <<proc, closing, worker, active, exec>>
      BY <1>3 DEF Continue
    <2>6. QED
      BY <1>0, <2>1, <2>4, <2>5, NewTaskWork
  <1>4. ASSUME NEW t \in Ids, NEW r \in Requests, Steer(t, r)
        PROVE  Work'
    <2>1. \A u \in Ids : task'[u].state = task[u].state
      BY <1>0, <1>4, WithSteerEffect DEF Steer
    <2>2. UNCHANGED <<created, proc, closing, worker, active, exec>>
      BY <1>4 DEF Steer
    <2>3. QED
      BY <1>0, <2>1, <2>2
      DEF Work, Fresh, OneWorker, NothingRuns, Settled, OwnedWork, TypeOK
  <1>5. ASSUME NEW t \in Ids, Cancel(t)
        PROVE  Work'
    <2>1. UNCHANGED <<created, proc, closing, worker, active>> /\ proc = "up"
      BY <1>5 DEF Cancel, Available
    <2>2. CASE task[t].state \in ActiveStates
      <3>1. /\ task'[t].state = IF active = t THEN "cancel-requested" ELSE "canceled"
            /\ \A u \in Ids : u # t => task'[u] = task[u]
        BY <1>0, <1>5, <2>2, WithStateEffect DEF Cancel
      <3>2. exec' = (IF active = t THEN Cancelled(exec) ELSE exec)
        BY <1>5, <2>2 DEF Cancel
      <3>3. exec' = "none" <=> exec = "none"
        BY <1>0, <3>2, CancelledEffect DEF TypeOK
      <3>4. task[t].state # "none"
        BY <2>2 DEF ActiveStates
      <3>5. Fresh' /\ OneWorker' /\ NothingRuns'
        BY <1>0, <2>1, <3>1, <3>3, <3>4
        DEF Work, Fresh, OneWorker, NothingRuns, TypeOK
      <3>6. Settled'
        <4>1. CASE active = t
          BY <2>1, <3>1, <4>1 DEF Settled
        <4>2. CASE active # t
          BY <1>0, <2>1, <3>1, <3>2, <4>2 DEF Work, Settled, TypeOK
        <4>3. QED
          BY <4>1, <4>2
      <3>7. OwnedWork'
        <4>1. CASE active = t
          BY <1>0, <2>1, <3>1, <4>1 DEF Work, OneWorker, OwnedWork, NoTask, Ids
        <4>2. CASE active # t
          BY <1>0, <2>1, <3>1, <4>2 DEF Work, OwnedWork
        <4>3. QED
          BY <4>1, <4>2
      <3>8. QED
        BY <3>5, <3>6, <3>7 DEF Work
    <2>3. CASE task[t].state \notin ActiveStates
      <3>1. UNCHANGED <<task, exec>>
        BY <1>5, <2>3 DEF Cancel
      <3>2. QED
        BY <1>0, <2>1, <3>1
        DEF Work, Fresh, OneWorker, NothingRuns, Settled, OwnedWork
    <2>4. QED
      BY <2>2, <2>3
  <1>6. ASSUME \A u \in Ids : task'[u].state \in {task[u].state, "none"},
               UNCHANGED <<created, proc, closing, worker, active, exec>>
        PROVE  Work'
    BY <1>0, <1>6
    DEF Work, Fresh, OneWorker, NothingRuns, Settled, OwnedWork, TypeOK, NoTask
  <1>7. ASSUME NEW t \in Ids, Delete(t)
        PROVE  Work'
    BY <1>0, <1>6, <1>7, AbsentType DEF Delete, Deleted, Stores
  <1>8. ASSUME NEW s \in Sessions, Reset(s)
        PROVE  Work'
    BY <1>0, <1>6, <1>8, AbsentType DEF Reset, ResetStore, Stores
  <1>9. ASSUME NEW s \in Sessions, ResetMark(s)
        PROVE  Work'
    BY <1>0, <1>6, <1>9 DEF ResetMark
  <1>10. QED
    BY <1>2, <1>3, <1>4, <1>5, <1>7, <1>8, <1>9 DEF UserNext

\* Settling a task keeps the owner of the running work.
LEMMA SettleWork ==
  ASSUME TypeOK, Work, NEW t \in Ids, Settle(t),
         UNCHANGED <<created, proc, closing, worker, active, exec>>
  PROVE  Work'
  <1>1. /\ \A u \in Ids : u # t => task'[u] = task[u]
        /\ IF ToSettle(task[t])
           THEN task'[t].state = (IF closing THEN "interrupted" ELSE "canceled")
           ELSE task' = task
    BY SettleEffect
  <1>2. ToSettle(task[t]) => task[t].state # "none"
    BY DEF ToSettle
  <1>3. \A u \in Ids : \/ task'[u].state = task[u].state
                       \/ /\ task'[u].state \in {"interrupted", "canceled"}
                          /\ task[u].state # "none"
    BY <1>1, <1>2
  <1>4. QED
    BY <1>3 DEF Work, Fresh, OneWorker, NothingRuns, Settled, OwnedWork, TypeOK, NoTask

\* The phases of a conversation's reset.
LEMMA ResetWork ==
  ASSUME IInv, ResetNext
  PROVE  Work'
  <1> USE DEF vars, durable, process, queue, execution, reset, build
  <1>0. TypeOK /\ Work /\ task \in Stores
    BY DEF IInv, TypeOK, Stores
  <1>1. ASSUME NEW s \in Sessions, ResetStop(s)
        PROVE  Work'
    <2> DEFINE mine == active # NoTask /\ task[active].session = s
    <2>1. \A u \in Ids :
            \/ task'[u].state = task[u].state /\ ~(mine /\ u = active /\ task[u].state = "running")
            \/ /\ task[u].state \in ActiveStates
               /\ task'[u].state = IF mine /\ u = active THEN "cancel-requested"
                                   ELSE "canceled"
      BY <1>0, <1>1 DEF ResetStop, Stores, TaskRecord, ActiveStates
    <2>2. UNCHANGED <<created, proc, closing, worker, active>>
      BY <1>1 DEF ResetStop
    <2>3. exec' = (IF mine THEN Cancelled(exec) ELSE exec)
      BY <1>1 DEF ResetStop
    <2>4. exec' = "none" <=> exec = "none"
      BY <1>0, <2>3, CancelledEffect DEF TypeOK
    <2> HIDE DEF mine
    <2>5. Fresh' /\ OneWorker'
      BY <1>0, <2>1, <2>2, <2>4 DEF Work, Fresh, OneWorker, TypeOK, ActiveStates
    <2>6. \A u \in Ids : task'[u].state = "cancel-requested" =>
            task[u].state = "cancel-requested" \/ u = active
      BY <2>1
    <2>7. \A u \in Ids : task'[u].state = "running" =>
            task[u].state = "running" /\ ~(mine /\ u = active)
      BY <2>1
    <2>8. NothingRuns'
      BY <1>0, <2>1, <2>2, <2>6, <2>7 DEF Work, NothingRuns, OneWorker, NoTask, Ids
    <2>9. Settled'
      BY <1>0, <2>2, <2>3, <2>7 DEF Work, Settled, TypeOK
    <2>10. OwnedWork'
      BY <1>0, <2>2, <2>6, <2>7 DEF Work, OwnedWork, OneWorker, NoTask, Ids
    <2>11. QED
      BY <2>5, <2>8, <2>9, <2>10 DEF Work
  <1>2. ASSUME NEW s \in Sessions, ResetSettle(s)
        PROVE  Work'
    <2>1. awaited[s] \in Ids
      BY <1>0, <1>2 DEF ResetSettle, TypeOK
    <2>2. QED
      BY <1>0, <1>2, <2>1, SettleWork DEF ResetSettle
  <1>3. ASSUME NEW s \in Sessions, ResetFinish(s)
        PROVE  Work'
    <2>1. \A u \in Ids : task'[u].state \in {task[u].state, "none"}
      BY <1>0, <1>3, AbsentType DEF ResetFinish, ResetStore, Stores
    <2>2. UNCHANGED <<created, proc, closing, worker, active, exec>>
      BY <1>3 DEF ResetFinish
    <2>3. QED
      BY <1>0, <2>1, <2>2
      DEF Work, Fresh, OneWorker, NothingRuns, Settled, OwnedWork, TypeOK, NoTask
  <1>4. QED
    BY <1>1, <1>2, <1>3 DEF ResetNext

\* The calls of the self-modification service.
LEMMA SelfModWork ==
  ASSUME IInv, SelfModNext
  PROVE  Work'
  <1> USE DEF vars, durable, process, queue, execution, reset, build
  <1>0. TypeOK /\ Work /\ task \in Stores /\ "blocked" \in States
    BY DEF IInv, TypeOK, Stores, States
  <1>1. ASSUME UNCHANGED <<task, created, proc, closing, worker, active, exec>>
        PROVE  Work'
    BY <1>0, <1>1 DEF Work, Fresh, OneWorker, NothingRuns, Settled, OwnedWork
  <1>2. ASSUME NEW t \in Ids, GapPropose(t) \/ ReleaseHeld(t) \/ BuildEnds(t)
        PROVE  Work'
    BY <1>1, <1>2 DEF GapPropose, ReleaseHeld, BuildEnds
  <1>3. ASSUME NEW t \in Ids, GapInterrupt(t)
        PROVE  Work'
    <2>1. CASE task[t].state = "none"
      BY <1>1, <1>3, <2>1 DEF GapInterrupt
    <2>2. CASE task[t].state # "none"
      <3>1. task'[t].state = "blocked" /\ \A u \in Ids : u # t => task'[u] = task[u]
        BY <1>0, <1>3, <2>2, WithStateEffect DEF GapInterrupt
      <3>2. /\ UNCHANGED <<created, proc, closing, worker, active>>
            /\ exec' = (IF active = t THEN Cancelled(exec) ELSE exec)
        BY <1>3, <2>2 DEF GapInterrupt
      <3>3. exec' = "none" <=> exec = "none"
        BY <1>0, <3>2, CancelledEffect DEF TypeOK
      <3>4. Fresh' /\ OneWorker' /\ NothingRuns' /\ OwnedWork'
        <4>1. Fresh'
          BY <1>0, <2>2, <3>1, <3>2 DEF Work, Fresh
        <4>2. OneWorker'
          BY <1>0, <3>2, <3>3 DEF Work, OneWorker
        <4>3. NothingRuns' /\ OwnedWork'
          BY <1>0, <3>1, <3>2 DEF Work, NothingRuns, OwnedWork
        <4>4. QED
          BY <4>1, <4>2, <4>3
      <3>5. Settled'
        <4>1. CASE active = t
          BY <3>1, <3>2, <4>1 DEF Settled
        <4>2. CASE active # t
          BY <1>0, <3>1, <3>2, <4>2 DEF Work, Settled, TypeOK
        <4>3. QED
          BY <4>1, <4>2
      <3>6. QED
        BY <3>4, <3>5 DEF Work
    <2>3. QED
      BY <2>1, <2>2
  <1>4. ASSUME NEW p \in Ids, NEW r \in Requests, SubmitContinuation(p, r)
        PROVE  Work'
    <2>1. created' \in Ids /\ created' = created + 1
      BY <1>0, <1>4, AdmitEffect DEF SubmitContinuation
    <2>2. task[p].session \in Sessions \cup {NoSession}
      BY <1>0 DEF Stores, TaskRecord
    <2>3. /\ task'[created'].state = "queued"
          /\ \A u \in Ids : u # created' => task'[u] = task[u]
      BY <1>0, <1>4, <2>1, <2>2, StartedEffect DEF SubmitContinuation
    <2>4. UNCHANGED <<proc, closing, worker, active, exec>>
      BY <1>4 DEF SubmitContinuation
    <2>5. QED
      BY <1>0, <2>1, <2>3, <2>4, NewTaskWork
  <1>5. QED
    BY <1>2, <1>3, <1>4 DEF SelfModNext

\* The worker.
LEMMA WorkerWork ==
  ASSUME IInv, WorkerNext
  PROVE  Work'
  <1> USE DEF vars, durable, process, queue, execution, reset, build
  <1>0. /\ TypeOK /\ Work /\ task \in Stores
        /\ \A q : NextStop(q) \in {"pop", "wait", "stopped"}
    BY DEF IInv, TypeOK, Stores, NextStop
  <1>1. ASSUME UNCHANGED <<task, created, proc, closing, active, exec>>,
               proc = "up", worker # "run", worker' # "run"
        PROVE  Work'
    BY <1>0, <1>1 DEF Work, Fresh, OneWorker, NothingRuns, Settled, OwnedWork
  <1>2. worker # "stopped" => proc = "up"
    BY <1>0 DEF Work, OneWorker
  <1>3. CASE RunWake
    BY <1>0, <1>1, <1>2, <1>3 DEF RunWake
  <1>4. CASE RunPop
    <2> DEFINE t == Head(pending)
    <2>1. UNCHANGED <<task, created, proc, closing>> /\ worker = "pop"
      BY <1>4 DEF RunPop
    <2>2. CASE pending = <<>> \/ task[t].state # "queued"
      BY <1>0, <1>1, <1>2, <1>4, <2>2 DEF RunPop
    <2>3. CASE pending # <<>> /\ task[t].state = "queued"
      <3>1. active' = t /\ exec' = "created" /\ worker' = "run"
        BY <1>4, <2>3 DEF RunPop
      <3>2. t \in Ids
        BY <1>0, <2>3, HeadTailProperties DEF TypeOK
      <3>3. t <= created
        BY <1>0, <2>3, <3>2 DEF Work, Fresh, TypeOK, Ids
      <3> HIDE DEF t
      <3>4. Fresh' /\ NothingRuns'
        BY <1>0, <2>1 DEF Work, Fresh, NothingRuns
      <3>5. OneWorker' /\ Settled'
        BY <1>0, <1>2, <2>1, <2>3, <3>1, <3>2, <3>3
        DEF Work, OneWorker, Settled, NoTask, Ids
      <3>6. OwnedWork'
        BY <1>0, <1>2, <2>1 DEF Work, OwnedWork
      <3>7. QED
        BY <3>4, <3>5, <3>6 DEF Work
    <2>4. QED
      BY <2>2, <2>3
  <1>5. CASE RunSettle
    <2>1. /\ UNCHANGED <<created, proc, closing>> /\ Settle(active)
          /\ exec = "done" /\ worker = "run"
          /\ active' = NoTask /\ exec' = "none" /\ worker' # "run"
      BY <1>0, <1>5 DEF RunSettle
    <2>2. active \in Ids /\ proc = "up"
      BY <1>0, <1>2, <2>1 DEF Work, OneWorker, TypeOK
    <2>3. /\ \A u \in Ids : u # active => task'[u] = task[u]
          /\ IF ToSettle(task[active])
             THEN task'[active].state = (IF closing THEN "interrupted" ELSE "canceled")
             ELSE task' = task
      BY <1>0, <2>1, <2>2, SettleEffect
    <2>4. task'[active].state \notin {"running", "cancel-requested"}
      <3>1. task[active].state = "running" => closing
        BY <1>0, <2>1, <2>2 DEF Work, Settled, NoTask, Ids
      <3>2. CASE ToSettle(task[active])
        BY <2>3, <3>2
      <3>3. CASE ~ToSettle(task[active])
        BY <2>3, <3>1, <3>3 DEF ToSettle
      <3>4. QED
        BY <3>2, <3>3
    <2>5. ToSettle(task[active]) => task[active].state # "none"
      BY DEF ToSettle
    <2>6. Fresh'
      BY <1>0, <2>1, <2>3, <2>5 DEF Work, Fresh
    <2>7. OneWorker' /\ NothingRuns' /\ Settled'
      BY <1>0, <2>1, <2>2 DEF OneWorker, NothingRuns, Settled, TypeOK, NoTask
    <2>8. OwnedWork'
      BY <1>0, <2>1, <2>3, <2>4 DEF Work, OwnedWork
    <2>9. QED
      BY <2>6, <2>7, <2>8 DEF Work
  <1>6. QED
    BY <1>3, <1>4, <1>5 DEF WorkerNext

\* The execution of the active task.
LEMMA ExecWork ==
  ASSUME IInv, ExecNext
  PROVE  Work'
  <1> USE DEF vars, durable, process, queue, execution, reset, build
  <1>0. TypeOK /\ Work /\ task \in Stores /\ "running" \in States /\ "blocked" \in States
    BY DEF IInv, TypeOK, Stores, States
  <1>1. ASSUME exec # "none"
        PROVE  active \in Ids /\ active <= created /\ proc = "up" /\ worker = "run"
    BY <1>0, <1>1 DEF Work, OneWorker, TypeOK
  \* A step that leaves the active task in a state of no worker's.
  <1>2. ASSUME exec # "none", exec' \in {"done", "running"},
               UNCHANGED <<created, proc, closing, worker, active>>,
               \A u \in Ids : u # active => task'[u] = task[u],
               \/ task'[active].state \notin {"running", "cancel-requested"}
               \/ task'[active].state = "cancel-requested"
               \/ exec' = "running"
               \/ closing
        PROVE  Work'
    <2>1. active \in Ids /\ active <= created /\ proc = "up" /\ worker = "run"
      BY <1>1, <1>2
    <2>2. Fresh'
      BY <1>0, <1>2, <2>1 DEF Work, Fresh, TypeOK, Ids
    <2>3. OneWorker' /\ NothingRuns' /\ Settled'
      BY <1>0, <1>2, <2>1 DEF Work, OneWorker, NothingRuns, Settled
    <2>4. OwnedWork'
      BY <1>0, <1>2, <2>1 DEF Work, OwnedWork
    <2>5. QED
      BY <2>2, <2>3, <2>4 DEF Work
  <1>3. CASE ExecBegin
    <2>1. active \in Ids
      BY <1>1, <1>3 DEF ExecBegin
    <2>2. task[active].state # "running"
      BY <1>0, <1>3, <2>1 DEF ExecBegin, Work, Settled, NoTask, Ids
    <2>3. CASE task[active].state = "queued"
      <3>1. task' = WithState(task, active, "running") /\ exec' = "running"
        BY <1>3, <2>3 DEF ExecBegin
      <3>2. \A u \in Ids : u # active => task'[u] = task[u]
        BY <1>0, <2>1, <3>1, WithStateEffect
      <3>3. QED
        BY <1>2, <1>3, <3>1, <3>2 DEF ExecBegin
    <2>4. CASE task[active].state # "queued"
      BY <1>2, <1>3, <2>2, <2>4 DEF ExecBegin
    <2>5. QED
      BY <2>3, <2>4
  <1>4. CASE TakeCommand
    BY <1>2, <1>4 DEF TakeCommand
  <1>5. ASSUME NEW kind \in {"accepted", "progress", "finding", "question", "blocked"},
               NEW v \in revisions, Report(kind, v)
        PROVE  Work'
    <2>1. active \in Ids
      BY <1>1, <1>5 DEF Report
    <2>2. \A u \in Ids : u # active => task'[u] = task[u]
      BY <1>0, <1>5, <2>1, ReportEffect
    <2>3. QED
      BY <1>2, <1>5, <2>2 DEF Report
  <1>6. ASSUME NEW v \in revisions, ReportGap(v)
        PROVE  Work'
    BY <1>5, <1>6 DEF ReportGap
  <1>7. ASSUME NEW kind \in ReportKinds, NEW v \in revisions, ReportOnly(kind, v)
        PROVE  Work'
    BY <1>5, <1>7, CoordinatorAssumption DEF ReportOnly
  <1>8. ASSUME NEW ok \in BOOLEAN, ExecFinish(ok)
        PROVE  Work'
    <2>1. active \in Ids
      BY <1>1, <1>8 DEF ExecFinish, Ended
    <2>2. CASE Stopped(task[active])
      <3>1. UNCHANGED task /\ task[active].state # "running"
        BY <1>8, <2>2 DEF ExecFinish, Stopped
      <3>2. QED
        BY <1>2, <1>8, <3>1 DEF ExecFinish, Ended
    <2>3. CASE ~Stopped(task[active])
      <3>1. task' = Finished(ok)
        BY <1>8, <2>3 DEF ExecFinish
      <3>2. QED
        BY <1>0, <1>2, <1>8, <2>1, <3>1, FinishedEffect DEF ExecFinish, Ended
    <2>4. QED
      BY <2>2, <2>3
  <1>9. ASSUME NEW ok \in BOOLEAN, ExecFinishLate(ok)
        PROVE  Work'
    <2>1. active \in Ids /\ active <= created /\ proc = "up" /\ worker = "run"
      BY <1>1, <1>9 DEF ExecFinishLate, Ended
    <2>2. /\ Finished(ok) \in Stores /\ Behind(Finished(ok)[active])
          /\ Finished(ok)[active].state \in {"completed", "blocked"}
          /\ \A u \in Ids : u # active => Finished(ok)[u] = task[u]
      BY <1>0, <1>9, <2>1, FinishedEffect DEF ExecFinishLate
    <2>3. /\ created' \in {created, created + 1}
          /\ \A u \in Ids :
               \/ task'[u].state = Finished(ok)[u].state
               \/ Finished(ok)[u].state = "queued" /\ task'[u].state = "blocked"
               \/ /\ u = created + 1 /\ created' = created + 1
                  /\ task'[u].state \in {"queued", "blocked"}
      BY <1>0, <1>9, <2>1, <2>2, FollowupEffect DEF ExecFinishLate, TypeOK
    <2>4. UNCHANGED <<proc, closing, worker, active>> /\ exec' = "done" /\ exec = "running"
      BY <1>9 DEF ExecFinishLate, Ended
    <2>5. Fresh'
      <3> SUFFICES ASSUME NEW u \in Ids, u > created'
                   PROVE  task'[u].state = "none"
        BY DEF Fresh
      <3>1. u > created /\ ~(u = created + 1 /\ created' = created + 1)
        BY <1>0, <2>3 DEF TypeOK, Ids
      <3>2. u # active /\ task[u].state = "none"
        BY <1>0, <2>1, <3>1 DEF Work, Fresh, TypeOK, Ids
      <3>3. QED
        BY <2>2, <2>3, <3>1, <3>2
    <2>6. task'[active].state \notin {"running", "cancel-requested"}
      BY <2>1, <2>2, <2>3
    <2>7. OneWorker' /\ NothingRuns' /\ Settled'
      BY <1>0, <2>1, <2>3, <2>4, <2>6
      DEF Work, OneWorker, NothingRuns, Settled, TypeOK, Ids
    <2>8. OwnedWork'
      BY <1>0, <2>1, <2>2, <2>3, <2>4 DEF Work, OwnedWork
    <2>9. QED
      BY <2>5, <2>7, <2>8 DEF Work
  <1>10. ASSUME NEW ok \in BOOLEAN, ExecFinishFull(ok)
         PROVE  Work'
    <2>1. active \in Ids
      BY <1>1, <1>10 DEF ExecFinishFull, Ended
    <2>2. /\ task'[active].state = "blocked"
          /\ \A u \in Ids : u # active => task'[u] = task[u]
      BY <1>0, <1>10, <2>1, FinishedEffect, WithStateEffect DEF ExecFinishFull, Failed
    <2>3. QED
      BY <1>2, <1>10, <2>2 DEF ExecFinishFull, Ended
  <1>11. CASE ExecFail
    <2>1. active \in Ids
      BY <1>1, <1>11 DEF ExecFail
    <2>2. CASE Stopped(task[active])
      <3>1. UNCHANGED task /\ task[active].state # "running"
        BY <1>11, <2>2 DEF ExecFail, Stopped
      <3>2. QED
        BY <1>2, <1>11, <3>1 DEF ExecFail
    <2>3. CASE ~Stopped(task[active])
      <3>1. /\ task'[active].state = "blocked"
            /\ \A u \in Ids : u # active => task'[u] = task[u]
        BY <1>0, <1>11, <2>1, <2>3, WithStateEffect DEF ExecFail, Failed
      <3>2. QED
        BY <1>2, <1>11, <3>1 DEF ExecFail
    <2>4. QED
      BY <2>2, <2>3
  <1>12. ASSUME NEW settles \in BOOLEAN, ExecCancelled(settles)
         PROVE  Work'
    <2>1. active \in Ids /\ exec \in {"dropped", "cancelling"}
      BY <1>1, <1>12 DEF ExecCancelled
    <2>2. task[active].state = "running" => closing
      BY <1>0, <2>1 DEF Work, Settled, NoTask, Ids
    <2>3. /\ \A u \in Ids : u # active => task'[u] = task[u]
          /\ task'[active].state \in {task[active].state, "canceled", "interrupted"}
      BY <1>0, <1>12, <2>1, SettleEffect DEF ExecCancelled
    <2>4. QED
      BY <1>2, <1>12, <2>1, <2>2, <2>3 DEF ExecCancelled
  <1>13. QED
    BY <1>3, <1>4, <1>6, <1>7, <1>8, <1>9, <1>10, <1>11, <1>12 DEF ExecNext

\* Starting.
LEMMA StartWork ==
  ASSUME IInv, StartNext
  PROVE  Work'
  <1> USE DEF vars, durable, process, queue, execution, reset, build
  <1>0. TypeOK /\ Work /\ task \in Stores
    BY DEF IInv, TypeOK, Stores
  <1>1. proc # "up" => worker = "stopped" /\ exec = "none" /\ active = NoTask
    BY <1>0 DEF Work, OneWorker
  <1>2. CASE Boot
    <2>1. /\ proc' = "starting" /\ UNCHANGED <<created, closing, worker, active, exec>>
          /\ proc = "down"
      BY <1>2 DEF Boot
    <2>2. task' = Recovered(task)
      BY <1>0, <1>2, BootEffect
    <2>3. \A u \in Ids : \/ task'[u].state = task[u].state
                         \/ task[u].state # "none" /\ task'[u].state = "interrupted"
      BY <1>0, <2>2, RecoveredEffect
    <2>4. NothingRuns'
      BY <1>0, <2>2, RecoveredEffect DEF NothingRuns
    <2>5. Fresh'
      BY <1>0, <2>1, <2>3 DEF Work, Fresh
    <2>6. OneWorker' /\ Settled' /\ OwnedWork'
      BY <1>0, <1>1, <2>1 DEF Work, OneWorker, Settled, OwnedWork
    <2>7. QED
      BY <2>4, <2>5, <2>6 DEF Work
  <1>3. ASSUME NEW t \in Ids, StartFollowup(t)
        PROVE  Work'
    <2>1. /\ UNCHANGED <<proc, closing, worker, active, exec>> /\ proc = "starting"
      BY <1>3 DEF StartFollowup
    <2>2. /\ created' \in {created, created + 1}
          /\ \A u \in Ids :
               \/ task'[u].state = task[u].state
               \/ task[u].state = "queued" /\ task'[u].state = "blocked"
               \/ /\ u = created + 1 /\ created' = created + 1
                  /\ task'[u].state \in {"queued", "blocked"}
      BY <1>0, <1>3, FollowupEffect DEF StartFollowup, NeedsFollowup, TypeOK
    <2>3. Fresh'
      <3> SUFFICES ASSUME NEW u \in Ids, u > created'
                   PROVE  task'[u].state = "none"
        BY DEF Fresh
      <3>1. u > created /\ ~(u = created + 1 /\ created' = created + 1)
        BY <1>0, <2>2 DEF TypeOK, Ids
      <3>2. QED
        BY <1>0, <2>2, <3>1 DEF Work, Fresh
    <2>4. NothingRuns'
      BY <1>0, <2>1, <2>2 DEF Work, NothingRuns
    <2>5. OneWorker'
      BY <1>0, <2>1, <2>2 DEF Work, OneWorker, TypeOK, NoTask
    <2>6. Settled' /\ OwnedWork'
      BY <1>1, <2>1 DEF Settled, OwnedWork
    <2>7. QED
      BY <2>3, <2>4, <2>5, <2>6 DEF Work
  <1>4. ASSUME NEW t \in Ids, StartFails(t)
        PROVE  Work'
    <2>1. LoseMemory /\ UNCHANGED <<task, created, stops>>
      BY <1>4 DEF StartFails
    <2>2. (OneWorker /\ NothingRuns /\ Settled /\ OwnedWork)'
      BY <1>0, <2>1, LoseMemoryType DEF TypeOK
    <2>3. QED
      BY <1>0, <2>1, <2>2 DEF Work, Fresh
  <1>5. CASE StartDone
    <2>1. /\ UNCHANGED <<task, created, closing, active, exec>>
          /\ proc = "starting" /\ proc' = "up" /\ worker' = "wait"
      BY <1>5 DEF StartDone
    <2>2. Fresh' /\ OneWorker' /\ NothingRuns' /\ Settled'
      BY <1>0, <1>1, <2>1 DEF Work, Fresh, OneWorker, NothingRuns, Settled
    <2>3. OwnedWork'
      BY <1>0, <2>1 DEF Work, NothingRuns, OwnedWork
    <2>4. QED
      BY <2>2, <2>3 DEF Work
  <1>6. QED
    BY <1>2, <1>3, <1>4, <1>5 DEF StartNext

\* Closing, and dying.
LEMMA StopWork ==
  ASSUME IInv, StopNext
  PROVE  Work'
  <1> USE DEF vars, durable, process, queue, execution, reset, build
  <1>0. /\ TypeOK /\ Work /\ task \in Stores
        /\ (TypeOK /\ created \in 0..MaxTasks /\ task \in Stores)'
    BY StopTypes DEF IInv, TypeOK, Stores
  <1>1. ASSUME LoseMemory, Fresh'
        PROVE  Work'
    BY <1>0, <1>1, LoseMemoryType DEF Work, TypeOK
  <1>2. CASE Crash \/ Exit
    BY <1>0, <1>1, <1>2 DEF Crash, Exit, Work, Fresh
  <1>3. CASE Close \/ CloseForce
    <2>1. UNCHANGED <<task, created, proc, worker, active>> /\ closing'
      BY <1>0, <1>3 DEF Close, CloseForce, TypeOK
    <2>2. exec' = Cancelled(exec)
      BY <1>3 DEF Close, CloseForce
    <2>3. /\ exec' = "none" <=> exec = "none"
          /\ exec' = "cancelling" <=> exec \in {"running", "cancelling"}
          /\ exec' = "done" <=> exec = "done"
      BY <1>0, <2>2, CancelledEffect DEF TypeOK
    <2>4. Fresh' /\ OneWorker' /\ NothingRuns' /\ OwnedWork'
      BY <1>0, <2>1, <2>3 DEF Work, Fresh, OneWorker, NothingRuns, OwnedWork
    <2>5. Settled'
      BY <1>0, <2>1, <2>3 DEF Work, Settled
    <2>6. QED
      BY <2>4, <2>5 DEF Work
  <1>4. ASSUME NEW ok \in BOOLEAN, CrashInFinish(ok)
        PROVE  Work'
    <2>1. active \in Ids /\ active <= created
      BY <1>0, <1>4 DEF CrashInFinish, Ended, Work, OneWorker, TypeOK
    <2>2. /\ Finished(ok) \in Stores /\ Behind(Finished(ok)[active])
          /\ \A u \in Ids : u # active => Finished(ok)[u] = task[u]
      BY <1>0, <1>4, <2>1, FinishedEffect DEF CrashInFinish
    <2>3. \A u \in Ids : u # created + 1 =>
            WithChild(Finished(ok), active)[u] = Finished(ok)[u]
      BY <1>0, <1>4, <2>1, <2>2, WithChildEffect DEF CrashInFinish, TypeOK
    <2>4. SavedChild(Finished(ok), active) # {} =>
            WithChild(Finished(ok), active) = Finished(ok)
      BY DEF WithChild
    <2>5. Fresh'
      <3> SUFFICES ASSUME NEW u \in Ids, u > created'
                   PROVE  task'[u].state = "none"
        BY DEF Fresh
      <3>1. created' \in {created, created + 1}
        BY <1>4 DEF CrashInFinish
      <3>2. u # active /\ task[u].state = "none"
        BY <1>0, <2>1, <3>1 DEF Work, Fresh, TypeOK, Ids
      <3>3. task'[u] = Finished(ok)[u]
        <4>1. CASE task' = Finished(ok)
          BY <4>1
        <4>2. CASE /\ task' = WithChild(Finished(ok), active)
                   /\ created' = IF SavedChild(Finished(ok), active) = {}
                                 THEN created + 1 ELSE created
          <5>1. CASE SavedChild(Finished(ok), active) = {}
            BY <1>0, <2>3, <4>2, <5>1 DEF TypeOK, Ids
          <5>2. CASE SavedChild(Finished(ok), active) # {}
            BY <2>4, <4>2, <5>2
          <5>3. QED
            BY <5>1, <5>2
        <4>3. QED
          BY <1>4, <4>1, <4>2 DEF CrashInFinish
      <3>4. QED
        BY <2>2, <3>2, <3>3
    <2>6. QED
      BY <1>1, <1>4, <2>5 DEF CrashInFinish
  <1>5. QED
    BY <1>2, <1>3, <1>4 DEF StopNext

-----------------------------------------------------------------------------
(***************************************************************************)
(* Every step keeps the wakeup, and starts no build without the service.   *)
(***************************************************************************)

\* The first state: no record, no process, nothing owned.
LEMMA InitIInv == Init => IInv
  <1> SUFFICES ASSUME Init PROVE IInv
    OBVIOUS
  <1>1. TypeOK
    <2>1. task \in [Ids -> TaskRecord]
      BY AbsentType DEF Init
    <2>2. pending \in Seq(Ids) /\ commands \in Seq(Nat)
      BY DEF Init, InitMemory
    <2>3. /\ resetting \in [Sessions -> {"no", "marked", "stopped"}]
          /\ awaited \in [Sessions -> Ids \cup {NoTask}]
          /\ gap \in [Ids -> GapStages]
          /\ notes \in [Ids -> Notes \cup {NoNote}]
      BY DEF Init, InitMemory, GapStages
    <2>4. exec \in ExecStates
      BY DEF Init, InitMemory, ExecStates
    <2>5. created \in 0..MaxTasks /\ stops \in 0..MaxStops
      BY StoreAssumption, CoordinatorAssumption DEF Init
    <2>6. QED
      BY <2>1, <2>2, <2>3, <2>4, <2>5 DEF Init, InitMemory, TypeOK
  <1>2. Work
    BY AbsentType
    DEF Init, InitMemory, Work, Fresh, OneWorker, NothingRuns, Settled, OwnedWork, NoTask
  <1>3. NoLostWakeup /\ NoBuild
    BY DEF Init, InitMemory, NoLostWakeup, NoBuild
  <1>4. QED
    BY <1>1, <1>2, <1>3 DEF IInv

\* Whatever fills the queue while _run sleeps sets _wake, and _run clears it only
\* to look at the queue.
LEMMA WakeStep ==
  ASSUME IInv, Next
  PROVE  NoLostWakeup'
  <1> USE DEF vars, durable, process, queue, execution, reset, build
  <1>0. TypeOK /\ task \in Stores /\ NoLostWakeup
    BY DEF IInv, TypeOK, Stores
  <1>1. ASSUME UNCHANGED worker, wake => wake', pending' # <<>> => pending # <<>> \/ wake'
        PROVE  NoLostWakeup'
    BY <1>0, <1>1 DEF NoLostWakeup
  <1>2. CASE UserNext
    <2>1. ASSUME NEW s \in Sessions, NEW r \in Requests, Submit(s, r)
          PROVE  NoLostWakeup'
      BY <2>1 DEF Submit, NoLostWakeup
    <2>2. ASSUME NEW t \in Ids, NEW r \in Requests, Continue(t, r)
          PROVE  NoLostWakeup'
      BY <2>2 DEF Continue, NoLostWakeup
    <2>3. ASSUME NEW t \in Ids, Cancel(t)
          PROVE  NoLostWakeup'
      BY <1>0, <1>1, <2>3, WithoutType DEF Cancel, TypeOK
    <2>4. ASSUME UNCHANGED <<pending, wake, worker>>
          PROVE  NoLostWakeup'
      BY <1>0, <2>4 DEF NoLostWakeup
    <2>5. ASSUME NEW t \in Ids, NEW r \in Requests, Steer(t, r)
          PROVE  NoLostWakeup'
      BY <2>4, <2>5 DEF Steer
    <2>6. ASSUME NEW t \in Ids, Delete(t)
          PROVE  NoLostWakeup'
      BY <2>4, <2>6 DEF Delete
    <2>7. ASSUME NEW s \in Sessions, Reset(s) \/ ResetMark(s)
          PROVE  NoLostWakeup'
      BY <2>4, <2>7 DEF Reset, ResetMark
    <2>8. QED
      BY <1>2, <2>1, <2>2, <2>3, <2>5, <2>6, <2>7 DEF UserNext
  <1>3. CASE ResetNext
    <2>1. ASSUME NEW s \in Sessions, ResetStop(s)
          PROVE  NoLostWakeup'
      BY <1>0, <1>1, <2>1, OnlyOthersPendingType DEF ResetStop, TypeOK
    <2>2. ASSUME NEW s \in Sessions, ResetSettle(s) \/ ResetFinish(s)
          PROVE  NoLostWakeup'
      BY <1>1, <2>2 DEF ResetSettle, ResetFinish
    <2>3. QED
      BY <1>3, <2>1, <2>2 DEF ResetNext
  <1>4. CASE SelfModNext
    <2>1. ASSUME NEW t \in Ids, GapInterrupt(t)
          PROVE  NoLostWakeup'
      BY <1>0, <1>1, <2>1, WithoutType DEF GapInterrupt, TypeOK
    <2>2. ASSUME NEW t \in Ids, GapPropose(t) \/ BuildEnds(t)
          PROVE  NoLostWakeup'
      BY <1>1, <2>2 DEF GapPropose, BuildEnds
    <2>3. ASSUME NEW t \in Ids, ReleaseHeld(t)
          PROVE  NoLostWakeup'
      BY <1>1, <2>3 DEF ReleaseHeld
    <2>4. ASSUME NEW p \in Ids, NEW r \in Requests, SubmitContinuation(p, r)
          PROVE  NoLostWakeup'
      BY <1>1, <2>4 DEF SubmitContinuation
    <2>5. QED
      BY <1>4, <2>1, <2>2, <2>3, <2>4 DEF SelfModNext
  <1>5. CASE WorkerNext
    <2>1. \A q : NextStop(q) = "wait" => q = <<>>
      BY DEF NextStop
    <2>2. CASE RunWake
      BY <2>1, <2>2 DEF RunWake, NoLostWakeup
    <2>3. CASE RunPop
      BY <2>1, <2>3 DEF RunPop, NoLostWakeup
    <2>4. CASE RunSettle
      BY <2>1, <2>4 DEF RunSettle, NoLostWakeup
    <2>5. QED
      BY <1>5, <2>2, <2>3, <2>4 DEF WorkerNext
  <1>6. CASE ExecNext
    <2>1. ASSUME NEW ok \in BOOLEAN, ExecFinishLate(ok)
          PROVE  NoLostWakeup'
      BY <1>1, <2>1 DEF ExecFinishLate, FollowupLocked
    <2>2. ASSUME UNCHANGED queue, UNCHANGED worker
          PROVE  NoLostWakeup'
      BY <1>1, <2>2
    <2>3. CASE ExecBegin \/ TakeCommand \/ ExecFail
      BY <2>2, <2>3 DEF ExecBegin, TakeCommand, ExecFail
    <2>4. ASSUME NEW v \in revisions, ReportGap(v)
          PROVE  NoLostWakeup'
      BY <2>2, <2>4 DEF ReportGap, Report
    <2>5. ASSUME NEW v \in revisions, NEW kind \in ReportKinds, ReportOnly(kind, v)
          PROVE  NoLostWakeup'
      BY <2>2, <2>5 DEF ReportOnly, Report
    <2>6. ASSUME NEW ok \in BOOLEAN,
                 ExecFinish(ok) \/ ExecFinishFull(ok) \/ ExecCancelled(ok)
          PROVE  NoLostWakeup'
      BY <2>2, <2>6 DEF ExecFinish, ExecFinishFull, ExecCancelled
    <2>7. QED
      BY <1>6, <2>1, <2>3, <2>4, <2>5, <2>6 DEF ExecNext
  <1>7. ASSUME worker' = "stopped" \/ wake'
        PROVE  NoLostWakeup'
    BY <1>7 DEF NoLostWakeup
  <1>8. CASE StartNext
    <2>1. CASE Boot
      BY <1>7, <2>1 DEF Boot, IInv, Work, OneWorker
    <2>2. CASE StartDone
      BY <1>7, <2>2 DEF StartDone
    <2>3. ASSUME NEW t \in Ids, StartFollowup(t)
          PROVE  NoLostWakeup'
      BY <1>7, <2>3 DEF StartFollowup, IInv, Work, OneWorker
    <2>4. ASSUME NEW t \in Ids, StartFails(t)
          PROVE  NoLostWakeup'
      BY <1>7, <2>4 DEF StartFails, LoseMemory
    <2>5. QED
      BY <1>8, <2>1, <2>2, <2>3, <2>4 DEF StartNext
  <1>9. CASE StopNext
    <2>1. CASE Crash \/ Exit
      BY <1>7, <2>1 DEF Crash, Exit, LoseMemory
    <2>2. CASE Close \/ CloseForce
      BY <1>1, <1>7, <2>2 DEF Close, CloseForce
    <2>3. ASSUME NEW ok \in BOOLEAN, CrashInFinish(ok)
          PROVE  NoLostWakeup'
      BY <1>7, <2>3 DEF CrashInFinish, LoseMemory
    <2>4. QED
      BY <1>9, <2>1, <2>2, <2>3 DEF StopNext
  <1>10. QED
    BY <1>2, <1>3, <1>4, <1>5, <1>6, <1>8, <1>9 DEF Next

\* Without deployments and on_gap no report starts a capability build.
LEMMA BuildStep ==
  ASSUME IInv, Next
  PROVE  NoBuild'
  <1> USE DEF vars, durable, process, queue, execution, reset, build
  <1> SUFFICES ASSUME ~SelfMod PROVE \A t \in Ids : gap'[t] = "none"
    BY DEF NoBuild
  <1>0. TypeOK /\ (\A t \in Ids : gap[t] = "none")
    BY DEF IInv, NoBuild
  <1>1. CASE UNCHANGED gap
    BY <1>0, <1>1
  <1>2. CASE gap' = [t \in Ids |-> "none"]
    BY <1>2
  <1>3. CASE UserNext
    <2>1. ASSUME NEW t \in Ids, Cancel(t)
          PROVE  \A u \in Ids : gap'[u] = "none"
      BY <1>0, <2>1 DEF Cancel, GapAfterCancel
    <2>2. ASSUME NEW t \in Ids, NEW r \in Requests, Steer(t, r) \/ Continue(t, r)
          PROVE  UNCHANGED gap
      BY <2>2 DEF Steer, Continue
    <2>3. ASSUME NEW s \in Sessions, NEW r \in Requests, Submit(s, r)
          PROVE  UNCHANGED gap
      BY <2>3 DEF Submit
    <2>4. ASSUME NEW t \in Ids, Delete(t)
          PROVE  UNCHANGED gap
      BY <2>4 DEF Delete
    <2>5. ASSUME NEW s \in Sessions, Reset(s) \/ ResetMark(s)
          PROVE  UNCHANGED gap
      BY <2>5 DEF Reset, ResetMark
    <2>6. QED
      BY <1>1, <1>3, <2>1, <2>2, <2>3, <2>4, <2>5 DEF UserNext
  <1>4. CASE ResetNext
    BY <1>1, <1>4 DEF ResetNext, ResetStop, ResetSettle, ResetFinish
  <1>5. ~SelfModNext
    BY <1>0
    DEF SelfModNext, GapPropose, GapInterrupt, ReleaseHeld, BuildEnds, SubmitContinuation
  <1>6. CASE WorkerNext
    BY <1>1, <1>6 DEF WorkerNext, RunWake, RunPop, RunSettle
  <1>7. CASE ExecNext
    <2>1. ~ \E v \in revisions : ReportGap(v)
      BY DEF ReportGap
    <2>2. QED
      BY <1>1, <1>7, <2>1
      DEF ExecNext, ExecBegin, TakeCommand, ExecFail, ReportOnly, ExecFinish,
          ExecFinishLate, ExecFinishFull, ExecCancelled
  <1>8. CASE StartNext
    BY <1>1, <1>2, <1>8
    DEF StartNext, Boot, StartDone, StartFollowup, StartFails, LoseMemory
  <1>9. CASE StopNext
    BY <1>1, <1>2, <1>9
    DEF StopNext, Crash, Close, CloseForce, Exit, CrashInFinish, LoseMemory
  <1>10. QED
    BY <1>3, <1>4, <1>5, <1>6, <1>7, <1>8, <1>9 DEF Next

-----------------------------------------------------------------------------
(***************************************************************************)
(* Every step keeps to the life of a task.                                 *)
(***************************************************************************)

\* Work that left the queue does not return to it; without the service that
\* builds capabilities, a cancellation is not taken back.
Life ==
  \A t \in Ids :
    /\ task[t].state \notin {"none", "queued"} => task'[t].state # "queued"
    /\ ~SelfMod =>
         /\ task[t].state = "canceled" => task'[t].state \in {"canceled", "none"}
         /\ task[t].state = "cancel-requested" =>
              task'[t].state \in {"cancel-requested", "canceled", "interrupted", "none"}

\* _settle_cancellation ends a cancellation as cancelled or interrupted.
LEMMA SettleLife ==
  ASSUME TypeOK, NEW t \in Ids, Settle(t)
  PROVE  Life
  <1>1. /\ \A u \in Ids : u # t => task'[u] = task[u]
        /\ IF ToSettle(task[t])
           THEN task'[t].state = (IF closing THEN "interrupted" ELSE "canceled")
           ELSE task' = task
    BY SettleEffect
  <1>2. ToSettle(task[t]) => task[t].state # "canceled"
    BY DEF ToSettle
  <1>3. QED
    BY <1>1, <1>2 DEF Life

\* A record that appears changes the state of no other task.
LEMMA NewTaskLife ==
  ASSUME TypeOK, Work, created' \in Ids, created' = created + 1,
         \A u \in Ids : u # created' => task'[u] = task[u]
  PROVE  Life
  <1>1. task[created'].state = "none"
    BY DEF Work, Fresh, TypeOK
  <1>2. QED
    BY <1>1 DEF Life

\* Requests, resets and the self-modification service.
LEMMA UserLife ==
  ASSUME IInv, UserNext \/ ResetNext \/ SelfModNext
  PROVE  Life
  <1> USE DEF vars, durable, process, queue, execution, reset, build
  <1>0. /\ TypeOK /\ Work /\ NoBuild /\ task \in Stores
        /\ {"canceled", "cancel-requested", "blocked"} \subseteq States
    BY DEF IInv, TypeOK, Stores, States
  <1>1. ASSUME \A u \in Ids : task'[u].state \in {task[u].state, "none"}
        PROVE  Life
    BY <1>1 DEF Life
  <1>2. ASSUME NEW s \in Sessions, NEW r \in Requests, Submit(s, r)
        PROVE  Life
    BY <1>0, <1>2, AdmitEffect, StartedEffect, NewTaskLife DEF Submit
  <1>4. ASSUME NEW t \in Ids, NEW r \in Requests, Continue(t, r)
        PROVE  Life
    <2>1. created' \in Ids /\ created' = created + 1
      BY <1>0, <1>4, AdmitEffect DEF Continue
    <2>2. \A u \in Ids : u # created' => task'[u] = task[u]
      BY <1>0, <1>4, <2>1 DEF Continue, Started, Stores
    <2>3. QED
      BY <1>0, <2>1, <2>2, NewTaskLife
  <1>5. ASSUME NEW t \in Ids, NEW r \in Requests, SubmitContinuation(t, r)
        PROVE  Life
    <2>1. created' \in Ids /\ created' = created + 1
      BY <1>0, <1>5, AdmitEffect DEF SubmitContinuation
    <2>2. \A u \in Ids : u # created' => task'[u] = task[u]
      BY <1>0, <1>5, <2>1 DEF SubmitContinuation, Started, Stores
    <2>3. QED
      BY <1>0, <2>1, <2>2, NewTaskLife
  <1>6. ASSUME NEW t \in Ids, NEW r \in Requests, Steer(t, r)
        PROVE  Life
    BY <1>0, <1>1, <1>6, WithSteerEffect DEF Steer
  <1>7. ASSUME NEW t \in Ids, Cancel(t)
        PROVE  Life
    <2>1. CASE task[t].state \in ActiveStates
      <3>1. /\ task'[t].state \in {"cancel-requested", "canceled"}
            /\ \A u \in Ids : u # t => task'[u] = task[u]
        BY <1>0, <1>7, <2>1, WithStateEffect DEF Cancel
      <3>2. task[t].state # "canceled"
        BY <2>1 DEF ActiveStates
      <3>3. QED
        BY <3>1, <3>2 DEF Life
    <2>2. CASE task[t].state \notin ActiveStates
      BY <1>1, <1>7, <2>2 DEF Cancel
    <2>3. QED
      BY <2>1, <2>2
  <1>8. ASSUME NEW t \in Ids, Delete(t)
        PROVE  Life
    BY <1>0, <1>1, <1>8, AbsentType DEF Delete, Deleted, Stores
  <1>9. ASSUME NEW s \in Sessions, Reset(s) \/ ResetMark(s) \/ ResetFinish(s)
        PROVE  Life
    BY <1>0, <1>1, <1>9, AbsentType
    DEF Reset, ResetMark, ResetFinish, ResetStore, Stores
  <1>10. ASSUME NEW s \in Sessions, ResetStop(s)
         PROVE  Life
    BY <1>0, <1>10, SMTT(60) DEF ResetStop, Stores, TaskRecord, ActiveStates, Life
  <1>11. ASSUME NEW s \in Sessions, ResetSettle(s)
         PROVE  Life
    BY <1>0, <1>11, SettleLife DEF ResetSettle, TypeOK
  <1>12. ASSUME NEW t \in Ids, GapPropose(t) \/ ReleaseHeld(t) \/ BuildEnds(t)
         PROVE  Life
    BY <1>1, <1>12 DEF GapPropose, ReleaseHeld, BuildEnds
  <1>13. ASSUME NEW t \in Ids, GapInterrupt(t)
         PROVE  Life
    <2>1. SelfMod
      BY <1>0, <1>13 DEF GapInterrupt, NoBuild
    <2>2. \A u \in Ids : task'[u].state \in {task[u].state, "blocked"}
      BY <1>0, <1>13, WithStateEffect, SMTT(60) DEF GapInterrupt
    <2>3. QED
      BY <2>1, <2>2 DEF Life
  <1>14. QED
    BY <1>2, <1>4, <1>5, <1>6, <1>7, <1>8, <1>9, <1>10, <1>11, <1>12, <1>13
    DEF UserNext, ResetNext, SelfModNext

\* The worker and its execution.
LEMMA RunLife ==
  ASSUME IInv, WorkerNext \/ ExecNext
  PROVE  Life
  <1> USE DEF vars, durable, process, queue, execution, reset, build
  <1>0. /\ TypeOK /\ Work /\ task \in Stores
        /\ {"running", "blocked"} \subseteq States
    BY DEF IInv, TypeOK, Stores, States
  <1>1. exec # "none" => active \in Ids
    BY <1>0 DEF Work, OneWorker, TypeOK
  <1>2. CASE UNCHANGED task
    BY <1>2 DEF Life
  \* What an execution does to a task that nobody cancelled.
  <1>3. ASSUME active \in Ids, ~Stopped(task[active]), task'[active].state # "queued",
               \A u \in Ids : u # active => task'[u] = task[u]
        PROVE  Life
    BY <1>3 DEF Life, Stopped
  <1>4. CASE WorkerNext
    <2>1. CASE RunWake \/ RunPop
      BY <1>2, <2>1 DEF RunWake, RunPop
    <2>2. CASE RunSettle
      BY <1>0, <1>1, <2>2, SettleLife DEF RunSettle
    <2>3. QED
      BY <1>4, <2>1, <2>2 DEF WorkerNext
  <1>5. CASE ExecBegin
    <2>1. CASE task[active].state = "queued"
      <3>1. /\ task'[active].state = "running"
            /\ \A u \in Ids : u # active => task'[u] = task[u]
        BY <1>0, <1>1, <1>5, <2>1, WithStateEffect DEF ExecBegin
      <3>2. QED
        BY <1>1, <1>3, <1>5, <2>1, <3>1 DEF ExecBegin, Stopped
    <2>2. CASE task[active].state # "queued"
      BY <1>2, <1>5, <2>2 DEF ExecBegin
    <2>3. QED
      BY <2>1, <2>2
  <1>6. CASE TakeCommand
    BY <1>2, <1>6 DEF TakeCommand
  <1>7. ASSUME NEW kind \in {"accepted", "progress", "finding", "question", "blocked"},
               NEW v \in revisions, Report(kind, v)
        PROVE  Life
    <2>1. active \in Ids
      BY <1>1, <1>7 DEF Report
    <2>2. /\ \A u \in Ids : u # active => task'[u] = task[u]
          /\ task'[active].state \in {task[active].state, "running", "blocked"}
          /\ ~Stopped(task[active])
      BY <1>0, <1>7, <2>1, ReportEffect
    <2>3. QED
      BY <2>1, <2>2 DEF Life, Stopped
  <1>8. ASSUME NEW v \in revisions, ReportGap(v)
        PROVE  Life
    BY <1>7, <1>8 DEF ReportGap
  <1>9. ASSUME NEW kind \in ReportKinds, NEW v \in revisions, ReportOnly(kind, v)
        PROVE  Life
    BY <1>7, <1>9, CoordinatorAssumption DEF ReportOnly
  <1>10. ASSUME NEW ok \in BOOLEAN, ExecFinish(ok)
         PROVE  Life
    BY <1>0, <1>1, <1>2, <1>3, <1>10, FinishedEffect DEF ExecFinish, Ended
  <1>11. ASSUME NEW ok \in BOOLEAN, ExecFinishLate(ok)
         PROVE  Life
    <2>1. active \in Ids /\ ~Stopped(task[active])
      BY <1>1, <1>11 DEF ExecFinishLate, Ended
    <2>2. /\ Finished(ok) \in Stores /\ Behind(Finished(ok)[active])
          /\ Finished(ok)[active].state \in {"completed", "blocked"}
          /\ \A u \in Ids : u # active => Finished(ok)[u] = task[u]
      BY <1>0, <1>11, <2>1, FinishedEffect DEF ExecFinishLate
    <2>3. \A u \in Ids :
             \/ task'[u].state = Finished(ok)[u].state
             \/ Finished(ok)[u].state = "queued" /\ task'[u].state = "blocked"
             \/ u = created + 1 /\ task'[u].state \in {"queued", "blocked"}
      BY <1>0, <1>11, <2>1, <2>2, FollowupEffect DEF ExecFinishLate, TypeOK
    <2>4. \A u \in Ids : u = created + 1 => task[u].state = "none"
      BY <1>0 DEF Work, Fresh, TypeOK, Ids
    <2>5. QED
      BY <2>1, <2>2, <2>3, <2>4 DEF Life, Stopped
  <1>12. ASSUME NEW ok \in BOOLEAN, ExecFinishFull(ok)
         PROVE  Life
    <2>1. active \in Ids
      BY <1>1, <1>12 DEF ExecFinishFull, Ended
    <2>2. /\ task'[active].state = "blocked"
          /\ \A u \in Ids : u # active => task'[u] = task[u]
      BY <1>0, <1>12, <2>1, FinishedEffect, WithStateEffect DEF ExecFinishFull, Failed
    <2>3. QED
      BY <1>3, <1>12, <2>1, <2>2 DEF ExecFinishFull
  <1>13. CASE ExecFail
    <2>1. active \in Ids
      BY <1>1, <1>13 DEF ExecFail
    <2>2. CASE Stopped(task[active])
      BY <1>2, <1>13, <2>2 DEF ExecFail
    <2>3. CASE ~Stopped(task[active])
      <3>1. /\ task'[active].state = "blocked"
            /\ \A u \in Ids : u # active => task'[u] = task[u]
        BY <1>0, <1>13, <2>1, <2>3, WithStateEffect DEF ExecFail, Failed
      <3>2. QED
        BY <1>3, <2>1, <2>3, <3>1
    <2>4. QED
      BY <2>2, <2>3
  <1>14. ASSUME NEW settles \in BOOLEAN, ExecCancelled(settles)
         PROVE  Life
    BY <1>0, <1>1, <1>2, <1>14, SettleLife DEF ExecCancelled
  <1>15. QED
    BY <1>4, <1>5, <1>6, <1>8, <1>9, <1>10, <1>11, <1>12, <1>13, <1>14
    DEF ExecNext

\* Starting, closing, and dying.
LEMMA ProcessLife ==
  ASSUME IInv, StartNext \/ StopNext
  PROVE  Life
  <1> USE DEF vars, durable, process, queue, execution, reset, build
  <1>0. TypeOK /\ Work /\ task \in Stores
    BY DEF IInv, TypeOK, Stores
  <1>1. CASE UNCHANGED task
    BY <1>1 DEF Life
  <1>2. \A u \in Ids : u = created + 1 => task[u].state = "none"
    BY <1>0 DEF Work, Fresh, TypeOK, Ids
  <1>3. CASE Boot
    BY <1>0, <1>3, BootEffect, RecoveredEffect DEF Life
  <1>4. ASSUME NEW t \in Ids, StartFollowup(t)
        PROVE  Life
    <2>1. \A u \in Ids :
             \/ task'[u].state = task[u].state
             \/ task[u].state = "queued" /\ task'[u].state = "blocked"
             \/ u = created + 1 /\ task'[u].state \in {"queued", "blocked"}
      BY <1>0, <1>4, FollowupEffect DEF StartFollowup, NeedsFollowup, TypeOK
    <2>2. QED
      BY <1>2, <2>1 DEF Life
  <1>5. ASSUME NEW t \in Ids, StartFails(t)
        PROVE  Life
    BY <1>1, <1>5 DEF StartFails
  <1>6. CASE StartDone \/ Crash \/ Close \/ CloseForce \/ Exit
    BY <1>1, <1>6 DEF StartDone, Crash, Close, CloseForce, Exit
  <1>7. ASSUME NEW ok \in BOOLEAN, CrashInFinish(ok)
        PROVE  Life
    <2>1. active \in Ids /\ ~Stopped(task[active])
      BY <1>0, <1>7 DEF CrashInFinish, Ended, Work, OneWorker, TypeOK
    <2>2. /\ Finished(ok) \in Stores /\ Behind(Finished(ok)[active])
          /\ Finished(ok)[active].state \in {"completed", "blocked"}
          /\ \A u \in Ids : u # active => Finished(ok)[u] = task[u]
      BY <1>0, <1>7, <2>1, FinishedEffect DEF CrashInFinish
    <2>3. \A u \in Ids : u # created + 1 =>
            WithChild(Finished(ok), active)[u] = Finished(ok)[u]
      BY <1>0, <1>7, <2>1, <2>2, WithChildEffect DEF CrashInFinish, TypeOK
    <2>4. \A u \in Ids : u # created + 1 => task'[u] = Finished(ok)[u]
      BY <1>7, <2>3 DEF CrashInFinish
    <2>5. QED
      BY <1>2, <2>1, <2>2, <2>4 DEF Life, Stopped
  <1>8. QED
    BY <1>3, <1>4, <1>5, <1>6, <1>7 DEF StartNext, StopNext

-----------------------------------------------------------------------------
(***************************************************************************)
(* The theorems.                                                           *)
(***************************************************************************)

\* The invariant is inductive.
LEMMA StepIInv == IInv /\ [Next]_vars => IInv'
  <1> SUFFICES ASSUME IInv, [Next]_vars PROVE IInv'
    OBVIOUS
  <1>1. CASE Next
    <2>1. TypeOK'
      BY <1>1, UserTypes, ResetTypes, SelfModTypes, WorkerTypes, ExecTypes,
         StartTypes, StopTypes DEF Next
    <2>2. Work'
      BY <1>1, UserWork, ResetWork, SelfModWork, WorkerWork, ExecWork,
         StartWork, StopWork DEF Next
    <2>3. QED
      BY <1>1, <2>1, <2>2, WakeStep, BuildStep DEF IInv
  <1>2. CASE UNCHANGED vars
    BY <1>2
    DEF vars, durable, process, queue, execution, reset, build, IInv, TypeOK, Work,
        Fresh, OneWorker, NothingRuns, Settled, OwnedWork, NoLostWakeup, NoBuild
  <1>3. QED
    BY <1>1, <1>2

\* The inductive invariant holds in every reachable state.
THEOREM Invariant == Spec => []IInv
  BY InitIInv, StepIInv, PTL DEF Spec

\* Every variable keeps its type.
THEOREM TypeCorrect == Spec => []TypeOK
  <1>1. IInv => TypeOK
    BY DEF IInv
  <1>2. QED
    BY <1>1, Invariant, PTL

\* Whatever is stored as running or being cancelled has a live owner: _run
\* awaits its execution.
THEOREM RunningWorkIsOwned == Spec => []OwnedWork
  <1>1. IInv => OwnedWork
    BY DEF IInv, Work
  <1>2. QED
    BY <1>1, Invariant, PTL

\* _run never sleeps on _wake while the queue has work.
THEOREM WakeupIsKept == Spec => []NoLostWakeup
  <1>1. IInv => NoLostWakeup
    BY DEF IInv
  <1>2. QED
    BY <1>1, Invariant, PTL

\* No step revives what was cancelled or requeues what left the queue.
LEMMA StepLife == IInv /\ [Next]_vars => Life
  <1> SUFFICES ASSUME IInv, [Next]_vars PROVE Life
    OBVIOUS
  <1>1. CASE Next
    BY <1>1, UserLife, RunLife, ProcessLife DEF Next
  <1>2. CASE UNCHANGED vars
    BY <1>2 DEF vars, durable, Life
  <1>3. QED
    BY <1>1, <1>2

\* Work that left the queue is never queued again: a task runs at most once,
\* through crashes, recoveries, follow-ups and capability builds.
THEOREM WorkRunsOnce == Spec => NeverRequeued
  <1>1. IInv /\ [Next]_vars =>
          \A t \in Ids :
            task[t].state \notin {"none", "queued"} => task'[t].state # "queued"
    BY StepLife DEF Life
  <1>2. QED
    BY <1>1, Invariant, PTL DEF Spec, NeverRequeued

\* Without the self-modification service a cancellation is never lost: no
\* report, result, error or recovery revives the task.
THEOREM CancelIsFinal ==
  ASSUME ~SelfMod
  PROVE  Spec => CancelSticks
  <1>1. IInv /\ [Next]_vars =>
          \A t \in Ids :
            /\ task[t].state = "canceled" => task'[t].state \in {"canceled", "none"}
            /\ task[t].state = "cancel-requested" =>
                 task'[t].state \in {"cancel-requested", "canceled", "interrupted", "none"}
    BY StepLife DEF Life
  <1>2. QED
    BY <1>1, Invariant, PTL DEF Spec, CancelSticks


-----------------------------------------------------------------------------
(***************************************************************************)
(* The invariant.                                                          *)
(***************************************************************************)

\* A row that is not there is empty, every other is a request of a conversation.
Recorded ==
  \A t \in Ids :
    IF task[t].state = "none" THEN task[t] = Absent
    ELSE task[t].session \in Sessions /\ task[t].request \in Requests

\* What a completed record says: the result covers what was accepted, and what
\* was not accepted has a follow-up by the time requests are served.
Followed(rec, up) ==
  rec.state = "completed" =>
    /\ rec.result = Covered(rec)
    /\ Behind(rec) /\ up => rec.followup # NoTask

Answered == \A t \in Ids : Followed(task[t], proc = "up")

JobsInv == Recorded /\ RequestOnce /\ Answered

\* What the store says of the active task while its execution lives.
LiveState ==
  /\ exec = "created" => task[active].state = "queued"
  /\ exec = "running" => task[active].state \in {"running", "blocked"}
  /\ exec = "dropped" =>
       \/ task[active].state \in {"cancel-requested", "blocked"}
       \/ closing /\ task[active].state = "queued"
  /\ exec = "cancelling" =>
       task[active].state \in {"running", "blocked", "cancel-requested"}

\* A conversation whose reset stopped its work has none in the queue, and its
\* execution, when it had one, is over or awaited.
ResetStops(s) ==
  resetting[s] = "stopped" =>
    /\ \A t \in Ids : task[t].session = s => task[t].state # "queued"
    /\ active # NoTask /\ task[active].session = s =>
         /\ exec \in {"dropped", "cancelling", "done"}
         /\ \/ awaited[s] = active
            \/ /\ awaited[s] = NoTask /\ exec = "done"
               /\ task[active].state \notin {"running", "cancel-requested"}
ResetInv ==
  \A s \in Sessions : ResetStops(s) /\ (resetting[s] # "no" => proc = "up")

\* The native worker was told of a revision, and one of them is the latest.
HasLatest ==
  exec = "running" =>
    /\ 0 \notin revisions
    /\ \E v \in revisions : \A w \in revisions : w <= v

HeardInv == HasLatest /\ NoInstructionMissed

HonestInv == JobsInv /\ LiveState /\ ResetInv /\ HeardInv

-----------------------------------------------------------------------------
(***************************************************************************)
(* What a step may do to a record.                                         *)
(***************************************************************************)

SameJob(a, b) ==
  a.session = b.session /\ a.request = b.request /\ a.steers = b.steers

\* The job stays, and a result that is new is honest.
Kept(u) ==
  \/ task'[u] = task[u]
  \/ /\ task[u].state # "none" /\ task'[u].state # "none"
     /\ SameJob(task[u], task'[u])
     /\ Followed(task'[u], proc' = "up")

\* The record goes.
Gone(u) == task'[u] = Absent

\* A record appears, for a request that created none.
Made(c, s, r) ==
  /\ task'[c].state \notin {"none", "completed"}
  /\ task'[c].session = s /\ s \in Sessions
  /\ task'[c].request = r /\ r \in Requests
  /\ task'[c].steers = <<>>
  /\ FindRequest(task, s, r) = {}

\* An instruction is saved that was not.
Told(t, r) ==
  /\ task[t].state \notin {"none", "completed"} /\ task'[t].state = task[t].state
  /\ task'[t].session = task[t].session /\ task'[t].request = task[t].request
  /\ task'[t].steers = Append(task[t].steers, r)
  /\ r \in Requests /\ ~Steered(task, task[t].session, r)

\* Records that stay, and rows that go, leave every request with one effect.
LEMMA JobsStay ==
  ASSUME TypeOK, JobsInv, \A u \in Ids : Kept(u) \/ Gone(u), proc' = "up" => proc = "up"
  PROVE  JobsInv'
  <1>1. \A u \in Ids : \/ SameJob(task[u], task'[u])
                       \/ task'[u].session \notin Sessions
    BY StoreAssumption DEF Kept, Gone, SameJob, Absent
  <1>2. Recorded'
    BY StoreAssumption DEF JobsInv, Recorded, Kept, Gone, SameJob, Absent
  <1>3. RequestOnce'
    BY <1>1 DEF JobsInv, RequestOnce, FindRequest, SessionTasks, SameJob
  <1>4. Answered'
    BY DEF JobsInv, Answered, Followed, Kept, Gone, Absent
  <1>5. QED
    BY <1>2, <1>3, <1>4 DEF JobsInv

\* A record that appears takes a request that created none.
LEMMA JobMade ==
  ASSUME TypeOK, JobsInv, NEW c \in Ids, NEW s, NEW r, Made(c, s, r),
         \A u \in Ids : u # c => Kept(u), proc' = "up" => proc = "up"
  PROVE  JobsInv'
  <1>1. \A u \in Ids : u # c => SameJob(task[u], task'[u])
    BY DEF Kept, SameJob
  <1>2. Recorded'
    BY DEF JobsInv, Recorded, Kept, Made, SameJob, Absent
  <1>3. RequestOnce'
    <2>1. ASSUME NEW z \in Sessions, NEW q \in Requests, NEW t \in FindRequest(task', z, q),
                 NEW u \in FindRequest(task', z, q)
          PROVE  t = u
      BY <1>1, <2>1 DEF JobsInv, RequestOnce, FindRequest, SessionTasks, SameJob, Made
    <2>2. ASSUME NEW z \in Sessions, NEW q \in Requests,
                 NEW t \in SessionTasks(task', z), NEW u \in SessionTasks(task', z),
                 NEW i \in 1..Len(task'[t].steers), NEW j \in 1..Len(task'[u].steers),
                 task'[t].steers[i] = q /\ task'[u].steers[j] = q
          PROVE  t = u /\ i = j
      <3>1. t # c /\ u # c
        BY <2>2 DEF Made
      <3>2. QED
        BY <1>1, <2>2, <3>1 DEF JobsInv, RequestOnce, SessionTasks, SameJob
    <2>3. QED
      BY <2>1, <2>2 DEF RequestOnce
  <1>4. Answered'
    BY DEF JobsInv, Answered, Followed, Kept, Made
  <1>5. QED
    BY <1>2, <1>3, <1>4 DEF JobsInv

\* The last entry of a list that grew is new, the others stay.
LEMMA AppendedEntry ==
  ASSUME NEW S, NEW q \in Seq(S), NEW x \in S
  PROVE  /\ Len(Append(q, x)) = Len(q) + 1 /\ Len(q) \in Nat
         /\ Append(q, x)[Len(q) + 1] = x
         /\ \A i \in 1..Len(q) : Append(q, x)[i] = q[i]
  OBVIOUS

\* An instruction that is saved once.
LEMMA JobTold ==
  ASSUME TypeOK, JobsInv, NEW t \in Ids, NEW r, Told(t, r),
         \A u \in Ids : u # t => task'[u] = task[u], proc' = "up" => proc = "up"
  PROVE  JobsInv'
  <1>1. Recorded'
    BY DEF JobsInv, Recorded, Told
  <1>2. Answered'
    BY DEF JobsInv, Answered, Followed, Told
  <1>3. task[t].steers \in Seq(Requests) /\ r \in Requests
    BY DEF TypeOK, TaskRecord, Told
  <1>4. /\ Len(task'[t].steers) = Len(task[t].steers) + 1 /\ Len(task[t].steers) \in Nat
        /\ task'[t].steers[Len(task[t].steers) + 1] = r
        /\ \A i \in 1..Len(task[t].steers) : task'[t].steers[i] = task[t].steers[i]
    BY <1>3, AppendedEntry DEF Told
  <1>a. ASSUME NEW l \in 1..Len(task'[t].steers)
        PROVE  \/ l = Len(task[t].steers) + 1 /\ task'[t].steers[l] = r
               \/ l \in 1..Len(task[t].steers) /\ task'[t].steers[l] = task[t].steers[l]
    <2> DEFINE n == Len(task[t].steers)
    <2>1. n \in Nat /\ l \in 1..(n + 1)
      BY <1>4
    <2>2. l = n + 1 \/ l \in 1..n
      BY <2>1
    <2>3. QED
      BY <1>4, <2>2
  <1>5. ASSUME NEW z \in Sessions, NEW q \in Requests,
               NEW v \in SessionTasks(task', z), NEW u \in SessionTasks(task', z),
               NEW i \in 1..Len(task'[v].steers), NEW j \in 1..Len(task'[u].steers),
               task'[v].steers[i] = q /\ task'[u].steers[j] = q
        PROVE  v = u /\ i = j
    <2>1. v \in SessionTasks(task, z) /\ u \in SessionTasks(task, z)
      BY DEF SessionTasks, Told
    <2>a. ASSUME NEW k \in Ids, NEW l \in 1..Len(task'[k].steers),
                 task'[k].steers[l] = q, q # r
          PROVE  l \in 1..Len(task[k].steers) /\ task[k].steers[l] = q
      BY <1>a, <2>a
    <2>2. q # r => i \in 1..Len(task[v].steers) /\ j \in 1..Len(task[u].steers)
                   /\ task[v].steers[i] = q /\ task[u].steers[j] = q
      BY <1>5, <2>1, <2>a DEF SessionTasks
    <2>3. CASE q # r
      BY <2>1, <2>2, <2>3 DEF JobsInv, RequestOnce
    <2>4. CASE q = r
      <3>1. \A k \in SessionTasks(task, task[t].session) : \A l \in 1..Len(task[k].steers) :
              task[k].steers[l] # r
        BY DEF Told, Steered
      <3>2. ASSUME NEW k \in SessionTasks(task, z), NEW l \in 1..Len(task'[k].steers),
                   task'[k].steers[l] = r, k # t
            PROVE  task[k].steers[l] = r /\ l \in 1..Len(task[k].steers)
        BY <3>2 DEF SessionTasks
      <3>3. v = t \/ u = t => z = task[t].session
        BY <2>1 DEF SessionTasks
      <3>4. CASE v = t \/ u = t
        <4>1. v = t /\ u = t
          BY <1>5, <2>1, <2>4, <3>1, <3>2, <3>3, <3>4
        <4>2. i = Len(task[t].steers) + 1 /\ j = Len(task[t].steers) + 1
          BY <1>a, <1>5, <2>1, <2>4, <3>1, <3>3, <4>1
        <4>3. QED
          BY <4>1, <4>2
      <3>5. CASE v # t /\ u # t
        <4>1. /\ i \in 1..Len(task[v].steers) /\ j \in 1..Len(task[u].steers)
              /\ task[v].steers[i] = q /\ task[u].steers[j] = q
          BY <1>5, <2>1, <2>4, <3>2, <3>5
        <4>2. QED
          BY <2>1, <4>1 DEF JobsInv, RequestOnce
      <3>6. QED
        BY <3>4, <3>5
    <2>5. QED
      BY <2>3, <2>4
  <1>6. ASSUME NEW z \in Sessions, NEW q \in Requests, NEW v \in FindRequest(task', z, q),
               NEW u \in FindRequest(task', z, q)
        PROVE  v = u
    BY <1>6 DEF JobsInv, RequestOnce, FindRequest, SessionTasks, Told
  <1>7. RequestOnce'
    BY <1>5, <1>6 DEF RequestOnce
  <1>8. QED
    BY <1>1, <1>2, <1>7 DEF JobsInv

\* What the native worker was told of, when nothing is told.
LEMMA HeardStays ==
  ASSUME HeardInv,
         exec' = "running" =>
           /\ exec = "running" /\ UNCHANGED <<active, revisions, commands>>
           /\ task'[active].steers = task[active].steers
  PROVE  HeardInv'
  BY DEF HeardInv, HasLatest, NoInstructionMissed, Revision

\* The state of the active task stays while its execution lives.
LEMMA LiveStays ==
  ASSUME LiveState, UNCHANGED <<exec, active, closing>>,
         exec \in LiveExec => task'[active].state = task[active].state
  PROVE  LiveState'
  BY DEF LiveState, LiveExec

\* Nothing queues or runs work of a conversation whose work is stopped.
LEMMA ResetStopsStays ==
  ASSUME TypeOK, ResetInv, UNCHANGED active, NEW s \in Sessions,
         resetting'[s] = "stopped" =>
           resetting[s] = "stopped" /\ awaited'[s] = awaited[s],
         exec' = exec \/ exec' \in {"dropped", "cancelling", "done"},
         exec = "done" => exec' = "done",
         \A u \in Ids : resetting[s] = "stopped" /\ task'[u].session = s =>
           /\ task[u].session = s
           /\ task'[u].state = "queued" => task[u].state = "queued"
           /\ task'[u].state \in {"running", "cancel-requested"} =>
                task[u].state \in {"running", "cancel-requested"} \/ exec # "done"
  PROVE  ResetStops(s)'
  <1> SUFFICES ASSUME resetting'[s] = "stopped" PROVE ResetStops(s)'
    BY DEF ResetStops
  <1>1. ResetStops(s)
    BY DEF ResetInv
  <1>2. active # NoTask => active \in Ids
    BY DEF TypeOK
  <1>3. QED
    BY <1>1, <1>2 DEF ResetStops

LEMMA ResetStays ==
  ASSUME TypeOK, ResetInv, UNCHANGED <<proc, active, resetting, awaited>>,
         exec' = exec \/ exec' \in {"dropped", "cancelling", "done"},
         exec = "done" => exec' = "done",
         \A u \in Ids, s \in Sessions : resetting[s] = "stopped" /\ task'[u].session = s =>
           /\ task[u].session = s
           /\ task'[u].state = "queued" => task[u].state = "queued"
           /\ task'[u].state \in {"running", "cancel-requested"} =>
                task[u].state \in {"running", "cancel-requested"} \/ exec # "done"
  PROVE  ResetInv'
  <1>1. \A s \in Sessions : ResetStops(s)'
    BY ResetStopsStays
  <1>2. QED
    BY <1>1 DEF ResetInv

\* TaskStore.update(state=...) leaves the job and its result alone.
LEMMA WithStateJob ==
  ASSUME NEW store \in Stores, NEW t \in Ids, NEW x \in States \cup {"none"}
  PROVE  /\ WithState(store, t, x)[t].state = x
         /\ SameJob(store[t], WithState(store, t, x)[t])
         /\ WithState(store, t, x)[t].accepted = store[t].accepted
         /\ WithState(store, t, x)[t].result = store[t].result
         /\ WithState(store, t, x)[t].followup = store[t].followup
         /\ \A u \in Ids : u # t => WithState(store, t, x)[u] = store[u]
  BY DEF WithState, Stores, TaskRecord, SameJob

\* A state that is not "completed" claims nothing.
LEMMA StateKept ==
  ASSUME task \in Stores, NEW t \in Ids, NEW x \in States \ {"completed"},
         task' = WithState(task, t, x), task[t].state # "none"
  PROVE  /\ task'[t].state = x /\ SameJob(task[t], task'[t])
         /\ \A u \in Ids : u # t => task'[u] = task[u]
         /\ \A u \in Ids : Kept(u)
  <1>1. x # "none" /\ x # "completed"
    BY DEF States
  <1>2. QED
    BY <1>1, WithStateJob DEF Kept, Followed

\* A task of a conversation.
LEMMA JobOf ==
  ASSUME JobsInv, NEW t \in Ids, task[t].state # "none"
  PROVE  task[t].session \in Sessions /\ task[t].request \in Requests
  BY DEF JobsInv, Recorded

\* An admitted submission, whichever way it came.
LEMMA AdmitHonest ==
  ASSUME IInv, HonestInv, NEW s \in Sessions, NEW r \in Requests, NEW p \in Ids \cup {NoTask},
         Admit(s, r, p), task' = Started(task, created', s, r, p),
         UNCHANGED <<proc, closing, active, exec, commands, revisions, resetting, awaited>>
  PROVE  HonestInv'
  <1>0. TypeOK /\ Work /\ task \in Stores
    BY DEF IInv, TypeOK, Stores
  <1>1. created' \in Ids /\ created' = created + 1
    BY <1>0, AdmitEffect
  <1>2. /\ task'[created'].state = "queued" /\ task'[created'].steers = <<>>
        /\ task'[created'].session = s /\ task'[created'].request = r
        /\ \A u \in Ids : u # created' => task'[u] = task[u]
    BY <1>0, <1>1 DEF Started, NewTask, Stores
  <1>3. Made(created', s, r)
    BY <1>2 DEF Made, Admit
  <1>4. JobsInv'
    BY <1>0, <1>1, <1>2, <1>3, JobMade DEF HonestInv, Kept
  <1>5. active # created'
    BY <1>0, <1>1 DEF Work, OneWorker, TypeOK, Ids
  <1>6. exec # "none" => active \in Ids /\ task'[active] = task[active]
    BY <1>0, <1>2, <1>5 DEF Work, OneWorker, TypeOK
  <1>7. LiveState'
    BY <1>6, LiveStays DEF HonestInv, LiveExec
  <1>8. ResetInv'
    <2>1. resetting[s] = "no"
      BY DEF Admit, Available
    <2>2. \A u \in Ids, z \in Sessions : resetting[z] = "stopped" /\ task'[u].session = z =>
            task'[u] = task[u]
      BY <1>2, <2>1
    <2>3. QED
      BY <1>0, <2>2, ResetStays DEF HonestInv
  <1>9. HeardInv'
    BY <1>6, HeardStays DEF HonestInv
  <1>10. QED
    BY <1>4, <1>7, <1>8, <1>9 DEF HonestInv

\* An instruction for a task that a worker owns.
LEMMA SteerHonest ==
  ASSUME IInv, HonestInv, NEW t \in Ids, NEW r \in Requests, Steer(t, r)
  PROVE  HonestInv'
  <1> USE DEF vars, durable, process, queue, execution, reset, build
  <1>0. TypeOK /\ Work /\ task \in Stores /\ commands \in Seq(Nat)
    BY DEF IInv, TypeOK, Stores
  <1>1. /\ task[t].state \in ActiveStates
        /\ ~Steered(task, task[t].session, r)
        /\ task' = WithSteer(task, t, r)
        /\ UNCHANGED <<created, proc, closing, worker, active, exec, revisions, resetting, awaited>>
        /\ commands' = IF active = t THEN Append(commands, Revision(task'[t])) ELSE commands
    BY DEF Steer, Delivered
  <1>2. /\ task'[t].steers = Append(task[t].steers, r)
        /\ task'[t].session = task[t].session /\ task'[t].request = task[t].request
        /\ \A u \in Ids : task'[u].state = task[u].state
        /\ \A u \in Ids : u # t => task'[u] = task[u]
    BY <1>0, <1>1 DEF WithSteer, Stores, TaskRecord
  <1>3. Told(t, r)
    BY <1>1, <1>2 DEF Told, ActiveStates
  <1>4. JobsInv'
    BY <1>0, <1>1, <1>2, <1>3, JobTold DEF HonestInv
  <1>5. exec # "none" => active \in Ids
    BY <1>0 DEF Work, OneWorker, TypeOK
  <1>6. LiveState'
    BY <1>1, <1>2, <1>5, LiveStays DEF HonestInv, LiveExec
  <1>7. ResetInv'
    BY <1>0, <1>1, <1>2, ResetStays DEF HonestInv
  <1>8. HeardInv'
    <2>1. CASE active # t
      BY <1>1, <1>2, <1>5, <2>1, HeardStays DEF HonestInv
    <2>2. CASE active = t
      <3>1. task[t].steers \in Seq(Requests)
        BY <1>0 DEF Stores, TaskRecord
      <3>2. Revision(task'[t]) = Revision(task[t]) + 1 /\ Revision(task[t]) \in Nat
        BY <1>2, <3>1 DEF Revision
      <3>3. commands' = Append(commands, Revision(task[t]) + 1)
        BY <1>1, <2>2, <3>2
      <3>4. /\ Len(commands') = Len(commands) + 1 /\ Len(commands) \in Nat
            /\ commands'[Len(commands) + 1] = Revision(task[t]) + 1
            /\ \A i \in 1..Len(commands) : commands'[i] = commands[i]
        BY <1>0, <3>2, <3>3, AppendedEntry
      <3>5. NoInstructionMissed'
        <4> SUFFICES ASSUME exec = "running", NEW v \in 1..(Revision(task[t]) + 1)
                     PROVE  \/ v \in revisions
                            \/ \E w \in revisions : v < w
                            \/ \E i \in 1..Len(commands') : commands'[i] = v
          BY <1>1, <2>2, <3>2 DEF NoInstructionMissed
        <4>1. CASE v = Revision(task[t]) + 1
          BY <3>4, <4>1
        <4>2. CASE v \in 1..Revision(task[t])
          <5>1. \/ v \in revisions
                \/ \E w \in revisions : v < w
                \/ \E i \in 1..Len(commands) : commands[i] = v
            BY <2>2, <4>2 DEF HonestInv, HeardInv, NoInstructionMissed
          <5>2. \A i \in 1..Len(commands) : i \in 1..Len(commands')
            BY <3>4
          <5>3. QED
            BY <3>4, <5>1, <5>2
        <4>3. QED
          BY <3>2, <4>1, <4>2
      <3>6. HasLatest'
        BY <1>1 DEF HonestInv, HeardInv, HasLatest
      <3>7. QED
        BY <3>5, <3>6 DEF HeardInv
    <2>3. QED
      BY <2>1, <2>2
  <1>9. QED
    BY <1>4, <1>6, <1>7, <1>8 DEF HonestInv

\* A cancellation.
LEMMA CancelHonest ==
  ASSUME IInv, HonestInv, NEW t \in Ids, Cancel(t)
  PROVE  HonestInv'
  <1> USE DEF vars, durable, process, queue, execution, reset, build
  <1>0. /\ TypeOK /\ Work /\ task \in Stores /\ exec \in ExecStates
        /\ {"canceled", "cancel-requested"} \subseteq States \ {"completed"}
    BY DEF IInv, TypeOK, Stores, States
  <1>1. UNCHANGED <<proc, closing, active, commands, revisions, resetting, awaited>>
    BY DEF Cancel
  <1>2. exec # "none" => active \in Ids
    BY <1>0 DEF Work, OneWorker, TypeOK
  <1>3. CASE task[t].state \in ActiveStates
    <2>1. /\ task' = WithState(task, t, IF active = t THEN "cancel-requested" ELSE "canceled")
          /\ exec' = IF active = t THEN Cancelled(exec) ELSE exec
          /\ task[t].state # "none"
      BY <1>3 DEF Cancel
    <2>2. /\ task'[t].state = IF active = t THEN "cancel-requested" ELSE "canceled"
          /\ SameJob(task[t], task'[t])
          /\ \A u \in Ids : u # t => task'[u] = task[u]
          /\ \A u \in Ids : Kept(u)
      BY <1>0, <2>1, StateKept
    <2>3. JobsInv'
      BY <1>0, <1>1, <2>2, JobsStay DEF HonestInv
    <2>4. LiveState'
      <3>1. CASE active = t
        BY <1>0, <1>1, <2>1, <2>2, <3>1, CancelledEffect DEF LiveState
      <3>2. CASE active # t
        BY <1>1, <1>2, <2>1, <2>2, <3>2, LiveStays DEF HonestInv, LiveExec
      <3>3. QED
        BY <3>1, <3>2
    <2>5. ResetInv'
      <3>1. /\ exec' = exec \/ exec' \in {"dropped", "cancelling", "done"}
            /\ exec = "done" => exec' = "done"
        BY <2>1 DEF Cancelled
      <3>2. resetting[task[t].session] = "no"
        BY DEF Cancel, Available
      <3>3. \A u \in Ids, s \in Sessions : resetting[s] = "stopped" /\ task'[u].session = s =>
              task'[u] = task[u]
        BY <2>2, <3>2 DEF SameJob
      <3>4. QED
        BY <1>0, <1>1, <3>1, <3>3, ResetStays DEF HonestInv
    <2>6. HeardInv'
      BY <1>0, <1>1, <1>2, <2>1, <2>2, CancelledEffect, HeardStays DEF HonestInv
    <2>7. QED
      BY <2>3, <2>4, <2>5, <2>6 DEF HonestInv
  <1>4. CASE task[t].state \notin ActiveStates
    <2>1. UNCHANGED <<task, exec>>
      BY <1>4 DEF Cancel
    <2>2. JobsInv'
      BY <1>0, <1>1, <2>1, JobsStay DEF HonestInv, Kept
    <2>3. QED
      BY <1>0, <1>1, <2>1, <2>2, LiveStays, ResetStays, HeardStays DEF HonestInv
  <1>5. QED
    BY <1>3, <1>4

\* A step that concerns none of it.
LEMMA HonestStays ==
  ASSUME IInv, HonestInv,
         UNCHANGED <<task, proc, closing, active, exec, commands, revisions, resetting, awaited>>
  PROVE  HonestInv'
  <1>1. TypeOK
    BY DEF IInv
  <1>2. JobsInv'
    BY <1>1, JobsStay DEF HonestInv, Kept
  <1>3. LiveState' /\ ResetInv'
    BY <1>1, LiveStays, ResetStays DEF HonestInv
  <1>4. HeardInv'
    BY HeardStays DEF HonestInv
  <1>5. QED
    BY <1>2, <1>3, <1>4 DEF HonestInv

\* A deletion of records that no execution works on.
LEMMA GoneHonest ==
  ASSUME IInv, HonestInv, \A u \in Ids : task'[u] = task[u] \/ Gone(u),
         exec \in LiveExec => task'[active] = task[active],
         UNCHANGED <<proc, closing, active, exec, commands, revisions, awaited>>,
         \A s \in Sessions : resetting'[s] \in {resetting[s], "no"}
  PROVE  HonestInv'
  <1>1. TypeOK
    BY DEF IInv
  <1>2. JobsInv'
    BY <1>1, JobsStay DEF HonestInv, Kept
  <1>3. LiveState'
    BY LiveStays DEF HonestInv
  <1>4. \A u \in Ids, s \in Sessions : task'[u].session = s => task'[u] = task[u]
    BY StoreAssumption DEF Gone, Absent
  <1>5. \A s \in Sessions : ResetStops(s)'
    BY <1>1, <1>4, ResetStopsStays DEF HonestInv
  <1>6. ResetInv'
    BY <1>5 DEF HonestInv, ResetInv
  <1>7. HeardInv'
    BY HeardStays DEF HonestInv, LiveExec
  <1>8. QED
    BY <1>2, <1>3, <1>6, <1>7 DEF HonestInv

\* The requests of the users.
LEMMA UserHonest ==
  ASSUME IInv, HonestInv, UserNext
  PROVE  HonestInv'
  <1> USE DEF vars, durable, process, queue, execution, reset, build
  <1>0. /\ TypeOK /\ Work /\ task \in Stores /\ (exec # "none" => active \in Ids)
        /\ NoTask \in Ids \cup {NoTask}
    BY DEF IInv, TypeOK, Stores, Work, OneWorker
  <1>1. ASSUME NEW s \in Sessions, NEW r \in Requests, Submit(s, r)
        PROVE  HonestInv'
    <2>1. /\ Admit(s, r, NoTask) /\ task' = Started(task, created', s, r, NoTask)
          /\ UNCHANGED <<proc, closing, active, exec, commands, revisions, resetting, awaited>>
      BY <1>1 DEF Submit
    <2>2. QED
      BY <1>0, <2>1, AdmitHonest
  <1>2. ASSUME NEW t \in Ids, NEW r \in Requests, Continue(t, r)
        PROVE  HonestInv'
    <2>1. /\ Admit(task[t].session, r, t) /\ task[t].state # "none"
          /\ task' = Started(task, created', task[t].session, r, t)
          /\ UNCHANGED <<proc, closing, active, exec, commands, revisions, resetting, awaited>>
      BY <1>2 DEF Continue
    <2>2. task[t].session \in Sessions
      BY <2>1, JobOf DEF HonestInv
    <2>3. QED
      BY <2>1, <2>2, AdmitHonest
  <1>3. ASSUME NEW t \in Ids, Delete(t)
        PROVE  HonestInv'
    <2>1. /\ task' = [task EXCEPT ![t] = Absent] /\ ~HasOwner(t)
          /\ UNCHANGED <<proc, closing, active, exec, commands, revisions, resetting, awaited>>
      BY <1>3 DEF Delete, Deleted
    <2>2. /\ \A u \in Ids : task'[u] = task[u] \/ Gone(u)
          /\ exec \in LiveExec => task'[active] = task[active]
      BY <1>0, <2>1 DEF Gone, HasOwner, Stores, LiveExec
    <2>3. QED
      BY <2>1, <2>2, GoneHonest
  <1>4. ASSUME NEW s \in Sessions, Reset(s)
        PROVE  HonestInv'
    <2>1. /\ task' = ResetStore(task, s)
          /\ \A t \in SessionTasks(task, s) : ~HasOwner(t)
          /\ UNCHANGED <<proc, closing, active, exec, commands, revisions, resetting, awaited>>
      BY <1>4 DEF Reset
    <2>2. /\ \A u \in Ids : task'[u] = task[u] \/ Gone(u)
          /\ exec \in LiveExec => task'[active] = task[active]
      BY <1>0, <2>1 DEF Gone, HasOwner, ResetStore, SessionTasks, LiveExec
    <2>3. QED
      BY <2>1, <2>2, GoneHonest
  <1>5. ASSUME NEW s \in Sessions, ResetMark(s)
        PROVE  HonestInv'
    <2>1. /\ UNCHANGED <<task, proc, closing, active, exec, commands, revisions, awaited>>
          /\ proc = "up" /\ resetting' = [resetting EXCEPT ![s] = "marked"]
      BY <1>5 DEF ResetMark
    <2>2. JobsInv' /\ LiveState' /\ HeardInv'
      BY <1>0, <2>1, JobsStay, LiveStays, HeardStays DEF HonestInv, Kept
    <2>3. \A z \in Sessions : resetting'[z] = "stopped" => resetting[z] = "stopped"
      BY <1>0, <2>1 DEF TypeOK
    <2>4. \A z \in Sessions : ResetStops(z)'
      BY <1>0, <2>1, <2>3, ResetStopsStays DEF HonestInv
    <2>5. ResetInv'
      BY <2>1, <2>4 DEF ResetInv
    <2>6. QED
      BY <2>2, <2>5 DEF HonestInv
  <1>6. QED
    BY <1>1, <1>2, <1>3, <1>4, <1>5, SteerHonest, CancelHonest DEF UserNext

\* A task that is settled.
LEMMA SettleKept ==
  ASSUME TypeOK, NEW t \in Ids, Settle(t)
  PROVE  /\ \A u \in Ids : Kept(u) /\ SameJob(task[u], task'[u])
         /\ \A u \in Ids : u # t => task'[u] = task[u]
         /\ task'[t].state \in {task[t].state, "canceled", "interrupted"}
         /\ ToSettle(task[t]) => task'[t].state \in {"canceled", "interrupted"}
  <1>1. CASE ToSettle(task[t])
    <2> DEFINE x == IF closing THEN "interrupted" ELSE "canceled"
    <2>1. x \in States \ {"completed"} /\ x \in {"canceled", "interrupted"}
      BY DEF States
    <2>2. task' = WithState(task, t, x) /\ task[t].state # "none" /\ task \in Stores
      BY <1>1 DEF Settle, ToSettle, TypeOK, Stores
    <2> HIDE DEF x
    <2>3. QED
      BY <2>1, <2>2, StateKept DEF SameJob
  <1>2. CASE ~ToSettle(task[t])
    BY <1>2 DEF Settle, Kept, SameJob
  <1>3. QED
    BY <1>1, <1>2

\* The phases of a conversation's reset.
LEMMA ResetHonest ==
  ASSUME IInv, HonestInv, ResetNext
  PROVE  HonestInv'
  <1> USE DEF vars, durable, process, queue, execution, reset, build
  <1>0. /\ TypeOK /\ Work /\ task \in Stores /\ (exec # "none" <=> active # NoTask)
        /\ active # NoTask => active \in Ids
    BY DEF IInv, TypeOK, Stores, Work, OneWorker
  <1>1. ASSUME NEW s \in Sessions, ResetStop(s)
        PROVE  HonestInv'
    <2> DEFINE mine == active # NoTask /\ task[active].session = s
    <2>1. /\ UNCHANGED <<proc, closing, active, commands, revisions>>
          /\ resetting[s] = "marked" /\ resetting' = [resetting EXCEPT ![s] = "stopped"]
          /\ awaited' = [awaited EXCEPT ![s] = IF mine THEN active ELSE NoTask]
          /\ exec' = IF mine THEN Cancelled(exec) ELSE exec
      BY <1>1 DEF ResetStop
    <2>2. \A u \in Ids :
            IF task[u].session = s /\ task[u].state \in ActiveStates
            THEN /\ task'[u].state = IF mine /\ u = active THEN "cancel-requested" ELSE "canceled"
                 /\ SameJob(task[u], task'[u])
            ELSE task'[u] = task[u]
      BY <1>0, <1>1 DEF ResetStop, Stores, TaskRecord, SameJob
    <2>3. \A u \in Ids : Kept(u) /\ SameJob(task[u], task'[u])
      BY <2>2 DEF Kept, Followed, ActiveStates, SameJob
    <2>4. JobsInv'
      BY <1>0, <2>1, <2>3, JobsStay DEF HonestInv
    <2>5. /\ exec' = exec \/ exec' \in {"dropped", "cancelling", "done"}
          /\ exec = "done" => exec' = "done"
          /\ mine => exec' \in {"dropped", "cancelling", "done"}
          /\ mine => (exec' = "dropped" <=> exec \in {"created", "dropped"})
          /\ mine => (exec' = "cancelling" <=> exec \in {"running", "cancelling"})
      BY <1>0, <2>1 DEF Cancelled, TypeOK, ExecStates
    <2>6. LiveState'
      <3>1. CASE mine
        <4>1. exec \in LiveExec => task[active].state \in ActiveStates
          BY DEF HonestInv, LiveState, LiveExec, ActiveStates
        <4>2. exec \in LiveExec => task'[active].state = "cancel-requested"
          BY <1>0, <2>2, <3>1, <4>1
        <4>3. QED
          BY <2>1, <2>5, <3>1, <4>2 DEF LiveState, LiveExec
      <3>2. CASE ~mine
        <4>1. exec \in LiveExec => task'[active] = task[active]
          BY <1>0, <2>2, <3>2 DEF LiveExec
        <4>2. QED
          BY <2>1, <3>2, <4>1, LiveStays DEF HonestInv
      <3>3. QED
        BY <3>1, <3>2
    <2>7. ResetInv'
      <3>1. ASSUME NEW z \in Sessions, z # s PROVE ResetStops(z)'
        <4>1. resetting'[z] = resetting[z] /\ awaited'[z] = awaited[z]
          BY <1>0, <2>1, <3>1 DEF TypeOK
        <4>2. \A u \in Ids : task'[u].session = z => task'[u] = task[u]
          BY <2>2, <3>1 DEF SameJob
        <4>3. QED
          BY <1>0, <2>1, <2>5, <4>1, <4>2, ResetStopsStays DEF HonestInv
      <3>2. ResetStops(s)'
        <4>1. awaited'[s] = IF mine THEN active ELSE NoTask
          BY <1>0, <2>1 DEF TypeOK
        <4>2. \A t \in Ids : task'[t].session = s => task'[t].state # "queued"
          BY <2>2 DEF SameJob, ActiveStates
        <4>3. active # NoTask /\ task'[active].session = s => mine
          BY <1>0, <2>3 DEF SameJob
        <4>4. QED
          BY <2>1, <2>5, <4>1, <4>2, <4>3 DEF ResetStops
      <3>3. \A z \in Sessions : resetting'[z] # "no" => resetting[z] # "no"
        BY <1>0, <2>1 DEF TypeOK
      <3>4. QED
        BY <2>1, <3>1, <3>2, <3>3 DEF HonestInv, ResetInv
    <2>8. HeardInv'
      <3>1. exec' = "running" => ~mine
        BY <2>5
      <3>2. QED
        BY <1>0, <2>1, <2>3, <3>1, HeardStays DEF HonestInv, SameJob
    <2>9. QED
      BY <2>4, <2>6, <2>7, <2>8 DEF HonestInv
  <1>2. ASSUME NEW s \in Sessions, ResetSettle(s)
        PROVE  HonestInv'
    <2> DEFINE t == awaited[s]
    <2>1. /\ resetting[s] = "stopped" /\ t \in Ids /\ t # NoTask /\ Settle(t)
          /\ ~(active = t /\ exec \in LiveExec)
          /\ awaited' = [awaited EXCEPT ![s] = NoTask]
          /\ UNCHANGED <<proc, closing, active, exec, commands, revisions, resetting>>
      BY <1>0, <1>2 DEF ResetSettle, TypeOK
    <2>2. /\ \A u \in Ids : Kept(u) /\ SameJob(task[u], task'[u])
          /\ \A u \in Ids : u # t => task'[u] = task[u]
          /\ task'[t].state \in {task[t].state, "canceled", "interrupted"}
          /\ ToSettle(task[t]) => task'[t].state \in {"canceled", "interrupted"}
      BY <1>0, <2>1, SettleKept
    <2> HIDE DEF t
    <2>3. JobsInv'
      BY <1>0, <2>1, <2>2, JobsStay DEF HonestInv
    <2>4. LiveState'
      BY <1>0, <2>1, <2>2, LiveStays DEF HonestInv, LiveExec
    <2>5. ResetInv'
      <3>1. ASSUME NEW z \in Sessions, z # s PROVE ResetStops(z)'
        <4>1. awaited'[z] = awaited[z]
          BY <1>0, <2>1, <3>1 DEF TypeOK
        <4>2. \A u \in Ids : /\ task'[u].session = task[u].session
                             /\ task'[u].state \in {task[u].state, "canceled", "interrupted"}
          BY <2>2 DEF SameJob
        <4>3. QED
          BY <1>0, <2>1, <4>1, <4>2, ResetStopsStays DEF HonestInv
      <3>2. ResetStops(s)'
        <4>1. ResetStops(s) /\ awaited'[s] = NoTask
          BY <1>0, <2>1 DEF HonestInv, ResetInv, TypeOK
        <4>2. \A u \in Ids : task'[u].session = s => task'[u].state # "queued"
          BY <2>1, <2>2, <4>1 DEF ResetStops, SameJob
        <4>3. ASSUME active # NoTask, task'[active].session = s
              PROVE  exec = "done" /\ task'[active].state \notin {"running", "cancel-requested"}
          <5>1. task[active].session = s /\ active \in Ids
            BY <1>0, <2>2, <4>3 DEF SameJob
          <5>2. active = t
            BY <2>1, <4>1, <4>3, <5>1 DEF ResetStops, t
          <5>3. exec = "done"
            BY <2>1, <4>1, <4>3, <5>1, <5>2 DEF ResetStops, LiveExec
          <5>4. task[active].state = "running" => closing
            BY <1>0, <4>3, <5>3 DEF Work, Settled
          <5>5. QED
            BY <2>2, <5>2, <5>3, <5>4 DEF ToSettle
        <4>4. QED
          BY <2>1, <4>1, <4>2, <4>3 DEF ResetStops
      <3>3. QED
        BY <2>1, <3>1, <3>2 DEF HonestInv, ResetInv
    <2>6. HeardInv'
      BY <1>0, <2>1, <2>2, HeardStays DEF HonestInv, SameJob
    <2>7. QED
      BY <2>3, <2>4, <2>5, <2>6 DEF HonestInv
  <1>3. ASSUME NEW s \in Sessions, ResetFinish(s)
        PROVE  HonestInv'
    <2>1. /\ UNCHANGED <<proc, closing, active, exec, commands, revisions, awaited>>
          /\ resetting[s] = "stopped" /\ awaited[s] = NoTask
          /\ resetting' = [resetting EXCEPT ![s] = "no"]
          /\ task' = task \/ task' = ResetStore(task, s)
      BY <1>3 DEF ResetFinish
    <2>2. exec \in LiveExec => task[active].session # s
      BY <1>0, <2>1 DEF HonestInv, ResetInv, ResetStops, LiveExec
    <2>3. /\ \A u \in Ids : task'[u] = task[u] \/ Gone(u)
          /\ exec \in LiveExec => task'[active] = task[active]
      BY <1>0, <2>1, <2>2 DEF Gone, ResetStore, LiveExec
    <2>4. \A z \in Sessions : resetting'[z] \in {resetting[z], "no"}
      BY <1>0, <2>1 DEF TypeOK
    <2>5. QED
      BY <2>1, <2>3, <2>4, GoneHonest
  <1>4. QED
    BY <1>1, <1>2, <1>3 DEF ResetNext

\* The calls of the self-modification service.
LEMMA SelfModHonest ==
  ASSUME IInv, HonestInv, SelfModNext
  PROVE  HonestInv'
  <1> USE DEF vars, durable, process, queue, execution, reset, build
  <1>0. /\ TypeOK /\ Work /\ task \in Stores /\ exec \in ExecStates
        /\ exec # "none" => active \in Ids
        /\ "blocked" \in States \ {"completed"}
    BY DEF IInv, TypeOK, Stores, Work, OneWorker, States
  <1>1. ASSUME NEW t \in Ids, GapPropose(t) \/ ReleaseHeld(t) \/ BuildEnds(t)
        PROVE  HonestInv'
    BY <1>1, HonestStays DEF GapPropose, ReleaseHeld, BuildEnds
  <1>2. ASSUME NEW t \in Ids, GapInterrupt(t)
        PROVE  HonestInv'
    <2>1. UNCHANGED <<proc, closing, active, commands, revisions, resetting, awaited>>
      BY <1>2 DEF GapInterrupt
    <2>2. CASE task[t].state = "none"
      BY <1>2, <2>1, <2>2, HonestStays DEF GapInterrupt
    <2>3. CASE task[t].state # "none"
      <3>1. /\ task' = WithState(task, t, "blocked")
            /\ exec' = IF active = t THEN Cancelled(exec) ELSE exec
        BY <1>2, <2>3 DEF GapInterrupt
      <3>2. /\ task'[t].state = "blocked" /\ SameJob(task[t], task'[t])
            /\ \A u \in Ids : u # t => task'[u] = task[u]
            /\ \A u \in Ids : Kept(u)
        BY <1>0, <2>3, <3>1, StateKept
      <3>3. JobsInv'
        BY <1>0, <2>1, <3>2, JobsStay DEF HonestInv
      <3>4. LiveState'
        <4>1. CASE active = t
          BY <1>0, <2>1, <3>1, <3>2, <4>1, CancelledEffect DEF LiveState
        <4>2. CASE active # t
          BY <1>0, <2>1, <3>1, <3>2, <4>2, LiveStays DEF HonestInv, LiveExec
        <4>3. QED
          BY <4>1, <4>2
      <3>5. ResetInv'
        <4>1. /\ exec' = exec \/ exec' \in {"dropped", "cancelling", "done"}
              /\ exec = "done" => exec' = "done"
          BY <3>1 DEF Cancelled
        <4>2. QED
          BY <1>0, <2>1, <3>2, <4>1, ResetStays DEF HonestInv, SameJob
      <3>6. HeardInv'
        BY <1>0, <2>1, <3>1, <3>2, CancelledEffect, HeardStays DEF HonestInv
      <3>7. QED
        BY <3>3, <3>4, <3>5, <3>6 DEF HonestInv
    <2>4. QED
      BY <2>2, <2>3
  <1>3. ASSUME NEW t \in Ids, NEW r \in Requests, SubmitContinuation(t, r)
        PROVE  HonestInv'
    <2>1. /\ Admit(task[t].session, r, t) /\ task[t].state # "none"
          /\ task' = Started(task, created', task[t].session, r, t)
          /\ UNCHANGED <<proc, closing, active, exec, commands, revisions, resetting, awaited>>
      BY <1>3 DEF SubmitContinuation
    <2>2. task[t].session \in Sessions
      BY <2>1, JobOf DEF HonestInv
    <2>3. QED
      BY <2>1, <2>2, AdmitHonest
  <1>4. QED
    BY <1>1, <1>2, <1>3 DEF SelfModNext

\* _run.
LEMMA WorkerHonest ==
  ASSUME IInv, HonestInv, WorkerNext
  PROVE  HonestInv'
  <1> USE DEF vars, durable, process, queue, execution, reset, build
  <1>0. /\ TypeOK /\ Work /\ task \in Stores /\ pending \in Seq(Ids)
        /\ exec # "none" => active \in Ids
    BY DEF IInv, TypeOK, Stores, Work, OneWorker
  <1>1. CASE RunWake
    BY <1>1, HonestStays DEF RunWake
  <1>2. CASE RunPop
    <2>1. CASE pending = <<>> \/ task[Head(pending)].state # "queued"
      BY <1>2, <2>1, HonestStays DEF RunPop
    <2>2. CASE pending # <<>> /\ task[Head(pending)].state = "queued"
      <3>1. /\ UNCHANGED <<task, proc, closing, resetting, awaited>>
            /\ active' = Head(pending) /\ exec' = "created"
        BY <1>2, <2>2 DEF RunPop
      <3>2. Head(pending) \in Ids
        BY <1>0, <2>2
      <3>3. JobsInv'
        BY <1>0, <3>1, JobsStay DEF HonestInv, Kept
      <3>4. LiveState'
        BY <2>2, <3>1 DEF LiveState
      <3>5. ResetInv'
        BY <2>2, <3>1, <3>2 DEF HonestInv, ResetInv, ResetStops
      <3>6. HeardInv'
        BY <3>1, HeardStays DEF HonestInv
      <3>7. QED
        BY <3>3, <3>4, <3>5, <3>6 DEF HonestInv
    <2>3. QED
      BY <2>1, <2>2
  <1>3. CASE RunSettle
    <2>1. /\ active \in Ids /\ Settle(active) /\ active' = NoTask /\ exec' = "none"
          /\ UNCHANGED <<proc, closing, resetting, awaited>>
      BY <1>0, <1>3 DEF RunSettle
    <2>2. /\ \A u \in Ids : Kept(u) /\ SameJob(task[u], task'[u])
          /\ \A u \in Ids : task'[u].state \in {task[u].state, "canceled", "interrupted"}
      BY <1>0, <2>1, SettleKept
    <2>3. JobsInv'
      BY <1>0, <2>1, <2>2, JobsStay DEF HonestInv
    <2>4. LiveState'
      BY <2>1 DEF LiveState
    <2>5. ResetInv'
      BY <2>1, <2>2 DEF HonestInv, ResetInv, ResetStops, SameJob
    <2>6. HeardInv'
      BY <2>1, HeardStays DEF HonestInv
    <2>7. QED
      BY <2>3, <2>4, <2>5, <2>6 DEF HonestInv
  <1>4. QED
    BY <1>1, <1>2, <1>3 DEF WorkerNext

\* An execution that ends, and makes no work.
LEMMA EndHonest ==
  ASSUME IInv, HonestInv, exec \in LiveExec, exec' = "done",
         UNCHANGED <<proc, closing, active, commands, revisions, resetting, awaited>>,
         \A u \in Ids : Kept(u) /\ (task'[u].state = "queued" => task[u].state = "queued")
  PROVE  HonestInv'
  <1>0. TypeOK
    BY DEF IInv
  <1>1. JobsInv'
    BY <1>0, JobsStay DEF HonestInv
  <1>2. LiveState'
    BY DEF LiveState
  <1>3. ResetInv'
    <2>1. \A u \in Ids : task'[u].session = task[u].session
      BY DEF Kept, SameJob
    <2>2. QED
      BY <1>0, <2>1, ResetStays DEF HonestInv, LiveExec
  <1>4. HeardInv'
    BY HeardStays DEF HonestInv
  <1>5. QED
    BY <1>1, <1>2, <1>3, <1>4 DEF HonestInv

\* An execution that has begun is of a conversation that is not reset.
LEMMA RunsOutside ==
  ASSUME HonestInv, active \in Ids, exec \in {"created", "running"}, NEW s \in Sessions,
         resetting[s] = "stopped"
  PROVE  task[active].session # s
  BY DEF HonestInv, ResetInv, ResetStops, NoTask, Ids

\* An execution that goes on, in a state of its own.
LEMMA RunHonest ==
  ASSUME IInv, HonestInv, active \in Ids, exec \in {"created", "running"}, exec' = "running",
         UNCHANGED <<proc, closing, active, resetting, awaited>>,
         \A u \in Ids : u # active => task'[u] = task[u],
         SameJob(task[active], task'[active]),
         task'[active].state \in {"running", "blocked"}, task[active].state # "none",
         HeardInv'
  PROVE  HonestInv'
  <1>0. TypeOK
    BY DEF IInv
  <1>1. \A u \in Ids : Kept(u)
    BY DEF Kept, Followed
  <1>2. JobsInv'
    BY <1>0, <1>1, JobsStay DEF HonestInv
  <1>3. LiveState'
    BY DEF LiveState
  <1>4. ASSUME NEW s \in Sessions PROVE ResetStops(s)'
    <2>1. resetting[s] = "stopped" => task[active].session # s
      BY RunsOutside
    <2>2. QED
      BY <2>1 DEF HonestInv, ResetInv, ResetStops, SameJob
  <1>5. QED
    BY <1>2, <1>3, <1>4 DEF HonestInv, ResetInv

\* runner.py takes an instruction from the queue: it is told of it, or was told
\* of a later one.
LEMMA TakeHonest ==
  ASSUME IInv, HonestInv, TakeCommand
  PROVE  HonestInv'
  <1> USE DEF vars, durable, process, queue, execution, reset, build
  <1>0. /\ TypeOK /\ Work /\ commands \in Seq(Nat) /\ revisions \subseteq Nat
        /\ active \in Ids /\ exec = "running" /\ commands # <<>>
    BY DEF IInv, TypeOK, Work, OneWorker, TakeCommand
  <1>1. /\ commands' = Tail(commands)
        /\ revisions' = IF Head(commands) <= Latest THEN revisions
                        ELSE revisions \cup {Head(commands)}
        /\ UNCHANGED <<task, proc, closing, active, exec, resetting, awaited>>
    BY DEF TakeCommand
  <1>2. Latest \in revisions /\ \A w \in revisions : w <= Latest
    BY <1>0 DEF HonestInv, HeardInv, HasLatest, Latest
  <1>3. /\ Head(commands) \in Nat /\ Head(commands) = commands[1]
        /\ \A i \in 1..Len(commands) : i = 1 \/ (i - 1 \in 1..Len(commands') /\ commands'[i - 1] = commands[i])
    BY <1>0, <1>1
  <1>4. Latest \in Nat /\ 0 \notin revisions
    BY <1>0, <1>2 DEF HonestInv, HeardInv, HasLatest
  <1>5. HasLatest'
    <2>1. CASE Head(commands) <= Latest
      BY <1>1, <1>2, <1>4, <2>1 DEF HasLatest
    <2>2. CASE ~(Head(commands) <= Latest)
      <3> DEFINE h == Head(commands)
      <3>1. h \in Nat /\ h > Latest /\ h # 0
        BY <1>3, <1>4, <2>2
      <3>2. revisions' = revisions \cup {h}
        BY <1>1, <2>2
      <3> HIDE DEF h
      <3>3. \A w \in revisions' : w <= h
        BY <1>0, <1>2, <1>4, <3>1, <3>2
      <3>4. QED
        BY <1>4, <3>1, <3>2, <3>3 DEF HasLatest
    <2>3. QED
      BY <2>1, <2>2
  <1>6. revisions \subseteq revisions'
    BY <1>1
  <1>7. \E w \in revisions' : Head(commands) <= w
    <2>1. CASE Head(commands) <= Latest
      BY <1>2, <1>6, <2>1
    <2>2. CASE ~(Head(commands) <= Latest)
      <3> DEFINE h == Head(commands)
      <3>1. h \in revisions'
        BY <1>1, <2>2
      <3>2. h \in Nat
        BY <1>3
      <3> HIDE DEF h
      <3>3. h <= h
        BY <3>2
      <3>4. \E w \in revisions' : h <= w
        BY <3>1, <3>3
      <3>5. QED
        BY <3>4 DEF h
    <2>3. QED
      BY <2>1, <2>2
  <1>8. NoInstructionMissed'
    <2> SUFFICES ASSUME NEW v \in 1..Revision(task[active])
                 PROVE  \/ v \in revisions'
                        \/ \E w \in revisions' : v < w
                        \/ \E i \in 1..Len(commands') : commands'[i] = v
      BY <1>1 DEF NoInstructionMissed
    <2>1. \/ v \in revisions
          \/ \E w \in revisions : v < w
          \/ \E i \in 1..Len(commands) : commands[i] = v
      BY <1>0 DEF HonestInv, HeardInv, NoInstructionMissed
    <2>2. CASE v \in revisions \/ \E w \in revisions : v < w
      BY <1>6, <2>2
    <2>3. CASE \E i \in 1..Len(commands) : commands[i] = v
      <3>1. PICK i \in 1..Len(commands) : commands[i] = v
        BY <2>3
      <3>2. CASE i = 1
        <4>1. PICK w \in revisions' : v <= w
          BY <1>3, <1>7, <3>1, <3>2
        <4>2. w \in Nat
          BY <1>0, <1>1, <1>3
        <4>3. v = w \/ v < w
          BY <4>1, <4>2
        <4>4. QED
          BY <4>3
      <3>3. CASE i # 1
        BY <1>3, <3>1, <3>3
      <3>4. QED
        BY <3>2, <3>3
    <2>4. QED
      BY <2>1, <2>2, <2>3
  <1>9. JobsInv' /\ LiveState' /\ ResetInv'
    BY <1>0, <1>1, JobsStay, LiveStays, ResetStays DEF HonestInv, Kept
  <1>10. QED
    BY <1>5, <1>8, <1>9 DEF HonestInv, HeardInv

\* The end of a run: the result claims what was accepted.
LEMMA FinishedJob ==
  ASSUME task \in Stores, active \in Ids, NEW ok \in BOOLEAN
  PROVE  /\ SameJob(task[active], Finished(ok)[active])
         /\ Finished(ok)[active].result = Covered(task[active])
         /\ Covered(Finished(ok)[active]) = Covered(task[active])
         /\ Behind(Finished(ok)[active]) <=> Behind(task[active])
         /\ Finished(ok)[active].state \in {"completed", "blocked"}
         /\ \A u \in Ids : u # active => Finished(ok)[u] = task[u]
  <1> DEFINE x == IF ok THEN "completed" ELSE "blocked"
             done == WithResult(task, active, x)
  <1>1. Finished(ok) = done /\ x \in {"completed", "blocked"}
    BY DEF Finished
  <1> HIDE DEF x
  <1>2. /\ SameJob(task[active], done[active])
        /\ done[active].accepted = task[active].accepted
        /\ done[active].result = Covered(task[active])
        /\ done[active].state = x
        /\ \A u \in Ids : u # active => done[u] = task[u]
    BY DEF WithResult, Stores, TaskRecord, SameJob
  <1> HIDE DEF done
  <1>3. /\ Covered(done[active]) = Covered(task[active])
        /\ Behind(done[active]) <=> Behind(task[active])
    BY <1>2 DEF Covered, Behind, Revision, SameJob
  <1>4. QED
    BY <1>1, <1>2, <1>3

\* _execute, except for the follow-up.
LEMMA ExecHonest ==
  ASSUME IInv, HonestInv, ExecNext, \A ok \in BOOLEAN : ~ExecFinishLate(ok)
  PROVE  HonestInv'
  <1> USE DEF vars, durable, process, queue, execution, reset, build
  <1>0. /\ TypeOK /\ Work /\ task \in Stores
        /\ {"running", "blocked"} \subseteq States \ {"completed"}
    BY DEF IInv, TypeOK, Stores, States
  <1>1. exec # "none" => active \in Ids
    BY <1>0 DEF Work, OneWorker, TypeOK
  <1>2. CASE ExecBegin
    <2>1. /\ active \in Ids /\ exec = "created" /\ task[active].state = "queued"
      BY <1>1, <1>2 DEF ExecBegin, HonestInv, LiveState
    <2>2. /\ task' = WithState(task, active, "running") /\ exec' = "running"
          /\ revisions' = {Revision(task[active])}
          /\ UNCHANGED <<proc, closing, active, resetting, awaited>>
      BY <1>2, <2>1 DEF ExecBegin
    <2>3. /\ task'[active].state = "running" /\ SameJob(task[active], task'[active])
          /\ \A u \in Ids : u # active => task'[u] = task[u]
      BY <1>0, <2>1, <2>2, StateKept
    <2>4. HeardInv'
      <3> DEFINE n == Revision(task[active])
      <3>1. n \in Nat /\ n # 0
        BY <1>0, <2>1 DEF Revision, Stores, TaskRecord
      <3>2. Revision(task'[active]) = n
        BY <2>3 DEF SameJob, Revision
      <3>3. revisions' = {n} /\ active' = active
        BY <2>2
      <3> HIDE DEF n
      <3>4. HasLatest'
        BY <3>1, <3>3 DEF HasLatest
      <3>5. NoInstructionMissed'
        <4>1. \A v \in 1..n : v = n \/ v < n
          BY <3>1
        <4>2. QED
          BY <3>2, <3>3, <4>1 DEF NoInstructionMissed
      <3>6. QED
        BY <3>4, <3>5 DEF HeardInv
    <2>5. QED
      BY <2>1, <2>2, <2>3, <2>4, RunHonest
  <1>3. ASSUME NEW kind \in {"accepted", "progress", "finding", "question", "blocked"},
               NEW v \in revisions, Report(kind, v)
        PROVE  HonestInv'
    <2> DEFINE rec == task[active]
               x == IF kind = "accepted" /\ rec.state = "blocked" THEN "running"
                    ELSE IF kind \in {"question", "blocked"} THEN "blocked"
                    ELSE rec.state
               store == IF kind = "accepted" THEN WithAccepted(task, active, v)
                        ELSE task
    <2>1. /\ exec = "running" /\ active \in Ids
          /\ task' = WithState(store, active, x)
          /\ UNCHANGED <<proc, closing, active, exec, commands, revisions, resetting, awaited>>
      BY <1>1, <1>3 DEF Report
    <2>2. rec.state \in {"running", "blocked"}
      BY <2>1 DEF HonestInv, LiveState
    <2>3. x \in {"running", "blocked"}
      BY <2>2
    <2>4. /\ store \in Stores /\ SameJob(rec, store[active])
          /\ \A u \in Ids : u # active => store[u] = task[u]
      <3>1. v \in Nat
        BY <1>0 DEF TypeOK
      <3>2. SameJob(rec, WithAccepted(task, active, v)[active])
        BY <1>0, <2>1 DEF WithAccepted, Stores, TaskRecord, SameJob
      <3>3. QED
        BY <1>0, <2>1, <3>1, <3>2, WithAcceptedEffect DEF SameJob
    <2> HIDE DEF x, store
    <2>5. /\ task'[active].state = x /\ SameJob(store[active], task'[active])
          /\ \A u \in Ids : u # active => task'[u] = store[u]
      BY <1>0, <2>1, <2>3, <2>4, WithStateJob
    <2>6. SameJob(rec, task'[active]) /\ \A u \in Ids : u # active => task'[u] = task[u]
      BY <2>4, <2>5 DEF SameJob
    <2>7. HeardInv'
      BY <2>1, <2>6, HeardStays DEF HonestInv, SameJob
    <2>8. QED
      BY <2>1, <2>2, <2>3, <2>5, <2>6, <2>7, RunHonest
  <1>4. ASSUME NEW v \in revisions, ReportGap(v)
        PROVE  HonestInv'
    BY <1>3, <1>4 DEF ReportGap
  <1>5. ASSUME NEW kind \in ReportKinds, NEW v \in revisions, ReportOnly(kind, v)
        PROVE  HonestInv'
    BY <1>3, <1>5, CoordinatorAssumption DEF ReportOnly
  <1>6. ASSUME NEW ok \in BOOLEAN, ExecFinish(ok)
        PROVE  HonestInv'
    <2>1. /\ exec = "running" /\ exec' = "done" /\ active \in Ids
          /\ UNCHANGED <<proc, closing, active, commands, revisions, resetting, awaited>>
      BY <1>1, <1>6 DEF ExecFinish, Ended
    <2>2. task[active].state \in {"running", "blocked"}
      BY <2>1 DEF HonestInv, LiveState
    <2>3. task' = Finished(ok) /\ ~Behind(task[active])
      BY <1>6, <2>2 DEF ExecFinish, Stopped
    <2>4. /\ \A u \in Ids : u # active => task'[u] = task[u]
          /\ task'[active].state \in {"completed", "blocked"}
          /\ SameJob(task[active], task'[active])
          /\ task'[active].result = Covered(task[active])
          /\ Covered(task'[active]) = Covered(task[active])
          /\ Behind(task'[active]) <=> Behind(task[active])
      BY <1>0, <2>1, <2>3, FinishedJob
    <2>5. Kept(active)
      BY <2>2, <2>3, <2>4 DEF Kept, Followed
    <2>6. \A u \in Ids : Kept(u) /\ (task'[u].state = "queued" => task[u].state = "queued")
      BY <2>4, <2>5 DEF Kept
    <2>7. QED
      BY <2>1, <2>6, EndHonest DEF LiveExec
  <1>7. ASSUME NEW ok \in BOOLEAN, ExecFinishFull(ok)
        PROVE  HonestInv'
    <2>1. /\ exec = "running" /\ exec' = "done" /\ active \in Ids
          /\ UNCHANGED <<proc, closing, active, commands, revisions, resetting, awaited>>
          /\ task' = WithState(Finished(ok), active, "blocked")
      BY <1>1, <1>7 DEF ExecFinishFull, Ended, Failed
    <2>2. task[active].state \in {"running", "blocked"}
      BY <2>1 DEF HonestInv, LiveState
    <2>3. /\ Finished(ok) \in Stores /\ SameJob(task[active], Finished(ok)[active])
          /\ \A u \in Ids : u # active => Finished(ok)[u] = task[u]
      BY <1>0, <2>1, FinishedEffect, FinishedJob
    <2>4. /\ task'[active].state = "blocked" /\ SameJob(task[active], task'[active])
          /\ \A u \in Ids : u # active => task'[u] = task[u]
      BY <1>0, <2>1, <2>3, WithStateJob DEF SameJob
    <2>5. \A u \in Ids : Kept(u) /\ (task'[u].state = "queued" => task[u].state = "queued")
      BY <2>2, <2>4 DEF Kept, Followed
    <2>6. QED
      BY <2>1, <2>5, EndHonest DEF LiveExec
  <1>8. CASE ExecFail
    <2>1. /\ exec \in {"running", "cancelling"} /\ exec' = "done" /\ active \in Ids
          /\ UNCHANGED <<proc, closing, active, commands, revisions, resetting, awaited>>
      BY <1>1, <1>8 DEF ExecFail
    <2>2. task[active].state # "none"
      BY <2>1 DEF HonestInv, LiveState
    <2>3. CASE Stopped(task[active])
      BY <1>8, <2>1, <2>3, EndHonest DEF ExecFail, Kept, LiveExec
    <2>4. CASE ~Stopped(task[active])
      <3>1. task' = WithState(task, active, "blocked")
        BY <1>8, <2>4 DEF ExecFail, Failed
      <3>2. \A u \in Ids : Kept(u) /\ (task'[u].state = "queued" => task[u].state = "queued")
        BY <1>0, <2>1, <2>2, <3>1, StateKept
      <3>3. QED
        BY <2>1, <3>2, EndHonest DEF LiveExec
    <2>5. QED
      BY <2>3, <2>4
  <1>9. ASSUME NEW settles \in BOOLEAN, ExecCancelled(settles)
        PROVE  HonestInv'
    <2>1. /\ exec \in LiveExec /\ exec' = "done" /\ active \in Ids
          /\ UNCHANGED <<proc, closing, active, commands, revisions, resetting, awaited>>
          /\ Settle(active) \/ UNCHANGED task
      BY <1>1, <1>9 DEF ExecCancelled, LiveExec
    <2>2. CASE Settle(active)
      <3>1. \A u \in Ids : Kept(u) /\ (task'[u].state = "queued" => task[u].state = "queued")
        BY <1>0, <2>1, <2>2, SettleKept
      <3>2. QED
        BY <2>1, <3>1, EndHonest
    <2>3. CASE UNCHANGED task
      BY <2>1, <2>3, EndHonest DEF Kept
    <2>4. QED
      BY <2>1, <2>2, <2>3
  <1>10. QED
    BY <1>2, <1>4, <1>5, <1>6, <1>7, <1>8, <1>9, TakeHonest DEF ExecNext

\* _followup_locked: the child is a request that created none, or is there
\* already; the task it is linked to stays what it was.
LEMMA FollowupJobs ==
  ASSUME TypeOK, NEW store \in Stores, NEW t \in Ids, t <= created,
         Behind(store[t]), FollowupFits(store, t), FollowupLocked(store, t),
         store[t].state \in {"completed", "blocked"}
  PROVE  \E c \in Ids :
           /\ \A u \in Ids : u # c /\ u # t => task'[u] = store[u]
           /\ SameJob(store[t], task'[t]) /\ task'[t].state = store[t].state
           /\ task'[t].accepted = store[t].accepted /\ task'[t].result = store[t].result
           /\ task'[t].followup # NoTask
           /\ \/ /\ SavedChild(store, t) # {} /\ c \in SavedChild(store, t)
                 /\ created' = created /\ SameJob(store[c], task'[c])
                 /\ c # t => \/ task'[c] = store[c]
                             \/ store[c].state = "queued" /\ task'[c].state = "blocked"
              \/ /\ SavedChild(store, t) = {} /\ c = created + 1 /\ created' = created + 1
                 /\ task'[c].state \in {"queued", "blocked"} /\ task'[c].steers = <<>>
                 /\ task'[c].session = store[t].session
                 /\ task'[c].request = LastSteer(store[t])
  <1> DEFINE c == Child(store, t)
             started == WithChild(store, t)
             admit == started[c].state = "queued" /\ ~Queued(c)
             room == Len(pending) < MaxQueued
             store2 == IF admit /\ ~room THEN WithState(started, c, "blocked")
                       ELSE started
             fresh == SavedChild(store, t) = {}
  <1>0. /\ created \in 0..MaxTasks /\ "blocked" \in States
        /\ t # created + 1 /\ NoTask \notin Ids
    BY DEF TypeOK, States, Ids, NoTask
  <1>1. /\ task' = WithFollowup(store2, t, c)
        /\ created' = IF fresh THEN created + 1 ELSE created
    BY DEF FollowupLocked
  <1>2. c \in Ids /\ (fresh => c = created + 1 /\ created < MaxTasks) /\ (~fresh => c \in SavedChild(store, t))
    BY <1>0, ChildType DEF Child
  <1>3. /\ started \in Stores
        /\ ~fresh => started = store
        /\ \A u \in Ids : u # created + 1 => started[u] = store[u]
    BY <1>0, WithChildEffect
  <1>4. fresh => /\ started[c].state = "queued" /\ started[c].steers = <<>>
                 /\ started[c].session = store[t].session
                 /\ started[c].request = LastSteer(store[t])
    BY <1>2 DEF WithChild, Started, NewTask, Stores
  <1> HIDE DEF c, started, fresh
  <1>5. /\ store2 \in Stores
        /\ \A u \in Ids : u # c => store2[u] = started[u]
        /\ SameJob(started[c], store2[c])
        /\ \/ store2[c] = started[c]
           \/ started[c].state = "queued" /\ store2[c].state = "blocked"
    <2>1. CASE admit /\ ~room
      <3>1. store2 = WithState(started, c, "blocked")
        BY <2>1
      <3>2. QED
        BY <1>0, <1>2, <1>3, <2>1, <3>1, WithStateJob, WithStateEffect
    <2>2. CASE ~(admit /\ ~room)
      BY <1>3, <2>2 DEF SameJob
    <2>3. QED
      BY <2>1, <2>2
  <1> HIDE DEF admit, room, store2
  <1>6. /\ \A u \in Ids : u # t => task'[u] = store2[u]
        /\ SameJob(store2[t], task'[t]) /\ task'[t].state = store2[t].state
        /\ task'[t].accepted = store2[t].accepted /\ task'[t].result = store2[t].result
        /\ task'[t].followup = c
    BY <1>1, <1>2, <1>5 DEF WithFollowup, Stores, TaskRecord, SameJob
  <1>7. store2[t] = store[t]
    <2>1. started[t] = store[t]
      BY <1>0, <1>3
    <2>2. store2[t] = started[t]
      BY <1>5, <2>1
    <2>3. QED
      BY <2>1, <2>2
  <1>8. CASE fresh
    <2>1. c # t /\ c = created + 1 /\ created' = created + 1
      BY <1>0, <1>1, <1>2, <1>8
    <2>2. /\ task'[c].state \in {"queued", "blocked"} /\ task'[c].steers = <<>>
          /\ task'[c].session = store[t].session
          /\ task'[c].request = LastSteer(store[t])
      BY <1>2, <1>4, <1>5, <1>6, <1>8, <2>1 DEF SameJob
    <2>3. \A u \in Ids : u # c /\ u # t => task'[u] = store[u]
      BY <1>3, <1>5, <1>6, <2>1
    <2>4. QED
      BY <1>0, <1>2, <1>6, <1>7, <1>8, <2>1, <2>2, <2>3 DEF fresh, SameJob
  <1>9. CASE ~fresh
    <2>1. started = store /\ created' = created /\ c \in SavedChild(store, t)
      BY <1>1, <1>2, <1>3, <1>9
    <2>2. SameJob(store[c], task'[c])
      BY <1>2, <1>5, <1>6, <1>7, <2>1 DEF SameJob
    <2>3. c # t => \/ task'[c] = store[c]
                   \/ store[c].state = "queued" /\ task'[c].state = "blocked"
      BY <1>2, <1>5, <1>6, <2>1
    <2>4. \A u \in Ids : u # c /\ u # t => task'[u] = store[u]
      BY <1>5, <1>6, <2>1
    <2>5. QED
      BY <1>0, <1>2, <1>6, <1>7, <1>9, <2>1, <2>2, <2>3, <2>4 DEF fresh
  <1>10. QED
    BY <1>8, <1>9

\* ... after a result, or at a start: every request keeps one effect, and what
\* is queued for it belongs to the same conversation.
LEMMA FollowupHonest ==
  ASSUME IInv, HonestInv, NEW store \in Stores, NEW t \in Ids, task[t].state # "none",
         \A u \in Ids : u # t => store[u] = task[u], SameJob(task[t], store[t]),
         Behind(store[t]), FollowupFits(store, t), FollowupLocked(store, t),
         store[t].state \in {"completed", "blocked"},
         store[t].state = "completed" => store[t].result = Covered(store[t]),
         proc' = "up" => proc = "up"
  PROVE  /\ JobsInv'
         /\ \A u \in Ids : \/ task'[u].session = task[u].session
                              /\ (task'[u].state = "queued" => task[u].state = "queued")
                           \/ task'[u].session = task[t].session
                              /\ task'[u].state \notin {"running", "cancel-requested"}
         /\ \A u \in Ids : task'[u].state \in {"running", "cancel-requested"} =>
              task[u].state \in {"running", "cancel-requested"}
         /\ task'[t].state \in {"completed", "blocked"}
  <1>0. /\ TypeOK /\ Work /\ task[t].session \in Sessions
        /\ created \in 0..MaxTasks /\ t <= created
    BY JobOf DEF IInv, TypeOK, HonestInv, Work, Fresh, Ids
  <1>1. PICK c \in Ids :
           /\ \A u \in Ids : u # c /\ u # t => task'[u] = store[u]
           /\ SameJob(store[t], task'[t]) /\ task'[t].state = store[t].state
           /\ task'[t].accepted = store[t].accepted /\ task'[t].result = store[t].result
           /\ task'[t].followup # NoTask
           /\ \/ /\ SavedChild(store, t) # {} /\ c \in SavedChild(store, t)
                 /\ created' = created /\ SameJob(store[c], task'[c])
                 /\ c # t => \/ task'[c] = store[c]
                             \/ store[c].state = "queued" /\ task'[c].state = "blocked"
              \/ /\ SavedChild(store, t) = {} /\ c = created + 1 /\ created' = created + 1
                 /\ task'[c].state \in {"queued", "blocked"} /\ task'[c].steers = <<>>
                 /\ task'[c].session = store[t].session
                 /\ task'[c].request = LastSteer(store[t])
    BY <1>0, FollowupJobs
  <1>2. \A u \in Ids : SameJob(task[u], store[u])
    BY DEF SameJob
  <1>3. Kept(t)
    <2>1. SameJob(task[t], task'[t])
      BY <1>1, <1>2 DEF SameJob
    <2>2. Covered(task'[t]) = Covered(store[t])
      BY <1>1 DEF Covered
    <2>3. Followed(task'[t], proc' = "up")
      BY <1>1, <2>2 DEF Followed
    <2>4. task'[t].state # "none"
      BY <1>1
    <2>5. QED
      BY <2>1, <2>3, <2>4 DEF Kept
  <1>4. \A u \in Ids : u # c => Kept(u)
    BY <1>1, <1>3 DEF Kept
  <1>5. CASE SavedChild(store, t) # {}
    <2>1. Kept(c)
      <3>1. CASE c = t
        BY <1>3, <3>1
      <3>2. CASE c # t
        BY <1>1, <1>5, <3>2 DEF Kept, Followed
      <3>3. QED
        BY <3>1, <3>2
    <2>2. JobsInv'
      BY <1>0, <1>4, <2>1, JobsStay DEF HonestInv
    <2>3. \A u \in Ids : /\ task'[u].session = task[u].session
                         /\ task'[u].state \in {task[u].state, "blocked", "completed"}
      BY <1>1, <1>2, <1>5 DEF SameJob
    <2>4. task'[t].state \in {"completed", "blocked"}
      BY <1>1
    <2>5. QED
      BY <2>2, <2>3, <2>4
  <1>6. CASE SavedChild(store, t) = {}
    <2>1. /\ c # t /\ task'[c].session = task[t].session
          /\ task'[c].state \in {"queued", "blocked"} /\ task'[c].steers = <<>>
          /\ task'[c].request = LastSteer(store[t])
      BY <1>0, <1>1, <1>2, <1>6 DEF SameJob
    <2>2. LastSteer(store[t]) \in Requests
      BY BehindHasSteer
    <2>3. FindRequest(task, task[t].session, LastSteer(store[t])) = {}
      BY <1>2, <1>6 DEF SavedChild, FindRequest, SessionTasks, SameJob
    <2>4. Made(c, task[t].session, LastSteer(store[t]))
      BY <1>0, <2>1, <2>2, <2>3 DEF Made
    <2>5. JobsInv'
      BY <1>0, <1>4, <2>4, JobMade DEF HonestInv
    <2>6. \A u \in Ids : u # c => /\ task'[u].session = task[u].session
                                  /\ task'[u].state \in {task[u].state, "blocked", "completed"}
      BY <1>1, <1>2 DEF SameJob
    <2>7. task'[t].state \in {"completed", "blocked"}
      BY <1>1
    <2>8. QED
      BY <2>1, <2>5, <2>6, <2>7
  <1>7. QED
    BY <1>5, <1>6

\* An instruction came after the worker's last look.
LEMMA FinishLateHonest ==
  ASSUME IInv, HonestInv, NEW ok \in BOOLEAN, ExecFinishLate(ok)
  PROVE  HonestInv'
  <1> USE DEF vars, durable, process, queue, execution, reset, build
  <1>0. /\ TypeOK /\ Work /\ task \in Stores /\ exec = "running"
        /\ active \in Ids
    BY DEF IInv, TypeOK, Stores, Work, OneWorker, ExecFinishLate, Ended
  <1>1. /\ exec' = "done" /\ Behind(task[active])
        /\ FollowupFits(Finished(ok), active) /\ FollowupLocked(Finished(ok), active)
        /\ UNCHANGED <<proc, closing, active, commands, revisions, resetting, awaited>>
    BY DEF ExecFinishLate
  <1>2. task[active].state # "none"
    BY <1>0 DEF HonestInv, LiveState
  <1>3. /\ Finished(ok) \in Stores /\ Behind(Finished(ok)[active])
        /\ SameJob(task[active], Finished(ok)[active])
        /\ Finished(ok)[active].state \in {"completed", "blocked"}
        /\ Finished(ok)[active].result = Covered(Finished(ok)[active])
        /\ \A u \in Ids : u # active => Finished(ok)[u] = task[u]
    BY <1>0, <1>1, FinishedEffect, FinishedJob
  <1>4. /\ JobsInv'
        /\ \A u \in Ids : \/ task'[u].session = task[u].session
                             /\ (task'[u].state = "queued" => task[u].state = "queued")
                          \/ task'[u].session = task[active].session
                             /\ task'[u].state \notin {"running", "cancel-requested"}
    BY <1>0, <1>1, <1>2, <1>3, FollowupHonest
  <1>5. LiveState' /\ HeardInv'
    BY <1>1, HeardStays DEF LiveState, HonestInv
  <1>6. ASSUME NEW s \in Sessions PROVE ResetStops(s)'
    <2>1. resetting[s] = "stopped" => task[active].session # s
      BY <1>0, RunsOutside
    <2>2. QED
      BY <1>0, <1>1, <1>4, <2>1, ResetStopsStays DEF HonestInv
  <1>7. QED
    BY <1>1, <1>4, <1>5, <1>6 DEF HonestInv, ResetInv

\* A process that is gone: what it left in the store is all there is.
LEMMA LoseHonest ==
  ASSUME LoseMemory, JobsInv'
  PROVE  HonestInv'
  BY DEF LoseMemory, HonestInv, LiveState, ResetInv, ResetStops, HeardInv, HasLatest,
         NoInstructionMissed

\* Starting.
LEMMA StartHonest ==
  ASSUME IInv, HonestInv, StartNext
  PROVE  HonestInv'
  <1> USE DEF vars, durable, process, queue, execution, reset, build
  <1>0. TypeOK /\ Work /\ task \in Stores
    BY DEF IInv, TypeOK, Stores
  <1>1. proc # "up" => exec = "none" /\ active = NoTask /\ \A s \in Sessions : resetting[s] = "no"
    BY <1>0 DEF Work, OneWorker, HonestInv, ResetInv
  \* What a start does to anything but the store concerns nothing here.
  <1>2. ASSUME proc # "up", UNCHANGED <<active, exec, resetting>>, JobsInv'
        PROVE  HonestInv'
    BY <1>1, <1>2 DEF HonestInv, LiveState, ResetInv, ResetStops, HeardInv, HasLatest,
                      NoInstructionMissed
  <1>3. CASE Boot
    <2>1. /\ proc # "up" /\ UNCHANGED <<active, exec, resetting>> /\ proc' = "starting"
          /\ task' = Recovered(task)
      BY <1>3 DEF Boot
    <2>2. \A u \in Ids : Kept(u)
      BY <1>0, <2>1 DEF Recovered, Stores, TaskRecord, Kept, SameJob, Followed
    <2>3. QED
      BY <1>0, <1>2, <2>1, <2>2, JobsStay DEF HonestInv
  <1>4. ASSUME NEW t \in Ids, StartFollowup(t)
        PROVE  HonestInv'
    <2>1. /\ proc = "starting" /\ UNCHANGED <<proc, active, exec, resetting>>
          /\ task[t].state \in {"completed", "blocked"} /\ Behind(task[t])
          /\ FollowupFits(task, t) /\ FollowupLocked(task, t)
      BY <1>4 DEF StartFollowup, NeedsFollowup
    <2>2. task[t].state = "completed" => task[t].result = Covered(task[t])
      BY DEF HonestInv, JobsInv, Answered, Followed
    <2>3. JobsInv'
      BY <1>0, <2>1, <2>2, FollowupHonest DEF SameJob
    <2>4. QED
      BY <1>2, <2>1, <2>3
  <1>5. ASSUME NEW t \in Ids, StartFails(t)
        PROVE  HonestInv'
    <2>1. LoseMemory /\ UNCHANGED task /\ proc' = "down"
      BY <1>5 DEF StartFails, LoseMemory
    <2>2. QED
      BY <1>0, <2>1, JobsStay, LoseHonest DEF HonestInv, Kept
  <1>6. CASE StartDone
    <2>1. /\ UNCHANGED <<task, active, exec, resetting>> /\ proc # "up"
          /\ \A t \in Ids : ~NeedsFollowup(task[t])
      BY <1>6 DEF StartDone
    <2>2. Recorded' /\ RequestOnce'
      BY <2>1 DEF HonestInv, JobsInv, Recorded, RequestOnce, FindRequest, SessionTasks
    <2>3. Answered'
      BY <2>1 DEF HonestInv, JobsInv, Answered, Followed, NeedsFollowup
    <2>4. QED
      BY <1>2, <2>1, <2>2, <2>3 DEF JobsInv
  <1>7. QED
    BY <1>3, <1>4, <1>5, <1>6 DEF StartNext

\* Closing, and dying.
LEMMA StopHonest ==
  ASSUME IInv, HonestInv, StopNext
  PROVE  HonestInv'
  <1> USE DEF vars, durable, process, queue, execution, reset, build
  <1>0. TypeOK /\ Work /\ task \in Stores /\ exec \in ExecStates
    BY DEF IInv, TypeOK, Stores
  <1>1. CASE Crash \/ Exit
    <2>1. LoseMemory /\ UNCHANGED task /\ proc' = "down"
      BY <1>1 DEF Crash, Exit, LoseMemory
    <2>2. QED
      BY <1>0, <2>1, JobsStay, LoseHonest DEF HonestInv, Kept
  <1>2. CASE Close \/ CloseForce
    <2>1. /\ UNCHANGED <<task, proc, active, commands, revisions, resetting, awaited>>
          /\ closing' = TRUE /\ exec' = Cancelled(exec)
      BY <1>0, <1>2 DEF Close, CloseForce, TypeOK
    <2>2. JobsInv'
      BY <1>0, <2>1, JobsStay DEF HonestInv, Kept
    <2>3. LiveState'
      BY <1>0, <2>1 DEF HonestInv, LiveState, Cancelled, ExecStates
    <2>4. ResetInv'
      BY <1>0, <2>1, ResetStays DEF HonestInv, Cancelled
    <2>5. HeardInv'
      BY <1>0, <2>1, CancelledEffect, HeardStays DEF HonestInv
    <2>6. QED
      BY <2>2, <2>3, <2>4, <2>5 DEF HonestInv
  <1>3. ASSUME NEW ok \in BOOLEAN, CrashInFinish(ok)
        PROVE  HonestInv'
    <2>1. /\ exec = "running" /\ active \in Ids /\ LoseMemory /\ proc' = "down"
          /\ Behind(task[active]) /\ FollowupFits(Finished(ok), active)
          /\ active <= created /\ created \in 0..MaxTasks
      BY <1>0, <1>3 DEF CrashInFinish, Ended, LoseMemory, Work, OneWorker, TypeOK
    <2>2. task[active].state # "none"
      BY <2>1 DEF HonestInv, LiveState
    <2>3. /\ Finished(ok) \in Stores /\ Behind(Finished(ok)[active])
          /\ SameJob(task[active], Finished(ok)[active])
          /\ Finished(ok)[active].state \in {"completed", "blocked"}
          /\ Finished(ok)[active].result = Covered(Finished(ok)[active])
          /\ \A u \in Ids : u # active => Finished(ok)[u] = task[u]
      BY <1>0, <2>1, FinishedEffect, FinishedJob
    <2> DEFINE store == Finished(ok)
               r == LastSteer(store[active])
    <2>4. CASE task' = store
      <3>1. \A u \in Ids : Kept(u)
        BY <2>1, <2>2, <2>3, <2>4 DEF Kept, Followed
      <3>2. QED
        BY <1>0, <2>1, <3>1, JobsStay, LoseHonest DEF HonestInv
    <2>5. CASE task' = WithChild(store, active) /\ SavedChild(store, active) = {}
      <3>1. created + 1 \in Ids /\ active # created + 1
        BY <2>1, <2>5, StoreAssumption DEF FollowupFits, Ids
      <3>2. task' = Started(store, created + 1, store[active].session, r, active)
        BY <2>5 DEF WithChild
      <3>3. /\ task'[created + 1].state = "queued" /\ task'[created + 1].steers = <<>>
            /\ task'[created + 1].session = task[active].session
            /\ task'[created + 1].request = r
            /\ \A u \in Ids : u # created + 1 => task'[u] = store[u]
        BY <2>3, <3>1, <3>2 DEF Started, NewTask, Stores, SameJob
      <3>4. \A u \in Ids : SameJob(task[u], store[u])
        BY <2>3 DEF SameJob
      <3>5. /\ r \in Requests /\ task[active].session \in Sessions
            /\ FindRequest(task, task[active].session, r) = {}
        <4>1. r \in Requests
          BY <2>1, <2>3, BehindHasSteer
        <4>2. task[active].session \in Sessions
          BY <2>1, <2>2, JobOf DEF HonestInv
        <4>3. FindRequest(task, task[active].session, r) = {}
          BY <2>1, <2>5, <3>4 DEF SavedChild, FindRequest, SessionTasks, SameJob
        <4>4. QED
          BY <4>1, <4>2, <4>3
      <3>6. Made(created + 1, task[active].session, r)
        BY <3>3, <3>5 DEF Made
      <3>7. \A u \in Ids : u # created + 1 => Kept(u)
        BY <2>1, <2>2, <2>3, <3>3 DEF Kept, Followed
      <3>8. QED
        BY <1>0, <2>1, <3>1, <3>6, <3>7, JobMade, LoseHonest DEF HonestInv
    <2>6. task' = store \/ (task' = WithChild(store, active) /\ SavedChild(store, active) = {})
      BY <1>3 DEF CrashInFinish, WithChild
    <2>7. QED
      BY <2>4, <2>5, <2>6
  <1>4. QED
    BY <1>1, <1>2, <1>3 DEF StopNext

\* Nothing is recorded at first.
LEMMA InitHonest == Init => HonestInv
  <1> SUFFICES ASSUME Init PROVE HonestInv
    OBVIOUS
  <1>1. /\ \A t \in Ids : task[t] = Absent
        /\ exec = "none" /\ \A s \in Sessions : resetting[s] = "no"
    BY DEF Init, InitMemory
  <1>2. JobsInv
    BY <1>1, StoreAssumption
    DEF JobsInv, Recorded, RequestOnce, FindRequest, SessionTasks, Answered, Followed, Absent
  <1>3. QED
    BY <1>1, <1>2 DEF HonestInv, LiveState, ResetInv, ResetStops, HeardInv, HasLatest,
                      NoInstructionMissed

\* The invariant is inductive.
LEMMA StepHonest == IInv /\ HonestInv /\ [Next]_vars => HonestInv'
  <1> SUFFICES ASSUME IInv, HonestInv, [Next]_vars PROVE HonestInv'
    OBVIOUS
  <1>1. CASE Next
    <2>1. CASE \E ok \in BOOLEAN : ExecFinishLate(ok)
      BY <2>1, FinishLateHonest
    <2>2. CASE \A ok \in BOOLEAN : ~ExecFinishLate(ok)
      BY <1>1, <2>2, UserHonest, ResetHonest, SelfModHonest, WorkerHonest, ExecHonest,
         StartHonest, StopHonest DEF Next
    <2>3. QED
      BY <2>1, <2>2
  <1>2. CASE UNCHANGED vars
    BY <1>2, HonestStays DEF vars, durable, process, execution, reset
  <1>3. QED
    BY <1>1, <1>2

-----------------------------------------------------------------------------
(***************************************************************************)
(* The queue.                                                              *)
(***************************************************************************)

InQueue(q, u) == \E i \in 1..Len(q) : q[i] = u
Ordered(q) == \A i, j \in 1..Len(q) : i < j => q[i] < q[j]

\* deque.append of the newest task keeps the order.
LEMMA AppendOrdered ==
  ASSUME NEW q \in Seq(Ids), NEW x \in Ids, Ordered(q), \A u \in Ids : InQueue(q, u) => u < x
  PROVE  /\ Ordered(Append(q, x))
         /\ \A u : InQueue(Append(q, x), u) <=> InQueue(q, u) \/ u = x
  <1>1. /\ Len(Append(q, x)) = Len(q) + 1 /\ Len(q) \in Nat
        /\ Append(q, x)[Len(q) + 1] = x
        /\ \A i \in 1..Len(q) : Append(q, x)[i] = q[i]
    BY AppendedEntry
  <1>2. \A i \in 1..Len(Append(q, x)) : i \in 1..Len(q) \/ i = Len(q) + 1
    BY <1>1
  <1>3. \A i \in 1..Len(q) : i \in 1..Len(Append(q, x)) /\ q[i] \in Ids
    BY <1>1
  <1>4. Ordered(Append(q, x))
    <2> SUFFICES ASSUME NEW i \in 1..Len(Append(q, x)), NEW j \in 1..Len(Append(q, x)), i < j
                 PROVE  Append(q, x)[i] < Append(q, x)[j]
      BY DEF Ordered
    <2>1. i \in 1..Len(q)
      BY <1>1, <1>2
    <2>2. CASE j \in 1..Len(q)
      BY <1>1, <2>1, <2>2 DEF Ordered
    <2>3. CASE j = Len(q) + 1
      BY <1>1, <1>3, <2>1, <2>3 DEF InQueue
    <2>4. QED
      BY <1>2, <2>2, <2>3
  <1>5. ASSUME NEW u PROVE InQueue(Append(q, x), u) <=> InQueue(q, u) \/ u = x
    <2>1. InQueue(Append(q, x), u) => InQueue(q, u) \/ u = x
      BY <1>1, <1>2 DEF InQueue
    <2>2. InQueue(q, u) => InQueue(Append(q, x), u)
      BY <1>1, <1>3 DEF InQueue
    <2>3. Len(q) + 1 \in 1..Len(Append(q, x))
      BY <1>1
    <2>4. u = x => InQueue(Append(q, x), u)
      BY <1>1, <2>3 DEF InQueue
    <2>5. QED
      BY <2>1, <2>2, <2>4
  <1>6. QED
    BY <1>4, <1>5

\* deque.popleft of an ordered queue leaves what is behind the head.
LEMMA TailOrdered ==
  ASSUME NEW q \in Seq(Ids), q # <<>>, Ordered(q)
  PROVE  /\ Tail(q) \in Seq(Ids) /\ Head(q) \in Ids /\ Ordered(Tail(q))
         /\ InQueue(q, Head(q))
         /\ \A u : InQueue(Tail(q), u) <=> InQueue(q, u) /\ u # Head(q)
  <1>1. /\ Tail(q) \in Seq(Ids) /\ Head(q) \in Ids /\ Head(q) = q[1]
        /\ Len(q) \in Nat /\ Len(q) >= 1 /\ Len(Tail(q)) = Len(q) - 1
        /\ \A i \in 1..Len(Tail(q)) : Tail(q)[i] = q[i + 1]
    OBVIOUS
  <1>2. \A i \in 1..Len(Tail(q)) : i \in Nat /\ i + 1 \in 1..Len(q) /\ i + 1 > 1
    BY <1>1
  <1>3. \A i \in 1..Len(q) : q[i] \in Nat
    <2>1. \A i \in 1..Len(q) : q[i] \in Ids
      OBVIOUS
    <2>2. QED
      BY <2>1, StoreAssumption DEF Ids
  <1>4. Ordered(Tail(q))
    BY <1>1, <1>2 DEF Ordered
  <1>5. InQueue(q, Head(q))
    BY <1>1 DEF InQueue
  <1>6. \A i \in 1..Len(q) : q[i] = q[1] => i = 1
    BY <1>1, <1>3 DEF Ordered
  <1>7. ASSUME NEW u PROVE InQueue(Tail(q), u) <=> InQueue(q, u) /\ u # Head(q)
    <2>1. ASSUME NEW i \in 1..Len(Tail(q)), Tail(q)[i] = u
          PROVE  InQueue(q, u) /\ u # Head(q)
      BY <1>1, <1>2, <1>6, <2>1 DEF InQueue
    <2>2. ASSUME NEW i \in 1..Len(q), q[i] = u, u # Head(q)
          PROVE  InQueue(Tail(q), u)
      <3>1. i # 1 /\ i - 1 \in 1..Len(Tail(q))
        BY <1>1, <2>2
      <3>2. Tail(q)[i - 1] = q[(i - 1) + 1]
        BY <1>1, <3>1
      <3>3. QED
        BY <2>2, <3>1, <3>2 DEF InQueue
    <2>3. QED
      BY <2>1, <2>2 DEF InQueue
  <1>8. QED
    BY <1>1, <1>4, <1>5, <1>7

\* deque.remove: the entries after the one that goes move up.
LEMMA WithoutEntries ==
  ASSUME NEW q \in Seq(Ids), NEW t \in Ids, InQueue(q, t)
  PROVE  /\ Len(Without(q, t)) = Len(q) - 1
         /\ \E k \in 1..Len(q) :
              /\ q[k] = t
              /\ \A i \in 1..Len(Without(q, t)) :
                   Without(q, t)[i] = IF i < k THEN q[i] ELSE q[i + 1]
  <1> DEFINE k == CHOOSE j \in 1..Len(q) : q[j] = t
             a == SubSeq(q, 1, k - 1)
             b == SubSeq(q, k + 1, Len(q))
  <1>1. k \in 1..Len(q) /\ q[k] = t
    BY DEF InQueue
  <1>2. Without(q, t) = a \o b
    BY DEF Without, InQueue
  <1> HIDE DEF k
  <1>3. Len(q) \in Nat /\ k \in Nat /\ 1 <= k /\ k <= Len(q)
    BY <1>1
  <1>4. a \in Seq(Ids) /\ Len(a) = k - 1 /\ \A i \in 1..(k - 1) : a[i] = q[i]
    <2>1. \A i \in 1..(k - 1) : q[i] \in Ids
      BY <1>3
    <2>2. QED
      BY <1>3, <2>1, SubSeqProperties
  <1>5. b \in Seq(Ids) /\ Len(b) = Len(q) - k /\ \A i \in 1..(Len(q) - k) : b[i] = q[i + k]
    <2>1. \A i \in (k + 1)..Len(q) : q[i] \in Ids
      BY <1>3
    <2>2. k + 1 \in Int /\ Len(q) \in Int
      BY <1>3
    <2>3. /\ b \in Seq(Ids)
          /\ Len(b) = IF k + 1 <= Len(q) THEN Len(q) - (k + 1) + 1 ELSE 0
          /\ \A i \in 1..(Len(q) - (k + 1) + 1) : b[i] = q[k + 1 + i - 1]
      BY <2>1, <2>2, SubSeqProperties
    <2>4. Len(q) - (k + 1) + 1 = Len(q) - k /\ (~(k + 1 <= Len(q)) => Len(q) - k = 0)
      BY <1>3
    <2>5. \A i \in 1..(Len(q) - k) : k + 1 + i - 1 = i + k
      BY <1>3
    <2>6. QED
      BY <2>3, <2>4, <2>5
  <1> DEFINE w == a \o b
  <1>6. /\ Len(w) = Len(q) - 1
        /\ \A i \in 1..Len(w) : w[i] = IF i <= k - 1 THEN a[i] ELSE b[i - (k - 1)]
    <2> HIDE DEF a, b
    <2>1. /\ Len(w) = Len(a) + Len(b)
          /\ \A i \in 1..(Len(a) + Len(b)) :
               w[i] = IF i <= Len(a) THEN a[i] ELSE b[i - Len(a)]
      BY <1>4, <1>5, ConcatProperties
    <2> HIDE DEF w
    <2>2. Len(a) + Len(b) = Len(q) - 1
      BY <1>3, <1>4, <1>5
    <2>3. QED
      BY <1>4, <2>1, <2>2
  <1> HIDE DEF a, b, w
  <1>7. \A i \in 1..Len(w) : w[i] = IF i < k THEN q[i] ELSE q[i + 1]
    <2> SUFFICES ASSUME NEW i \in 1..Len(w) PROVE w[i] = IF i < k THEN q[i] ELSE q[i + 1]
      OBVIOUS
    <2>1. CASE i < k
      <3>1. i <= k - 1 /\ i \in 1..(k - 1)
        BY <1>3, <2>1
      <3>2. QED
        BY <1>4, <1>6, <2>1, <3>1
    <2>2. CASE ~(i < k)
      <3>1. ~(i <= k - 1) /\ i - (k - 1) \in 1..(Len(q) - k) /\ i - (k - 1) + k = i + 1
        BY <1>3, <1>6, <2>2
      <3>2. w[i] = b[i - (k - 1)] /\ b[i - (k - 1)] = q[i - (k - 1) + k]
        BY <1>5, <1>6, <3>1
      <3>3. QED
        BY <2>2, <3>1, <3>2
    <2>3. QED
      BY <2>1, <2>2
  <1>8. w = Without(q, t)
    BY <1>2 DEF w
  <1>9. QED
    BY <1>1, <1>6, <1>7, <1>8

\* ... so that an ordered queue stays one, without the task.
LEMMA WithoutOrdered ==
  ASSUME NEW q \in Seq(Ids), NEW t \in Ids, Ordered(q)
  PROVE  /\ Ordered(Without(q, t))
         /\ \A u : InQueue(Without(q, t), u) <=> InQueue(q, u) /\ u # t
  <1>1. CASE ~InQueue(q, t)
    <2>1. Without(q, t) = q
      BY <1>1 DEF Without, InQueue
    <2>2. QED
      BY <1>1, <2>1
  <1>2. CASE InQueue(q, t)
    <2> DEFINE w == Without(q, t)
    <2>1. Len(w) = Len(q) - 1
      BY <1>2, WithoutEntries
    <2>2. PICK k \in 1..Len(q) :
            /\ q[k] = t
            /\ \A i \in 1..Len(w) : w[i] = IF i < k THEN q[i] ELSE q[i + 1]
      BY <1>2, WithoutEntries
    <2>3. Len(q) \in Nat /\ k \in Nat /\ 1 <= k /\ k <= Len(q)
      OBVIOUS
    <2> HIDE DEF w
    <2>4. Ordered(w)
      <3> SUFFICES ASSUME NEW i \in 1..Len(w), NEW j \in 1..Len(w), i < j
                   PROVE  w[i] < w[j]
        BY DEF Ordered
      <3> DEFINE m == IF i < k THEN i ELSE i + 1
                 n == IF j < k THEN j ELSE j + 1
      <3>1. m \in 1..Len(q) /\ n \in 1..Len(q) /\ m < n
        BY <2>1, <2>3
      <3>2. w[i] = q[m] /\ w[j] = q[n]
        BY <2>2
      <3> HIDE DEF m, n
      <3>3. QED
        BY <3>1, <3>2 DEF Ordered
    <2>5. \A i \in 1..Len(q) : q[i] \in Nat
      <3>1. \A i \in 1..Len(q) : q[i] \in Ids
        OBVIOUS
      <3>2. QED
        BY <3>1, StoreAssumption DEF Ids
    <2>6. \A i \in 1..Len(q) : q[i] = t => i = k
      BY <2>2, <2>3, <2>5 DEF Ordered
    <2>7. ASSUME NEW u PROVE InQueue(w, u) <=> InQueue(q, u) /\ u # t
      <3>1. ASSUME NEW i \in 1..Len(w), w[i] = u
            PROVE  InQueue(q, u) /\ u # t
        <4> DEFINE m == IF i < k THEN i ELSE i + 1
        <4>1. m \in 1..Len(q) /\ m # k
          BY <2>1, <2>3
        <4>2. w[i] = q[m]
          BY <2>2
        <4> HIDE DEF m
        <4>3. QED
          BY <2>6, <3>1, <4>1, <4>2 DEF InQueue
      <3>2. ASSUME NEW m \in 1..Len(q), q[m] = u, u # t
            PROVE  InQueue(w, u)
        <4> DEFINE i == IF m < k THEN m ELSE m - 1
        <4>1. m # k
          BY <2>2, <3>2
        <4>2. i \in 1..Len(w) /\ (i < k <=> m < k) /\ (~(m < k) => i + 1 = m)
          BY <2>1, <2>3, <4>1
        <4>3. w[i] = q[m]
          <5>1. CASE m < k
            BY <2>2, <4>2, <5>1
          <5>2. CASE ~(m < k)
            BY <2>2, <4>2, <5>2
          <5>3. QED
            BY <5>1, <5>2
        <4> HIDE DEF i
        <4>4. QED
          BY <3>2, <4>2, <4>3 DEF InQueue
      <3>3. QED
        BY <3>1, <3>2 DEF InQueue
    <2>8. QED
      BY <2>4, <2>7 DEF w
  <1>3. QED
    BY <1>1, <1>2

\* deque.remove adds nothing, whatever the order.
LEMMA WithoutKeeps ==
  ASSUME NEW q \in Seq(Ids), NEW t \in Ids, NEW u, InQueue(Without(q, t), u)
  PROVE  InQueue(q, u)
  <1>1. CASE ~InQueue(q, t)
    BY <1>1 DEF Without, InQueue
  <1>2. CASE InQueue(q, t)
    <2> DEFINE w == Without(q, t)
    <2>1. Len(w) = Len(q) - 1 /\ Len(q) \in Nat
      BY <1>2, WithoutEntries
    <2>2. PICK k \in 1..Len(q) : \A i \in 1..Len(w) : w[i] = IF i < k THEN q[i] ELSE q[i + 1]
      BY <1>2, WithoutEntries
    <2>3. PICK i \in 1..Len(w) : w[i] = u
      BY DEF InQueue
    <2> HIDE DEF w
    <2>4. i \in 1..Len(q) /\ i + 1 \in 1..Len(q)
      BY <2>1
    <2>5. QED
      BY <2>2, <2>3, <2>4 DEF InQueue
  <1>3. QED
    BY <1>1, <1>2

\* deque(key for key in pending if ...): the others stay, in their order.
LEMMA OthersOrdered ==
  ASSUME pending \in Seq(Ids), NEW s, OnlyOthersPending(s)
  PROVE  /\ Ordered(pending) => Ordered(pending')
         /\ \A u : InQueue(pending', u) <=> InQueue(pending, u) /\ task[u].session # s
  <1>1. PICK n \in 0..Len(pending) : \E f \in [1..n -> 1..Len(pending)] :
          /\ \A i, j \in 1..n : i < j => f[i] < f[j]
          /\ \A k \in 1..Len(pending) :
               (\E i \in 1..n : f[i] = k) <=> task[pending[k]].session # s
          /\ pending' = [i \in 1..n |-> pending[f[i]]]
    BY DEF OnlyOthersPending
  <1>2. PICK f \in [1..n -> 1..Len(pending)] :
          /\ \A i, j \in 1..n : i < j => f[i] < f[j]
          /\ \A k \in 1..Len(pending) :
               (\E i \in 1..n : f[i] = k) <=> task[pending[k]].session # s
          /\ pending' = [i \in 1..n |-> pending[f[i]]]
    BY <1>1
  <1>3. n \in Nat /\ Len(pending') = n /\ \A i \in 1..n : f[i] \in 1..Len(pending)
    BY <1>2
  <1>4. \A i \in 1..n : pending'[i] = pending[f[i]]
    BY <1>2
  <1>5. Ordered(pending) => Ordered(pending')
    BY <1>2, <1>3, <1>4 DEF Ordered
  <1>6. ASSUME NEW u PROVE InQueue(pending', u) <=> InQueue(pending, u) /\ task[u].session # s
    <2>1. ASSUME NEW i \in 1..n, pending'[i] = u
          PROVE  InQueue(pending, u) /\ task[u].session # s
      <3>1. f[i] \in 1..Len(pending) /\ pending[f[i]] = u
        BY <1>3, <1>4, <2>1
      <3>2. \E m \in 1..n : f[m] = f[i]
        OBVIOUS
      <3>3. task[pending[f[i]]].session # s
        BY <1>2, <3>1, <3>2
      <3>4. QED
        BY <3>1, <3>3 DEF InQueue
    <2>2. ASSUME NEW k \in 1..Len(pending), pending[k] = u, task[u].session # s
          PROVE  \E i \in 1..n : pending'[i] = u
      <3>1. PICK i \in 1..n : f[i] = k
        BY <1>2, <2>2
      <3>2. pending'[i] = u
        BY <1>4, <2>2, <3>1
      <3>3. QED
        BY <3>2
    <2>3. QED
      BY <1>3, <2>1, <2>2 DEF InQueue
  <1>7. QED
    BY <1>5, <1>6

\* start queues what was queued, in the order of creation.
LEMMA BootOrdered ==
  ASSUME TypeOK, Boot
  PROVE  /\ Ordered(pending')
         /\ \A u \in Ids : InQueue(pending', u) <=> task[u].state = "queued"
  <1> DEFINE Q == {t \in Ids : task[t].state = "queued"}
  <1>1. Cardinality(Q) \in Nat
    BY CountIds
  <1>2. PICK q \in [1..Cardinality(Q) -> Q] :
          /\ \A t \in Q : \E i \in 1..Cardinality(Q) : q[i] = t
          /\ InCreationOrder(q)
          /\ pending' = q
    BY DEF Boot
  <1>3. Len(q) = Cardinality(Q)
    BY <1>1
  <1>4. Ordered(q)
    BY <1>2 DEF InCreationOrder, Ordered
  <1>5. \A u \in Ids : InQueue(q, u) <=> u \in Q
    BY <1>2, <1>3 DEF InQueue
  <1>6. QED
    BY <1>2, <1>4, <1>5

-----------------------------------------------------------------------------
(***************************************************************************)
(* Every queued task has its place.                                        *)
(***************************************************************************)

\* A shutdown may drop the task that was about to run, and what is behind it.
Placed(t) ==
  \/ Queued(t)
  \/ active = t /\ exec = "created"
  \/ closing /\ active = t /\ exec \in {"dropped", "done"}
  \/ closing /\ worker = "stopped"

\* Of a server that does not modify itself: nothing is held, the queue is in
\* order and holds queued tasks only, and every queued task has a place.
PlaceInv ==
  /\ held = {} /\ Ordered(pending)
  /\ closing => proc = "up"
  /\ \A t \in Ids : Queued(t) => task[t].state = "queued" /\ active # t
  /\ proc # "down" => \A t \in Ids : task[t].state = "queued" => Placed(t)

\* What a step that takes no task from the queue does to the other places.
PlacesStay ==
  /\ UNCHANGED <<held, active>>
  /\ exec = "created" =>
       \/ exec' = "created"
       \/ task'[active].state # "queued"
       \/ closing' /\ exec' \in {"dropped", "done"}
  /\ exec \in {"dropped", "done"} => exec' \in {"dropped", "done"}
  /\ closing => closing' /\ (worker = "stopped" => worker' = "stopped")
  /\ closing' => proc' = "up"
  /\ proc' # "down" => proc # "down"

\* What it does to a task: it is queued if it is in the queue, and no other is.
StaysQueued(u) ==
  /\ Queued(u) => task'[u].state = "queued"
  /\ task'[u].state = "queued" => task[u].state = "queued"

\* The queue stays.
LEMMA PlaceKept ==
  ASSUME PlaceInv, PlacesStay, pending' = pending, \A u \in Ids : StaysQueued(u)
  PROVE  PlaceInv'
  <1>1. \A u : Queued(u)' <=> Queued(u)
    BY DEF Queued
  <1>2. held' = {} /\ Ordered(pending)' /\ (closing' => proc' = "up")
    BY DEF PlaceInv, PlacesStay
  <1>3. \A u \in Ids : Queued(u)' => task'[u].state = "queued" /\ active' # u
    BY <1>1 DEF PlaceInv, PlacesStay, StaysQueued
  <1>4. ASSUME proc' # "down", NEW u \in Ids, task'[u].state = "queued"
        PROVE  Placed(u)'
    <2>1. Placed(u)
      BY <1>4 DEF PlaceInv, PlacesStay, StaysQueued
    <2>2. QED
      BY <1>1, <1>4, <2>1 DEF Placed, PlacesStay
  <1>5. QED
    BY <1>2, <1>3, <1>4 DEF PlaceInv

\* The newest task is queued.
LEMMA PlaceAdded ==
  ASSUME TypeOK, Work, PlaceInv, PlacesStay, created + 1 \in Ids,
         pending' = Append(pending, created + 1), task'[created + 1].state = "queued",
         \A u \in Ids : u # created + 1 => StaysQueued(u)
  PROVE  PlaceInv'
  <1>0. pending \in Seq(Ids) /\ created \in Nat
    BY DEF TypeOK
  <1>1. \A u \in Ids : InQueue(pending, u) => u <= created
    BY <1>0 DEF PlaceInv, Queued, InQueue, Work, Fresh, Ids
  <1>2. \A u \in Ids : InQueue(pending, u) => u < created + 1
    BY <1>0, <1>1 DEF Ids
  <1>3. /\ Ordered(pending')
        /\ \A u : InQueue(pending', u) <=> InQueue(pending, u) \/ u = created + 1
    BY <1>0, <1>2, AppendOrdered DEF PlaceInv
  <1>4. \A u : Queued(u)' <=> Queued(u) \/ u = created + 1
    BY <1>3 DEF Queued, InQueue
  <1>5. active # created + 1
    BY <1>0 DEF Work, OneWorker, TypeOK, Ids, NoTask
  <1>6. held' = {} /\ (closing' => proc' = "up")
    BY DEF PlaceInv, PlacesStay
  <1>7. \A u \in Ids : Queued(u)' => task'[u].state = "queued" /\ active' # u
    BY <1>4, <1>5 DEF PlaceInv, PlacesStay, StaysQueued
  <1>8. ASSUME proc' # "down", NEW u \in Ids, task'[u].state = "queued"
        PROVE  Placed(u)'
    <2>1. CASE u = created + 1
      BY <1>4, <2>1 DEF Placed
    <2>2. CASE u # created + 1
      <3>1. Placed(u)
        BY <1>8, <2>2 DEF PlaceInv, PlacesStay, StaysQueued
      <3>2. QED
        BY <1>4, <1>8, <3>1 DEF Placed, PlacesStay
    <2>3. QED
      BY <2>1, <2>2
  <1>9. QED
    BY <1>3, <1>6, <1>7, <1>8 DEF PlaceInv

\* A process that is gone has no queue.
LEMMA PlaceLost ==
  ASSUME LoseMemory
  PROVE  PlaceInv'
  BY DEF LoseMemory, PlaceInv, Queued, Ordered

\* A new task of a user.
LEMMA AdmitPlace ==
  ASSUME IInv, PlaceInv, NEW s \in Sessions, NEW r \in Requests,
         NEW p \in Ids \cup {NoTask}, Admit(s, r, p),
         task' = Started(task, created', s, r, p), pending' = Append(pending, created'),
         UNCHANGED <<proc, closing, held, worker, active, exec>>
  PROVE  PlaceInv'
  <1>0. TypeOK /\ Work /\ task \in Stores
    BY DEF IInv, TypeOK, Stores
  <1>1. created' = created + 1 /\ created + 1 \in Ids
    BY <1>0, AdmitEffect
  <1>2. /\ task'[created + 1].state = "queued"
        /\ \A u \in Ids : u # created + 1 => task'[u] = task[u]
    BY <1>0, <1>1, StartedEffect
  <1>3. \A u \in Ids : u # created + 1 => StaysQueued(u)
    BY <1>2 DEF StaysQueued, PlaceInv
  <1>4. PlacesStay
    BY DEF PlacesStay, PlaceInv
  <1>5. QED
    BY <1>0, <1>1, <1>2, <1>3, <1>4, PlaceAdded

\* A task is taken out of the queue, and is queued no more.
LEMMA PlaceWithout ==
  ASSUME TypeOK, PlaceInv, PlacesStay, NEW t \in Ids,
         pending' = Without(pending, t), task'[t].state # "queued",
         \A u \in Ids : u # t => StaysQueued(u)
  PROVE  PlaceInv'
  <1>1. /\ Ordered(pending')
        /\ \A u : InQueue(pending', u) <=> InQueue(pending, u) /\ u # t
    BY WithoutOrdered DEF PlaceInv, TypeOK
  <1>2. \A u : Queued(u)' <=> Queued(u) /\ u # t
    BY <1>1 DEF Queued, InQueue
  <1>3. held' = {} /\ (closing' => proc' = "up")
    BY DEF PlaceInv, PlacesStay
  <1>4. \A u \in Ids : Queued(u)' => task'[u].state = "queued" /\ active' # u
    BY <1>2 DEF PlaceInv, PlacesStay, StaysQueued
  <1>5. ASSUME proc' # "down", NEW u \in Ids, task'[u].state = "queued"
        PROVE  Placed(u)'
    <2>1. u # t /\ Placed(u)
      BY <1>5 DEF PlaceInv, PlacesStay, StaysQueued
    <2>2. QED
      BY <1>2, <1>5, <2>1 DEF Placed, PlacesStay
  <1>6. QED
    BY <1>1, <1>3, <1>4, <1>5 DEF PlaceInv

\* The requests of the users.
LEMMA UserPlace ==
  ASSUME IInv, HonestInv, PlaceInv, UserNext
  PROVE  PlaceInv'
  <1> USE DEF vars, durable, process, queue, execution, reset, build
  <1>0. /\ TypeOK /\ Work /\ task \in Stores /\ exec \in ExecStates
        /\ (exec # "none" <=> active # NoTask) /\ (active # NoTask => active \in Ids)
        /\ {"canceled", "cancel-requested"} \subseteq States
    BY DEF IInv, TypeOK, Stores, Work, OneWorker, States
  <1>1. ASSUME NEW s \in Sessions, NEW r \in Requests, Submit(s, r)
        PROVE  PlaceInv'
    BY <1>1, AdmitPlace DEF Submit
  <1>2. ASSUME NEW t \in Ids, NEW r \in Requests, Continue(t, r)
        PROVE  PlaceInv'
    <2>1. /\ Admit(task[t].session, r, t) /\ task[t].state # "none"
          /\ task' = Started(task, created', task[t].session, r, t)
          /\ pending' = Append(pending, created')
          /\ UNCHANGED <<proc, closing, held, worker, active, exec>>
      BY <1>2 DEF Continue
    <2>2. task[t].session \in Sessions
      BY <2>1, JobOf DEF HonestInv
    <2>3. QED
      BY <2>1, <2>2, AdmitPlace
  <1>3. ASSUME NEW t \in Ids, NEW r \in Requests, Steer(t, r)
        PROVE  PlaceInv'
    <2>1. /\ task' = WithSteer(task, t, r)
          /\ UNCHANGED <<pending, held, proc, closing, worker, active, exec>>
      BY <1>3 DEF Steer
    <2>2. \A u \in Ids : task'[u].state = task[u].state
      BY <1>0, <2>1, WithSteerEffect
    <2>3. PlacesStay /\ \A u \in Ids : StaysQueued(u)
      BY <2>1, <2>2 DEF PlacesStay, StaysQueued, PlaceInv
    <2>4. QED
      BY <2>1, <2>3, PlaceKept
  <1>4. ASSUME NEW t \in Ids, Cancel(t)
        PROVE  PlaceInv'
    <2>1. UNCHANGED <<held, proc, closing, worker, active>>
      BY <1>4 DEF Cancel
    <2>2. CASE task[t].state \in ActiveStates
      <3> DEFINE x == IF active = t THEN "cancel-requested" ELSE "canceled"
      <3>1. /\ task' = WithState(task, t, x) /\ pending' = Without(pending, t)
            /\ exec' = IF active = t THEN Cancelled(exec) ELSE exec
        BY <1>4, <2>2 DEF Cancel
      <3>2. x \in States /\ x # "queued"
        BY <1>0
      <3> HIDE DEF x
      <3>3. task'[t].state # "queued" /\ \A u \in Ids : u # t => task'[u] = task[u]
        <4>1. task' = WithState(task, t, x) /\ x \in States \cup {"none"}
          BY <3>1, <3>2
        <4>2. task'[t].state = x /\ \A u \in Ids : u # t => task'[u] = task[u]
          BY <1>0, <4>1, WithStateEffect
        <4>3. QED
          BY <3>2, <4>2
      <3>4. \A u \in Ids : u # t => StaysQueued(u)
        BY <3>3 DEF StaysQueued, PlaceInv
      <3>5. exec \in {"dropped", "done"} => Cancelled(exec) = exec
        BY DEF Cancelled
      <3>6. PlacesStay
        BY <2>1, <3>1, <3>3, <3>5 DEF PlacesStay, PlaceInv
      <3>7. QED
        BY <1>0, <3>1, <3>3, <3>4, <3>6, PlaceWithout
    <2>3. CASE task[t].state \notin ActiveStates
      <3>1. UNCHANGED <<pending, task, exec>>
        BY <1>4, <2>3 DEF Cancel
      <3>2. PlacesStay /\ \A u \in Ids : StaysQueued(u)
        BY <2>1, <3>1 DEF PlacesStay, StaysQueued, PlaceInv
      <3>3. QED
        BY <3>1, <3>2, PlaceKept
    <2>4. QED
      BY <2>2, <2>3
  <1>5. ASSUME NEW t \in Ids, Delete(t)
        PROVE  PlaceInv'
    <2>1. /\ task' = [task EXCEPT ![t] = Absent] /\ ~HasOwner(t)
          /\ UNCHANGED <<pending, held, proc, closing, worker, active, exec>>
      BY <1>5 DEF Delete, Deleted
    <2>2. /\ task'[t].state = "none" /\ ~Queued(t)
          /\ \A u \in Ids : u # t => task'[u] = task[u]
      BY <1>0, <2>1 DEF HasOwner, Stores, Absent
    <2>3. PlacesStay /\ \A u \in Ids : StaysQueued(u)
      BY <2>1, <2>2 DEF PlacesStay, StaysQueued, PlaceInv
    <2>4. QED
      BY <2>1, <2>3, PlaceKept
  <1>6. ASSUME NEW s \in Sessions, Reset(s)
        PROVE  PlaceInv'
    <2>1. /\ task' = ResetStore(task, s)
          /\ \A t \in SessionTasks(task, s) : ~HasOwner(t)
          /\ UNCHANGED <<pending, held, proc, closing, worker, active, exec>>
      BY <1>6 DEF Reset
    <2>2. \A u \in Ids : IF task[u].session = s THEN task'[u].state = "none" /\ ~Queued(u)
                         ELSE task'[u] = task[u]
      BY <2>1 DEF ResetStore, SessionTasks, HasOwner, Absent
    <2>3. PlacesStay /\ \A u \in Ids : StaysQueued(u)
      BY <2>1, <2>2 DEF PlacesStay, StaysQueued, PlaceInv
    <2>4. QED
      BY <2>1, <2>3, PlaceKept
  <1>7. ASSUME NEW s \in Sessions, ResetMark(s)
        PROVE  PlaceInv'
    <2>1. UNCHANGED <<task, pending, held, proc, closing, worker, active, exec>>
      BY <1>7 DEF ResetMark
    <2>2. PlacesStay /\ \A u \in Ids : StaysQueued(u)
      BY <2>1 DEF PlacesStay, StaysQueued, PlaceInv
    <2>3. QED
      BY <2>1, <2>2, PlaceKept
  <1>8. QED
    BY <1>1, <1>2, <1>3, <1>4, <1>5, <1>6, <1>7 DEF UserNext

\* A task that is settled was not queued.
LEMMA SettlePlace ==
  ASSUME TypeOK, PlaceInv, NEW t \in Ids, Settle(t)
  PROVE  \A u \in Ids : StaysQueued(u)
  <1>1. /\ \A u \in Ids : u # t => task'[u] = task[u]
        /\ task'[t].state \in {task[t].state, "canceled", "interrupted"}
    BY SettleKept
  <1>2. task[t].state = "queued" => task' = task
    BY DEF Settle, ToSettle
  <1>3. QED
    BY <1>1, <1>2 DEF StaysQueued, PlaceInv

\* The phases of a conversation's reset.
LEMMA ResetPlace ==
  ASSUME IInv, HonestInv, PlaceInv, ResetNext
  PROVE  PlaceInv'
  <1> USE DEF vars, durable, process, queue, execution, reset, build
  <1>0. /\ TypeOK /\ Work /\ task \in Stores /\ pending \in Seq(Ids)
        /\ (exec # "none" <=> active # NoTask) /\ (active # NoTask => active \in Ids)
    BY DEF IInv, TypeOK, Stores, Work, OneWorker
  <1>1. ASSUME NEW s \in Sessions, ResetStop(s)
        PROVE  PlaceInv'
    <2> DEFINE mine == active # NoTask /\ task[active].session = s
    <2>1. /\ UNCHANGED <<held, proc, closing, worker, active>>
          /\ exec' = IF mine THEN Cancelled(exec) ELSE exec
          /\ OnlyOthersPending(s)
      BY <1>1 DEF ResetStop
    <2>2. \A u \in Ids :
            IF task[u].session = s /\ task[u].state \in ActiveStates
            THEN task'[u].state \in {"cancel-requested", "canceled"}
            ELSE task'[u] = task[u]
      BY <1>0, <1>1 DEF ResetStop, Stores, TaskRecord
    <2>3. /\ Ordered(pending')
          /\ \A u : InQueue(pending', u) <=> InQueue(pending, u) /\ task[u].session # s
      BY <1>0, <2>1, OthersOrdered DEF PlaceInv
    <2>4. \A u : Queued(u)' <=> Queued(u) /\ task[u].session # s
      BY <2>3 DEF Queued, InQueue
    <2>5. \A u \in Ids : task'[u].state = "queued" =>
            task'[u] = task[u] /\ task[u].session # s
      BY <2>2 DEF ActiveStates
    <2>6. \A u \in Ids : Queued(u)' => task'[u].state = "queued" /\ active' # u
      BY <2>1, <2>2, <2>4 DEF PlaceInv
    <2>7. ASSUME proc' # "down", NEW u \in Ids, task'[u].state = "queued"
          PROVE  Placed(u)'
      <3>1. Placed(u) /\ task[u].session # s
        BY <2>1, <2>5, <2>7 DEF PlaceInv
      <3>2. active = u => exec' = exec
        BY <2>1, <3>1
      <3>3. QED
        BY <2>1, <2>4, <3>1, <3>2 DEF Placed
    <2>8. QED
      BY <2>1, <2>3, <2>6, <2>7 DEF PlaceInv
  <1>2. ASSUME NEW s \in Sessions, ResetSettle(s)
        PROVE  PlaceInv'
    <2> DEFINE t == awaited[s]
    <2>1. /\ t \in Ids /\ Settle(t)
          /\ UNCHANGED <<pending, held, proc, closing, worker, active, exec>>
      BY <1>0, <1>2 DEF ResetSettle, TypeOK
    <2> HIDE DEF t
    <2>2. \A u \in Ids : StaysQueued(u)
      BY <1>0, <2>1, SettlePlace
    <2>3. PlacesStay
      BY <2>1 DEF PlacesStay, PlaceInv
    <2>4. QED
      BY <2>1, <2>2, <2>3, PlaceKept
  <1>3. ASSUME NEW s \in Sessions, ResetFinish(s)
        PROVE  PlaceInv'
    <2>1. /\ UNCHANGED <<pending, held, proc, closing, worker, active, exec>>
          /\ resetting[s] = "stopped"
          /\ task' = task \/ task' = ResetStore(task, s)
      BY <1>3 DEF ResetFinish
    <2>2. \A u \in Ids : task[u].session = s => task[u].state # "queued"
      BY <2>1 DEF HonestInv, ResetInv, ResetStops
    <2>3. \A u \in Ids : task'[u] = task[u] \/ (task[u].state # "queued" /\ task'[u].state = "none")
      BY <2>1, <2>2 DEF ResetStore, Absent
    <2>4. PlacesStay /\ \A u \in Ids : StaysQueued(u)
      BY <2>1, <2>3 DEF PlacesStay, StaysQueued, PlaceInv
    <2>5. QED
      BY <2>1, <2>4, PlaceKept
  <1>4. QED
    BY <1>1, <1>2, <1>3 DEF ResetNext

\* Without the self-modification service nobody interrupts or continues a task.
LEMMA NoSelfMod ==
  ASSUME IInv, ~SelfMod
  PROVE  ~SelfModNext
  <1>1. \A t \in Ids : gap[t] = "none"
    BY DEF IInv, NoBuild
  <1>2. QED
    BY <1>1 DEF SelfModNext, GapPropose, GapInterrupt, ReleaseHeld, BuildEnds, SubmitContinuation

\* _run.
LEMMA WorkerPlace ==
  ASSUME IInv, PlaceInv, WorkerNext
  PROVE  PlaceInv'
  <1> USE DEF vars, durable, process, queue, execution, reset, build
  <1>0. /\ TypeOK /\ Work /\ task \in Stores /\ pending \in Seq(Ids)
        /\ (worker = "run" <=> exec # "none") /\ (exec # "none" => active \in Ids)
        /\ proc # "up" => worker = "stopped"
    BY DEF IInv, TypeOK, Stores, Work, OneWorker
  <1>1. CASE RunWake
    <2>1. /\ UNCHANGED <<task, pending, held, proc, closing, active, exec>> /\ worker = "wait"
      BY <1>1 DEF RunWake
    <2>2. PlacesStay /\ \A u \in Ids : StaysQueued(u)
      BY <2>1 DEF PlacesStay, StaysQueued, PlaceInv
    <2>3. QED
      BY <2>1, <2>2, PlaceKept
  <1>2. CASE RunPop
    <2>1. UNCHANGED <<task, held, proc, closing>> /\ worker = "pop" /\ exec = "none"
      BY <1>0, <1>2 DEF RunPop
    <2>2. CASE pending = <<>>
      <3>1. UNCHANGED <<pending, active, exec>>
        BY <1>2, <2>2 DEF RunPop
      <3>2. PlacesStay /\ \A u \in Ids : StaysQueued(u)
        BY <2>1, <3>1 DEF PlacesStay, StaysQueued, PlaceInv
      <3>3. QED
        BY <3>1, <3>2, PlaceKept
    <2>3. CASE pending # <<>>
      <3> DEFINE h == Head(pending)
      <3>1. /\ h \in Ids /\ InQueue(pending, h) /\ Ordered(Tail(pending))
            /\ \A u : InQueue(Tail(pending), u) <=> InQueue(pending, u) /\ u # h
        BY <1>0, <2>3, TailOrdered DEF PlaceInv
      <3>2. task[h].state = "queued"
        BY <3>1 DEF PlaceInv, Queued, InQueue
      <3>3. pending' = Tail(pending) /\ active' = h /\ exec' = "created"
        BY <1>2, <2>3, <3>2 DEF RunPop
      <3> HIDE DEF h
      <3>4. \A u : Queued(u)' <=> Queued(u) /\ u # h
        BY <3>1, <3>3 DEF Queued, InQueue
      <3>5. ASSUME NEW u \in Ids, proc' # "down", task'[u].state = "queued"
            PROVE  Placed(u)'
        <4>1. Queued(u)
          BY <2>1, <3>5 DEF PlaceInv, Placed
        <4>2. QED
          BY <3>3, <3>4, <4>1 DEF Placed
      <3>6. \A u \in Ids : Queued(u)' => task'[u].state = "queued" /\ active' # u
        BY <2>1, <3>3, <3>4 DEF PlaceInv
      <3>7. QED
        BY <2>1, <3>1, <3>3, <3>5, <3>6 DEF PlaceInv
    <2>4. QED
      BY <2>2, <2>3
  <1>3. CASE RunSettle
    <2>1. /\ active \in Ids /\ Settle(active) /\ active' = NoTask /\ exec = "done"
          /\ worker' = NextStop(pending) /\ worker = "run"
          /\ UNCHANGED <<pending, held, proc, closing>>
      BY <1>0, <1>3 DEF RunSettle
    <2>2. \A u \in Ids : StaysQueued(u)
      BY <1>0, <2>1, SettlePlace
    <2>3. \A u : Queued(u)' <=> Queued(u)
      BY <2>1 DEF Queued
    <2>4. closing => worker' = "stopped"
      BY <2>1 DEF NextStop
    <2>5. NoTask \notin Ids
      BY DEF NoTask, Ids
    <2>6. \A u \in Ids : Queued(u)' => task'[u].state = "queued" /\ active' # u
      BY <2>1, <2>2, <2>3, <2>5 DEF StaysQueued
    <2>7. ASSUME NEW u \in Ids, proc' # "down", task'[u].state = "queued"
          PROVE  Placed(u)'
      <3>1. Placed(u)
        BY <2>1, <2>2, <2>7 DEF PlaceInv, StaysQueued
      <3>2. QED
        BY <2>1, <2>3, <2>4, <3>1 DEF Placed
    <2>8. QED
      BY <2>1, <2>6, <2>7 DEF PlaceInv
  <1>4. QED
    BY <1>1, <1>2, <1>3 DEF WorkerNext

\* _followup_locked: a child that is saved and queued has its place, a new one
\* gets the last place or is blocked.
LEMMA FollowupQueue ==
  ASSUME IInv, HonestInv, PlaceInv, proc # "down", exec \in {"none", "running"},
         closing => worker # "stopped",
         NEW store \in Stores, NEW t \in Ids, t <= created, \A u \in Ids : u # t => store[u] = task[u],
         task[t].state # "queued", store[t].state # "queued",
         Behind(store[t]), FollowupFits(store, t), FollowupLocked(store, t)
  PROVE  \/ pending' = pending /\ \A u \in Ids : StaysQueued(u)
         \/ /\ created + 1 \in Ids /\ pending' = Append(pending, created + 1)
            /\ task'[created + 1].state = "queued"
            /\ \A u \in Ids : u # created + 1 => StaysQueued(u)
  <1> DEFINE c == Child(store, t)
             started == WithChild(store, t)
             admit == started[c].state = "queued" /\ ~Queued(c)
             room == Len(pending) < MaxQueued
             store2 == IF admit /\ ~room THEN WithState(started, c, "blocked")
                       ELSE started
             fresh == SavedChild(store, t) = {}
  <1>0. /\ TypeOK /\ Work /\ created \in 0..MaxTasks /\ "blocked" \in States
        /\ t # created + 1 /\ created + 1 > created
    BY DEF IInv, TypeOK, States, Ids
  <1>1. /\ task' = WithFollowup(store2, t, c)
        /\ pending' = IF admit /\ room THEN Append(pending, c) ELSE pending
    BY DEF FollowupLocked
  <1>2. c \in Ids /\ (fresh => c = created + 1) /\ (~fresh => c \in SavedChild(store, t))
    BY <1>0, ChildType DEF Child
  <1>3. /\ started \in Stores
        /\ ~fresh => started = store
        /\ fresh => started[created + 1].state = "queued"
        /\ \A u \in Ids : u # created + 1 => started[u] = store[u]
    BY <1>0, WithChildEffect
  <1> HIDE DEF c, started, fresh
  <1>4. /\ store2 \in Stores
        /\ \A u \in Ids : u # c => store2[u].state = started[u].state
        /\ store2[c].state = IF admit /\ ~room THEN "blocked" ELSE started[c].state
    <2>1. CASE admit /\ ~room
      <3>1. store2 = WithState(started, c, "blocked")
        BY <2>1
      <3>2. QED
        BY <1>0, <1>2, <1>3, <2>1, <3>1, WithStateEffect
    <2>2. CASE ~(admit /\ ~room)
      BY <1>3, <2>2
    <2>3. QED
      BY <2>1, <2>2
  <1> HIDE DEF store2
  <1>5. \A u \in Ids : task'[u].state = store2[u].state
    <2>1. task' = WithFollowup(store2, t, c)
      BY <1>1
    <2>2. store2 \in Stores /\ c \in Ids
      BY <1>2, <1>4
    <2>3. \A u \in Ids : WithFollowup(store2, t, c)[u].state = store2[u].state
      BY <2>2, WithFollowupEffect
    <2>4. QED
      BY <2>1, <2>3
  <1>6. ~Queued(t) /\ (\A u \in Ids : Queued(u) => task[u].state = "queued" /\ u # t)
    BY DEF PlaceInv
  <1>7. CASE fresh
    <2>1. c = created + 1 /\ created + 1 \in Ids /\ started[c].state = "queued"
      BY <1>2, <1>3, <1>7
    <2>2. ~Queued(c)
      BY <1>0, <1>6, <2>1 DEF Work, Fresh, Ids
    <2>3. admit
      BY <2>1, <2>2
    <2>4. \A u \in Ids : u # c => task'[u].state = store[u].state
      BY <1>3, <1>4, <1>5, <2>1
    <2>5. \A u \in Ids : u # c => StaysQueued(u)
      BY <1>6, <2>4 DEF StaysQueued
    <2>6. CASE room
      BY <1>1, <1>2, <1>4, <1>5, <2>1, <2>3, <2>5, <2>6
    <2>7. CASE ~room
      <3>1. task'[c].state = "blocked" /\ pending' = pending
        BY <1>1, <1>2, <1>4, <1>5, <2>3, <2>7
      <3>2. StaysQueued(c)
        BY <2>2, <3>1 DEF StaysQueued
      <3>3. QED
        BY <2>5, <3>1, <3>2
    <2>8. QED
      BY <2>6, <2>7
  <1>8. CASE ~fresh
    <2>1. started = store
      BY <1>3, <1>8
    <2>2. ~admit
      <3>1. SUFFICES ASSUME store[c].state = "queued" PROVE Queued(c)
        BY <2>1
      <3>2. c # t /\ task[c].state = "queued"
        BY <1>2, <3>1
      <3>3. QED
        BY <1>2, <3>2 DEF PlaceInv, Placed
    <2>3. pending' = pending /\ \A u \in Ids : task'[u].state = store[u].state
      BY <1>1, <1>4, <1>5, <2>1, <2>2
    <2>4. \A u \in Ids : StaysQueued(u)
      BY <1>6, <2>3 DEF StaysQueued
    <2>5. QED
      BY <2>3, <2>4
  <1>9. QED
    BY <1>7, <1>8

\* An execution that goes on or ends, and leaves the queue alone.
LEMMA ExecPlaceKept ==
  ASSUME TypeOK, PlaceInv, active \in Ids, exec # "created", exec' \in {exec, "done"},
         UNCHANGED <<pending, held, proc, closing, worker, active>>,
         \A u \in Ids : u # active => task'[u] = task[u],
         task'[active].state = "queued" => task[active].state = "queued"
  PROVE  PlaceInv'
  <1>1. PlacesStay /\ \A u \in Ids : StaysQueued(u)
    BY DEF PlacesStay, StaysQueued, PlaceInv
  <1>2. QED
    BY <1>1, PlaceKept

\* _execute.
LEMMA ExecPlace ==
  ASSUME IInv, HonestInv, PlaceInv, ExecNext
  PROVE  PlaceInv'
  <1> USE DEF vars, durable, process, queue, execution, reset, build
  <1>0. /\ TypeOK /\ Work /\ task \in Stores
        /\ {"running", "blocked"} \subseteq States
        /\ proc # "up" => worker = "stopped"
        /\ worker = "run" <=> exec # "none"
    BY DEF IInv, TypeOK, Stores, States, Work, OneWorker
  <1>1. exec # "none" => active \in Ids /\ active <= created /\ worker = "run" /\ proc = "up"
    BY <1>0 DEF Work, OneWorker, TypeOK
  <1>2. CASE ExecBegin
    <2>1. /\ active \in Ids /\ exec = "created" /\ task[active].state = "queued"
      BY <1>1, <1>2 DEF ExecBegin, HonestInv, LiveState
    <2>2. /\ task' = WithState(task, active, "running")
          /\ UNCHANGED <<pending, held, proc, closing, worker, active>>
      BY <1>2, <2>1 DEF ExecBegin
    <2>3. task'[active].state = "running" /\ \A u \in Ids : u # active => task'[u] = task[u]
      BY <1>0, <2>1, <2>2, WithStateEffect
    <2>4. PlacesStay /\ \A u \in Ids : StaysQueued(u)
      BY <2>1, <2>2, <2>3 DEF PlacesStay, StaysQueued, PlaceInv
    <2>5. QED
      BY <2>2, <2>4, PlaceKept
  <1>3. CASE TakeCommand
    BY <1>0, <1>1, <1>3, ExecPlaceKept DEF TakeCommand
  <1>4. ASSUME NEW kind \in {"accepted", "progress", "finding", "question", "blocked"},
               NEW v \in revisions, Report(kind, v)
        PROVE  PlaceInv'
    <2> DEFINE rec == task[active]
               x == IF kind = "accepted" /\ rec.state = "blocked" THEN "running"
                    ELSE IF kind \in {"question", "blocked"} THEN "blocked"
                    ELSE rec.state
               store == IF kind = "accepted" THEN WithAccepted(task, active, v)
                        ELSE task
    <2>1. /\ exec = "running" /\ active \in Ids
          /\ task' = WithState(store, active, x)
          /\ UNCHANGED <<pending, held, proc, closing, worker, active, exec>>
      BY <1>1, <1>4 DEF Report
    <2>2. x \in {"running", "blocked"}
      BY <2>1 DEF HonestInv, LiveState
    <2>3. /\ store \in Stores
          /\ \A u \in Ids : u # active => store[u] = task[u]
      <3>1. v \in Nat
        BY <1>0 DEF TypeOK
      <3>2. QED
        BY <1>0, <2>1, <3>1, WithAcceptedEffect
    <2> HIDE DEF x, store
    <2>4. task'[active].state = x /\ \A u \in Ids : u # active => task'[u] = store[u]
      BY <1>0, <2>1, <2>2, <2>3, WithStateEffect
    <2>5. QED
      BY <1>0, <2>1, <2>2, <2>3, <2>4, ExecPlaceKept
  <1>5. ASSUME NEW v \in revisions, ReportGap(v)
        PROVE  PlaceInv'
    BY <1>4, <1>5 DEF ReportGap
  <1>6. ASSUME NEW kind \in ReportKinds, NEW v \in revisions, ReportOnly(kind, v)
        PROVE  PlaceInv'
    BY <1>4, <1>6, CoordinatorAssumption DEF ReportOnly
  <1>7. ASSUME NEW ok \in BOOLEAN, ExecFinish(ok)
        PROVE  PlaceInv'
    <2>1. /\ exec = "running" /\ exec' = "done" /\ active \in Ids
          /\ UNCHANGED <<pending, held, proc, closing, worker, active>>
          /\ task' = task \/ task' = Finished(ok)
      BY <1>1, <1>7 DEF ExecFinish, Ended
    <2>2. /\ Finished(ok)[active].state # "queued"
          /\ \A u \in Ids : u # active => Finished(ok)[u] = task[u]
      BY <1>0, <2>1, FinishedJob
    <2>3. QED
      BY <1>0, <2>1, <2>2, ExecPlaceKept
  <1>8. ASSUME NEW ok \in BOOLEAN, ExecFinishLate(ok)
        PROVE  PlaceInv'
    <2>1. /\ exec = "running" /\ exec' = "done" /\ active \in Ids /\ active <= created
          /\ worker = "run" /\ proc = "up" /\ Behind(task[active])
          /\ FollowupFits(Finished(ok), active) /\ FollowupLocked(Finished(ok), active)
          /\ UNCHANGED <<held, proc, closing, worker, active>>
      BY <1>1, <1>8 DEF ExecFinishLate, Ended
    <2>2. /\ Finished(ok) \in Stores /\ Behind(Finished(ok)[active])
          /\ Finished(ok)[active].state \in {"completed", "blocked"}
          /\ \A u \in Ids : u # active => Finished(ok)[u] = task[u]
      BY <1>0, <2>1, FinishedEffect, FinishedJob
    <2>3. task[active].state # "queued"
      BY <2>1 DEF HonestInv, LiveState
    <2>4. \/ pending' = pending /\ \A u \in Ids : StaysQueued(u)
          \/ /\ created + 1 \in Ids /\ pending' = Append(pending, created + 1)
             /\ task'[created + 1].state = "queued"
             /\ \A u \in Ids : u # created + 1 => StaysQueued(u)
      BY <2>1, <2>2, <2>3, FollowupQueue
    <2>5. PlacesStay
      BY <2>1 DEF PlacesStay, PlaceInv
    <2>6. QED
      BY <1>0, <2>4, <2>5, PlaceKept, PlaceAdded
  <1>9. ASSUME NEW ok \in BOOLEAN, ExecFinishFull(ok)
        PROVE  PlaceInv'
    <2>1. /\ exec = "running" /\ exec' = "done" /\ active \in Ids
          /\ UNCHANGED <<pending, held, proc, closing, worker, active>>
          /\ task' = WithState(Finished(ok), active, "blocked")
      BY <1>1, <1>9 DEF ExecFinishFull, Ended, Failed
    <2>2. /\ Finished(ok) \in Stores
          /\ \A u \in Ids : u # active => Finished(ok)[u] = task[u]
      BY <1>0, <2>1, FinishedEffect, FinishedJob
    <2>3. task'[active].state = "blocked" /\ \A u \in Ids : u # active => task'[u] = task[u]
      BY <1>0, <2>1, <2>2, WithStateEffect
    <2>4. QED
      BY <1>0, <2>1, <2>3, ExecPlaceKept
  <1>10. CASE ExecFail
    <2>1. /\ exec # "created" /\ exec' = "done" /\ active \in Ids
          /\ UNCHANGED <<pending, held, proc, closing, worker, active>>
          /\ task' = task \/ task' = WithState(task, active, "blocked")
      BY <1>1, <1>10 DEF ExecFail, Failed
    <2>2. /\ task'[active].state \in {task[active].state, "blocked"}
          /\ \A u \in Ids : u # active => task'[u] = task[u]
      BY <1>0, <2>1, WithStateEffect
    <2>3. QED
      BY <1>0, <2>1, <2>2, ExecPlaceKept
  <1>11. ASSUME NEW settles \in BOOLEAN, ExecCancelled(settles)
         PROVE  PlaceInv'
    <2>1. /\ exec \in {"dropped", "cancelling"} /\ exec' = "done" /\ active \in Ids
          /\ UNCHANGED <<pending, held, proc, closing, worker, active>>
          /\ Settle(active) \/ UNCHANGED task
      BY <1>1, <1>11 DEF ExecCancelled
    <2>2. \A u \in Ids : StaysQueued(u)
      BY <1>0, <2>1, SettlePlace DEF StaysQueued, PlaceInv
    <2>3. PlacesStay
      BY <2>1 DEF PlacesStay, PlaceInv
    <2>4. QED
      BY <2>1, <2>2, <2>3, PlaceKept
  <1>12. QED
    BY <1>2, <1>3, <1>5, <1>6, <1>7, <1>8, <1>9, <1>10, <1>11 DEF ExecNext

\* Starting.
LEMMA StartPlace ==
  ASSUME IInv, HonestInv, PlaceInv, StartNext
  PROVE  PlaceInv'
  <1> USE DEF vars, durable, process, queue, execution, reset, build
  <1>0. /\ TypeOK /\ Work /\ task \in Stores
        /\ proc # "up" => exec = "none" /\ active = NoTask /\ ~closing
        /\ NoTask \notin Ids
    BY DEF IInv, TypeOK, Stores, Work, OneWorker, PlaceInv, NoTask, Ids
  <1>1. CASE Boot
    <2>1. /\ Ordered(pending')
          /\ \A u \in Ids : InQueue(pending', u) <=> task[u].state = "queued"
      BY <1>0, <1>1, BootOrdered
    <2>2. /\ UNCHANGED <<held, closing, active>> /\ proc' = "starting" /\ active = NoTask /\ ~closing
          /\ task' = Recovered(task)
      BY <1>0, <1>1 DEF Boot
    <2>3. \A u \in Ids : task'[u].state = "queued" <=> task[u].state = "queued"
      BY <1>0, <2>2, RecoveredEffect
    <2>4. \A u \in Ids : Queued(u)' <=> task'[u].state = "queued"
      BY <2>1, <2>3 DEF Queued, InQueue
    <2>5. QED
      BY <1>0, <2>1, <2>2, <2>4 DEF PlaceInv, Placed
  <1>2. ASSUME NEW t \in Ids, StartFollowup(t)
        PROVE  PlaceInv'
    <2>1. /\ proc = "starting" /\ task[t].state \in {"completed", "blocked"} /\ Behind(task[t])
          /\ FollowupFits(task, t) /\ FollowupLocked(task, t)
          /\ UNCHANGED <<proc, closing, held, worker, active, exec>>
      BY <1>2 DEF StartFollowup, NeedsFollowup
    <2>2. t <= created
      BY <1>0, <2>1 DEF Work, Fresh, TypeOK, Ids
    <2>3. \/ pending' = pending /\ \A u \in Ids : StaysQueued(u)
          \/ /\ created + 1 \in Ids /\ pending' = Append(pending, created + 1)
             /\ task'[created + 1].state = "queued"
             /\ \A u \in Ids : u # created + 1 => StaysQueued(u)
      BY <1>0, <2>1, <2>2, FollowupQueue
    <2>4. PlacesStay
      BY <2>1 DEF PlacesStay, PlaceInv
    <2>5. QED
      BY <1>0, <2>3, <2>4, PlaceKept, PlaceAdded
  <1>3. ASSUME NEW t \in Ids, StartFails(t)
        PROVE  PlaceInv'
    BY <1>3, PlaceLost DEF StartFails
  <1>4. CASE StartDone
    <2>1. /\ UNCHANGED <<task, pending, held, closing, active, exec>> /\ proc = "starting"
          /\ proc' = "up" /\ ~closing
      BY <1>0, <1>4 DEF StartDone
    <2>2. PlacesStay /\ \A u \in Ids : StaysQueued(u)
      BY <2>1 DEF PlacesStay, StaysQueued, PlaceInv
    <2>3. QED
      BY <2>1, <2>2, PlaceKept
  <1>5. QED
    BY <1>1, <1>2, <1>3, <1>4 DEF StartNext

\* Closing, and dying.
LEMMA StopPlace ==
  ASSUME IInv, PlaceInv, StopNext
  PROVE  PlaceInv'
  <1> USE DEF vars, durable, process, queue, execution, reset, build
  <1>1. CASE Crash \/ Exit
    BY <1>1, PlaceLost DEF Crash, Exit
  <1>2. CASE Close \/ CloseForce
    <2>1. /\ UNCHANGED <<task, pending, held, proc, worker, active>> /\ proc = "up"
          /\ closing' = TRUE /\ exec' = Cancelled(exec)
      BY <1>2 DEF Close, CloseForce, PlaceInv, IInv, TypeOK
    <2>2. PlacesStay /\ \A u \in Ids : StaysQueued(u)
      BY <2>1 DEF PlacesStay, StaysQueued, PlaceInv, Cancelled
    <2>3. QED
      BY <2>1, <2>2, PlaceKept
  <1>3. ASSUME NEW ok \in BOOLEAN, CrashInFinish(ok)
        PROVE  PlaceInv'
    BY <1>3, PlaceLost DEF CrashInFinish
  <1>4. QED
    BY <1>1, <1>2, <1>3 DEF StopNext

\* The places are kept, on a server that does not modify itself.
LEMMA StepPlace == ~SelfMod /\ IInv /\ HonestInv /\ PlaceInv /\ [Next]_vars => PlaceInv'
  <1> SUFFICES ASSUME ~SelfMod, IInv, HonestInv, PlaceInv, [Next]_vars PROVE PlaceInv'
    OBVIOUS
  <1>1. CASE Next
    BY <1>1, UserPlace, ResetPlace, NoSelfMod, WorkerPlace, ExecPlace, StartPlace, StopPlace
       DEF Next
  <1>2. CASE UNCHANGED vars
    <2>1. UNCHANGED <<task, pending, held, proc, closing, worker, active, exec>>
      BY <1>2 DEF vars, durable, process, queue, execution
    <2>2. PlacesStay /\ \A u \in Ids : StaysQueued(u)
      BY <2>1 DEF PlacesStay, StaysQueued, PlaceInv
    <2>3. QED
      BY <2>1, <2>2, PlaceKept
  <1>3. QED
    BY <1>1, <1>2

\* At first nothing is queued.
LEMMA InitPlace == Init => PlaceInv
  BY DEF Init, InitMemory, PlaceInv, Queued, Ordered

\* What the invariants say of the places of work.
LEMMA PlacesMean ==
  ASSUME IInv, HonestInv, PlaceInv
  PROVE  QueuedHasPlace /\ QueueFIFO /\ CanceledIsFree /\ NoGhost
  <1>1. \A t \in Ids : HasOwner(t) => task[t].state \notin {"canceled", "none"}
    BY DEF HasOwner, PlaceInv, HonestInv, LiveState, LiveExec
  <1>2. QueuedHasPlace
    BY DEF PlaceInv, Placed, QueuedHasPlace
  <1>3. QueueFIFO
    BY DEF PlaceInv, Ordered, QueueFIFO
  <1>4. QED
    BY <1>1, <1>2, <1>3 DEF CanceledIsFree, NoGhost

-----------------------------------------------------------------------------
(***************************************************************************)
(* The end of a reset.                                                     *)
(***************************************************************************)

\* A reset that ends while the process serves.
ResetEnded(s) ==
  resetting[s] = "stopped" /\ resetting'[s] = "no" /\ proc' = "up"

\* Only the reset's own last phase ends it, and the store does not refuse.
LEMMA StepEmpties ==
  ASSUME IInv, HonestInv, [Next]_vars, NEW s \in Sessions, ResetEnded(s)
  PROVE  SessionTasks(task', s) = {}
  <1> USE DEF vars, durable, process, queue, execution, reset, build
  <1>0. TypeOK /\ Work /\ resetting'[s] # resetting[s] /\ resetting[s] = "stopped" /\ proc' = "up"
    BY DEF IInv, ResetEnded
  <1>1. ~UserNext
    BY <1>0 DEF UserNext, Submit, Steer, Continue, Cancel, Delete, Reset, ResetMark, TypeOK
  <1>2. ~SelfModNext
    BY <1>0 DEF SelfModNext, GapPropose, GapInterrupt, ReleaseHeld, BuildEnds, SubmitContinuation
  <1>3. ~WorkerNext
    BY <1>0 DEF WorkerNext, RunWake, RunPop, RunSettle
  <1>4. ~ExecNext
    <2>1. \A kind, v : ~Report(kind, v)
      BY <1>0 DEF Report
    <2>2. \A ok : ~ExecFinish(ok) /\ ~ExecFinishLate(ok) /\ ~ExecFinishFull(ok) /\ ~ExecCancelled(ok)
      BY <1>0 DEF ExecFinish, ExecFinishLate, ExecFinishFull, ExecCancelled
    <2>3. QED
      BY <1>0, <2>1, <2>2
      DEF ExecNext, ExecBegin, TakeCommand, ExecFail, ReportGap, ReportOnly
  <1>5. ~StartNext
    BY <1>0 DEF StartNext, Boot, StartDone, StartFollowup, StartFails, LoseMemory
  <1>6. ~StopNext
    BY <1>0 DEF StopNext, Crash, Close, CloseForce, Exit, CrashInFinish, LoseMemory
  <1>7. ~UNCHANGED vars
    BY <1>0
  <1>8. ResetNext
    BY <1>1, <1>2, <1>3, <1>4, <1>5, <1>6, <1>7 DEF Next
  <1>9. PICK z \in Sessions : ResetStop(z) \/ ResetSettle(z) \/ ResetFinish(z)
    BY <1>8 DEF ResetNext
  <1>10. z = s /\ ResetFinish(s)
    BY <1>0, <1>9 DEF ResetStop, ResetSettle, ResetFinish, TypeOK
  <1>11. Resettable(task, s)
    <2>1. awaited[s] = NoTask /\ ResetStops(s) /\ proc = "up"
      BY <1>0, <1>10 DEF ResetFinish, HonestInv, ResetInv
    <2>2. ASSUME NEW u \in Ids, task[u].session = s,
                 task[u].state \in {"running", "cancel-requested"}
          PROVE  FALSE
      <3>1. active = u
        BY <1>0, <2>1, <2>2 DEF Work, OwnedWork
      <3>2. u # NoTask
        BY DEF Ids, NoTask
      <3>3. QED
        BY <1>0, <2>1, <2>2, <3>1, <3>2 DEF ResetStops
    <2>3. QED
      BY <2>2 DEF Resettable, SessionTasks
  <1>12. task' = ResetStore(task, s)
    BY <1>10, <1>11 DEF ResetFinish
  <1>13. \A u \in Ids : task'[u].session # s
    BY <1>12, StoreAssumption DEF ResetStore, Absent
  <1>14. QED
    BY <1>13 DEF SessionTasks

-----------------------------------------------------------------------------
(***************************************************************************)
(* Continuations wait for their controller.                                *)
(***************************************************************************)

\* No instruction of the conversation has the request of the task: it is not
\* the child a follow-up would find.
NoInstruction(t) ==
  \A u \in Ids : task[u].session = task[t].session =>
    \A i \in 1..Len(task[u].steers) : task[u].steers[i] # task[t].request

\* What is held was submitted, is neither queued nor active, and cannot be
\* taken for a follow-up.
HeldInv ==
  /\ \A t \in held : t <= created /\ ~Queued(t) /\ active # t
  /\ \A t \in Ids : Queued(t) => t <= created
  /\ proc # "up" => held = {}
  /\ \A t \in held : task[t].session \in Sessions => NoInstruction(t)

\* What a step does to a task that may be held.
JobStays(u) ==
  \/ SameJob(task[u], task'[u])
  \/ task'[u] = Absent
  \/ u \notin held' /\ task'[u].steers = <<>>

\* What a step does to the queue when it releases nothing.
QueueStays ==
  /\ \A u \in Ids : Queued(u)' => Queued(u) \/ (u \notin held' /\ u <= created')
  /\ created' \in Nat /\ created <= created'
  /\ active' \in held' => active' = active

LEMMA HeldKept ==
  ASSUME TypeOK, HeldInv, held' \subseteq held, QueueStays, proc' # "up" => held' = {},
         \A u \in Ids : JobStays(u)
  PROVE  HeldInv'
  <1>0. held \subseteq Ids /\ created \in Nat
    BY DEF TypeOK
  <1>1. \A t \in Ids : t <= created => t <= created'
    BY <1>0 DEF QueueStays, Ids
  <1>2. \A t \in held' : t <= created' /\ ~Queued(t)' /\ active' # t
    BY <1>0, <1>1 DEF HeldInv, QueueStays
  <1>3. \A t \in Ids : Queued(t)' => t <= created'
    BY <1>1 DEF HeldInv, QueueStays
  <1>4. ASSUME NEW t \in held', task'[t].session \in Sessions
        PROVE  NoInstruction(t)'
    <2>1. t \in Ids /\ t \in held /\ SameJob(task[t], task'[t])
      BY <1>0, <1>4, StoreAssumption DEF JobStays, Absent
    <2>2. NoInstruction(t)
      BY <1>4, <2>1 DEF HeldInv, SameJob
    <2>3. SUFFICES ASSUME NEW u \in Ids, task'[u].session = task'[t].session,
                          NEW i \in 1..Len(task'[u].steers)
                   PROVE  task'[u].steers[i] # task'[t].request
      BY DEF NoInstruction
    <2>4. CASE SameJob(task[u], task'[u])
      BY <2>1, <2>2, <2>3, <2>4 DEF NoInstruction, SameJob
    <2>5. CASE task'[u].steers = <<>>
      BY <2>3, <2>5
    <2>6. QED
      BY <2>4, <2>5 DEF JobStays, Absent
  <1>5. QED
    BY <1>2, <1>3, <1>4 DEF HeldInv

\* A process that is gone holds nothing.
LEMMA HeldLost ==
  ASSUME LoseMemory
  PROVE  HeldInv'
  BY DEF LoseMemory, HeldInv, Queued

\* A queue that grows by a task that is not held.
LEMMA QueueGrows ==
  ASSUME TypeOK, HeldInv, NEW c \in Ids, c \notin held', c <= created',
         pending' = pending \/ pending' = Append(pending, c),
         created' \in Nat, created <= created', active' = active
  PROVE  QueueStays
  <1>1. \A u : Queued(u)' => Queued(u) \/ u = c
    <2>1. CASE pending' = pending
      BY <2>1 DEF Queued
    <2>2. CASE pending' = Append(pending, c)
      <3>1. pending \in Seq(Ids)
        BY DEF TypeOK
      <3>2. /\ Len(pending') = Len(pending) + 1 /\ Len(pending) \in Nat
            /\ pending'[Len(pending) + 1] = c
            /\ \A i \in 1..Len(pending) : pending'[i] = pending[i]
        BY <2>2, <3>1, AppendedEntry
      <3>3. \A i \in 1..Len(pending') : i \in 1..Len(pending) \/ i = Len(pending) + 1
        BY <3>2
      <3>4. QED
        BY <3>2, <3>3 DEF Queued
    <2>3. QED
      BY <2>1, <2>2
  <1>2. QED
    BY <1>1 DEF QueueStays

\* A queue that loses tasks, or stays.
LEMMA QueueShrinks ==
  ASSUME TypeOK, \A u \in Ids : Queued(u)' => Queued(u), UNCHANGED <<created, active>>
  PROVE  QueueStays
  BY DEF TypeOK, QueueStays

\* A new task of a user, or of the self-modification service.
LEMMA AdmitHeld ==
  ASSUME IInv, HonestInv, HeldInv, NEW s \in Sessions, NEW r \in Requests,
         NEW p \in Ids \cup {NoTask}, Admit(s, r, p),
         task' = Started(task, created', s, r, p), UNCHANGED <<proc, active>>,
         \/ pending' = Append(pending, created') /\ held' = held
         \/ pending' = pending /\ held' = held \cup {created'}
  PROVE  HeldInv'
  <1>0. TypeOK /\ Work /\ task \in Stores /\ held \subseteq Ids /\ created \in Nat
    BY DEF IInv, TypeOK, Stores
  <1>1. created' = created + 1 /\ created' \in Ids
    BY <1>0, AdmitEffect
  <1>2. /\ task'[created'].steers = <<>>
        /\ task'[created'].session = s /\ task'[created'].request = r
        /\ \A u \in Ids : u # created' => task'[u] = task[u]
    BY <1>0, <1>1 DEF Started, NewTask, Stores
  <1>3. \A t \in held : t <= created /\ t # created'
    BY <1>0, <1>1 DEF HeldInv, Ids
  <1>4. CASE pending' = Append(pending, created') /\ held' = held
    <2>1. created' \notin held' /\ created' <= created' /\ created <= created' /\ created' \in Nat
      BY <1>0, <1>1, <1>3, <1>4 DEF Ids
    <2>2. QueueStays
      BY <1>0, <1>1, <1>4, <2>1, QueueGrows
    <2>3. \A u \in Ids : JobStays(u)
      BY <1>2, <2>1 DEF JobStays, SameJob
    <2>4. QED
      BY <1>0, <1>4, <2>2, <2>3, HeldKept DEF HeldInv
  <1>5. CASE pending' = pending /\ held' = held \cup {created'}
    <2>1. \A u : Queued(u)' <=> Queued(u)
      BY <1>5 DEF Queued
    <2>2. ~Queued(created')
      BY <1>0, <1>1 DEF HeldInv, Ids
    <2>3. active # created'
      BY <1>0, <1>1 DEF Work, OneWorker, TypeOK, Ids, NoTask
    <2>4. \A t \in held' : t <= created' /\ ~Queued(t)' /\ active' # t
      BY <1>0, <1>1, <1>5, <2>1, <2>2, <2>3 DEF HeldInv, Ids
    <2>5. \A t \in Ids : Queued(t)' => t <= created'
      BY <1>0, <1>1, <2>1 DEF HeldInv, Ids
    <2>6. proc' = "up"
      BY DEF Admit, Available
    <2>7. \A t \in held : task'[t].session \in Sessions => NoInstruction(t)'
      BY <1>0, <1>2, <1>3 DEF HeldInv, NoInstruction
    <2>8. PICK c \in Ids : c = created'
      BY <1>1
    <2>9. NoInstruction(c)'
      <3>1. ~Steered(task, s, r)
        BY DEF Admit
      <3>2. \A u \in Ids : u # c /\ task'[u].session = s =>
              \A i \in 1..Len(task'[u].steers) : task'[u].steers[i] # r
        BY <1>2, <2>8, <3>1 DEF Steered, SessionTasks
      <3>3. /\ task'[c].session = s /\ task'[c].request = r
            /\ \A i \in 1..Len(task'[c].steers) : FALSE
        BY <1>2, <2>8
      <3>4. QED
        BY <3>2, <3>3 DEF NoInstruction
    <2>10. \A t \in held' : t \in held \/ t = c
      BY <1>5, <2>8
    <2>11. QED
      BY <2>4, <2>5, <2>6, <2>7, <2>9, <2>10 DEF HeldInv
  <1>6. QED
    BY <1>4, <1>5

\* The requests of the users.
LEMMA UserHeld ==
  ASSUME IInv, HonestInv, HeldInv, UserNext
  PROVE  HeldInv'
  <1> USE DEF vars, durable, process, queue, execution, reset, build
  <1>0. /\ TypeOK /\ task \in Stores /\ pending \in Seq(Ids)
        /\ {"canceled", "cancel-requested"} \subseteq States \cup {"none"}
    BY DEF IInv, TypeOK, Stores, States
  <1>1. ASSUME NEW s \in Sessions, NEW r \in Requests, Submit(s, r)
        PROVE  HeldInv'
    BY <1>1, AdmitHeld DEF Submit
  <1>2. ASSUME NEW t \in Ids, NEW r \in Requests, Continue(t, r)
        PROVE  HeldInv'
    <2>1. /\ Admit(task[t].session, r, t) /\ task[t].state # "none"
          /\ task' = Started(task, created', task[t].session, r, t)
          /\ pending' = Append(pending, created') /\ held' = held
          /\ UNCHANGED <<proc, active>>
      BY <1>2 DEF Continue
    <2>2. task[t].session \in Sessions
      BY <2>1, JobOf DEF HonestInv
    <2>3. QED
      BY <2>1, <2>2, AdmitHeld
  <1>3. ASSUME NEW t \in Ids, NEW r \in Requests, Steer(t, r)
        PROVE  HeldInv'
    <2>1. /\ task' = WithSteer(task, t, r) /\ task[t].state # "none"
          /\ FindRequest(task, task[t].session, r) = {}
          /\ UNCHANGED <<created, pending, held, proc, active>>
      BY <1>3 DEF Steer, ActiveStates
    <2>2. /\ task'[t].steers = Append(task[t].steers, r)
          /\ \A u \in Ids : task'[u].session = task[u].session /\ task'[u].request = task[u].request
          /\ \A u \in Ids : u # t => task'[u] = task[u]
      BY <1>0, <2>1 DEF WithSteer, Stores, TaskRecord
    <2>3. \A u : Queued(u)' <=> Queued(u)
      BY <2>1 DEF Queued
    <2>4. ASSUME NEW h \in held', task'[h].session \in Sessions
          PROVE  NoInstruction(h)'
      <3>1. h \in Ids /\ h \in held /\ NoInstruction(h)
        BY <1>0, <2>1, <2>2, <2>4 DEF HeldInv, TypeOK
      <3>2. task[h].session = task[t].session => task[h].request # r
        BY <2>1, <3>1 DEF FindRequest, SessionTasks
      <3>3. task[t].steers \in Seq(Requests)
        BY <1>0 DEF Stores, TaskRecord
      <3>4. \A i \in 1..Len(task'[t].steers) :
              task'[t].steers[i] = r \/ (i \in 1..Len(task[t].steers) /\ task'[t].steers[i] = task[t].steers[i])
        BY <2>2, <3>3, SMTT(60)
      <3>5. t \in Ids /\ task'[h].session = task[h].session /\ task'[h].request = task[h].request
        BY <2>2, <3>1
      <3>6. ASSUME NEW u \in Ids, task'[u].session = task'[h].session, NEW i \in 1..Len(task'[u].steers)
            PROVE  task'[u].steers[i] # task'[h].request
        <4>1. task[u].session = task[h].session
          BY <2>2, <3>5, <3>6
        <4>2. \A j \in 1..Len(task[u].steers) : task[u].steers[j] # task[h].request
          BY <3>1, <4>1 DEF NoInstruction
        <4>3. CASE u # t
          BY <2>2, <3>5, <3>6, <4>2, <4>3
        <4>4. CASE u = t
          <5>1. task[h].request # r
            BY <3>2, <4>1, <4>4
          <5>2. task'[t].steers[i] = r \/ (i \in 1..Len(task[t].steers) /\ task'[t].steers[i] = task[t].steers[i])
            BY <3>4, <3>6, <4>4
          <5>3. QED
            BY <3>5, <4>2, <4>4, <5>1, <5>2
        <4>5. QED
          BY <4>3, <4>4
      <3>7. QED
        BY <3>6 DEF NoInstruction
    <2>5. QED
      BY <2>1, <2>3, <2>4 DEF HeldInv
  <1>4. ASSUME NEW t \in Ids, Cancel(t)
        PROVE  HeldInv'
    <2>1. /\ UNCHANGED <<created, held, proc, active>>
          /\ pending' = pending \/ pending' = Without(pending, t)
          /\ \/ task' = task
             \/ task' = WithState(task, t, "cancel-requested")
             \/ task' = WithState(task, t, "canceled")
      BY <1>4 DEF Cancel
    <2>2. \A u : Queued(u)' => Queued(u)
      BY <1>0, <2>1, WithoutKeeps DEF Queued, InQueue
    <2>3. \A u \in Ids : JobStays(u)
      BY <1>0, <2>1, WithStateJob DEF JobStays, SameJob
    <2>4. QED
      BY <1>0, <2>1, <2>2, <2>3, QueueShrinks, HeldKept DEF HeldInv
  <1>5. ASSUME NEW t \in Ids, Delete(t)
        PROVE  HeldInv'
    <2>1. /\ UNCHANGED <<created, pending, held, proc, active>>
          /\ task' = [task EXCEPT ![t] = Absent]
      BY <1>5 DEF Delete, Deleted
    <2>2. (\A u : Queued(u)' => Queued(u)) /\ \A u \in Ids : JobStays(u)
      BY <1>0, <2>1 DEF Queued, JobStays, SameJob, Stores
    <2>3. QED
      BY <1>0, <2>1, <2>2, QueueShrinks, HeldKept DEF HeldInv
  <1>6. ASSUME NEW s \in Sessions, Reset(s)
        PROVE  HeldInv'
    <2>1. /\ UNCHANGED <<created, pending, held, proc, active>>
          /\ task' = ResetStore(task, s)
      BY <1>6 DEF Reset
    <2>2. (\A u : Queued(u)' => Queued(u)) /\ \A u \in Ids : JobStays(u)
      BY <2>1 DEF Queued, JobStays, SameJob, ResetStore
    <2>3. QED
      BY <1>0, <2>1, <2>2, QueueShrinks, HeldKept DEF HeldInv
  <1>7. ASSUME NEW s \in Sessions, ResetMark(s)
        PROVE  HeldInv'
    <2>1. UNCHANGED <<task, created, pending, held, proc, active>>
      BY <1>7 DEF ResetMark
    <2>2. (\A u : Queued(u)' => Queued(u)) /\ \A u \in Ids : JobStays(u)
      BY <2>1 DEF Queued, JobStays, SameJob
    <2>3. QED
      BY <1>0, <2>1, <2>2, QueueShrinks, HeldKept DEF HeldInv
  <1>8. QED
    BY <1>1, <1>2, <1>3, <1>4, <1>5, <1>6, <1>7 DEF UserNext

\* The phases of a conversation's reset.
LEMMA ResetHeld ==
  ASSUME IInv, HonestInv, HeldInv, ResetNext
  PROVE  HeldInv'
  <1> USE DEF vars, durable, process, queue, execution, reset, build
  <1>0. TypeOK /\ task \in Stores /\ pending \in Seq(Ids)
    BY DEF IInv, TypeOK, Stores
  <1>1. ASSUME NEW s \in Sessions, ResetStop(s)
        PROVE  HeldInv'
    <2>1. UNCHANGED <<created, held, proc, active>> /\ OnlyOthersPending(s)
      BY <1>1 DEF ResetStop
    <2>2. \A u \in Ids : JobStays(u)
      BY <1>0, <1>1 DEF ResetStop, Stores, TaskRecord, JobStays, SameJob
    <2>3. \A u : Queued(u)' => Queued(u)
      BY <1>0, <2>1, OthersOrdered DEF Queued, InQueue
    <2>4. QED
      BY <1>0, <2>1, <2>2, <2>3, QueueShrinks, HeldKept DEF HeldInv
  <1>2. ASSUME NEW s \in Sessions, ResetSettle(s)
        PROVE  HeldInv'
    <2>1. /\ awaited[s] \in Ids /\ Settle(awaited[s])
          /\ UNCHANGED <<created, pending, held, proc, active>>
      BY <1>0, <1>2 DEF ResetSettle, TypeOK
    <2>2. \A u \in Ids : JobStays(u)
      BY <1>0, <2>1, SettleKept DEF JobStays
    <2>3. \A u : Queued(u)' => Queued(u)
      BY <2>1 DEF Queued
    <2>4. QED
      BY <1>0, <2>1, <2>2, <2>3, QueueShrinks, HeldKept DEF HeldInv
  <1>3. ASSUME NEW s \in Sessions, ResetFinish(s)
        PROVE  HeldInv'
    <2>1. /\ UNCHANGED <<created, pending, held, proc, active>>
          /\ task' = task \/ task' = ResetStore(task, s)
      BY <1>3 DEF ResetFinish
    <2>2. (\A u : Queued(u)' => Queued(u)) /\ \A u \in Ids : JobStays(u)
      BY <2>1 DEF Queued, JobStays, SameJob, ResetStore
    <2>3. QED
      BY <1>0, <2>1, <2>2, QueueShrinks, HeldKept DEF HeldInv
  <1>4. QED
    BY <1>1, <1>2, <1>3 DEF ResetNext

\* The calls of the self-modification service: what is released is held no more.
LEMMA SelfModHeld ==
  ASSUME IInv, HonestInv, HeldInv, SelfModNext
  PROVE  HeldInv'
  <1> USE DEF vars, durable, process, queue, execution, reset, build
  <1>0. /\ TypeOK /\ task \in Stores /\ pending \in Seq(Ids) /\ created \in Nat
        /\ "blocked" \in States \cup {"none"}
    BY DEF IInv, TypeOK, Stores, States
  <1>1. ASSUME NEW t \in Ids, GapPropose(t) \/ BuildEnds(t)
        PROVE  HeldInv'
    <2>1. UNCHANGED <<task, created, pending, held, proc, active>>
      BY <1>1 DEF GapPropose, BuildEnds
    <2>2. (\A u : Queued(u)' => Queued(u)) /\ \A u \in Ids : JobStays(u)
      BY <2>1 DEF Queued, JobStays, SameJob
    <2>3. QED
      BY <1>0, <2>1, <2>2, QueueShrinks, HeldKept DEF HeldInv
  <1>2. ASSUME NEW t \in Ids, GapInterrupt(t)
        PROVE  HeldInv'
    <2>1. /\ UNCHANGED <<created, held, proc, active>>
          /\ pending' = pending \/ pending' = Without(pending, t)
          /\ task' = task \/ task' = WithState(task, t, "blocked")
      BY <1>2 DEF GapInterrupt
    <2>2. \A u : Queued(u)' => Queued(u)
      BY <1>0, <2>1, WithoutKeeps DEF Queued, InQueue
    <2>3. \A u \in Ids : JobStays(u)
      BY <1>0, <2>1, WithStateJob DEF JobStays, SameJob
    <2>4. QED
      BY <1>0, <2>1, <2>2, <2>3, QueueShrinks, HeldKept DEF HeldInv
  <1>3. ASSUME NEW p \in Ids, ReleaseHeld(p)
        PROVE  HeldInv'
    <2>1. /\ UNCHANGED <<task, created, proc, active>> /\ proc = "up"
          /\ linked \in held /\ held' = held \ {linked}
          /\ pending' = Append(pending, linked)
      BY <1>3 DEF ReleaseHeld
    <2>2. linked \in Ids /\ linked \notin held' /\ linked <= created'
      BY <1>0, <2>1 DEF HeldInv, TypeOK
    <2>3. QueueStays
      BY <1>0, <2>1, <2>2, QueueGrows
    <2>4. \A u \in Ids : JobStays(u)
      BY <2>1 DEF JobStays, SameJob
    <2>5. QED
      BY <1>0, <2>1, <2>3, <2>4, HeldKept
  <1>4. ASSUME NEW t \in Ids, NEW r \in Requests, SubmitContinuation(t, r)
        PROVE  HeldInv'
    <2>1. /\ Admit(task[t].session, r, t) /\ task[t].state # "none"
          /\ task' = Started(task, created', task[t].session, r, t)
          /\ pending' = pending /\ held' = held \cup {created'}
          /\ UNCHANGED <<proc, active>>
      BY <1>4 DEF SubmitContinuation
    <2>2. task[t].session \in Sessions
      BY <2>1, JobOf DEF HonestInv
    <2>3. QED
      BY <2>1, <2>2, AdmitHeld
  <1>5. QED
    BY <1>1, <1>2, <1>3, <1>4 DEF SelfModNext

\* _run: what leaves the queue was not held.
LEMMA WorkerHeld ==
  ASSUME IInv, HonestInv, HeldInv, WorkerNext
  PROVE  HeldInv'
  <1> USE DEF vars, durable, process, queue, execution, reset, build
  <1>0. /\ TypeOK /\ Work /\ task \in Stores /\ pending \in Seq(Ids)
        /\ exec # "none" => active \in Ids
        /\ NoTask \notin Ids /\ held \subseteq Ids
    BY DEF IInv, TypeOK, Stores, Work, OneWorker, NoTask, Ids
  <1>1. CASE RunWake
    <2>1. UNCHANGED <<task, created, pending, held, proc, active>>
      BY <1>1 DEF RunWake
    <2>2. (\A u : Queued(u)' => Queued(u)) /\ \A u \in Ids : JobStays(u)
      BY <2>1 DEF Queued, JobStays, SameJob
    <2>3. QED
      BY <1>0, <2>1, <2>2, QueueShrinks, HeldKept DEF HeldInv
  <1>2. CASE RunPop
    <2>1. UNCHANGED <<task, created, held, proc>>
      BY <1>2 DEF RunPop
    <2>2. \A u \in Ids : JobStays(u)
      BY <2>1 DEF JobStays, SameJob
    <2>3. CASE pending = <<>>
      <3>1. UNCHANGED <<pending, active>>
        BY <1>2, <2>3 DEF RunPop
      <3>2. \A u : Queued(u)' => Queued(u)
        BY <3>1 DEF Queued
      <3>3. QED
        BY <1>0, <2>1, <2>2, <3>1, <3>2, QueueShrinks, HeldKept DEF HeldInv
    <2>4. CASE pending # <<>>
      <3> DEFINE h == Head(pending)
      <3>1. /\ Tail(pending) \in Seq(Ids) /\ h = pending[1] /\ 1 \in 1..Len(pending)
            /\ Len(Tail(pending)) = Len(pending) - 1 /\ Len(pending) \in Nat
            /\ \A i \in 1..Len(Tail(pending)) : Tail(pending)[i] = pending[i + 1]
        BY <1>0, <2>4
      <3>2. pending' = Tail(pending) /\ active' \in {h, active}
        BY <1>2, <2>4 DEF RunPop
      <3>3. Queued(h)
        BY <3>1 DEF Queued
      <3> HIDE DEF h
      <3>4. \A i \in 1..Len(pending') : i + 1 \in 1..Len(pending)
        BY <3>1, <3>2
      <3>5. \A u : Queued(u)' => Queued(u)
        BY <3>1, <3>2, <3>4 DEF Queued
      <3>6. h \notin held'
        BY <2>1, <3>3 DEF HeldInv
      <3>7. QueueStays
        BY <1>0, <2>1, <3>2, <3>5, <3>6 DEF QueueStays, TypeOK
      <3>8. QED
        BY <1>0, <2>1, <2>2, <3>7, HeldKept DEF HeldInv
    <2>5. QED
      BY <2>3, <2>4
  <1>3. CASE RunSettle
    <2>1. /\ active \in Ids /\ Settle(active) /\ active' = NoTask
          /\ UNCHANGED <<created, pending, held, proc>>
      BY <1>0, <1>3 DEF RunSettle
    <2>2. \A u \in Ids : JobStays(u)
      BY <1>0, <2>1, SettleKept DEF JobStays
    <2>3. \A u : Queued(u)' => Queued(u)
      BY <2>1 DEF Queued
    <2>4. QueueStays
      BY <1>0, <2>1, <2>3 DEF QueueStays, TypeOK
    <2>5. QED
      BY <1>0, <2>1, <2>2, <2>4, HeldKept DEF HeldInv
  <1>4. QED
    BY <1>1, <1>2, <1>3 DEF WorkerNext

\* _followup_locked: the child it finds was asked for by an instruction, so it
\* is not held; the child it makes is new.
LEMMA FollowupHeld ==
  ASSUME IInv, HonestInv, HeldInv, NEW store \in Stores, NEW t \in Ids, task[t].state # "none",
         \A u \in Ids : u # t => store[u] = task[u], SameJob(task[t], store[t]),
         Behind(store[t]), FollowupFits(store, t), FollowupLocked(store, t),
         store[t].state \in {"completed", "blocked"},
         UNCHANGED <<held, proc, active>>
  PROVE  HeldInv'
  <1>0. /\ TypeOK /\ Work /\ held \subseteq Ids /\ created \in 0..MaxTasks
        /\ t <= created
    BY DEF IInv, TypeOK, Work, Fresh, Ids
  <1>1. PICK c \in Ids :
           /\ \A u \in Ids : u # c /\ u # t => task'[u] = store[u]
           /\ SameJob(store[t], task'[t])
           /\ \/ SavedChild(store, t) # {} /\ SameJob(store[c], task'[c])
              \/ SavedChild(store, t) = {} /\ c = created + 1 /\ task'[c].steers = <<>>
    BY <1>0, FollowupJobs
  <1>2. \A u \in Ids : SameJob(task[u], store[u])
    BY DEF SameJob
  <1> DEFINE d == Child(store, t)
  <1>3. /\ created' = IF SavedChild(store, t) = {} THEN created + 1 ELSE created
        /\ pending' = pending \/ pending' = Append(pending, d)
    BY DEF FollowupLocked
  <1>4. /\ d \in Ids
        /\ SavedChild(store, t) = {} => d = created + 1
        /\ SavedChild(store, t) # {} => d \in SavedChild(store, t)
    BY <1>0, ChildType DEF Child
  <1> HIDE DEF d
  <1>5. d \notin held
    <2>1. CASE SavedChild(store, t) = {}
      BY <1>0, <1>4, <2>1 DEF HeldInv
    <2>2. CASE SavedChild(store, t) # {}
      <3> DEFINE n == Len(store[t].steers)
      <3>1. store[t].steers \in Seq(Requests) /\ n >= 1
        BY DEF Stores, TaskRecord, Behind, Covered, Revision
      <3>2. n \in 1..Len(task[t].steers) /\ task[t].steers[n] = LastSteer(store[t])
        BY <1>2, <3>1 DEF LastSteer, SameJob
      <3>3. task[d].session = task[t].session /\ task[d].request = LastSteer(store[t])
        BY <1>2, <1>4, <2>2 DEF SavedChild, FindRequest, SessionTasks, SameJob
      <3>4. task[t].session \in Sessions
        BY JobOf DEF HonestInv
      <3> HIDE DEF n
      <3>5. QED
        BY <3>2, <3>3, <3>4 DEF HeldInv, NoInstruction
    <2>3. QED
      BY <2>1, <2>2
  <1>6. d <= created'
    <2>1. CASE SavedChild(store, t) = {}
      BY <1>0, <1>3, <1>4, <2>1
    <2>2. CASE SavedChild(store, t) # {}
      <3>1. task[d].state # "none"
        <4>1. task[d].session \in Sessions
          BY <1>2, <1>4, <2>2, JobOf
          DEF SavedChild, FindRequest, SessionTasks, SameJob, HonestInv
        <4>2. QED
          BY <1>4, <4>1, StoreAssumption DEF HonestInv, JobsInv, Recorded, Absent
      <3>2. QED
        BY <1>0, <1>3, <1>4, <2>2, <3>1 DEF Work, Fresh, Ids
    <2>3. QED
      BY <2>1, <2>2
  <1>7. created' \in Nat /\ created <= created'
    BY <1>0, <1>3
  <1>8. QueueStays
    BY <1>0, <1>3, <1>4, <1>5, <1>6, <1>7, QueueGrows
  <1>9. \A u \in Ids : JobStays(u)
    <2>1. ASSUME NEW u \in Ids, u # c PROVE JobStays(u)
      BY <1>1, <1>2, <2>1 DEF JobStays, SameJob
    <2>2. CASE SavedChild(store, t) # {}
      <3>1. JobStays(c)
        BY <1>1, <1>2, <2>2 DEF JobStays, SameJob
      <3>2. QED
        BY <2>1, <3>1
    <2>3. CASE SavedChild(store, t) = {}
      <3>1. c \notin held
        BY <1>0, <1>1, <2>3 DEF HeldInv
      <3>2. JobStays(c)
        BY <1>1, <2>3, <3>1 DEF JobStays
      <3>3. QED
        BY <2>1, <3>2
    <2>4. QED
      BY <2>2, <2>3
  <1>10. QED
    BY <1>0, <1>8, <1>9, HeldKept DEF HeldInv

\* A step that leaves the queue, and every job, as they are.
LEMMA HeldStays ==
  ASSUME TypeOK, HeldInv, UNCHANGED <<created, pending, held, proc, active>>,
         \A u \in Ids : SameJob(task[u], task'[u])
  PROVE  HeldInv'
  <1>1. (\A u : Queued(u)' => Queued(u)) /\ \A u \in Ids : JobStays(u)
    BY DEF Queued, JobStays
  <1>2. QED
    BY <1>1, QueueShrinks, HeldKept DEF HeldInv

\* _execute.
LEMMA ExecHeld ==
  ASSUME IInv, HonestInv, HeldInv, ExecNext
  PROVE  HeldInv'
  <1> USE DEF vars, durable, process, queue, execution, reset, build
  <1>0. /\ TypeOK /\ Work /\ task \in Stores
        /\ {"running", "blocked"} \subseteq States
    BY DEF IInv, TypeOK, Stores, States
  <1>1. exec # "none" => active \in Ids
    BY <1>0 DEF Work, OneWorker, TypeOK
  <1>2. CASE ExecBegin
    <2>1. /\ active \in Ids
          /\ task' = task \/ task' = WithState(task, active, "running")
          /\ UNCHANGED <<created, pending, held, proc, active>>
      BY <1>1, <1>2 DEF ExecBegin
    <2>2. \A u \in Ids : SameJob(task[u], task'[u])
      BY <1>0, <2>1, WithStateJob DEF SameJob
    <2>3. QED
      BY <1>0, <2>1, <2>2, HeldStays
  <1>3. CASE TakeCommand
    BY <1>0, <1>3, HeldStays DEF TakeCommand, SameJob
  <1>4. ASSUME NEW kind \in {"accepted", "progress", "finding", "question", "blocked"},
               NEW v \in revisions, Report(kind, v)
        PROVE  HeldInv'
    <2> DEFINE rec == task[active]
               x == IF kind = "accepted" /\ rec.state = "blocked" THEN "running"
                    ELSE IF kind \in {"question", "blocked"} THEN "blocked"
                    ELSE rec.state
               store == IF kind = "accepted" THEN WithAccepted(task, active, v)
                        ELSE task
    <2>1. /\ exec = "running" /\ active \in Ids
          /\ task' = WithState(store, active, x)
          /\ UNCHANGED <<created, pending, held, proc, active>>
      BY <1>1, <1>4 DEF Report
    <2>2. x \in {"running", "blocked"}
      BY <2>1 DEF HonestInv, LiveState
    <2>3. store \in Stores /\ \A u \in Ids : SameJob(task[u], store[u])
      <3>1. v \in Nat
        BY <1>0 DEF TypeOK
      <3>2. SameJob(rec, WithAccepted(task, active, v)[active])
        BY <1>0, <2>1 DEF WithAccepted, Stores, TaskRecord, SameJob
      <3>3. QED
        BY <1>0, <2>1, <3>1, <3>2, WithAcceptedEffect DEF SameJob
    <2> HIDE DEF x, store
    <2>4. \A u \in Ids : SameJob(store[u], task'[u])
      BY <1>0, <2>1, <2>2, <2>3, WithStateJob DEF SameJob
    <2>5. \A u \in Ids : SameJob(task[u], task'[u])
      BY <2>3, <2>4 DEF SameJob
    <2>6. QED
      BY <1>0, <2>1, <2>5, HeldStays
  <1>5. ASSUME NEW v \in revisions, ReportGap(v)
        PROVE  HeldInv'
    BY <1>4, <1>5 DEF ReportGap
  <1>6. ASSUME NEW kind \in ReportKinds, NEW v \in revisions, ReportOnly(kind, v)
        PROVE  HeldInv'
    BY <1>4, <1>6, CoordinatorAssumption DEF ReportOnly
  <1>7. ASSUME NEW ok \in BOOLEAN, ExecFinish(ok) \/ ExecFinishFull(ok)
        PROVE  HeldInv'
    <2>1. /\ active \in Ids
          /\ UNCHANGED <<created, pending, held, proc, active>>
          /\ \/ task' = task
             \/ task' = Finished(ok)
             \/ task' = WithState(Finished(ok), active, "blocked")
      BY <1>1, <1>7 DEF ExecFinish, ExecFinishFull, Ended, Failed
    <2>2. Finished(ok) \in Stores /\ \A u \in Ids : SameJob(task[u], Finished(ok)[u])
      BY <1>0, <2>1, FinishedEffect, FinishedJob DEF SameJob
    <2>3. \A u \in Ids : SameJob(Finished(ok)[u], WithState(Finished(ok), active, "blocked")[u])
      BY <1>0, <2>1, <2>2, WithStateJob DEF SameJob
    <2>4. \A u \in Ids : SameJob(task[u], task'[u])
      BY <2>1, <2>2, <2>3 DEF SameJob
    <2>5. QED
      BY <1>0, <2>1, <2>4, HeldStays
  <1>8. ASSUME NEW ok \in BOOLEAN, ExecFinishLate(ok)
        PROVE  HeldInv'
    <2>1. /\ exec = "running" /\ active \in Ids /\ Behind(task[active])
          /\ FollowupFits(Finished(ok), active) /\ FollowupLocked(Finished(ok), active)
          /\ UNCHANGED <<held, proc, active>>
      BY <1>1, <1>8 DEF ExecFinishLate, Ended
    <2>2. /\ Finished(ok) \in Stores /\ Behind(Finished(ok)[active])
          /\ SameJob(task[active], Finished(ok)[active])
          /\ Finished(ok)[active].state \in {"completed", "blocked"}
          /\ \A u \in Ids : u # active => Finished(ok)[u] = task[u]
      BY <1>0, <2>1, FinishedEffect, FinishedJob
    <2>3. task[active].state # "none"
      BY <2>1 DEF HonestInv, LiveState
    <2>4. QED
      BY <2>1, <2>2, <2>3, FollowupHeld
  <1>9. CASE ExecFail
    <2>1. /\ active \in Ids
          /\ UNCHANGED <<created, pending, held, proc, active>>
          /\ task' = task \/ task' = WithState(task, active, "blocked")
      BY <1>1, <1>9 DEF ExecFail, Failed
    <2>2. \A u \in Ids : SameJob(task[u], task'[u])
      BY <1>0, <2>1, WithStateJob DEF SameJob
    <2>3. QED
      BY <1>0, <2>1, <2>2, HeldStays
  <1>10. ASSUME NEW settles \in BOOLEAN, ExecCancelled(settles)
         PROVE  HeldInv'
    <2>1. /\ active \in Ids
          /\ UNCHANGED <<created, pending, held, proc, active>>
          /\ Settle(active) \/ UNCHANGED task
      BY <1>1, <1>10 DEF ExecCancelled
    <2>2. \A u \in Ids : SameJob(task[u], task'[u])
      BY <1>0, <2>1, SettleKept DEF SameJob
    <2>3. QED
      BY <1>0, <2>1, <2>2, HeldStays
  <1>11. QED
    BY <1>2, <1>3, <1>5, <1>6, <1>7, <1>8, <1>9, <1>10 DEF ExecNext

\* Starting.
LEMMA StartHeld ==
  ASSUME IInv, HonestInv, HeldInv, StartNext
  PROVE  HeldInv'
  <1> USE DEF vars, durable, process, queue, execution, reset, build
  <1>0. TypeOK /\ Work /\ task \in Stores
    BY DEF IInv, TypeOK, Stores
  <1>1. CASE Boot
    <2>1. \A u \in Ids : InQueue(pending', u) <=> task[u].state = "queued"
      BY <1>0, <1>1, BootOrdered
    <2>2. held = {} /\ UNCHANGED <<held, created>>
      BY <1>1 DEF Boot, HeldInv
    <2>3. \A u \in Ids : Queued(u)' => u <= created'
      BY <1>0, <2>1, <2>2 DEF Queued, InQueue, Work, Fresh, TypeOK, Ids
    <2>4. QED
      BY <2>2, <2>3 DEF HeldInv
  <1>2. ASSUME NEW t \in Ids, StartFollowup(t)
        PROVE  HeldInv'
    <2>1. /\ task[t].state \in {"completed", "blocked"} /\ Behind(task[t])
          /\ FollowupFits(task, t) /\ FollowupLocked(task, t)
          /\ UNCHANGED <<held, proc, active>>
      BY <1>2 DEF StartFollowup, NeedsFollowup
    <2>2. QED
      BY <1>0, <2>1, FollowupHeld DEF SameJob
  <1>3. ASSUME NEW t \in Ids, StartFails(t)
        PROVE  HeldInv'
    BY <1>3, HeldLost DEF StartFails
  <1>4. CASE StartDone
    <2>1. UNCHANGED <<task, created, pending, held, active>> /\ proc = "starting"
      BY <1>4 DEF StartDone
    <2>2. held' = {} /\ \A u : Queued(u)' <=> Queued(u)
      BY <2>1 DEF HeldInv, Queued
    <2>3. QED
      BY <2>1, <2>2 DEF HeldInv
  <1>5. QED
    BY <1>1, <1>2, <1>3, <1>4 DEF StartNext

\* Closing, and dying.
LEMMA StopHeld ==
  ASSUME IInv, HeldInv, StopNext
  PROVE  HeldInv'
  <1> USE DEF vars, durable, process, queue, execution, reset, build
  <1>1. CASE Close \/ CloseForce
    <2>1. TypeOK /\ UNCHANGED <<task, created, pending, held, proc, active>>
      BY <1>1 DEF Close, CloseForce, IInv
    <2>2. QED
      BY <2>1, HeldStays DEF SameJob
  <1>2. CASE Crash \/ Exit \/ \E ok \in BOOLEAN : CrashInFinish(ok)
    BY <1>2, HeldLost DEF Crash, Exit, CrashInFinish
  <1>3. QED
    BY <1>1, <1>2 DEF StopNext

\* At first nothing is held; no step lets what is held run.
LEMMA InitHeld == Init => HeldInv
  BY DEF Init, InitMemory, HeldInv, Queued

LEMMA StepHeld == IInv /\ HonestInv /\ HeldInv /\ [Next]_vars => HeldInv'
  <1> SUFFICES ASSUME IInv, HonestInv, HeldInv, [Next]_vars PROVE HeldInv'
    OBVIOUS
  <1>1. CASE Next
    BY <1>1, UserHeld, ResetHeld, SelfModHeld, WorkerHeld, ExecHeld, StartHeld, StopHeld
       DEF Next
  <1>2. CASE UNCHANGED vars
    <2>1. TypeOK /\ UNCHANGED <<task, created, pending, held, proc, active>>
      BY <1>2 DEF vars, durable, process, queue, execution, IInv
    <2>2. QED
      BY <2>1, HeldStays DEF SameJob
  <1>3. QED
    BY <1>1, <1>2

-----------------------------------------------------------------------------
(***************************************************************************)
(* Theorems.                                                               *)
(***************************************************************************)

\* The records are honest in every reachable state, with or without the
\* self-modification service.
THEOREM RecordsAreHonest == Spec => []HonestInv
  BY InitHonest, StepHonest, Invariant, PTL DEF Spec

\* A request takes effect once, as a task or as an instruction, through
\* retries, crashes and the follow-ups a restart makes.
THEOREM RequestsTakeEffectOnce == Spec => []RequestOnce
  <1>1. HonestInv => RequestOnce
    BY DEF HonestInv, JobsInv
  <1>2. QED
    BY <1>1, RecordsAreHonest, PTL

\* A completed task claims what its worker accepted, and what it did not accept
\* has a follow-up.
THEOREM ResultsAreHonest == Spec => []ResultIsHonest
  <1>1. HonestInv => ResultIsHonest
    BY DEF HonestInv, JobsInv, Answered, Followed, ResultIsHonest
  <1>2. QED
    BY <1>1, RecordsAreHonest, PTL

\* Every instruction saved on the running task reached its worker, or waits in
\* the queue the worker drains.
THEOREM InstructionsReachTheWorker == Spec => []NoInstructionMissed
  <1>1. HonestInv => NoInstructionMissed
    BY DEF HonestInv, HeardInv
  <1>2. QED
    BY <1>1, RecordsAreHonest, PTL

\* The reset of a conversation is never refused at its end.
THEOREM ResetsEmpty == Spec => ResetEmpties
  <1>1. IInv /\ HonestInv /\ [Next]_vars =>
          \A s \in Sessions :
            resetting[s] = "stopped" /\ resetting'[s] = "no" /\ proc' = "up" =>
              SessionTasks(task', s) = {}
    BY StepEmpties DEF ResetEnded
  <1>2. QED
    BY <1>1, Invariant, RecordsAreHonest, PTL DEF Spec, ResetEmpties

\* On a server that does not modify itself every queued task has a place.
THEOREM WorkHasAPlace ==
  ASSUME ~SelfMod
  PROVE  Spec => []PlaceInv
  <1>1. IInv /\ HonestInv /\ PlaceInv /\ [Next]_vars => PlaceInv'
    BY StepPlace
  <1>2. QED
    BY <1>1, InitPlace, Invariant, RecordsAreHonest, PTL DEF Spec

\* ... and what its users are told of their work is true.
THEOREM UsersAreToldTheTruth ==
  ASSUME ~SelfMod
  PROVE  Spec => []WorkIsHonest
  <1>1. IInv /\ HonestInv /\ PlaceInv => WorkIsHonest
    BY PlacesMean
    DEF WorkIsHonest, HonestInv, JobsInv, HeardInv, Answered, Followed, ResultIsHonest
  <1>2. QED
    BY <1>1, Invariant, RecordsAreHonest, WorkHasAPlace, PTL

\* ... a deletion leaves no work behind, and a reset empties its conversation.
THEOREM ResetsAreClean ==
  ASSUME ~SelfMod
  PROVE  Spec => ResetIsClean
  <1>1. IInv /\ HonestInv /\ PlaceInv => NoGhost
    BY PlacesMean
  <1>2. Spec => []NoGhost
    BY <1>1, Invariant, RecordsAreHonest, WorkHasAPlace, PTL
  <1>3. QED
    BY <1>2, ResetsEmpty, PTL DEF ResetIsClean

\* A continuation runs only after its controller released it: neither the
\* queue, nor a follow-up, nor a restart runs what is held.
THEOREM ContinuationsWait == Spec => []HeldWaits
  <1>1. HeldInv => HeldWaits
    BY DEF HeldInv, HeldWaits
  <1>2. QED
    BY <1>1, InitHeld, StepHeld, Invariant, RecordsAreHonest, PTL DEF Spec

=============================================================================
