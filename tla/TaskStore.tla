------------------------------ MODULE TaskStore ------------------------------
(***************************************************************************)
(* The durable half of delegated work: the task records and the mailbox of *)
(* a conversation (tasks.sqlite), with the transactions of                 *)
(* src/recollect/task_store.py that the coordinator calls.                 *)
(*                                                                         *)
(* A method is one BEGIN IMMEDIATE transaction that commits or rolls back  *)
(* (reset is one per deleted task), so each operator below maps a whole    *)
(* store to a whole store.  Text, sources, findings, files and timestamps  *)
(* are left out.  Of the mailbox only the user's instructions ("steer"     *)
(* messages) are kept: they decide the revision of a task.                 *)
(***************************************************************************)
EXTENDS Naturals, Sequences, FiniteSets

CONSTANTS
  MaxTasks,     \* bound of the model: how many task ids are ever handed out
  StoreLimit,   \* MAX_TASKS: the records one conversation may hold
  Sessions,     \* the conversations
  Requests      \* the request ids that clients generate

\* What the columns of a row that is not there hold.
NoSession == "no session"
NoRequest == "no request"

ASSUME StoreAssumption ==
  /\ MaxTasks \in Nat
  /\ StoreLimit \in Nat \ {0}
  /\ NoSession \notin Sessions
  /\ NoRequest \notin Requests

\* Ids are handed out in order of creation, so that "sorted by created_at" is
\* the order of the numbers.  The code's uuids are never reused: nor are these.
Ids == 1..MaxTasks
NoTask == 0

States == {"queued", "running", "blocked", "cancel-requested",
           "completed", "canceled", "interrupted"}

\* tasks.py, ACTIVE_STATES: the states in which a cancel still has an effect.
ActiveStates == {"queued", "running", "blocked", "cancel-requested"}

\* States in which steer refuses an instruction.
FinishedStates == {"completed", "canceled", "interrupted"}

TaskRecord ==
  [state    : States \cup {"none"},
   session  : Sessions \cup {NoSession},
   request  : Requests \cup {NoRequest},  \* the request that created it
   parent   : Ids \cup {NoTask},
   steers   : Seq(Requests),              \* ids of the instructions, in order
   accepted : Nat,                        \* accepted_revision
   result   : Nat,                        \* result_revision, 0 for None
   followup : Ids \cup {NoTask}]          \* checkpoint["followup_task_id"]

\* No row: never created, or deleted.
Absent ==
  [state |-> "none", session |-> NoSession, request |-> NoRequest,
   parent |-> NoTask, steers |-> <<>>, accepted |-> 0, result |-> 0,
   followup |-> NoTask]

NewTask(s, r, p) ==
  [state |-> "queued", session |-> s, request |-> r,
   parent |-> p, steers |-> <<>>, accepted |-> 0, result |-> 0,
   followup |-> NoTask]

(***************************************************************************)
(* Readings of one record.                                                 *)
(***************************************************************************)

\* A task starts at revision 1 and every instruction adds one.
Revision(rec) == Len(rec.steers) + 1

\* "accepted_revision or 1": the instructions a result may claim to cover.
Covered(rec) == IF rec.accepted = 0 THEN 1 ELSE rec.accepted

\* Instructions are saved that no worker has accepted.
Behind(rec) == Revision(rec) > Covered(rec)

(***************************************************************************)
(* Readings of a whole store.                                              *)
(***************************************************************************)

SessionTasks(store, s) == {u \in Ids : store[u].session = s}

\* TaskStore.request: the task of session s created by request r.
FindRequest(store, s, r) ==
  {u \in SessionTasks(store, s) : store[u].request = r}

\* Mutant: the saved message is not looked for before it is saved again.
Steered_Never(store, s, r) == FALSE

\* TaskStore.get_message, for instructions.
Steered(store, s, r) ==
  \E u \in SessionTasks(store, s) :
    \E i \in 1..Len(store[u].steers) : store[u].steers[i] = r

StoreFull(store, s) == Cardinality(SessionTasks(store, s)) >= StoreLimit

(***************************************************************************)
(* Transactions.                                                           *)
(***************************************************************************)

\* TaskStore.start, for a request id that has no task yet.
Started(store, c, s, r, p) == [store EXCEPT ![c] = NewTask(s, r, p)]

\* TaskStore.update(state=...).
WithState(store, t, x) == [store EXCEPT ![t].state = x]

\* TaskStore.steer, for a new message id: revision and message in one commit.
WithSteer(store, t, r) == [store EXCEPT ![t].steers = Append(@, r)]

\* TaskStore.accept_revision.
WithAccepted(store, t, v) == [store EXCEPT ![t].accepted = v]

\* Mutant: the result claims the last instruction instead of the accepted one.
WithResult_Last(store, t, x) ==
  [store EXCEPT ![t].state = x, ![t].result = Revision(store[t])]

\* TaskStore.update(state=..., result_revision=...) at the end of a run.
WithResult(store, t, x) ==
  [store EXCEPT ![t].state = x, ![t].result = Covered(store[t])]

\* TaskStore.update(checkpoint={... "followup_task_id": c}).
WithFollowup(store, t, c) == [store EXCEPT ![t].followup = c]

\* Mutant: recovery writes a state that update would have refused.
Recovered_Unknown(store) ==
  [u \in Ids |->
     IF store[u].state \in {"running", "cancel-requested"}
     THEN [store[u] EXCEPT !.state = "stopped"]
     ELSE store[u]]

\* Mutant: interrupted work is queued again.
Recovered_Requeues(store) ==
  [u \in Ids |->
     IF store[u].state \in {"running", "cancel-requested"}
     THEN [store[u] EXCEPT !.state = "queued"]
     ELSE store[u]]

\* TaskStore.recover: no native process is assumed to own a running label.
Recovered(store) ==
  [u \in Ids |->
     IF store[u].state \in {"running", "cancel-requested"}
     THEN [store[u] EXCEPT !.state = "interrupted"]
     ELSE store[u]]

\* TaskStore.delete refuses a task whose stored state says it is running.
Deletable(store, t) == store[t].state \notin {"none", "running", "cancel-requested"}
Deleted(store, t) == [store EXCEPT ![t] = Absent]

\* TaskStore.reset: every task of the conversation goes.  A crash between two
\* of its deletions is not modelled: what is left is stopped work either way.
Resettable(store, s) ==
  \A u \in SessionTasks(store, s) :
    store[u].state \notin {"running", "cancel-requested"}
ResetStore(store, s) ==
  [u \in Ids |-> IF store[u].session = s THEN Absent ELSE store[u]]

=============================================================================
