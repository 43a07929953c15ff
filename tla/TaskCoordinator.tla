--------------------------- MODULE TaskCoordinator ---------------------------
(***************************************************************************)
(* The owner of delegated work: src/recollect/tasks.py, TaskCoordinator.   *)
(*                                                                         *)
(* One asyncio process owns a queue of tasks, one worker coroutine (_run)  *)
(* and at most one execution (_execute).  Every handler runs its body      *)
(* under the lock _mutation and is therefore one action, with every store  *)
(* transaction and queue change it makes.  What interleaves is what the    *)
(* code leaves outside the lock: the worker's check before it waits for    *)
(* the lock, the steps of an execution, a cancellation between the request *)
(* and its delivery, the phases of a conversation reset, the               *)
(* self-modification handler that a report starts, shutdown, and a crash.  *)
(*                                                                         *)
(* The user's controls reach the handlers through _owned, which shields    *)
(* them from a disconnecting client: a handler runs to its end.  Retries   *)
(* of a request that took effect return the saved task and change nothing. *)
(* Of the notices only the table of pending events is kept (TaskNotices    *)
(* delivers them); the "quiet" preference changes nothing else.            *)
(***************************************************************************)
EXTENDS TaskStore

CONSTANTS
  MaxQueued,    \* MAX_QUEUED
  MaxCommands,  \* maxsize of the queue that carries instructions to the worker
  SelfMod,      \* whether deployments and on_gap are configured
  ReportKinds,  \* bound of the model: kinds of report the worker makes
  Controls,     \* bound of the model: destructive controls the user exercises
  MaxStops      \* bound of the model: how often the process crashes or closes

ASSUME CoordinatorAssumption ==
  /\ MaxQueued \in Nat \ {0}
  /\ MaxCommands \in Nat \ {0}
  /\ SelfMod \in BOOLEAN
  /\ ReportKinds \subseteq
       {"accepted", "progress", "finding", "question", "blocked"}
  /\ Controls \subseteq {"delete", "reset", "reset_conversation"}
  /\ MaxStops \in Nat

VARIABLES
  \* durable: tasks.sqlite
  task,       \* [Ids -> TaskRecord]
  created,    \* how many ids were handed out
  \* the process
  proc,       \* "down", "starting" (inside start) or "up"
  closing,    \* _closing
  stops,      \* crashes and shutdowns so far
  \* memory of the coordinator
  pending,    \* _pending, a deque of tasks
  held,       \* _held, continuations waiting for their controller
  wake,       \* _wake, an asyncio.Event
  worker,     \* where _run is: "wait", "pop" (at the lock), "run", "stopped"
  active,     \* _active
  exec,       \* _execution
  commands,   \* _commands, the revisions put and not yet taken
  revisions,  \* runner.py: the revisions the native worker was told of
  resetting,  \* phase of reset_conversation in each conversation
  awaited,    \* the task whose execution that reset waits for
  gap,        \* stage of the capability build asked for by each task
  linked,     \* the continuation the running build submitted last
  notes       \* _notifications: the event to announce for each task

durable == <<task, created>>
process == <<proc, closing, stops>>
queue == <<pending, held, wake>>
execution == <<active, exec, commands, revisions>>
reset == <<resetting, awaited>>
build == <<gap, linked>>
vars == <<durable, process, queue, worker, execution, reset, build, notes>>

ExecStates ==
  {"none",        \* no execution
   "created",     \* create_task, its first locked section not yet entered
   "running",     \* the native worker is at work
   "dropped",     \* cancelled while "created"
   "cancelling",  \* cancelled while "running"
   "done"}        \* finished, _run has not yet cleared it
LiveExec == {"created", "running", "dropped", "cancelling"}

GapStages ==
  {"none",
   "reported",    \* on_gap is scheduled
   "proposed",    \* handle_gap asked the user, its interrupt waits for the lock
   "withdrawn",   \* the user cancelled the task before that interrupt
   "building",    \* the task is interrupted, the build is decided or running
   "linked",      \* a continuation is submitted and held
   "resumed"}     \* the continuation was released to the queue
BuildStages == GapStages \ {"none", "reported"}

NoNote == [kind |-> "none", rev |-> 0]
Notes == [kind : {"progress", "finding", "question", "blocked", "result"},
          rev : Nat]

Queued(t) == \E i \in 1..Len(pending) : pending[i] = t

\* _has_owner
HasOwner(t) ==
  \/ Queued(t)
  \/ t \in held
  \/ active = t /\ exec \in LiveExec

\* Mutant: a cancellation that is not yet settled does not count.
Stopped_Settled(rec) == rec.state \in {"canceled", "interrupted"}

\* States in which the rest of an execution leaves the task alone.
Stopped(rec) == rec.state \in {"cancel-requested", "canceled", "interrupted"}

\* Mutants: the head is taken instead, nothing is taken.
Without_Head(q, t) == IF q = <<>> THEN q ELSE Tail(q)
Without_Nothing(q, t) == q

\* deque.remove: there is at most one entry of a task.
Without(q, t) ==
  IF \E i \in 1..Len(q) : q[i] = t
  THEN LET i == CHOOSE j \in 1..Len(q) : q[j] = t
       IN SubSeq(q, 1, i - 1) \o SubSeq(q, i + 1, Len(q))
  ELSE q

\* Mutant: an execution that has started is not reached.
Cancelled_Unstarted(e) == IF e = "created" THEN "dropped" ELSE e

\* asyncio.Task.cancel: delivered at the next await, no effect once done.
Cancelled(e) ==
  CASE e = "created" -> "dropped"
    [] e = "running" -> "cancelling"
    [] OTHER -> e

\* max(revisions): the instruction the worker is at
Latest == CHOOSE v \in revisions : \A w \in revisions : w <= v

\* _queue_update: routine progress never replaces an undelivered report.
QueueUpdate(table, t, kind, v) ==
  IF kind = "progress" /\ table[t].kind \notin {"none", "progress"}
                       /\ table[t].rev >= v
  THEN table
  ELSE [table EXCEPT ![t] = [kind |-> kind, rev |-> v]]

-----------------------------------------------------------------------------
(***************************************************************************)
(* Starting, closing and losing the process.                               *)
(***************************************************************************)

\* __init__: the memory of a process that has not started its worker
InitMemory ==
  /\ closing = FALSE
  /\ pending = <<>> /\ held = {} /\ wake = FALSE
  /\ worker = "stopped"
  /\ active = NoTask /\ exec = "none" /\ commands = <<>> /\ revisions = {}
  /\ resetting = [s \in Sessions |-> "no"]
  /\ awaited = [s \in Sessions |-> NoTask]
  /\ gap = [t \in Ids |-> "none"] /\ linked = NoTask
  /\ notes = [t \in Ids |-> NoNote]

\* The process is gone, and with it everything that is not in the store.
LoseMemory ==
  /\ proc' = "down"
  /\ closing' = FALSE
  /\ pending' = <<>> /\ held' = {} /\ wake' = FALSE
  /\ worker' = "stopped"
  /\ active' = NoTask /\ exec' = "none" /\ commands' = <<>> /\ revisions' = {}
  /\ resetting' = [s \in Sessions |-> "no"]
  /\ awaited' = [s \in Sessions |-> NoTask]
  /\ gap' = [t \in Ids |-> "none"] /\ linked' = NoTask
  /\ notes' = [t \in Ids |-> NoNote]

Init ==
  /\ task = [t \in Ids |-> Absent]
  /\ created = 0
  /\ proc = "down"
  /\ stops = 0
  /\ InitMemory

\* Mutant: the newest task first.
InCreationOrder_Reversed(q) == \A i, j \in 1..Len(q) : i < j => q[i] > q[j]

InCreationOrder(q) == \A i, j \in 1..Len(q) : i < j => q[i] < q[j]

\* start, first half: recover every conversation, then queue what was queued,
\* in the order of creation.
Boot ==
  /\ proc = "down"
  /\ proc' = "starting"
  /\ task' = Recovered(task)
  /\ LET Q == {t \in Ids : task[t].state = "queued"} IN
       \E q \in [1..Cardinality(Q) -> Q] :
         /\ \A t \in Q : \E i \in 1..Cardinality(Q) : q[i] = t
         /\ InCreationOrder(q)
         /\ pending' = q
  /\ UNCHANGED <<created, closing, stops, held, wake, worker, execution,
                 reset, build, notes>>

\* Mutant: the link to a follow-up that exists is not looked at.
NeedsFollowup_Again(rec) == rec.state \in {"completed", "blocked"} /\ Behind(rec)

\* The test start makes on every saved task.
NeedsFollowup(rec) ==
  /\ rec.state \in {"completed", "blocked"}
  /\ Behind(rec)
  /\ rec.followup = NoTask

(***************************************************************************)
(* _followup_locked: the instructions no worker accepted become a child    *)
(* task whose request id is the last instruction's, so that repeating it   *)
(* after a crash finds the same child.                                     *)
(***************************************************************************)
LastSteer(rec) == rec.steers[Len(rec.steers)]
SavedChild(store, t) ==
  FindRequest(store, store[t].session, LastSteer(store[t]))
Child(store, t) ==
  IF SavedChild(store, t) = {} THEN created + 1
  ELSE CHOOSE u \in SavedChild(store, t) : TRUE
WithChild(store, t) ==
  IF SavedChild(store, t) = {}
  THEN Started(store, created + 1, store[t].session, LastSteer(store[t]), t)
  ELSE store

\* TaskStorageFull: the child would be one record too many.
FollowupFails(store, t) ==
  /\ SavedChild(store, t) = {}
  /\ StoreFull(store, store[t].session)

\* MaxTasks is the model's bound, not the code's.
FollowupFits(store, t) ==
  /\ ~FollowupFails(store, t)
  /\ SavedChild(store, t) = {} => created < MaxTasks

FollowupLocked(store, t) ==
  LET c == Child(store, t)
      started == WithChild(store, t)
      admit == started[c].state = "queued" /\ ~Queued(c)
      room == Len(pending) < MaxQueued
  IN /\ task' = WithFollowup(
                  IF admit /\ ~room THEN WithState(started, c, "blocked")
                  ELSE started,
                  t, c)
     /\ created' = IF SavedChild(store, t) = {} THEN created + 1 ELSE created
     /\ pending' = IF admit /\ room THEN Append(pending, c) ELSE pending
     /\ wake' = (wake \/ (admit /\ room))

\* start, second half: one forgotten follow-up after another ...
StartFollowup(t) ==
  /\ proc = "starting"
  /\ NeedsFollowup(task[t])
  /\ FollowupFits(task, t)
  /\ FollowupLocked(task, t)
  /\ UNCHANGED <<process, held, worker, execution, reset, build, notes>>

\* ... an exception leaves start, and with it the application's startup ...
StartFails(t) ==
  /\ proc = "starting"
  /\ NeedsFollowup(task[t])
  /\ FollowupFails(task, t)
  /\ LoseMemory
  /\ UNCHANGED <<durable, stops>>

\* ... and then the worker runs and requests are served.
StartDone ==
  /\ proc = "starting"
  /\ \A t \in Ids : ~NeedsFollowup(task[t])
  /\ proc' = "up"
  /\ worker' = "wait"
  /\ wake' = TRUE
  /\ UNCHANGED <<durable, closing, stops, pending, held, execution, reset,
                 build, notes>>

\* The process dies.
Crash ==
  /\ proc \in {"starting", "up"}
  /\ stops < MaxStops
  /\ stops' = stops + 1
  /\ LoseMemory
  /\ UNCHANGED durable

\* close, up to its wait: the flag is set under the lock, the execution is
\* cancelled right after it, before any waiter for the lock runs.
Close ==
  /\ proc = "up" /\ ~closing
  /\ stops < MaxStops
  /\ stops' = stops + 1
  /\ closing' = TRUE
  /\ exec' = Cancelled(exec)
  /\ wake' = TRUE
  /\ UNCHANGED <<durable, proc, pending, held, worker, active, commands,
                 revisions, reset, build, notes>>

\* close, after SHUTDOWN_SECONDS: the sandbox is stopped by force and _run is
\* cancelled, which cancels the execution it awaits.
CloseForce ==
  /\ closing
  /\ worker = "run" /\ exec \in {"created", "running"}
  /\ exec' = Cancelled(exec)
  /\ UNCHANGED <<durable, process, queue, worker, active, commands, revisions,
                 reset, build, notes>>

\* close returns and the process exits.
Exit ==
  /\ closing
  /\ worker = "stopped"
  /\ LoseMemory
  /\ UNCHANGED <<durable, stops>>

-----------------------------------------------------------------------------
(***************************************************************************)
(* The user's requests.                                                    *)
(***************************************************************************)

\* _available, and the refusal during a reset of the conversation
Available(s) == proc = "up" /\ ~closing /\ resetting[s] = "no"

\* Bound of the model: an id is kept for the follow-up of every instruction, so
\* that running out of ids stops the users and never the program.
Promised(store) ==
  Cardinality({t \in Ids : store[t].steers # <<>> /\ store[t].followup = NoTask})

\* _submit_locked up to TaskStore.start.  A request id names one operation of
\* one client: an id used to steer is not used again to submit.
Admit(s, r, p) ==
  /\ Available(s)
  /\ FindRequest(task, s, r) = {}
  /\ ~Steered(task, s, r)
  /\ Len(pending) < MaxQueued
  /\ ~StoreFull(task, s)
  /\ created + Promised(task) < MaxTasks
  /\ created' = created + 1

\* submit, from a turn of the main chat
Submit(s, r) ==
  /\ Admit(s, r, NoTask)
  /\ task' = Started(task, created', s, r, NoTask)
  /\ pending' = Append(pending, created')
  /\ wake' = TRUE
  /\ UNCHANGED <<process, held, worker, execution, reset, build, notes>>

\* Mutant: the revision is read before the instruction raises it.
Delivered_Before(t) ==
  IF active = t THEN Append(commands, Revision(task[t])) ELSE commands

\* _commands.put_nowait: an instruction for the active task goes to its worker
Delivered(t) ==
  IF active = t THEN Append(commands, Revision(task'[t])) ELSE commands

\* _command "steer" or "continue", when a worker owns the task
Steer(t, r) ==
  LET s == task[t].session IN
  /\ task[t].state \in ActiveStates
  /\ Available(s)
  /\ FindRequest(task, s, r) = {}
  /\ ~Steered(task, s, r)
  /\ HasOwner(t)
  /\ active = t => Len(commands) < MaxCommands
  /\ task' = WithSteer(task, t, r)
  /\ created + Promised(task') <= MaxTasks
  /\ commands' = Delivered(t)
  /\ UNCHANGED <<created, process, queue, worker, active, exec, revisions,
                 reset, build, notes>>

\* _command "steer" or "continue" otherwise: a follow-up task is submitted
Continue(t, r) ==
  LET s == task[t].session IN
  /\ task[t].state # "none"
  /\ ~(HasOwner(t) /\ task[t].state \in ActiveStates)
  /\ Admit(s, r, t)
  /\ task' = Started(task, created', s, r, t)
  /\ pending' = Append(pending, created')
  /\ wake' = TRUE
  /\ UNCHANGED <<process, held, worker, execution, reset, build, notes>>

\* on_cancel (SelfModificationService.cancel_requested): cancelling the task
\* answers its build question, cancelling it or the resumed request stops the
\* build.  A handler that did not yet run is not reached.
GapAfterCancel(t) ==
  [u \in Ids |->
     CASE u = t /\ gap[u] = "proposed" -> "withdrawn"
       [] u = t /\ gap[u] \in {"building", "linked", "resumed"} -> "none"
       [] t = linked /\ gap[u] = "resumed" -> "none"
       [] OTHER -> gap[u]]

\* _command "cancel"
Cancel(t) ==
  /\ task[t].state # "none"
  /\ Available(task[t].session)
  /\ gap' = GapAfterCancel(t)
  /\ IF task[t].state \in ActiveStates
     THEN /\ pending' = Without(pending, t)
          /\ task' = WithState(task, t, IF active = t THEN "cancel-requested"
                                        ELSE "canceled")
          /\ notes' = [notes EXCEPT ![t] = NoNote]
          /\ exec' = IF active = t THEN Cancelled(exec) ELSE exec
     ELSE UNCHANGED <<pending, task, notes, exec>>
  /\ UNCHANGED <<created, process, held, wake, worker, active, commands,
                 revisions, reset, linked>>

\* delete
Delete(t) ==
  /\ "delete" \in Controls
  /\ proc = "up"
  /\ ~HasOwner(t)
  /\ Deletable(task, t)
  /\ task' = Deleted(task, t)
  /\ notes' = [notes EXCEPT ![t] = NoNote]
  /\ UNCHANGED <<created, process, queue, worker, execution, reset, build>>

NotesWithout(s) == [u \in Ids |-> IF task[u].session = s THEN NoNote ELSE notes[u]]

\* reset: delete the saved work of a conversation, keep the conversation
Reset(s) ==
  /\ "reset" \in Controls
  /\ proc = "up"
  /\ \A t \in SessionTasks(task, s) : ~HasOwner(t)
  /\ Resettable(task, s)
  /\ task' = ResetStore(task, s)
  /\ notes' = NotesWithout(s)
  /\ UNCHANGED <<created, process, queue, worker, execution, reset, build>>

(***************************************************************************)
(* reset_conversation releases the lock three times: after it marks the    *)
(* conversation, after it stops its work, and while it waits for the       *)
(* execution and settles it.                                               *)
(***************************************************************************)
ResetMark(s) ==
  /\ "reset_conversation" \in Controls
  /\ proc = "up"
  /\ resetting[s] = "no"
  /\ resetting' = [resetting EXCEPT ![s] = "marked"]
  /\ UNCHANGED <<durable, process, queue, worker, execution, awaited, build,
                 notes>>

\* Mutant: the queue keeps the conversation's tasks.
OnlyOthersPending_Keeps(s) == pending' = pending

\* self._pending = deque(key for key in self._pending if key[0] != session_id)
OnlyOthersPending(s) ==
  \E n \in 0..Len(pending) : \E f \in [1..n -> 1..Len(pending)] :
    /\ \A i, j \in 1..n : i < j => f[i] < f[j]
    /\ \A k \in 1..Len(pending) :
         (\E i \in 1..n : f[i] = k) <=> task[pending[k]].session # s
    /\ pending' = [i \in 1..n |-> pending[f[i]]]

ResetStop(s) ==
  LET mine == active # NoTask /\ task[active].session = s IN
  /\ resetting[s] = "marked"
  /\ resetting' = [resetting EXCEPT ![s] = "stopped"]
  /\ awaited' = [awaited EXCEPT ![s] = IF mine THEN active ELSE NoTask]
  /\ OnlyOthersPending(s)
  /\ task' = [u \in Ids |->
                IF task[u].session = s /\ task[u].state \in ActiveStates
                THEN [task[u] EXCEPT
                        !.state = IF mine /\ u = active THEN "cancel-requested"
                                  ELSE "canceled"]
                ELSE task[u]]
  /\ notes' = NotesWithout(s)
  /\ exec' = IF mine THEN Cancelled(exec) ELSE exec
  /\ UNCHANGED <<created, process, held, wake, worker, active, commands,
                 revisions, build>>

\* Mutant: only a shutdown settles.
ToSettle_Closing(rec) ==
  closing /\ rec.state \in {"running", "blocked", "cancel-requested"}

\* _settle_cancellation: what a cancelled execution leaves in the store
ToSettle(rec) ==
  \/ rec.state = "cancel-requested"
  \/ closing /\ rec.state \in {"running", "blocked"}
Settle(t) ==
  IF ToSettle(task[t])
  THEN /\ task' = WithState(task, t, IF closing THEN "interrupted" ELSE "canceled")
       /\ notes' = [notes EXCEPT ![t] = NoNote]
  ELSE UNCHANGED <<task, notes>>

\* asyncio.gather(execution) is over: settle once more
ResetSettle(s) ==
  LET t == awaited[s] IN
  /\ resetting[s] = "stopped" /\ t # NoTask
  /\ ~(active = t /\ exec \in LiveExec)
  /\ Settle(t)
  /\ awaited' = [awaited EXCEPT ![s] = NoTask]
  /\ UNCHANGED <<created, process, queue, worker, execution, resetting, build>>

\* the store is emptied; a refusal of the store ends the reset as well
ResetFinish(s) ==
  /\ resetting[s] = "stopped" /\ awaited[s] = NoTask
  /\ task' = IF Resettable(task, s) THEN ResetStore(task, s) ELSE task
  /\ resetting' = [resetting EXCEPT ![s] = "no"]
  /\ UNCHANGED <<created, process, queue, worker, execution, awaited, build,
                 notes>>

-----------------------------------------------------------------------------
(***************************************************************************)
(* The calls of the self-modification service.  Its decisions are left to  *)
(* the environment: at most one build is proposed or running, and its loop *)
(* submits a continuation of the interrupted task and then releases it.    *)
(***************************************************************************)

\* handle_gap takes the proposal, or declines it because one is under way.
GapPropose(t) ==
  /\ gap[t] = "reported"
  /\ gap' = [gap EXCEPT ![t] = IF \E u \in Ids : gap[u] \in BuildStages
                               THEN "none" ELSE "proposed"]
  /\ UNCHANGED <<durable, process, queue, worker, execution, reset, linked,
                 notes>>

\* interrupt_for_selfmod: whatever the task's state is by now, it is "blocked"
GapInterrupt(t) ==
  /\ gap[t] \in {"proposed", "withdrawn"}
  /\ gap' = [gap EXCEPT ![t] = IF @ = "proposed" THEN "building" ELSE "none"]
  /\ IF task[t].state = "none"
     THEN UNCHANGED <<pending, task, notes, exec>>
     ELSE /\ pending' = Without(pending, t)
          /\ task' = WithState(task, t, "blocked")
          /\ notes' = [notes EXCEPT ![t] = NoNote]
          /\ exec' = IF active = t THEN Cancelled(exec) ELSE exec
  /\ UNCHANGED <<created, process, held, wake, worker, active, commands,
                 revisions, reset, linked>>

\* submit(continuation=True), once B is staged: linked to B, not yet queued
SubmitContinuation(p, r) ==
  /\ SelfMod
  /\ gap[p] = "building"
  /\ task[p].state # "none"
  /\ Admit(task[p].session, r, p)
  /\ task' = Started(task, created', task[p].session, r, p)
  /\ held' = held \cup {created'}
  /\ gap' = [gap EXCEPT ![p] = "linked"]
  /\ linked' = created'
  /\ UNCHANGED <<process, pending, wake, worker, execution, reset, notes>>

\* Mutant: the released continuation is still held.
ReleaseHeld_Keeps(p) ==
  /\ gap[p] = "linked"
  /\ proc = "up" /\ ~closing
  /\ linked \in held
  /\ pending' = Append(pending, linked)
  /\ wake' = TRUE
  /\ gap' = [gap EXCEPT ![p] = "resumed"]
  /\ UNCHANGED <<durable, process, held, worker, execution, reset, linked, notes>>

\* release_held
ReleaseHeld(p) ==
  LET c == linked IN
  /\ gap[p] = "linked"
  /\ proc = "up" /\ ~closing
  /\ c \in held
  /\ held' = held \ {c}
  /\ pending' = Append(pending, c)
  /\ wake' = TRUE
  /\ gap' = [gap EXCEPT ![p] = "resumed"]
  /\ UNCHANGED <<durable, process, worker, execution, reset, linked, notes>>

\* The loop ends: the build is declined, stopped, failed or served.
BuildEnds(p) ==
  /\ gap[p] \in {"building", "linked", "resumed"}
  /\ gap' = [gap EXCEPT ![p] = "none"]
  /\ UNCHANGED <<durable, process, queue, worker, execution, reset, linked,
                 notes>>

-----------------------------------------------------------------------------
(***************************************************************************)
(* _run, the worker.                                                       *)
(***************************************************************************)

\* Mutants: the queue is not looked at again, the shutdown is not looked at.
NextStop_Sleeps(q) == IF closing THEN "stopped" ELSE "wait"
NextStop_Serves(q) == IF q # <<>> THEN "pop" ELSE "wait"

\* Where _run goes when nothing suspends it: to the lock for a queued task,
\* out of its loop, or back to sleep.
NextStop(q) ==
  IF q # <<>> /\ ~closing THEN "pop" ELSE IF closing THEN "stopped" ELSE "wait"

RunWake ==
  /\ worker = "wait"
  /\ wake
  /\ wake' = FALSE
  /\ worker' = NextStop(pending)
  /\ UNCHANGED <<durable, process, pending, held, execution, reset, build, notes>>

\* The lock is taken.  The queue may have been emptied and the shutdown begun
\* while _run waited for it: neither is looked at again.
RunPop ==
  /\ worker = "pop"
  /\ IF pending = <<>>
     THEN /\ worker' = NextStop(pending)
          /\ UNCHANGED <<pending, execution>>
     ELSE LET t == Head(pending) IN
          /\ pending' = Tail(pending)
          /\ IF task[t].state = "queued"
             THEN /\ active' = t
                  /\ exec' = "created"
                  /\ commands' = <<>>
                  /\ revisions' = {}
                  /\ worker' = "run"
             ELSE /\ worker' = NextStop(Tail(pending))
                  /\ UNCHANGED execution
  /\ UNCHANGED <<durable, process, held, wake, reset, build, notes>>

\* The execution is over: settle it again and forget it.
RunSettle ==
  /\ worker = "run"
  /\ exec = "done"
  /\ Settle(active)
  /\ active' = NoTask /\ exec' = "none" /\ commands' = <<>> /\ revisions' = {}
  /\ worker' = NextStop(pending)
  /\ UNCHANGED <<created, process, queue, reset, build>>

-----------------------------------------------------------------------------
(***************************************************************************)
(* _execute, one run of the active task, with what the native worker of    *)
(* runner.py does to it: it takes instructions, reports, and ends.         *)
(***************************************************************************)

\* The first locked section.  From here on later instructions go through the
\* commands; those saved before are part of the brief.
ExecBegin ==
  /\ exec = "created"
  /\ IF task[active].state = "queued"
     THEN /\ task' = WithState(task, active, "running")
          /\ revisions' = {Revision(task[active])}
          /\ exec' = "running"
     ELSE exec' = "done" /\ UNCHANGED <<task, revisions>>
  /\ UNCHANGED <<created, process, queue, worker, active, commands, reset,
                 build, notes>>

\* runner.py drains the commands; one it was told of at the start is skipped
TakeCommand ==
  /\ exec = "running"
  /\ commands # <<>>
  /\ commands' = Tail(commands)
  /\ revisions' = IF Head(commands) <= Latest THEN revisions
                  ELSE revisions \cup {Head(commands)}
  /\ UNCHANGED <<durable, process, queue, worker, active, exec, reset, build,
                 notes>>

\* report: the worker may accept any revision it was told of, everything else
\* it says is about the latest of them.  A report that is stale, or that comes
\* after a cancellation, is filed and changes nothing.
Report(kind, v) ==
  LET rec == task[active]
      \* The question belongs to an instruction that is still the last one.
      current == kind \in {"question", "blocked"} => v = Revision(rec)
      x == IF kind = "accepted" /\ rec.state = "blocked" THEN "running"
           ELSE IF kind \in {"question", "blocked"} THEN "blocked"
           ELSE rec.state
  IN
  /\ exec = "running"
  /\ v \in revisions
  /\ kind # "accepted" => v = Latest
  /\ ~Stopped(rec)
  /\ rec.accepted <= v /\ v <= Revision(rec)
  /\ current
  /\ task' = WithState(IF kind = "accepted" THEN WithAccepted(task, active, v)
                       ELSE task, active, x)
  /\ notes' = IF kind # "accepted" THEN QueueUpdate(notes, active, kind, v)
              ELSE IF v > 1 THEN QueueUpdate(notes, active, "progress", v)
              ELSE notes
  /\ UNCHANGED <<created, process, queue, worker, execution, reset, linked>>

\* a "blocked" report that names a missing capability schedules on_gap
ReportGap(v) ==
  /\ SelfMod
  /\ Report("blocked", v)
  /\ gap' = [gap EXCEPT ![active] = IF @ = "none" THEN "reported" ELSE @]

ReportOnly(kind, v) ==
  /\ Report(kind, v)
  /\ UNCHANGED gap

\* The native worker ended with a result (ok) or without one.  The result is
\* "ok" only when the latest instruction was acknowledged.
Ended(ok) ==
  /\ exec = "running"
  /\ ok => task[active].accepted = Latest
Finished(ok) ==
  WithResult(task, active, IF ok THEN "completed" ELSE "blocked")
FinishNote(ok) ==
  QueueUpdate(notes, active, IF ok THEN "result" ELSE "blocked",
              Covered(task[active]))

\* the last locked section of _execute
ExecFinish(ok) ==
  /\ Ended(ok)
  /\ exec' = "done"
  /\ IF Stopped(task[active])
     THEN UNCHANGED <<task, notes>>
     ELSE /\ ~Behind(task[active])
          /\ task' = Finished(ok)
          /\ notes' = FinishNote(ok)
  /\ UNCHANGED <<created, process, queue, worker, active, commands, revisions,
                 reset, build>>

\* ... when an instruction came after the worker's last look at the commands
ExecFinishLate(ok) ==
  /\ Ended(ok)
  /\ ~Stopped(task[active]) /\ Behind(task[active])
  /\ FollowupFits(Finished(ok), active)
  /\ FollowupLocked(Finished(ok), active)
  /\ exec' = "done"
  /\ notes' = FinishNote(ok)
  /\ UNCHANGED <<process, held, worker, active, commands, revisions, reset,
                 build>>

\* ... and the process dies after the result, or after the child, was saved
CrashInFinish(ok) ==
  /\ Ended(ok)
  /\ ~Stopped(task[active]) /\ Behind(task[active])
  /\ FollowupFits(Finished(ok), active)
  /\ stops < MaxStops
  /\ stops' = stops + 1
  /\ \/ task' = Finished(ok) /\ UNCHANGED created
     \/ /\ task' = WithChild(Finished(ok), active)
        /\ created' = IF SavedChild(Finished(ok), active) = {} THEN created + 1
                    ELSE created
  /\ LoseMemory

\* the error path of _execute
Failed(store) == WithState(store, active, "blocked")
FailNote == QueueUpdate(notes, active, "blocked", Covered(task[active]))

\* ... taken by the follow-up when the conversation can hold no more tasks:
\* the result was saved, its state is overwritten
ExecFinishFull(ok) ==
  /\ Ended(ok)
  /\ ~Stopped(task[active]) /\ Behind(task[active])
  /\ FollowupFails(Finished(ok), active)
  /\ exec' = "done"
  /\ task' = Failed(Finished(ok))
  /\ notes' = FailNote
  /\ UNCHANGED <<created, process, queue, worker, active, commands, revisions,
                 reset, build>>

\* ... taken when the ancestry cannot be read, the sandbox cannot be used or
\* its cleanup fails, be it on the way out of a cancellation
ExecFail ==
  /\ exec \in {"running", "cancelling"}
  /\ exec' = "done"
  /\ IF Stopped(task[active])
     THEN UNCHANGED <<task, notes>>
     ELSE task' = Failed(task) /\ notes' = FailNote
  /\ UNCHANGED <<created, process, queue, worker, active, commands, revisions,
                 reset, build>>

\* CancelledError ends the execution.  It settles the task itself unless it
\* was cancelled before its try block or again while it settled.
ExecCancelled(settles) ==
  /\ exec \in {"dropped", "cancelling"}
  /\ exec' = "done"
  /\ IF settles THEN Settle(active) ELSE UNCHANGED <<task, notes>>
  /\ UNCHANGED <<created, process, queue, worker, active, commands, revisions,
                 reset, build>>

-----------------------------------------------------------------------------
UserNext ==
  \/ \E s \in Sessions, r \in Requests : Submit(s, r)
  \/ \E t \in Ids, r \in Requests : Steer(t, r) \/ Continue(t, r)
  \/ \E t \in Ids : Cancel(t) \/ Delete(t)
  \/ \E s \in Sessions : Reset(s) \/ ResetMark(s)

ResetNext == \E s \in Sessions : ResetStop(s) \/ ResetSettle(s) \/ ResetFinish(s)

SelfModNext ==
  \/ \E t \in Ids : GapPropose(t) \/ GapInterrupt(t) \/ ReleaseHeld(t) \/ BuildEnds(t)
  \/ \E t \in Ids, r \in Requests : SubmitContinuation(t, r)

WorkerNext == RunWake \/ RunPop \/ RunSettle

ExecNext ==
  \/ ExecBegin \/ TakeCommand \/ ExecFail
  \/ \E v \in revisions :
       ReportGap(v) \/ \E kind \in ReportKinds : ReportOnly(kind, v)
  \/ \E ok \in BOOLEAN : ExecFinish(ok) \/ ExecFinishLate(ok) \/ ExecFinishFull(ok)
  \/ \E settles \in BOOLEAN : ExecCancelled(settles)

StartNext ==
  \/ Boot \/ StartDone
  \/ \E t \in Ids : StartFollowup(t) \/ StartFails(t)

StopNext ==
  \/ Crash \/ Close \/ CloseForce \/ Exit
  \/ \E ok \in BOOLEAN : CrashInFinish(ok)

Next ==
  \/ UserNext \/ ResetNext \/ SelfModNext \/ WorkerNext \/ ExecNext
  \/ StartNext \/ StopNext

Spec == Init /\ [][Next]_vars

(***************************************************************************)
(* Fairness: the event loop runs what is ready, the process supervisor     *)
(* starts the process again, a cancelled execution unwinds (its cleanup is *)
(* bounded by the sandbox's own limits) and close forces what does not.    *)
(* Nothing is assumed of the user, nor of a native worker that is not      *)
(* cancelled: it may work, or wait for an answer, for ever.                *)
(***************************************************************************)
Fairness ==
  /\ WF_vars(Boot) /\ WF_vars(StartDone)
  /\ WF_vars(\E t \in Ids : StartFollowup(t) \/ StartFails(t))
  /\ WF_vars(RunWake) /\ WF_vars(RunPop) /\ WF_vars(RunSettle)
  /\ WF_vars(ExecBegin)
  /\ WF_vars(\E settles \in BOOLEAN : ExecCancelled(settles))
  /\ WF_vars(CloseForce) /\ WF_vars(Exit)
  /\ WF_vars(ResetNext)

FairSpec == Spec /\ Fairness

-----------------------------------------------------------------------------
(***************************************************************************)
(* Properties.                                                             *)
(***************************************************************************)

TypeOK ==
  /\ task \in [Ids -> TaskRecord]
  /\ created \in 0..MaxTasks
  /\ proc \in {"down", "starting", "up"}
  /\ closing \in BOOLEAN
  /\ stops \in 0..MaxStops
  /\ pending \in Seq(Ids)
  /\ held \subseteq Ids
  /\ wake \in BOOLEAN
  /\ worker \in {"wait", "pop", "run", "stopped"}
  /\ active \in Ids \cup {NoTask}
  /\ exec \in ExecStates
  /\ commands \in Seq(Nat)
  /\ revisions \subseteq Nat
  /\ resetting \in [Sessions -> {"no", "marked", "stopped"}]
  /\ awaited \in [Sessions -> Ids \cup {NoTask}]
  /\ gap \in [Ids -> GapStages]
  /\ linked \in Ids \cup {NoTask}
  /\ notes \in [Ids -> Notes \cup {NoNote}]

\* A task the store calls running, or being cancelled, is the one the worker
\* has: nothing is left in such a state with nobody to end it.
OwnedWork ==
  proc = "up" =>
    \A t \in Ids : task[t].state \in {"running", "cancel-requested"} =>
      active = t /\ worker = "run"

\* A queued task is in the queue, or held for a controller, or about to run:
\* accepted work is never forgotten while the process serves.  (A shutdown may
\* drop the task that was about to run: it stays queued for the next start.)
QueuedHasPlace ==
  proc # "down" /\ ~closing =>
    \A t \in Ids : task[t].state = "queued" =>
      Queued(t) \/ t \in held \/ (active = t /\ exec = "created")

\* The worker does not sleep on a queue that has work (_wake is never lost).
NoLostWakeup == worker = "wait" /\ pending # <<>> => wake

\* "The queue is FIFO": it is always in the order of creation, with no task
\* twice, whatever was cancelled, followed up or recovered.
QueueFIFO == \A i, j \in 1..Len(pending) : i < j => pending[i] < pending[j]

\* A result never claims an instruction its worker did not accept, and the
\* instructions it does not cover are carried by a linked follow-up.
ResultIsHonest ==
  \A t \in Ids : task[t].state = "completed" /\ proc = "up" =>
    /\ task[t].result = Covered(task[t])
    /\ Behind(task[t]) => task[t].followup # NoTask

\* Every instruction saved on the running task reached the native worker or
\* still waits in the queue it drains, also one that raced the task's start.
NoInstructionMissed ==
  exec = "running" =>
    \A v \in 1..Revision(task[active]) :
      \/ v \in revisions
      \/ \E w \in revisions : v < w
      \/ \E i \in 1..Len(commands) : commands[i] = v

\* A request takes effect once: it created a task of its own or is saved as
\* an instruction, and its follow-up after a crash or a retry is not a second.
RequestOnce ==
  \A s \in Sessions, r \in Requests :
    /\ \A t, u \in FindRequest(task, s, r) : t = u
    /\ \A t, u \in SessionTasks(task, s) :
         \A i \in 1..Len(task[t].steers), j \in 1..Len(task[u].steers) :
           task[t].steers[i] = r /\ task[u].steers[j] = r => t = u /\ i = j

\* Nothing that is deleted is still queued or executed.
NoGhost ==
  \A t \in Ids : task[t].state = "none" => ~HasOwner(t)

\* "Cancel active and queued work and wait for it to stop first": then the
\* deletion is not refused any more.
CanceledIsFree ==
  \A t \in Ids : task[t].state = "canceled" => ~HasOwner(t)

\* A continuation runs only after its controller released it.
HeldWaits == active \notin held

\* Nobody waits for an instruction that no follow-up carries: work that is
\* over, completed or blocked, has handed its late instructions on.
LaterInstructionIsLinked ==
  proc = "up" =>
    \A t \in Ids : task[t].state \in {"completed", "blocked"} /\ ~HasOwner(t) =>
      ~NeedsFollowup(task[t])

\* A cancelled task stays cancelled, and one whose cancellation was accepted
\* ends cancelled or interrupted: no report, result or error revives it.
CancelSticks ==
  [][\A t \in Ids :
       /\ task[t].state = "canceled" => task'[t].state \in {"canceled", "none"}
       /\ task[t].state = "cancel-requested" =>
            task'[t].state \in {"cancel-requested", "canceled", "interrupted", "none"}
    ]_vars

\* A task is executed at most once: what left the queue never returns to it.
NeverRequeued ==
  [][\A t \in Ids :
       task[t].state \notin {"none", "queued"} => task'[t].state # "queued"]_vars

\* "Shutdown stops admission": no task begins to run once it started.
ShutdownStopsAdmission ==
  [][\A t \in Ids : closing /\ task[t].state = "queued" =>
       task'[t].state # "running"]_vars

\* The reset of a conversation is not refused at its end: its work is stopped
\* and settled by then, also work that was about to finish by itself.
ResetEmpties ==
  [][\A s \in Sessions :
       resetting[s] = "stopped" /\ resetting'[s] = "no" /\ proc' = "up" =>
         SessionTasks(task', s) = {}]_vars

\* A cancellation that was asked for is carried out, whatever the worker does.
CancelSettles ==
  \A t \in Ids :
    task[t].state = "cancel-requested" ~> task[t].state # "cancel-requested"

\* An idle worker takes up queued work.
QueueIsServed ==
  (worker \in {"wait", "pop"} /\ pending # <<>>) ~> (active # NoTask \/ pending = <<>>)

\* The reset of a conversation comes to its end.
ResetEnds == \A s \in Sessions : resetting[s] # "no" ~> resetting[s] = "no"

\* Shutdown comes to its end.
ShutdownEnds == closing ~> proc = "down"

\* After a crash or a shutdown the server serves again.
ServesAgain == proc = "down" ~> proc = "up"

=============================================================================
