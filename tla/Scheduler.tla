------------------------------ MODULE Scheduler ------------------------------
(***************************************************************************)
(* The timer of the process: Scheduler and ScheduleStore of                *)
(* src/recollect/scheduling.py, reached by workers through the relay of    *)
(* connections.py and delivering through notice_delivery of                *)
(* selfmod/service.py.                                                     *)
(*                                                                         *)
(* schedule and cancel never await; _run awaits a delivery and its sleep.  *)
(* So everything _run does between two of these awaits, all its saves      *)
(* included, is one action, and bookings, cancellations and the end of the *)
(* process come in between.                                                *)
(***************************************************************************)
EXTENDS Naturals, FiniteSets

CONSTANTS
  MaxJobs,      \* bound: jobs ever booked; a job id is its number
  MaxTime,      \* bound: the clock runs from 0 to MaxTime
  MaxSleep,     \* MAX_SLEEP_SECONDS
  MaxPending,   \* MAX_PENDING
  MaxFinished,  \* MAX_FINISHED
  MaxStops,     \* bound: crashes and shutdowns
  MaxErrors     \* bound: saves that fail (the disk is full)

ASSUME SchedulerAssumption ==
  /\ MaxJobs \in Nat \ {0} /\ MaxTime \in Nat /\ MaxSleep \in Nat \ {0}
  /\ MaxPending \in Nat \ {0} /\ MaxFinished \in Nat \ {0}
  /\ MaxStops \in Nat /\ MaxErrors \in Nat

VARIABLES
  clock,     \* the wall clock
  due,       \* due_at of each job
  created,   \* jobs booked so far
  mem,       \* _jobs
  disk,      \* schedules.json
  moment,    \* finishing moments so far, which order fired_at and canceled_at
  loop,      \* where _run is
  batch,     \* what deliver_due has still to deliver
  current,   \* the job being delivered, 0 if none
  wake,      \* _wake
  alarm,     \* when the sleep of _run ends
  stops, errors,
  told,      \* history: jobs whose booking was answered
  revoked,   \* history: jobs whose cancellation was answered
  posted,    \* history: how often the notice of each job was posted
  raised,    \* history: jobs whose delivery raised before the notice
  since      \* history: jobs booked before the running deliver_due began

schedule == <<mem, disk, moment>>
process == <<loop, batch, current, wake, alarm>>
history == <<told, revoked, posted, raised>>
vars == <<clock, due, created, schedule, process, stops, errors, history, since>>

Ids == 1..MaxJobs

Statuses == {"none", "pending", "fired", "failed", "canceled"}
Loops ==
  {"down",        \* the process does not run
   "ready",       \* the task of _run is created
   "posting",     \* awaits deliver, before the notice is in the store
   "sending",     \* awaits deliver, during the sends to the channels
   "asleep",      \* waits for _wake or the alarm
   "dead"}        \* the task ended with an exception; nobody looks at it

Jobs == [status : [Ids -> Statuses], stamp : [Ids -> Nat]]

Pending(m) == {j \in Ids : m.status[j] = "pending"}
Finished(m) == {j \in Ids : m.status[j] \in {"fired", "failed", "canceled"}}

\* _save forgets all but the newest finished jobs.
Kept(m) ==
  {j \in Finished(m) :
     Cardinality({k \in Finished(m) : m.stamp[k] > m.stamp[j]}) < MaxFinished}
Trimmed(m) ==
  [m EXCEPT !.status = [j \in Ids |->
     IF j \in Finished(m) \ Kept(m) THEN "none" ELSE m.status[j]]]

WithStatus(m, j, s) == [m EXCEPT !.status[j] = s]
Stamped(m, j, s) == [WithStatus(m, j, s) EXCEPT !.stamp[j] = moment + 1]

\* What deliver_due writes into a job is lost when the job was trimmed: its
\* dict is in the list of deliver_due only.
Present(m, j) == m.status[j] # "none"

DueJobs(m) == {j \in Pending(m) : due[j] <= clock}

\* Mutant: the newest first.
Earliest_Latest(B) ==
  CHOOSE j \in B : \A k \in B : due[k] < due[j] \/ (due[j] = due[k] /\ j <= k)

\* sorted is stable, and pending jobs are kept in the order of booking.
Earliest(B) ==
  CHOOSE j \in B : \A k \in B : due[j] < due[k] \/ (due[j] = due[k] /\ j <= k)

\* The delay of _run: to the next due job, or idle_seconds, here 1.
Alarm(m) ==
  LET next == CHOOSE t \in {due[j] : j \in Pending(m)} :
                \A j \in Pending(m) : t <= due[j]
      delay == IF Pending(m) = {} THEN 1
               ELSE IF next > clock THEN next - clock ELSE 0
  IN clock + IF delay > MaxSleep THEN MaxSleep ELSE delay

Init ==
  /\ clock = 0 /\ created = 0 /\ moment = 0
  /\ due = [j \in Ids |-> 0]
  /\ mem = [status |-> [j \in Ids |-> "none"], stamp |-> [j \in Ids |-> 0]]
  /\ disk = mem
  /\ loop = "ready" /\ batch = {} /\ current = 0 /\ wake = FALSE /\ alarm = 0
  /\ stops = 0 /\ errors = 0
  /\ told = {} /\ revoked = {} /\ raised = {} /\ since = 0
  /\ posted = [j \in Ids |-> 0]

-----------------------------------------------------------------------------
Fails == errors < MaxErrors

\* Mutant: the change is not written.
Saved_Not(m) ==
  /\ mem' = Trimmed(m)
  /\ UNCHANGED <<disk, errors>>

\* _save, when the file is written
Saved(m) ==
  /\ mem' = Trimmed(m)
  /\ disk' = Trimmed(m)
  /\ UNCHANGED errors

\* ... and when that raises: memory has changed all the same
SaveFailed(m, d) ==
  /\ Fails
  /\ mem' = Trimmed(m)
  /\ disk' = d
  /\ errors' = errors + 1

\* schedule, for a worker at the relay
Schedule(t) ==
  /\ loop # "down"
  /\ created < MaxJobs
  /\ Cardinality(Pending(mem)) < MaxPending
  /\ created' = created + 1
  /\ due' = [due EXCEPT ![created + 1] = t]
  /\ LET m == WithStatus(mem, created + 1, "pending")
     IN \/ /\ Saved(m)
           /\ wake' = TRUE
           /\ told' = told \cup {created + 1}
        \/ /\ SaveFailed(m, disk)
           /\ UNCHANGED <<wake, told>>
  /\ UNCHANGED <<clock, moment, loop, batch, current, alarm, stops, revoked, posted,
                 raised, since>>

\* cancel, likewise; a job that is not pending is refused
Cancel(j) ==
  /\ loop # "down"
  /\ mem.status[j] = "pending"
  /\ moment' = moment + 1
  /\ LET m == Stamped(mem, j, "canceled")
     IN \/ Saved(m) /\ revoked' = revoked \cup {j}
        \/ SaveFailed(m, disk) /\ UNCHANGED revoked
  /\ UNCHANGED <<clock, due, created, process, stops, told, posted, raised, since>>

(***************************************************************************)
(* _run from one await to the next: from the jobs B still to deliver, with *)
(* m in memory and d on disk.  Either it claims the first of them, saves   *)
(* and awaits its delivery, or it goes to sleep.                           *)
(***************************************************************************)
Sleep(m, d) ==
  /\ loop' = "asleep" /\ batch' = {} /\ current' = 0
  /\ alarm' = Alarm(m)
  /\ mem' = m /\ disk' = d
  /\ UNCHANGED <<moment, errors>>

\* Mutant: the claim is in memory only until the job was delivered.
Claim_Late(B, m, d) ==
  LET j == Earliest(B) IN
  /\ moment' = moment + 1
  /\ mem' = Trimmed(Stamped(m, j, "fired"))
  /\ disk' = d /\ UNCHANGED errors
  /\ loop' = "posting" /\ batch' = B \ {j} /\ current' = j
  /\ UNCHANGED alarm

\* Mutant: all that is due is claimed together.
Claim_All(B, m, d) ==
  LET j == Earliest(B)
      claimed == [m EXCEPT !.status = [k \in Ids |-> IF k \in B THEN "fired" ELSE m.status[k]]]
  IN /\ moment' = moment + 1
     /\ Saved(claimed)
     /\ loop' = "posting" /\ batch' = B \ {j} /\ current' = j
     /\ UNCHANGED alarm

Claim(B, m, d) ==
  LET j == Earliest(B)
      claimed == IF Present(m, j) THEN Stamped(m, j, "fired") ELSE m
  IN /\ moment' = moment + 1
     /\ \/ /\ Saved(claimed)
           /\ loop' = "posting" /\ batch' = B \ {j} /\ current' = j
        \/ /\ SaveFailed(claimed, d)
           /\ loop' = "dead" /\ batch' = {} /\ current' = 0
     /\ UNCHANGED alarm

Proceed(B, m, d) ==
  IF B = {} THEN Sleep(m, d) ELSE Claim(B, m, d)

\* _run wakes up, or begins, and looks for what is due.
Awake ==
  /\ \/ loop = "ready" /\ UNCHANGED wake
     \/ /\ loop = "asleep" /\ wake' = FALSE
        /\ wake \/ clock >= alarm \/ clock = MaxTime  \* time goes on after MaxTime
  /\ Proceed(DueJobs(mem), mem, disk)
  /\ since' = created
  /\ UNCHANGED <<clock, due, created, stops, history>>

\* notify: the notice is in the conversation, the sends to channels begin
Post ==
  /\ loop = "posting"
  /\ posted' = [posted EXCEPT ![current] = @ + 1]
  /\ loop' = "sending"
  /\ UNCHANGED <<clock, due, created, schedule, batch, current, wake, alarm, stops,
                 errors, told, revoked, raised, since>>

\* Mutant: a status that load does not know.
Outcome_Error(failed) ==
  IF failed /\ Present(mem, current)
  THEN WithStatus(mem, current, "error") ELSE mem

\* The outcome of a delivery in memory
Outcome(failed) ==
  IF failed /\ Present(mem, current)
  THEN WithStatus(mem, current, "failed") ELSE mem

\* Mutant: an exception of deliver ends _run.
Delivered_Raises(failed) ==
  /\ loop \in {"posting", "sending"}
  /\ loop = "posting" => failed
  /\ IF failed
     THEN /\ loop' = "dead" /\ batch' = {} /\ current' = 0
          /\ UNCHANGED <<schedule, alarm, errors>>
     ELSE Proceed(batch, mem, mem)
  /\ raised' = IF loop = "posting" THEN raised \cup {current} ELSE raised
  /\ UNCHANGED <<clock, due, created, wake, stops, told, revoked, posted, since>>

\* deliver has returned or raised: the outcome is saved, the next job begins
Delivered(failed) ==
  /\ \/ loop = "sending" /\ UNCHANGED raised
     \/ loop = "posting" /\ failed /\ raised' = raised \cup {current}
  /\ LET m == Trimmed(Outcome(failed))
     IN \/ Proceed(batch, m, m)
        \/ /\ SaveFailed(m, disk)
           /\ loop' = "dead" /\ batch' = {} /\ current' = 0
           /\ UNCHANGED <<moment, alarm>>
  /\ UNCHANGED <<clock, due, created, wake, stops, told, revoked, posted, since>>

\* A crash, or close and the end of the process: a delivery is abandoned.
Stop ==
  /\ loop # "down" /\ stops < MaxStops
  /\ stops' = stops + 1
  /\ mem' = disk
  /\ loop' = "down" /\ batch' = {} /\ current' = 0 /\ wake' = FALSE
  /\ UNCHANGED <<clock, due, created, disk, moment, alarm, errors, history, since>>

\* load, and the task of _run is created; mem is already what load returns
Start ==
  /\ loop = "down"
  /\ loop' = "ready"
  /\ UNCHANGED <<clock, due, created, schedule, batch, current, wake, alarm, stops,
                 errors, history, since>>

Tick ==
  /\ clock < MaxTime
  /\ clock' = clock + 1
  /\ UNCHANGED <<due, created, schedule, process, stops, errors, history, since>>

Next ==
  \/ \E t \in 0..MaxTime : Schedule(t)
  \/ \E j \in Ids : Cancel(j)
  \/ Awake
  \/ Post
  \/ \E failed \in BOOLEAN : Delivered(failed)
  \/ Stop
  \/ Start
  \/ Tick

Spec == Init /\ [][Next]_vars

\* The event loop runs _run, a delivery ends (its sends have timeouts), time
\* passes and a stopped server is started again.
Fairness ==
  /\ WF_vars(Awake)
  /\ WF_vars(\E failed \in BOOLEAN : Post \/ Delivered(failed))
  /\ WF_vars(Start)
  /\ WF_vars(Tick)

FairSpec == Spec /\ Fairness

-----------------------------------------------------------------------------
TypeOK ==
  /\ clock \in 0..MaxTime /\ created \in 0..MaxJobs /\ moment \in Nat
  /\ due \in [Ids -> 0..MaxTime]
  /\ mem \in Jobs /\ disk \in Jobs
  /\ loop \in Loops /\ batch \subseteq Ids /\ current \in Ids \cup {0}
  /\ wake \in BOOLEAN /\ alarm \in Nat
  /\ stops \in 0..MaxStops /\ errors \in 0..MaxErrors
  /\ told \subseteq Ids /\ revoked \subseteq Ids /\ raised \subseteq Ids
  /\ posted \in [Ids -> Nat] /\ since \in 0..MaxJobs

\* A job is delivered at most once, over all restarts and failed saves
\* ("delivered late, exactly once").
AtMostOnce == \A j \in Ids : posted[j] <= 1

\* The jobs that were promised and will not come: "a crash mid-delivery loses
\* that one job rather than repeating it forever".
Lost ==
  {j \in told : /\ posted[j] = 0 /\ j \notin raised \cup revoked
                /\ j # current /\ mem.status[j] # "pending"}

\* Each stop, and each save that fails, loses at most one job.
LosesOnePerStop == Cardinality(Lost) <= stops + errors

\* A server that never had an error has saved all it knows.
MemoryIsSaved == errors = 0 => mem = disk

\* Oldest first: a job that waits while a later one is delivered was booked
\* after this deliver_due began.
OldestFirst ==
  current # 0 => \A j \in Pending(mem) : due[j] < due[current] => j > since

\* A cancellation that was answered is final, also after a crash, when no
\* running deliver_due has the job in its list.
CancelIsFinal ==
  [][\A j \in revoked :
       posted[j] = 0 /\ j \notin batch \cup {current} =>
         posted'[j] = 0 /\ j \notin (batch \cup {current})']_vars

\* "Cancel a waiting job": what was canceled does not fire.
CanceledIsSilent == \A j \in revoked : posted[j] = 0

\* What is due is delivered, unless canceled or lost, as long as saves succeed:
\* a delivery that fails does not end _run.
DueIsDelivered ==
  \A j \in Ids :
    (j \in told /\ clock >= due[j]) ~>
      (posted[j] > 0 \/ j \in raised \cup revoked \cup Lost \/ errors > 0)

=============================================================================
