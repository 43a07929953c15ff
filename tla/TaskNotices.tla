----------------------------- MODULE TaskNotices -----------------------------
(***************************************************************************)
(* What the user is told of delegated work without asking: the events that *)
(* the coordinator queues (tasks.py, _queue_update), one per task, and the *)
(* announcer, which reads a task, lets the main model phrase the event     *)
(* without any lock, and then decides again under the mutation lock        *)
(* whether it may still be said.  A handler that runs under that lock is   *)
(* one action.                                                             *)
(***************************************************************************)
EXTENDS Naturals, FiniteSets

CONSTANTS Delegated,
          MaxRevisions,  \* instructions of a task
          MaxEvents,     \* reports, results and failures of all tasks
          MaxMisses      \* store operations of the announcer that fail

VARIABLES task,     \* of each task: its state, whether a worker owns it, revision,
                    \* accepted_revision, quiet, and the question it is blocked on
          waiting,  \* _notifications: the event of each task, Nothing if it has none
          spaced,   \* tasks told of less than UPDATE_INTERVAL ago
          wake,     \* _notification_wake
          teller,   \* the announcer: where it is, what it has left to do, and its current event
          announced,     \* notices saved, as pairs of a task and an event
          recalled, \* _remembered
          misses,
          events    \* events made so far

noticeVars == <<task, waiting, spaced, wake, teller, announced, recalled, misses, events>>

NoEvent == [id |-> 0, kind |-> "nothing", rev |-> 0]
NoticeKinds == {"progress", "finding", "question", "blocked", "result"}
Event == [id : 1..MaxEvents, kind : NoticeKinds, rev : 1..MaxRevisions]
Stopped == {"canceled", "gone"}

NoticesTypeOK ==
  /\ task \in [Delegated -> [state : {"running", "blocked", "completed", "canceled", "gone"},
                         owned : BOOLEAN, revision : 1..MaxRevisions,
                         accepted : 0..MaxRevisions, quiet : BOOLEAN, question : 0..MaxEvents]]
  /\ waiting \in [Delegated -> Event \cup {NoEvent}]
  /\ spaced \subseteq Delegated /\ wake \in BOOLEAN
  /\ teller.at \in {"asleep", "sweep", "look", "speak", "rest"}
  /\ teller.left \subseteq Delegated \X Event /\ teller.now \subseteq Delegated \X Event
  /\ Cardinality(teller.now) = (IF teller.at \in {"look", "speak"} THEN 1 ELSE 0)
  /\ announced \subseteq Delegated \X Event /\ recalled \subseteq Delegated
  /\ misses \in 0..MaxMisses /\ events \in 0..MaxEvents

NoticesInit ==
  /\ task = [t \in Delegated |-> [state |-> "running", owned |-> TRUE, revision |-> 1, accepted |-> 0,
                              quiet |-> FALSE, question |-> 0]]
  /\ waiting = [t \in Delegated |-> NoEvent] /\ spaced = {} /\ wake = FALSE
  /\ teller = [at |-> "asleep", left |-> {}, now |-> {}]
  /\ announced = {} /\ recalled = {} /\ misses = 0 /\ events = 0

-----------------------------------------------------------------------------
(* _queue_update: the newest event of a task replaces the one that waits,  *)
(* but progress does not replace anything else about the same instruction. *)
Yields(t, e) ==
  /\ e.kind = "progress" /\ waiting[t] # NoEvent /\ waiting[t].kind # "progress"
  /\ waiting[t].rev >= e.rev

\* Slip: the event goes to the queue and nobody is woken.
Queued_Silently(t, e) ==
  /\ waiting' = IF Yields(t, e) THEN waiting ELSE [waiting EXCEPT ![t] = e]
  /\ UNCHANGED wake

Queued(t, e) ==
  IF Yields(t, e) THEN UNCHANGED <<waiting, wake>>
  ELSE waiting' = [waiting EXCEPT ![t] = e] /\ wake' = TRUE

Dropped(t) == waiting' = [waiting EXCEPT ![t] = NoEvent]

NewEvent(kind, rev) == [id |-> events + 1, kind |-> kind, rev |-> rev]
Makes(t, kind, rev) ==
  events < MaxEvents /\ events' = events + 1 /\ Queued(t, NewEvent(kind, rev))

(* The coordinator's handler of a report: one about a superseded           *)
(* instruction is only saved, a question blocks the task.                  *)
WorkerReports(t, kind, rev) ==
  /\ task[t].owned /\ task[t].state # "canceled"
  /\ rev <= task[t].revision /\ rev >= task[t].accepted
  /\ kind \in {"question", "blocked"} => rev = task[t].revision
  /\ Makes(t, kind, rev)
  /\ task' = IF kind \notin {"question", "blocked"} THEN task
             ELSE [task EXCEPT ![t].state = "blocked",
                               ![t].question = IF kind = "question" THEN events' ELSE 0]
  /\ UNCHANGED <<spaced, teller, announced, recalled, misses>>

(* An acknowledgment ends the wait for an answer; the first one is silent. *)
WorkerAccepts(t, rev) ==
  /\ task[t].owned /\ task[t].state # "canceled"
  /\ rev <= task[t].revision /\ rev > task[t].accepted
  /\ IF rev > 1 THEN Makes(t, "progress", rev) ELSE UNCHANGED <<waiting, wake, events>>
  /\ task' = [task EXCEPT ![t].accepted = rev, ![t].state = "running", ![t].question = 0]
  /\ UNCHANGED <<spaced, teller, announced, recalled, misses>>

(* The end of an execution: a result for what was accepted, or a failure. *)
WorkEnds(t, complete) ==
  /\ task[t].owned /\ task[t].state # "canceled"
  /\ complete => task[t].accepted > 0
  /\ Makes(t, IF complete THEN "result" ELSE "blocked",
           IF task[t].accepted = 0 THEN 1 ELSE task[t].accepted)
  /\ task' = [task EXCEPT ![t].state = IF complete THEN "completed" ELSE "blocked",
                          ![t].owned = FALSE, ![t].question = 0]
  /\ UNCHANGED <<spaced, teller, announced, recalled, misses>>

UserSteers(t) ==
  /\ task[t].owned /\ task[t].state # "canceled" /\ task[t].revision < MaxRevisions
  /\ task' = [task EXCEPT ![t].revision = @ + 1]
  /\ UNCHANGED <<waiting, spaced, wake, teller, announced, recalled, misses, events>>

UserQuiets(t) ==
  /\ task[t].state # "gone" /\ ~task[t].quiet
  /\ task' = [task EXCEPT ![t].quiet = TRUE]
  /\ UNCHANGED <<waiting, spaced, wake, teller, announced, recalled, misses, events>>

(* A requested cancellation and its end are one state here: the announcer treats both alike. *)
UserCancels(t) ==
  /\ task[t].state \in {"running", "blocked"}
  /\ task' = [task EXCEPT ![t].state = "canceled", ![t].owned = FALSE, ![t].question = 0]
  /\ Dropped(t)
  /\ UNCHANGED <<spaced, wake, teller, announced, recalled, misses, events>>

UserDeletes(t) ==
  /\ ~task[t].owned /\ task[t].state # "gone"
  /\ task' = [task EXCEPT ![t].state = "gone"] /\ Dropped(t)
  /\ UNCHANGED <<spaced, wake, teller, announced, recalled, misses, events>>

-----------------------------------------------------------------------------
(* _announce: a sweep over the events that wait when it starts.            *)
Routine(e) == e.kind \in {"progress", "finding"}

Sweeps ==
  /\ teller.at = "asleep" /\ wake /\ wake' = FALSE
  /\ teller' = [at |-> "sweep", now |-> {},
                left |-> {p \in {<<t, waiting[t]>> : t \in Delegated} : p[2] # NoEvent}]
  /\ UNCHANGED <<task, waiting, spaced, announced, recalled, misses, events>>

(* The next event; a routine one that comes too soon is left where it is. *)
TakesUp(t, e) ==
  /\ teller.at = "sweep" /\ <<t, e>> \in teller.left
  /\ teller' = IF Routine(e) /\ t \in spaced
               THEN [teller EXCEPT !.left = @ \ {<<t, e>>}]
               ELSE [at |-> "look", now |-> {<<t, e>>}, left |-> teller.left \ {<<t, e>>}]
  /\ UNCHANGED <<task, waiting, spaced, wake, announced, recalled, misses, events>>

SweepEnds ==
  /\ teller.at = "sweep" /\ teller.left = {}
  /\ teller' = [teller EXCEPT !.at = IF \E t \in Delegated : waiting[t] # NoEvent THEN "rest" ELSE "asleep"]
  /\ UNCHANGED <<task, waiting, spaced, wake, announced, recalled, misses, events>>

(* It tries again when something new comes or after UPDATE_INTERVAL. *)
RestEnds ==
  /\ teller.at = "rest" /\ wake' = TRUE /\ teller' = [teller EXCEPT !.at = "asleep"]
  /\ UNCHANGED <<task, waiting, spaced, announced, recalled, misses, events>>

(* May the event be said of the task as it is now? *)
MaySay(t, e) ==
  /\ task[t].state \notin Stopped
  /\ e.rev >= task[t].accepted
  /\ task[t].quiet => ~Routine(e)

GoesOn == teller' = [teller EXCEPT !.at = "sweep", !.now = {}]

(* _announce_one, before the model is asked. *)
Looks(t, e) ==
  /\ teller.at = "look" /\ <<t, e>> \in teller.now /\ task[t].state # "gone"
  /\ IF MaySay(t, e) THEN teller' = [teller EXCEPT !.at = "speak"] /\ UNCHANGED waiting
     ELSE GoesOn /\ IF waiting[t] = e THEN Dropped(t) ELSE UNCHANGED waiting
  /\ UNCHANGED <<task, spaced, wake, announced, recalled, misses, events>>

(* The task is gone or cannot be read: whatever waits for it is dropped. *)
LookFails(t, e) ==
  /\ teller.at = "look" /\ <<t, e>> \in teller.now
  /\ IF task[t].state = "gone" THEN UNCHANGED misses
     ELSE misses < MaxMisses /\ misses' = misses + 1
  /\ GoesOn /\ Dropped(t)
  /\ UNCHANGED <<task, spaced, wake, announced, recalled, events>>

\* Slip: what was true before the model was asked is taken to be true.
StillMaySay_Trusts(t, e) == TRUE

StillMaySay(t, e) == MaySay(t, e)

\* Slip: the event is said whatever waits now.
StillWaits_Any(t, e) == TRUE

StillWaits(t, e) == waiting[t] = e

(* The model answered, failed (then the report itself is said) or was too slow; under the
   lock the event is checked again, taken and saved as a notice. *)
Speaks(t, e) ==
  /\ teller.at = "speak" /\ <<t, e>> \in teller.now /\ GoesOn
  /\ IF ~StillWaits(t, e) THEN UNCHANGED <<waiting, announced, spaced, recalled>>
     ELSE /\ Dropped(t)
          /\ IF StillMaySay(t, e)
             THEN /\ announced' = announced \cup {<<t, e>>} /\ spaced' = spaced \cup {t}
                  /\ recalled' = IF e.kind = "result" THEN recalled \cup {t} ELSE recalled
             ELSE UNCHANGED <<announced, spaced, recalled>>
  /\ UNCHANGED <<task, wake, misses, events>>

(* The notice cannot be saved: the event has been taken and is lost. *)
SpeakFails(t, e) ==
  /\ teller.at = "speak" /\ <<t, e>> \in teller.now /\ misses < MaxMisses
  /\ misses' = misses + 1 /\ GoesOn /\ Dropped(t)
  /\ UNCHANGED <<task, spaced, wake, announced, recalled, events>>

IntervalPasses(t) ==
  /\ t \in spaced /\ spaced' = spaced \ {t}
  /\ UNCHANGED <<task, waiting, wake, teller, announced, recalled, misses, events>>

TellerSteps ==
  \/ Sweeps \/ SweepEnds \/ RestEnds
  \/ \E t \in Delegated, e \in Event : TakesUp(t, e)
  \/ \E p \in teller.now : Looks(p[1], p[2]) \/ LookFails(p[1], p[2]) \/ Speaks(p[1], p[2]) \/ SpeakFails(p[1], p[2])

NoticesNext ==
  \/ TellerSteps
  \/ \E t \in Delegated :
       \/ IntervalPasses(t) \/ UserSteers(t) \/ UserQuiets(t) \/ UserCancels(t) \/ UserDeletes(t)
       \/ \E complete \in BOOLEAN : WorkEnds(t, complete)
       \/ \E rev \in 1..MaxRevisions :
            WorkerAccepts(t, rev) \/ \E kind \in {"finding", "question"} : WorkerReports(t, kind, rev)

NoticesSpec == NoticesInit /\ [][NoticesNext]_noticeVars

(* The announcer is a task of the event loop, and time passes. *)
NoticesFairness == WF_noticeVars(TellerSteps) /\ \A t \in Delegated : WF_noticeVars(IntervalPasses(t))
FairNoticesSpec == NoticesSpec /\ NoticesFairness

-----------------------------------------------------------------------------
(* _announce_one: whatever the user did while the update was being phrased *)
(* (a cancellation, a deletion, quiet mode, a newer accepted instruction)  *)
(* or the worker reported meanwhile holds for that update already.         *)
SaidIsCurrent ==
  [][\A p \in announced' \ announced :
       /\ waiting[p[1]] = p[2] /\ task[p[1]].state \notin Stopped
       /\ p[2].rev >= task[p[1]].accepted /\ (task[p[1]].quiet => ~Routine(p[2]))]_noticeVars

(* The result of a completed task is told, whatever else is reported,      *)
(* unless the task is deleted first or the store fails.                    *)
ResultIsTold ==
  \A t \in Delegated :
    task[t].state = "completed"
    ~> \/ task[t].state = "gone" \/ misses > 0
       \/ \E p \in announced : p[1] = t /\ p[2].kind = "result"

(* docs/SUBAGENT_TASKS.md: results, questions and blockers stay visible.   *)
(* While a task waits for the answer to a question, the question has been  *)
(* told or will be.                                                        *)
QuestionIsTold ==
  \A t \in Delegated :
    task[t].question # 0 /\ misses = 0
    => \/ waiting[t].id = task[t].question
       \/ \E p \in announced : p[1] = t /\ p[2].id = task[t].question
=============================================================================
