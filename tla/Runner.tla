------------------------------- MODULE Runner -------------------------------
(***************************************************************************)
(* One continuous native run (engine/sandbox/runner.py,                    *)
(* _continuous_invocation): which instruction the worker was last given,   *)
(* which it acknowledged, what it reported, and when the run is over.      *)
(*                                                                         *)
(* A revision is the number of an instruction; the message that set it is  *)
(* identified with it.  The native worker makes report calls; each is in   *)
(* the history of its session, and its event may be lost on the stream.    *)
(* Runs of this module read the calls of a session tree in the order they  *)
(* were made, children first.                                              *)
(***************************************************************************)
EXTENDS Naturals, FiniteSets, SequencesExt

CONSTANTS MaxRevision,    \* instructions of the task
          MaxMade,        \* report calls the worker makes
          MaxCheckpoints, \* responses at the step cap that brought new evidence
          WorkerReports   \* report calls considered: [kind, rev, rel, own]

(* There is a first instruction; a report names any revision it likes.     *)
ASSUME RunnerAssumption ==
  /\ MaxRevision \in Nat \ {0} /\ MaxMade \in Nat /\ MaxCheckpoints \in Nat
  /\ WorkerReports \subseteq [kind : {"accepted", "finding", "question", "result", "progress", "blocked"},
                              rev : Nat, rel : Nat, own : BOOLEAN]

Revisions == 1..MaxRevision
Newest(revs) == Max(revs)

VARIABLES stage,     \* the await where the run is, "over" at its end
          why,       \* what it quiesces for: "cancel", "steer", "recover", "remind", "checkpoint"
          steers,    \* commands queued, in order: a revision, or 0 for a cancel
          asked,     \* newest instruction the coordinator has saved
          known,     \* revisions
          book,      \* accepted, result_revisions, waiting_for_input, seen_reports, and what was
                     \* handed to the coordinator
          post,      \* the last message posted: "flying", "ok", "error" or "failed"
          awake,     \* the session may still execute
          made,      \* report calls made: the histories
          stream,    \* those whose event was not taken
          page,      \* those a reading of the histories returned and that are not applied yet
          stuck,     \* six research calls added no evidence
          reminded, recovered,   \* acknowledgment_reminders, recovery_revision
          empty, progress,       \* empty_checkpoints; checkpoints with new evidence
          failures,  \* history reads that failed in a row
          outcome    \* of the run

runCommands == <<steers, asked>>
runWorker == <<post, awake, made, stream, stuck>>
runLimits == <<reminded, recovered, empty, progress, failures>>
runnerVars == <<stage, why, runCommands, known, book, runWorker, page, runLimits, outcome>>

Told == [id : 0..MaxMade, rev : Revisions,
         kind : {"accepted", "finding", "question", "result", "progress", "blocked", "canceled"}]

RunnerTypeOK ==
  /\ stage \in {"drain", "quiet", "events", "reading", "applying", "decide", "wait", "over"}
  /\ why \in {"none", "cancel", "steer", "recover", "remind", "checkpoint"}
  /\ steers \in Seq(0..MaxRevision) /\ asked \in Revisions /\ known \subseteq Revisions
  /\ book.accepted \subseteq known /\ book.results \subseteq known /\ book.waiting \in BOOLEAN
  /\ book.seen \subseteq 1..MaxMade /\ book.told \in Seq(Told)
  /\ post \in {"flying", "ok", "error", "failed"} /\ awake \in BOOLEAN /\ stuck \in BOOLEAN
  /\ made \in Seq(WorkerReports) /\ stream \in Seq(1..MaxMade) /\ page \subseteq DOMAIN made
  /\ reminded \subseteq known /\ recovered \in 0..MaxRevision
  /\ empty \in 0..2 /\ progress \in 0..MaxCheckpoints /\ failures \in 0..3
  /\ outcome \in {"none", "ok", "partial", "error", "canceled"}

(* The first message is posted before the loop starts.                     *)
RunnerInit ==
  /\ stage = "drain" /\ why = "none" /\ steers = <<>> /\ asked = 1 /\ known = {1}
  /\ book = [accepted |-> {}, results |-> {}, waiting |-> FALSE, seen |-> {}, told |-> <<>>]
  /\ post = "flying" /\ awake = TRUE /\ made = <<>> /\ stream = <<>> /\ page = {}
  /\ stuck = FALSE /\ reminded = {} /\ recovered = 0
  /\ empty = 0 /\ progress = 0 /\ failures = 0 /\ outcome = "none"

(***************************************************************************)
(* apply: one report call, from the stream or from a history.  A report    *)
(* that names the current instruction under a revision that was never      *)
(* issued is stamped with the current one.                                 *)
(***************************************************************************)
Stamp(call) ==
  IF call.kind # "accepted" /\ call.rev \notin known /\ call.rel = Newest(known)
  THEN Newest(known) ELSE call.rev

\* Slip: what follows the result of an instruction is handed on as well.
IsTail_Never(b, kind, rev) == FALSE

IsTail(b, kind, rev) == rev \in b.results /\ ~(kind = "accepted" /\ rev \notin b.accepted)

\* Slip: any issued instruction will do.
Delivers_Late(b, call) ==
  /\ Stamp(call) \in known
  /\ call.kind = "accepted" => call.own /\ call.rel = Stamp(call)
  /\ ~IsTail(b, call.kind, Stamp(call))

\* Slip: an acknowledgment of an instruction that was never issued counts.
Delivers_Any(b, call) ==
  /\ call.kind = "accepted" => call.own /\ call.rel = Stamp(call)
  /\ ~IsTail(b, call.kind, Stamp(call))
  /\ call.kind = "accepted" \/ Stamp(call) = Newest(known)

Delivers(b, call) ==
  LET rev == Stamp(call) IN
  /\ rev \in known
  /\ call.kind = "accepted" => call.own /\ call.rel = rev
  /\ ~IsTail(b, call.kind, rev)
  /\ call.kind = "accepted" \/ rev = Newest(known)

\* Slip: seen_reports is not extended.
NowSeen_Not(b, id) == b.seen

NowSeen(b, id) == b.seen \cup {id}

Handed(b, id, kind, rev) == Append(b.told, [id |-> id, kind |-> kind, rev |-> rev])

ApplyReport(b, id) ==
  LET call == made[id]
      rev == Stamp(call)
      current == rev = Newest(known)
      ends == call.kind = "result" /\ call.own
      asks == call.kind \in {"question", "blocked"} /\ call.own
      acks == call.kind = "accepted"
  IN IF id \in b.seen \/ ~Delivers(b, call) THEN b
     ELSE [accepted |-> IF acks THEN b.accepted \cup {rev} ELSE b.accepted,
           results |-> IF ends THEN b.results \cup {rev} ELSE b.results,
           waiting |-> IF (acks /\ current) \/ ends THEN FALSE ELSE asks \/ b.waiting,
           seen |-> NowSeen(b, id),
           told |-> Handed(b, id, call.kind, rev)]

(* A report of the run itself, as it stands now. *)
Says(kind) == book' = [book EXCEPT !.told = Handed(book, 0, kind, Newest(known))]

(* The run is over: it may have something to say first. *)
Ends(result, kind) ==
  /\ stage' = "over" /\ outcome' = result
  /\ IF kind = "nothing" THEN UNCHANGED book ELSE Says(kind)

(* An error that `except` turns into a blocked report. *)
RunFails == Ends("error", "blocked") /\ UNCHANGED <<why, runCommands, known, runWorker, runLimits>>

(***************************************************************************)
(* The commands, at the top of the loop.  A cancel ends the reading of the *)
(* queue; an instruction not newer than the current one is skipped.        *)
(***************************************************************************)
CancelAt == {i \in DOMAIN steers : steers[i] = 0}
Taken == IF CancelAt = {} THEN steers ELSE SubSeq(steers, 1, Min(CancelAt))
Steering == {r \in Revisions : r \in Range(Taken) /\ r > Newest(known)}

\* Slip: the recovery of an instruction is not remembered.
RecoveredAt_Never == recovered

RecoveredAt == IF why = "recover" THEN Newest(known) ELSE recovered

QuietFor(reason) == stage' = "quiet" /\ why' = reason

Drained ==
  /\ stage = "drain"
  /\ steers' = SubSeq(steers, Len(Taken) + 1, Len(steers))
  /\ known' = known \cup Steering
  /\ \/ CancelAt # {} /\ QuietFor("cancel")
     \/ CancelAt = {} /\ Steering # {} /\ QuietFor("steer")
     \/ CancelAt = {} /\ Steering = {} /\ stuck /\ ~book.waiting
        /\ recovered # Newest(known) /\ QuietFor("recover")
     \/ CancelAt = {} /\ Steering = {} /\ (~stuck \/ book.waiting) /\ stage' = "events"
        /\ UNCHANGED why
  /\ UNCHANGED <<asked, book, runWorker, page, runLimits, outcome>>

(* Repeating without evidence after the request to synthesise. *)
RepeatsAgain ==
  /\ stage = "drain" /\ CancelAt = {} /\ Steering = {} /\ stuck /\ ~book.waiting
  /\ recovered = Newest(known)
  /\ RunFails /\ UNCHANGED page

(* submit: another message into the live session. *)
Posted == post' = "flying" /\ awake' = TRUE /\ stage' = "drain" /\ why' = "none"

(* quiesce_invocation returns: the session is idle.  What the run does next depends on why.  *)
Quiesced ==
  /\ stage = "quiet"
  /\ \/ /\ why = "cancel" /\ awake' = FALSE /\ Ends("canceled", "canceled")
        /\ UNCHANGED <<why, post, stuck, reminded, recovered>>
     \/ /\ why = "checkpoint" /\ Posted /\ Says("progress")
        /\ UNCHANGED <<stuck, reminded, recovered, outcome>>
     \/ /\ why \in {"steer", "recover"} /\ Posted /\ stuck' = FALSE
        /\ recovered' = RecoveredAt
        /\ UNCHANGED <<book, reminded, outcome>>
     \/ /\ why = "remind" /\ Posted
        /\ reminded' = reminded \cup {Newest(known)}
        /\ UNCHANGED <<book, stuck, recovered, outcome>>
  /\ UNCHANGED <<runCommands, known, made, stream, page, empty, progress, failures>>

QuiesceRefused == stage = "quiet" /\ RunFails /\ UNCHANGED page

(***************************************************************************)
(* Events, then the histories: when they are due, or when the response     *)
(* ended and nothing is asked of the user.                                 *)
(***************************************************************************)
EventTaken ==
  /\ stage \in {"events", "wait"} /\ stream # <<>>
  /\ book' = ApplyReport(book, Head(stream)) /\ stream' = Tail(stream)
  /\ stage' = IF stage = "wait" THEN "drain" ELSE "events"
  /\ UNCHANGED <<why, runCommands, known, post, awake, made, page, stuck, runLimits, outcome>>

EventsTaken ==
  /\ stage = "events"
  /\ \/ stage' = "reading"
     \/ (post = "flying" \/ book.waiting) /\ stage' = "decide"
  /\ UNCHANGED <<why, runCommands, known, book, runWorker, page, runLimits, outcome>>

PageRead ==
  /\ stage = "reading" /\ stage' = "applying"
  /\ page' = DOMAIN made
  /\ UNCHANGED <<why, runCommands, known, book, runWorker, runLimits, outcome>>

(* The calls of the children come first, those of a session in their order. *)
ReadBefore(i, j) == IF made[i].own = made[j].own THEN i < j ELSE made[j].own

HistoryApplied ==
  /\ stage = "applying"
  /\ \E id \in page :
       /\ \A other \in page \ {id} : ReadBefore(id, other)
       /\ book' = ApplyReport(book, id) /\ page' = page \ {id}
  /\ UNCHANGED <<stage, why, runCommands, known, runWorker, runLimits, outcome>>

HistoriesRead ==
  /\ stage = "applying" /\ page = {}
  /\ failures' = 0 /\ stage' = "decide"
  /\ UNCHANGED <<why, runCommands, known, book, runWorker, page, reminded, recovered, empty, progress, outcome>>

(* A request of the read fails after some of the calls were applied. *)
HistoryFails ==
  /\ stage \in {"reading", "applying"} /\ page' = {} /\ failures' = failures + 1
  /\ \/ failures < 2 /\ stage' = "decide" /\ UNCHANGED <<book, outcome>>
     \/ failures >= 2 /\ Ends("error", "blocked")
  /\ UNCHANGED <<why, runCommands, known, runWorker, reminded, recovered, empty, progress>>

(***************************************************************************)
(* Is the run over?  Only with a response that ended, nothing asked of the *)
(* user and no command; the acknowledgment of a result is asked for once.  *)
(***************************************************************************)
Idle == stage = "decide" /\ post # "flying" /\ ~book.waiting
HasResult == Newest(known) \in book.results
\* Slip: an acknowledgment of an earlier instruction will do.
HasAccepted_Any == book.accepted # {}

HasAccepted == Newest(known) \in book.accepted
LacksAck == post = "ok" /\ HasResult /\ ~HasAccepted /\ Newest(known) \notin reminded

NotOver ==
  /\ stage = "decide"
  /\ \/ (post = "flying" \/ book.waiting) /\ stage' = "wait"
     \/ Idle /\ steers # <<>> /\ stage' = "drain"
  /\ UNCHANGED <<why, runCommands, known, book, runWorker, page, runLimits, outcome>>

Reminds ==
  /\ Idle /\ steers = <<>> /\ LacksAck /\ QuietFor("remind")
  /\ UNCHANGED <<runCommands, known, book, runWorker, page, runLimits, outcome>>

(* A response that ended at the step cap, without a result for the instruction. *)
Capped(evidence) ==
  /\ Idle /\ steers = <<>> /\ post = "ok" /\ ~LacksAck /\ ~HasResult
  /\ IF evidence THEN progress < MaxCheckpoints /\ progress' = progress + 1 /\ empty' = 0
     ELSE empty' = empty + 1 /\ UNCHANGED progress
  /\ IF empty' < 2 THEN QuietFor("checkpoint") /\ UNCHANGED <<book, outcome>>
     ELSE Ends("partial", "blocked") /\ UNCHANGED why
  /\ UNCHANGED <<runCommands, known, runWorker, page, reminded, recovered, failures>>

(* The reported result, or else the prose of the response, which may be none. *)
Finished == IF HasResult THEN {"ok"} ELSE {"ok", "partial"}

Concluded ==
  /\ Idle /\ steers = <<>> /\ ~LacksAck
  /\ \/ post \in {"error", "failed"} /\ Ends("error", "blocked")
     \/ post = "ok" /\ ~HasAccepted /\ Ends("partial", "blocked")
     \/ /\ post = "ok" /\ HasAccepted
        /\ \E status \in Finished : Ends(status, IF status = "ok" THEN "nothing" ELSE "blocked")
  /\ UNCHANGED <<why, runCommands, known, runWorker, page, runLimits>>

(* asyncio.wait: a command, the end of the response or the time of the next reading. *)
Woken ==
  /\ stage = "wait" /\ stage' = "drain"
  /\ UNCHANGED <<why, runCommands, known, book, runWorker, page, runLimits, outcome>>

(***************************************************************************)
(* The coordinator and the native worker.  The run gives them way only     *)
(* where it awaits something they can change.                              *)
(***************************************************************************)
Awaits == stage \in {"quiet", "reading", "applying", "wait"}

Steered ==
  /\ Awaits /\ asked < MaxRevision
  /\ asked' = asked + 1 /\ steers' = Append(steers, asked + 1)
  /\ UNCHANGED <<stage, why, known, book, runWorker, page, runLimits, outcome>>

(* A cancel as a command, which the protocol has; the coordinator itself cancels the
   execution (SandboxManager, Cut). *)
CancelSent ==
  /\ Awaits /\ why # "cancel" /\ CancelAt = {} /\ steers' = Append(steers, 0)
  /\ UNCHANGED <<stage, why, asked, known, book, runWorker, page, runLimits, outcome>>

(* A call is in the history at once; the stream may lose its event. *)
ReportMade ==
  /\ awake /\ Awaits /\ Len(made) < MaxMade
  /\ \E call \in WorkerReports : made' = Append(made, call)
  /\ stream' \in {stream, Append(stream, Len(made) + 1)}
  /\ UNCHANGED <<stage, why, runCommands, known, book, post, awake, page, stuck, runLimits, outcome>>

(* The response ends; an HTTP failure says nothing about the session. *)
ResponseEnds ==
  /\ post = "flying" /\ Awaits
  /\ \/ post' \in {"ok", "error"} /\ awake' = FALSE
     \/ post' = "failed" /\ UNCHANGED awake
  /\ UNCHANGED <<stage, why, runCommands, known, book, made, stream, page, stuck, runLimits, outcome>>

GoesRoundInCircles ==
  /\ awake /\ Awaits /\ ~stuck /\ stuck' = TRUE
  /\ UNCHANGED <<stage, why, runCommands, known, book, post, awake, made, stream, page, runLimits, outcome>>

RunLoop ==
  \/ Drained \/ RepeatsAgain \/ Quiesced \/ QuiesceRefused \/ EventsTaken \/ EventTaken
  \/ PageRead \/ HistoryApplied \/ HistoriesRead \/ HistoryFails
  \/ NotOver \/ Reminds \/ Concluded \/ Woken \/ \E evidence \in BOOLEAN : Capped(evidence)

RunnerNext ==
  \/ RunLoop
  \/ Steered \/ CancelSent \/ ReportMade \/ ResponseEnds \/ GoesRoundInCircles
  \/ stage = "over" /\ UNCHANGED runnerVars

RunnerSpec == RunnerInit /\ [][RunnerNext]_runnerVars

(* The loop goes on.  A response ends some day, its HTTP request having a   *)
(* timeout; the run looks away from it between two awaits (Awaits), which  *)
(* is why the fairness is strong.                                          *)
RunnerFairness == WF_runnerVars(RunLoop) /\ SF_runnerVars(ResponseEnds)
FairRunnerSpec == RunnerSpec /\ RunnerFairness

-----------------------------------------------------------------------------
(* Each report call reaches the coordinator at most once, although the     *)
(* stream and every later reading of the histories bring it again.         *)
ReportedOnce ==
  \A i, j \in DOMAIN book.told : book.told[i].id = book.told[j].id /\ i # j => book.told[i].id = 0

(* After the worker's result for an instruction nothing of the worker      *)
(* about that instruction reaches the coordinator but one acknowledgment,  *)
(* however late or reordered its calls come.                               *)
ResultIsLast ==
  \A i, j \in DOMAIN book.told :
    /\ i < j /\ book.told[i].id # 0 /\ book.told[j].id # 0
    /\ book.told[i].kind = "result" /\ made[book.told[i].id].own
    /\ book.told[j].rev = book.told[i].rev
    => /\ book.told[j].kind = "accepted"
       /\ \A k \in 1..(j - 1) : book.told[k].rev = book.told[j].rev => book.told[k].kind # "accepted"

(* What the worker says about a superseded instruction is not handed on    *)
(* once the run has taken a newer one: only acknowledgments look back.     *)
NothingStale ==
  \A i, j \in DOMAIN book.told :
    i < j /\ book.told[j].kind # "accepted" => book.told[i].rev <= book.told[j].rev

(* A run ends well only when its last response did, the worker itself      *)
(* acknowledged the newest instruction by its number and message, and no   *)
(* command was waiting when it was decided.                                *)
OkIsEarned ==
  outcome' = "ok" /\ outcome = "none"
  => /\ post = "ok" /\ steers = <<>>
     /\ \E i \in DOMAIN book.told :
          /\ book.told[i].kind = "accepted" /\ book.told[i].id # 0
          /\ made[book.told[i].id] = [kind |-> "accepted", rev |-> Newest(known),
                                      rel |-> Newest(known), own |-> TRUE]
OkIsHonest == [][OkIsEarned]_runnerVars

(* Every run ends, or ends up waiting for the user. *)
RunIsOver == <>(stage = "over") \/ <>[](book.waiting)

(* When a run is declared done, the result that the worker itself reported *)
(* for the newest instruction has reached the coordinator, unless the last *)
(* histories could not be read.                                            *)
LastResultArrives ==
  outcome = "ok" /\ failures = 0
  => \A id \in DOMAIN made :
       made[id].own /\ made[id].kind = "result" /\ made[id].rev = Newest(known) => HasResult
=============================================================================
