----------------------------- MODULE BuildSteps -----------------------------
(***************************************************************************)
(* The steps of a build that only a human can take, and the milestones it  *)
(* announces on its task (selfmod/service.py, paused.py): the question the *)
(* build waits on, its answer, the record that a later process resumes,    *)
(* and the message identifier each announcement is stored under.  It is    *)
(* one build of one task; BuildLoop has the attempts themselves and        *)
(* SelfmodService the runner around them.                                  *)
(***************************************************************************)
EXTENDS Naturals, FiniteSets

CONSTANTS Questions,     \* what a build may ask
          StepAnswers,   \* what the user may answer
          MaxTries,      \* attempts of the build
          MaxAskings,    \* steps taken, over all attempts
          MaxRestarts,   \* times the process ends and starts again
          MaxMilestones  \* announcements of one process

NoStep == "noStep"
SignInStep == "connect"
Steps == Questions \cup {SignInStep}

VARIABLES buildStage, \* starting, working, pausing, announcing, asking, signing in, on B or ended
          tries,      \* number of the attempt
          humanStep,  \* the step this attempt is paused on
          toResume,   \* the step a resumed attempt has to request again
          future,     \* of _pending_step: none, open or the answer
          pauseFile,  \* paused_build.json
          notices,    \* _notices, which a new process counts from zero
          stored,     \* notifications of the task, by identifier
          progress,   \* of the task's card
          untold,     \* milestones that the store refused
          askings,    \* steps taken
          accepted,   \* answers the user was told were taken, by asking
          handed,     \* outcomes that reached the build, by asking
          restarts

stepVars == <<buildStage, tries, humanStep, toResume, future, pauseFile, notices, stored, progress, untold,
              askings, accepted, handed, restarts>>
attempt == <<tries, toResume, pauseFile, restarts>>
announced == <<notices, stored, progress, untold>>
answering == <<askings, accepted, handed>>

NoFuture == "none"
Open == "open"

ASSUME StepsAssumption == /\ {NoFuture, Open} \cap StepAnswers = {}
                          /\ MaxTries \in Nat \ {0} /\ MaxAskings \in Nat /\ MaxRestarts \in Nat

StepsTypeOK ==
  /\ buildStage \in {"starting", "working", "pausing", "announcing", "asking", "signingIn", "onB", "ended"}
  /\ tries \in 1..MaxTries /\ {humanStep, toResume} \subseteq Steps \cup {NoStep}
  /\ future \in StepAnswers \cup {NoFuture, Open}
  /\ pauseFile \in [tries : 1..MaxTries, step : Steps] \cup {[tries |-> 0, step |-> NoStep]}
  /\ accepted \subseteq (1..MaxAskings) \X StepAnswers /\ handed \subseteq (1..MaxAskings) \X StepAnswers
  /\ askings \in 0..MaxAskings /\ restarts \in 0..MaxRestarts

NoPause == [tries |-> 0, step |-> NoStep]

StepsInit ==
  /\ buildStage = "starting" /\ tries = 1 /\ humanStep = NoStep /\ toResume = NoStep /\ future = NoFuture
  /\ pauseFile = NoPause /\ notices = 2   \* the proposal and the yes came before
  /\ stored = {} /\ progress = <<"yes">> /\ untold = {}
  /\ askings = 0 /\ accepted = {} /\ handed = {} /\ restarts = 0

(* TaskStore.notify refuses an identifier under which another text is      *)
(* stored; _notice records that, and the card keeps what it showed.        *)
Announces(id, text) ==
  /\ notices < MaxMilestones /\ notices' = notices + 1
  /\ IF \E note \in stored : note.id = id /\ note.text # text
     THEN untold' = untold \cup {text} /\ UNCHANGED <<stored, progress>>
     ELSE stored' = stored \cup {[id |-> id, text |-> text]} /\ progress' = text /\ UNCHANGED untold

Milestone(text) == Announces(<<"milestone", notices + 1>>, text)

(* notify=False: only the card changes. *)
Card(text) ==
  /\ notices < MaxMilestones /\ notices' = notices + 1
  /\ progress' = text /\ UNCHANGED <<stored, untold>>

-----------------------------------------------------------------------------
(* The attempt starts; a resumed one goes straight to its step. *)
AttemptStarts ==
  /\ buildStage = "starting"
  /\ IF tries = 1 THEN Milestone(<<"started">>) ELSE Card(<<"started", tries>>)
  /\ IF toResume = NoStep
     THEN buildStage' = "working" /\ UNCHANGED <<humanStep, toResume, future, askings>>
     ELSE /\ askings < MaxAskings /\ askings' = askings + 1
          /\ humanStep' = toResume /\ toResume' = NoStep
          /\ IF humanStep' = SignInStep
             THEN buildStage' = "signingIn" /\ UNCHANGED future
             ELSE buildStage' = "announcing" /\ future' = Open
  /\ UNCHANGED <<tries, pauseFile, restarts, accepted, handed>>

(* The plan, the checks and a review only move the card. *)
WorkGoesOn(what) ==
  /\ buildStage = "working" /\ progress # <<what, tries>> /\ Card(<<what, tries>>)
  /\ UNCHANGED <<buildStage, humanStep, future, attempt, answering>>

StepRequested(step) ==
  /\ buildStage = "working" /\ askings < MaxAskings /\ askings' = askings + 1
  /\ buildStage' = "pausing" /\ humanStep' = step
  /\ UNCHANGED <<future, attempt, announced, accepted, handed>>

(* The record replaces the earlier one before the build waits. *)
PauseSaved ==
  /\ buildStage = "pausing" /\ pauseFile' = [tries |-> tries, step |-> humanStep]
  /\ IF humanStep = SignInStep
     THEN buildStage' = "signingIn" /\ UNCHANGED future
     ELSE buildStage' = "announcing" /\ future' = Open
  /\ UNCHANGED <<humanStep, tries, toResume, restarts, announced, answering>>

(* The question is announced; an answer may come before the store is done. *)
QuestionAnnounced ==
  /\ buildStage = "announcing" /\ buildStage' = "asking"
  /\ Announces(<<"step">>, <<"question", humanStep>>)
  /\ UNCHANGED <<humanStep, future, attempt, answering>>

\* Slip: the answer to an earlier question is written over.
AnswerTaken_Again(answer) ==
  /\ future # NoFuture /\ future' = answer
  /\ accepted' = accepted \cup {<<askings, answer>>}
  /\ UNCHANGED <<buildStage, humanStep, attempt, announced, askings, handed>>

(* answer_step: only a question that is pending and not yet answered. *)
AnswerTaken(answer) ==
  /\ future = Open /\ future' = answer
  /\ accepted' = accepted \cup {<<askings, answer>>}
  /\ UNCHANGED <<buildStage, humanStep, attempt, announced, askings, handed>>

\* Slip: only an answer ends the question.
Forgotten_Answered == IF future = Open THEN UNCHANGED future ELSE future' = NoFuture

(* _forget_step, in the finally: however the step ends, its question goes. *)
Forgotten == future' = NoFuture

BuildAnswered ==
  /\ buildStage = "asking" /\ future \notin {NoFuture, Open}
  /\ handed' = handed \cup {<<askings, future>>} /\ Forgotten
  /\ buildStage' = "working" /\ humanStep' = NoStep
  /\ UNCHANGED <<attempt, announced, askings, accepted>>

(* A sign-in is announced and, if it succeeds, so is that; the build goes  *)
(* on either way, with what came of it.                                    *)
SignInAnnounced ==
  /\ buildStage = "signingIn" /\ humanStep = SignInStep /\ Milestone(<<"opening">>)
  /\ humanStep' = NoStep /\ UNCHANGED <<buildStage, future, attempt, answering>>

StepSignInEnds(ok) ==
  /\ buildStage = "signingIn" /\ humanStep = NoStep /\ buildStage' = "working"
  /\ IF ok THEN Milestone(<<"connected">>) ELSE UNCHANGED announced
  /\ UNCHANGED <<humanStep, future, attempt, answering>>

(* A candidate that passes resumes the request on B. *)
RequestResumes ==
  /\ buildStage = "working" /\ buildStage' = "onB" /\ Milestone(<<"resuming">>)
  /\ UNCHANGED <<humanStep, future, attempt, answering>>

(* The same failure again is not announced twice. *)
TryFails(again) ==
  /\ buildStage \in {"working", "onB"} /\ tries < MaxTries
  /\ IF again THEN Card(<<"failed", tries>>) ELSE Milestone(<<"failed", tries>>)
  /\ buildStage' = "starting" /\ tries' = tries + 1
  /\ UNCHANGED <<humanStep, future, toResume, pauseFile, restarts, answering>>

(* The loop finishes, gives up or is stopped, and its record is dropped.   *)
(* Stopping is announced, once the step's question is gone.                *)
StepsEnd(how) ==
  /\ buildStage # "ended" /\ buildStage' = "ended"
  /\ how \in {"finished", "gaveUp"} => buildStage = (IF how = "finished" THEN "onB" ELSE "working")
  /\ IF how = "finished" THEN UNCHANGED announced ELSE Milestone(<<how>>)
  /\ Forgotten /\ pauseFile' = NoPause /\ humanStep' = NoStep /\ toResume' = NoStep
  /\ UNCHANGED <<tries, restarts, answering>>

(* The process ends.  The next one resumes a paused build whose baseline   *)
(* is still the deployed tree, and drops the record of any other.          *)
ProcessRestarts(same) ==
  /\ buildStage # "ended" /\ restarts < MaxRestarts /\ restarts' = restarts + 1
  /\ notices' = 0 /\ future' = NoFuture /\ humanStep' = NoStep
  /\ IF same /\ pauseFile # NoPause
     THEN /\ buildStage' = "starting" /\ tries' = pauseFile.tries /\ toResume' = pauseFile.step
          /\ UNCHANGED pauseFile
     ELSE /\ buildStage' = "ended" /\ pauseFile' = NoPause /\ toResume' = NoStep /\ UNCHANGED tries
  /\ UNCHANGED <<stored, progress, untold, answering>>

StepsNext ==
  \/ AttemptStarts \/ PauseSaved \/ QuestionAnnounced \/ BuildAnswered \/ SignInAnnounced \/ RequestResumes
  \/ (\E what \in {"planned", "checked"} : WorkGoesOn(what))
  \/ (\E step \in Steps : StepRequested(step))
  \/ (\E answer \in StepAnswers : AnswerTaken(answer))
  \/ (\E yes1 \in BOOLEAN : StepSignInEnds(yes1) \/ TryFails(yes1) \/ ProcessRestarts(yes1))
  \/ \E how \in {"finished", "gaveUp", "stopped"} : StepsEnd(how)

StepsSpec == StepsInit /\ [][StepsNext]_stepVars

-----------------------------------------------------------------------------
TakenWhileAsked == accepted' # accepted => buildStage \in {"announcing", "asking"}

(* An answer that the user is told was taken is taken by a build that      *)
(* waits for it; a question is answered once, and what the build is handed *)
(* is the answer to the question it is waiting on.                         *)
AnswersAreOwn ==
  /\ [][TakenWhileAsked]_stepVars
  /\ [](/\ handed \subseteq accepted
        /\ \A x \in accepted, y \in accepted : x[1] = y[1] => x = y)

(* service.py, line 11: the loop is announced at each milestone.           *)
MilestonesAreTold == untold = {}
=============================================================================
