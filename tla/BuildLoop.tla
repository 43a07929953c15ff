------------------------------ MODULE BuildLoop ------------------------------
(***************************************************************************)
(* One self-modification build (selfmod/loop.py with tests_first.py,       *)
(* agents.py, paused.py and the images of deployment.py): the tests are    *)
(* written and frozen, each attempt plans, implements, is checked and      *)
(* reviewed, and a tree that passes becomes image B, on which the user's   *)
(* request is resumed.  What the agents say is any of the cases that the   *)
(* code tells apart; what a tree is worth is one of four.  The build may   *)
(* be cancelled at any await and the process may die at any step.          *)
(***************************************************************************)
EXTENDS Naturals, FiniteSets

CONSTANTS TestSets,     \* contracts that an author may write
          Reasons,      \* for which an attempt may fail
          MaxAttempts,  \* of one build; the code has no limit
          MaxRepeats,   \* MAX_REPEATS, identical failures in a row
          MaxBuilds, MaxDeaths, MaxEdits

ASSUME BuildAssumption == MaxAttempts \in Nat /\ MaxRepeats \in Nat \ {0}

\* Unchanged, with changes the policy forbids, failing the checks, passing them.
Trees == {"base", "foreign", "draft", "sound"}
NoTree == "noTree"
NoTests == "noTests"
NoRecord == [attempt |-> 0, tests |-> NoTests, tree |-> NoTree, base |-> 0]

VARIABLES build,   \* the loop: its stage, attempt, frozen tests, whether its plan is approved,
                   \* the last reason of failure and how often it came in a row, and its baseline
          draft,   \* tests that wait for their review
          bench,   \* the tree in the builder's workspace, NoTree when no session is open
          taken,   \* the tree captured last
          shown,   \* facts established: what, of which tree, against which tests
          pausedFile,    \* paused_build.json
          unstaged, serving,  \* the tree of the image no deployment owns yet, and that of B
          resumed, \* the continuation of this attempt
          outcome, \* of the build
          base,    \* version of the repository's tree that A was made from
          builds, deaths, edits

buildVars == <<build, draft, bench, taken, shown, pausedFile, unstaged, serving, resumed, outcome, base,
               builds, deaths, edits>>
bounds == <<builds, deaths, edits>>

NoBuild == [at |-> "idle", attempt |-> 0, tests |-> NoTests, planned |-> FALSE, why |-> "none",
            repeats |-> 0, base |-> 0]
Working == {"plan", "planReview", "implement", "captured", "checks", "codeReview", "save", "step"}
Activating == {"image", "probe", "stage", "submit", "watch", "judge"}

BuildTypeOK ==
  /\ build.at \in {"idle", "author", "testReview", "attempt", "reset", "pause", "done"} \cup Working \cup Activating
  /\ build.attempt \in 0..MaxAttempts /\ build.tests \in TestSets \cup {NoTests}
  /\ build.planned \in BOOLEAN /\ build.why \in Reasons \cup {"none", "stopped"}
  /\ build.repeats \in 0..MaxRepeats
  /\ draft \in TestSets \cup {NoTests} /\ {bench, taken, unstaged, serving} \subseteq Trees \cup {NoTree}
  /\ shown \subseteq {"checked", "reviewed"} \X Trees \X TestSets
  /\ (pausedFile = NoRecord \/ (pausedFile.attempt \in 1..MaxAttempts /\ pausedFile.tests \in TestSets /\ pausedFile.tree \in Trees))
  /\ resumed \in {"none", "running", "completed", "canceled", "failed"}
  /\ outcome \in {"none", "finished", "gaveUp", "stopped", "fault"}

BuildInit ==
  /\ build = NoBuild /\ draft = NoTests /\ bench = NoTree /\ taken = NoTree /\ shown = {}
  /\ pausedFile = NoRecord /\ unstaged = NoTree /\ serving = NoTree /\ resumed = "none" /\ outcome = "none"
  /\ base = 1 /\ builds = 0 /\ deaths = 0 /\ edits = 0

Stage(stage) == build.at = stage
Goes(stage) == build' = [build EXCEPT !.at = stage]

(* The builder's container runs while its session is open, over a tree put there. *)
SessionOpens(t) == bench' = t
SessionEnds == bench' = NoTree

(* What the record of a paused build has of it, and the build it gives back. *)
ToRecord == [attempt |-> build.attempt, tests |-> build.tests, tree |-> taken, base |-> build.base]
FromRecord(record) ==
  [NoBuild EXCEPT !.at = "step", !.attempt = record.attempt, !.tests = record.tests,
                  !.planned = TRUE, !.base = record.base]

-----------------------------------------------------------------------------
(* The service starts a build: a record left by another one is dropped. *)
BuildStarts ==
  /\ build.at \in {"idle", "done"} /\ builds < MaxBuilds /\ builds' = builds + 1
  /\ build' = [NoBuild EXCEPT !.at = "author", !.base = base]
  /\ pausedFile' = NoRecord /\ outcome' = "none" /\ shown' = {} /\ taken' = NoTree /\ resumed' = "none"
  /\ UNCHANGED <<draft, bench, unstaged, serving, base, deaths, edits>>

(* freeze_tests: authoring goes on until tests parse and their reviewer    *)
(* approves; a call that fails is repeated after a pause, and only a fault *)
(* of the harness ends the build.                                          *)
TestsWritten(k) ==
  /\ Stage("author") /\ draft' = k /\ Goes("testReview")
  /\ UNCHANGED <<bench, taken, shown, pausedFile, unstaged, serving, resumed, outcome, base, bounds>>

TestsReviewed(approved) ==
  /\ Stage("testReview") /\ draft' = NoTests
  /\ build' = IF approved THEN [build EXCEPT !.at = "attempt", !.tests = draft] ELSE [build EXCEPT !.at = "author"]
  /\ UNCHANGED <<bench, taken, shown, pausedFile, unstaged, serving, resumed, outcome, base, bounds>>

AuthoringFaults ==
  /\ Stage("author") /\ outcome' = "fault" /\ Goes("done") /\ pausedFile' = NoRecord
  /\ UNCHANGED <<draft, bench, taken, shown, unstaged, serving, resumed, base, bounds>>

(* An attempt: from A's tree, with a plan of its own. *)
AttemptBegins ==
  /\ Stage("attempt") /\ build.attempt < MaxAttempts
  /\ build' = [build EXCEPT !.at = "plan", !.attempt = @ + 1, !.planned = FALSE]
  /\ SessionOpens("base") /\ resumed' = "none"
  /\ UNCHANGED <<draft, taken, shown, pausedFile, unstaged, serving, outcome, base, bounds>>

(* _plan: an unreadable plan, or one outside the policy, is sent back. *)
PlanRead(lawful) ==
  /\ Stage("plan") /\ Goes(IF lawful THEN "planReview" ELSE "plan")
  /\ UNCHANGED <<draft, bench, taken, shown, pausedFile, unstaged, serving, resumed, outcome, base, bounds>>

PlanReviewed(approved) ==
  /\ Stage("planReview")
  /\ build' = [build EXCEPT !.at = IF approved THEN "implement" ELSE "plan", !.planned = approved]
  /\ UNCHANGED <<draft, bench, taken, shown, pausedFile, unstaged, serving, resumed, outcome, base, bounds>>

(* The builder's container writes in its workspace whenever its session is open, also while the
   harness verifies what it captured. *)
AgentWrites(t) ==
  /\ bench \notin {NoTree, t} /\ build.at \in Working \ {"step"} /\ bench' = t
  /\ UNCHANGED <<build, draft, taken, shown, pausedFile, unstaged, serving, resumed, outcome, base, bounds>>

(* The builder's reply: the tree is read, or a step that only a human can take is wanted. *)
BuilderReplies(wantsStep) ==
  /\ Stage("implement") /\ taken' = bench /\ Goes(IF wantsStep THEN "save" ELSE "captured")
  /\ UNCHANGED <<draft, bench, shown, pausedFile, unstaged, serving, resumed, outcome, base, bounds>>

\* Slip: what the policy forbids is not looked for.
Lawful_Any == taken # "base"

Lawful == taken \notin {"base", "foreign"}

PolicyApplied ==
  /\ Stage("captured") /\ Goes(IF Lawful THEN "checks" ELSE "implement")
  /\ UNCHANGED <<draft, bench, taken, shown, pausedFile, unstaged, serving, resumed, outcome, base, bounds>>

ChecksRun ==
  /\ Stage("checks")
  /\ IF taken = "sound"
     THEN Goes("codeReview") /\ shown' = shown \cup {<<"checked", taken, build.tests>>}
     ELSE Goes("implement") /\ UNCHANGED shown
  /\ UNCHANGED <<draft, bench, taken, pausedFile, unstaged, serving, resumed, outcome, base, bounds>>

\* Slip: the tree is read again once it is approved.
CodeReviewed_Reread(approved) ==
  /\ Stage("codeReview") /\ taken' = bench
  /\ IF approved
     THEN Goes("image") /\ SessionEnds /\ shown' = shown \cup {<<"reviewed", taken, build.tests>>}
     ELSE Goes("implement") /\ UNCHANGED <<bench, shown>>
  /\ UNCHANGED <<draft, pausedFile, unstaged, serving, resumed, outcome, base, bounds>>

(* The reviewer sees a copy of the captured tree; its approval ends the builder's session. *)
CodeReviewed(approved) ==
  /\ Stage("codeReview")
  /\ IF approved
     THEN Goes("image") /\ SessionEnds /\ shown' = shown \cup {<<"reviewed", taken, build.tests>>}
     ELSE Goes("implement") /\ UNCHANGED <<bench, shown>>
  /\ UNCHANGED <<draft, taken, pausedFile, unstaged, serving, resumed, outcome, base, bounds>>

(* The session ends, the paused build is written to disk, and then the user is asked. *)
StepSaved ==
  /\ Stage("save") /\ Goes("step") /\ SessionEnds
  /\ pausedFile' = ToRecord
  /\ UNCHANGED <<draft, taken, shown, unstaged, serving, resumed, outcome, base, bounds>>

(* Whatever came of the step, a new session goes on with the captured tree. *)
StepSettled ==
  /\ Stage("step") /\ Goes("implement") /\ SessionOpens(taken)
  /\ UNCHANGED <<draft, taken, shown, pausedFile, unstaged, serving, resumed, outcome, base, bounds>>

-----------------------------------------------------------------------------
(* DeploymentSwitch.activate. *)
ImageBuilt ==
  /\ Stage("image") /\ Goes("probe") /\ unstaged' = taken
  /\ UNCHANGED <<draft, bench, taken, shown, pausedFile, serving, resumed, outcome, base, bounds>>

SurfaceProbed ==
  /\ Stage("probe") /\ Goes("stage")
  /\ UNCHANGED <<draft, bench, taken, shown, pausedFile, unstaged, serving, resumed, outcome, base, bounds>>

BStaged ==
  /\ Stage("stage") /\ serving = NoTree /\ serving' = unstaged /\ unstaged' = NoTree /\ Goes("submit")
  /\ UNCHANGED <<draft, bench, taken, shown, pausedFile, resumed, outcome, base, bounds>>

RequestResumed ==
  /\ Stage("submit") /\ resumed = "none" /\ resumed' = "running" /\ Goes("watch")
  /\ UNCHANGED <<draft, bench, taken, shown, pausedFile, unstaged, serving, outcome, base, bounds>>

ContinuationEnds(how) ==
  /\ resumed = "running" /\ resumed' = how
  /\ UNCHANGED <<build, draft, bench, taken, shown, pausedFile, unstaged, serving, outcome, base, bounds>>

\* Slip: the record of a paused build outlives the build.
LoopEnds_Keeps(how) == outcome' = how /\ UNCHANGED pausedFile

(* However the loop ends, the service drops the record. *)
LoopEnds(how) == outcome' = how /\ pausedFile' = NoRecord

(* The request completed on B: B becomes A. *)
BPromoted ==
  /\ Stage("watch") /\ resumed = "completed"
  /\ LoopEnds("finished") /\ Goes("done") /\ serving' = NoTree
  /\ base' = base + 1
  /\ UNCHANGED <<draft, bench, taken, shown, unstaged, resumed, bounds>>

RequestCanceled ==
  /\ Stage("watch") /\ resumed = "canceled"
  /\ build' = [build EXCEPT !.at = "reset", !.why = "stopped"]
  /\ UNCHANGED <<draft, bench, taken, shown, pausedFile, unstaged, serving, resumed, outcome, base, bounds>>

(* An exception anywhere, a surface without the tool, or a continuation that ended otherwise. *)
AttemptFails(reason) ==
  /\ build.at \in Working \cup Activating /\ (Stage("watch") => resumed \in {"running", "failed"})
  /\ build' = [build EXCEPT !.at = "reset", !.why = reason,
                            !.repeats = IF build.why = reason THEN @ + 1 ELSE 1]
  /\ SessionEnds
  /\ UNCHANGED <<draft, taken, shown, pausedFile, unstaged, serving, resumed, outcome, base, bounds>>

(* The build's task is cancelled, at whatever it awaits. *)
BuildCancelled ==
  /\ build.at \notin {"idle", "done", "reset"}
  /\ IF build.at \in Working \cup Activating
     THEN build' = [build EXCEPT !.at = "reset", !.why = "stopped"] /\ UNCHANGED <<outcome, pausedFile>>
     ELSE Goes("done") /\ LoopEnds("stopped")
  /\ SessionEnds /\ draft' = NoTests
  /\ UNCHANGED <<taken, shown, unstaged, serving, resumed, base, bounds>>

\* Slip: only a staged B is scrapped, and only for a failure.
Scrapped_Failed ==
  IF build.why = "stopped" THEN UNCHANGED <<unstaged, serving>> ELSE serving' = NoTree /\ unstaged' = NoTree

(* DeploymentSwitch.reset: the image, then B. *)
Scrapped == serving' = NoTree /\ unstaged' = NoTree

Reset ==
  /\ Stage("reset") /\ Scrapped
  /\ IF build.why = "stopped" THEN LoopEnds("stopped") /\ Goes("done")
     ELSE IF build.repeats >= MaxRepeats THEN LoopEnds("gaveUp") /\ Goes("done")
     ELSE Goes("pause") /\ UNCHANGED <<outcome, pausedFile>>
  /\ UNCHANGED <<draft, bench, taken, shown, resumed, base, bounds>>

PauseEnds ==
  /\ Stage("pause") /\ Goes("attempt")
  /\ UNCHANGED <<draft, bench, taken, shown, pausedFile, unstaged, serving, resumed, outcome, base, bounds>>

-----------------------------------------------------------------------------
(* The process dies: only the record and the images stay, and what is      *)
(* delegated work is interrupted.  prepare() of the next one removes every *)
(* image but A's.                                                          *)
HostDies ==
  /\ deaths < MaxDeaths /\ deaths' = deaths + 1 /\ build.at \notin {"idle"}
  /\ build' = NoBuild /\ draft' = NoTests /\ bench' = NoTree /\ taken' = NoTree /\ shown' = {}
  /\ unstaged' = NoTree /\ serving' = NoTree /\ outcome' = "none"
  /\ resumed' = IF resumed = "running" THEN "failed" ELSE resumed
  /\ UNCHANGED <<pausedFile, base, builds, edits>>

RepositoryEdited ==
  /\ Stage("idle") /\ edits < MaxEdits /\ edits' = edits + 1 /\ base' = base + 1
  /\ UNCHANGED <<build, draft, bench, taken, shown, pausedFile, unstaged, serving, resumed, outcome, builds, deaths>>

\* Slip: the record is honored whatever the tree is now.
MayResume_Always == TRUE

MayResume == pausedFile.base = base

(* _resume_paused_build: the attempt that paused goes on with its plan, tree and tests, and its
   step is asked for again. *)
BuildResumes ==
  /\ Stage("idle") /\ pausedFile # NoRecord
  /\ IF MayResume
     THEN /\ build' = FromRecord(pausedFile)
          /\ taken' = pausedFile.tree /\ UNCHANGED pausedFile
     ELSE pausedFile' = NoRecord /\ UNCHANGED <<build, taken>>
  /\ resumed' = IF MayResume THEN "none" ELSE resumed
  /\ UNCHANGED <<draft, bench, shown, unstaged, serving, outcome, base, bounds>>

BuildNext ==
  \/ BuildStarts \/ (\E k \in TestSets : TestsWritten(k)) \/ AuthoringFaults
  \/ \E yes \in BOOLEAN : TestsReviewed(yes) \/ PlanRead(yes) \/ PlanReviewed(yes) \/ BuilderReplies(yes)
                          \/ CodeReviewed(yes)
  \/ AttemptBegins \/ (\E t \in Trees : AgentWrites(t)) \/ PolicyApplied \/ ChecksRun \/ StepSaved \/ StepSettled
  \/ ImageBuilt \/ SurfaceProbed \/ BStaged \/ RequestResumed \/ BPromoted \/ RequestCanceled
  \/ (\E how \in {"completed", "canceled", "failed"} : ContinuationEnds(how))
  \/ (\E reason \in Reasons : AttemptFails(reason)) \/ BuildCancelled \/ Reset \/ PauseEnds
  \/ HostDies \/ RepositoryEdited \/ BuildResumes

BuildSpec == BuildInit /\ [][BuildNext]_buildVars

-----------------------------------------------------------------------------
(* What serves the user's request on B, and becomes A, is a tree the policy *)
(* allows, that passed the frozen tests and that a reviewer approved: that  *)
(* very tree and those very tests, whatever the agent wrote meanwhile and   *)
(* through every pause, retry and restart.                                  *)
ProvenBeforeServed ==
  \A t \in {serving} \cup (IF outcome = "finished" THEN {taken} ELSE {}) :
    t # NoTree =>
      /\ t \notin {"base", "foreign"} /\ build.planned
      /\ <<"checked", t, build.tests>> \in shown /\ <<"reviewed", t, build.tests>> \in shown

(* B and its image end with their attempt, however it ends: nobody else's  *)
(* work finds them, and the next attempt can stage its own.                *)
NothingOutlivesItsAttempt ==
  build.at \notin Activating \cup {"reset"} => serving = NoTree /\ unstaged = NoTree

(* A build goes on only over the tree it was begun from, and no record of  *)
(* it is left for another process once it has ended.                       *)
ResumesItsOwn ==
  /\ build.at \notin {"idle", "done"} => build.base = base
  /\ Stage("done") => pausedFile = NoRecord
=============================================================================
