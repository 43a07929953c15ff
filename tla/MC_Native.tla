------------------------------ MODULE MC_Native ------------------------------
(***************************************************************************)
(* The sandbox manager and the continuous run, one at a time: which one a  *)
(* behaviour is about is chosen at the start, so that the states of the    *)
(* two add up and do not multiply.  Of the run, one thing at a time:       *)
(* several reports, or with one report history reads that fail, the step   *)
(* cap, or research in circles.                                            *)
(***************************************************************************)
EXTENDS SandboxManager, Runner

VARIABLE focus

Report(kind, rev, rel, own) == [kind |-> kind, rev |-> rev, rel |-> rel, own |-> own]
SomeReports == {Report("accepted", 1, 1, TRUE), Report("accepted", 2, 2, TRUE),
                Report("result", 1, 1, TRUE), Report("question", 1, 1, TRUE),
                Report("finding", 1, 1, FALSE), Report("finding", 2, 1, TRUE)}
RunFoci == {"reports", "reads", "steps", "circles"}
nativeVars == <<sandboxVars, runnerVars, focus>>

NativeInit == SandboxInit /\ RunnerInit /\ focus \in RunFoci \cup {"manager"}

OneTrouble ==
  /\ focus # "reports" => Len(made') <= 1
  /\ focus # "reads" => failures' = 0
  /\ focus # "steps" => progress' = 0 /\ empty' = 0
  /\ focus # "circles" => ~stuck'
InRun(step) == focus \in RunFoci /\ step /\ OneTrouble /\ UNCHANGED <<sandboxVars, focus>>

NativeNext ==
  \/ focus = "manager" /\ SandboxNext /\ UNCHANGED <<runnerVars, focus>>
  \/ InRun(RunnerNext)

NativeSpec ==
  /\ NativeInit /\ [][NativeNext]_nativeVars
  /\ WF_nativeVars(InRun(RunLoop)) /\ SF_nativeVars(InRun(ResponseEnds))

(* While a call works, nobody else's files are in the shared workspace,    *)
(* and a worker that outlived its call is known to the next one            *)
(* (manager.py 201-330).                                                   *)
WorkspaceIsOwn == ScratchIsPrivate /\ SurvivorsAreQuarantined

(* Each report of the worker counts once, its result is the last word on   *)
(* its instruction, and nothing is handed on about a superseded one        *)
(* (runner.py 340-420).                                                    *)
ReportsCountOnce == ReportedOnce /\ ResultIsLast /\ NothingStale

(* Runner!RunIsOver, of the run in focus: every run ends or waits for the  *)
(* user.                                                                   *)
RunTerminates == focus \in RunFoci => RunIsOver
=============================================================================
