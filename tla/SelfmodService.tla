--------------------------- MODULE SelfmodService ---------------------------
(***************************************************************************)
(* The application side of self-modification (selfmod/service.py) with the *)
(* routing of deployment.py and the saving of promotion.py: gaps that      *)
(* tasks report, the question to the user, at most one runner that the     *)
(* service knows of, the build's B and the request resumed on it, the      *)
(* promotion of B and the retirement of the old A.  BuildLoop has the      *)
(* build itself: here it develops, is on B, promotes, or ends.             *)
(* Deployments are numbered in the order in which they are made.           *)
(***************************************************************************)
EXTENDS Naturals, FiniteSets

CONSTANTS Askers,       \* tasks that report a gap
          Connectable,  \* those whose gap a connector may cover
          MaxDeploys,   \* deployments ever made
          MaxMishaps    \* failures of git and of the file system

None == "none"

ASSUME SelfmodAssumption == Connectable \subseteq Askers /\ None \notin Askers /\ MaxDeploys \in Nat \ {0}

NoDeploy == 0
Deploys == 1..MaxDeploys

VARIABLES asker,    \* state of each task that reported a gap
          proposal, \* the task whose proposal waits for the user
          deciding, \* tasks whose yes to a build is taken and whose runner does not exist yet
          runner,   \* the task of the runner that the service holds
          building, \* the task of the loop and job that it holds
          run,      \* stage of the runner of each task
          status,   \* of the service: state and task
          child,    \* of each task: the state of its resumed request
          route,    \* deployment the resumed request is linked to
          deployA, deployB, made,
          retiring, torn, \* deployments being discarded, and those gone
          worker,   \* the native execution: whose it is and on which deployment
          built,    \* the deployment of each task's attempt, which is also its tree
          head, checkout,  \* trees: of the branch, of the checked-out files
          yes, no,  \* answers that took effect, per task
          mishaps

serviceVars == <<asker, proposal, deciding, runner, building, run, status, child, route, deployA, deployB,
                 made, retiring, torn, worker, built, head, checkout, yes, no, mishaps>>
routes == <<deployA, deployB, made, retiring, torn, built>>
saved == <<head, checkout, mishaps>>
answers == <<yes, no>>

Running == {"created", "build", "resume", "onB", "save", "signIn", "continue", "watch"}
Half == 99
Idle == [of |-> None, on |-> NoDeploy]

ServiceTypeOK ==
  /\ asker \in [Askers -> {"working", "asking", "canceled", "completed", "blocked"}]
  /\ {proposal, runner, building} \subseteq Askers \cup {None} /\ deciding \subseteq Askers
  /\ run \in [Askers -> Running \cup {"none", "ended"}]
  /\ status.state \in {"idle", "awaiting", "declined", "running", "stopped", "finished", "failed"}
  /\ child \in [Askers -> {"none", "stranded", "queued", "running", "completed", "canceled", "blocked"}]
  /\ {route, built} \subseteq [Askers -> Deploys \cup {NoDeploy}]
  /\ deployA \in Deploys /\ deployB \in Deploys \cup {NoDeploy} /\ made \in Deploys
  /\ retiring \subseteq Deploys /\ torn \subseteq Deploys
  /\ yes \in [Askers -> Nat] /\ no \in [Askers -> Nat]

ServiceInit ==
  /\ asker = [t \in Askers |-> "working"] /\ proposal = None /\ deciding = {} /\ runner = None /\ building = None
  /\ run = [t \in Askers |-> "none"] /\ status = [state |-> "idle", task |-> None]
  /\ child = [t \in Askers |-> "none"] /\ route = [t \in Askers |-> NoDeploy]
  /\ deployA = 1 /\ deployB = NoDeploy /\ made = 1 /\ retiring = {} /\ torn = {} /\ worker = Idle
  /\ head = 1 /\ checkout = 1 /\ built = [t \in Askers |-> NoDeploy]
  /\ yes = [t \in Askers |-> 0] /\ no = [t \in Askers |-> 0] /\ mishaps = 0

RunnerLives == runner # None /\ run[runner] \in Running
Builds(t) == run[t] \in {"build", "resume", "onB", "save"}
Says(state) == status' = [status EXCEPT !.state = state]

-----------------------------------------------------------------------------
(* handle_gap: one proposal or runner at a time; its task stops. *)
GapReported(t) ==
  /\ asker[t] = "working"
  /\ IF RunnerLives \/ building # None \/ proposal # None
     THEN asker' = [asker EXCEPT ![t] = "blocked"] /\ UNCHANGED <<proposal, status>>
     ELSE /\ proposal' = t /\ status' = [state |-> "awaiting", task |-> t]
          /\ asker' = [asker EXCEPT ![t] = "asking"]
  /\ UNCHANGED <<deciding, runner, building, run, child, route, routes, worker, saved, answers>>

\* Slip: the question stays open when it is answered.
Answered_Open(t) == proposal = t /\ UNCHANGED proposal

(* Under the lock the question is taken back by its first answer. *)
Answered(t) == proposal = t /\ proposal' = None

DecidedNo(t) ==
  /\ Answered(t) /\ no' = [no EXCEPT ![t] = @ + 1]
  /\ Says("declined") /\ asker' = [asker EXCEPT ![t] = "blocked"]
  /\ UNCHANGED <<deciding, runner, building, run, child, route, routes, worker, saved, yes>>

(* A yes to connecting starts its runner at once, a yes to building after its notice is saved. *)
DecidedYes(t) ==
  /\ Answered(t) /\ yes' = [yes EXCEPT ![t] = @ + 1]
  /\ Says("running")
  /\ \/ t \in Connectable /\ runner' = t /\ run' = [run EXCEPT ![t] = "signIn"] /\ UNCHANGED deciding
     \/ deciding' = deciding \cup {t} /\ UNCHANGED <<runner, run>>
  /\ UNCHANGED <<asker, building, child, route, routes, worker, saved, no>>

RunnerCreated(t) ==
  /\ t \in deciding /\ deciding' = deciding \ {t}
  /\ runner' = t /\ run' = [run EXCEPT ![t] = "created"]
  /\ UNCHANGED <<asker, building, proposal, status, child, route, routes, worker, saved, answers>>

LoopRuns(t) ==
  /\ run[t] = "created" /\ run' = [run EXCEPT ![t] = "build"] /\ building' = t
  /\ UNCHANGED <<asker, proposal, deciding, runner, status, child, route, routes, worker, saved, answers>>

-----------------------------------------------------------------------------
(* The attempt that succeeds: B is staged and the request is linked to it, *)
(* held and released.  There is one B, whoever staged it.                  *)
BStagedFor(t) ==
  /\ run[t] = "build" /\ deployB = NoDeploy /\ made < MaxDeploys
  /\ made' = made + 1 /\ deployB' = made' /\ built' = [built EXCEPT ![t] = made']
  /\ run' = [run EXCEPT ![t] = "resume"]
  /\ UNCHANGED <<asker, proposal, deciding, runner, building, status, child, route, deployA, retiring, torn,
                 worker, saved, answers>>

RequestReleased(t) ==
  /\ run[t] = "resume" /\ deployB # NoDeploy
  /\ child' = [child EXCEPT ![t] = "queued"] /\ route' = [route EXCEPT ![t] = deployB]
  /\ run' = [run EXCEPT ![t] = "onB"]
  /\ UNCHANGED <<asker, proposal, deciding, runner, building, status, routes, worker, saved, answers>>

(* manager_for: what was linked to a deployment that is neither A nor B runs on A. *)
RoutedTo(t) == IF route[t] \in {deployA, deployB} \ {NoDeploy} THEN route[t] ELSE deployA

(* The coordinator runs one task at a time, a resumed request or any other. *)
WorkStarts(of) ==
  /\ worker = Idle
  /\ IF of \in Askers
     THEN /\ child[of] = "queued" /\ child' = [child EXCEPT ![of] = "running"]
          /\ route' = [route EXCEPT ![of] = RoutedTo(of)]
          /\ worker' = [of |-> of, on |-> RoutedTo(of)]
     ELSE worker' = [of |-> of, on |-> deployA] /\ UNCHANGED <<child, route>>
  /\ UNCHANGED <<asker, proposal, deciding, runner, building, run, status, routes, saved, answers>>

WorkStops(how) ==
  /\ worker # Idle /\ worker' = Idle
  /\ child' = IF worker.of \in Askers THEN [child EXCEPT ![worker.of] = how] ELSE child
  /\ UNCHANGED <<asker, proposal, deciding, runner, building, run, status, route, routes, saved, answers>>

WaitingCanceled(t) ==
  /\ child[t] = "queued" /\ child' = [child EXCEPT ![t] = "canceled"]
  /\ UNCHANGED <<asker, proposal, deciding, runner, building, run, status, route, routes, worker, saved, answers>>

(* promote(): the tag, the files and the commit; what git refuses is put   *)
(* back, and the build serves all the same.  An error of the file system   *)
(* is not git's: what was written stays.                                   *)
PromotionStarts(t) ==
  /\ run[t] = "onB" /\ child[t] = "completed" /\ run' = [run EXCEPT ![t] = "save"]
  /\ checkout' = Half
  /\ UNCHANGED <<asker, proposal, deciding, runner, building, status, child, route, routes, worker,
                 head, mishaps, answers>>

Saves(t, how) ==
  CASE how = "saved" -> head' = built[t] /\ checkout' = head' /\ UNCHANGED mishaps
    [] how = "refused" -> mishaps < MaxMishaps /\ mishaps' = mishaps + 1 /\ checkout' = head /\ UNCHANGED head
    [] how = "broken" -> mishaps < MaxMishaps /\ mishaps' = mishaps + 1 /\ UNCHANGED <<head, checkout>>

Promoted(t, how) ==
  /\ run[t] = "save" /\ deployB # NoDeploy /\ Saves(t, how)
  /\ deployA' = deployB /\ deployB' = NoDeploy /\ retiring' = retiring \cup {deployA}
  /\ run' = [run EXCEPT ![t] = "ended"] /\ building' = None /\ Says("finished")
  /\ asker' = [asker EXCEPT ![t] = "completed"]   \* _complete_original
  /\ UNCHANGED <<proposal, deciding, runner, child, route, made, torn, built, worker, answers>>

BDiscarded ==
  /\ deployB' = NoDeploy
  /\ retiring' = IF deployB = NoDeploy THEN retiring ELSE retiring \cup {deployB}

(* An attempt that does not succeed; B goes, also if another build staged  *)
(* it.  Another attempt follows, unless the resumed request was canceled   *)
(* or the build gives up.                                                  *)
AttemptOver(t, last) ==
  /\ run' = [run EXCEPT ![t] = IF last THEN "ended" ELSE "build"]
  /\ child' = [child EXCEPT ![t] = "none"] /\ route' = [route EXCEPT ![t] = NoDeploy]
  /\ IF last THEN building' = None ELSE UNCHANGED building
  /\ UNCHANGED <<asker, proposal, deciding, runner, deployA, made, torn, built, worker, answers>>

AttemptEnds(t, last) ==
  /\ run[t] \in {"build", "resume"} \/ (run[t] = "onB" /\ child[t] = "blocked")
  /\ BDiscarded /\ AttemptOver(t, last)
  /\ IF last THEN Says("failed") ELSE UNCHANGED status
  /\ UNCHANGED saved

RequestStopped(t) ==
  /\ run[t] = "onB" /\ child[t] = "canceled"
  /\ BDiscarded /\ AttemptOver(t, TRUE) /\ Says("stopped") /\ UNCHANGED saved

(* The files are saved, and then no B is there to serve. *)
PromotesNothing(t, how, last) ==
  /\ run[t] = "save" /\ deployB = NoDeploy /\ Saves(t, how)
  /\ AttemptOver(t, last) /\ UNCHANGED <<deployB, retiring>>
  /\ IF last THEN Says("failed") ELSE UNCHANGED status

\* Slip: the deployment goes whatever runs on it.
MayTearDown_Any(d) == TRUE

(* _discard: the running task finishes on the deployment it started on. *)
MayTearDown(d) == worker.on # d

TornDownNow(d) ==
  /\ d \in retiring /\ MayTearDown(d)
  /\ retiring' = retiring \ {d} /\ torn' = torn \cup {d}
  /\ UNCHANGED <<asker, proposal, deciding, runner, building, run, status, child, route, deployA, deployB,
                 made, built, worker, saved, answers>>

-----------------------------------------------------------------------------
(* _connect_and_resume: the account is connected, and then the request is  *)
(* submitted as a continuation, which the routing links to a staged B; if  *)
(* there is none the task has been saved and is left without an owner.     *)
SignInEnds(t, ok) ==
  /\ run[t] = "signIn"
  /\ run' = [run EXCEPT ![t] = IF ok THEN "continue" ELSE "ended"]
  /\ IF ok THEN UNCHANGED status ELSE Says("failed")
  /\ UNCHANGED <<asker, proposal, deciding, runner, building, child, route, routes, worker, saved, answers>>

RequestContinues(t) ==
  /\ run[t] = "continue"
  /\ IF deployB = NoDeploy
     THEN /\ child' = [child EXCEPT ![t] = "stranded"] /\ run' = [run EXCEPT ![t] = "ended"]
          /\ Says("failed") /\ UNCHANGED route
     ELSE /\ child' = [child EXCEPT ![t] = "queued"] /\ route' = [route EXCEPT ![t] = deployB]
          /\ run' = [run EXCEPT ![t] = "watch"] /\ UNCHANGED status
  /\ UNCHANGED <<asker, proposal, deciding, runner, building, routes, worker, saved, answers>>

ConnectedEnds(t) ==
  /\ run[t] = "watch" /\ child[t] \in {"completed", "blocked", "canceled"}
  /\ run' = [run EXCEPT ![t] = "ended"]
  /\ asker' = IF child[t] = "canceled" THEN asker ELSE [asker EXCEPT ![t] = child[t]]
  /\ Says(CASE child[t] = "completed" -> "finished" [] child[t] = "canceled" -> "stopped" [] OTHER -> "failed")
  /\ UNCHANGED <<proposal, deciding, runner, building, child, route, routes, worker, saved, answers>>

-----------------------------------------------------------------------------
(* cancel_requested: a question that waits is withdrawn; a run is stopped  *)
(* if the service holds its job or its runner, and with it the B, but for  *)
(* a loop that still writes its tests.  A save that git has begun goes on  *)
(* in its thread.                                                          *)
Stoppable == IF building # None THEN building ELSE runner

StopsRun ==
  LET t == Stoppable IN
  IF t # None /\ run[t] \in Running
  THEN /\ run' = [run EXCEPT ![t] = "ended"] /\ building' = None /\ Says("stopped")
       /\ \/ Builds(t) /\ BDiscarded
          \/ (~Builds(t) \/ run[t] = "build") /\ UNCHANGED <<deployB, retiring>>
       /\ IF run[t] = "save" THEN head' = built[t] /\ checkout' = head' ELSE UNCHANGED <<head, checkout>>
  ELSE UNCHANGED <<run, building, status, deployB, retiring, head, checkout>>

UserCancels(t) ==
  /\ asker[t] \in {"asking", "blocked"} /\ asker' = [asker EXCEPT ![t] = "canceled"]
  /\ IF proposal = t
     THEN /\ proposal' = None /\ Says("declined") /\ no' = [no EXCEPT ![t] = @ + 1]
          /\ UNCHANGED <<run, building, deployB, retiring, head, checkout>>
     ELSE /\ IF status = [state |-> "running", task |-> t] THEN StopsRun
             ELSE UNCHANGED <<run, building, status, deployB, retiring, head, checkout>>
          /\ UNCHANGED <<proposal, no>>
  /\ UNCHANGED <<deciding, runner, child, route, deployA, made, torn, built, worker, mishaps, yes>>

ServiceNext ==
  \/ \E t \in Askers :
       \/ GapReported(t) \/ DecidedNo(t) \/ DecidedYes(t) \/ RunnerCreated(t) \/ LoopRuns(t)
       \/ BStagedFor(t) \/ RequestReleased(t) \/ PromotionStarts(t) \/ RequestContinues(t)
       \/ ConnectedEnds(t) \/ UserCancels(t) \/ WaitingCanceled(t) \/ RequestStopped(t)
       \/ (\E how \in {"saved", "refused", "broken"} :
             Promoted(t, how) \/ \E last \in BOOLEAN : PromotesNothing(t, how, last))
       \/ (\E yes1 \in BOOLEAN : SignInEnds(t, yes1) \/ AttemptEnds(t, yes1))
  \/ (\E of \in Askers \cup {"other"} : WorkStarts(of))
  \/ (\E how \in {"completed", "blocked", "canceled"} : WorkStops(how))
  \/ \E d \in Deploys : TornDownNow(d)

ServiceSpec == ServiceInit /\ [][ServiceNext]_serviceVars

-----------------------------------------------------------------------------
(* Work runs on A or on the staged B when it starts, and to its end on the *)
(* deployment it started on: nothing is torn down under it, and nothing is *)
(* routed to what is being retired.                                        *)
NothingIsPulledAway == [](worker.on \notin torn)
                       /\ [][worker' # worker /\ worker' # Idle => worker'.on \in {deployA, deployB}]_serviceVars

Earned ==
  /\ worker' # worker /\ worker'.on = deployB /\ deployB # NoDeploy => worker'.of \in Askers
  /\ deployA' # deployA =>
       \E t \in Askers : /\ run[t] = "save" /\ child[t] = "completed"
                         /\ (route[t] = deployA' \/ \E u \in Askers \ {t} : Builds(u))

(* B serves requests that were resumed for it, and A is only replaced by a *)
(* build on which the request it was made for was completed, or some       *)
(* request while two builds overlap.                                       *)
OnlyProvenServes == [][Earned]_serviceVars

(* Every runner goes back to one yes of the user, and a question is        *)
(* answered once: no second yes, and no yes after a no or a cancellation.  *)
YesStartsOneBuild ==
  \A t \in Askers : yes[t] + no[t] <= 1 /\ (run[t] # "none" \/ t \in deciding => yes[t] = 1)

(* service.py, line 9: canceling the task stops the loop immediately.      *)
CanceledBuildStops ==
  \A t \in Askers \ Connectable : asker[t] = "canceled" => run[t] \notin Running

(* service.py, line 8: one loop at a time.  Between the yes and its runner *)
(* a second report is taken and can be answered, too.                      *)
OneLoop == \A t, u \in Askers : Builds(t) /\ Builds(u) => t = u

(* service.py, line 675: a request that was told "Resuming" does not die   *)
(* quietly: its continuation has an owner.                                 *)
ConnectedIsResumed == \A t \in Connectable : child[t] # "stranded"

(* promotion.py, line 96: the checkout is never left with a half save.     *)
CheckoutIsWhole ==
  checkout = Half => \E t \in Askers : run[t] = "save"
=============================================================================
