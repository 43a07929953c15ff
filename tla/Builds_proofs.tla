--------------------------- MODULE Builds_proofs ----------------------------
(***************************************************************************)
(* Theorems about the parts of MC_Builds, for every value of their         *)
(* constants: the service of self-modification, the loop of one build, its *)
(* steps, the voice and the durable timer.  The last section takes them to *)
(* the behaviours that MC_Builds composes.                                 *)
(***************************************************************************)
EXTENDS MC_Builds, Selection_proofs


-----------------------------------------------------------------------------
(* The service of self-modification.                                       *)
AskerStates == {"working", "asking", "canceled", "completed", "blocked"}
ChildStates == {"none", "stranded", "queued", "running", "completed", "canceled", "blocked"}
RunStages == Running \cup {"none", "ended"}

(* How far the question of a task has come: nobody was asked, the user is  *)
(* asked, or it was answered once; a runner exists only after a yes.       *)
Unasked(t) == yes[t] = 0 /\ no[t] = 0 /\ run[t] = "none" /\ t \notin deciding

OneAnswer(t) ==
  /\ yes[t] + no[t] <= 1
  /\ run[t] # "none" \/ t \in deciding => yes[t] = 1
  /\ asker[t] = "working" => Unasked(t) /\ proposal # t
  /\ proposal = t => Unasked(t) /\ asker[t] = "asking"

AnswerShape ==
  /\ asker \in [Askers -> AskerStates] /\ run \in [Askers -> RunStages]
  /\ yes \in [Askers -> Nat] /\ no \in [Askers -> Nat]
  /\ child \in [Askers -> ChildStates]
  /\ {proposal, runner, building} \subseteq Askers \cup {None} /\ deciding \subseteq Askers

AnswerInv == AnswerShape /\ \A t \in Askers : OneAnswer(t)

(* What serves was made, and is neither being retired nor gone; a          *)
(* deployment has one of these roles at a time.                            *)
RoutingInv ==
  /\ made \in Nat /\ deployA \in 1 .. made /\ deployB \in 0 .. made /\ deployA # deployB
  /\ retiring \subseteq 1 .. made /\ torn \subseteq 1 .. made
  /\ {deployA, deployB} \cap (retiring \cup torn) = {}
  /\ worker.on \notin torn

-----------------------------------------------------------------------------
LEMMA AnswerInitInv == ServiceInit => AnswerInv
  BY SelfmodAssumption DEF ServiceInit, AnswerInv, AnswerShape, ChildStates, OneAnswer, Unasked, AskerStates, RunStages

\* A runner that goes from one stage to another goes back to the same yes.
LEMMA RunnerMoves ==
  ASSUME AnswerInv, NEW t \in Askers, run[t] # "none", NEW stage \in RunStages \ {"none"},
         run' = [run EXCEPT ![t] = stage], UNCHANGED <<asker, proposal, deciding, runner, yes, no>>,
         building' \in Askers \cup {None},
         child' \in [Askers -> ChildStates]
  PROVE  AnswerInv'
  BY DEF AnswerInv, AnswerShape, OneAnswer, Unasked

\* A task whose question was answered and is over changes its state.
LEMMA TaskEnds ==
  ASSUME AnswerInv, NEW t \in Askers, run[t] # "none", NEW state \in {"completed", "blocked", "canceled"},
         asker' = [asker EXCEPT ![t] = state], run' = [run EXCEPT ![t] = "ended"],
         building' \in Askers \cup {None}, UNCHANGED <<proposal, deciding, runner, child, yes, no>>
  PROVE  AnswerInv'
  BY DEF AnswerInv, AnswerShape, OneAnswer, Unasked, AskerStates, RunStages

LEMMA GapReportedStep ==
  ASSUME AnswerInv, NEW t \in Askers, GapReported(t)
  PROVE  AnswerInv'
  <1>1. CASE asker' = [asker EXCEPT ![t] = "blocked"] /\ UNCHANGED <<proposal, status>>
    BY <1>1 DEF GapReported, AnswerInv, AnswerShape, OneAnswer, Unasked, AskerStates, answers
  <1>2. CASE proposal = None /\ proposal' = t /\ asker' = [asker EXCEPT ![t] = "asking"]
    BY <1>2, SelfmodAssumption DEF GapReported, AnswerInv, AnswerShape, OneAnswer, Unasked, AskerStates, answers
  <1>3. QED
    BY <1>1, <1>2 DEF GapReported

LEMMA DecidedStep ==
  ASSUME AnswerInv, NEW t \in Askers, DecidedNo(t) \/ DecidedYes(t)
  PROVE  AnswerInv'
  <1>1. proposal = t /\ proposal' = None /\ Unasked(t) /\ asker[t] = "asking"
    BY DEF DecidedNo, DecidedYes, Answered, AnswerInv, OneAnswer
  <1>2. CASE DecidedNo(t)
    BY <1>1, <1>2, SelfmodAssumption DEF DecidedNo, AnswerInv, AnswerShape, OneAnswer, Unasked, AskerStates
  <1>3. CASE DecidedYes(t)
    <2>1. yes' = [yes EXCEPT ![t] = @ + 1] /\ UNCHANGED <<asker, building, child, no>>
      BY <1>3 DEF DecidedYes
    <2>2. CASE runner' = t /\ run' = [run EXCEPT ![t] = "signIn"] /\ UNCHANGED deciding
      <3>1. runner' = t /\ UNCHANGED deciding
        BY <2>2
      <3>2. PICK stage \in RunStages \ {"none"} : run' = [run EXCEPT ![t] = stage]
        BY <2>2 DEF RunStages, Running
      <3>3. AnswerShape'
        BY <1>1, <2>1, <3>1, <3>2 DEF AnswerInv, AnswerShape
      <3>4. OneAnswer(t)'
        BY <1>1, <2>1, <3>1, <3>2, SelfmodAssumption DEF AnswerInv, AnswerShape, OneAnswer, Unasked
      <3>5. ASSUME NEW u \in Askers, u # t
            PROVE  OneAnswer(u)'
        BY <1>1, <2>1, <3>1, <3>2, <3>5, SelfmodAssumption DEF AnswerInv, AnswerShape, OneAnswer, Unasked
      <3>6. QED
        BY <3>3, <3>4, <3>5 DEF AnswerInv
    <2>3. CASE deciding' = deciding \cup {t} /\ UNCHANGED <<runner, run>>
      BY <1>1, <2>1, <2>3, SelfmodAssumption DEF AnswerInv, AnswerShape, OneAnswer, Unasked
    <2>4. QED
      BY <1>3, <2>2, <2>3 DEF DecidedYes
  <1>4. QED
    BY <1>2, <1>3

LEMMA RunnerCreatedStep ==
  ASSUME AnswerInv, NEW t \in Askers, RunnerCreated(t)
  PROVE  AnswerInv'
  BY DEF RunnerCreated, AnswerInv, AnswerShape, OneAnswer, Unasked, RunStages, Running, answers

\* An attempt that is over: another one follows, or its runner ends.
LEMMA AttemptStep ==
  ASSUME AnswerInv, NEW t \in Askers, NEW last \in BOOLEAN, run[t] # "none", AttemptOver(t, last)
  PROVE  AnswerInv'
  <1>1. child' \in [Askers -> ChildStates]
    BY DEF AttemptOver, AnswerInv, AnswerShape, ChildStates
  <1>2. building' \in Askers \cup {None}
    BY DEF AttemptOver, AnswerInv, AnswerShape
  <1>3. PICK stage \in RunStages \ {"none"} : run' = [run EXCEPT ![t] = stage]
    BY DEF AttemptOver, RunStages, Running
  <1>4. QED
    BY <1>1, <1>2, <1>3, RunnerMoves DEF AttemptOver, answers

LEMMA RunnerStep ==
  ASSUME AnswerInv, NEW t \in Askers,
         \/ LoopRuns(t) \/ BStagedFor(t) \/ RequestReleased(t) \/ PromotionStarts(t) \/ RequestContinues(t)
         \/ RequestStopped(t)
         \/ \E how \in {"saved", "refused", "broken"}, last \in BOOLEAN : PromotesNothing(t, how, last)
         \/ \E last \in BOOLEAN : AttemptEnds(t, last) \/ SignInEnds(t, last)
  PROVE  AnswerInv'
  <1>1. CASE LoopRuns(t) \/ BStagedFor(t) \/ PromotionStarts(t)
    BY <1>1, RunnerMoves DEF LoopRuns, BStagedFor, PromotionStarts, RunStages, Running, answers, AnswerInv, AnswerShape
  <1>2. CASE RequestReleased(t)
    <2>1. child' \in [Askers -> ChildStates] /\ building' \in Askers \cup {None}
      BY <1>2 DEF RequestReleased, AnswerInv, AnswerShape, ChildStates
    <2>2. QED
      BY <1>2, <2>1, RunnerMoves DEF RequestReleased, RunStages, Running, answers
  <1>3. CASE RequestContinues(t)
    <2>1. child' \in [Askers -> ChildStates] /\ building' \in Askers \cup {None}
      BY <1>3 DEF RequestContinues, AnswerInv, AnswerShape, ChildStates
    <2>2. QED
      BY <1>3, <2>1, RunnerMoves DEF RequestContinues, RunStages, Running, answers
  <1>4. ASSUME NEW last \in BOOLEAN, AttemptEnds(t, last)
        PROVE  AnswerInv'
    BY <1>4, AttemptStep DEF AttemptEnds
  <1>5. ASSUME NEW last \in BOOLEAN, SignInEnds(t, last)
        PROVE  AnswerInv'
    BY <1>5, RunnerMoves DEF SignInEnds, RunStages, Running, answers, AnswerInv, AnswerShape
  <1>6. CASE RequestStopped(t)
    BY <1>6, AttemptStep DEF RequestStopped
  <1>7. ASSUME NEW how \in {"saved", "refused", "broken"}, NEW last \in BOOLEAN, PromotesNothing(t, how, last)
        PROVE  AnswerInv'
    BY <1>7, AttemptStep DEF PromotesNothing
  <1>8. QED
    BY <1>1, <1>2, <1>3, <1>4, <1>5, <1>6, <1>7

LEMMA RunnerEndsStep ==
  ASSUME AnswerInv, NEW t \in Askers, ConnectedEnds(t) \/ \E how \in {"saved", "refused", "broken"} : Promoted(t, how)
  PROVE  AnswerInv'
  <1>1. CASE ConnectedEnds(t) /\ child[t] = "canceled"
    BY <1>1, RunnerMoves DEF ConnectedEnds, RunStages, answers, AnswerInv, AnswerShape
  <1>2. CASE ConnectedEnds(t) /\ child[t] # "canceled"
    BY <1>2, TaskEnds DEF ConnectedEnds, answers, AnswerInv, AnswerShape
  <1>3. ASSUME NEW how \in {"saved", "refused", "broken"}, Promoted(t, how)
        PROVE  AnswerInv'
    BY <1>3, TaskEnds DEF Promoted, answers, AnswerInv, AnswerShape
  <1>4. QED
    BY <1>1, <1>2, <1>3

LEMMA UserCancelsStep ==
  ASSUME AnswerInv, NEW t \in Askers, UserCancels(t)
  PROVE  AnswerInv'
  <1>1. /\ asker[t] # "working" /\ asker' = [asker EXCEPT ![t] = "canceled"]
        /\ UNCHANGED <<deciding, runner, child, yes>>
    BY DEF UserCancels
  <1>2. CASE proposal = t
    <2>1. proposal' = None /\ no' = [no EXCEPT ![t] = @ + 1] /\ UNCHANGED <<run, building>> /\ Unasked(t)
      BY <1>2 DEF UserCancels, AnswerInv, OneAnswer
    <2>2. QED
      BY <1>1, <1>2, <2>1, SelfmodAssumption DEF AnswerInv, AnswerShape, OneAnswer, Unasked, AskerStates
  <1>3. CASE proposal # t
    <2>1. UNCHANGED <<proposal, no>>
      BY <1>3 DEF UserCancels
    <2>2. /\ building' \in Askers \cup {None}
          /\ \/ UNCHANGED run
             \/ \E u \in Askers : run[u] # "none" /\ run' = [run EXCEPT ![u] = "ended"]
      BY <1>3 DEF UserCancels, StopsRun, Stoppable, Running, AnswerInv, AnswerShape
    <2>3. CASE UNCHANGED run
      BY <1>1, <1>3, <2>1, <2>2, <2>3 DEF AnswerInv, AnswerShape, OneAnswer, Unasked, AskerStates
    <2>4. ASSUME NEW u \in Askers, run[u] # "none", run' = [run EXCEPT ![u] = "ended"]
          PROVE  AnswerInv'
      BY <1>1, <1>3, <2>1, <2>2, <2>4 DEF AnswerInv, AnswerShape, OneAnswer, Unasked, AskerStates, RunStages
    <2>5. QED
      BY <2>2, <2>3, <2>4
  <1>4. QED
    BY <1>2, <1>3

LEMMA WorkStep ==
  ASSUME AnswerInv,
         \/ \E of \in Askers \cup {"other"} : WorkStarts(of)
         \/ \E t \in Askers : WaitingCanceled(t)
         \/ \E how \in {"completed", "blocked", "canceled"} : WorkStops(how)
         \/ \E d \in Deploys : TornDownNow(d)
  PROVE  AnswerInv'
  <1>1. /\ UNCHANGED <<asker, proposal, deciding, runner, building, run, yes, no>>
        /\ child' \in [Askers -> ChildStates]
    BY DEF WorkStarts, WaitingCanceled, WorkStops, TornDownNow, answers, AnswerInv, AnswerShape, ChildStates
  <1>2. QED
    BY <1>1 DEF AnswerInv, AnswerShape, OneAnswer, Unasked

LEMMA AnswerNextInv == AnswerInv /\ [ServiceNext]_serviceVars => AnswerInv'
  <1> SUFFICES ASSUME AnswerInv, [ServiceNext]_serviceVars
               PROVE  AnswerInv'
    OBVIOUS
  <1>1. CASE UNCHANGED serviceVars
    BY <1>1 DEF serviceVars, AnswerInv, AnswerShape, OneAnswer, Unasked
  <1>2. CASE ServiceNext
    BY <1>2, GapReportedStep, DecidedStep, RunnerCreatedStep, RunnerStep, RunnerEndsStep, UserCancelsStep, WorkStep
       DEF ServiceNext
  <1>3. QED
    BY <1>1, <1>2

(* Every runner goes back to one yes of the user, and a question is        *)
(* answered once, however answers, cancellations and the ends of runs      *)
(* interleave (selfmod/service.py 451-546, 888-912).                       *)
THEOREM OneYesOneBuild == ServiceSpec => []YesStartsOneBuild
  <1>1. AnswerInv => YesStartsOneBuild
    BY DEF AnswerInv, OneAnswer, YesStartsOneBuild
  <1>2. QED
    BY <1>1, AnswerInitInv, AnswerNextInv, PTL DEF ServiceSpec

-----------------------------------------------------------------------------
LEMMA RoutingInitInv == ServiceInit => RoutingInv
  BY DEF ServiceInit, RoutingInv, NoDeploy, Idle

\* The staged deployment is given up, if there is one.
LEMMA DiscardStep ==
  ASSUME RoutingInv, BDiscarded, UNCHANGED <<deployA, made, torn, worker>>
  PROVE  RoutingInv'
  BY DEF BDiscarded, RoutingInv, NoDeploy

LEMMA SameRouting ==
  ASSUME RoutingInv, UNCHANGED <<deployA, deployB, made, retiring, torn, worker>>
  PROVE  RoutingInv'
  BY DEF RoutingInv

LEMMA RoutingNextInv == RoutingInv /\ [ServiceNext]_serviceVars => RoutingInv'
  <1> SUFFICES ASSUME RoutingInv, [ServiceNext]_serviceVars
               PROVE  RoutingInv'
    OBVIOUS
  <1>1. ASSUME NEW t \in Askers,
               \/ GapReported(t) \/ DecidedNo(t) \/ DecidedYes(t) \/ RunnerCreated(t) \/ LoopRuns(t)
               \/ RequestReleased(t) \/ PromotionStarts(t) \/ RequestContinues(t) \/ ConnectedEnds(t)
               \/ WaitingCanceled(t)
               \/ \E how \in {"saved", "refused", "broken"}, last \in BOOLEAN : PromotesNothing(t, how, last)
               \/ \E ok \in BOOLEAN : SignInEnds(t, ok)
        PROVE  RoutingInv'
    <2>1. UNCHANGED <<deployA, deployB, made, retiring, torn, worker>>
      BY <1>1 DEF GapReported, DecidedNo, DecidedYes, RunnerCreated, LoopRuns, RequestReleased, PromotionStarts,
                  RequestContinues, ConnectedEnds, SignInEnds, PromotesNothing, AttemptOver, WaitingCanceled,
                  routes
    <2>2. QED
      BY <2>1, SameRouting
  <1>2. ASSUME NEW t \in Askers, BStagedFor(t)
        PROVE  RoutingInv'
    BY <1>2 DEF BStagedFor, RoutingInv, NoDeploy
  <1>3. ASSUME NEW t \in Askers, NEW how \in {"saved", "refused", "broken"}, Promoted(t, how)
        PROVE  RoutingInv'
    <2>1. /\ deployB # NoDeploy /\ deployA' = deployB /\ deployB' = NoDeploy
          /\ retiring' = retiring \cup {deployA} /\ UNCHANGED <<made, torn, worker>>
      BY <1>3 DEF Promoted
    <2>2. QED
      BY <2>1 DEF RoutingInv, NoDeploy
  <1>4. ASSUME NEW t \in Askers, RequestStopped(t) \/ \E last \in BOOLEAN : AttemptEnds(t, last)
        PROVE  RoutingInv'
    <2>1. BDiscarded /\ UNCHANGED <<deployA, made, torn, worker>>
      BY <1>4 DEF RequestStopped, AttemptEnds, AttemptOver
    <2>2. QED
      BY <2>1, DiscardStep
  <1>5. ASSUME NEW t \in Askers, UserCancels(t)
        PROVE  RoutingInv'
    <2>1. UNCHANGED <<deployA, made, torn, worker>> /\ (BDiscarded \/ UNCHANGED <<deployB, retiring>>)
      BY <1>5 DEF UserCancels, StopsRun
    <2>2. QED
      BY <2>1, DiscardStep, SameRouting
  <1>6. ASSUME NEW of \in Askers \cup {"other"}, WorkStarts(of)
        PROVE  RoutingInv'
    <2>1. UNCHANGED routes /\ worker'.on \in {deployA, deployB}
      BY <1>6 DEF WorkStarts, RoutedTo
    <2>2. QED
      BY <2>1 DEF RoutingInv, routes
  <1>7. ASSUME NEW how \in {"completed", "blocked", "canceled"}, WorkStops(how)
        PROVE  RoutingInv'
    <2>1. UNCHANGED routes /\ worker'.on = NoDeploy
      BY <1>7 DEF WorkStops, Idle
    <2>2. QED
      BY <2>1 DEF RoutingInv, routes, NoDeploy
  <1>8. ASSUME NEW d \in Deploys, TornDownNow(d)
        PROVE  RoutingInv'
    BY <1>8 DEF TornDownNow, MayTearDown, RoutingInv
  <1>9. CASE UNCHANGED serviceVars
    BY <1>9, SameRouting DEF serviceVars
  <1>10. QED
    BY <1>1, <1>2, <1>3, <1>4, <1>5, <1>6, <1>7, <1>8, <1>9 DEF ServiceNext

\* Work starts on a deployment that serves.
LEMMA StartsOnWhatServes ==
  [ServiceNext]_serviceVars => [worker' # worker /\ worker' # Idle => worker'.on \in {deployA, deployB}]_serviceVars
  <1> SUFFICES ASSUME ServiceNext, worker' # worker, worker' # Idle
               PROVE  worker'.on \in {deployA, deployB}
    OBVIOUS
  <1>1. PICK of \in Askers \cup {"other"} : WorkStarts(of)
    BY DEF ServiceNext, GapReported, DecidedNo, DecidedYes, RunnerCreated, LoopRuns, BStagedFor, RequestReleased,
           PromotionStarts, RequestContinues, ConnectedEnds, UserCancels, Promoted, SignInEnds, AttemptEnds,
           WaitingCanceled, RequestStopped, PromotesNothing, AttemptOver, WorkStops, TornDownNow
  <1>2. QED
    BY <1>1 DEF WorkStarts, RoutedTo

(* Work runs to its end on the deployment it started on, which served      *)
(* then: nothing is torn down under it (deployment.py, service.py          *)
(* 350-362).  Unlike OnlyProvenServes this holds however many builds are   *)
(* under way.                                                              *)
THEOREM WorkKeepsItsDeployment == ServiceSpec => NothingIsPulledAway
  <1>1. RoutingInv => worker.on \notin torn
    BY DEF RoutingInv
  <1>2. QED
    BY <1>1, RoutingInitInv, RoutingNextInv, StartsOnWhatServes, PTL DEF ServiceSpec, NothingIsPulledAway

-----------------------------------------------------------------------------
(* Before its request is released a runner has no continuation, and a save *)
(* begins when it was completed.  The B that is staged belongs to a build  *)
(* that has come that far, and to which its request is linked.             *)
NoChildYet == {"none", "created", "build", "resume", "signIn", "continue"}
Owns(t) == run[t] \in {"resume", "onB", "save"} /\ (run[t] \in {"onB", "save"} => route[t] = deployB)

ServedInv ==
  /\ route \in [Askers -> Nat]
  /\ worker.of \in Askers => child[worker.of] = "running"
  /\ \A t \in Askers : /\ run[t] \in NoChildYet => child[t] = "none"
                       /\ run[t] = "save" => child[t] = "completed"
                       /\ t \in deciding => run[t] = "none"
  /\ deployB # NoDeploy => \E t \in Askers : Owns(t)

SelfmodInv == AnswerInv /\ RoutingInv /\ ServedInv

LEMMA ServedInitInv == ServiceInit => ServedInv
  BY SelfmodAssumption DEF ServiceInit, ServedInv, Idle, NoDeploy

\* What changes for one runner, its continuation and its route.
OnlyOf(t) ==
  /\ \A u \in Askers \ {t} : run'[u] = run[u] /\ child'[u] = child[u] /\ route'[u] = route[u]
  /\ route' \in [Askers -> Nat] /\ deciding' \subseteq deciding \ {t} /\ UNCHANGED worker
  /\ worker.of = t => child'[t] = "running"
  /\ run'[t] \in NoChildYet => child'[t] = "none"
  /\ run'[t] = "save" => child'[t] = "completed"

\* B stays as it is.
LEMMA OneServed ==
  ASSUME ServedInv, NEW t \in Askers, OnlyOf(t), UNCHANGED deployB, deployB # NoDeploy /\ Owns(t) => Owns(t)'
  PROVE  ServedInv'
  <1>1. deployB' # NoDeploy => \E u \in Askers : Owns(u)'
    BY DEF ServedInv, Owns, OnlyOf
  <1>2. QED
    BY <1>1 DEF ServedInv, OnlyOf

\* No B is left.
LEMMA OneEnded ==
  ASSUME ServedInv, NEW t \in Askers, OnlyOf(t), deployB' = NoDeploy
  PROVE  ServedInv'
  BY DEF ServedInv, OnlyOf

\* What is not about a runner leaves these facts.
LEMMA SameServed ==
  ASSUME ServedInv, UNCHANGED <<run, child, route, worker, deployB>>, deciding' \subseteq deciding
  PROVE  ServedInv'
  BY DEF ServedInv, Owns

LEMMA RunnerServed ==
  ASSUME SelfmodInv, NEW t \in Askers,
         \/ LoopRuns(t) \/ RunnerCreated(t) \/ PromotionStarts(t) \/ RequestReleased(t) \/ RequestContinues(t)
         \/ ConnectedEnds(t) \/ \E ok \in BOOLEAN : SignInEnds(t, ok)
  PROVE  ServedInv'
  <1>1. /\ run \in [Askers -> RunStages] /\ child \in [Askers -> ChildStates] /\ route \in [Askers -> Nat]
        /\ deployB \in Nat /\ ServedInv
    BY DEF SelfmodInv, AnswerInv, AnswerShape, ChildStates, ServedInv, RoutingInv
  <1>2. /\ worker.of = t => child[t] = "running"
        /\ t \in deciding => run[t] = "none"
        /\ run[t] \in NoChildYet => child[t] = "none"
    BY DEF SelfmodInv, ServedInv
  <1>3. CASE LoopRuns(t)
    BY <1>1, <1>2, <1>3, OneServed DEF LoopRuns, RunStages, Running, routes, NoChildYet, Owns, OnlyOf
  <1>4. CASE RunnerCreated(t)
    BY <1>1, <1>2, <1>4, OneServed DEF RunnerCreated, RunStages, Running, routes, NoChildYet, Owns, OnlyOf
  <1>5. CASE PromotionStarts(t)
    BY <1>1, <1>2, <1>5, OneServed DEF PromotionStarts, RunStages, Running, routes, NoChildYet, Owns, OnlyOf
  <1>6. CASE RequestReleased(t)
    BY <1>1, <1>2, <1>6, OneServed DEF RequestReleased, RunStages, Running, routes, NoChildYet, Owns, OnlyOf
  <1>7. CASE RequestContinues(t)
    BY <1>1, <1>2, <1>7, OneServed DEF RequestContinues, RunStages, Running, routes, NoChildYet, Owns, OnlyOf
  <1>8. CASE ConnectedEnds(t)
    BY <1>1, <1>2, <1>8, OneServed DEF ConnectedEnds, RunStages, Running, routes, NoChildYet, Owns, OnlyOf
  <1>9. ASSUME NEW ok \in BOOLEAN, SignInEnds(t, ok)
        PROVE  ServedInv'
    BY <1>1, <1>2, <1>9, OneServed DEF SignInEnds, RunStages, Running, routes, NoChildYet, Owns, OnlyOf
  <1>10. QED
    BY <1>3, <1>4, <1>5, <1>6, <1>7, <1>8, <1>9

LEMMA AttemptServed ==
  ASSUME SelfmodInv, NEW t \in Askers, NEW last \in BOOLEAN, AttemptOver(t, last), deployB' = NoDeploy,
         run[t] \notin {"none", "save"} \/ child[t] = "completed", child[t] # "running"
  PROVE  ServedInv'
  <1>1. /\ run \in [Askers -> RunStages] /\ child \in [Askers -> ChildStates] /\ route \in [Askers -> Nat] /\ ServedInv
    BY DEF SelfmodInv, AnswerInv, AnswerShape, ServedInv
  <1>2. (worker.of = t => child[t] = "running") /\ (t \in deciding => run[t] = "none") /\ (run[t] = "none" => child[t] = "none")
    BY DEF SelfmodInv, ServedInv, NoChildYet
  <1>3. OnlyOf(t)
    BY <1>1, <1>2 DEF AttemptOver, OnlyOf, NoChildYet, NoDeploy
  <1>4. QED
    BY <1>1, <1>3, OneEnded

LEMMA BuildServed ==
  ASSUME SelfmodInv, NEW t \in Askers,
         \/ BStagedFor(t) \/ RequestStopped(t) \/ WaitingCanceled(t)
         \/ \E last \in BOOLEAN : AttemptEnds(t, last)
         \/ \E how \in {"saved", "refused", "broken"} : Promoted(t, how) \/ \E last \in BOOLEAN : PromotesNothing(t, how, last)
  PROVE  ServedInv'
  <1>1. /\ run \in [Askers -> RunStages] /\ child \in [Askers -> ChildStates] /\ route \in [Askers -> Nat]
        /\ deployB \in Nat /\ ServedInv
    BY DEF SelfmodInv, AnswerInv, AnswerShape, ServedInv, RoutingInv
  <1>2. /\ worker.of = t => child[t] = "running"
        /\ t \in deciding => run[t] = "none"
        /\ run[t] \in NoChildYet => child[t] = "none"
        /\ run[t] = "save" => child[t] = "completed"
    BY DEF SelfmodInv, ServedInv
  <1>3. CASE BStagedFor(t)
    <2>1. OnlyOf(t) /\ Owns(t)'
      BY <1>1, <1>2, <1>3 DEF BStagedFor, OnlyOf, NoChildYet, Owns
    <2>2. QED
      BY <1>1, <2>1 DEF ServedInv, OnlyOf
  <1>4. CASE RequestStopped(t)
    BY <1>2, <1>4, AttemptServed DEF RequestStopped, BDiscarded
  <1>5. CASE WaitingCanceled(t)
    BY <1>1, <1>2, <1>5, OneServed DEF WaitingCanceled, routes, NoChildYet, Owns, OnlyOf
  <1>6. ASSUME NEW last \in BOOLEAN, AttemptEnds(t, last)
        PROVE  ServedInv'
    BY <1>2, <1>6, AttemptServed DEF AttemptEnds, BDiscarded, NoChildYet
  <1>7. ASSUME NEW how \in {"saved", "refused", "broken"}, Promoted(t, how)
        PROVE  ServedInv'
    BY <1>1, <1>2, <1>7, OneEnded DEF Promoted, OnlyOf, NoChildYet
  <1>8. ASSUME NEW how \in {"saved", "refused", "broken"}, NEW last \in BOOLEAN, PromotesNothing(t, how, last)
        PROVE  ServedInv'
    BY <1>2, <1>8, AttemptServed DEF PromotesNothing
  <1>9. QED
    BY <1>3, <1>4, <1>5, <1>6, <1>7, <1>8

LEMMA WorkServed ==
  ASSUME SelfmodInv,
         \/ \E of \in Askers \cup {"other"} : WorkStarts(of)
         \/ \E how \in {"completed", "blocked", "canceled"} : WorkStops(how)
  PROVE  ServedInv'
  <1>1. /\ run \in [Askers -> RunStages] /\ child \in [Askers -> ChildStates] /\ route \in [Askers -> Nat]
        /\ deployB \in Nat /\ deployA \in Nat /\ ServedInv
    BY DEF SelfmodInv, AnswerInv, AnswerShape, ServedInv, RoutingInv
  <1>2. ASSUME NEW of \in Askers, WorkStarts(of)
        PROVE  ServedInv'
    <2>1. /\ child[of] = "queued" /\ child' = [child EXCEPT ![of] = "running"] /\ worker'.of = of
          /\ route' = [route EXCEPT ![of] = RoutedTo(of)] /\ UNCHANGED <<run, deployB, deciding>>
      BY <1>2 DEF WorkStarts, routes
    <2>2. RoutedTo(of) \in Nat /\ (route[of] = deployB /\ deployB # NoDeploy => RoutedTo(of) = deployB)
      BY <1>1 DEF RoutedTo
    <2>3. \A u \in Askers : Owns(u) /\ deployB # NoDeploy => Owns(u)'
      BY <1>1, <2>1, <2>2 DEF Owns
    <2>4. QED
      BY <1>1, <2>1, <2>2, <2>3 DEF ServedInv, NoChildYet
  <1>3. ASSUME NEW of \in {"other"} \ Askers, WorkStarts(of)
        PROVE  ServedInv'
    <2>1. worker'.of = of /\ UNCHANGED <<run, child, route, deployB, deciding>>
      BY <1>3 DEF WorkStarts, routes
    <2>2. QED
      BY <1>1, <2>1 DEF ServedInv, Owns
  <1>4. ASSUME NEW how \in {"completed", "blocked", "canceled"}, WorkStops(how)
        PROVE  ServedInv'
    <2>1. /\ worker'.of = None /\ UNCHANGED <<run, route, deployB, deciding>>
          /\ child' = IF worker.of \in Askers THEN [child EXCEPT ![worker.of] = how] ELSE child
      BY <1>4 DEF WorkStops, routes, Idle
    <2>2. worker.of \in Askers => run[worker.of] \notin NoChildYet \cup {"save"}
      BY <1>1 DEF ServedInv, NoChildYet
    <2>3. \A u \in Askers : Owns(u) => Owns(u)'
      BY <2>1 DEF Owns
    <2>4. QED
      BY <1>1, <2>1, <2>2, <2>3, SelfmodAssumption DEF ServedInv
  <1>5. QED
    BY <1>2, <1>3, <1>4

LEMMA UserServed ==
  ASSUME SelfmodInv, NEW t \in Askers, GapReported(t) \/ DecidedNo(t) \/ DecidedYes(t) \/ UserCancels(t)
  PROVE  ServedInv'
  <1>1. /\ run \in [Askers -> RunStages] /\ child \in [Askers -> ChildStates] /\ route \in [Askers -> Nat]
        /\ deployB \in Nat /\ ServedInv /\ {runner, building} \subseteq Askers \cup {None}
    BY DEF SelfmodInv, AnswerInv, AnswerShape, ServedInv, RoutingInv
  <1>2. CASE GapReported(t) \/ DecidedNo(t)
    BY <1>1, <1>2, SameServed DEF GapReported, DecidedNo, routes
  <1>3. CASE DecidedYes(t)
    <2>1. Unasked(t) /\ child[t] = "none"
      BY <1>1, <1>3 DEF DecidedYes, Answered, SelfmodInv, AnswerInv, OneAnswer, Unasked, ServedInv, NoChildYet
    <2>2. UNCHANGED <<child, route, worker, deployB>>
      BY <1>3 DEF DecidedYes, routes
    <2>3. CASE run' = [run EXCEPT ![t] = "signIn"] /\ UNCHANGED deciding
      BY <1>1, <2>1, <2>2, <2>3, OneServed DEF Unasked, OnlyOf, NoChildYet, Owns, ServedInv
    <2>4. CASE deciding' = deciding \cup {t} /\ UNCHANGED run
      BY <1>1, <2>1, <2>2, <2>4 DEF Unasked, ServedInv, Owns
    <2>5. QED
      BY <1>3, <2>3, <2>4 DEF DecidedYes
  <1>4. CASE UserCancels(t)
    <2>1. UNCHANGED <<child, route, worker, deciding>>
      BY <1>4 DEF UserCancels
    <2>2. CASE UNCHANGED <<run, deployB>>
      BY <1>1, <2>1, <2>2, SameServed
    <2>3. CASE StopsRun
      <3>1. CASE UNCHANGED <<run, deployB>>
        BY <1>1, <2>1, <3>1, SameServed
      <3>2. ASSUME NEW u \in Askers, run[u] \in Running, run' = [run EXCEPT ![u] = "ended"],
                   deployB' = NoDeploy \/ (UNCHANGED deployB /\ (~ Builds(u) \/ run[u] = "build"))
            PROVE  ServedInv'
        <4>1. OnlyOf(u)
          BY <1>1, <2>1, <3>2 DEF OnlyOf, NoChildYet, Running, ServedInv
        <4>2. ~ Builds(u) \/ run[u] = "build" => ~ Owns(u)
          BY DEF Builds, Owns
        <4>3. QED
          BY <1>1, <3>2, <4>1, <4>2, OneServed, OneEnded
      <3>3. QED
        BY <1>1, <2>3, <3>1, <3>2 DEF StopsRun, Stoppable, BDiscarded
    <2>4. QED
      BY <1>4, <2>2, <2>3 DEF UserCancels
  <1>5. QED
    BY <1>2, <1>3, <1>4

LEMMA SelfmodNextInv == SelfmodInv /\ [ServiceNext]_serviceVars => SelfmodInv'
  <1> SUFFICES ASSUME SelfmodInv, [ServiceNext]_serviceVars
               PROVE  ServedInv'
    BY AnswerNextInv, RoutingNextInv DEF SelfmodInv
  <1>1. CASE UNCHANGED serviceVars
    BY <1>1, SameServed DEF serviceVars, SelfmodInv
  <1>2. ASSUME NEW d \in Deploys, TornDownNow(d)
        PROVE  ServedInv'
    BY <1>2, SameServed DEF TornDownNow, SelfmodInv
  <1>3. QED
    BY <1>1, <1>2, RunnerServed, BuildServed, WorkServed, UserServed DEF ServiceNext

LEMMA ChangesAreEarned ==
  ASSUME SelfmodInv, [ServiceNext]_serviceVars
  PROVE  Earned
  <1>1. ServedInv /\ RoutingInv
    BY DEF SelfmodInv
  <1>2. ASSUME NEW t \in Askers, NEW how \in {"saved", "refused", "broken"}, Promoted(t, how)
        PROVE  Earned
    <2>1. run[t] = "save" /\ child[t] = "completed" /\ deployB # NoDeploy /\ deployA' = deployB /\ UNCHANGED worker
      BY <1>1, <1>2 DEF Promoted, ServedInv
    <2>2. PICK o \in Askers : Owns(o)
      BY <1>1, <2>1 DEF ServedInv
    <2>3. Builds(o) /\ (o = t => route[t] = deployB)
      BY <2>1, <2>2 DEF Owns, Builds
    <2>4. QED
      BY <2>1, <2>3 DEF Earned
  <1>3. ASSUME NEW of \in Askers \cup {"other"}, WorkStarts(of)
        PROVE  Earned
    <2>1. UNCHANGED deployA /\ (of \notin Askers => worker'.on = deployA) /\ (of \in Askers => worker'.of = of)
      BY <1>3 DEF WorkStarts, routes
    <2>2. QED
      BY <1>1, <2>1 DEF Earned, RoutingInv
  <1>4. ASSUME NEW how \in {"completed", "blocked", "canceled"}, WorkStops(how)
        PROVE  Earned
    BY <1>4 DEF WorkStops, Idle, routes, Earned, NoDeploy
  <1>5. CASE UNCHANGED <<deployA, worker>>
    BY <1>5 DEF Earned
  <1>6. QED
    BY <1>2, <1>3, <1>4, <1>5
    DEF ServiceNext, serviceVars, GapReported, DecidedNo, DecidedYes, RunnerCreated, LoopRuns, BStagedFor, RequestReleased,
        PromotionStarts, RequestContinues, ConnectedEnds, UserCancels, SignInEnds, AttemptEnds,
        WaitingCanceled, RequestStopped, PromotesNothing, AttemptOver, TornDownNow, routes

(* B serves requests that were resumed for it, and A is replaced by a      *)
(* build on which the request it was made for was completed, or on which   *)
(* some request was while two builds overlap: a save begins only after     *)
(* completion, and the B that is promoted belongs to a build to which its  *)
(* request is linked (service.py 541-720, deployment.py).                  *)
THEOREM AIsReplacedByWhatWasProven == ServiceSpec => OnlyProvenServes
  <1>1. ServiceInit => SelfmodInv
    BY AnswerInitInv, RoutingInitInv, ServedInitInv DEF SelfmodInv
  <1>2. SelfmodInv /\ [ServiceNext]_serviceVars => SelfmodInv' /\ (Earned \/ UNCHANGED serviceVars)
    BY SelfmodNextInv, ChangesAreEarned
  <1>3. Earned \/ UNCHANGED serviceVars => [Earned]_serviceVars
    OBVIOUS
  <1>4. QED
    BY <1>1, <1>2, <1>3, PTL DEF ServiceSpec, OnlyProvenServes

-----------------------------------------------------------------------------
(* The shapes that the other invariants leave open.                        *)
StatusSet == [state : {"idle", "awaiting", "declined", "running", "stopped", "finished", "failed"}, task : Askers \cup {None}]

NumbersInv ==
  /\ status \in StatusSet /\ made <= MaxDeploys
  /\ route \in [Askers -> 0 .. made] /\ built \in [Askers -> 0 .. made]

LEMMA NumbersInitInv == ServiceInit => NumbersInv
  BY SelfmodAssumption DEF ServiceInit, NumbersInv, StatusSet, NoDeploy

\* Whatever the service says, its status is one.
LEMMA SaysAStatus ==
  ASSUME status \in StatusSet,
         NEW state \in {"idle", "awaiting", "declined", "running", "stopped", "finished", "failed"}, Says(state)
  PROVE  status' \in StatusSet
  BY DEF Says, StatusSet

LEMMA StatusStays == RoutingInv /\ NumbersInv /\ ServiceNext => status' \in StatusSet
  <1> SUFFICES ASSUME NumbersInv, ServiceNext
               PROVE  status' \in StatusSet
    OBVIOUS
  <1>0. status \in StatusSet
    BY DEF NumbersInv
  <1>1. CASE UNCHANGED status
    BY <1>0, <1>1
  <1>2. ASSUME NEW state \in {"idle", "awaiting", "declined", "running", "stopped", "finished", "failed"}, Says(state)
        PROVE  status' \in StatusSet
    BY <1>0, <1>2, SaysAStatus
  <1>3. ASSUME NEW t \in Askers, status' = [state |-> "awaiting", task |-> t]
        PROVE  status' \in StatusSet
    BY <1>3 DEF StatusSet
  <1>4. ASSUME NEW t \in Askers, ConnectedEnds(t)
        PROVE  status' \in StatusSet
    <2>1. \E state \in {"finished", "stopped", "failed"} : Says(state)
      BY <1>4 DEF ConnectedEnds
    <2>2. QED
      BY <1>2, <2>1
  <1>5. QED
    BY <1>1, <1>2, <1>3, <1>4
    DEF ServiceNext, GapReported, DecidedNo, DecidedYes, RunnerCreated, LoopRuns, BStagedFor, RequestReleased,
        PromotionStarts, RequestContinues, UserCancels, StopsRun, SignInEnds, AttemptEnds, Promoted,
        WaitingCanceled, RequestStopped, PromotesNothing, AttemptOver, WorkStarts, WorkStops, TornDownNow

LEMMA NumbersNextInv == RoutingInv /\ NumbersInv /\ [ServiceNext]_serviceVars => NumbersInv'
  <1> SUFFICES ASSUME RoutingInv, NumbersInv, [ServiceNext]_serviceVars
               PROVE  NumbersInv'
    OBVIOUS
  <1>1. CASE UNCHANGED serviceVars
    BY <1>1 DEF serviceVars, NumbersInv
  <1>2. CASE ServiceNext
    <2>0. /\ deployA \in 0 .. made /\ deployB \in 0 .. made /\ made \in Nat /\ made <= MaxDeploys
          /\ route \in [Askers -> 0 .. made] /\ built \in [Askers -> 0 .. made]
      BY DEF RoutingInv, NumbersInv
    <2>1. ASSUME UNCHANGED <<made, built>>, UNCHANGED route \/ \E u \in Askers, d \in 0 .. made : route' = [route EXCEPT ![u] = d]
          PROVE  NumbersInv'
      BY <1>2, <2>0, <2>1, StatusStays DEF NumbersInv
    <2>2. ASSUME NEW t \in Askers, BStagedFor(t)
          PROVE  NumbersInv'
      <3>1. made' = made + 1 /\ made < MaxDeploys /\ built' = [built EXCEPT ![t] = made'] /\ UNCHANGED route
        BY <2>2 DEF BStagedFor
      <3>2. QED
        BY <1>2, <2>0, <3>1, StatusStays, SelfmodAssumption DEF NumbersInv
    <2>3. ASSUME NEW t \in Askers, RequestReleased(t) \/ RequestContinues(t)
          PROVE  NumbersInv'
      BY <2>0, <2>1, <2>3 DEF RequestReleased, RequestContinues, routes
    <2>4. ASSUME NEW t \in Askers, NEW last \in BOOLEAN, AttemptOver(t, last)
          PROVE  NumbersInv'
      <3>1. NoDeploy \in 0 .. made
        BY <2>0 DEF NoDeploy
      <3>2. UNCHANGED <<made, built>> /\ route' = [route EXCEPT ![t] = NoDeploy]
        BY <2>4 DEF AttemptOver
      <3>3. QED
        BY <2>1, <3>1, <3>2
    <2>5. ASSUME NEW of \in Askers, WorkStarts(of)
          PROVE  NumbersInv'
      <3>1. RoutedTo(of) \in 0 .. made
        BY <2>0 DEF RoutedTo
      <3>2. QED
        BY <2>1, <2>5, <3>1 DEF WorkStarts, routes
    <2>6. CASE UNCHANGED <<made, built, route>>
      BY <2>1, <2>6
    <2>7. QED
      BY ZenonT(30), <1>2, <2>2, <2>3, <2>4, <2>5, <2>6
      DEF ServiceNext, GapReported, DecidedNo, DecidedYes, RunnerCreated, LoopRuns,
          PromotionStarts, ConnectedEnds, UserCancels, SignInEnds, AttemptEnds, Promoted,
          WaitingCanceled, RequestStopped, PromotesNothing, WorkStarts, WorkStops, TornDownNow, routes
  <1>3. QED
    BY <1>1, <1>2

(* The state of the service keeps the shape that its code gives it         *)
(* (selfmod/service.py, deployment.py).                                    *)
THEOREM ServiceStaysTyped == ServiceSpec => []ServiceTypeOK
  <1>1. AnswerInv /\ RoutingInv /\ NumbersInv => ServiceTypeOK
    <2> SUFFICES ASSUME AnswerInv, RoutingInv, NumbersInv
                 PROVE  ServiceTypeOK
      OBVIOUS
    <2>1. 0 .. made \subseteq Deploys \cup {NoDeploy} /\ 1 .. made \subseteq Deploys /\ made \in Deploys
      BY SelfmodAssumption DEF RoutingInv, NumbersInv, Deploys, NoDeploy
    <2>2. route \in [Askers -> Deploys \cup {NoDeploy}] /\ built \in [Askers -> Deploys \cup {NoDeploy}]
      BY <2>1 DEF NumbersInv
    <2>3. status.state \in {"idle", "awaiting", "declined", "running", "stopped", "finished", "failed"}
      BY DEF NumbersInv, StatusSet
    <2>4. QED
      BY <2>1, <2>2, <2>3 DEF ServiceTypeOK, AnswerInv, AnswerShape, RoutingInv, AskerStates, RunStages, ChildStates
  <1>2. QED
    BY <1>1, AnswerInitInv, RoutingInitInv, NumbersInitInv, AnswerNextInv, RoutingNextInv, NumbersNextInv, PTL DEF ServiceSpec

-----------------------------------------------------------------------------
(* One build.                                                              *)
BuildStages == {"idle", "author", "testReview", "attempt", "reset", "pause", "done"} \cup Working \cup Activating
BuildSet == [at : BuildStages, attempt : 0 .. MaxAttempts, tests : TestSets \cup {NoTests}, planned : BOOLEAN,
             why : Reasons \cup {"none", "stopped"}, repeats : 0 .. MaxRepeats, base : Nat]
RecordSet == [attempt : 1 .. MaxAttempts, tests : TestSets, tree : Trees, base : Nat]

BuildShape ==
  /\ build \in BuildSet /\ draft \in TestSets \cup {NoTests}
  /\ bench \in Trees \cup {NoTree} /\ taken \in Trees \cup {NoTree}
  /\ unstaged \in Trees \cup {NoTree} /\ serving \in Trees \cup {NoTree}
  /\ shown \subseteq {"checked", "reviewed"} \X Trees \X TestSets
  /\ pausedFile = NoRecord \/ pausedFile \in RecordSet
  /\ resumed \in {"none", "running", "completed", "canceled", "failed"}
  /\ outcome \in {"none", "finished", "gaveUp", "stopped", "fault"} /\ base \in Nat

(* What each stage of an attempt has behind it.                            *)
WritingStages == {"plan", "planReview", "implement", "captured", "checks", "codeReview", "save"}
CapturedStages == {"captured", "checks", "codeReview", "save", "step"}
PlannedStages == {"implement"} \cup CapturedStages \cup Activating

StageHas ==
  /\ Stage("testReview") => draft \in TestSets
  /\ build.at \in Working \cup Activating \cup {"attempt", "reset", "pause"} => build.tests \in TestSets
  /\ build.at \in Working => build.attempt > 0
  /\ build.at \notin {"reset", "done"} => build.repeats < MaxRepeats
  /\ build.at \in WritingStages => bench \in Trees
  /\ build.at \in CapturedStages => taken \in Trees
  /\ build.at \in PlannedStages => build.planned

ProvenTree(t) ==
  /\ t \notin {"base", "foreign"} /\ build.planned
  /\ <<"checked", t, build.tests>> \in shown /\ <<"reviewed", t, build.tests>> \in shown

(* The tree is looked at once, when it is captured: what was checked, what *)
(* was reviewed, what the image was made of and what serves are that tree. *)
TakenIsProven ==
  /\ build.at \in {"checks", "codeReview"} => taken \notin {"base", "foreign"}
  /\ Stage("codeReview") => <<"checked", taken, build.tests>> \in shown
  /\ build.at \in Activating => ProvenTree(taken)
  /\ build.at \in {"submit", "watch", "judge"} => unstaged = NoTree
  /\ {unstaged, serving} \subseteq {taken, NoTree}
  /\ unstaged # NoTree \/ serving # NoTree => build.at \in Activating \cup {"reset"} /\ ProvenTree(taken)
  /\ outcome = "finished" => Stage("done") /\ ProvenTree(taken)

BuildInv == BuildShape /\ StageHas /\ TakenIsProven /\ ResumesItsOwn

LEMMA BuildInitInv == BuildInit => BuildInv
  <1> SUFFICES ASSUME BuildInit
               PROVE  BuildInv
    OBVIOUS
  <1>1. BuildShape
    BY BuildAssumption DEF BuildInit, BuildShape, BuildSet, BuildStages, NoBuild
  <1>2. StageHas /\ TakenIsProven /\ ResumesItsOwn
    BY BuildAssumption DEF BuildInit, StageHas, TakenIsProven, ResumesItsOwn, NoBuild, Stage, Working, Activating, WritingStages,
       CapturedStages, PlannedStages
  <1>3. QED
    BY <1>1, <1>2 DEF BuildInv

\* The records that the loop makes are builds.
LEMMA FreshBuild ==
  ASSUME NEW v \in Nat
  PROVE  [NoBuild EXCEPT !.at = "author", !.base = v] \in BuildSet
  <1>1. "author" \in BuildStages /\ 0 \in 0 .. MaxRepeats /\ 0 \in 0 .. MaxAttempts
    BY BuildAssumption DEF BuildStages
  <1>2. "none" \in Reasons \cup {"none", "stopped"} /\ NoTests \in TestSets \cup {NoTests}
    OBVIOUS
  <1>3. QED
    BY <1>1, <1>2 DEF NoBuild, BuildSet

LEMMA ResumedBuild ==
  ASSUME NEW record \in RecordSet
  PROVE  FromRecord(record) \in BuildSet
  <1>1. "step" \in BuildStages /\ 0 \in 0 .. MaxRepeats /\ record.attempt \in 0 .. MaxAttempts
    BY BuildAssumption DEF BuildStages, Working, RecordSet
  <1>2. "none" \in Reasons \cup {"none", "stopped"} /\ record.tests \in TestSets \cup {NoTests} /\ record.base \in Nat
    BY DEF RecordSet
  <1>3. QED
    BY <1>1, <1>2 DEF NoBuild, FromRecord, BuildSet

LEMMA NextAttempt ==
  ASSUME NEW b \in BuildSet, NEW stage \in BuildStages, NEW n \in 0 .. MaxAttempts
  PROVE  [b EXCEPT !.at = stage, !.attempt = n, !.planned = FALSE] \in BuildSet
  BY DEF BuildSet

LEMMA FailedAttempt ==
  ASSUME NEW b \in BuildSet, NEW stage \in BuildStages, NEW why \in Reasons \cup {"none", "stopped"}, NEW r \in 0 .. MaxRepeats
  PROVE  [b EXCEPT !.at = stage, !.why = why, !.repeats = r] \in BuildSet
  BY DEF BuildSet

LEMMA TestsWrittenBuild ==
  ASSUME BuildInv, NEW k \in TestSets, TestsWritten(k)
  PROVE  BuildInv'
  <1>1. /\ build' \in BuildSet /\ build.at = "author" /\ build'.at = "testReview"
    /\ build'.attempt = build.attempt /\ build'.tests = build.tests /\ build'.planned = build.planned /\ build'.why = build.why /\ build'.repeats = build.repeats /\ build'.base = build.base
    BY BuildAssumption DEF TestsWritten, Goes, Stage, BuildInv, BuildShape, BuildSet, BuildStages, Working, Activating
  <1>2. BuildShape'
    BY <1>1, BuildAssumption DEF TestsWritten, BuildInv, BuildShape, StageHas, RecordSet, Stage, Working, Activating, WritingStages, CapturedStages, PlannedStages
  <1>3. StageHas'
    BY <1>1, BuildAssumption DEF TestsWritten, BuildInv, BuildShape, RecordSet, StageHas, Stage, Working, Activating, WritingStages, CapturedStages, PlannedStages
  <1>4. TakenIsProven' /\ ResumesItsOwn'
    BY <1>1 DEF TestsWritten, BuildInv, StageHas, TakenIsProven, ProvenTree, ResumesItsOwn, Stage, Working, Activating, WritingStages, CapturedStages, PlannedStages
  <1>5. QED
    BY <1>2, <1>3, <1>4 DEF BuildInv

LEMMA AuthoringFaultsBuild ==
  ASSUME BuildInv, AuthoringFaults
  PROVE  BuildInv'
  <1>1. /\ build' \in BuildSet /\ build.at = "author" /\ build'.at = "done"
    /\ build'.attempt = build.attempt /\ build'.tests = build.tests /\ build'.planned = build.planned /\ build'.why = build.why /\ build'.repeats = build.repeats /\ build'.base = build.base
    BY BuildAssumption DEF AuthoringFaults, Goes, Stage, BuildInv, BuildShape, BuildSet, BuildStages, Working, Activating
  <1>2. BuildShape'
    BY <1>1, BuildAssumption DEF AuthoringFaults, BuildInv, BuildShape, StageHas, RecordSet, Stage, Working, Activating, WritingStages, CapturedStages, PlannedStages
  <1>3. StageHas'
    BY <1>1, BuildAssumption DEF AuthoringFaults, BuildInv, BuildShape, RecordSet, StageHas, Stage, Working, Activating, WritingStages, CapturedStages, PlannedStages
  <1>4. TakenIsProven' /\ ResumesItsOwn'
    BY <1>1 DEF AuthoringFaults, BuildInv, StageHas, TakenIsProven, ProvenTree, ResumesItsOwn, Stage, Working, Activating, WritingStages, CapturedStages, PlannedStages
  <1>5. QED
    BY <1>2, <1>3, <1>4 DEF BuildInv

LEMMA PlanReadBuild ==
  ASSUME BuildInv, NEW approved \in BOOLEAN, PlanRead(approved)
  PROVE  BuildInv'
  <1>1. /\ build' \in BuildSet /\ build.at = "plan" /\ build'.at \in {"plan", "planReview"}
    /\ build'.attempt = build.attempt /\ build'.tests = build.tests /\ build'.planned = build.planned /\ build'.why = build.why /\ build'.repeats = build.repeats /\ build'.base = build.base
    BY BuildAssumption DEF PlanRead, Goes, Stage, BuildInv, BuildShape, BuildSet, BuildStages, Working, Activating
  <1>2. BuildShape'
    BY <1>1, BuildAssumption DEF PlanRead, BuildInv, BuildShape, StageHas, RecordSet, Stage, Working, Activating, WritingStages, CapturedStages, PlannedStages
  <1>3. StageHas'
    BY <1>1, BuildAssumption DEF PlanRead, BuildInv, BuildShape, RecordSet, StageHas, Stage, Working, Activating, WritingStages, CapturedStages, PlannedStages
  <1>4. TakenIsProven' /\ ResumesItsOwn'
    BY <1>1 DEF PlanRead, BuildInv, StageHas, TakenIsProven, ProvenTree, ResumesItsOwn, Stage, Working, Activating, WritingStages, CapturedStages, PlannedStages
  <1>5. QED
    BY <1>2, <1>3, <1>4 DEF BuildInv

LEMMA BuilderRepliesBuild ==
  ASSUME BuildInv, NEW approved \in BOOLEAN, BuilderReplies(approved)
  PROVE  BuildInv'
  <1>1. /\ build' \in BuildSet /\ build.at = "implement" /\ build'.at \in {"save", "captured"}
    /\ build'.attempt = build.attempt /\ build'.tests = build.tests /\ build'.planned = build.planned /\ build'.why = build.why /\ build'.repeats = build.repeats /\ build'.base = build.base
    BY BuildAssumption DEF BuilderReplies, Goes, Stage, BuildInv, BuildShape, BuildSet, BuildStages, Working, Activating
  <1>2. BuildShape'
    BY <1>1, BuildAssumption DEF BuilderReplies, BuildInv, BuildShape, StageHas, RecordSet, Stage, Working, Activating, WritingStages, CapturedStages, PlannedStages
  <1>3. StageHas'
    BY <1>1, BuildAssumption DEF BuilderReplies, BuildInv, BuildShape, RecordSet, StageHas, Stage, Working, Activating, WritingStages, CapturedStages, PlannedStages
  <1>4. TakenIsProven' /\ ResumesItsOwn'
    BY <1>1 DEF BuilderReplies, BuildInv, StageHas, TakenIsProven, ProvenTree, ResumesItsOwn, Stage, Working, Activating, WritingStages, CapturedStages, PlannedStages
  <1>5. QED
    BY <1>2, <1>3, <1>4 DEF BuildInv

LEMMA CodeReviewedBuild ==
  ASSUME BuildInv, NEW approved \in BOOLEAN, CodeReviewed(approved)
  PROVE  BuildInv'
  <1>1. /\ build' \in BuildSet /\ build.at = "codeReview" /\ build'.at = (IF approved THEN "image" ELSE "implement")
    /\ build'.attempt = build.attempt /\ build'.tests = build.tests /\ build'.planned = build.planned /\ build'.why = build.why /\ build'.repeats = build.repeats /\ build'.base = build.base
    BY BuildAssumption DEF CodeReviewed, Goes, Stage, SessionEnds, BuildInv, BuildShape, BuildSet, BuildStages, Working, Activating
  <1>2. BuildShape'
    BY <1>1, BuildAssumption DEF CodeReviewed, BuildInv, BuildShape, StageHas, RecordSet, Stage, Working, Activating, WritingStages, CapturedStages, PlannedStages, SessionEnds
  <1>3. StageHas'
    BY <1>1, BuildAssumption DEF CodeReviewed, BuildInv, BuildShape, RecordSet, StageHas, Stage, Working, Activating, WritingStages, CapturedStages, PlannedStages, SessionEnds
  <1>4. TakenIsProven' /\ ResumesItsOwn'
    BY <1>1 DEF CodeReviewed, BuildInv, StageHas, TakenIsProven, ProvenTree, ResumesItsOwn, Stage, Working, Activating, WritingStages, CapturedStages, PlannedStages, SessionEnds
  <1>5. QED
    BY <1>2, <1>3, <1>4 DEF BuildInv

LEMMA PolicyAppliedBuild ==
  ASSUME BuildInv, PolicyApplied
  PROVE  BuildInv'
  <1>1. /\ build' \in BuildSet /\ build.at = "captured" /\ build'.at = (IF Lawful THEN "checks" ELSE "implement")
    /\ build'.attempt = build.attempt /\ build'.tests = build.tests /\ build'.planned = build.planned /\ build'.why = build.why /\ build'.repeats = build.repeats /\ build'.base = build.base
    BY BuildAssumption DEF PolicyApplied, Goes, Stage, Lawful, BuildInv, BuildShape, BuildSet, BuildStages, Working, Activating
  <1>2. BuildShape'
    BY <1>1, BuildAssumption DEF PolicyApplied, BuildInv, BuildShape, StageHas, RecordSet, Stage, Working, Activating, WritingStages, CapturedStages, PlannedStages, Lawful
  <1>3. StageHas'
    BY <1>1, BuildAssumption DEF PolicyApplied, BuildInv, BuildShape, RecordSet, StageHas, Stage, Working, Activating, WritingStages, CapturedStages, PlannedStages, Lawful
  <1>4. TakenIsProven' /\ ResumesItsOwn'
    BY <1>1 DEF PolicyApplied, BuildInv, StageHas, TakenIsProven, ProvenTree, ResumesItsOwn, Stage, Working, Activating, WritingStages, CapturedStages, PlannedStages, Lawful
  <1>5. QED
    BY <1>2, <1>3, <1>4 DEF BuildInv

LEMMA ChecksRunBuild ==
  ASSUME BuildInv, ChecksRun
  PROVE  BuildInv'
  <1>1. /\ build' \in BuildSet /\ build.at = "checks" /\ build'.at = (IF taken = "sound" THEN "codeReview" ELSE "implement")
    /\ build'.attempt = build.attempt /\ build'.tests = build.tests /\ build'.planned = build.planned /\ build'.why = build.why /\ build'.repeats = build.repeats /\ build'.base = build.base
    BY BuildAssumption DEF ChecksRun, Goes, Stage, BuildInv, BuildShape, BuildSet, BuildStages, Working, Activating
  <1>2. BuildShape'
    BY <1>1, BuildAssumption DEF ChecksRun, BuildInv, BuildShape, StageHas, RecordSet, Stage, Working, Activating, WritingStages, CapturedStages, PlannedStages
  <1>3. StageHas'
    BY <1>1, BuildAssumption DEF ChecksRun, BuildInv, BuildShape, RecordSet, StageHas, Stage, Working, Activating, WritingStages, CapturedStages, PlannedStages
  <1>4. TakenIsProven' /\ ResumesItsOwn'
    BY <1>1 DEF ChecksRun, BuildInv, StageHas, TakenIsProven, ProvenTree, ResumesItsOwn, Stage, Working, Activating, WritingStages, CapturedStages, PlannedStages
  <1>5. QED
    BY <1>2, <1>3, <1>4 DEF BuildInv

LEMMA StepSavedBuild ==
  ASSUME BuildInv, StepSaved
  PROVE  BuildInv'
  <1>1. /\ build' \in BuildSet /\ build.at = "save" /\ build'.at = "step"
    /\ build'.attempt = build.attempt /\ build'.tests = build.tests /\ build'.planned = build.planned /\ build'.why = build.why /\ build'.repeats = build.repeats /\ build'.base = build.base
    BY BuildAssumption DEF StepSaved, Goes, Stage, SessionEnds, ToRecord, BuildInv, BuildShape, BuildSet, BuildStages, Working, Activating
  <1>a. pausedFile' \in RecordSet
    <2>1. build.attempt \in 1 .. MaxAttempts /\ build.tests \in TestSets /\ taken \in Trees /\ build.base \in Nat
      BY BuildAssumption DEF StepSaved, Stage, BuildInv, BuildShape, BuildSet, StageHas, Working, CapturedStages
    <2>2. QED
      BY <2>1 DEF StepSaved, ToRecord, RecordSet
  <1>2. BuildShape'
    BY <1>1, <1>a DEF StepSaved, SessionEnds, BuildInv, BuildShape
  <1>3. StageHas'
    BY <1>1, BuildAssumption DEF StepSaved, BuildInv, BuildShape, RecordSet, StageHas, Stage, Working, Activating, WritingStages, CapturedStages, PlannedStages, SessionEnds, ToRecord
  <1>4. TakenIsProven' /\ ResumesItsOwn'
    BY <1>1 DEF StepSaved, BuildInv, StageHas, TakenIsProven, ProvenTree, ResumesItsOwn, Stage, Working, Activating, WritingStages, CapturedStages, PlannedStages, SessionEnds, ToRecord
  <1>5. QED
    BY <1>2, <1>3, <1>4 DEF BuildInv

LEMMA StepSettledBuild ==
  ASSUME BuildInv, StepSettled
  PROVE  BuildInv'
  <1>1. /\ build' \in BuildSet /\ build.at = "step" /\ build'.at = "implement"
    /\ build'.attempt = build.attempt /\ build'.tests = build.tests /\ build'.planned = build.planned /\ build'.why = build.why /\ build'.repeats = build.repeats /\ build'.base = build.base
    BY BuildAssumption DEF StepSettled, Goes, Stage, SessionOpens, BuildInv, BuildShape, BuildSet, BuildStages, Working, Activating
  <1>2. BuildShape'
    BY <1>1, BuildAssumption DEF StepSettled, BuildInv, BuildShape, StageHas, RecordSet, Stage, Working, Activating, WritingStages, CapturedStages, PlannedStages, SessionOpens
  <1>3. StageHas'
    BY <1>1, BuildAssumption DEF StepSettled, BuildInv, BuildShape, RecordSet, StageHas, Stage, Working, Activating, WritingStages, CapturedStages, PlannedStages, SessionOpens
  <1>4. TakenIsProven' /\ ResumesItsOwn'
    BY <1>1 DEF StepSettled, BuildInv, StageHas, TakenIsProven, ProvenTree, ResumesItsOwn, Stage, Working, Activating, WritingStages, CapturedStages, PlannedStages, SessionOpens
  <1>5. QED
    BY <1>2, <1>3, <1>4 DEF BuildInv

LEMMA ImageBuiltBuild ==
  ASSUME BuildInv, ImageBuilt
  PROVE  BuildInv'
  <1>1. /\ build' \in BuildSet /\ build.at = "image" /\ build'.at = "probe"
    /\ build'.attempt = build.attempt /\ build'.tests = build.tests /\ build'.planned = build.planned /\ build'.why = build.why /\ build'.repeats = build.repeats /\ build'.base = build.base
    BY BuildAssumption DEF ImageBuilt, Goes, Stage, BuildInv, BuildShape, BuildSet, BuildStages, Working, Activating
  <1>2. BuildShape'
    BY <1>1, BuildAssumption DEF ImageBuilt, BuildInv, BuildShape, StageHas, RecordSet, Stage, Working, Activating, WritingStages, CapturedStages, PlannedStages
  <1>3. StageHas'
    BY <1>1, BuildAssumption DEF ImageBuilt, BuildInv, BuildShape, RecordSet, StageHas, Stage, Working, Activating, WritingStages, CapturedStages, PlannedStages
  <1>4. TakenIsProven' /\ ResumesItsOwn'
    BY <1>1 DEF ImageBuilt, BuildInv, StageHas, TakenIsProven, ProvenTree, ResumesItsOwn, Stage, Working, Activating, WritingStages, CapturedStages, PlannedStages
  <1>5. QED
    BY <1>2, <1>3, <1>4 DEF BuildInv

LEMMA SurfaceProbedBuild ==
  ASSUME BuildInv, SurfaceProbed
  PROVE  BuildInv'
  <1>1. /\ build' \in BuildSet /\ build.at = "probe" /\ build'.at = "stage"
    /\ build'.attempt = build.attempt /\ build'.tests = build.tests /\ build'.planned = build.planned /\ build'.why = build.why /\ build'.repeats = build.repeats /\ build'.base = build.base
    BY BuildAssumption DEF SurfaceProbed, Goes, Stage, BuildInv, BuildShape, BuildSet, BuildStages, Working, Activating
  <1>2. BuildShape'
    BY <1>1, BuildAssumption DEF SurfaceProbed, BuildInv, BuildShape, StageHas, RecordSet, Stage, Working, Activating, WritingStages, CapturedStages, PlannedStages
  <1>3. StageHas'
    BY <1>1, BuildAssumption DEF SurfaceProbed, BuildInv, BuildShape, RecordSet, StageHas, Stage, Working, Activating, WritingStages, CapturedStages, PlannedStages
  <1>4. TakenIsProven' /\ ResumesItsOwn'
    BY <1>1 DEF SurfaceProbed, BuildInv, StageHas, TakenIsProven, ProvenTree, ResumesItsOwn, Stage, Working, Activating, WritingStages, CapturedStages, PlannedStages
  <1>5. QED
    BY <1>2, <1>3, <1>4 DEF BuildInv

LEMMA BStagedBuild ==
  ASSUME BuildInv, BStaged
  PROVE  BuildInv'
  <1>1. /\ build' \in BuildSet /\ build.at = "stage" /\ build'.at = "submit"
    /\ build'.attempt = build.attempt /\ build'.tests = build.tests /\ build'.planned = build.planned /\ build'.why = build.why /\ build'.repeats = build.repeats /\ build'.base = build.base
    BY BuildAssumption DEF BStaged, Goes, Stage, BuildInv, BuildShape, BuildSet, BuildStages, Working, Activating
  <1>2. BuildShape'
    BY <1>1, BuildAssumption DEF BStaged, BuildInv, BuildShape, StageHas, RecordSet, Stage, Working, Activating, WritingStages, CapturedStages, PlannedStages
  <1>3. StageHas'
    BY <1>1, BuildAssumption DEF BStaged, BuildInv, BuildShape, RecordSet, StageHas, Stage, Working, Activating, WritingStages, CapturedStages, PlannedStages
  <1>4. TakenIsProven' /\ ResumesItsOwn'
    BY <1>1 DEF BStaged, BuildInv, StageHas, TakenIsProven, ProvenTree, ResumesItsOwn, Stage, Working, Activating, WritingStages, CapturedStages, PlannedStages
  <1>5. QED
    BY <1>2, <1>3, <1>4 DEF BuildInv

LEMMA RequestResumedBuild ==
  ASSUME BuildInv, RequestResumed
  PROVE  BuildInv'
  <1>1. /\ build' \in BuildSet /\ build.at = "submit" /\ build'.at = "watch"
    /\ build'.attempt = build.attempt /\ build'.tests = build.tests /\ build'.planned = build.planned /\ build'.why = build.why /\ build'.repeats = build.repeats /\ build'.base = build.base
    BY BuildAssumption DEF RequestResumed, Goes, Stage, BuildInv, BuildShape, BuildSet, BuildStages, Working, Activating
  <1>2. BuildShape'
    BY <1>1, BuildAssumption DEF RequestResumed, BuildInv, BuildShape, StageHas, RecordSet, Stage, Working, Activating, WritingStages, CapturedStages, PlannedStages
  <1>3. StageHas'
    BY <1>1, BuildAssumption DEF RequestResumed, BuildInv, BuildShape, RecordSet, StageHas, Stage, Working, Activating, WritingStages, CapturedStages, PlannedStages
  <1>4. TakenIsProven' /\ ResumesItsOwn'
    BY <1>1 DEF RequestResumed, BuildInv, StageHas, TakenIsProven, ProvenTree, ResumesItsOwn, Stage, Working, Activating, WritingStages, CapturedStages, PlannedStages
  <1>5. QED
    BY <1>2, <1>3, <1>4 DEF BuildInv

LEMMA BPromotedBuild ==
  ASSUME BuildInv, BPromoted
  PROVE  BuildInv'
  <1>1. /\ build' \in BuildSet /\ build.at = "watch" /\ build'.at = "done"
    /\ build'.attempt = build.attempt /\ build'.tests = build.tests /\ build'.planned = build.planned /\ build'.why = build.why /\ build'.repeats = build.repeats /\ build'.base = build.base
    BY BuildAssumption DEF BPromoted, Goes, Stage, LoopEnds, BuildInv, BuildShape, BuildSet, BuildStages, Working, Activating
  <1>2. BuildShape'
    BY <1>1, BuildAssumption DEF BPromoted, BuildInv, BuildShape, StageHas, RecordSet, Stage, Working, Activating, WritingStages, CapturedStages, PlannedStages, LoopEnds
  <1>3. StageHas'
    BY <1>1, BuildAssumption DEF BPromoted, BuildInv, BuildShape, RecordSet, StageHas, Stage, Working, Activating, WritingStages, CapturedStages, PlannedStages, LoopEnds
  <1>4. TakenIsProven' /\ ResumesItsOwn'
    BY <1>1 DEF BPromoted, BuildInv, StageHas, TakenIsProven, ProvenTree, ResumesItsOwn, Stage, Working, Activating, WritingStages, CapturedStages, PlannedStages, LoopEnds
  <1>5. QED
    BY <1>2, <1>3, <1>4 DEF BuildInv

LEMMA ResetBuild ==
  ASSUME BuildInv, Reset
  PROVE  BuildInv'
  <1>1. /\ build' \in BuildSet /\ build.at = "reset" /\ build'.at \in {"done", "pause"}
    /\ (build'.at = "pause" => build.repeats < MaxRepeats) /\ (build'.at = "done" => outcome' \in {"stopped", "gaveUp"} /\ pausedFile' = NoRecord)
    /\ build'.attempt = build.attempt /\ build'.tests = build.tests /\ build'.planned = build.planned /\ build'.why = build.why /\ build'.repeats = build.repeats /\ build'.base = build.base
    BY BuildAssumption DEF Reset, Goes, Stage, LoopEnds, Scrapped, LoopEnds, BuildInv, BuildShape, BuildSet, BuildStages, Working, Activating
  <1>2. BuildShape'
    BY <1>1, BuildAssumption DEF Reset, BuildInv, BuildShape, StageHas, RecordSet, Stage, Working, Activating, WritingStages, CapturedStages, PlannedStages, Scrapped, LoopEnds
  <1>3. StageHas'
    BY <1>1, BuildAssumption DEF Reset, BuildInv, BuildShape, RecordSet, StageHas, Stage, Working, Activating, WritingStages, CapturedStages, PlannedStages, Scrapped, LoopEnds
  <1>4. TakenIsProven' /\ ResumesItsOwn'
    BY <1>1 DEF Reset, BuildInv, StageHas, TakenIsProven, ProvenTree, ResumesItsOwn, Stage, Working, Activating, WritingStages, CapturedStages, PlannedStages, Scrapped, LoopEnds
  <1>5. QED
    BY <1>2, <1>3, <1>4 DEF BuildInv

LEMMA PauseEndsBuild ==
  ASSUME BuildInv, PauseEnds
  PROVE  BuildInv'
  <1>1. /\ build' \in BuildSet /\ build.at = "pause" /\ build'.at = "attempt"
    /\ build'.attempt = build.attempt /\ build'.tests = build.tests /\ build'.planned = build.planned /\ build'.why = build.why /\ build'.repeats = build.repeats /\ build'.base = build.base
    BY BuildAssumption DEF PauseEnds, Goes, Stage, BuildInv, BuildShape, BuildSet, BuildStages, Working, Activating
  <1>2. BuildShape'
    BY <1>1, BuildAssumption DEF PauseEnds, BuildInv, BuildShape, StageHas, RecordSet, Stage, Working, Activating, WritingStages, CapturedStages, PlannedStages
  <1>3. StageHas'
    BY <1>1, BuildAssumption DEF PauseEnds, BuildInv, BuildShape, RecordSet, StageHas, Stage, Working, Activating, WritingStages, CapturedStages, PlannedStages
  <1>4. TakenIsProven' /\ ResumesItsOwn'
    BY <1>1 DEF PauseEnds, BuildInv, StageHas, TakenIsProven, ProvenTree, ResumesItsOwn, Stage, Working, Activating, WritingStages, CapturedStages, PlannedStages
  <1>5. QED
    BY <1>2, <1>3, <1>4 DEF BuildInv

LEMMA TestsReviewedBuild ==
  ASSUME BuildInv, NEW approved \in BOOLEAN, TestsReviewed(approved)
  PROVE  BuildInv'
  <1>1. /\ build' \in BuildSet /\ build.at = "testReview"
    /\ build'.at = (IF approved THEN "attempt" ELSE "author") /\ (approved => build'.tests = draft)
    /\ build'.attempt = build.attempt /\ build'.planned = build.planned /\ build'.why = build.why /\ build'.repeats = build.repeats /\ build'.base = build.base
    BY BuildAssumption DEF TestsReviewed, Goes, Stage, StageHas, BuildInv, BuildShape, BuildSet, BuildStages, Working, Activating
  <1>2. BuildShape'
    BY <1>1, BuildAssumption DEF TestsReviewed, BuildInv, BuildShape, StageHas, RecordSet, Stage, Working, Activating, WritingStages, CapturedStages, PlannedStages
  <1>3. StageHas'
    BY <1>1, BuildAssumption DEF TestsReviewed, BuildInv, BuildShape, RecordSet, StageHas, Stage, Working, Activating, WritingStages, CapturedStages, PlannedStages
  <1>4. TakenIsProven' /\ ResumesItsOwn'
    BY <1>1 DEF TestsReviewed, BuildInv, StageHas, TakenIsProven, ProvenTree, ResumesItsOwn, Stage, Working, Activating, WritingStages, CapturedStages, PlannedStages
  <1>5. QED
    BY <1>2, <1>3, <1>4 DEF BuildInv

LEMMA AttemptBeginsBuild ==
  ASSUME BuildInv, AttemptBegins
  PROVE  BuildInv'
  <1> DEFINE b == [build EXCEPT !.at = "plan", !.attempt = @ + 1, !.planned = FALSE]
  <1>a. build \in BuildSet /\ build.attempt + 1 \in 0 .. MaxAttempts
    BY BuildAssumption DEF AttemptBegins, BuildInv, BuildShape, BuildSet, BuildStages, StageHas, Stage, Working, Activating
  <1>b. b \in BuildSet
    <2>1. "plan" \in BuildStages
      BY DEF BuildStages, Working
    <2>2. QED
      BY <1>a, <2>1, NextAttempt
  <1>1. /\ build' \in BuildSet /\ build.at = "attempt" /\ build'.at = "plan" /\ build'.attempt = build.attempt + 1
    /\ build'.tests = build.tests /\ build'.why = build.why /\ build'.repeats = build.repeats /\ build'.base = build.base
    BY <1>a, <1>b DEF AttemptBegins, BuildSet, Stage, Working, Activating
  <1>2. BuildShape'
    BY <1>1, BuildAssumption DEF AttemptBegins, BuildInv, BuildShape, StageHas, RecordSet, Trees, Stage, Working, Activating, WritingStages, CapturedStages, PlannedStages, SessionOpens
  <1>3. StageHas'
    BY <1>1, <1>a, BuildAssumption DEF AttemptBegins, BuildSet, BuildInv, BuildShape, RecordSet, StageHas, Trees, Stage, Working, Activating, WritingStages, CapturedStages, PlannedStages, SessionOpens
  <1>4. TakenIsProven' /\ ResumesItsOwn'
    BY <1>1 DEF AttemptBegins, BuildInv, StageHas, TakenIsProven, ProvenTree, ResumesItsOwn, Stage, Working, Activating, WritingStages, CapturedStages, PlannedStages, SessionOpens
  <1>5. QED
    BY <1>2, <1>3, <1>4 DEF BuildInv

LEMMA PlanReviewedBuild ==
  ASSUME BuildInv, NEW approved \in BOOLEAN, PlanReviewed(approved)
  PROVE  BuildInv'
  <1>1. /\ build' \in BuildSet /\ build.at = "planReview"
    /\ build'.at = (IF approved THEN "implement" ELSE "plan") /\ (approved => build'.planned)
    /\ build'.attempt = build.attempt /\ build'.tests = build.tests /\ build'.why = build.why /\ build'.repeats = build.repeats /\ build'.base = build.base
    BY BuildAssumption DEF PlanReviewed, Goes, Stage, BuildInv, BuildShape, BuildSet, BuildStages, Working, Activating
  <1>2. BuildShape'
    BY <1>1, BuildAssumption DEF PlanReviewed, BuildInv, BuildShape, StageHas, RecordSet, Stage, Working, Activating, WritingStages, CapturedStages, PlannedStages
  <1>3. StageHas'
    BY <1>1, BuildAssumption DEF PlanReviewed, BuildInv, BuildShape, RecordSet, StageHas, Stage, Working, Activating, WritingStages, CapturedStages, PlannedStages
  <1>4. TakenIsProven' /\ ResumesItsOwn'
    BY <1>1 DEF PlanReviewed, BuildInv, StageHas, TakenIsProven, ProvenTree, ResumesItsOwn, Stage, Working, Activating, WritingStages, CapturedStages, PlannedStages
  <1>5. QED
    BY <1>2, <1>3, <1>4 DEF BuildInv

LEMMA AgentWritesBuild ==
  ASSUME BuildInv, NEW t \in Trees, AgentWrites(t)
  PROVE  BuildInv'
  <1>1. /\ build' = build /\ build.at \in Working
    BY BuildAssumption DEF AgentWrites, Goes, Stage, BuildInv, BuildShape, BuildSet, BuildStages, Working, Activating
  <1>2. BuildShape'
    BY <1>1, BuildAssumption DEF AgentWrites, BuildInv, BuildShape, StageHas, RecordSet, Stage, Working, Activating, WritingStages, CapturedStages, PlannedStages
  <1>3. StageHas'
    BY <1>1, BuildAssumption DEF AgentWrites, BuildInv, BuildShape, RecordSet, StageHas, Stage, Working, Activating, WritingStages, CapturedStages, PlannedStages
  <1>4. TakenIsProven' /\ ResumesItsOwn'
    BY <1>1 DEF AgentWrites, BuildInv, StageHas, TakenIsProven, ProvenTree, ResumesItsOwn, Stage, Working, Activating, WritingStages, CapturedStages, PlannedStages
  <1>5. QED
    BY <1>2, <1>3, <1>4 DEF BuildInv

LEMMA ContinuationEndsBuild ==
  ASSUME BuildInv, NEW how \in {"completed", "canceled", "failed"}, ContinuationEnds(how)
  PROVE  BuildInv'
  <1>1. /\ build' = build
    BY BuildAssumption DEF ContinuationEnds, Goes, Stage, BuildInv, BuildShape, BuildSet, BuildStages, Working, Activating
  <1>2. BuildShape'
    BY <1>1, BuildAssumption DEF ContinuationEnds, BuildInv, BuildShape, StageHas, RecordSet, Stage, Working, Activating, WritingStages, CapturedStages, PlannedStages
  <1>3. StageHas'
    BY <1>1, BuildAssumption DEF ContinuationEnds, BuildInv, BuildShape, RecordSet, StageHas, Stage, Working, Activating, WritingStages, CapturedStages, PlannedStages
  <1>4. TakenIsProven' /\ ResumesItsOwn'
    BY <1>1 DEF ContinuationEnds, BuildInv, StageHas, TakenIsProven, ProvenTree, ResumesItsOwn, Stage, Working, Activating, WritingStages, CapturedStages, PlannedStages
  <1>5. QED
    BY <1>2, <1>3, <1>4 DEF BuildInv

LEMMA RequestCanceledBuild ==
  ASSUME BuildInv, RequestCanceled
  PROVE  BuildInv'
  <1>1. /\ build' \in BuildSet /\ build.at = "watch" /\ build'.at = "reset"
    /\ build'.attempt = build.attempt /\ build'.tests = build.tests /\ build'.planned = build.planned /\ build'.repeats = build.repeats /\ build'.base = build.base
    BY BuildAssumption DEF RequestCanceled, Goes, Stage, BuildInv, BuildShape, BuildSet, BuildStages, Working, Activating
  <1>2. BuildShape'
    BY <1>1, BuildAssumption DEF RequestCanceled, BuildInv, BuildShape, StageHas, RecordSet, Stage, Working, Activating, WritingStages, CapturedStages, PlannedStages
  <1>3. StageHas'
    BY <1>1, BuildAssumption DEF RequestCanceled, BuildInv, BuildShape, RecordSet, StageHas, Stage, Working, Activating, WritingStages, CapturedStages, PlannedStages
  <1>4. TakenIsProven' /\ ResumesItsOwn'
    BY <1>1 DEF RequestCanceled, BuildInv, StageHas, TakenIsProven, ProvenTree, ResumesItsOwn, Stage, Working, Activating, WritingStages, CapturedStages, PlannedStages
  <1>5. QED
    BY <1>2, <1>3, <1>4 DEF BuildInv

LEMMA AttemptFailsBuild ==
  ASSUME BuildInv, NEW reason \in Reasons, AttemptFails(reason)
  PROVE  BuildInv'
  <1> DEFINE b == [build EXCEPT !.at = "reset", !.why = reason, !.repeats = IF build.why = reason THEN @ + 1 ELSE 1]
  <1>a. build \in BuildSet /\ build.repeats < MaxRepeats
    BY BuildAssumption DEF AttemptFails, BuildInv, BuildShape, BuildSet, BuildStages, StageHas, Stage, Working, Activating
  <1>b. b \in BuildSet
    <2>1. "reset" \in BuildStages /\ reason \in Reasons \cup {"none", "stopped"}
      BY DEF BuildStages
    <2>2. (IF build.why = reason THEN build.repeats + 1 ELSE 1) \in 0 .. MaxRepeats
      BY <1>a, BuildAssumption DEF BuildSet
    <2>3. QED
      BY <1>a, <2>1, <2>2, FailedAttempt
  <1>1. /\ build' \in BuildSet /\ build.at \in Working \cup Activating /\ build'.at = "reset"
    /\ build'.attempt = build.attempt /\ build'.tests = build.tests /\ build'.planned = build.planned /\ build'.base = build.base
    BY <1>a, <1>b DEF AttemptFails, BuildSet, Stage, Working, Activating
  <1>2. BuildShape'
    BY <1>1, BuildAssumption DEF AttemptFails, BuildInv, BuildShape, StageHas, RecordSet, Stage, Working, Activating, WritingStages, CapturedStages, PlannedStages, SessionEnds
  <1>3. StageHas'
    BY <1>1, BuildAssumption DEF AttemptFails, BuildInv, BuildShape, RecordSet, StageHas, Stage, Working, Activating, WritingStages, CapturedStages, PlannedStages, SessionEnds
  <1>4. TakenIsProven' /\ ResumesItsOwn'
    BY <1>1 DEF AttemptFails, BuildInv, StageHas, TakenIsProven, ProvenTree, ResumesItsOwn, Stage, Working, Activating, WritingStages, CapturedStages, PlannedStages, SessionEnds
  <1>5. QED
    BY <1>2, <1>3, <1>4 DEF BuildInv

LEMMA BuildCancelledBuild ==
  ASSUME BuildInv, BuildCancelled
  PROVE  BuildInv'
  <1>a. build.at \in BuildStages \ {"idle", "done", "reset"}
    BY DEF BuildCancelled, BuildInv, BuildShape, BuildSet
  <1>1. /\ build' \in BuildSet /\ build'.at = (IF build.at \in Working \cup Activating THEN "reset" ELSE "done")
        /\ build'.attempt = build.attempt /\ build'.tests = build.tests /\ build'.planned = build.planned /\ build'.repeats = build.repeats /\ build'.base = build.base
    <2>1. CASE build.at \in Working \cup Activating
      BY ZenonT(90), <2>1 DEF BuildCancelled, BuildInv, BuildShape, BuildSet, BuildStages
    <2>2. CASE build.at \notin Working \cup Activating
      BY <2>2 DEF BuildCancelled, Goes, BuildInv, BuildShape, BuildSet, BuildStages
    <2>3. QED
      BY <2>1, <2>2
  <1>2. BuildShape'
    BY <1>1, <1>a, BuildAssumption DEF BuildCancelled, BuildStages, BuildInv, BuildShape, StageHas, RecordSet, Stage, Working, Activating, WritingStages, CapturedStages, PlannedStages, SessionEnds, LoopEnds
  <1>3. StageHas'
    BY <1>1, <1>a, BuildAssumption DEF BuildCancelled, BuildStages, BuildInv, BuildShape, RecordSet, StageHas, Stage, Working, Activating, WritingStages, CapturedStages, PlannedStages, SessionEnds, LoopEnds
  <1>4. TakenIsProven' /\ ResumesItsOwn'
    BY <1>1, <1>a DEF BuildCancelled, BuildStages, BuildInv, StageHas, TakenIsProven, ProvenTree, ResumesItsOwn, Stage, Working, Activating, WritingStages, CapturedStages, PlannedStages, SessionEnds, LoopEnds
  <1>5. QED
    BY <1>2, <1>3, <1>4 DEF BuildInv

LEMMA RepositoryEditedBuild ==
  ASSUME BuildInv, RepositoryEdited
  PROVE  BuildInv'
  <1>1. /\ build' = build /\ build.at = "idle"
    BY BuildAssumption DEF RepositoryEdited, Goes, Stage, BuildInv, BuildShape, BuildSet, BuildStages, Working, Activating
  <1>2. BuildShape'
    BY <1>1, BuildAssumption DEF RepositoryEdited, BuildInv, BuildShape, StageHas, RecordSet, Stage, Working, Activating, WritingStages, CapturedStages, PlannedStages
  <1>3. StageHas'
    BY <1>1, BuildAssumption DEF RepositoryEdited, BuildInv, BuildShape, RecordSet, StageHas, Stage, Working, Activating, WritingStages, CapturedStages, PlannedStages
  <1>4. TakenIsProven' /\ ResumesItsOwn'
    BY <1>1 DEF RepositoryEdited, BuildInv, StageHas, TakenIsProven, ProvenTree, ResumesItsOwn, Stage, Working, Activating, WritingStages, CapturedStages, PlannedStages
  <1>5. QED
    BY <1>2, <1>3, <1>4 DEF BuildInv

LEMMA BuildStartsBuild ==
  ASSUME BuildInv, BuildStarts
  PROVE  BuildInv'
  <1> DEFINE b == [NoBuild EXCEPT !.at = "author", !.base = base]
  <1>a. build \in BuildSet /\ base \in Nat
    BY BuildAssumption DEF BuildStarts, BuildInv, BuildShape, BuildSet, BuildStages, StageHas, Stage, Working, Activating, NoBuild
  <1>b. b \in BuildSet
    BY <1>a, FreshBuild
  <1>1. /\ build' \in BuildSet /\ build.at \in {"idle", "done"} /\ build'.at = "author"
    /\ build'.repeats = 0 /\ build'.base = base
    BY <1>a, <1>b DEF BuildStarts, BuildSet, Stage, Working, Activating, NoBuild
  <1>2. BuildShape'
    BY <1>1, BuildAssumption DEF BuildStarts, BuildInv, BuildShape, StageHas, RecordSet, Stage, Working, Activating, WritingStages, CapturedStages, PlannedStages, NoBuild
  <1>3. StageHas'
    BY <1>1, BuildAssumption DEF BuildStarts, BuildInv, BuildShape, RecordSet, StageHas, Stage, Working, Activating, WritingStages, CapturedStages, PlannedStages, NoBuild
  <1>4. TakenIsProven' /\ ResumesItsOwn'
    BY <1>1 DEF BuildStarts, BuildInv, StageHas, TakenIsProven, ProvenTree, ResumesItsOwn, Stage, Working, Activating, WritingStages, CapturedStages, PlannedStages, NoBuild
  <1>5. QED
    BY <1>2, <1>3, <1>4 DEF BuildInv

LEMMA HostDiesBuild ==
  ASSUME BuildInv, HostDies
  PROVE  BuildInv'
  <1>1. /\ build' \in BuildSet /\ build'.at = "idle" /\ build'.repeats = 0
    BY BuildAssumption DEF HostDies, Goes, Stage, NoBuild, NoBuild, BuildInv, BuildShape, BuildSet, BuildStages, Working, Activating
  <1>2. BuildShape'
    BY <1>1, BuildAssumption DEF HostDies, BuildInv, BuildShape, StageHas, RecordSet, Stage, Working, Activating, WritingStages, CapturedStages, PlannedStages, NoBuild
  <1>3. StageHas'
    BY <1>1, BuildAssumption DEF HostDies, BuildInv, BuildShape, RecordSet, StageHas, Stage, Working, Activating, WritingStages, CapturedStages, PlannedStages, NoBuild
  <1>4. TakenIsProven' /\ ResumesItsOwn'
    BY <1>1 DEF HostDies, BuildInv, StageHas, TakenIsProven, ProvenTree, ResumesItsOwn, Stage, Working, Activating, WritingStages, CapturedStages, PlannedStages, NoBuild
  <1>5. QED
    BY <1>2, <1>3, <1>4 DEF BuildInv

LEMMA BuildResumesBuild ==
  ASSUME BuildInv, BuildResumes
  PROVE  BuildInv'
  <1> DEFINE b == FromRecord(pausedFile)
  <1>a. build \in BuildSet /\ (pausedFile \in RecordSet /\ build.at = "idle")
    BY BuildAssumption DEF BuildResumes, BuildInv, BuildShape, BuildSet, BuildStages, StageHas, Stage, Working, Activating
  <1>b. b \in BuildSet
    BY <1>a, ResumedBuild
  <1>1. /\ build' \in BuildSet /\ build.at = "idle"
    /\ IF MayResume THEN /\ build'.at = "step" /\ build'.tests = pausedFile.tests /\ build'.attempt = pausedFile.attempt
                        /\ build'.planned /\ build'.repeats = 0 /\ build'.base = base
       ELSE build' = build
    BY ZenonT(90), <1>a, <1>b DEF BuildResumes, BuildSet, Stage, Working, Activating, FromRecord, NoBuild, RecordSet, MayResume
  <1>2. BuildShape'
    BY <1>1, BuildAssumption DEF BuildResumes, BuildInv, BuildShape, StageHas, RecordSet, Stage, Working, Activating, WritingStages, CapturedStages, PlannedStages, FromRecord, MayResume, NoBuild
  <1>3. StageHas'
    BY <1>1, BuildAssumption DEF BuildResumes, BuildInv, BuildShape, RecordSet, StageHas, Stage, Working, Activating, WritingStages, CapturedStages, PlannedStages, FromRecord, MayResume, NoBuild
  <1>4. TakenIsProven' /\ ResumesItsOwn'
    BY <1>1 DEF BuildResumes, BuildInv, StageHas, TakenIsProven, ProvenTree, ResumesItsOwn, Stage, Working, Activating, WritingStages, CapturedStages, PlannedStages, FromRecord, MayResume, NoBuild
  <1>5. QED
    BY <1>2, <1>3, <1>4 DEF BuildInv

LEMMA BuildNextInv == BuildInv /\ [BuildNext]_buildVars => BuildInv'
  <1> SUFFICES ASSUME BuildInv, [BuildNext]_buildVars
               PROVE  BuildInv'
    OBVIOUS
  <1>1. CASE UNCHANGED buildVars
    BY <1>1 DEF buildVars, bounds, BuildInv, BuildShape, StageHas, Stage, TakenIsProven, ProvenTree, ResumesItsOwn
  <1>2. CASE BuildNext
    BY <1>2, TestsWrittenBuild, AuthoringFaultsBuild, PlanReadBuild, BuilderRepliesBuild, CodeReviewedBuild, PolicyAppliedBuild, ChecksRunBuild, StepSavedBuild, StepSettledBuild, ImageBuiltBuild, SurfaceProbedBuild, BStagedBuild, RequestResumedBuild, BPromotedBuild, ResetBuild, PauseEndsBuild, TestsReviewedBuild, AttemptBeginsBuild, PlanReviewedBuild, AgentWritesBuild, ContinuationEndsBuild, RequestCanceledBuild, AttemptFailsBuild, BuildCancelledBuild, RepositoryEditedBuild, BuildStartsBuild, HostDiesBuild, BuildResumesBuild
       DEF BuildNext
  <1>3. QED
    BY <1>1, <1>2

LEMMA BuildAlwaysInv == BuildSpec => []BuildInv
  BY BuildInitInv, BuildNextInv, PTL DEF BuildSpec

LEMMA BuildInvGives == BuildInv => ProvenBeforeServed /\ NothingOutlivesItsAttempt /\ ResumesItsOwn /\ BuildTypeOK
  <1> SUFFICES ASSUME BuildInv
               PROVE  ProvenBeforeServed /\ NothingOutlivesItsAttempt /\ ResumesItsOwn /\ BuildTypeOK
    OBVIOUS
  <1>1. ProvenBeforeServed
    BY DEF BuildInv, BuildShape, TakenIsProven, ProvenTree, ProvenBeforeServed, Stage
  <1>2. NothingOutlivesItsAttempt
    BY DEF BuildInv, TakenIsProven, NothingOutlivesItsAttempt
  <1>3. ResumesItsOwn
    BY DEF BuildInv
  <1>4. /\ build.at \in BuildStages
        /\ build.attempt \in 0..MaxAttempts /\ build.tests \in TestSets \cup {NoTests}
        /\ build.planned \in BOOLEAN /\ build.why \in Reasons \cup {"none", "stopped"}
        /\ build.repeats \in 0..MaxRepeats
    BY DEF BuildInv, BuildShape, BuildSet
  <1>5. pausedFile = NoRecord \/ (pausedFile.attempt \in 1..MaxAttempts /\ pausedFile.tests \in TestSets /\ pausedFile.tree \in Trees)
    BY DEF BuildInv, BuildShape, RecordSet
  <1>6. BuildTypeOK
    BY <1>4, <1>5 DEF BuildInv, BuildShape, BuildTypeOK, BuildStages
  <1>7. QED
    BY <1>1, <1>2, <1>3, <1>6

(* What B serves and what becomes A is a tree that passed the frozen tests *)
(* and the review, B ends with its attempt, a build goes on only over the  *)
(* tree it was begun from (selfmod/loop.py 150-330, paused.py): the tree   *)
(* is looked at once, when it is captured, and everything later is about   *)
(* that copy.                                                              *)
THEOREM BuildsStayProven == BuildSpec => [](ProvenBeforeServed /\ NothingOutlivesItsAttempt /\ ResumesItsOwn) /\ []BuildTypeOK
  BY BuildAlwaysInv, BuildInvGives, PTL

-----------------------------------------------------------------------------
(* The steps of a build that only a human can take.                        *)
(* A question is open, or has its one answer, while its build asks it; one *)
(* that is about to be asked has none.                                     *)
NotAnswered == \A x \in accepted : x[1] # askings

PauseSet == [tries : 1..MaxTries, step : Steps] \cup {[tries |-> 0, step |-> NoStep]}

AskingInv ==
  /\ accepted \subseteq (1..MaxAskings) \X StepAnswers /\ handed \subseteq accepted /\ askings \in 0..MaxAskings
  /\ \A x \in accepted : x[1] <= askings
  /\ \A x \in accepted, y \in accepted : x[1] = y[1] => x = y
  /\ future \in StepAnswers \cup {NoFuture, Open}
  /\ future # NoFuture => buildStage \in {"announcing", "asking"} /\ askings > 0
  /\ buildStage \in {"pausing", "signingIn"} => askings > 0
  /\ future = Open \/ buildStage = "pausing" => NotAnswered
  /\ future \notin {NoFuture, Open} => <<askings, future>> \in accepted

StepShape ==
  /\ buildStage \in {"starting", "working", "pausing", "announcing", "asking", "signingIn", "onB", "ended"}
  /\ tries \in 1..MaxTries /\ {humanStep, toResume} \subseteq Steps \cup {NoStep}
  /\ pauseFile \in PauseSet
  /\ restarts \in 0..MaxRestarts
  /\ buildStage = "pausing" => humanStep \in Steps

StepsInv == AskingInv /\ StepShape

LEMMA StepsInitInv == StepsInit => StepsInv
  BY StepsAssumption DEF StepsInit, StepsInv, AskingInv, StepShape, PauseSet, NoPause, NotAnswered, Steps

LEMMA AskingNextInv == AskingInv /\ [StepsNext]_stepVars => AskingInv' /\ (TakenWhileAsked \/ UNCHANGED stepVars)
  <1> SUFFICES ASSUME AskingInv, [StepsNext]_stepVars
               PROVE  AskingInv' /\ TakenWhileAsked
    OBVIOUS
  <1>1. CASE UNCHANGED <<buildStage, future, askings, accepted, handed>>
    BY <1>1 DEF AskingInv, NotAnswered, TakenWhileAsked
  <1>2. CASE AttemptStarts
    BY <1>2, StepsAssumption DEF AttemptStarts, AskingInv, NotAnswered, TakenWhileAsked
  <1>3. CASE PauseSaved
    BY <1>3, StepsAssumption DEF PauseSaved, AskingInv, NotAnswered, TakenWhileAsked, answering
  <1>4. CASE QuestionAnnounced
    BY <1>4, StepsAssumption DEF QuestionAnnounced, AskingInv, NotAnswered, TakenWhileAsked, answering
  <1>5. CASE BuildAnswered
    <2>1. /\ buildStage' = "working" /\ future' = NoFuture /\ UNCHANGED <<askings, accepted>>
          /\ handed' = handed \cup {<<askings, future>>}
      BY <1>5 DEF BuildAnswered, Forgotten
    <2>2. <<askings, future>> \in accepted
      BY <1>5 DEF BuildAnswered, AskingInv
    <2>3. QED
      BY <2>1, <2>2 DEF AskingInv, NotAnswered, TakenWhileAsked, NoFuture, Open
  <1>6. CASE RequestResumes \/ SignInAnnounced \/ \E what \in {"planned", "checked"} : WorkGoesOn(what)
    BY <1>6, StepsAssumption DEF RequestResumes, SignInAnnounced, WorkGoesOn, AskingInv, NotAnswered, TakenWhileAsked, answering
  <1>7. ASSUME NEW step \in Steps, StepRequested(step)
        PROVE  AskingInv' /\ TakenWhileAsked
    BY <1>7, StepsAssumption DEF StepRequested, AskingInv, NotAnswered, TakenWhileAsked
  <1>8. ASSUME NEW answer \in StepAnswers, AnswerTaken(answer)
        PROVE  AskingInv' /\ TakenWhileAsked
    <2> DEFINE given == <<askings, answer>>
    <2>1. /\ future = Open /\ future' = answer /\ accepted' = accepted \cup {given}
          /\ UNCHANGED <<buildStage, askings, handed>>
      BY <1>8 DEF AnswerTaken
    <2>2. /\ given \in (1..MaxAskings) \X StepAnswers /\ given[1] = askings
          /\ given = <<askings, answer>> /\ answer \notin {NoFuture, Open}
      BY <2>1, StepsAssumption DEF AskingInv, NoFuture, Open
    <2> HIDE DEF given
    <2>3. \A x \in accepted : x[1] # given[1]
      BY <2>1, <2>2 DEF AskingInv, NotAnswered
    <2>4. \A x \in accepted', y \in accepted' : x[1] = y[1] => x = y
      BY <2>1, <2>3 DEF AskingInv
    <2>5. \A x \in accepted' : x[1] <= askings
      BY <2>1, <2>2 DEF AskingInv
    <2>6. QED
      BY <2>1, <2>2, <2>4, <2>5 DEF AskingInv, TakenWhileAsked, Open, NoFuture
  <1>9. ASSUME NEW yes1 \in BOOLEAN, StepSignInEnds(yes1) \/ TryFails(yes1) \/ ProcessRestarts(yes1)
        PROVE  AskingInv' /\ TakenWhileAsked
    <2>1. buildStage' \in {"working", "starting", "ended"} /\ UNCHANGED <<askings, accepted, handed>>
      BY <1>9 DEF StepSignInEnds, TryFails, ProcessRestarts, answering
    <2>2. future' = NoFuture
      BY <1>9 DEF StepSignInEnds, TryFails, ProcessRestarts, AskingInv
    <2>3. QED
      BY <2>1, <2>2 DEF AskingInv, NotAnswered, TakenWhileAsked, NoFuture, Open
  <1>10. ASSUME NEW how \in {"finished", "gaveUp", "stopped"}, StepsEnd(how)
         PROVE  AskingInv' /\ TakenWhileAsked
    <2>1. future' = NoFuture /\ buildStage' = "ended" /\ UNCHANGED <<askings, accepted, handed>>
      BY <1>10 DEF StepsEnd, Forgotten, answering
    <2>2. QED
      BY <2>1 DEF AskingInv, NotAnswered, TakenWhileAsked, NoFuture, Open
  <1>11. QED
    BY <1>1, <1>2, <1>3, <1>4, <1>5, <1>6, <1>7, <1>8, <1>9, <1>10 DEF StepsNext, stepVars

LEMMA StepShapeNext == StepShape /\ [StepsNext]_stepVars => StepShape'
  <1> SUFFICES ASSUME StepShape, [StepsNext]_stepVars
               PROVE  StepShape'
    OBVIOUS
  <1>1. CASE UNCHANGED <<buildStage, humanStep, attempt>>
    BY <1>1 DEF StepShape, attempt
  <1>2. CASE AttemptStarts
    BY <1>2, StepsAssumption DEF AttemptStarts, StepShape, Steps
  <1>3. CASE PauseSaved
    <2>1. pauseFile' \in PauseSet
      BY <1>3 DEF PauseSaved, StepShape, PauseSet
    <2>2. QED
      BY <1>3, <2>1 DEF PauseSaved, StepShape
  <1>4. CASE QuestionAnnounced \/ BuildAnswered \/ RequestResumes \/ SignInAnnounced
    BY <1>4 DEF QuestionAnnounced, BuildAnswered, RequestResumes, SignInAnnounced, StepShape, attempt
  <1>5. ASSUME NEW what \in {"planned", "checked"}, WorkGoesOn(what)
        PROVE  StepShape'
    BY <1>5 DEF WorkGoesOn, StepShape, attempt
  <1>7. ASSUME NEW step \in Steps, StepRequested(step)
        PROVE  StepShape'
    BY <1>7 DEF StepRequested, StepShape, attempt
  <1>8. ASSUME NEW answer \in StepAnswers, AnswerTaken(answer)
        PROVE  StepShape'
    BY <1>8 DEF AnswerTaken, StepShape, attempt
  <1>9. ASSUME NEW yes1 \in BOOLEAN, StepSignInEnds(yes1) \/ TryFails(yes1)
        PROVE  StepShape'
    BY <1>9, StepsAssumption DEF StepSignInEnds, TryFails, StepShape, attempt
  <1>10. ASSUME NEW same \in BOOLEAN, ProcessRestarts(same)
         PROVE  StepShape'
    <2>1. pauseFile # NoPause => pauseFile.tries \in 1..MaxTries /\ pauseFile.step \in Steps
      BY DEF StepShape, PauseSet, NoPause
    <2>2. NoPause \in PauseSet
      BY DEF NoPause, PauseSet
    <2>3. QED
      BY <1>10, <2>1, <2>2, StepsAssumption DEF ProcessRestarts, StepShape
  <1>11. ASSUME NEW how \in {"finished", "gaveUp", "stopped"}, StepsEnd(how)
         PROVE  StepShape'
    <2>1. NoPause \in PauseSet
      BY DEF NoPause, PauseSet
    <2>2. QED
      BY <1>11, <2>1 DEF StepsEnd, StepShape
  <1>12. QED
    BY <1>1, <1>2, <1>3, <1>4, <1>5, <1>7, <1>8, <1>9, <1>10, <1>11 DEF StepsNext, stepVars, attempt

(* An answer the user is told was taken is taken by a build that waits for *)
(* it, each question has one, and the build is handed that one             *)
(* (selfmod/service.py): a question that is asked has no answer yet, and   *)
(* is forgotten when its step ends.                                        *)
THEOREM AnswersStayOwn == StepsSpec => AnswersAreOwn
  <1>1. AskingInv => handed \subseteq accepted /\ \A x \in accepted, y \in accepted : x[1] = y[1] => x = y
    BY DEF AskingInv
  <1>2. StepsInit => AskingInv
    BY StepsInitInv DEF StepsInv
  <1>3. TakenWhileAsked \/ UNCHANGED stepVars => [TakenWhileAsked]_stepVars
    OBVIOUS
  <1>4. QED
    BY <1>1, <1>2, <1>3, AskingNextInv, PTL DEF StepsSpec, AnswersAreOwn

(* The steps of a build keep the shape that their code gives them          *)
(* (selfmod/service.py, paused.py).                                        *)
THEOREM StepsStayTyped == StepsSpec => []StepsTypeOK
  <1>1. StepsInv => StepsTypeOK
    BY DEF StepsInv, AskingInv, StepShape, PauseSet, StepsTypeOK
  <1>2. StepsInv /\ [StepsNext]_stepVars => StepsInv'
    BY AskingNextInv, StepShapeNext DEF StepsInv
  <1>3. QED
    BY <1>1, <1>2, StepsInitInv, PTL DEF StepsSpec

-----------------------------------------------------------------------------
(* Speech.                                                                 *)
ReplyStages == {"none", "admitting", "working", "telling", "spoken", "failed", "gone"}
ThreadPlaces == {"none", "started", "native", "returned", "settled"}
ThreadEnds == {"nothing", "audio", "end", "error", "interrupted"}

SpeechShape ==
  /\ reply \in [Replies -> [stage : ReplyStages, canceled : BOOLEAN]]
  /\ thread \in [Replies -> [at : ThreadPlaces, got : ThreadEnds, made : Nat]]
  /\ chunks \in [Replies -> {"open", "closing", "closed"}]
  /\ line \in Seq(Replies)

(* Whoever waits in line is being admitted, and waits there once. *)
InLine ==
  /\ \A i \in DOMAIN line : reply[line[i]].stage = "admitting"
  /\ \A i, j \in DOMAIN line : line[i] = line[j] => i = j

(* A worker has the gate from its start until it settles, and its          *)
(* generator is closed only then.                                          *)
HasGate(r) == Alive(r) => gate = r /\ chunks[r] # "closed"

(* A reply that is not over has an open generator, and a worker only while *)
(* it waits for it.                                                        *)
Orderly(r) ==
  /\ reply[r].stage \in {"none", "admitting", "telling"} => ~Alive(r)
  /\ reply[r].stage \in {"none", "admitting", "working", "telling"} => chunks[r] = "open"

SpeechInv ==
  /\ SpeechShape /\ InLine
  /\ \A r \in Replies : HasGate(r) /\ Orderly(r)

-----------------------------------------------------------------------------
\* What is left of a sequence without one of its elements.
LEMMA RemoveAtEffect ==
  ASSUME NEW S, NEW q \in Seq(S), NEW i \in DOMAIN q
  PROVE  /\ RemoveAt(q, i) \in Seq(S)
         /\ DOMAIN RemoveAt(q, i) = 1 .. (Len(q) - 1)
         /\ \A j \in 1 .. (Len(q) - 1) : RemoveAt(q, i)[j] = IF j < i THEN q[j] ELSE q[j + 1]
  <1> DEFINE a == SubSeq(q, 1, i - 1)
             b == SubSeq(q, i + 1, Len(q))
  <1>1. Len(q) \in Nat /\ i \in 1 .. Len(q) /\ \A j \in 1 .. Len(q) : q[j] \in S
    BY LenProperties, ElementOfSeq
  <1>2. a \in Seq(S) /\ Len(a) = i - 1 /\ \A j \in 1 .. (i - 1) : a[j] = q[j]
    BY <1>1, SubSeqProperties
  <1>3. b \in Seq(S) /\ Len(b) = Len(q) - i /\ \A j \in 1 .. (Len(q) - i) : b[j] = q[j + i]
    BY <1>1, SubSeqProperties
  <1>4. RemoveAt(q, i) = a \o b
    BY DEF RemoveAt
  <1> HIDE DEF a, b
  <1>5. /\ a \o b \in Seq(S) /\ Len(a \o b) = Len(q) - 1
        /\ \A j \in 1 .. (Len(q) - 1) : (a \o b)[j] = IF j < i THEN q[j] ELSE q[j + 1]
    <2>1. /\ a \o b \in Seq(S) /\ Len(a \o b) = Len(a) + Len(b)
          /\ \A j \in 1 .. (Len(a) + Len(b)) : (a \o b)[j] = IF j <= Len(a) THEN a[j] ELSE b[j - Len(a)]
      BY <1>2, <1>3, ConcatProperties
    <2>2. ASSUME NEW j \in 1 .. (Len(q) - 1)
          PROVE  (a \o b)[j] = IF j < i THEN q[j] ELSE q[j + 1]
      <3>1. CASE j < i
        BY SMTT(30), <1>1, <1>2, <1>3, <2>1, <3>1
      <3>2. CASE ~(j < i)
        <4>1. j - Len(a) \in 1 .. (Len(q) - i) /\ (j - Len(a)) + i = j + 1
          BY <1>1, <1>2, <3>2
        <4>2. j \in 1 .. (Len(a) + Len(b)) /\ ~(j <= Len(a))
          BY <1>1, <1>2, <1>3, <3>2
        <4>3. (a \o b)[j] = b[j - Len(a)]
          BY <2>1, <4>2
        <4>4. QED
          BY <1>3, <3>2, <4>1, <4>3
      <3>3. QED
        BY <3>1, <3>2
    <2>3. QED
      BY SMTT(30), <1>1, <1>2, <1>3, <2>1, <2>2
  <1>6. QED
    BY <1>4, <1>5, LenProperties

LEMMA SpeechInitInv == SpeechInit => SpeechInv
  BY SpeechAssumption DEF SpeechInit, SpeechInv, SpeechShape, InLine, HasGate, Orderly, Alive, ReplyStages, ThreadPlaces, ThreadEnds

-----------------------------------------------------------------------------
\* A request that joins the line was not in it.
LEMMA JoinsStep ==
  ASSUME SpeechInv, NEW r \in Replies, reply[r].stage \in {"none", "telling"},
         reply' = [reply EXCEPT ![r].stage = "admitting"], line' = Append(line, r),
         UNCHANGED <<thread, chunks, gate, native>>
  PROVE  SpeechInv'
  <1>1. SpeechShape'
    <2>1. line' \in Seq(Replies)
      BY AppendProperties DEF SpeechInv, SpeechShape
    <2>2. QED
      BY <2>1 DEF SpeechInv, SpeechShape, ReplyStages
  <1>2. InLine'
    <2>1. /\ DOMAIN line = 1 .. Len(line) /\ DOMAIN line' = 1 .. (Len(line) + 1) /\ Len(line) \in Nat
          /\ line'[Len(line) + 1] = r /\ \A i \in 1 .. Len(line) : line'[i] = line[i]
      BY AppendProperties, LenProperties DEF SpeechInv, SpeechShape
    <2>2. \A i \in 1 .. Len(line) : line[i] # r /\ line[i] \in Replies
      BY <2>1, ElementOfSeq DEF SpeechInv, SpeechShape, InLine
    <2>3. QED
      BY <2>1, <2>2 DEF SpeechInv, SpeechShape, InLine
  <1>3. \A q \in Replies : HasGate(q)' /\ Orderly(q)'
    BY DEF SpeechInv, SpeechShape, HasGate, Orderly, Alive
  <1>4. QED
    BY <1>1, <1>2, <1>3 DEF SpeechInv

\* The gate is free, so nobody has a worker; the first in line gets one.
LEMMA AdmittedStep ==
  ASSUME SpeechInv, NEW r \in Replies, SpeechAdmitted(r)
  PROVE  SpeechInv'
  <1>1. \A q \in Replies : ~Alive(q)
    BY SpeechAssumption DEF SpeechAdmitted, SpeechInv, HasGate, Replies
  <1>2. /\ DOMAIN line = 1 .. Len(line) /\ Len(line) \in Nat \ {0} /\ line[1] = r
        /\ line' \in Seq(Replies) /\ DOMAIN line' = 1 .. (Len(line) - 1)
        /\ \A i \in 1 .. (Len(line) - 1) : line'[i] = line[i + 1]
    BY HeadTailProperties, EmptySeq, LenProperties DEF SpeechAdmitted, SpeechInv, SpeechShape
  <1>3. reply[r].stage = "admitting" /\ chunks[r] = "open"
    BY <1>2 DEF SpeechInv, InLine, Orderly
  <1>4. SpeechShape'
    <2>1. reply' = [reply EXCEPT ![r].stage = "working"] /\ UNCHANGED chunks
          /\ thread' = [thread EXCEPT ![r].at = "started", ![r].got = "nothing"]
      BY DEF SpeechAdmitted
    <2>2. reply' \in [Replies -> [stage : ReplyStages, canceled : BOOLEAN]]
      BY <2>1 DEF SpeechInv, SpeechShape, ReplyStages
    <2>3. thread' \in [Replies -> [at : ThreadPlaces, got : ThreadEnds, made : Nat]]
      BY ZenonT(30), <2>1 DEF SpeechInv, SpeechShape, ThreadPlaces, ThreadEnds
    <2>4. QED
      BY <1>2, <2>1, <2>2, <2>3 DEF SpeechInv, SpeechShape
  <1>5. InLine'
    <2>1. line \in Seq(Replies) /\ \A i \in 1 .. Len(line) : line[i] \in Replies
      BY ElementOfSeq DEF SpeechInv, SpeechShape
    <2>2. /\ \A i \in 1 .. Len(line) : reply[line[i]].stage = "admitting"
          /\ \A i, j \in 1 .. Len(line) : line[i] = line[j] => i = j
      BY <1>2 DEF SpeechInv, InLine
    <2>3. ASSUME NEW i \in 1 .. (Len(line) - 1)
          PROVE  line[i + 1] # r /\ line[i + 1] \in Replies /\ reply[line[i + 1]].stage = "admitting"
      <3>1. i + 1 \in 1 .. Len(line) /\ 1 \in 1 .. Len(line) /\ i + 1 # 1
        BY <1>2
      <3>2. QED
        BY <1>2, <2>1, <2>2, <3>1
    <2>4. \A i \in DOMAIN line' : line'[i] # r /\ line'[i] \in Replies /\ reply[line'[i]].stage = "admitting"
      BY <1>2, <2>3
    <2>5. \A i, j \in DOMAIN line' : line'[i] = line'[j] => i = j
      <3>1. ASSUME NEW i \in 1 .. (Len(line) - 1), NEW j \in 1 .. (Len(line) - 1), line[i + 1] = line[j + 1]
            PROVE  i = j
        <4>1. i + 1 \in 1 .. Len(line) /\ j + 1 \in 1 .. Len(line)
          BY <1>2
        <4>2. i + 1 = j + 1
          BY <2>2, <3>1, <4>1
        <4>3. QED
          BY <4>2
      <3>2. QED
        BY <1>2, <3>1
    <2>6. reply' = [reply EXCEPT ![r].stage = "working"]
      BY DEF SpeechAdmitted
    <2>7. QED
      BY <2>4, <2>5, <2>6 DEF SpeechInv, SpeechShape, InLine
  <1>6. \A q \in Replies : HasGate(q)' /\ Orderly(q)'
    BY <1>1, <1>3 DEF SpeechAdmitted, SpeechInv, SpeechShape, HasGate, Orderly, Alive
  <1>7. QED
    BY <1>4, <1>5, <1>6 DEF SpeechInv

\* A step of a worker that stays at work changes nothing but its own place.
LEMMA ThreadStep ==
  ASSUME SpeechInv, NEW r \in Replies, Alive(r), NEW p \in [at : ThreadPlaces, got : ThreadEnds, made : Nat],
         p.at \in {"started", "native", "returned"}, thread' = [thread EXCEPT ![r] = p],
         UNCHANGED <<reply, chunks, gate, line>>
  PROVE  SpeechInv'
  BY DEF SpeechInv, SpeechShape, InLine, HasGate, Orderly, Alive

LEMMA PieceStartsStep ==
  ASSUME SpeechInv, NEW r \in Replies, PieceStarts(r)
  PROVE  SpeechInv'
  <1>1. thread[r] \in [at : ThreadPlaces, got : ThreadEnds, made : Nat] /\ thread[r].at = "started" /\ Alive(r)
    BY DEF PieceStarts, SpeechInv, SpeechShape, Alive
  <1>2. PICK p \in {[thread[r] EXCEPT !.at = "returned", !.got = "interrupted"],
                    [thread[r] EXCEPT !.at = "returned", !.got = "end"],
                    [thread[r] EXCEPT !.at = "native"]} :
          thread' = [thread EXCEPT ![r] = p]
    BY DEF PieceStarts
  <1>3. p \in [at : ThreadPlaces, got : ThreadEnds, made : Nat] /\ p.at \in {"started", "native", "returned"}
    BY <1>1, <1>2 DEF ThreadPlaces, ThreadEnds
  <1>4. QED
    BY <1>1, <1>2, <1>3, ThreadStep DEF PieceStarts

LEMMA PieceEndsStep ==
  ASSUME SpeechInv, NEW r \in Replies, PieceEnds(r)
  PROVE  SpeechInv'
  <1>1. thread[r] \in [at : ThreadPlaces, got : ThreadEnds, made : Nat] /\ Alive(r)
    BY DEF PieceEnds, SpeechInv, SpeechShape, Alive
  <1> DEFINE more == r \in Wholes /\ thread[r].made + 1 < Pieces
             said == [thread[r] EXCEPT !.at = IF more THEN "started" ELSE "returned",
                                       !.got = IF more THEN "nothing" ELSE "audio", !.made = @ + 1]
             failed == [thread[r] EXCEPT !.at = "returned", !.got = "error"]
             stopped == [thread[r] EXCEPT !.at = "returned", !.got = "interrupted"]
  <1>2. PICK p \in {failed, IF reply[r].canceled THEN stopped ELSE said} : thread' = [thread EXCEPT ![r] = p]
    BY DEF PieceEnds
  <1>3. \A p1 \in {failed, stopped, said} :
          p1 \in [at : ThreadPlaces, got : ThreadEnds, made : Nat] /\ p1.at \in {"started", "native", "returned"}
    <2>1. failed \in [at : ThreadPlaces, got : ThreadEnds, made : Nat] /\ failed.at = "returned"
      BY <1>1 DEF ThreadPlaces, ThreadEnds
    <2>2. stopped \in [at : ThreadPlaces, got : ThreadEnds, made : Nat] /\ stopped.at = "returned"
      BY <1>1 DEF ThreadPlaces, ThreadEnds
    <2>3. said \in [at : ThreadPlaces, got : ThreadEnds, made : Nat] /\ said.at \in {"started", "returned"}
      <3>1. PICK at1 \in {"started", "returned"} : at1 = IF more THEN "started" ELSE "returned"
        OBVIOUS
      <3>2. PICK got1 \in ThreadEnds : got1 = IF more THEN "nothing" ELSE "audio"
        BY DEF ThreadEnds
      <3> HIDE DEF more
      <3>3. PICK made1 \in Nat : made1 = thread[r].made + 1
        BY <1>1
      <3>4. said = [thread[r] EXCEPT !.at = at1, !.got = got1, !.made = made1]
        BY <3>1, <3>2, <3>3
      <3> HIDE DEF said
      <3>5. at1 \in ThreadPlaces
        BY <3>1 DEF ThreadPlaces
      <3>6. QED
        BY <1>1, <3>4, <3>5
    <2> HIDE DEF failed, stopped, said
    <2>4. QED
      BY <2>1, <2>2, <2>3
  <1>4. p \in {failed, stopped, said}
    BY <1>2
  <1> HIDE DEF failed, stopped, said
  <1>5. QED
    BY <1>1, <1>2, <1>3, <1>4, ThreadStep DEF PieceEnds

\* The gate is given back by the one that has it.
LEMMA SettlesStep ==
  ASSUME SpeechInv, NEW r \in Replies, WorkerSettles(r)
  PROVE  SpeechInv'
  <1>1. Alive(r) /\ \A q \in Replies : Alive(q) => q = r
    BY DEF WorkerSettles, SpeechInv, HasGate, Alive
  <1>2. SpeechShape' /\ InLine'
    BY SMTT(40), ZenonT(40) DEF WorkerSettles, SpeechInv, SpeechShape, InLine, ThreadPlaces
  <1>3. \A q \in Replies : ~Alive(q)'
    BY <1>1 DEF WorkerSettles, SpeechInv, SpeechShape, Alive
  <1>4. \A q \in Replies : chunks[q] = "open" => chunks'[q] = "open"
    BY DEF WorkerSettles, SpeechInv, SpeechShape
  <1>5. \A q \in Replies : HasGate(q)' /\ Orderly(q)'
    BY <1>3, <1>4 DEF WorkerSettles, SpeechInv, HasGate, Orderly
  <1>6. QED
    BY <1>2, <1>5 DEF SpeechInv

LEMMA AudioHeardStep ==
  ASSUME SpeechInv, NEW r \in Replies, SpeechHeard(r)
  PROVE  SpeechInv'
  <1>1. PICK end \in {"telling", "spoken", "failed"} :
          /\ reply' = [reply EXCEPT ![r] = [stage |-> end, canceled |-> @.canceled \/ end # "telling"]]
          /\ chunks' = IF end = "telling" THEN chunks ELSE [chunks EXCEPT ![r] = "closed"]
    <2> DEFINE toldStage == CASE thread[r].got = "audio" /\ r \in Streams -> "telling"
                         [] thread[r].got = "audio" /\ r \in Wholes -> "spoken"
                         [] thread[r].got = "end" -> "spoken"
                         [] OTHER -> "failed"
    <2>1. toldStage \in {"telling", "spoken", "failed"}
      <3>1. ~(r \in Streams /\ r \in Wholes)
        BY SpeechAssumption
      <3>2. (thread[r].got = "audio") => (thread[r].got # "end")
        OBVIOUS
      <3>3. QED
        BY <3>1, <3>2, Zenon
    <2>2. /\ reply' = [reply EXCEPT ![r] = [stage |-> toldStage, canceled |-> @.canceled \/ toldStage # "telling"]]
          /\ chunks' = IF toldStage = "telling" THEN chunks ELSE [chunks EXCEPT ![r] = "closed"]
      BY Zenon DEF SpeechHeard
    <2> HIDE DEF toldStage
    <2>3. QED
      BY <2>1, <2>2
  <1>2. reply[r].stage = "working" /\ ~Alive(r) /\ chunks[r] = "open" /\ UNCHANGED <<thread, gate, line>>
    BY DEF SpeechHeard, SpeechInv, Orderly, Alive
  <1>3. SpeechShape'
    BY <1>1, <1>2 DEF SpeechInv, SpeechShape, ReplyStages
  <1>4. InLine'
    <2>1. \A i \in DOMAIN line : line[i] # r /\ line[i] \in Replies
      BY <1>2, ElementOfSeq, LenProperties DEF SpeechInv, SpeechShape, InLine
    <2>2. QED
      BY <1>1, <1>2, <2>1 DEF SpeechInv, SpeechShape, InLine
  <1>5. \A q \in Replies : HasGate(q)' /\ Orderly(q)'
    BY <1>1, <1>2 DEF SpeechInv, SpeechShape, HasGate, Orderly, Alive
  <1>6. QED
    BY <1>3, <1>4, <1>5 DEF SpeechInv

\* A client that leaves gives up its place in the line and never the gate.
LEMMA LeavesStep ==
  ASSUME SpeechInv, NEW r \in Replies, ListenerLeaves(r)
  PROVE  SpeechInv'
  <1> DEFINE over == IF r \in Wholes /\ reply[r].stage = "working" THEN "working" ELSE "gone"
  <1>1. /\ reply' = [reply EXCEPT ![r] = [stage |-> over, canceled |-> TRUE]]
        /\ reply[r].stage \in {"admitting", "working", "telling"}
        /\ UNCHANGED <<thread, gate>>
    BY DEF ListenerLeaves, GateOfGone
  <1>2. /\ line' \in Seq(Replies)
        /\ \A i \in DOMAIN line' : line'[i] \in Replies \ {r} /\ reply[line'[i]].stage = "admitting"
        /\ \A i, j \in DOMAIN line' : line'[i] = line'[j] => i = j
    <2>1. /\ line \in Seq(Replies) /\ DOMAIN line = 1 .. Len(line) /\ Len(line) \in Nat
          /\ \A i \in DOMAIN line : line[i] \in Replies
      BY ElementOfSeq, LenProperties DEF SpeechInv, SpeechShape
    <2>2. CASE r \notin ToSet(line) /\ UNCHANGED line
      BY <2>1, <2>2 DEF SpeechInv, InLine, ToSet
    <2>3. ASSUME NEW i \in DOMAIN line, line[i] = r, line' = RemoveAt(line, i)
          PROVE  <1>2!:
      <3>1. /\ line' \in Seq(Replies) /\ DOMAIN line' = 1 .. (Len(line) - 1)
            /\ \A j \in 1 .. (Len(line) - 1) : line'[j] = IF j < i THEN line[j] ELSE line[j + 1]
        BY <2>1, <2>3, RemoveAtEffect
      <3>2. /\ \A j \in 1 .. Len(line) : reply[line[j]].stage = "admitting"
            /\ \A j, k \in 1 .. Len(line) : line[j] = line[k] => j = k
        BY <2>1 DEF SpeechInv, InLine
      <3> DEFINE at == [j \in 1 .. (Len(line) - 1) |-> IF j < i THEN j ELSE j + 1]
      <3>3. \A j \in 1 .. (Len(line) - 1) : at[j] \in 1 .. Len(line) /\ at[j] # i /\ line'[j] = line[at[j]]
        BY <2>1, <2>3, <3>1
      <3>4. \A j, k \in 1 .. (Len(line) - 1) : at[j] = at[k] => j = k
        BY <2>1, <2>3
      <3> HIDE DEF at
      <3>5. \A j \in 1 .. (Len(line) - 1) : line'[j] \in Replies \ {r} /\ reply[line'[j]].stage = "admitting"
        BY <2>1, <2>3, <3>2, <3>3
      <3>6. \A j, k \in 1 .. (Len(line) - 1) : line'[j] = line'[k] => j = k
        BY <3>2, <3>3, <3>4
      <3>7. QED
        BY <3>1, <3>5, <3>6
    <2>4. QED
      BY <2>2, <2>3 DEF ListenerLeaves
  <1>3. chunks' = IF r \in Streams THEN [chunks EXCEPT ![r] = IF Alive(r) THEN "closing" ELSE "closed"] ELSE chunks
    BY DEF ListenerLeaves, Closed
  <1>4. SpeechShape'
    BY <1>1, <1>2, <1>3 DEF SpeechInv, SpeechShape, ReplyStages
  <1>5. InLine'
    BY <1>1, <1>2 DEF SpeechInv, SpeechShape, InLine
  <1>6. \A q \in Replies : HasGate(q)' /\ Orderly(q)'
    BY <1>1, <1>3, SpeechAssumption DEF SpeechInv, SpeechShape, HasGate, Orderly, Alive
  <1>7. QED
    BY <1>4, <1>5, <1>6 DEF SpeechInv

LEMMA SpeechNextInv == SpeechInv /\ [SpeechNext]_speechVars => SpeechInv'
  <1> SUFFICES ASSUME SpeechInv, [SpeechNext]_speechVars
               PROVE  SpeechInv'
    OBVIOUS
  <1>1. ASSUME NEW r \in Replies, SpeechAsked(r) \/ ChunkRead(r)
        PROVE  SpeechInv'
    BY <1>1, JoinsStep DEF SpeechAsked, ChunkRead
  <1>2. ASSUME NEW r \in Replies, SpeechAdmitted(r)
        PROVE  SpeechInv'
    BY <1>2, AdmittedStep
  <1>3. ASSUME NEW r \in Replies, PieceStarts(r) \/ PieceEnds(r) \/ WorkerSettles(r)
        PROVE  SpeechInv'
    BY <1>3, PieceStartsStep, PieceEndsStep, SettlesStep
  <1>4. ASSUME NEW r \in Replies, SpeechHeard(r) \/ ListenerLeaves(r)
        PROVE  SpeechInv'
    BY <1>4, AudioHeardStep, LeavesStep
  <1>5. CASE UNCHANGED speechVars
    BY <1>5 DEF speechVars, SpeechInv, SpeechShape, InLine, HasGate, Orderly, Alive
  <1>6. QED
    BY <1>1, <1>2, <1>3, <1>4, <1>5 DEF SpeechNext

-----------------------------------------------------------------------------
(* There is never more than one worker, however many clients ask and       *)
(* leave, and no generator is closed under its worker (voice_api.py 57-58, *)
(* 96-97).                                                                 *)
THEOREM OneVoiceAtATime == SpeechSpec => []OneVoice
  <1>1. SpeechInv => OneVoice
    BY DEF SpeechInv, HasGate, OneVoice
  <1>2. QED
    BY <1>1, SpeechInitInv, SpeechNextInv, PTL DEF SpeechSpec

-----------------------------------------------------------------------------
(* The durable timer, for every number of jobs, every clock, every limit  *)
(* and every number of stops and failed saves.                            *)

\* deliver_due takes a job that is due, and of these an oldest.
LEMMA EarliestEffect ==
  ASSUME NEW B \in SUBSET Ids, B # {}, due \in [Ids -> 0..MaxTime]
  PROVE  Earliest(B) \in B /\ \A k \in B : due[Earliest(B)] <= due[k]
  <1> USE SchedulerAssumption
  <1> DEFINE D == {due[j] : j \in B}
  <1>1. D \in SUBSET Nat /\ D # {}
    OBVIOUS
  <1>2. PICK t \in D : \A u \in D : t <= u
    BY <1>1, LeastNumber
  <1> DEFINE E == {j \in B : due[j] = t}
  <1>3. E \in SUBSET Nat /\ E # {}
    <2>1. PICK j \in B : due[j] = t
      OBVIOUS
    <2>2. j \in E
      BY <2>1
    <2>3. B \subseteq Nat
      BY DEF Ids
    <2>4. E \subseteq B
      OBVIOUS
    <2>5. QED
      BY <2>2, <2>3, <2>4
  <1>4. PICK j \in E : \A k \in E : j <= k
    BY <1>3, LeastNumber
  <1>5. \A k \in B : due[j] < due[k] \/ (due[j] = due[k] /\ j <= k)
    <2> SUFFICES ASSUME NEW k \in B
                 PROVE  due[j] < due[k] \/ (due[j] = due[k] /\ j <= k)
      OBVIOUS
    <2>1. due[j] = t /\ t <= due[k] /\ t \in Nat /\ due[k] \in Nat
      BY <1>1, <1>2, <1>4
    <2>2. CASE due[k] = t
      BY <1>4, <2>1, <2>2
    <2>3. CASE due[k] # t
      BY <2>1, <2>3
    <2>4. QED
      BY <2>2, <2>3
  <1>6. \E i \in B : \A k \in B : due[i] < due[k] \/ (due[i] = due[k] /\ i <= k)
    BY <1>4, <1>5
  <1>7. /\ Earliest(B) \in B
        /\ \A k \in B : \/ due[Earliest(B)] < due[k]
                        \/ (due[Earliest(B)] = due[k] /\ Earliest(B) <= k)
    BY <1>6 DEF Earliest
  <1>8. Earliest(B) \in Ids /\ B \subseteq Ids
    BY <1>7
  <1>9. \A k \in B : due[Earliest(B)] \in Nat /\ due[k] \in Nat
    BY <1>8
  <1>10. QED
    BY <1>7, <1>9

-----------------------------------------------------------------------------
(***************************************************************************)
(* What is written: a save forgets finished jobs only, and of the changes  *)
(* only a booking makes a job pending.                                     *)
(***************************************************************************)
IsPending(m, j) == m.status[j] = "pending"

LEMMA TrimmedEffect ==
  ASSUME NEW m \in Jobs
  PROVE  /\ Trimmed(m) \in Jobs
         /\ \A j \in Ids : IsPending(Trimmed(m), j) <=> IsPending(m, j)
  <1> DEFINE f == [j \in Ids |->
                     IF j \in Finished(m) \ Kept(m) THEN "none" ELSE m.status[j]]
  <1>1. m.status \in [Ids -> Statuses] /\ m.stamp \in [Ids -> Nat]
    BY DEF Jobs
  <1>2. f \in [Ids -> Statuses]
    BY <1>1 DEF Statuses
  <1>3. \A j \in Ids : f[j] = "pending" <=> m.status[j] = "pending"
    BY DEF Finished
  <1> HIDE DEF f
  <1>4. Trimmed(m) = [m EXCEPT !.status = f]
    BY DEF Trimmed, f
  <1>5. [m EXCEPT !.status = f] \in Jobs /\ [m EXCEPT !.status = f].status = f
    BY <1>2 DEF Jobs
  <1>6. QED
    BY <1>3, <1>4, <1>5 DEF IsPending

LEMMA WithStatusEffect ==
  ASSUME NEW m \in Jobs, NEW j \in Ids, NEW s \in Statuses
  PROVE  /\ WithStatus(m, j, s) \in Jobs
         /\ \A k \in Ids : k # j => (IsPending(WithStatus(m, j, s), k) <=> IsPending(m, k))
         /\ IsPending(WithStatus(m, j, s), j) <=> s = "pending"
  BY DEF WithStatus, IsPending, Jobs

LEMMA StampedEffect ==
  ASSUME NEW m \in Jobs, NEW j \in Ids, NEW s \in Statuses, moment \in Nat
  PROVE  /\ Stamped(m, j, s) \in Jobs
         /\ \A k \in Ids : k # j => (IsPending(Stamped(m, j, s), k) <=> IsPending(m, k))
         /\ IsPending(Stamped(m, j, s), j) <=> s = "pending"
  <1> DEFINE r == WithStatus(m, j, s)
  <1>1. r \in Jobs
    BY WithStatusEffect
  <1> HIDE DEF r
  <1>2. /\ [r EXCEPT !.stamp[j] = moment + 1] \in Jobs
        /\ [r EXCEPT !.stamp[j] = moment + 1].status = r.status
    BY <1>1 DEF Jobs
  <1>3. Stamped(m, j, s) = [r EXCEPT !.stamp[j] = moment + 1]
    BY DEF Stamped, r
  <1>4. \A k \in Ids : IsPending(Stamped(m, j, s), k) <=> IsPending(r, k)
    BY <1>2, <1>3 DEF IsPending
  <1>5. QED
    BY <1>2, <1>3, <1>4, WithStatusEffect DEF r

-----------------------------------------------------------------------------
(***************************************************************************)
(* The inductive invariant.                                                *)
(***************************************************************************)
Types ==
  /\ created \in 0..MaxJobs /\ moment \in Nat
  /\ due \in [Ids -> 0..MaxTime]
  /\ mem \in Jobs /\ disk \in Jobs
  /\ batch \subseteq Ids
  /\ posted \in [Ids -> Nat] /\ revoked \subseteq Ids

\* A job that has not been booked has no history.
Unbooked == \A j \in Ids : j > created => posted[j] = 0 /\ j \notin revoked

\* A job that is pending somewhere can still be delivered: its notice was not
\* posted, and no cancellation of it was answered.
Deliverable(m) == \A j \in Ids : IsPending(m, j) => /\ posted[j] = 0 /\ j <= created
                                                   /\ j \notin revoked

\* The list of a deliver_due holds what it has not begun.
Listed(B) == \A j \in B : posted[j] = 0 /\ j <= created

\* A job in delivery is claimed, in memory and on disk, and listed no more.
Claimed ==
  /\ loop \in {"posting", "sending"} =>
       /\ current \in Ids /\ current \notin batch /\ current <= created
       /\ ~IsPending(mem, current) /\ ~IsPending(disk, current)
  /\ loop = "posting" => posted[current] = 0

IInv ==
  /\ Types /\ AtMostOnce /\ Unbooked
  /\ Deliverable(mem) /\ Deliverable(disk) /\ Listed(batch)
  /\ Claimed

\* _run between two awaits: what it does not deliver stays as it was, and the
\* job it claims leaves memory, disk and list.
LEMMA ProceedEffect ==
  ASSUME NEW B \in SUBSET Ids, NEW m \in Jobs, NEW d \in Jobs,
         Types, AtMostOnce, Unbooked, Deliverable(m), Deliverable(d), Listed(B),
         Proceed(B, m, d), UNCHANGED <<created, due, posted, revoked>>
  PROVE  IInv' /\ batch' \subseteq B /\ current' \in B \cup {0}
  <1>1. CASE B = {}
    <2>1. /\ loop' = "asleep" /\ batch' = {} /\ current' = 0
          /\ mem' = m /\ disk' = d /\ moment' = moment
      BY <1>1 DEF Proceed, Sleep
    <2>2. QED
      BY <2>1 DEF IInv, Types, AtMostOnce, Unbooked, Deliverable, Listed, Claimed, IsPending
  <1>2. CASE B # {}
    <2> DEFINE j == Earliest(B)
               claimed == IF Present(m, j) THEN Stamped(m, j, "fired") ELSE m
    <2>1. j \in B /\ j \in Ids
      BY <1>2, EarliestEffect DEF Types
    <2>2. Claim(B, m, d)
      BY <1>2 DEF Proceed
    <2>3. /\ moment' = moment + 1
          /\ \/ /\ Saved(claimed)
                /\ loop' = "posting" /\ batch' = B \ {j} /\ current' = j
             \/ /\ SaveFailed(claimed, d)
                /\ loop' = "dead" /\ batch' = {} /\ current' = 0
      BY <2>2 DEF Claim
    <2> HIDE DEF j
    <2>4. "fired" \in Statuses
      BY DEF Statuses
    <2>5. /\ claimed \in Jobs /\ ~IsPending(claimed, j)
          /\ \A k \in Ids : IsPending(claimed, k) => IsPending(m, k)
      <3>1. CASE Present(m, j)
        BY <2>1, <2>4, <3>1, StampedEffect DEF Types
      <3>2. CASE ~Present(m, j)
        BY <3>2 DEF Present, IsPending
      <3>3. QED
        BY <3>1, <3>2
    <2> HIDE DEF claimed
    <2>6. /\ Trimmed(claimed) \in Jobs /\ ~IsPending(Trimmed(claimed), j)
          /\ \A k \in Ids : IsPending(Trimmed(claimed), k) => IsPending(m, k)
      BY <2>1, <2>5, TrimmedEffect
    <2>7. mem' = Trimmed(claimed) /\ moment' \in Nat
      BY <2>3 DEF Saved, SaveFailed, Types
    <2>8. Deliverable(Trimmed(claimed))
      BY <2>6 DEF Deliverable
    <2>9. CASE /\ Saved(claimed)
               /\ loop' = "posting" /\ batch' = B \ {j} /\ current' = j
      <3>1. disk' = Trimmed(claimed)
        BY <2>9 DEF Saved
      <3>2. Types'
        BY <2>6, <2>7, <2>9, <3>1 DEF Types
      <3>3. Deliverable(mem)' /\ Deliverable(disk)'
        BY <2>7, <2>8, <3>1 DEF Deliverable, IsPending
      <3>4. Listed(batch)' /\ AtMostOnce' /\ Unbooked'
        BY <2>9 DEF Listed, AtMostOnce, Unbooked
      <3>5. Claimed'
        BY <2>1, <2>6, <2>7, <2>9, <3>1 DEF Claimed, Listed, IsPending
      <3>6. QED
        BY <2>1, <2>9, <3>2, <3>3, <3>4, <3>5 DEF IInv
    <2>10. CASE /\ SaveFailed(claimed, d)
                /\ loop' = "dead" /\ batch' = {} /\ current' = 0
      <3>1. disk' = d
        BY <2>10 DEF SaveFailed
      <3>2. Types'
        BY <2>6, <2>7, <2>10, <3>1 DEF Types
      <3>3. Deliverable(mem)' /\ Deliverable(disk)'
        BY <2>7, <2>8, <3>1 DEF Deliverable, IsPending
      <3>4. Listed(batch)' /\ AtMostOnce' /\ Unbooked' /\ Claimed'
        BY <2>10 DEF Listed, AtMostOnce, Unbooked, Claimed
      <3>5. QED
        BY <2>10, <3>2, <3>3, <3>4 DEF IInv
    <2>11. QED
      BY <2>3, <2>9, <2>10
  <1>3. QED
    BY <1>1, <1>2

-----------------------------------------------------------------------------
(***************************************************************************)
(* Every step preserves it, and no step takes up a job whose cancellation  *)
(* was answered while no deliver_due had it.                               *)
(***************************************************************************)

\* No step makes j, which is neither listed nor in delivery, either of these.
Untouched(j) ==
  posted[j] = 0 /\ j \notin batch \cup {current} =>
    posted'[j] = 0 /\ j \notin (batch \cup {current})'

LEMMA InitInvariant == Init => IInv
  <1> SUFFICES ASSUME Init PROVE IInv
    OBVIOUS
  <1> USE SchedulerAssumption
  <1>1. mem \in Jobs /\ disk \in Jobs
    BY DEF Init, Jobs, Statuses
  <1>2. \A j \in Ids : ~IsPending(mem, j) /\ ~IsPending(disk, j)
    BY DEF Init, IsPending
  <1>3. Types
    BY <1>1 DEF Init, Types
  <1>4. AtMostOnce /\ Unbooked /\ Listed(batch) /\ Claimed
    BY DEF Init, AtMostOnce, Unbooked, Listed, Claimed
  <1>5. QED
    BY <1>2, <1>3, <1>4 DEF IInv, Deliverable

\* schedule: the new id is nobody's.
LEMMA ScheduleStep ==
  ASSUME IInv, NEW t \in 0..MaxTime, Schedule(t)
  PROVE  IInv' /\ \A j \in revoked : Untouched(j)
  <1> USE SchedulerAssumption
  <1> DEFINE n == created + 1
             m == WithStatus(mem, n, "pending")
  <1>1. /\ n \in Ids /\ created' = n
        /\ due' = [due EXCEPT ![n] = t]
        /\ (Saved(m) \/ SaveFailed(m, disk))
        /\ UNCHANGED <<moment, loop, batch, current, posted, revoked>>
    BY DEF Schedule, IInv, Types, Ids
  <1>2. "pending" \in Statuses
    BY DEF Statuses
  <1>3. m \in Jobs /\ \A k \in Ids : IsPending(m, k) => k = n \/ IsPending(mem, k)
    BY <1>1, <1>2, WithStatusEffect DEF IInv, Types
  <1> HIDE DEF m
  <1>4. /\ Trimmed(m) \in Jobs
        /\ \A k \in Ids : IsPending(Trimmed(m), k) => k = n \/ IsPending(mem, k)
    BY <1>3, TrimmedEffect
  <1>5. mem' = Trimmed(m) /\ disk' \in {Trimmed(m), disk}
    BY <1>1 DEF Saved, SaveFailed
  <1>6. created \in Nat /\ n = created + 1 /\ posted[n] = 0 /\ n \notin revoked
    BY <1>1 DEF IInv, Types, Unbooked, Ids
  <1> HIDE DEF n
  <1>7. Types'
    BY <1>1, <1>4, <1>5, <1>6 DEF IInv, Types, Ids
  <1>8. AtMostOnce' /\ Unbooked' /\ Listed(batch)'
    BY <1>1, <1>6 DEF IInv, AtMostOnce, Unbooked, Listed, Types, Ids
  <1>9. Deliverable(mem)'
    BY <1>1, <1>4, <1>5, <1>6 DEF IInv, Deliverable, IsPending, Ids
  <1>10. Deliverable(disk)'
    BY <1>1, <1>4, <1>5, <1>6 DEF IInv, Deliverable, IsPending, Ids
  <1>11. Claimed'
    <2>1. loop \in {"posting", "sending"} => current # n /\ current <= n
      BY <1>6 DEF IInv, Claimed, Ids
    <2>2. QED
      BY <1>1, <1>4, <1>5, <2>1 DEF IInv, Claimed, IsPending
  <1>12. QED
    BY <1>1, <1>7, <1>8, <1>9, <1>10, <1>11 DEF IInv, Untouched

\* cancel: the job is pending nowhere when the answer is given.
LEMMA CancelStep ==
  ASSUME IInv, NEW j \in Ids, Cancel(j)
  PROVE  IInv' /\ \A k \in revoked : Untouched(k)
  <1> USE SchedulerAssumption
  <1> DEFINE m == Stamped(mem, j, "canceled")
  <1>1. /\ moment' = moment + 1 /\ IsPending(mem, j)
        /\ \/ Saved(m) /\ revoked' = revoked \cup {j}
           \/ SaveFailed(m, disk) /\ revoked' = revoked
        /\ UNCHANGED <<created, due, loop, batch, current, posted>>
    BY DEF Cancel, process, IsPending
  <1>2. "canceled" \in Statuses
    BY DEF Statuses
  <1>3. /\ m \in Jobs /\ ~IsPending(m, j)
        /\ \A k \in Ids : IsPending(m, k) => IsPending(mem, k)
    BY <1>2, StampedEffect DEF IInv, Types
  <1> HIDE DEF m
  <1>4. /\ Trimmed(m) \in Jobs /\ ~IsPending(Trimmed(m), j)
        /\ \A k \in Ids : IsPending(Trimmed(m), k) => IsPending(mem, k)
    BY <1>3, TrimmedEffect
  <1>5. /\ mem' = Trimmed(m)
        /\ \/ disk' = Trimmed(m) /\ revoked' = revoked \cup {j}
           \/ disk' = disk /\ revoked' = revoked
    BY <1>1 DEF Saved, SaveFailed
  <1>6. Types'
    BY <1>1, <1>4, <1>5 DEF IInv, Types
  <1>7. AtMostOnce' /\ Unbooked' /\ Listed(batch)'
    BY <1>1, <1>5 DEF IInv, AtMostOnce, Unbooked, Listed, Deliverable, Types, Ids
  <1>8. Deliverable(mem)' /\ Deliverable(disk)'
    BY <1>1, <1>4, <1>5 DEF IInv, Deliverable, IsPending
  <1>9. Claimed'
    BY <1>1, <1>4, <1>5 DEF IInv, Claimed, IsPending
  <1>10. QED
    BY <1>1, <1>6, <1>7, <1>8, <1>9 DEF IInv, Untouched

\* The beginning of deliver_due: it lists what is pending only.
LEMMA AwakeStep ==
  ASSUME IInv, Awake
  PROVE  IInv' /\ \A j \in revoked : Untouched(j)
  <1>1. /\ DueJobs(mem) \in SUBSET Ids /\ Listed(DueJobs(mem))
        /\ \A j \in revoked : j \notin DueJobs(mem)
    BY DEF IInv, Deliverable, Listed, DueJobs, Pending, IsPending
  <1>2. Proceed(DueJobs(mem), mem, disk) /\ UNCHANGED <<created, due, posted, revoked>>
    BY DEF Awake, history
  <1>3. IInv' /\ batch' \subseteq DueJobs(mem) /\ current' \in DueJobs(mem) \cup {0}
    BY <1>1, <1>2, ProceedEffect DEF IInv, Types
  <1>4. revoked \subseteq Ids /\ 0 \notin Ids
    BY DEF IInv, Types, Ids
  <1>5. QED
    BY <1>1, <1>2, <1>3, <1>4 DEF Untouched

\* notify: the first time for this job.
LEMMA PostStep ==
  ASSUME IInv, Post
  PROVE  IInv' /\ \A j \in revoked : Untouched(j)
  <1>1. /\ loop = "posting" /\ loop' = "sending"
        /\ posted' = [posted EXCEPT ![current] = @ + 1]
        /\ UNCHANGED <<due, created, mem, disk, moment, batch, current, revoked>>
    BY DEF Post, schedule
  <1>2. /\ current \in Ids /\ current \notin batch /\ posted[current] = 0
        /\ current <= created
        /\ ~IsPending(mem, current) /\ ~IsPending(disk, current)
    BY <1>1 DEF IInv, Claimed
  <1>3. posted \in [Ids -> Nat]
    BY DEF IInv, Types
  <1>4. posted' \in [Ids -> Nat] /\ posted'[current] = 1
        /\ \A j \in Ids : j # current => posted'[j] = posted[j]
    BY <1>1, <1>2, <1>3
  <1>5. Types' /\ AtMostOnce'
    BY <1>1, <1>2, <1>4 DEF IInv, Types, AtMostOnce
  <1>6. Unbooked' /\ Listed(batch)'
    BY <1>1, <1>2, <1>4 DEF IInv, Types, Unbooked, Listed, Ids
  <1>7. Deliverable(mem)' /\ Deliverable(disk)'
    BY <1>1, <1>2, <1>4 DEF IInv, Deliverable, IsPending
  <1>8. Claimed'
    BY <1>1, <1>2 DEF Claimed, IsPending
  <1>9. \A j \in revoked : Untouched(j)
    BY <1>1, <1>4 DEF IInv, Types, Untouched
  <1>10. QED
    BY <1>5, <1>6, <1>7, <1>8, <1>9 DEF IInv

\* The end of a delivery: the outcome does not make the job pending again, and
\* the list goes on.
LEMMA DeliveredStep ==
  ASSUME IInv, NEW failed \in BOOLEAN, Delivered(failed)
  PROVE  IInv' /\ \A j \in revoked : Untouched(j)
  <1> DEFINE m == Trimmed(Outcome(failed))
  <1>1. /\ loop \in {"posting", "sending"}
        /\ UNCHANGED <<due, created, posted, revoked>>
        /\ \/ Proceed(batch, m, m)
           \/ /\ SaveFailed(m, disk)
              /\ loop' = "dead" /\ batch' = {} /\ current' = 0
              /\ UNCHANGED <<moment, alarm>>
    BY DEF Delivered
  <1>2. current \in Ids /\ "failed" \in Statuses
    BY <1>1 DEF IInv, Claimed, Statuses
  <1>3. /\ Outcome(failed) \in Jobs
        /\ \A j \in Ids : IsPending(Outcome(failed), j) => IsPending(mem, j)
    BY <1>2, WithStatusEffect DEF Outcome, IInv, Types
  <1>4. m \in Jobs /\ \A j \in Ids : IsPending(m, j) => IsPending(mem, j)
    BY <1>3, TrimmedEffect
  <1> HIDE DEF m
  <1>5. Deliverable(m)
    BY <1>4 DEF IInv, Deliverable
  <1>6. revoked \subseteq Ids /\ 0 \notin Ids
    BY DEF IInv, Types, Ids
  <1>7. CASE Proceed(batch, m, m)
    <2>1. IInv' /\ batch' \subseteq batch /\ current' \in batch \cup {0}
      BY <1>1, <1>4, <1>5, <1>7, ProceedEffect DEF IInv, Types
    <2>2. QED
      BY <1>1, <1>6, <2>1 DEF Untouched
  <1>8. CASE /\ SaveFailed(m, disk)
             /\ loop' = "dead" /\ batch' = {} /\ current' = 0
             /\ UNCHANGED <<moment, alarm>>
    <2>1. Trimmed(m) \in Jobs /\ \A j \in Ids : IsPending(Trimmed(m), j) => IsPending(mem, j)
      BY <1>4, TrimmedEffect
    <2>2. mem' = Trimmed(m) /\ disk' = disk
      BY <1>8 DEF SaveFailed
    <2>3. Types'
      BY <1>1, <1>8, <2>1, <2>2 DEF IInv, Types
    <2>4. AtMostOnce' /\ Unbooked' /\ Listed(batch)' /\ Claimed'
      BY <1>1, <1>8 DEF IInv, AtMostOnce, Unbooked, Listed, Claimed
    <2>5. Deliverable(mem)' /\ Deliverable(disk)'
      BY <1>1, <2>1, <2>2 DEF IInv, Deliverable, IsPending
    <2>6. \A j \in revoked : Untouched(j)
      BY <1>1, <1>6, <1>8 DEF Untouched
    <2>7. QED
      BY <2>3, <2>4, <2>5, <2>6 DEF IInv
  <1>9. QED
    BY <1>1, <1>7, <1>8

\* The end of the process: what is on disk is all there is.
LEMMA StopStep ==
  ASSUME IInv, Stop
  PROVE  IInv' /\ \A j \in revoked : Untouched(j)
  <1>1. /\ mem' = disk /\ loop' = "down" /\ batch' = {} /\ current' = 0
        /\ UNCHANGED <<due, created, disk, moment, posted, revoked>>
    BY DEF Stop, history
  <1>2. Types' /\ AtMostOnce' /\ Unbooked' /\ Listed(batch)' /\ Claimed'
    BY <1>1 DEF IInv, Types, AtMostOnce, Unbooked, Listed, Claimed
  <1>3. Deliverable(mem)' /\ Deliverable(disk)'
    BY <1>1 DEF IInv, Deliverable, IsPending
  <1>4. revoked \subseteq Ids /\ 0 \notin Ids
    BY DEF IInv, Types, Ids
  <1>5. QED
    BY <1>1, <1>2, <1>3, <1>4 DEF IInv, Untouched

\* The other steps change nothing of this.
LEMMA IdleStep ==
  ASSUME IInv, Start \/ Tick \/ UNCHANGED vars
  PROVE  IInv' /\ \A j \in revoked : Untouched(j)
  <1>1. /\ UNCHANGED <<due, created, mem, disk, moment, batch, current, posted, revoked>>
        /\ loop' \in {loop, "ready"}
    BY DEF Start, Tick, vars, schedule, process, history
  <1>2. QED
    BY <1>1 DEF IInv, Types, AtMostOnce, Unbooked, Deliverable, Listed, Claimed,
                IsPending, Untouched

LEMMA StepInvariant ==
  ASSUME IInv, [Next]_vars
  PROVE  IInv' /\ \A j \in revoked : Untouched(j)
  <1>1. ASSUME NEW t \in 0..MaxTime, Schedule(t)
        PROVE  IInv' /\ \A j \in revoked : Untouched(j)
    BY <1>1, ScheduleStep
  <1>2. ASSUME NEW j \in Ids, Cancel(j)
        PROVE  IInv' /\ \A k \in revoked : Untouched(k)
    BY <1>2, CancelStep
  <1>3. ASSUME NEW failed \in BOOLEAN, Delivered(failed)
        PROVE  IInv' /\ \A j \in revoked : Untouched(j)
    BY <1>3, DeliveredStep
  <1>4. QED
    BY <1>1, <1>2, <1>3, AwakeStep, PostStep, StopStep, IdleStep DEF Next

-----------------------------------------------------------------------------
\* A job is delivered at most once, whatever is canceled, fails to be saved or
\* is cut short by a restart: it is claimed on disk before it is delivered.
THEOREM DeliveredAtMostOnce == Spec => []AtMostOnce
  <1>1. IInv /\ [Next]_vars => IInv'
    BY StepInvariant
  <1>2. IInv => AtMostOnce
    BY DEF IInv
  <1>3. QED
    BY InitInvariant, <1>1, <1>2, PTL DEF Spec

\* An answered cancellation is final unless a running deliver_due has the job,
\* also across restarts: the job is pending neither in memory nor on disk.
THEOREM AnsweredCancelIsFinal == Spec => CancelIsFinal
  <1>1. IInv /\ [Next]_vars => IInv'
    BY StepInvariant
  <1>2. IInv /\ [Next]_vars =>
          [\A j \in revoked :
             posted[j] = 0 /\ j \notin batch \cup {current} =>
               posted'[j] = 0 /\ j \notin (batch \cup {current})']_vars
    BY StepInvariant DEF Untouched
  <1>3. QED
    BY InitInvariant, <1>1, <1>2, PTL DEF Spec, CancelIsFinal

-----------------------------------------------------------------------------
(***************************************************************************)
(* What a server that stops, or whose disk is full, loses of the jobs it   *)
(* promised.  Besides IInv, the argument needs that what was promised and  *)
(* waits is also on disk, that memory and disk differ only after a save    *)
(* failed, and that deliver_due listed every older job that waited then.   *)
(***************************************************************************)
Promises ==
  /\ told \subseteq Ids /\ \A j \in told : j <= created
  /\ stops \in Nat /\ errors \in Nat /\ since \in Nat /\ since <= created /\ clock \in Nat

PromisedOnDisk == \A j \in told : IsPending(mem, j) => IsPending(disk, j)

InDelivery ==
  /\ loop \notin {"posting", "sending"} => current = 0
  /\ loop = "sending" => posted[current] > 0

ListedByAge ==
  \A b \in batch, j \in Ids :
    IsPending(mem, j) /\ due[j] < due[b] /\ j <= since => j \in batch

LossInv ==
  /\ Promises /\ PromisedOnDisk /\ InDelivery /\ ListedByAge
  /\ OldestFirst /\ MemoryIsSaved /\ LosesOnePerStop

LEMMA OneMoreIsLost ==
  ASSUME NEW L \in SUBSET Ids, NEW K, NEW x, NEW n \in Nat, NEW k \in Nat,
         Cardinality(L) <= n,
         \/ K \subseteq L /\ n <= k
         \/ K \subseteq L \cup {x} /\ n + 1 <= k
  PROVE  Cardinality(K) <= k
  <1> USE SchedulerAssumption
  <1>1. IsFiniteSet(L) /\ Cardinality(L) \in Nat
    <2>1. IsFiniteSet(Ids)
      BY FS_Interval DEF Ids
    <2>2. QED
      BY <2>1, FS_Subset, FS_CardinalityType
  <1>2. CASE K \subseteq L /\ n <= k
    <2>1. IsFiniteSet(K) /\ Cardinality(K) <= Cardinality(L) /\ Cardinality(K) \in Nat
      BY <1>1, <1>2, FS_Subset, FS_CardinalityType
    <2>2. QED
      BY <1>1, <1>2, <2>1
  <1>3. CASE K \subseteq L \cup {x} /\ n + 1 <= k
    <2>1. /\ IsFiniteSet(L \cup {x})
          /\ (Cardinality(L \cup {x}) = Cardinality(L) \/ Cardinality(L \cup {x}) = Cardinality(L) + 1)
      BY <1>1, FS_AddElement
    <2>2. IsFiniteSet(K) /\ Cardinality(K) <= Cardinality(L \cup {x}) /\ Cardinality(K) \in Nat
      BY <1>3, <2>1, FS_Subset, FS_CardinalityType
    <2>3. QED
      BY <1>1, <1>3, <2>1, <2>2
  <1>4. QED
    BY <1>2, <1>3

\* Of the promised jobs, a step loses none, or one with a stop or a failed save.
LossesAreCounted ==
  \/ Lost' \subseteq Lost /\ stops' = stops /\ errors' = errors
  \/ Lost' \subseteq Lost /\ stops' = stops /\ errors' = errors + 1
  \/ \E x \in Ids \cup {0} : Lost' \subseteq Lost \cup {x} /\ stops' = stops /\ errors' = errors + 1
  \/ \E x \in Ids \cup {0} : Lost' \subseteq Lost \cup {x} /\ stops' = stops + 1 /\ errors' = errors

LEMMA CountedStep ==
  ASSUME LossInv, LossesAreCounted
  PROVE  LosesOnePerStop'
  <1>1. PICK L : L = Lost
    OBVIOUS
  <1>2. PICK K : K = Lost'
    OBVIOUS
  <1>3. L \in SUBSET Ids /\ stops + errors \in Nat /\ Cardinality(L) <= stops + errors
    BY <1>1 DEF LossInv, Promises, Lost, LosesOnePerStop
  <1>4. PICK x \in Ids \cup {0} :
          \/ K \subseteq L /\ stops + errors <= stops' + errors'
          \/ K \subseteq L \cup {x} /\ stops + errors + 1 <= stops' + errors'
    <2>1. stops \in Nat /\ errors \in Nat
      BY DEF LossInv, Promises
    <2>2. \/ K \subseteq L /\ stops' = stops /\ errors' = errors
          \/ K \subseteq L /\ stops' = stops /\ errors' = errors + 1
          \/ \E x \in Ids \cup {0} : K \subseteq L \cup {x} /\ stops' = stops /\ errors' = errors + 1
          \/ \E x \in Ids \cup {0} : K \subseteq L \cup {x} /\ stops' = stops + 1 /\ errors' = errors
      BY <1>1, <1>2 DEF LossesAreCounted
    <2>3. QED
      BY <2>1, <2>2
  <1>5. stops' + errors' \in Nat
    BY DEF LossInv, Promises, LossesAreCounted
  <1>6. Cardinality(K) <= stops' + errors'
    BY <1>3, <1>4, <1>5, OneMoreIsLost
  <1>7. QED
    BY <1>2, <1>6 DEF LosesOnePerStop

\* _run between two awaits: it sleeps, has claimed the oldest of its list, or
\* died of a save that failed, and then that job is forgotten.
Rests(m, d) ==
  /\ loop' = "asleep" /\ batch' = {} /\ current' = 0
  /\ mem' = m /\ disk' = d /\ errors' = errors

Claims(B, m) ==
  /\ loop' = "posting" /\ current' \in B /\ batch' = B \ {current'}
  /\ \A k \in B : due[current'] <= due[k]
  /\ mem' = disk' /\ errors' = errors
  /\ \A k \in Ids : IsPending(mem', k) <=> IsPending(m, k) /\ k # current'

Dies(B, m, d) ==
  /\ loop' = "dead" /\ batch' = {} /\ current' = 0
  /\ disk' = d /\ errors' = errors + 1
  /\ \E x \in B : \A k \in Ids : IsPending(mem', k) <=> IsPending(m, k) /\ k # x

LEMMA ProceedShape ==
  ASSUME NEW B \in SUBSET Ids, NEW m \in Jobs, NEW d \in Jobs, Types, Proceed(B, m, d)
  PROVE  Rests(m, d) \/ Claims(B, m) \/ Dies(B, m, d)
  <1>1. CASE B = {}
    BY <1>1 DEF Proceed, Sleep, Rests
  <1>2. CASE B # {}
    <2> DEFINE j == Earliest(B)
               claimed == IF Present(m, j) THEN Stamped(m, j, "fired") ELSE m
    <2>1. j \in B /\ j \in Ids /\ \A k \in B : due[j] <= due[k]
      BY <1>2, EarliestEffect DEF Types
    <2>2. /\ \/ /\ Saved(claimed)
                /\ loop' = "posting" /\ batch' = B \ {j} /\ current' = j
             \/ /\ SaveFailed(claimed, d)
                /\ loop' = "dead" /\ batch' = {} /\ current' = 0
      BY <1>2 DEF Proceed, Claim
    <2> HIDE DEF j
    <2>3. "fired" \in Statuses
      BY DEF Statuses
    <2>4. /\ claimed \in Jobs
          /\ \A k \in Ids : IsPending(claimed, k) <=> IsPending(m, k) /\ k # j
      <3>1. CASE Present(m, j)
        BY <2>1, <2>3, <3>1, StampedEffect DEF Types
      <3>2. CASE ~Present(m, j)
        BY <3>2 DEF Present, IsPending
      <3>3. QED
        BY <3>1, <3>2
    <2> HIDE DEF claimed
    <2>5. \A k \in Ids : IsPending(Trimmed(claimed), k) <=> IsPending(m, k) /\ k # j
      BY <2>4, TrimmedEffect
    <2>6. CASE /\ Saved(claimed)
               /\ loop' = "posting" /\ batch' = B \ {j} /\ current' = j
      BY <2>1, <2>5, <2>6 DEF Saved, Claims
    <2>7. CASE /\ SaveFailed(claimed, d)
               /\ loop' = "dead" /\ batch' = {} /\ current' = 0
      <3>1. mem' = Trimmed(claimed) /\ disk' = d /\ errors' = errors + 1
        BY <2>7 DEF SaveFailed
      <3>2. QED
        BY <2>1, <2>5, <2>7, <3>1 DEF Dies
    <2>8. QED
      BY <2>2, <2>6, <2>7
  <1>3. QED
    BY <1>1, <1>2

LEMMA LossInitially == Init => LossInv
  <1> SUFFICES ASSUME Init PROVE LossInv
    OBVIOUS
  <1> USE SchedulerAssumption
  <1>1. Lost = {}
    BY DEF Init, Lost
  <1>2. LosesOnePerStop
    BY <1>1, FS_EmptySet DEF Init, LosesOnePerStop
  <1>3. Promises /\ PromisedOnDisk /\ InDelivery /\ ListedByAge
    BY DEF Init, Promises, PromisedOnDisk, InDelivery, ListedByAge
  <1>4. OldestFirst /\ MemoryIsSaved
    BY DEF Init, OldestFirst, MemoryIsSaved
  <1>5. QED
    BY <1>2, <1>3, <1>4 DEF LossInv

\* A booking that was answered is saved; one that was not, promised nothing.
LEMMA ScheduleLoses ==
  ASSUME IInv, LossInv, NEW t \in 0..MaxTime, Schedule(t)
  PROVE  LossInv'
  <1> USE SchedulerAssumption
  <1> DEFINE n == created + 1
             m == WithStatus(mem, n, "pending")
  <1>1. /\ n \in Ids /\ created' = n
        /\ due' = [due EXCEPT ![n] = t]
        /\ \/ Saved(m) /\ told' = told \cup {n}
           \/ SaveFailed(m, disk) /\ told' = told
        /\ UNCHANGED <<clock, loop, batch, current, stops, revoked, posted, raised, since>>
    BY DEF Schedule, IInv, Types, Ids
  <1>2. "pending" \in Statuses
    BY DEF Statuses
  <1>3. m \in Jobs /\ \A k \in Ids : IsPending(m, k) <=> k = n \/ IsPending(mem, k)
    BY <1>1, <1>2, WithStatusEffect DEF IInv, Types
  <1> HIDE DEF m
  <1>4. \A k \in Ids : IsPending(Trimmed(m), k) <=> k = n \/ IsPending(mem, k)
    BY <1>3, TrimmedEffect
  <1>5. /\ mem' = Trimmed(m)
        /\ \/ disk' = Trimmed(m) /\ errors' = errors /\ told' = told \cup {n}
           \/ disk' = disk /\ errors' = errors + 1 /\ told' = told
    BY <1>1 DEF Saved, SaveFailed
  <1>6. created \in Nat /\ n = created + 1 /\ n > since /\ n \notin told
    BY DEF IInv, Types, LossInv, Promises
  <1>7. \A b \in batch : b \in Ids /\ b # n
    BY <1>6 DEF IInv, Types, Listed, Ids
  <1>8. current # 0 => current \in Ids /\ current # n
    BY <1>6 DEF IInv, Claimed, LossInv, InDelivery, Ids
  <1>9. /\ due \in [Ids -> 0..MaxTime]
        /\ \A j \in Ids : j # n => due'[j] = due[j]
    BY <1>1 DEF IInv, Types
  <1> HIDE DEF n
  <1>10. Promises'
    <2>1. told' \subseteq Ids /\ \A j \in told' : j <= created + 1
      <3>1. told' \subseteq told \cup {n} /\ n \in Ids
        BY <1>1, <1>5
      <3>2. told \subseteq Ids /\ \A j \in told : j \in Nat /\ j <= created
        BY DEF LossInv, Promises, Ids
      <3>3. QED
        BY <1>6, <3>1, <3>2
    <2>2. stops' \in Nat /\ errors' \in Nat /\ since' \in Nat /\ since' <= created + 1 /\ clock' \in Nat
      BY <1>1, <1>5, <1>6 DEF LossInv, Promises
    <2>3. QED
      BY <1>1, <1>6, <2>1, <2>2 DEF Promises
  <1>11. PromisedOnDisk'
    BY <1>4, <1>5, <1>6 DEF LossInv, Promises, PromisedOnDisk, IsPending
  <1>12. InDelivery'
    BY <1>1 DEF LossInv, InDelivery
  <1>13. ListedByAge'
    <2> SUFFICES ASSUME NEW b \in batch, NEW j \in Ids, IsPending(mem, j)',
                        due'[j] < due'[b], j <= since
                 PROVE  j \in batch
      BY <1>1 DEF ListedByAge
    <2>1. b \in Ids /\ due'[b] = due[b]
      BY <1>7, <1>9
    <2>2. j # n
      BY <1>6 DEF LossInv, Promises
    <2>3. IsPending(mem, j) /\ due[j] < due[b]
      BY <1>4, <1>5, <1>9, <2>1, <2>2 DEF IsPending
    <2>4. QED
      BY <2>3 DEF LossInv, ListedByAge
  <1>14. OldestFirst'
    BY <1>1, <1>4, <1>5, <1>6, <1>8, <1>9 DEF LossInv, OldestFirst, Pending, IsPending
  <1>15. MemoryIsSaved'
    BY <1>5 DEF LossInv, Promises, MemoryIsSaved
  <1>16. Lost' \subseteq Lost
    BY <1>1, <1>4, <1>5 DEF LossInv, Promises, Lost, IsPending
  <1>17. LosesOnePerStop'
    BY <1>1, <1>5, <1>16, CountedStep DEF LossesAreCounted
  <1>18. QED
    BY <1>10, <1>11, <1>12, <1>13, <1>14, <1>15, <1>17 DEF LossInv

\* A cancellation that is not saved is not answered: that job may be lost.
LEMMA CancelLoses ==
  ASSUME IInv, LossInv, NEW j \in Ids, Cancel(j)
  PROVE  LossInv'
  <1> DEFINE m == Stamped(mem, j, "canceled")
  <1>1. /\ \/ Saved(m) /\ revoked' = revoked \cup {j}
           \/ SaveFailed(m, disk) /\ revoked' = revoked
        /\ UNCHANGED <<clock, created, due, loop, batch, current, stops, told, posted, raised,
                       since>>
    BY DEF Cancel, process
  <1>2. "canceled" \in Statuses
    BY DEF Statuses
  <1>3. m \in Jobs /\ \A k \in Ids : IsPending(m, k) <=> IsPending(mem, k) /\ k # j
    BY <1>2, StampedEffect DEF IInv, Types
  <1> HIDE DEF m
  <1>4. \A k \in Ids : IsPending(Trimmed(m), k) <=> IsPending(mem, k) /\ k # j
    BY <1>3, TrimmedEffect
  <1>5. /\ mem' = Trimmed(m)
        /\ \/ disk' = Trimmed(m) /\ errors' = errors /\ revoked' = revoked \cup {j}
           \/ disk' = disk /\ errors' = errors + 1 /\ revoked' = revoked
    BY <1>1 DEF Saved, SaveFailed
  <1>6. Promises' /\ InDelivery'
    BY <1>1, <1>5 DEF LossInv, Promises, InDelivery
  <1>7. PromisedOnDisk'
    BY <1>1, <1>4, <1>5 DEF LossInv, Promises, PromisedOnDisk, IsPending
  <1>8. ListedByAge' /\ OldestFirst'
    BY <1>1, <1>4, <1>5 DEF LossInv, ListedByAge, OldestFirst, Pending, IsPending
  <1>9. MemoryIsSaved'
    BY <1>5 DEF LossInv, Promises, MemoryIsSaved
  <1>10. \/ Lost' \subseteq Lost /\ errors' = errors
         \/ Lost' \subseteq Lost \cup {j} /\ errors' = errors + 1
    BY <1>1, <1>4, <1>5 DEF LossInv, Promises, Lost, IsPending
  <1>11. LosesOnePerStop'
    BY <1>1, <1>10, CountedStep DEF LossesAreCounted
  <1>12. QED
    BY <1>6, <1>7, <1>8, <1>9, <1>11 DEF LossInv

\* The part of Proceed that all its callers share: what its list B leaves out
\* is newer than this deliver_due, or later than all it delivers.
LEMMA ProceedLoses ==
  ASSUME IInv, LossInv, IInv',
         NEW B \in SUBSET Ids, NEW m \in Jobs, NEW d \in Jobs, Proceed(B, m, d),
         \A k \in Ids : IsPending(m, k) <=> IsPending(mem, k),
         m = d \/ (m = mem /\ d = disk),
         \A b \in B, k \in Ids : IsPending(m, k) /\ due[k] < due[b] /\ k <= since' => k \in B,
         since' \in Nat, since' <= created,
         raised \subseteq raised',
         current = 0 \/ posted[current] > 0 \/ current \in raised',
         UNCHANGED <<clock, created, due, stops, told, posted, revoked>>
  PROVE  LossInv'
  <1>1. Rests(m, d) \/ Claims(B, m) \/ Dies(B, m, d)
    BY ProceedShape DEF IInv
  <1>2. stops \in Nat /\ errors \in Nat /\ errors' \in {errors, errors + 1}
    BY <1>1 DEF LossInv, Promises, Rests, Claims, Dies
  <1>3. Promises'
    BY <1>2 DEF LossInv, Promises
  <1>4. InDelivery'
    BY <1>1 DEF InDelivery, Rests, Claims, Dies
  <1>5. PromisedOnDisk'
    <2>1. \A k \in told : k \in Ids /\ (IsPending(m, k) => IsPending(d, k))
      BY DEF LossInv, Promises, PromisedOnDisk
    <2>2. CASE Rests(m, d)
      BY <2>1, <2>2 DEF Rests, PromisedOnDisk, IsPending
    <2>3. CASE Claims(B, m)
      BY <2>3 DEF Claims, PromisedOnDisk, IsPending
    <2>4. CASE Dies(B, m, d)
      BY <2>1, <2>4 DEF Dies, PromisedOnDisk, IsPending
    <2>5. QED
      BY <1>1, <2>2, <2>3, <2>4
  <1>6. MemoryIsSaved'
    BY <1>1, <1>2 DEF LossInv, MemoryIsSaved, Rests, Claims, Dies
  <1>7. ListedByAge' /\ OldestFirst'
    <2>1. CASE Rests(m, d) \/ Dies(B, m, d)
      BY <2>1 DEF Rests, Dies, ListedByAge, OldestFirst
    <2>2. CASE Claims(B, m)
      <3>1. /\ current' \in B /\ batch' = B \ {current'}
            /\ \A k \in B : due[current'] <= due[k]
            /\ \A k \in Ids : IsPending(mem, k)' => IsPending(m, k) /\ k # current'
        BY <2>2 DEF Claims, IsPending
      <3>2. ListedByAge'
        BY <3>1 DEF ListedByAge
      <3>3. OldestFirst'
        <4> SUFFICES ASSUME NEW k \in Ids, IsPending(mem, k)', due[k] < due[current'], k <= since'
                     PROVE  FALSE
          BY DEF OldestFirst, Pending, IsPending, Ids
        <4>1. k \in B
          BY <3>1
        <4>2. due[current'] \in Nat /\ due[k] \in Nat
          BY <3>1 DEF IInv, Types
        <4>3. QED
          BY <3>1, <4>1, <4>2
      <3>4. QED
        BY <3>2, <3>3
    <2>3. QED
      BY <1>1, <2>1, <2>2
  <1>8. LossesAreCounted
    <2>1. told \subseteq Ids
      BY DEF LossInv, Promises
    <2>2. CASE Rests(m, d)
      <3>1. Lost' \subseteq Lost
        BY <2>1, <2>2 DEF Rests, Lost, IsPending, LossInv, Types, IInv
      <3>2. QED
        BY <2>2, <3>1 DEF Rests, LossesAreCounted
    <2>3. CASE Claims(B, m)
      <3>1. Lost' \subseteq Lost
        <4> SUFFICES ASSUME NEW x \in Lost' PROVE x \in Lost
          OBVIOUS
        <4>1. /\ x \in told /\ x \in Ids /\ posted[x] = 0 /\ x \notin raised' \cup revoked
              /\ x # current' /\ ~IsPending(mem', x)
          BY <2>1 DEF Lost, IsPending
        <4>2. ~IsPending(mem, x)
          BY <2>3, <4>1 DEF Claims
        <4>3. x # current
          BY <4>1 DEF Ids
        <4>4. QED
          BY <4>1, <4>2, <4>3 DEF Lost, IsPending
      <3>2. QED
        BY <2>3, <3>1 DEF Claims, LossesAreCounted
    <2>4. CASE Dies(B, m, d)
      <3>1. PICK x \in B : \A k \in Ids : IsPending(mem', k) <=> IsPending(m, k) /\ k # x
        BY <2>4 DEF Dies
      <3>2. Lost' \subseteq Lost \cup {x}
        BY <2>1, <2>4, <3>1 DEF Dies, Lost, IsPending, LossInv, Types, IInv
      <3>3. QED
        BY <2>4, <3>2 DEF Dies, LossesAreCounted
    <2>5. QED
      BY <1>1, <2>2, <2>3, <2>4
  <1>9. LosesOnePerStop'
    BY <1>8, CountedStep
  <1>10. QED
    BY <1>3, <1>4, <1>5, <1>6, <1>7, <1>9 DEF LossInv

LEMMA AwakeLoses ==
  ASSUME IInv, LossInv, Awake
  PROVE  LossInv'
  <1>1. /\ Proceed(DueJobs(mem), mem, disk) /\ since' = created /\ loop \in {"ready", "asleep"}
        /\ UNCHANGED <<clock, created, due, stops, told, posted, revoked, raised>>
    BY DEF Awake, history
  <1>2. DueJobs(mem) \in SUBSET Ids
    BY DEF DueJobs, Pending
  <1>3. \A b \in DueJobs(mem), k \in Ids :
          IsPending(mem, k) /\ due[k] < due[b] => k \in DueJobs(mem)
    BY DEF DueJobs, Pending, IsPending, IInv, Types, LossInv, Promises
  <1>4. IInv'
    BY AwakeStep
  <1>5. current = 0 /\ created \in Nat /\ mem \in Jobs /\ disk \in Jobs
    BY <1>1 DEF LossInv, InDelivery, IInv, Types
  <1>6. QED
    BY <1>1, <1>2, <1>3, <1>4, <1>5, ProceedLoses

LEMMA PostLoses ==
  ASSUME IInv, LossInv, Post
  PROVE  LossInv'
  <1>1. /\ loop = "posting" /\ loop' = "sending"
        /\ posted' = [posted EXCEPT ![current] = @ + 1]
        /\ UNCHANGED <<clock, due, created, mem, disk, batch, current, stops, errors, told,
                       revoked, raised, since>>
    BY DEF Post, schedule
  <1>2. posted \in [Ids -> Nat] /\ current \in Ids
    BY <1>1 DEF IInv, Types, Claimed
  <1>3. posted'[current] > 0 /\ \A j \in Ids : posted'[j] = 0 => posted[j] = 0
    BY <1>1, <1>2
  <1>4. Promises' /\ PromisedOnDisk' /\ InDelivery'
    BY <1>1, <1>3 DEF LossInv, Promises, PromisedOnDisk, InDelivery, IsPending
  <1>5. ListedByAge' /\ OldestFirst' /\ MemoryIsSaved'
    BY <1>1 DEF LossInv, ListedByAge, OldestFirst, MemoryIsSaved, IsPending, Pending
  <1>6. Lost' \subseteq Lost
    BY <1>1, <1>3 DEF LossInv, Promises, Lost
  <1>7. LosesOnePerStop'
    BY <1>1, <1>6, CountedStep DEF LossesAreCounted
  <1>8. QED
    BY <1>4, <1>5, <1>7 DEF LossInv

\* A delivery that ends was posted or raised: its job is not lost.
LEMMA DeliveredLoses ==
  ASSUME IInv, LossInv, NEW failed \in BOOLEAN, Delivered(failed)
  PROVE  LossInv'
  <1> DEFINE m == Trimmed(Outcome(failed))
  <1>1. /\ \/ loop = "sending" /\ raised' = raised
           \/ loop = "posting" /\ raised' = raised \cup {current}
        /\ UNCHANGED <<clock, due, created, posted, revoked, stops, told, since>>
        /\ \/ Proceed(batch, m, m)
           \/ /\ SaveFailed(m, disk)
              /\ loop' = "dead" /\ batch' = {} /\ current' = 0
    BY DEF Delivered
  <1>2. current \in Ids /\ "failed" \in Statuses /\ ~IsPending(mem, current)
    BY <1>1 DEF IInv, Claimed, Statuses
  <1>3. /\ Outcome(failed) \in Jobs
        /\ \A j \in Ids : IsPending(Outcome(failed), j) <=> IsPending(mem, j)
    BY <1>2, WithStatusEffect DEF Outcome, IInv, Types
  <1>4. m \in Jobs /\ \A j \in Ids : IsPending(m, j) <=> IsPending(mem, j)
    BY <1>3, TrimmedEffect
  <1> HIDE DEF m
  <1>5. posted[current] > 0 \/ current \in raised'
    BY <1>1 DEF LossInv, InDelivery
  <1>6. CASE Proceed(batch, m, m)
    <2>1. IInv' /\ batch \in SUBSET Ids /\ since' \in Nat /\ since' <= created
      BY <1>1, DeliveredStep DEF IInv, Types, LossInv, Promises
    <2>2. \A b \in batch, k \in Ids : IsPending(m, k) /\ due[k] < due[b] /\ k <= since' => k \in batch
      BY <1>1, <1>4 DEF LossInv, ListedByAge
    <2>3. raised \subseteq raised'
      BY <1>1
    <2>4. QED
      BY <1>1, <1>4, <1>5, <1>6, <2>1, <2>2, <2>3, ProceedLoses
  <1>7. CASE /\ SaveFailed(m, disk)
             /\ loop' = "dead" /\ batch' = {} /\ current' = 0
    <2>1. \A j \in Ids : IsPending(Trimmed(m), j) <=> IsPending(mem, j)
      BY <1>4, TrimmedEffect
    <2>2. mem' = Trimmed(m) /\ disk' = disk /\ errors' = errors + 1
      BY <1>7 DEF SaveFailed
    <2>3. Promises' /\ MemoryIsSaved'
      BY <1>1, <2>2 DEF LossInv, Promises, MemoryIsSaved
    <2>4. PromisedOnDisk'
      BY <1>1, <2>1, <2>2 DEF LossInv, Promises, PromisedOnDisk, IsPending
    <2>5. InDelivery' /\ ListedByAge' /\ OldestFirst'
      BY <1>7 DEF InDelivery, ListedByAge, OldestFirst
    <2>6. Lost' \subseteq Lost
      BY <1>1, <1>5, <1>7, <2>1, <2>2 DEF LossInv, Promises, Lost, IsPending, IInv, Types
    <2>7. LosesOnePerStop'
      BY <1>1, <2>2, <2>6, CountedStep DEF LossesAreCounted
    <2>8. QED
      BY <2>3, <2>4, <2>5, <2>7 DEF LossInv
  <1>8. QED
    BY <1>1, <1>6, <1>7

\* A stop loses the job in delivery: the others that wait are on disk.
LEMMA StopLoses ==
  ASSUME IInv, LossInv, Stop
  PROVE  LossInv'
  <1>1. /\ mem' = disk /\ loop' = "down" /\ batch' = {} /\ current' = 0 /\ stops' = stops + 1
        /\ UNCHANGED <<clock, due, created, disk, errors, told, posted, revoked, raised, since>>
    BY DEF Stop, history
  <1>2. Promises' /\ PromisedOnDisk' /\ InDelivery'
    BY <1>1 DEF LossInv, Promises, PromisedOnDisk, InDelivery, IsPending
  <1>3. ListedByAge' /\ OldestFirst' /\ MemoryIsSaved'
    BY <1>1 DEF ListedByAge, OldestFirst, MemoryIsSaved
  <1>4. current \in Ids \cup {0}
    BY DEF IInv, Claimed, LossInv, InDelivery
  <1>5. Lost' \subseteq Lost \cup {current}
    BY <1>1 DEF LossInv, Promises, PromisedOnDisk, Lost, IsPending
  <1>6. LosesOnePerStop'
    BY <1>1, <1>4, <1>5, CountedStep DEF LossesAreCounted
  <1>7. QED
    BY <1>2, <1>3, <1>6 DEF LossInv

LEMMA IdleLoses ==
  ASSUME IInv, LossInv, Start \/ Tick \/ UNCHANGED vars
  PROVE  LossInv'
  <1>1. /\ UNCHANGED <<due, created, mem, disk, batch, current, stops, errors, told, posted,
                       revoked, raised, since>>
        /\ (loop' = loop \/ (loop = "down" /\ loop' = "ready"))
        /\ clock' \in {clock, clock + 1}
    BY DEF Start, Tick, vars, schedule, process, history
  <1>2. Lost' = Lost
    BY <1>1 DEF Lost
  <1>3. LosesOnePerStop'
    BY <1>1, <1>2 DEF LossInv, LosesOnePerStop
  <1>4. QED
    BY <1>1, <1>3 DEF LossInv, Promises, PromisedOnDisk, InDelivery, ListedByAge, OldestFirst,
                      MemoryIsSaved, IsPending, Pending

LEMMA LossStep ==
  ASSUME IInv, LossInv, [Next]_vars
  PROVE  LossInv'
  <1>1. ASSUME NEW t \in 0..MaxTime, Schedule(t) PROVE LossInv'
    BY <1>1, ScheduleLoses
  <1>2. ASSUME NEW j \in Ids, Cancel(j) PROVE LossInv'
    BY <1>2, CancelLoses
  <1>3. ASSUME NEW failed \in BOOLEAN, Delivered(failed) PROVE LossInv'
    BY <1>3, DeliveredLoses
  <1>4. QED
    BY <1>1, <1>2, <1>3, AwakeLoses, PostLoses, StopLoses, IdleLoses DEF Next

LEMMA LossGives == IInv /\ LossInv => JobsAreKept
  BY DEF IInv, LossInv, JobsAreKept

\* Each stop of the server, and each save that fails, loses at most one of the
\* jobs that were promised; a server without errors has saved all it knows;
\* and the oldest job is delivered first (scheduling.py 125-146, 180-230).
THEOREM StopsLoseOneJob == Spec => [](LosesOnePerStop /\ MemoryIsSaved /\ OldestFirst)
  <1>1. IInv /\ LossInv /\ [Next]_vars => IInv' /\ LossInv'
    BY StepInvariant, LossStep
  <1>2. LossInv => LosesOnePerStop /\ MemoryIsSaved /\ OldestFirst
    BY DEF LossInv
  <1>3. QED
    BY InitInvariant, LossInitially, <1>1, <1>2, PTL DEF Spec

-----------------------------------------------------------------------------
(* The open microphone (VoiceListening).                                   *)
\* A fold over frames, unfolded: Iterates says that g is the function which
\* the definition of the fold recurses on, over the first k frames.
Iterates(g, k, start, s) ==
  g = [T \in SUBSET (1..k) |-> IF T = {} THEN start ELSE Frame(g[T \ {Max(T)}], s[Max(T)])]

Framed(e, s) == FoldLeft(Frame, e, s)

LEMMA FoldIs ==
  ASSUME NEW start, NEW s, NEW n, DOMAIN s = 1..n
  PROVE  Framed(start, s) = (CHOOSE g : Iterates(g, n, start, s))[1..n]
  BY DEF Framed, FoldLeft, MapThenFoldSet, Iterates

LEMMA MaxIs ==
  ASSUME NEW T, NEW m \in T, T \subseteq Nat, \A x \in T : x <= m
  PROVE  Max(T) = m
  <1>1. \A x \in T : x \in Nat
    OBVIOUS
  <1>2. \A y \in T : m >= y
    BY <1>1
  <1>3. Max(T) \in T /\ \A y \in T : Max(T) >= y
    BY <1>2 DEF Max
  <1>4. Max(T) \in Nat /\ Max(T) <= m /\ Max(T) >= m
    BY <1>1, <1>3
  <1>5. QED
    BY <1>1, <1>4

LEMMA IteratesLonger ==
  ASSUME NEW start, NEW s, NEW k \in Nat, NEW g, Iterates(g, k, start, s)
  PROVE  \E h : Iterates(h, k + 1, start, s)
  <1> DEFINE h == [T \in SUBSET (1..(k + 1)) |->
                     IF k + 1 \notin T THEN g[T] ELSE Frame(g[T \ {k + 1}], s[k + 1])]
  <1>1. ASSUME NEW T \in SUBSET (1..(k + 1))
        PROVE  h[T] = IF T = {} THEN start ELSE Frame(h[T \ {Max(T)}], s[Max(T)])
    <2>1. CASE k + 1 \notin T
      <3>1. T \in SUBSET (1..k)
        BY <2>1
      <3>2. h[T] = IF T = {} THEN start ELSE Frame(g[T \ {Max(T)}], s[Max(T)])
        BY <2>1, <3>1 DEF Iterates
      <3>3. T \ {Max(T)} \in SUBSET (1..(k + 1)) /\ k + 1 \notin T \ {Max(T)}
        BY <2>1
      <3>4. h[T \ {Max(T)}] = g[T \ {Max(T)}]
        BY <3>3
      <3>5. QED
        BY <3>2, <3>4
    <2>2. CASE k + 1 \in T
      <3>1. Max(T) = k + 1
        <4>1. T \subseteq Nat /\ \A x \in T : x <= k + 1
          OBVIOUS
        <4>2. QED
          BY <2>2, <4>1, MaxIs
      <3>2. T \ {k + 1} \in SUBSET (1..(k + 1)) /\ k + 1 \notin T \ {k + 1}
        OBVIOUS
      <3>3. h[T \ {k + 1}] = g[T \ {k + 1}]
        BY <3>2
      <3>4. h[T] = Frame(g[T \ {k + 1}], s[k + 1])
        BY <2>2
      <3>5. T # {}
        BY <2>2
      <3>6. QED
        BY <3>1, <3>3, <3>4, <3>5
    <2>3. QED
      BY <2>1, <2>2
  <1>2. h = [T \in SUBSET (1..(k + 1)) |-> IF T = {} THEN start ELSE Frame(h[T \ {Max(T)}], s[Max(T)])]
    <2>1. h = [T \in SUBSET (1..(k + 1)) |-> h[T]]
      OBVIOUS
    <2> HIDE DEF h
    <2>2. QED
      BY <1>1, <2>1
  <1> HIDE DEF h
  <1>3. Iterates(h, k + 1, start, s)
    BY <1>2 DEF Iterates
  <1>4. QED
    BY <1>3

LEMMA IteratesExists ==
  ASSUME NEW start, NEW s, NEW n \in Nat
  PROVE  \E g : Iterates(g, n, start, s)
  <1> DEFINE W == {k \in Nat : ~(\E g : Iterates(g, k, start, s))}
  <1>1. SUFFICES ASSUME W # {} PROVE FALSE
    OBVIOUS
  <1>2. PICK k \in W : \A i \in W : k <= i
    BY <1>1, LeastNumber
  <1>3. CASE k = 0
    <2> DEFINE g == [T \in SUBSET (1..0) |-> start]
    <2>1. \A T \in SUBSET (1..0) : T = {}
      OBVIOUS
    <2>2. g = [T \in SUBSET (1..0) |-> IF T = {} THEN start ELSE Frame(g[T \ {Max(T)}], s[Max(T)])]
      BY <2>1
    <2> HIDE DEF g
    <2>3. Iterates(g, 0, start, s)
      BY <2>2 DEF Iterates
    <2>4. QED
      BY <1>2, <1>3, <2>3
  <1>4. CASE k # 0
    <2>1. k - 1 \in Nat /\ ~(k <= k - 1) /\ (k - 1) + 1 = k
      BY <1>4
    <2>2. k - 1 \notin W
      BY <1>2, <2>1
    <2>3. PICK g : Iterates(g, k - 1, start, s)
      BY <2>1, <2>2
    <2>4. \E h : Iterates(h, (k - 1) + 1, start, s)
      BY <2>1, <2>3, IteratesLonger
    <2>5. \E h : Iterates(h, k, start, s)
      BY <2>1, <2>4
    <2>6. QED
      BY <1>2, <2>5
  <1>5. QED
    BY <1>3, <1>4

\* The fold of frames goes through a listener for each of them.
RunsOver(h, start, s, n) ==
  h[0] = start /\ h[n] = Framed(start, s) /\ \A k \in 1..n : h[k] = Frame(h[k - 1], s[k])

LEMMA FoldRuns ==
  ASSUME NEW start, NEW s, NEW n \in Nat, DOMAIN s = 1..n
  PROVE  \E h : RunsOver(h, start, s, n)
  <1> DEFINE g == CHOOSE f : Iterates(f, n, start, s)
             h == [k \in 0..n |-> g[1..k]]
  <1>1. Iterates(g, n, start, s)
    BY IteratesExists
  <1>2. Framed(start, s) = g[1..n]
    BY FoldIs
  <1> HIDE DEF g
  <1>3. \A T \in SUBSET (1..n) : g[T] = IF T = {} THEN start ELSE Frame(g[T \ {Max(T)}], s[Max(T)])
    BY <1>1 DEF Iterates
  <1>4. h[0] = start
    <2>1. 1..0 = {} /\ {} \in SUBSET (1..n) /\ 0 \in 0..n
      OBVIOUS
    <2>2. QED
      BY <1>3, <2>1
  <1>5. ASSUME NEW k \in 1..n PROVE h[k] = Frame(h[k - 1], s[k])
    <2>1. /\ 1..k \in SUBSET (1..n) /\ 1..k # {} /\ k \in 1..k /\ (1..k) \ {k} = 1..(k - 1)
          /\ k - 1 \in 0..n /\ k \in 0..n
      <3>1. k \in Nat /\ 1 <= k /\ k <= n
        OBVIOUS
      <3>2. k \in 1..k /\ k - 1 \in 0..n /\ k \in 0..n
        BY <3>1
      <3>3. 1..k \in SUBSET (1..n)
        BY <3>1
      <3>4. (1..k) \ {k} = 1..(k - 1)
        BY <3>1
      <3>5. QED
        BY <3>2, <3>3, <3>4
    <2>2. Max(1..k) = k
      <3>1. 1..k \subseteq Nat /\ \A x \in 1..k : x <= k
        OBVIOUS
      <3>2. QED
        BY <2>1, <3>1, MaxIs
    <2>3. g[1..k] = Frame(g[1..(k - 1)], s[k])
      BY <1>3, <2>1, <2>2
    <2>4. QED
      BY <2>1, <2>3
  <1>6. h[n] = g[1..n]
    OBVIOUS
  <1> HIDE DEF h
  <1>7. QED
    BY <1>2, <1>4, <1>5, <1>6 DEF RunsOver

-----------------------------------------------------------------------------
\* A listener has its fields, whatever is done to it.
EarFields ==
  {"backend", "state", "from", "playback", "preroll", "dictation", "onset", "length", "silence", "command",
   "partial", "audio", "draftAt", "finalPending", "job", "running", "heard", "out", "said"}
AFrame == [n : Nat, kind : FrameKinds]
AFrames == Seq(AFrame)
JobFields == {"audio", "final", "limit", "canceled", "real"}
EarStates == {"waiting", "listening", "paused"}

IsJob(j) == DOMAIN j = JobFields /\ j = [x \in JobFields |-> j[x]] /\ j.real \in BOOLEAN
IsEar(e) ==
  /\ DOMAIN e = EarFields /\ e = [x \in EarFields |-> e[x]]
  /\ IsJob(e.job) /\ IsJob(e.running) /\ e.preroll \in AFrames
  /\ e.state \in EarStates /\ e.from \in EarStates

\* The decode that runs is the same one, canceled or not.
SameDecode(e, d) ==
  /\ IsEar(d) /\ d.backend = e.backend /\ d.running.real = e.running.real /\ d.running.audio = e.running.audio

LEMMA NoFrames == <<>> \in AFrames
  BY DEF AFrames

LEMMA NewEarIs ==
  ASSUME NEW b
  PROVE  IsEar(NewEar(b)) /\ NewEar(b).backend = b /\ NewEar(b).running.real = FALSE /\ NewEar(b).out = <<>>
  BY NoFrames DEF IsEar, IsJob, NewEar, NoJob, EarFields, JobFields, EarStates

LEMMA InvalidateSame ==
  ASSUME NEW e, IsEar(e), NEW preserve \in BOOLEAN
  PROVE  SameDecode(e, Invalidate(e, preserve))
  BY SMTT(40), ZenonT(40) DEF Invalidate, SameDecode, IsEar, IsJob, NoJob, EarFields, JobFields

LEMMA ResetSame == ASSUME NEW e, IsEar(e) PROVE SameDecode(e, ResetAttempt(e))
  BY NoFrames DEF ResetAttempt, SameDecode, IsEar, EarFields

LEMMA SameOnwards ==
  ASSUME NEW e, NEW d, NEW c, SameDecode(e, d), SameDecode(d, c)
  PROVE  SameDecode(e, c)
  BY DEF SameDecode

LEMMA SameField ==
  ASSUME NEW e, IsEar(e), NEW x
  PROVE  /\ SameDecode(e, e)
         /\ (x \in EarStates => SameDecode(e, [e EXCEPT !.state = x]) /\ SameDecode(e, [e EXCEPT !.from = x]))
         /\ SameDecode(e, [e EXCEPT !.preroll = <<>>]) /\ SameDecode(e, [e EXCEPT !.playback = x])
         /\ SameDecode(e, [e EXCEPT !.onset = x]) /\ SameDecode(e, [e EXCEPT !.dictation = x])
         /\ SameDecode(e, [e EXCEPT !.length = x]) /\ SameDecode(e, [e EXCEPT !.silence = x])
         /\ SameDecode(e, [e EXCEPT !.command = x]) /\ SameDecode(e, [e EXCEPT !.partial = x])
         /\ SameDecode(e, [e EXCEPT !.audio = x]) /\ SameDecode(e, [e EXCEPT !.draftAt = x])
         /\ SameDecode(e, [e EXCEPT !.finalPending = x]) /\ SameDecode(e, [e EXCEPT !.heard = x])
         /\ SameDecode(e, [e EXCEPT !.out = x]) /\ SameDecode(e, [e EXCEPT !.said = x])
         /\ (IsJob(x) => SameDecode(e, [e EXCEPT !.job = x]))
  BY NoFrames DEF SameDecode, IsEar, EarFields

LEMMA SendsSame == ASSUME NEW e, IsEar(e), NEW event PROVE SameDecode(e, Sends(e, event))
  <1>1. PICK a : a = Append(e.out, event)
    OBVIOUS
  <1>2. PICK b : b = IF event.type \in {"transcript", "limit"} THEN Append(e.said, event.text) ELSE e.said
    OBVIOUS
  <1>3. PICK d : d = [e EXCEPT !.out = a]
    OBVIOUS
  <1>4. SameDecode(e, d)
    BY <1>3, SameField
  <1>5. SameDecode(d, [d EXCEPT !.said = b])
    <2>1. IsEar(d)
      BY <1>4 DEF SameDecode
    <2>2. QED
      BY <2>1, SameField
  <1>6. Sends(e, event) = [d EXCEPT !.said = b]
    BY <1>1, <1>2, <1>3 DEF Sends
  <1>7. QED
    BY <1>4, <1>5, <1>6, SameOnwards

LEMMA ScheduledSame ==
  ASSUME NEW e, IsEar(e), NEW final, NEW limit
  PROVE  SameDecode(e, Scheduled(e, final, limit))
  <1> DEFINE job == [audio |-> e.audio, final |-> final, limit |-> limit, canceled |-> FALSE, real |-> TRUE]
  <1>1. PICK d : d = [e EXCEPT !.job = job]
    OBVIOUS
  <1>2. PICK c : c = (d.running.canceled \/ (final /\ d.running.real))
    OBVIOUS
  <1>3. SameDecode(e, d)
    <2>1. PICK j : j = job
      OBVIOUS
    <2>2. IsJob(j)
      BY <2>1 DEF IsJob, JobFields
    <2>3. QED
      BY <1>1, <2>1, <2>2, SameField
  <1>4. SameDecode(d, [d EXCEPT !.running.canceled = c])
    BY <1>3 DEF SameDecode, IsEar, IsJob, EarFields, JobFields
  <1>5. e.running.canceled = d.running.canceled /\ e.running.real = d.running.real
    BY <1>1, <1>3 DEF SameDecode, IsEar, EarFields
  <1>6. Scheduled(e, final, limit) = [d EXCEPT !.running.canceled = c]
    BY <1>1, <1>2, <1>5 DEF Scheduled
  <1>7. QED
    BY <1>3, <1>4, <1>6, SameOnwards

LEMMA DecodeSame ==
  ASSUME NEW e, IsEar(e), NEW pcm
  PROVE  SameDecode(e, Decode(e, pcm))
  <1>1. CASE e.backend = "vosk"
    <2> DEFINE c == [e EXCEPT !.audio = @ \o pcm, !.partial = Worded(e.audio \o pcm)]
    <2>1. Decode(e, pcm) = IF c.partial = e.partial THEN c ELSE Sends(c, Event("partial", c.partial))
      BY <1>1 DEF Decode
    <2>2. SameDecode(e, c)
      <3>1. PICK d : d = [e EXCEPT !.audio = @ \o pcm]
        OBVIOUS
      <3>2. SameDecode(e, d)
        BY <3>1, SameField
      <3>3. IsEar(d)
        BY <3>2 DEF SameDecode
      <3>4. PICK y : y = Worded(e.audio \o pcm)
        OBVIOUS
      <3>5. SameDecode(d, [d EXCEPT !.partial = y])
        BY <3>3, SameField
      <3>6. c = [d EXCEPT !.partial = y]
        BY <3>1, <3>4
      <3>7. QED
        BY <3>2, <3>5, <3>6, SameOnwards
    <2> HIDE DEF c
    <2>3. IsEar(c)
      BY <2>2 DEF SameDecode
    <2>4. SameDecode(c, Sends(c, Event("partial", c.partial)))
      BY <2>3, SendsSame
    <2>5. QED
      BY <2>1, <2>2, <2>4, SameOnwards
  <1>2. CASE e.backend # "vosk"
    <2> DEFINE room == LongestFrames - Len(e.audio)
               kept == SubSeq(pcm, 1, IF room < Len(pcm) THEN room ELSE Len(pcm))
               cut == SubSeq(pcm, Len(kept) + 1, Len(pcm))
               b == [e EXCEPT !.audio = @ \o kept, !.length = Len(e.audio \o kept),
                              !.heard = @ \ {cut[i].n : i \in DOMAIN cut}]
               a == [b EXCEPT !.draftAt = Len(b.audio)]
    <2>1. Decode(e, pcm) = IF Len(b.audio) - b.draftAt >= DraftFrames THEN Scheduled(a, FALSE, FALSE) ELSE b
      BY <1>2 DEF Decode
    <2>2. SameDecode(e, b)
      <3>1. PICK d : d = [e EXCEPT !.audio = @ \o kept]
        OBVIOUS
      <3>2. SameDecode(e, d)
        BY <3>1, SameField
      <3>3. IsEar(d)
        BY <3>2 DEF SameDecode
      <3>4. PICK c : c = [d EXCEPT !.length = Len(e.audio \o kept)]
        OBVIOUS
      <3>5. SameDecode(d, c)
        BY <3>3, <3>4, SameField
      <3>6. IsEar(c)
        BY <3>5 DEF SameDecode
      <3>7. PICK y : y = e.heard \ {cut[i].n : i \in DOMAIN cut}
        OBVIOUS
      <3>8. SameDecode(c, [c EXCEPT !.heard = y])
        BY <3>6, SameField
      <3>9. b = [c EXCEPT !.heard = y]
        BY <3>1, <3>4, <3>7
      <3>10. QED
        BY <3>2, <3>5, <3>8, <3>9, SameOnwards
    <2> HIDE DEF b
    <2>3. IsEar(b)
      BY <2>2 DEF SameDecode
    <2>4. SameDecode(b, a)
      BY <2>3, SameField
    <2> HIDE DEF a
    <2>5. IsEar(a)
      BY <2>4 DEF SameDecode
    <2>6. SameDecode(a, Scheduled(a, FALSE, FALSE))
      BY <2>5, ScheduledSame
    <2>7. QED
      BY <2>1, <2>2, <2>4, <2>6, SameOnwards
  <1>3. QED
    BY <1>1, <1>2

LEMMA SameEar == ASSUME NEW e, NEW d, SameDecode(e, d) PROVE IsEar(d)
  BY DEF SameDecode

\* What resume, pause and unpause start from.
LEMMA ClearedSame ==
  ASSUME NEW e, IsEar(e)
  PROVE  SameDecode(e, ResetAttempt(Invalidate(e, FALSE)))
  <1>1. PICK d : d = Invalidate(e, FALSE)
    OBVIOUS
  <1>2. SameDecode(e, d)
    BY <1>1, InvalidateSame
  <1>3. SameDecode(d, ResetAttempt(d))
    BY <1>2, SameEar, ResetSame
  <1>4. QED
    BY <1>1, <1>2, <1>3, SameOnwards

LEMMA WokenSame == ASSUME NEW e, IsEar(e) PROVE SameDecode(e, Woken(e))
  <1>1. PICK d : d = ResetAttempt(Invalidate(e, FALSE))
    OBVIOUS
  <1>2. SameDecode(e, d)
    BY <1>1, ClearedSame
  <1>3. PICK c : c = [d EXCEPT !.preroll = <<>>]
    OBVIOUS
  <1>4. SameDecode(d, c)
    BY <1>2, <1>3, SameEar, SameField
  <1>5. PICK b : b = [c EXCEPT !.playback = FALSE]
    OBVIOUS
  <1>6. SameDecode(c, b)
    BY <1>4, <1>5, SameEar, SameField
  <1>7. SameDecode(b, [b EXCEPT !.state = "waiting"])
    <2>1. "waiting" \in EarStates
      BY DEF EarStates
    <2>2. QED
      BY <1>6, <2>1, SameEar, SameField
  <1>8. Woken(e) = [b EXCEPT !.state = "waiting"]
    BY <1>1, <1>3, <1>5 DEF Woken
  <1>9. QED
    BY <1>2, <1>4, <1>6, <1>7, <1>8, SameOnwards

LEMMA MuffledSame == ASSUME NEW e, IsEar(e) PROVE SameDecode(e, Muffled(e)) /\ Muffled(e).state = "paused"
  <1>1. PICK d : d = ResetAttempt(Invalidate(e, FALSE))
    OBVIOUS
  <1>2. SameDecode(e, d)
    BY <1>1, ClearedSame
  <1>3. PICK y : y = IF e.state = "paused" THEN d.from ELSE e.state
    OBVIOUS
  <1>4. PICK c : c = [d EXCEPT !.from = y]
    OBVIOUS
  <1>5. SameDecode(d, c)
    <2>1. y \in EarStates
      BY <1>2, <1>3 DEF SameDecode, IsEar
    <2>2. QED
      BY <1>2, <1>4, <2>1, SameEar, SameField
  <1>6. PICK b : b = [c EXCEPT !.state = "paused"]
    OBVIOUS
  <1>7. SameDecode(c, b)
    <2>1. "paused" \in EarStates
      BY DEF EarStates
    <2>2. QED
      BY <1>5, <1>6, <2>1, SameEar, SameField
  <1>8. PICK a : a = [b EXCEPT !.preroll = <<>>]
    OBVIOUS
  <1>9. SameDecode(b, a)
    BY <1>7, <1>8, SameEar, SameField
  <1>10. Muffled(e) = a
    BY <1>1, <1>3, <1>4, <1>6, <1>8 DEF Muffled
  <1>11. b.state = "paused" /\ a.state = b.state
    <2>1. IsEar(c) /\ IsEar(b)
      BY <1>5, <1>7, SameEar
    <2>2. QED
      BY <1>6, <1>8, <2>1 DEF IsEar, EarFields
  <1>12. QED
    BY <1>2, <1>5, <1>7, <1>9, <1>10, <1>11, SameOnwards

LEMMA PausedSame == ASSUME NEW e, IsEar(e) PROVE SameDecode(e, Paused(e))
  <1>1. PICK d : d = Muffled(e)
    OBVIOUS
  <1>2. SameDecode(e, d)
    BY <1>1, MuffledSame
  <1>3. SameDecode(d, Sends(d, StateEvent(d)))
    BY <1>2, SameEar, SendsSame
  <1>4. QED
    BY <1>1, <1>2, <1>3, SameOnwards DEF Paused

LEMMA EndedSame ==
  ASSUME NEW e, IsEar(e), NEW limit
  PROVE  SameDecode(e, Ended(e, limit))
  <1>1. CASE e.backend = "vosk"
    <2> DEFINE text == Worded(e.audio)
               clean == ResetAttempt(e)
               off == Paused(clean)
               saidSo == Sends(clean, StateEvent(clean))
               event == Event(IF text = {} THEN "partial" ELSE "transcript", text)
    <2>1. Ended(e, limit) = IF limit /\ text # {} THEN Sends(off, Event("limit", text)) ELSE Sends(saidSo, event)
      BY <1>1 DEF Ended
    <2>2. SameDecode(e, clean)
      BY ResetSame
    <2> HIDE DEF clean, text
    <2>3. SameDecode(clean, off) /\ SameDecode(clean, saidSo)
      BY <2>2, SameEar, PausedSame, SendsSame
    <2> HIDE DEF off, saidSo, event
    <2>4. SameDecode(off, Sends(off, Event("limit", text))) /\ SameDecode(saidSo, Sends(saidSo, event))
      BY <2>3, SameEar, SendsSame
    <2>5. QED
      BY <2>1, <2>2, <2>3, <2>4, SameOnwards
  <1>2. CASE e.backend # "vosk"
    <2> DEFINE d == Scheduled(e, TRUE, limit)
               c == [d EXCEPT !.finalPending = TRUE]
               asked == ResetAttempt(c)
    <2>1. Ended(e, limit) = IF limit THEN [asked EXCEPT !.from = "listening", !.state = "paused"] ELSE asked
      BY <1>2 DEF Ended
    <2>2. SameDecode(e, d)
      BY ScheduledSame
    <2> HIDE DEF d
    <2>3. SameDecode(d, c)
      BY <2>2, SameEar, SameField
    <2> HIDE DEF c
    <2>4. SameDecode(c, asked)
      BY <2>3, SameEar, ResetSame
    <2> HIDE DEF asked
    <2>5. PICK b : b = [asked EXCEPT !.from = "listening"]
      OBVIOUS
    <2>0. "listening" \in EarStates /\ "paused" \in EarStates
      BY DEF EarStates
    <2>6. SameDecode(asked, b)
      BY <2>0, <2>4, <2>5, SameEar, SameField
    <2>7. SameDecode(b, [b EXCEPT !.state = "paused"])
      BY <2>0, <2>6, SameEar, SameField
    <2>8. [asked EXCEPT !.from = "listening", !.state = "paused"] = [b EXCEPT !.state = "paused"]
      BY <2>5
    <2>9. QED
      BY <2>1, <2>2, <2>3, <2>4, <2>6, <2>7, <2>8, SameOnwards
  <1>3. QED
    BY <1>1, <1>2

LEMMA OnsetSame ==
  ASSUME NEW e, IsEar(e), NEW f
  PROVE  SameDecode(e, Onset(e, f))
  <1> DEFINE nearby == LastOf(Append(e.command, f), KeepFrames)
             count == IF Sounds(e, f) THEN e.onset + 1 ELSE 0
             near == [e EXCEPT !.command = LastOf(Append(@, f), KeepFrames),
                               !.onset = IF Sounds(e, f) THEN @ + 1 ELSE 0]
             over == Invalidate(near, Extends(near))
             begun == [over EXCEPT !.dictation = TRUE, !.length = Len(near.command)]
             said == Sends(begun, Event("speech_start", {}))
             heard == Decode(said, near.command)
  <1>1. Onset(e, f) = IF near.onset < StartFrames THEN near ELSE [heard EXCEPT !.command = <<>>]
    BY DEF Onset
  <1>2. SameDecode(e, near)
    <2>1. PICK x : x = nearby
      OBVIOUS
    <2>2. PICK y : y = count
      OBVIOUS
    <2>3. PICK d : d = [e EXCEPT !.command = x]
      OBVIOUS
    <2>4. SameDecode(e, d)
      BY <2>3, SameField
    <2>5. SameDecode(d, [d EXCEPT !.onset = y])
      BY <2>4, SameEar, SameField
    <2>6. near = [d EXCEPT !.onset = y]
      BY <2>1, <2>2, <2>3
    <2>7. QED
      BY <2>4, <2>5, <2>6, SameOnwards
  <1> HIDE DEF near
  <1>3. SameDecode(near, over)
    <2>1. PICK goesOn \in BOOLEAN : Invalidate(near, Extends(near)) = Invalidate(near, goesOn)
      <3>1. CASE near.finalPending
        <4>1. Invalidate(near, Extends(near)) = Invalidate(near, TRUE)
          BY <3>1 DEF Invalidate, Extends
        <4>2. QED
          BY <4>1
      <3>2. CASE ~near.finalPending
        <4>1. Invalidate(near, Extends(near)) = Invalidate(near, FALSE)
          BY <3>2 DEF Invalidate, Extends
        <4>2. QED
          BY <4>1
      <3>3. QED
        BY <3>1, <3>2
    <2>2. SameDecode(near, Invalidate(near, goesOn))
      BY <1>2, SameEar, InvalidateSame
    <2>3. QED
      BY <2>1, <2>2
  <1> HIDE DEF over
  <1>4. SameDecode(over, begun)
    <2>1. PICK d : d = [over EXCEPT !.dictation = TRUE]
      OBVIOUS
    <2>2. SameDecode(over, d)
      BY <1>3, <2>1, SameEar, SameField
    <2>3. PICK n : n = Len(near.command)
      OBVIOUS
    <2>4. SameDecode(d, [d EXCEPT !.length = n])
      BY <2>2, SameEar, SameField
    <2>5. begun = [d EXCEPT !.length = n]
      BY <2>1, <2>3
    <2>6. QED
      BY <2>2, <2>4, <2>5, SameOnwards
  <1> HIDE DEF begun
  <1>5. SameDecode(begun, said)
    BY <1>4, SameEar, SendsSame
  <1> HIDE DEF said
  <1>6. SameDecode(said, heard)
    BY <1>5, SameEar, DecodeSame
  <1> HIDE DEF heard
  <1>7. SameDecode(heard, [heard EXCEPT !.command = <<>>])
    BY <1>6, SameEar, SameField
  <1>8. SameDecode(e, [heard EXCEPT !.command = <<>>])
    BY <1>2, <1>3, <1>4, <1>5, <1>6, <1>7, SameOnwards
  <1>9. QED
    BY <1>1, <1>2, <1>8

LEMMA WithinSame ==
  ASSUME NEW e, IsEar(e), NEW f
  PROVE  SameDecode(e, Within(e, f))
  <1> DEFINE near == [e EXCEPT !.length = @ + 1, !.silence = IF f.kind = "quiet" THEN @ + 1 ELSE 0]
             all == Decode(near, <<f>>)
             still == all.silence >= EndFrames
             full == all.length >= LongestFrames
             empty == e.backend = "vosk" /\ all.partial = {} /\ all.length >= WaitFrames
             over == Ended(all, full /\ ~still)
  <1>1. Within(e, f) = IF still \/ full \/ empty THEN over ELSE all
    BY DEF Within
  <1>2. SameDecode(e, near)
    <2>1. PICK x : x = e.length + 1
      OBVIOUS
    <2>2. PICK y : y = IF f.kind = "quiet" THEN e.silence + 1 ELSE 0
      OBVIOUS
    <2>3. PICK d : d = [e EXCEPT !.length = x]
      OBVIOUS
    <2>4. SameDecode(e, d)
      BY <2>3, SameField
    <2>5. SameDecode(d, [d EXCEPT !.silence = y])
      BY <2>4, SameEar, SameField
    <2>6. near = [d EXCEPT !.silence = y]
      BY <2>1, <2>2, <2>3
    <2>7. QED
      BY <2>4, <2>5, <2>6, SameOnwards
  <1> HIDE DEF near
  <1>3. SameDecode(near, all)
    BY <1>2, SameEar, DecodeSame
  <1> HIDE DEF all
  <1>4. SameDecode(all, over)
    BY <1>3, SameEar, EndedSame
  <1> HIDE DEF over, still, full, empty
  <1>5. QED
    BY <1>1, <1>2, <1>3, <1>4, SameOnwards

LEMMA FrameSame ==
  ASSUME NEW e, IsEar(e), NEW f
  PROVE  SameDecode(e, Frame(e, f))
  <1> DEFINE on == [e EXCEPT !.heard = IF f.kind = "loud" THEN @ \cup {f.n} ELSE @]
  <1>1. Frame(e, f) = IF e.state # "listening" THEN e ELSE IF on.dictation THEN Within(on, f) ELSE Onset(on, f)
    BY DEF Frame
  <1>2. SameDecode(e, on)
    <2>1. PICK y : y = IF f.kind = "loud" THEN e.heard \cup {f.n} ELSE e.heard
      OBVIOUS
    <2>2. SameDecode(e, [e EXCEPT !.heard = y])
      BY SameField
    <2>3. on = [e EXCEPT !.heard = y]
      BY <2>1
    <2>4. QED
      BY <2>2, <2>3
  <1> HIDE DEF on
  <1>3. SameDecode(on, Within(on, f)) /\ SameDecode(on, Onset(on, f))
    BY <1>2, SameEar, WithinSame, OnsetSame
  <1>4. SameDecode(e, e)
    BY SameField
  <1>5. QED
    BY <1>1, <1>2, <1>3, <1>4, SameOnwards

LEMMA FramesSame ==
  ASSUME NEW e, IsEar(e), NEW s, NEW n \in Nat, DOMAIN s = 1..n
  PROVE  SameDecode(e, Framed(e, s))
  <1>0. PICK h : RunsOver(h, e, s, n)
    BY FoldRuns
  <1>1. h[0] = e /\ h[n] = Framed(e, s) /\ \A k \in 1..n : h[k] = Frame(h[k - 1], s[k])
    BY <1>0 DEF RunsOver
  <1> DEFINE W == {k \in 0..n : ~SameDecode(e, h[k])}
  <1>2. W = {}
    <2> SUFFICES ASSUME W # {} PROVE FALSE
      OBVIOUS
    <2>1. W \in SUBSET Nat
      OBVIOUS
    <2>2. PICK k \in W : \A i \in W : k <= i
      BY <2>1, LeastNumber
    <2>3. k # 0
      <3>1. SameDecode(e, e)
        BY SameField
      <3>2. QED
        BY <1>1, <2>2, <3>1
    <2>4. k - 1 \in 0..n /\ k \in 1..n /\ ~(k <= k - 1)
      BY <2>3
    <2>5. SameDecode(e, h[k - 1])
      BY <2>2, <2>4
    <2>6. SameDecode(h[k - 1], Frame(h[k - 1], s[k]))
      BY <2>5, SameEar, FrameSame
    <2>7. SameDecode(e, h[k])
      BY <1>1, <2>4, <2>5, <2>6, SameOnwards
    <2>8. QED
      BY <2>2, <2>7
  <1>3. QED
    BY <1>1, <1>2

-----------------------------------------------------------------------------
\* What a muted microphone rests on: the ear is paused, and of the decodes that
\* were asked for none waits, and the one that runs is canceled.
Silent(e) ==
  e.state = "paused" /\ (e.backend # "vosk" => ~e.job.real /\ (e.running.real => e.running.canceled))

Stages == {"off", "idle", "decoding", "decoded", "failed"}

IsDecoder ==
  /\ DOMAIN decoder = {"stage", "text"} /\ decoder = [x \in {"stage", "text"} |-> decoder[x]]
  /\ decoder.stage \in Stages

\* The decoder works only for a Whisper listener, on the job that runs.
EarInv ==
  /\ IsEar(ear) /\ ear.out = <<>> /\ IsDecoder /\ mic.frames \in Nat
  /\ ear.backend = "vosk" => decoder.stage = "off"
  /\ decoder.stage \in {"decoding", "decoded", "failed"} => ear.running.real
  /\ decoder.stage = "decoded" => decoder.text = Worded(ear.running.audio)
  /\ muted \in BOOLEAN /\ (muted => Silent(ear))

\* What a listener keeps when its events are published.
Emptied(e) == [e EXCEPT !.out = <<>>, !.said = <<>>]

LEMMA EmptiedIs ==
  ASSUME NEW e, IsEar(e)
  PROVE  /\ SameDecode(e, Emptied(e)) /\ Emptied(e).out = <<>> /\ Emptied(e).state = e.state
         /\ Emptied(e).job = e.job /\ Emptied(e).running = e.running
         /\ (Silent(e) => Silent(Emptied(e)))
  <1>1. SameDecode(e, Emptied(e))
    <2>1. PICK d : d = [e EXCEPT !.out = <<>>]
      OBVIOUS
    <2>2. SameDecode(e, d)
      BY <2>1, SameField
    <2>3. SameDecode(d, [d EXCEPT !.said = <<>>])
      BY <2>2, SameEar, SameField
    <2>4. Emptied(e) = [d EXCEPT !.said = <<>>]
      BY <2>1 DEF Emptied
    <2>5. QED
      BY <2>2, <2>3, <2>4, SameOnwards
  <1>2. /\ Emptied(e).out = <<>> /\ Emptied(e).state = e.state
        /\ Emptied(e).job = e.job /\ Emptied(e).running = e.running /\ Emptied(e).backend = e.backend
    BY DEF Emptied, IsEar, EarFields
  <1>3. QED
    BY <1>1, <1>2 DEF Silent

LEMMA ResumedSame == ASSUME NEW e, IsEar(e) PROVE SameDecode(e, Resumed(e))
  <1>1. PICK d : d = Woken(e)
    OBVIOUS
  <1>2. SameDecode(e, d)
    BY <1>1, WokenSame
  <1>3. SameDecode(d, Sends(d, StateEvent(d)))
    BY <1>2, SameEar, SendsSame
  <1>4. QED
    BY <1>1, <1>2, <1>3, SameOnwards DEF Resumed

LEMMA UnpausedSame == ASSUME NEW e, IsEar(e) PROVE SameDecode(e, Unpaused(e))
  <1>1. PICK d : d = Woken(e)
    OBVIOUS
  <1>2. SameDecode(e, d)
    BY <1>1, WokenSame
  <1>3. PICK c : c = [d EXCEPT !.state = e.from]
    OBVIOUS
  <1>4. SameDecode(d, c)
    <2>1. e.from \in EarStates
      BY DEF IsEar
    <2>2. QED
      BY <1>2, <1>3, <2>1, SameEar, SameField
  <1>5. PICK b : b = [c EXCEPT !.playback = e.playback]
    OBVIOUS
  <1>6. SameDecode(c, b)
    BY <1>4, <1>5, SameEar, SameField
  <1>7. SameDecode(b, Sends(b, StateEvent(b))) /\ SameDecode(e, Sends(e, StateEvent(e)))
    BY <1>6, SameEar, SendsSame
  <1>8. b = [Woken(e) EXCEPT !.state = e.from, !.playback = e.playback]
    BY <1>1, <1>3, <1>5
  <1>9. Unpaused(e) = IF e.state # "paused" THEN Sends(e, StateEvent(e)) ELSE Sends(b, StateEvent(b))
    BY <1>8 DEF Unpaused
  <1>10. QED
    BY <1>2, <1>4, <1>6, <1>7, <1>9, SameOnwards

LEMMA SetPlaybackSame ==
  ASSUME NEW e, IsEar(e), NEW active
  PROVE  SameDecode(e, SetPlayback(e, active)) /\ SetPlayback(e, active).out = e.out
         /\ (Silent(e) => Silent(SetPlayback(e, active)))
  <1>1. PICK y : y = IF active = e.playback THEN e.onset ELSE 0
    OBVIOUS
  <1>2. PICK d : d = [e EXCEPT !.playback = active]
    OBVIOUS
  <1>3. SameDecode(e, d)
    BY <1>2, SameField
  <1>4. PICK c : c = [d EXCEPT !.onset = y]
    OBVIOUS
  <1>5. SameDecode(d, c)
    BY <1>3, <1>4, SameEar, SameField
  <1>6. SetPlayback(e, active) = c
    BY <1>1, <1>2, <1>4 DEF SetPlayback
  <1>7. /\ c.out = e.out /\ c.state = e.state /\ c.job = e.job /\ c.running = e.running
        /\ c.backend = e.backend
    BY <1>2, <1>3, <1>4 DEF SameDecode, IsEar, EarFields
  <1>8. QED
    BY <1>3, <1>5, <1>6, <1>7, SameOnwards DEF Silent

\* A pause cancels the decode that runs and forgets the one that waits; all it
\* says is the state.
LEMMA ClearedIs ==
  ASSUME NEW e, IsEar(e), NEW d, d = Invalidate(e, FALSE)
  PROVE  /\ ResetAttempt(d).job = d.job /\ ResetAttempt(d).running = d.running
         /\ ResetAttempt(d).out = e.out /\ ResetAttempt(d).backend = e.backend
         /\ (e.backend # "vosk" => ~d.job.real /\ d.running.canceled = d.running.real)
  <1>1. IsEar(d) /\ d.backend = e.backend
    BY InvalidateSame DEF SameDecode
  <1>2. /\ ResetAttempt(d).job = d.job /\ ResetAttempt(d).running = d.running
        /\ ResetAttempt(d).out = d.out /\ ResetAttempt(d).backend = d.backend
    BY <1>1 DEF ResetAttempt, IsEar, EarFields
  <1>3. d.out = e.out
    BY DEF Invalidate, IsEar, EarFields
  <1>4. e.backend # "vosk" => ~d.job.real /\ d.running.canceled = d.running.real
    BY DEF Invalidate, NoJob, IsEar, IsJob, EarFields, JobFields
  <1>5. QED
    BY <1>1, <1>2, <1>3, <1>4

LEMMA PausedIs ==
  ASSUME NEW e, IsEar(e), e.out = <<>>
  PROVE  Silent(Paused(e)) /\ \A i \in DOMAIN Paused(e).out : Paused(e).out[i].type = "state"
  <1>1. PICK d : d = Invalidate(e, FALSE)
    OBVIOUS
  <1>2. PICK c : c = ResetAttempt(d)
    OBVIOUS
  <1>3. IsEar(c)
    BY <1>1, <1>2, ClearedSame, SameEar
  <1>4. /\ c.job = d.job /\ c.running = d.running /\ c.out = <<>> /\ c.backend = e.backend
        /\ (e.backend # "vosk" => ~d.job.real /\ d.running.canceled = d.running.real)
    BY <1>1, <1>2, ClearedIs
  <1>5. PICK y : y = IF e.state = "paused" THEN c.from ELSE e.state
    OBVIOUS
  <1>6. PICK m : m = Muffled(e)
    OBVIOUS
  <1>7. m = [c EXCEPT !.from = y, !.state = "paused", !.preroll = <<>>]
    BY <1>1, <1>2, <1>5, <1>6 DEF Muffled
  <1>8. /\ m.job = c.job /\ m.running = c.running /\ m.out = c.out /\ m.backend = c.backend
        /\ m.state = "paused"
    BY <1>3, <1>7 DEF IsEar, EarFields
  <1>9. IsEar(m)
    BY <1>6, MuffledSame, SameEar
  <1>10. PICK p : p = Sends(m, StateEvent(m))
    OBVIOUS
  <1>11. p = Paused(e)
    BY <1>6, <1>10 DEF Paused
  <1>12. /\ p.job = m.job /\ p.running = m.running /\ p.backend = m.backend /\ p.state = m.state
         /\ p.out = Append(m.out, StateEvent(m))
    BY <1>9, <1>10 DEF Sends, IsEar, EarFields
  <1>13. Silent(p)
    BY <1>4, <1>8, <1>12 DEF Silent
  <1>14. p.out = <<StateEvent(m)>> /\ StateEvent(m).type = "state"
    BY <1>4, <1>8, <1>12 DEF StateEvent
  <1>15. QED
    BY <1>11, <1>13, <1>14

-----------------------------------------------------------------------------
\* The frames kept for the wake word, and those that follow it.
LEMMA LastIs ==
  ASSUME NEW s \in AFrames, NEW k \in Nat
  PROVE  LastOf(s, k) \in AFrames
  <1>1. Len(s) \in Nat /\ \A i \in 1..Len(s) : s[i] \in AFrame
    BY DEF AFrames
  <1>2. PICK a : a = IF Len(s) > k THEN Len(s) - k + 1 ELSE 1
    OBVIOUS
  <1>3. a \in Nat /\ a >= 1
    BY <1>1, <1>2
  <1>4. SubSeq(s, a, Len(s)) \in Seq(AFrame)
    BY <1>1, <1>3 DEF AFrames
  <1>5. QED
    BY <1>2, <1>4 DEF LastOf, AFrames

LEMMA PrerollIs ==
  ASSUME NEW s \in AFrames, NEW n \in Nat, NEW kind \in FrameKinds
  PROVE  LastOf(Append(s, [n |-> n + 1, kind |-> kind]), WakeFrames) \in AFrames
  <1>1. PICK f : f = [n |-> n + 1, kind |-> kind]
    OBVIOUS
  <1>2. f \in AFrame
    BY <1>1 DEF AFrame
  <1>3. Append(s, f) \in AFrames
    BY <1>2 DEF AFrames
  <1>4. WakeFrames \in Nat
    BY ListeningAssumption
  <1>5. QED
    BY <1>1, <1>3, <1>4, LastIs

LEMMA RestIs ==
  ASSUME NEW s \in AFrames, NEW at \in DOMAIN s
  PROVE  \E n \in Nat : DOMAIN SubSeq(s, at + 1, Len(s)) = 1..n
  <1>1. at \in 1..Len(s) /\ Len(s) \in Nat
    BY DEF AFrames
  <1>2. SubSeq(s, at + 1, Len(s)) \in Seq(AFrame)
    BY <1>1 DEF AFrames
  <1>3. QED
    BY <1>2

-----------------------------------------------------------------------------
\* A step that keeps the decode that runs, and does not mute.
LEMMA KeepsEar ==
  ASSUME EarInv, NEW e, SameDecode(ear, e), ear' = Emptied(e), UNCHANGED decoder,
         mic'.frames \in Nat, muted' \in BOOLEAN, muted' => Silent(e)
  PROVE  EarInv'
  <1>1. IsEar(e) /\ e.backend = ear.backend /\ e.running.real = ear.running.real
    BY DEF SameDecode
  <1>2. SameDecode(e, ear')
    BY <1>1, EmptiedIs
  <1>3. ear'.out = <<>> /\ (Silent(e) => Silent(ear'))
    BY <1>1, EmptiedIs
  <1>4. /\ IsEar(ear') /\ ear'.backend = ear.backend /\ ear'.running.real = ear.running.real
        /\ ear'.running.audio = ear.running.audio
    BY <1>1, <1>2 DEF SameDecode
  <1>5. IsDecoder' /\ (decoder'.stage = "decoded" => decoder'.text = Worded(ear'.running.audio))
    BY <1>4 DEF EarInv, IsDecoder
  <1>6. QED
    BY <1>3, <1>4, <1>5 DEF EarInv

\* What is published when nothing waits to be told.
Quiet ==
  \A i \in DOMAIN outbox' : outbox'[i].type \notin {"partial", "transcript", "limit", "speech_start"}

LEMMA NothingIsQuiet == ASSUME outbox' = <<>> PROVE Quiet
  BY DEF Quiet

LEMMA FrameKeeps ==
  ASSUME EarInv, NEW kind \in FrameKinds, NEW spotted \in BOOLEAN, NEW ended \in BOOLEAN,
         FrameArrives(kind, spotted, ended)
  PROVE  EarInv' /\ (muted => Quiet)
  <1> DEFINE f == [n |-> mic.frames + 1, kind |-> kind]
             near == LastOf(Append(ear.preroll, f), WakeFrames)
             phrase == {i \in DOMAIN near : near[i].kind = "wake"}
             up == [ear EXCEPT !.state = "listening", !.preroll = <<>>]
             at == CHOOSE i \in phrase : \A j \in phrase : i <= j
             rest == SubSeq(near, at + 1, Len(near))
             saidSo == Sends(up, StateEvent(up))
  <1>1. IsEar(ear) /\ ear.out = <<>> /\ mic.frames \in Nat
    BY DEF EarInv
  <1>2. mic'.frames \in Nat /\ UNCHANGED <<decoder, muted>> /\ muted' \in BOOLEAN
    <2>1. mic' = [mic EXCEPT !.frames = @ + 1]
      BY DEF FrameArrives
    <2>2. mic'.frames = mic.frames + 1 \/ mic'.frames = mic.frames
      BY <2>1
    <2>3. QED
      BY <1>1, <2>2 DEF FrameArrives, EarInv
  <1>3. near \in AFrames
    BY <1>1, PrerollIs DEF IsEar
  <1>4. CASE ear.state = "paused"
    <2>1. ear' = Emptied(ear) /\ outbox' = ear.out
      BY <1>4 DEF FrameArrives, Published, Emptied
    <2>2. SameDecode(ear, ear) /\ (muted' => Silent(ear))
      BY <1>1, <1>2, SameField DEF EarInv
    <2>3. EarInv'
      BY <1>2, <2>1, <2>2, KeepsEar
    <2>4. QED
      BY <1>1, <2>1, <2>3, NothingIsQuiet
  <1>5. CASE ear.state = "listening"
    <2>1. ear' = Emptied(Frame(ear, f))
      BY <1>5 DEF FrameArrives, Published, Emptied
    <2>2. SameDecode(ear, Frame(ear, f))
      BY <1>1, FrameSame
    <2>3. ~muted /\ ~muted'
      BY <1>2, <1>5 DEF EarInv, Silent
    <2>4. EarInv'
      BY <1>2, <2>1, <2>2, <2>3, KeepsEar
    <2>5. QED
      BY <2>3, <2>4
  <1>6. CASE ear.state = "waiting"
    <2>1. ~muted /\ ~muted'
      BY <1>2, <1>6 DEF EarInv, Silent
    <2>2. CASE spotted
      <3>1. phrase # {}
        BY <1>6, <2>2 DEF FrameArrives
      <3>2. ear' = Emptied(Framed(saidSo, rest))
        BY <1>6, <2>2 DEF FrameArrives, Published, Emptied, Framed
      <3>3. SameDecode(ear, saidSo)
        <4>1. PICK d : d = [ear EXCEPT !.state = "listening"]
          OBVIOUS
        <4>0. "listening" \in EarStates
          BY DEF EarStates
        <4>2. SameDecode(ear, d)
          BY <1>1, <4>0, <4>1, SameField
        <4>3. SameDecode(d, [d EXCEPT !.preroll = <<>>])
          BY <4>2, SameEar, SameField
        <4>4. up = [d EXCEPT !.preroll = <<>>]
          BY <4>1
        <4>5. SameDecode(ear, up)
          BY <4>2, <4>3, <4>4, SameOnwards
        <4> HIDE DEF up
        <4>6. SameDecode(up, Sends(up, StateEvent(up)))
          BY <4>5, SameEar, SendsSame
        <4>7. QED
          BY <4>5, <4>6, SameOnwards
      <3>4. at \in DOMAIN near
        <4>1. phrase \subseteq Nat
          BY <1>3 DEF AFrames
        <4>2. \E i \in phrase : \A j \in phrase : i <= j
          <5> HIDE DEF phrase
          <5>1. QED
            BY <3>1, <4>1, LeastNumber
        <4>3. at \in phrase
          <5> HIDE DEF phrase
          <5>1. QED
            BY <4>2
        <4>4. QED
          BY <4>3
      <3> HIDE DEF near, at, saidSo
      <3>5. PICK n \in Nat : DOMAIN rest = 1..n
        BY <1>3, <3>4, RestIs
      <3> HIDE DEF rest
      <3>6. SameDecode(saidSo, Framed(saidSo, rest))
        BY <3>3, <3>5, SameEar, FramesSame
      <3>7. SameDecode(ear, Framed(saidSo, rest))
        BY <3>3, <3>6, SameOnwards
      <3>8. EarInv'
        BY <1>2, <2>1, <3>2, <3>7, KeepsEar
      <3>9. QED
        BY <2>1, <3>8
    <2>3. CASE ~spotted /\ ended
      <3>1. ear' = Emptied(Woken(ear))
        BY <1>6, <2>3 DEF FrameArrives, Published, Emptied
      <3>2. SameDecode(ear, Woken(ear))
        BY <1>1, WokenSame
      <3>3. EarInv'
        BY <1>2, <2>1, <3>1, <3>2, KeepsEar
      <3>4. QED
        BY <2>1, <3>3
    <2>4. CASE ~spotted /\ ~ended
      <3>1. PICK e : e = [ear EXCEPT !.preroll = near]
        OBVIOUS
      <3>2. ear' = Emptied(e)
        BY <1>6, <2>4, <3>1 DEF FrameArrives, Published, Emptied
      <3> HIDE DEF near
      <3>3. SameDecode(ear, e)
        BY <1>1, <1>3, <3>1 DEF SameDecode, IsEar, EarFields
      <3>4. EarInv'
        BY <1>2, <2>1, <3>2, <3>3, KeepsEar
      <3>5. QED
        BY <2>1, <3>4
    <2>5. QED
      BY <2>2, <2>3, <2>4
  <1>7. QED
    BY <1>1, <1>4, <1>5, <1>6 DEF IsEar, EarStates

-----------------------------------------------------------------------------
LEMMA ControlKeeps ==
  ASSUME EarInv, NEW control \in Controls, ControlArrives(control)
  PROVE  EarInv' /\ (muted /\ muted' => Quiet)
  <1>1. IsEar(ear) /\ ear.out = <<>> /\ mic.frames \in Nat
    BY DEF EarInv
  <1>2. mic'.frames \in Nat /\ UNCHANGED decoder
    <2>1. mic' = [mic EXCEPT !.controls = @ + 1]
      BY DEF ControlArrives
    <2>2. mic'.frames = mic.frames
      BY <2>1
    <2>3. QED
      BY <1>1, <2>2 DEF ControlArrives
  <1>3. PICK own : own = [ear EXCEPT !.heard = {}]
    OBVIOUS
  <1>4. SameDecode(ear, own)
    BY <1>1, <1>3, SameField
  <1>5. IsEar(own) /\ own.out = <<>>
    <2>1. IsEar(own)
      BY <1>4, SameEar
    <2>2. own.out = ear.out
      BY <1>1, <1>3 DEF IsEar, EarFields
    <2>3. QED
      BY <1>1, <2>1, <2>2
  <1>6. CASE control = "pause"
    <2>1. ear' = Emptied(Paused(own)) /\ outbox' = Paused(own).out /\ muted'
      BY <1>3, <1>6 DEF ControlArrives, Published, Emptied
    <2>2. SameDecode(ear, Paused(own))
      BY <1>4, <1>5, PausedSame, SameOnwards
    <2>3. Silent(Paused(own)) /\ \A i \in DOMAIN Paused(own).out : Paused(own).out[i].type = "state"
      BY <1>5, PausedIs
    <2>4. muted' \in BOOLEAN
      BY <1>6 DEF ControlArrives
    <2>5. EarInv'
      BY <1>2, <2>1, <2>2, <2>3, <2>4, KeepsEar
    <2>6. Quiet
      BY <2>1, <2>3 DEF Quiet
    <2>7. QED
      BY <2>5, <2>6
  <1>7. CASE control = "unpause"
    <2>1. ear' = Emptied(Unpaused(own)) /\ muted' = FALSE
      BY <1>3, <1>7 DEF ControlArrives, Published, Emptied
    <2>2. SameDecode(ear, Unpaused(own))
      BY <1>4, <1>5, UnpausedSame, SameOnwards
    <2>3. EarInv'
      BY <1>2, <2>1, <2>2, KeepsEar
    <2>4. QED
      BY <2>1, <2>3
  <1>8. CASE control = "resume"
    <2>1. ear' = Emptied(Resumed(own)) /\ muted' = FALSE
      BY <1>3, <1>8 DEF ControlArrives, Published, Emptied
    <2>2. SameDecode(ear, Resumed(own))
      BY <1>4, <1>5, ResumedSame, SameOnwards
    <2>3. EarInv'
      BY <1>2, <2>1, <2>2, KeepsEar
    <2>4. QED
      BY <2>1, <2>3
  <1>9. ASSUME NEW on \in BOOLEAN, control = (IF on THEN "playing" ELSE "played")
        PROVE  EarInv' /\ (muted /\ muted' => Quiet)
    <2>1. ear' = Emptied(SetPlayback(ear, on)) /\ outbox' = SetPlayback(ear, on).out
      <3>1. CASE on
        <4>1. control = "playing" /\ on = TRUE
          BY <1>9, <3>1
        <4>2. QED
          BY <4>1 DEF ControlArrives, Published, Emptied
      <3>2. CASE ~on
        <4>1. control = "played" /\ on = FALSE
          BY <1>9, <3>2
        <4>2. QED
          BY <4>1 DEF ControlArrives, Published, Emptied
      <3>3. QED
        BY <3>1, <3>2
    <2>2. muted' = muted
      BY <1>9 DEF ControlArrives
    <2>3. /\ SameDecode(ear, SetPlayback(ear, on)) /\ SetPlayback(ear, on).out = ear.out
          /\ (Silent(ear) => Silent(SetPlayback(ear, on)))
      BY <1>1, SetPlaybackSame
    <2>4. muted \in BOOLEAN /\ (muted => Silent(ear))
      BY DEF EarInv
    <2>5. EarInv'
      BY <1>2, <2>1, <2>2, <2>3, <2>4, KeepsEar
    <2>6. Quiet
      BY <1>1, <2>1, <2>3, NothingIsQuiet
    <2>7. QED
      BY <2>5, <2>6
  <1>10. QED
    <2>1. control \in {"pause", "unpause", "resume"} \/ \E on \in BOOLEAN : control = (IF on THEN "playing" ELSE "played")
      BY DEF Controls
    <2>2. QED
      BY <1>6, <1>7, <1>8, <1>9, <2>1

-----------------------------------------------------------------------------
LEMMA OpensKeeps ==
  ASSUME EarInv, MicOpens
  PROVE  EarInv' /\ ~muted'
  <1>1. PICK n : n = NewEar(ear.backend)
    OBVIOUS
  <1>2. IsEar(n) /\ n.backend = ear.backend
    BY <1>1, NewEarIs
  <1>3. PICK e : e = Sends(n, StateEvent(n))
    OBVIOUS
  <1>4. SameDecode(n, e)
    BY <1>2, <1>3, SendsSame
  <1>5. ear' = Emptied(e)
    BY <1>1, <1>3 DEF MicOpens, Published, Emptied
  <1>6. IsEar(e) /\ e.backend = ear.backend
    BY <1>2, <1>4 DEF SameDecode
  <1>7. SameDecode(e, ear') /\ ear'.out = <<>>
    BY <1>5, <1>6, EmptiedIs
  <1>8. IsEar(ear') /\ ear'.backend = ear.backend
    BY <1>6, <1>7 DEF SameDecode
  <1>9. decoder' = [decoder EXCEPT !.stage = IF ear.backend = "whisper" THEN "idle" ELSE "off"] /\ ~muted'
    BY DEF MicOpens
  <1>10. PICK y : y = IF ear.backend = "whisper" THEN "idle" ELSE "off"
    OBVIOUS
  <1>11. IsDecoder' /\ decoder'.stage = y
    BY <1>9, <1>10 DEF IsDecoder, EarInv, Stages
  <1>12. mic'.frames \in Nat
    <2>1. mic' = [mic EXCEPT !.stage = "open", !.opens = @ + 1]
      BY DEF MicOpens
    <2>2. mic'.frames = mic.frames
      BY <2>1
    <2>3. QED
      BY <2>2 DEF EarInv
  <1>13. muted' \in BOOLEAN
    BY DEF MicOpens
  <1>14. QED
    BY <1>7, <1>8, <1>9, <1>10, <1>11, <1>12, <1>13 DEF EarInv

\* A closed listener: its events are gone with it.
LEMMA ShutIs ==
  ASSUME EarInv, ear' = ResetAttempt(Invalidate([ear EXCEPT !.preroll = <<>>, !.heard = {}], FALSE))
  PROVE  IsEar(ear') /\ ear'.out = <<>> /\ ear'.backend = ear.backend
  <1>1. IsEar(ear) /\ ear.out = <<>>
    BY DEF EarInv
  <1>2. PICK d : d = [ear EXCEPT !.preroll = <<>>]
    OBVIOUS
  <1>3. SameDecode(ear, d)
    BY <1>1, <1>2, SameField
  <1>4. PICK c : c = [d EXCEPT !.heard = {}]
    OBVIOUS
  <1>5. SameDecode(d, c)
    BY <1>3, <1>4, SameEar, SameField
  <1>6. ear' = ResetAttempt(Invalidate(c, FALSE))
    BY <1>2, <1>4
  <1>7. IsEar(c) /\ c.backend = ear.backend /\ c.out = ear.out
    BY <1>1, <1>2, <1>3, <1>4, <1>5 DEF SameDecode, IsEar, EarFields
  <1>8. SameDecode(c, ear')
    BY <1>6, <1>7, ClearedSame
  <1>9. PICK i : i = Invalidate(c, FALSE)
    OBVIOUS
  <1>10. ResetAttempt(i).out = c.out
    BY <1>7, <1>9, ClearedIs
  <1>11. QED
    BY <1>1, <1>6, <1>7, <1>8, <1>9, <1>10 DEF SameDecode

LEMMA ClosesKeeps ==
  ASSUME EarInv, MicCloses
  PROVE  EarInv' /\ ~muted'
  <1>1. IsEar(ear') /\ ear'.out = <<>> /\ ear'.backend = ear.backend
    BY ShutIs DEF MicCloses
  <1>2. IsDecoder' /\ decoder'.stage = "off"
    BY DEF MicCloses, IsDecoder, Stages
  <1>3. mic' = [mic EXCEPT !.stage = "closed"] /\ muted' = FALSE
    BY DEF MicCloses
  <1>4. mic'.frames \in Nat
    BY <1>3 DEF EarInv
  <1>5. QED
    BY <1>1, <1>2, <1>3, <1>4 DEF EarInv

LEMMA TakesKeeps ==
  ASSUME EarInv, DecoderTakes
  PROVE  EarInv' /\ Quiet
  <1>1. IsEar(ear) /\ ear.job.real /\ ear.out = <<>>
    BY DEF EarInv, DecoderTakes
  <1>2. ear' = [ear EXCEPT !.running = ear.job, !.job = NoJob]
    BY DEF DecoderTakes
  <1>3. PICK d : d = [ear EXCEPT !.running = ear.job]
    OBVIOUS
  <1>4. IsEar(d) /\ d.running = ear.job /\ d.out = ear.out /\ d.backend = ear.backend
    BY <1>1, <1>3 DEF IsEar, EarFields
  <1>5. PICK j : j = NoJob
    OBVIOUS
  <1>6. IsJob(j)
    BY <1>5 DEF NoJob, IsJob, JobFields
  <1>7. ear' = [d EXCEPT !.job = j]
    BY <1>2, <1>3, <1>5
  <1>8. IsEar(ear') /\ ear'.running = d.running /\ ear'.out = d.out /\ ear'.backend = d.backend
    BY <1>4, <1>6, <1>7 DEF IsEar, EarFields
  <1>9. decoder.stage = "idle" /\ ear.backend # "vosk" /\ ~muted
    BY <1>1 DEF DecoderTakes, EarInv, Silent
  <1>10. decoder' = [decoder EXCEPT !.stage = "decoding"]
    BY DEF DecoderTakes
  <1>11. IsDecoder' /\ decoder'.stage = "decoding"
    BY <1>10 DEF EarInv, IsDecoder, Stages
  <1>12. Quiet
    BY NothingIsQuiet DEF DecoderTakes
  <1>13. UNCHANGED <<mic, muted>>
    BY DEF DecoderTakes
  <1>14. QED
    BY <1>1, <1>4, <1>8, <1>9, <1>11, <1>12, <1>13 DEF EarInv

LEMMA EndsKeeps ==
  ASSUME EarInv, DecoderEnds
  PROVE  EarInv' /\ Quiet
  <1>1. decoder.stage = "decoding" /\ UNCHANGED <<ear, mic, muted>> /\ outbox' = <<>>
    BY DEF DecoderEnds
  <1>2. ear.running.real /\ ear.backend # "vosk"
    BY <1>1 DEF EarInv
  <1>3. IsDecoder' /\ decoder'.stage \in {"idle", "decoded", "failed"}
    <2>1. CASE decoder' = [decoder EXCEPT !.stage = "idle"]
      BY <2>1 DEF EarInv, IsDecoder, Stages
    <2>2. CASE decoder' = [stage |-> "decoded", text |-> Worded(ear.running.audio)]
      BY <2>2 DEF IsDecoder, Stages
    <2>3. CASE decoder' = [decoder EXCEPT !.stage = "failed"]
      BY <2>3 DEF EarInv, IsDecoder, Stages
    <2>4. QED
      BY <2>1, <2>2, <2>3 DEF DecoderEnds
  <1>4. Quiet
    BY <1>1, NothingIsQuiet
  <1>5. decoder'.stage = "decoded" => decoder'.text = Worded(ear'.running.audio)
    <2>1. CASE decoder' = [decoder EXCEPT !.stage = "idle"]
      BY <2>1 DEF EarInv, IsDecoder
    <2>2. CASE decoder' = [stage |-> "decoded", text |-> Worded(ear.running.audio)]
      BY <1>1, <2>2
    <2>3. CASE decoder' = [decoder EXCEPT !.stage = "failed"]
      BY <2>3 DEF EarInv, IsDecoder
    <2>4. QED
      BY <2>1, <2>2, <2>3 DEF DecoderEnds
  <1>6. QED
    BY <1>1, <1>2, <1>3, <1>4, <1>5 DEF EarInv

\* What is published leaves a listener that runs no decode.
LEMMA CompletedIs ==
  ASSUME NEW e, IsEar(e), NEW text
  PROVE  /\ IsEar(Completed(e, text)) /\ Completed(e, text).backend = e.backend
         /\ (Outdated(e.running) =>
               /\ Completed(e, text).state = e.state /\ Completed(e, text).job = e.job
               /\ Completed(e, text).running.real = FALSE /\ Completed(e, text).out = e.out)
  <1> DEFINE free == [e EXCEPT !.running = NoJob]
             all == [free EXCEPT !.finalPending = FALSE, !.audio = <<>>, !.draftAt = 0]
             awake == [all EXCEPT !.state = "listening"]
             asDraft == [free EXCEPT !.partial = text]
             word == Event(IF text = {} THEN "partial" ELSE "transcript", text)
             one == Sends(asDraft, Event("partial", text))
             two == Sends(Sends(all, StateEvent(all)), Event("limit", text))
             three == Sends(Sends(awake, StateEvent(awake)), word)
  <1>1. Completed(e, text) =
          CASE Outdated(e.running) -> free
            [] ~Outdated(e.running) /\ ~e.running.final -> IF text = e.partial THEN free ELSE one
            [] ~Outdated(e.running) /\ e.running.final /\ e.running.limit /\ text # {} -> two
            [] OTHER -> three
    BY DEF Completed
  <1>2. /\ IsEar(free) /\ free.backend = e.backend /\ free.state = e.state /\ free.job = e.job
        /\ free.running.real = FALSE /\ free.out = e.out
    <2>1. PICK j : j = NoJob
      OBVIOUS
    <2>2. IsJob(j) /\ j.real = FALSE
      BY <2>1 DEF NoJob, IsJob, JobFields
    <2>3. free = [e EXCEPT !.running = j]
      BY <2>1
    <2>4. QED
      BY <2>2, <2>3 DEF IsEar, EarFields
  <1> HIDE DEF free
  <1>3. SameDecode(free, all)
    <2>1. PICK c : c = [free EXCEPT !.finalPending = FALSE]
      OBVIOUS
    <2>2. SameDecode(free, c)
      BY <1>2, <2>1, SameField
    <2>3. PICK b : b = [c EXCEPT !.audio = <<>>]
      OBVIOUS
    <2>4. SameDecode(c, b)
      BY <2>2, <2>3, SameEar, SameField
    <2>5. SameDecode(b, [b EXCEPT !.draftAt = 0])
      BY <2>4, SameEar, SameField
    <2>6. all = [b EXCEPT !.draftAt = 0]
      BY <2>1, <2>3
    <2>7. QED
      BY <2>2, <2>4, <2>5, <2>6, SameOnwards
  <1> HIDE DEF all
  <1>4. SameDecode(all, awake)
    <2>1. "listening" \in EarStates
      BY DEF EarStates
    <2>2. QED
      BY <1>3, <2>1, SameEar, SameField
  <1>5. SameDecode(free, asDraft)
    BY <1>2, SameField
  <1> HIDE DEF awake, asDraft, word
  <1>6. SameDecode(free, one)
    BY <1>5, SameEar, SendsSame, SameOnwards
  <1>7. SameDecode(free, two)
    <2>1. PICK s : s = Sends(all, StateEvent(all))
      OBVIOUS
    <2>2. SameDecode(all, s)
      BY <1>3, <2>1, SameEar, SendsSame
    <2>3. SameDecode(s, Sends(s, Event("limit", text)))
      BY <2>2, SameEar, SendsSame
    <2>4. QED
      BY <1>3, <2>1, <2>2, <2>3, SameOnwards
  <1>8. SameDecode(free, three)
    <2>1. PICK s : s = Sends(awake, StateEvent(awake))
      OBVIOUS
    <2>2. SameDecode(awake, s)
      BY <1>4, <2>1, SameEar, SendsSame
    <2>3. SameDecode(s, Sends(s, word))
      BY <2>2, SameEar, SendsSame
    <2>4. QED
      BY <1>3, <1>4, <2>1, <2>2, <2>3, SameOnwards
  <1> HIDE DEF one, two, three
  <1>9. /\ IsEar(one) /\ one.backend = e.backend /\ IsEar(two) /\ two.backend = e.backend
        /\ IsEar(three) /\ three.backend = e.backend
    BY <1>2, <1>6, <1>7, <1>8 DEF SameDecode
  <1>10. CASE Outdated(e.running)
    <2>1. Completed(e, text) = free
      BY <1>1, <1>10
    <2>2. QED
      BY <1>2, <2>1
  <1>11. CASE ~Outdated(e.running)
    <2>1. Completed(e, text) \in {free, one, two, three}
      <3>1. CASE ~e.running.final
        <4>1. Completed(e, text) = IF text = e.partial THEN free ELSE one
          BY <1>1, <1>11, <3>1
        <4>2. QED
          BY <4>1
      <3>2. CASE e.running.final /\ e.running.limit /\ text # {}
        <4>1. Completed(e, text) = two
          BY <1>1, <1>11, <3>2
        <4>2. QED
          BY <4>1
      <3>3. CASE e.running.final /\ ~(e.running.limit /\ text # {})
        <4>1. Completed(e, text) = three
          BY <1>1, <1>11, <3>3
        <4>2. QED
          BY <4>1
      <3>4. QED
        BY <3>1, <3>2, <3>3
    <2>2. QED
      BY <1>2, <1>9, <1>11, <2>1
  <1>12. QED
    BY <1>10, <1>11

LEMMA PublishesKeeps ==
  ASSUME EarInv, DecoderPublishes
  PROVE  EarInv' /\ (muted => Quiet)
  <1>1. /\ decoder.stage = "decoded" /\ Published(Completed(ear, decoder.text))
        /\ decoder' = [stage |-> "idle", text |-> {}] /\ UNCHANGED <<mic, muted>>
    BY DEF DecoderPublishes
  <1>2. IsEar(ear) /\ ear.out = <<>> /\ ear.running.real /\ ear.backend # "vosk"
    BY <1>1 DEF EarInv
  <1>3. PICK e : e = Completed(ear, decoder.text)
    OBVIOUS
  <1>4. /\ IsEar(e) /\ e.backend = ear.backend
        /\ (Outdated(ear.running) =>
              e.state = ear.state /\ e.job = ear.job /\ e.running.real = FALSE /\ e.out = ear.out)
    BY <1>2, <1>3, CompletedIs
  <1>5. ear' = Emptied(e) /\ outbox' = e.out
    BY <1>1, <1>3 DEF Published, Emptied
  <1>6. SameDecode(e, ear') /\ ear'.out = <<>> /\ (Silent(e) => Silent(ear'))
    BY <1>4, <1>5, EmptiedIs
  <1>7. IsEar(ear') /\ ear'.backend = ear.backend
    BY <1>4, <1>6 DEF SameDecode
  <1>8. muted => Silent(e) /\ e.out = <<>>
    <2>1. SUFFICES ASSUME muted PROVE Silent(e) /\ e.out = <<>>
      OBVIOUS
    <2>2. Silent(ear)
      BY <2>1 DEF EarInv
    <2>3. Outdated(ear.running) /\ ~ear.job.real /\ ear.state = "paused"
      BY <1>2, <2>2 DEF Silent, Outdated
    <2>4. QED
      BY <1>2, <1>4, <2>3 DEF Silent
  <1>9. IsDecoder' /\ decoder'.stage = "idle"
    BY <1>1 DEF IsDecoder, Stages
  <1>10. muted => Quiet
    BY <1>5, <1>8, NothingIsQuiet
  <1>11. QED
    BY <1>1, <1>2, <1>6, <1>7, <1>8, <1>9, <1>10 DEF EarInv

LEMMA FailsKeeps ==
  ASSUME EarInv, DecoderFails
  PROVE  EarInv' /\ (muted /\ muted' => Quiet)
  <1>1. decoder.stage = "failed"
    BY DEF DecoderFails
  <1>2. CASE Outdated(ear.running)
    <2>1. decoder' = [decoder EXCEPT !.stage = "idle"] /\ outbox' = <<>> /\ UNCHANGED <<ear, mic, muted>>
      BY <1>2 DEF DecoderFails
    <2>2. IsDecoder' /\ decoder'.stage = "idle"
      BY <2>1 DEF EarInv, IsDecoder, Stages
    <2>3. Quiet
      BY <2>1, NothingIsQuiet
    <2>4. ear.backend # "vosk"
      BY <1>1 DEF EarInv
    <2>5. QED
      BY <2>1, <2>2, <2>3, <2>4 DEF EarInv
  <1>3. CASE ~Outdated(ear.running)
    <2>1. /\ ear' = ResetAttempt(Invalidate([ear EXCEPT !.preroll = <<>>, !.heard = {}], FALSE))
          /\ decoder' = [decoder EXCEPT !.stage = "off"] /\ mic' = [mic EXCEPT !.stage = "closed"]
          /\ muted' = FALSE
      BY <1>3 DEF DecoderFails
    <2>2. IsEar(ear') /\ ear'.out = <<>> /\ ear'.backend = ear.backend
      BY <2>1, ShutIs
    <2>3. IsDecoder' /\ decoder'.stage = "off"
      BY <2>1 DEF EarInv, IsDecoder, Stages
    <2>4. mic'.frames \in Nat
      BY <2>1 DEF EarInv
    <2>5. QED
      BY <2>1, <2>2, <2>3, <2>4 DEF EarInv
  <1>4. QED
    BY <1>2, <1>3

LEMMA EarStarts == ASSUME ListeningInit PROVE EarInv
  <1>1. PICK b \in Backends : ear = NewEar(b)
    BY DEF ListeningInit
  <1>2. IsEar(ear) /\ ear.out = <<>>
    BY <1>1, NewEarIs
  <1>3. decoder.stage = "off" /\ IsDecoder
    BY DEF ListeningInit, IsDecoder, Stages
  <1>4. mic.frames \in Nat
    BY DEF ListeningInit
  <1>5. muted = FALSE
    BY DEF ListeningInit
  <1>6. muted \in BOOLEAN /\ ~muted
    BY <1>5
  <1>7. QED
    BY <1>2, <1>3, <1>4, <1>6 DEF EarInv

LEMMA EarStays ==
  ASSUME EarInv, [ListeningNext]_listeningVars
  PROVE  EarInv' /\ (muted /\ muted' => Quiet \/ UNCHANGED listeningVars)
  <1>1. CASE MicOpens
    BY <1>1, OpensKeeps
  <1>2. CASE MicCloses
    BY <1>2, ClosesKeeps
  <1>3. CASE \E kind \in FrameKinds, spotted, ended \in BOOLEAN : FrameArrives(kind, spotted, ended)
    BY <1>3, FrameKeeps
  <1>4. CASE \E control \in Controls : ControlArrives(control)
    BY <1>4, ControlKeeps
  <1>5. CASE DecoderTakes
    BY <1>5, TakesKeeps
  <1>6. CASE DecoderEnds
    BY <1>6, EndsKeeps
  <1>7. CASE LeftoverEnds
    <2>1. UNCHANGED <<ear, decoder, mic, muted>> /\ outbox' = <<>>
      BY <1>7 DEF LeftoverEnds
    <2>2. EarInv'
      BY <2>1 DEF EarInv, IsDecoder
    <2>3. QED
      BY <2>1, <2>2, NothingIsQuiet
  <1>8. CASE DecoderPublishes
    BY <1>8, PublishesKeeps
  <1>9. CASE DecoderFails
    BY <1>9, FailsKeeps
  <1>10. CASE UNCHANGED listeningVars
    <2>1. UNCHANGED <<ear, decoder, mic, muted>>
      BY <1>10 DEF listeningVars
    <2>2. EarInv'
      BY <2>1 DEF EarInv, IsDecoder
    <2>3. QED
      BY <1>10, <2>2
  <1>11. QED
    BY <1>1, <1>2, <1>3, <1>4, <1>5, <1>6, <1>7, <1>8, <1>9, <1>10 DEF ListeningNext

\* After the tab was told it is muted nothing that was said is published: no
\* decode waits then, and the one that runs is canceled (voice_api.py 262-263).
THEOREM MutedStaysSilent == ListeningSpec => MutedIsSilent
  <1>1. ListeningInit => EarInv
    BY EarStarts
  <1>2. EarInv /\ [ListeningNext]_listeningVars => EarInv'
    BY EarStays
  <1>3. EarInv /\ [ListeningNext]_listeningVars =>
          [muted /\ muted' => Quiet]_listeningVars
    BY EarStays
  <1>4. [muted /\ muted' => Quiet]_listeningVars =>
          [muted /\ muted' =>
             \A i \in DOMAIN outbox' : outbox'[i].type \notin {"partial", "transcript", "limit", "speech_start"}]_listeningVars
    BY DEF Quiet
  <1>5. QED
    BY <1>1, <1>2, <1>3, <1>4, PTL DEF ListeningSpec, MutedIsSilent

-----------------------------------------------------------------------------
(* What is said aloud keeps its type: nobody has the gate but a request,   *)
(* and no worker speaks more pieces than the reply has.                    *)
SpeechTyped ==
  /\ {gate, native} \subseteq Replies \cup {"free"}
  /\ \A r \in Replies : /\ thread[r].made \in 0 .. Pieces
                        /\ thread[r].at = "native" => thread[r].made < Pieces

LEMMA PieceEndsTyped ==
  ASSUME SpeechInv, SpeechTyped, NEW r \in Replies, PieceEnds(r)
  PROVE  SpeechTyped'
  <1>1. thread[r] \in [at : ThreadPlaces, got : ThreadEnds, made : Nat] /\ thread[r].made + 1 \in 0 .. Pieces
    BY SpeechAssumption DEF PieceEnds, SpeechInv, SpeechShape, SpeechTyped
  <1>2. native' = "free" /\ gate' = gate
    BY DEF PieceEnds
  <1>3. PICK p : /\ thread' = [thread EXCEPT ![r] = p] /\ p.made \in {thread[r].made, thread[r].made + 1}
                 /\ p.at \in {"started", "returned"}
    BY <1>1 DEF PieceEnds
  <1>4. \A q \in Replies : thread'[q] = IF q = r THEN p ELSE thread[q]
    BY <1>3 DEF SpeechInv, SpeechShape
  <1>5. QED
    BY <1>1, <1>2, <1>3, <1>4 DEF SpeechTyped

LEMMA SpeechStaysTyped ==
  ASSUME SpeechInv, SpeechTyped, [SpeechNext]_speechVars
  PROVE  SpeechTyped'
  <1> USE SpeechAssumption
  <1>1. ASSUME NEW r \in Replies, SpeechAdmitted(r)
        PROVE  SpeechTyped'
    <2>1. gate' = r /\ native' = native /\ thread' = [thread EXCEPT ![r].at = "started", ![r].got = "nothing"]
      BY <1>1 DEF SpeechAdmitted
    <2>2. \A q \in Replies : thread'[q].made = thread[q].made /\ (thread'[q].at = "native" => thread[q].at = "native")
      BY <2>1 DEF SpeechInv, SpeechShape
    <2>3. QED
      BY <2>1, <2>2 DEF SpeechTyped
  <1>2. ASSUME NEW r \in Replies, PieceStarts(r)
        PROVE  SpeechTyped'
    <2>1. /\ native' \in {native, r} /\ gate' = gate
          /\ \A q \in Replies : thread'[q].made = thread[q].made
          /\ \A q \in Replies \ {r} : thread'[q] = thread[q]
          /\ thread'[r].at = "native" => thread[r].made # Pieces
      <3>1. /\ thread \in [Replies -> [at : ThreadPlaces, got : ThreadEnds, made : Nat]]
            /\ gate' = gate /\ native' \in {native, r}
        BY <1>2 DEF PieceStarts, SpeechInv, SpeechShape
      <3>2. \/ thread' = [thread EXCEPT ![r].at = "returned", ![r].got = "interrupted"]
            \/ thread' = [thread EXCEPT ![r].at = "returned", ![r].got = "end"]
            \/ thread' = [thread EXCEPT ![r].at = "native"] /\ thread[r].made # Pieces
        BY <1>2, Zenon DEF PieceStarts
      <3>3. QED
        BY <3>1, <3>2
    <2>2. QED
      BY <2>1 DEF SpeechTyped
  <1>3. ASSUME NEW r \in Replies, PieceEnds(r)
        PROVE  SpeechTyped'
    BY <1>3, PieceEndsTyped
  <1>4. ASSUME NEW r \in Replies, WorkerSettles(r)
        PROVE  SpeechTyped'
    <2>1. /\ gate' = "free" /\ native' = native
          /\ \A q \in Replies : thread'[q].made = thread[q].made /\ (thread'[q].at = "native" => thread[q].at = "native")
      BY <1>4 DEF WorkerSettles, Releases, SpeechInv, SpeechShape
    <2>2. QED
      BY <2>1 DEF SpeechTyped
  <1>5. ASSUME NEW r \in Replies, SpeechAsked(r) \/ SpeechHeard(r) \/ ChunkRead(r) \/ ListenerLeaves(r)
        PROVE  SpeechTyped'
    <2>1. UNCHANGED <<thread, gate, native>>
      BY <1>5 DEF SpeechAsked, SpeechHeard, ChunkRead, ListenerLeaves, GateOfGone
    <2>2. QED
      BY <2>1 DEF SpeechTyped
  <1>6. ASSUME UNCHANGED speechVars
        PROVE  SpeechTyped'
    BY <1>6 DEF SpeechTyped, speechVars
  <1>7. QED
    BY <1>1, <1>2, <1>3, <1>4, <1>5, <1>6 DEF SpeechNext

LEMMA SpeechBegins == SpeechInit => SpeechTyped
  BY SpeechAssumption DEF SpeechInit, SpeechTyped

LEMMA SpeechIsTyped == ASSUME SpeechInv, SpeechTyped PROVE SpeechTypeOK
  <1>1. line \in Seq(Replies) /\ \A i \in DOMAIN line : line[i] \in Replies
    BY ElementOfSeq, LenProperties DEF SpeechInv, SpeechShape
  <1>2. IsInjective(line) /\ ToSet(line) \subseteq Replies
    BY <1>1 DEF IsInjective, ToSet, SpeechInv, InLine
  <1>3. ASSUME NEW r \in Replies
        PROVE  /\ reply[r].stage \in ReplyStages /\ reply[r].canceled \in BOOLEAN
               /\ thread[r].at \in ThreadPlaces /\ thread[r].got \in ThreadEnds
               /\ chunks[r] \in {"open", "closing", "closed"}
    <2>1. /\ reply[r] \in [stage : ReplyStages, canceled : BOOLEAN]
          /\ thread[r] \in [at : ThreadPlaces, got : ThreadEnds, made : Nat]
          /\ chunks[r] \in {"open", "closing", "closed"}
      BY DEF SpeechInv, SpeechShape
    <2>2. QED
      BY <2>1
  <1>4. QED
    BY <1>2, <1>3 DEF SpeechTypeOK, SpeechTyped, ReplyStages, ThreadPlaces, ThreadEnds

-----------------------------------------------------------------------------
(* The rest of the type of the timer.                                      *)
TimerTyped ==
  /\ clock \in 0 .. MaxTime /\ loop \in Loops /\ current \in Ids \cup {0}
  /\ wake \in BOOLEAN /\ alarm \in Nat
  /\ stops \in 0 .. MaxStops /\ errors \in 0 .. MaxErrors
  /\ raised \subseteq Ids /\ since \in 0 .. MaxJobs

\* The sleep ends at a time: of the jobs that wait, one is due first.
LEMMA AlarmIsTime ==
  ASSUME NEW m \in Jobs, clock \in Nat, due \in [Ids -> 0 .. MaxTime]
  PROVE  Alarm(m) \in Nat
  <1> DEFINE next == CHOOSE t \in {due[j] : j \in Pending(m)} : \A j \in Pending(m) : t <= due[j]
             delay == IF Pending(m) = {} THEN 1 ELSE IF next > clock THEN next - clock ELSE 0
  <1>1. Pending(m) \subseteq Ids
    BY DEF Pending
  <1>2. Pending(m) # {} => next \in Nat
    <2>1. ASSUME Pending(m) # {}
          PROVE  \E t \in {due[j] : j \in Pending(m)} : \A j \in Pending(m) : t <= due[j]
      <3>1. /\ Earliest(Pending(m)) \in Pending(m)
            /\ \A k \in Pending(m) : due[Earliest(Pending(m))] <= due[k]
        BY <1>1, <2>1, EarliestEffect, SchedulerAssumption
      <3>2. QED
        BY <3>1
    <2>2. \A t \in {due[j] : j \in Pending(m)} : t \in Nat
      BY <1>1, SchedulerAssumption
    <2>3. QED
      BY <2>1, <2>2
  <1> HIDE DEF next
  <1>3. delay \in Nat
    BY <1>2
  <1>4. Alarm(m) = clock + IF delay > MaxSleep THEN MaxSleep ELSE delay
    BY DEF Alarm, next
  <1> HIDE DEF delay
  <1>5. QED
    BY <1>3, <1>4, SchedulerAssumption

\* _run between two awaits.
LEMMA ProceedTyped ==
  ASSUME NEW B \in SUBSET Ids, NEW m \in Jobs, NEW d, IInv, TimerTyped, Proceed(B, m, d)
  PROVE  /\ loop' \in Loops /\ current' \in Ids \cup {0} /\ alarm' \in Nat /\ errors' \in 0 .. MaxErrors
  <1> USE SchedulerAssumption
  <1>1. CASE B = {}
    <2>1. loop' = "asleep" /\ current' = 0 /\ errors' = errors /\ alarm' = Alarm(m)
      BY <1>1 DEF Proceed, Sleep
    <2>2. QED
      BY <2>1, AlarmIsTime DEF IInv, Types, TimerTyped, Loops
  <1>2. CASE B # {}
    <2>1. Earliest(B) \in Ids
      BY <1>2, EarliestEffect DEF IInv, Types
    <2>2. /\ loop' \in {"posting", "dead"} /\ current' \in {Earliest(B), 0} /\ alarm' = alarm
          /\ errors' = errors \/ (errors < MaxErrors /\ errors' = errors + 1)
      BY <1>2, Zenon DEF Proceed, Claim, Saved, SaveFailed, Fails
    <2>3. QED
      BY <2>1, <2>2 DEF TimerTyped, Loops
  <1>3. QED
    BY <1>1, <1>2

LEMMA TimerStaysTyped ==
  ASSUME IInv, TimerTyped, [Next]_vars
  PROVE  TimerTyped'
  <1> USE SchedulerAssumption
  <1>1. ASSUME NEW t \in 0 .. MaxTime, Schedule(t)
        PROVE  TimerTyped'
    <2>1. /\ UNCHANGED <<clock, loop, current, alarm, stops, raised, since>>
          /\ wake' = TRUE \/ wake' = wake
          /\ errors' = errors \/ (errors < MaxErrors /\ errors' = errors + 1)
      BY <1>1 DEF Schedule, Saved, SaveFailed, Fails
    <2>2. wake' \in BOOLEAN
      BY <2>1, Zenon DEF TimerTyped
    <2>3. QED
      BY <2>1, <2>2 DEF TimerTyped
  <1>2. ASSUME NEW j \in Ids, Cancel(j)
        PROVE  TimerTyped'
    <2>1. /\ UNCHANGED <<clock, loop, current, wake, alarm, stops, raised, since>>
          /\ errors' = errors \/ (errors < MaxErrors /\ errors' = errors + 1)
      BY <1>2 DEF Cancel, Saved, SaveFailed, Fails, process
    <2>2. QED
      BY <2>1 DEF TimerTyped
  <1>3. ASSUME Awake
        PROVE  TimerTyped'
    <2>1. /\ Proceed(DueJobs(mem), mem, disk) /\ since' = created
          /\ UNCHANGED <<clock, stops, raised>> /\ (wake' = wake \/ wake' = FALSE)
      BY <1>3, Zenon DEF Awake, history
    <2>2. DueJobs(mem) \in SUBSET Ids
      BY DEF DueJobs, Pending
    <2>3. wake' \in BOOLEAN
      BY <2>1, Zenon DEF TimerTyped
    <2>4. mem \in Jobs /\ created \in 0 .. MaxJobs
      BY DEF IInv, Types
    <2>5. loop' \in Loops /\ current' \in Ids \cup {0} /\ alarm' \in Nat /\ errors' \in 0 .. MaxErrors
      BY <2>1, <2>2, <2>4, ProceedTyped
    <2>6. QED
      BY <2>1, <2>3, <2>4, <2>5 DEF TimerTyped
  <1>4. ASSUME NEW failed \in BOOLEAN, Delivered(failed)
        PROVE  TimerTyped'
    <2> DEFINE m == Trimmed(Outcome(failed))
    <2>1. loop \in {"posting", "sending"} /\ raised' \in {raised, raised \cup {current}}
      BY <1>4 DEF Delivered
    <2>2. current \in Ids /\ "failed" \in Statuses
      BY <2>1 DEF IInv, Claimed, Statuses
    <2>3. Outcome(failed) \in Jobs
      BY <2>2, WithStatusEffect DEF Outcome, IInv, Types
    <2>4. m \in Jobs
      BY <2>3, TrimmedEffect
    <2> HIDE DEF m
    <2>5. batch \in SUBSET Ids
      BY DEF IInv, Types
    <2>6. /\ UNCHANGED <<clock, wake, stops, since>>
          /\ \/ Proceed(batch, m, m)
             \/ /\ errors < MaxErrors /\ errors' = errors + 1
                /\ loop' = "dead" /\ current' = 0 /\ alarm' = alarm
      BY <1>4 DEF Delivered, SaveFailed, Fails, m
    <2>7. loop' \in Loops /\ current' \in Ids \cup {0} /\ alarm' \in Nat /\ errors' \in 0 .. MaxErrors
      <3>1. CASE Proceed(batch, m, m)
        BY <2>4, <2>5, <3>1, ProceedTyped
      <3>2. CASE /\ errors < MaxErrors /\ errors' = errors + 1
                 /\ loop' = "dead" /\ current' = 0 /\ alarm' = alarm
        BY <3>2 DEF TimerTyped, Loops
      <3>3. QED
        BY <2>6, <3>1, <3>2
    <2>8. QED
      BY <2>1, <2>2, <2>6, <2>7 DEF TimerTyped
  <1>5. ASSUME Post \/ Stop \/ Start \/ Tick \/ UNCHANGED vars
        PROVE  TimerTyped'
    <2>1. /\ UNCHANGED <<alarm, errors, raised, since>>
          /\ loop' \in {loop, "sending", "down", "ready"} /\ current' \in {current, 0}
          /\ wake' = wake \/ wake' = FALSE
          /\ stops' = stops \/ (stops < MaxStops /\ stops' = stops + 1)
          /\ clock' = clock \/ (clock < MaxTime /\ clock' = clock + 1)
      BY <1>5 DEF Post, Stop, Start, Tick, vars, schedule, process, history
    <2>2. wake' \in BOOLEAN
      BY <2>1, Zenon DEF TimerTyped
    <2>3. QED
      BY <2>1, <2>2 DEF TimerTyped, Loops
  <1>6. QED
    BY <1>1, <1>2, <1>3, <1>4, <1>5 DEF Next

LEMMA TimerBegins == Init => TimerTyped
  <1>1. Init => wake \in BOOLEAN
    BY Zenon DEF Init
  <1>2. QED
    BY <1>1, SchedulerAssumption DEF Init, TimerTyped, Loops

LEMMA TimerIsTyped == IInv /\ LossInv /\ TimerTyped => TypeOK
  BY DEF IInv, Types, LossInv, Promises, TimerTyped, TypeOK

-----------------------------------------------------------------------------
(* The composition: while one part is in focus the others stand still, so  *)
(* each part sees its own behaviours only.                                 *)
LEMMA BuildsAreTheirParts ==
  BuildsSpec => /\ BuildSpec /\ ServiceSpec /\ StepsSpec
                /\ SpeechInit /\ [][SpeechNext]_speechVars /\ Init /\ [][Next]_vars /\ ListeningSpec
  <1>1. BuildsInit => BuildInit /\ ServiceInit /\ StepsInit /\ SpeechInit /\ Init /\ ListeningInit
    BY DEF BuildsInit
  <1>2. ASSUME [BuildsNext]_buildsVars
        PROVE  /\ [BuildNext]_buildVars /\ [ServiceNext]_serviceVars /\ [StepsNext]_stepVars
               /\ [SpeechNext]_speechVars /\ [Next]_vars /\ [ListeningNext]_listeningVars
    BY <1>2 DEF BuildsNext, buildsVars, Only, Still
  <1>3. QED
    BY <1>1, <1>2, PTL DEF BuildsSpec, BuildSpec, ServiceSpec, StepsSpec, ListeningSpec

(* What B serves was checked and reviewed against the frozen tests, B ends *)
(* with its attempt, and a build goes on only over the tree it was begun   *)
(* from (selfmod/loop.py 150-330, agents.py, paused.py): BuildsStayProven, *)
(* for the composition that TLC runs.                                      *)
THEOREM BuildsKeepProven == BuildsSpec => []BuildsAreProven
  BY BuildsAreTheirParts, BuildsStayProven, PTL DEF BuildsAreProven

(* Nothing is torn down under the work that runs on it, and A is replaced  *)
(* only by what was proven (deployment.py, service.py 541-720), for the    *)
(* composition that TLC runs.                                              *)
THEOREM DeploymentsStaySound == BuildsSpec => DeploymentsAreSound
  BY BuildsAreTheirParts, WorkKeepsItsDeployment, AIsReplacedByWhatWasProven, PTL DEF DeploymentsAreSound

(* Jobs are kept over stops and failed saves, and an answered cancellation *)
(* is final (scheduling.py 125-230), for the composition that TLC runs.    *)
THEOREM JobsStayKept == BuildsSpec => []JobsAreKept /\ CancelIsFinal
  <1>1. IInv /\ LossInv /\ [Next]_vars => IInv' /\ LossInv'
    BY StepInvariant, LossStep
  <1>2. IInv /\ [Next]_vars =>
          [\A j \in revoked :
             posted[j] = 0 /\ j \notin batch \cup {current} =>
               posted'[j] = 0 /\ j \notin (batch \cup {current})']_vars
    BY StepInvariant DEF Untouched
  <1>3. QED
    BY InitInvariant, LossInitially, LossGives, <1>1, <1>2, BuildsAreTheirParts, PTL DEF CancelIsFinal

(* The rest of what TLC checks of the composition without fairness: a yes  *)
(* starts one build, an answer belongs to its question, one worker at a    *)
(* time speaks, and a muted microphone stays silent.                       *)
THEOREM PartsKeepTheirWord ==
  BuildsSpec => [](YesStartsOneBuild /\ OneVoice) /\ AnswersAreOwn /\ MutedIsSilent
  <1>1. SpeechInv /\ [SpeechNext]_speechVars => SpeechInv'
    BY SpeechNextInv
  <1>2. SpeechInv => OneVoice
    BY DEF SpeechInv, HasGate, OneVoice
  <1>3. QED
    BY <1>1, <1>2, SpeechInitInv, BuildsAreTheirParts, OneYesOneBuild, AnswersStayOwn, MutedStaysSilent, PTL
=============================================================================
