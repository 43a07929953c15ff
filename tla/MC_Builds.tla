------------------------------ MODULE MC_Builds ------------------------------
(***************************************************************************)
(* Scheduled jobs, self-modification and the voice, one part at a time as  *)
(* in MC_Host.                                                             *)
(***************************************************************************)
EXTENDS Scheduler, BuildLoop, SelfmodService, BuildSteps, VoiceListening, VoiceSpeech

VARIABLE focus

buildsVars == <<vars, buildVars, serviceVars, stepVars, listeningVars, speechVars, focus>>

BuildsInit ==
  /\ focus \in {"jobs", "loop", "service", "steps", "listening", "speech"}
  /\ Init /\ BuildInit /\ ServiceInit /\ StepsInit /\ SpeechInit
  /\ ListeningInit /\ (focus = "listening" \/ ear = NewEar(CHOOSE b \in Backends : TRUE))

Still(part, partVars) == IF focus = part THEN TRUE ELSE UNCHANGED partVars
Only(part) ==
  /\ focus = part /\ UNCHANGED focus
  /\ Still("jobs", vars) /\ Still("loop", buildVars) /\ Still("service", serviceVars)
  /\ Still("steps", stepVars) /\ Still("listening", listeningVars) /\ Still("speech", speechVars)

BuildsNext ==
  \/ Only("jobs") /\ Next
  \/ Only("loop") /\ BuildNext
  \/ Only("service") /\ ServiceNext
  \/ Only("steps") /\ StepsNext
  \/ Only("listening") /\ ListeningNext
  \/ Only("speech") /\ SpeechNext

BuildsSpec ==
  /\ BuildsInit /\ [][BuildsNext]_buildsVars
  /\ WF_vars(focus = "jobs" /\ Awake)
  /\ WF_vars(focus = "jobs" /\ \E failed \in BOOLEAN : Post \/ Delivered(failed))
  /\ WF_vars(focus = "jobs" /\ Start)
  /\ WF_vars(focus = "jobs" /\ Tick)
  /\ \A r \in Replies : WF_speechVars(focus = "speech" /\ SpeechGoesOn(r))

(* The states and histories of the parts have the shape their code gives   *)
(* them.                                                                   *)
BuildsTypeOK ==
  /\ focus = "jobs" => TypeOK
  /\ focus = "loop" => BuildTypeOK
  /\ focus = "service" => ServiceTypeOK
  /\ focus = "steps" => StepsTypeOK
  /\ focus = "listening" => ListeningTypeOK
  /\ focus = "speech" => SpeechTypeOK

(* No job is delivered twice, and a stop or a failed save loses at most    *)
(* the one it hits; what is in memory is on disk until a save failed, and  *)
(* the oldest of what waits comes first (scheduling.py 125-146, 180-230).  *)
JobsAreKept == AtMostOnce /\ LosesOnePerStop /\ MemoryIsSaved /\ OldestFirst

(* A job that is due is delivered, of the jobs in focus, however often the *)
(* server stops, and none after its cancellation was answered.             *)
JobsAreDelivered == CancelIsFinal /\ (focus = "jobs" => DueIsDelivered)

(* What B serves was checked and reviewed against the frozen tests, B ends *)
(* with its attempt, and a build goes on only over the tree it was begun   *)
(* from (selfmod/loop.py 150-330, agents.py, paused.py).                   *)
BuildsAreProven == ProvenBeforeServed /\ NothingOutlivesItsAttempt /\ ResumesItsOwn

(* Nothing is torn down under the work that runs on it, and A is replaced  *)
(* only by a build on which the request it was made for was completed, or  *)
(* some request while builds overlap (deployment.py, service.py 541-720).  *)
DeploymentsAreSound == NothingIsPulledAway /\ OnlyProvenServes

(* What is said to the voice, and what it is asked to say, arrives: the    *)
(* words of the user once and in order (engine/voice.py,                   *)
(* whisper_listener.py); and, of the voice in focus, whoever asks for      *)
(* speech gets audio or an error, however many left before them.           *)
VoiceArrives == []WordsArriveOnce /\ (focus = "speech" => ReplyIsSpoken)
=============================================================================
