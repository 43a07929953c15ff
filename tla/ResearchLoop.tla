---------------------------- MODULE ResearchLoop ----------------------------
(***************************************************************************)
(* The in-process researcher (engine/subagent.py): a loop of generations,  *)
(* each of which asks for tool calls or gives the final answer, within a   *)
(* budget of steps and of calls.  The transcript it replays must hold one  *)
(* result for each call, so a batch is answered to its end even when the   *)
(* run stops in the middle of it.                                          *)
(***************************************************************************)
EXTENDS Naturals, Sequences, SequencesExt

CONSTANTS Lookups,     \* tool calls, by name and arguments
          MaxSteps,    \* max_steps
          MaxLookups,  \* max_tool_calls
          MaxBatch     \* calls that a generation may ask for

ASSUME ResearchAssumption == {MaxLookups, MaxSteps} \subseteq Nat \ {0} /\ MaxBatch \in Nat

VARIABLES loop,      \* generating, answering, finalizing or ended
          rounds,    \* generations so far
          batch,     \* admitted calls that have no result yet
          truncated, \* budget_truncated
          used,      \* tool_calls_used
          seen,      \* call_counts
          executed,  \* how often each call was really made
          recorded,  \* calls and results of the transcript
          stopReason,
          outcome    \* status of the result the run ended with

researchVars == <<loop, rounds, batch, truncated, used, seen, executed, recorded, stopReason, outcome>>

ResearchTypeOK ==
  /\ loop \in {"generating", "answering", "finalizing", "ended"} /\ rounds \in 0..MaxSteps
  /\ batch \in BoundedSeq(Lookups, MaxBatch) /\ truncated \in BOOLEAN /\ used \in 0..MaxLookups
  /\ stopReason \in {"none", "repeated", "limit"} /\ outcome \in {"none", "ok", "partial", "error", "raised"}

ResearchInit ==
  /\ loop = "generating" /\ rounds = 0 /\ batch = <<>> /\ truncated = FALSE /\ used = 0
  /\ seen = [c \in Lookups |-> 0] /\ executed = [c \in Lookups |-> 0]
  /\ recorded = [calls |-> 0, results |-> 0] /\ stopReason = "none" /\ outcome = "none"

Ends(how) == loop' = "ended" /\ outcome' = how
kept == <<batch, truncated, used, seen, executed, recorded, stopReason>>

(* _parse_final: an answer whose "findings" or "sources" is null has no    *)
(* list to go through, and that raises.                                    *)
Parsed(answer) == CASE answer = "whole" -> "ok" [] answer = "malformed" -> "partial" [] answer = "null list" -> "raised"

GenerationFails ==
  /\ loop = "generating" /\ Ends("error") /\ rounds' = rounds + 1 /\ UNCHANGED kept

FinalAnswer(answer) ==
  /\ loop = "generating" /\ Ends(Parsed(answer)) /\ rounds' = rounds + 1 /\ UNCHANGED kept

\* Slip: a batch that begins within the budget is admitted whole.
Admitted_Whole(calls) == IF used < MaxLookups THEN calls ELSE <<>>
Admitted(calls) == SubSeq(calls, 1, IF Len(calls) < MaxLookups - used THEN Len(calls) ELSE MaxLookups - used)

(* Only the calls that the budget has left are admitted and recorded. *)
CallsAdmitted(calls) ==
  /\ loop = "generating" /\ rounds' = rounds + 1 /\ loop' = "answering"
  /\ batch' = Admitted(calls) /\ truncated' = (Len(Admitted(calls)) < Len(calls))
  /\ recorded' = [recorded EXCEPT !.calls = @ + Len(Admitted(calls))]
  /\ UNCHANGED <<used, seen, executed, stopReason, outcome>>

\* Slip: a run that stops leaves the rest of its batch.
LeftOf_Stops(rest, stopping) == IF stopping THEN <<>> ELSE rest
LeftOf(rest, stopping) == rest

(* _execute: whatever becomes of the call, it has a result. *)
Executed(call) == [executed EXCEPT ![call] = @ + 1]

(* A call that was made is answered without being made again, and a call   *)
(* that was already corrected stops the run; then the others are not made. *)
CallAnswered ==
  /\ loop = "answering" /\ batch # <<>>
  /\ LET call == Head(batch)
         made == stopReason = "none" /\ seen[call] = 0
         stuck == stopReason = "none" /\ seen[call] >= 2 IN
     /\ used' = used + 1
     /\ recorded' = [recorded EXCEPT !.results = @ + 1]
     /\ seen' = IF stopReason = "none" THEN [seen EXCEPT ![call] = @ + 1] ELSE seen
     /\ executed' = IF made THEN Executed(call) ELSE executed
     /\ stopReason' = IF stuck THEN "repeated" ELSE stopReason
     /\ batch' = LeftOf(Tail(batch), stuck)
  /\ UNCHANGED <<loop, rounds, truncated, outcome>>

(* The next generation, or the last one, which has no tools. *)
BatchEnds ==
  /\ loop = "answering" /\ batch = <<>>
  /\ stopReason' = IF truncated \/ used >= MaxLookups THEN "limit" ELSE stopReason
  /\ loop' = IF stopReason' # "none" \/ rounds = MaxSteps THEN "finalizing" ELSE "generating"
  /\ UNCHANGED <<rounds, batch, truncated, used, seen, executed, recorded, outcome>>

(* _finalize_partial: the evidence at hand is put into an answer, or the   *)
(* reason for stopping is; either way the result is partial.               *)
Finalizes(answer) ==
  /\ loop = "finalizing"
  /\ Ends(IF answer = "null list" THEN "raised" ELSE "partial") /\ UNCHANGED <<rounds, kept>>

ResearchNext ==
  \/ GenerationFails \/ CallAnswered \/ BatchEnds
  \/ (\E answer \in {"whole", "malformed", "null list"} : FinalAnswer(answer) \/ Finalizes(answer))
  \/ \E calls \in BoundedSeq(Lookups, MaxBatch) \ {<<>>} : CallsAdmitted(calls)

ResearchSpec == ResearchInit /\ [][ResearchNext]_researchVars

-----------------------------------------------------------------------------
(* Whenever the model is asked, the transcript holds one result for each   *)
(* call it holds (subagent.py, line 346), whatever was cut or stopped; the *)
(* same call is made once in a run, however often it is asked for.         *)
TranscriptIsWhole ==
  /\ loop \in {"generating", "finalizing"} => recorded.calls = recorded.results
  /\ \A c \in Lookups : executed[c] <= 1
=============================================================================
