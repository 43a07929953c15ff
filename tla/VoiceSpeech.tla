---------------------------- MODULE VoiceSpeech ----------------------------
(***************************************************************************)
(* Reading saved replies aloud (voice_api.py, engine/voice.py): a request  *)
(* passes the one gate, a worker thread runs the native synthesis that     *)
(* nobody can stop, and the client may be gone at any moment.  A streamed  *)
(* reply takes one worker for each piece, when the client has read the one *)
(* before; a whole reply takes one worker for all of its pieces.           *)
(***************************************************************************)
EXTENDS Naturals, FiniteSets, SequencesExt

CONSTANTS Streams, Wholes,   \* requests, by what they ask for
          Pieces             \* bounded pieces of text of each reply

ASSUME SpeechAssumption == Streams \cap Wholes = {} /\ "free" \notin Streams \cup Wholes /\ Pieces \in Nat

Replies == Streams \cup Wholes

VARIABLES reply,    \* stage of each request, and whether its speech is canceled
          thread,   \* its worker: where it is, what it came to, pieces spoken
          chunks,   \* the generator of a streamed reply, "open" or "closed"
          gate,     \* the request that holds the semaphore, or "free"
          line,     \* who waits for it, in order
          native    \* who holds the speech lock, or "free"

speechVars == <<reply, thread, chunks, gate, line, native>>

SpeechTypeOK ==
  /\ \A r \in Replies :
       /\ reply[r].stage \in {"none", "admitting", "working", "telling", "spoken", "failed", "gone"}
       /\ thread[r].at \in {"none", "started", "native", "returned", "settled"} /\ thread[r].made \in 0 .. Pieces
       /\ thread[r].got \in {"nothing", "audio", "end", "error", "interrupted"}
       /\ reply[r].canceled \in BOOLEAN /\ chunks[r] \in {"open", "closing", "closed"}
  /\ {gate, native} \subseteq Replies \cup {"free"} /\ IsInjective(line) /\ ToSet(line) \subseteq Replies

SpeechInit ==
  /\ reply = [r \in Replies |-> [stage |-> "none", canceled |-> FALSE]]
  /\ thread = [r \in Replies |-> [at |-> "none", got |-> "nothing", made |-> 0]]
  /\ chunks = [r \in Replies |-> "open"] /\ gate = "free" /\ line = <<>> /\ native = "free"

Alive(r) == thread[r].at \in {"started", "native", "returned"}

SpeechAsked(r) ==
  /\ reply[r].stage = "none" /\ reply' = [reply EXCEPT ![r].stage = "admitting"]
  /\ line' = Append(line, r) /\ UNCHANGED <<thread, chunks, gate, native>>

(* _speech_worker: the gate is had in order, and the thread starts.        *)
SpeechAdmitted(r) ==
  /\ gate = "free" /\ line # <<>> /\ Head(line) = r /\ gate' = r /\ line' = Tail(line)
  /\ reply' = [reply EXCEPT ![r].stage = "working"]
  /\ thread' = [thread EXCEPT ![r].at = "started", ![r].got = "nothing"]
  /\ UNCHANGED <<chunks, native>>

(* The loop over the pieces, up to the native call or the end.             *)
PieceStarts(r) ==
  /\ thread[r].at = "started"
  /\ CASE reply[r].canceled -> thread' = [thread EXCEPT ![r].at = "returned", ![r].got = "interrupted"]
                               /\ UNCHANGED native
       [] ~reply[r].canceled /\ thread[r].made = Pieces ->
            thread' = [thread EXCEPT ![r].at = "returned", ![r].got = "end"] /\ UNCHANGED native
       [] OTHER -> native = "free" /\ native' = r /\ thread' = [thread EXCEPT ![r].at = "native"]
  /\ UNCHANGED <<reply, chunks, gate, line>>

(* The lock is given back before the audio is handed over.                 *)
PieceEnds(r) ==
  /\ thread[r].at = "native" /\ native' = "free"
  /\ LET more == r \in Wholes /\ thread[r].made + 1 < Pieces
         said == [thread[r] EXCEPT !.at = IF more THEN "started" ELSE "returned",
                                   !.got = IF more THEN "nothing" ELSE "audio", !.made = @ + 1]
         failed == [thread[r] EXCEPT !.at = "returned", !.got = "error"]
         stopped == [thread[r] EXCEPT !.at = "returned", !.got = "interrupted"]
     IN \E end \in {failed, IF reply[r].canceled THEN stopped ELSE said} : thread' = [thread EXCEPT ![r] = end]
  /\ UNCHANGED <<reply, chunks, gate, line>>

\* Slip: the gate is given back only by a reply that someone still waits for.
Releases_Wanted(r) == ~reply[r].canceled

(* finished: every worker gives the gate back, wanted or not.              *)
Releases(r) == TRUE

WorkerSettles(r) ==
  /\ thread[r].at = "returned" /\ thread' = [thread EXCEPT ![r].at = "settled"]
  /\ gate' = IF Releases(r) THEN "free" ELSE gate
  /\ chunks' = IF chunks[r] = "closing" THEN [chunks EXCEPT ![r] = "closed"] ELSE chunks
  /\ UNCHANGED <<reply, line, native>>

(* What the worker came to: audio for the client, the end, or an error.    *)
SpeechHeard(r) ==
  /\ reply[r].stage = "working" /\ thread[r].at = "settled"
  /\ LET end == CASE thread[r].got = "audio" /\ r \in Streams -> "telling"
                  [] thread[r].got = "audio" /\ r \in Wholes -> "spoken"
                  [] thread[r].got = "end" -> "spoken"
                  [] OTHER -> "failed"
     IN /\ reply' = [reply EXCEPT ![r] = [stage |-> end, canceled |-> @.canceled \/ end # "telling"]]
        /\ chunks' = IF end = "telling" THEN chunks ELSE [chunks EXCEPT ![r] = "closed"]
  /\ UNCHANGED <<thread, gate, line, native>>

(* Only a client that asks for more has the next piece synthesized.        *)
ChunkRead(r) ==
  /\ reply[r].stage = "telling" /\ reply' = [reply EXCEPT ![r].stage = "admitting"]
  /\ line' = Append(line, r) /\ UNCHANGED <<thread, chunks, gate, native>>

\* Slip: the gate of a client that left is free at once.
GateOfGone_Freed(r) == IF gate = r THEN "free" ELSE gate

GateOfGone(r) == gate

\* Slip: the generator is closed as soon as its reader leaves.
Closed_AtOnce(r) == "closed"

Closed(r) == IF Alive(r) THEN "closing" ELSE "closed"

(* The client is gone: waiting ends at once, native work is only told.     *)
ListenerLeaves(r) ==
  /\ reply[r].stage \in {"admitting", "working", "telling"} /\ ~reply[r].canceled
  /\ reply' = [reply EXCEPT ![r] = [stage |-> IF r \in Wholes /\ @.stage = "working" THEN "working" ELSE "gone",
                                    canceled |-> TRUE]]
  /\ \/ r \notin ToSet(line) /\ UNCHANGED line
     \/ \E i \in DOMAIN line : line[i] = r /\ line' = RemoveAt(line, i)
  /\ gate' = GateOfGone(r)
  /\ chunks' = IF r \in Streams THEN [chunks EXCEPT ![r] = Closed(r)] ELSE chunks
  /\ UNCHANGED <<thread, native>>

SpeechNext ==
  \E r \in Replies :
    \/ SpeechAsked(r) \/ SpeechAdmitted(r) \/ PieceStarts(r) \/ PieceEnds(r) \/ WorkerSettles(r)
    \/ SpeechHeard(r) \/ ChunkRead(r) \/ ListenerLeaves(r)

SpeechSpec == SpeechInit /\ [][SpeechNext]_speechVars

(* The event loop and the threads go on; clients need not. *)
SpeechGoesOn(r) ==
  SpeechAdmitted(r) \/ PieceStarts(r) \/ PieceEnds(r) \/ WorkerSettles(r) \/ SpeechHeard(r)
SpeechFairness == \A r \in Replies : WF_speechVars(SpeechGoesOn(r))

FairSpeechSpec == SpeechSpec /\ SpeechFairness

-----------------------------------------------------------------------------
(* There is never more than one worker, also when clients leave while the  *)
(* native call goes on, and no generator is closed under its worker        *)
(* (voice_api.py 57-58, 96-97).                                            *)
OneVoice ==
  /\ \A q, r \in Replies : Alive(q) /\ Alive(r) => q = r
  /\ \A r \in Replies : Alive(r) => chunks[r] # "closed"

(* Whoever asks gets audio or an error, however many left before them.     *)
ReplyIsSpoken ==
  \A r \in Replies : reply[r].stage = "admitting" ~> reply[r].stage \in {"telling", "spoken", "failed", "gone"}
=============================================================================
