--------------------------- MODULE VoiceListening ---------------------------
(***************************************************************************)
(* The open microphone of one tab (voice_api.py listen, engine/voice.py,   *)
(* engine/whisper_listener.py): audio frames and controls arrive in order, *)
(* the listener wakes, finds where speech begins and ends, and words are   *)
(* recognised at once (Vosk) or by a decoder thread (Whisper) whose result *)
(* is published between the packets.  A frame carries a number and a kind; *)
(* the text of audio is the set of its frames that carry words.            *)
(***************************************************************************)
EXTENDS Integers, FiniteSets, SequencesExt

CONSTANTS MaxFrames, MaxControls, MaxOpens,   \* bounds on what the tab sends
          StartFrames, EndFrames, LongestFrames, DraftFrames, WaitFrames, KeepFrames, WakeFrames
                                              \* lengths, in frames

ASSUME ListeningAssumption ==
  {MaxFrames, MaxControls, MaxOpens, StartFrames, EndFrames, LongestFrames, DraftFrames, WaitFrames,
   KeepFrames, WakeFrames} \subseteq Nat

VARIABLES ear,      \* the listener
          decoder,  \* the task that runs WhisperListener.run
          mic,      \* the socket, and what its tab has sent
          outbox,   \* the events the last step published
          sent,     \* the transcripts published, each the frames of its words
          muted,    \* the tab was told that it is paused, and did not end it
          leftover  \* a native decode of a closed listener still has the model

listeningVars == <<ear, decoder, mic, outbox, sent, muted, leftover>>

FrameKinds == {"quiet", "soft", "loud", "noise", "wake"}
Backends == {"vosk", "whisper"}
NoJob == [audio |-> <<>>, final |-> FALSE, limit |-> FALSE, canceled |-> FALSE, real |-> FALSE]

Worded(audio) == {f \in ToSet(audio) : f.kind \in {"soft", "loud", "wake"}}
LastOf(audio, k) == SubSeq(audio, IF Len(audio) > k THEN Len(audio) - k + 1 ELSE 1, Len(audio))
StateEvent(e) == [type |-> "state", text |-> {}, state |-> e.state]
Event(type, text) == [type |-> type, text |-> text, state |-> "none"]
Sends(e, event) ==
  [e EXCEPT !.out = Append(@, event),
            !.said = IF event.type \in {"transcript", "limit"} THEN Append(@, event.text) ELSE @]

NewEar(backend) ==
  [backend |-> backend, state |-> "waiting", from |-> "waiting", playback |-> FALSE, preroll |-> <<>>,
   dictation |-> FALSE, onset |-> 0, length |-> 0, silence |-> 0, command |-> <<>>, partial |-> {},
   audio |-> <<>>, draftAt |-> 0, finalPending |-> FALSE, job |-> NoJob, running |-> NoJob,
   heard |-> {}, out |-> <<>>, said |-> <<>>]

ResetAttempt(e) ==
  [e EXCEPT !.dictation = FALSE, !.onset = 0, !.length = 0, !.silence = 0, !.command = <<>>,
            !.partial = {}, !.audio = IF e.backend = "vosk" THEN <<>> ELSE @]

\* Slip: the decode that is running is left alone.
Invalidate_JobOnly(e, preserve) ==
  IF e.backend = "vosk" THEN e
  ELSE [e EXCEPT !.job = NoJob, !.finalPending = FALSE,
                 !.audio = IF preserve THEN @ ELSE <<>>, !.draftAt = IF preserve THEN @ ELSE 0]

(* Decodes asked for so far are canceled; their generation is over.        *)
Invalidate(e, preserve) ==
  IF e.backend = "vosk" THEN e
  ELSE [e EXCEPT !.job = NoJob, !.running.canceled = e.running.real, !.finalPending = FALSE,
                 !.audio = IF preserve THEN @ ELSE <<>>, !.draftAt = IF preserve THEN @ ELSE 0]

Woken(e) == [ResetAttempt(Invalidate(e, FALSE)) EXCEPT
               !.preroll = <<>>, !.playback = FALSE, !.state = "waiting"]
Resumed(e) == Sends(Woken(e), StateEvent(Woken(e)))

Muffled(e) == [ResetAttempt(Invalidate(e, FALSE)) EXCEPT
                 !.from = IF e.state = "paused" THEN @ ELSE e.state, !.state = "paused",
                 !.preroll = <<>>]
Paused(e) == Sends(Muffled(e), StateEvent(Muffled(e)))

Unpaused(e) ==
  IF e.state # "paused" THEN Sends(e, StateEvent(e))
  ELSE LET back == [Woken(e) EXCEPT !.state = e.from, !.playback = e.playback]
       IN Sends(back, StateEvent(back))

SetPlayback(e, active) ==
  [e EXCEPT !.playback = active, !.onset = IF active = e.playback THEN @ ELSE 0]

\* Slip: speech that resumes drops what was not sent yet.
Extends_Never(e) == FALSE

(* Speech that resumes before its final was delivered extends the request. *)
Extends(e) == e.finalPending

(* At most one decode waits, and it is the newest; a final does not wait   *)
(* for the draft that runs.                                                *)
Scheduled(e, final, limit) ==
  [e EXCEPT !.job = [audio |-> e.audio, final |-> final, limit |-> limit, canceled |-> FALSE, real |-> TRUE],
            !.running.canceled = @ \/ (final /\ e.running.real)]

Decode(e, pcm) ==
  IF e.backend = "vosk"
  THEN LET all == [e EXCEPT !.audio = @ \o pcm, !.partial = Worded(e.audio \o pcm)]
       IN IF all.partial = e.partial THEN all ELSE Sends(all, Event("partial", all.partial))
  ELSE LET room == LongestFrames - Len(e.audio)
           kept == SubSeq(pcm, 1, IF room < Len(pcm) THEN room ELSE Len(pcm))
           cut == SubSeq(pcm, Len(kept) + 1, Len(pcm))
           all == [e EXCEPT !.audio = @ \o kept, !.length = Len(e.audio \o kept),
                            !.heard = @ \ {cut[i].n : i \in DOMAIN cut}]
       IN IF Len(all.audio) - all.draftAt >= DraftFrames
          THEN Scheduled([all EXCEPT !.draftAt = Len(all.audio)], FALSE, FALSE) ELSE all

(* An utterance cut at its limit is kept for review, never submitted.      *)
Ended(e, limit) ==
  IF e.backend = "vosk"
  THEN LET text == Worded(e.audio)
           clean == ResetAttempt(e)
       IN IF limit /\ text # {}
          THEN Sends(Paused(clean), Event("limit", text))
          ELSE Sends(Sends(clean, StateEvent(clean)), Event(IF text = {} THEN "partial" ELSE "transcript", text))
  ELSE LET asked == ResetAttempt([Scheduled(e, TRUE, limit) EXCEPT !.finalPending = TRUE])
       IN IF limit THEN [asked EXCEPT !.from = "listening", !.state = "paused"] ELSE asked

Sounds(e, f) == f.kind \in {"loud", "noise", "wake"} \/ (f.kind = "soft" /\ ~e.playback)

Onset(e, f) ==
  LET near == [e EXCEPT !.command = LastOf(Append(@, f), KeepFrames), !.onset = IF Sounds(e, f) THEN @ + 1 ELSE 0]
      begun == [Invalidate(near, Extends(near)) EXCEPT !.dictation = TRUE, !.length = Len(near.command)]
  IN IF near.onset < StartFrames THEN near
     ELSE [Decode(Sends(begun, Event("speech_start", {})), near.command) EXCEPT !.command = <<>>]

Within(e, f) ==
  LET all == Decode([e EXCEPT !.length = @ + 1, !.silence = IF f.kind = "quiet" THEN @ + 1 ELSE 0], <<f>>)
      still == all.silence >= EndFrames
      full == all.length >= LongestFrames
      empty == e.backend = "vosk" /\ all.partial = {} /\ all.length >= WaitFrames
  IN IF still \/ full \/ empty THEN Ended(all, full /\ ~still) ELSE all

(* A pause in the middle of a packet drops the rest of it. *)
Frame(e, f) ==
  IF e.state # "listening" THEN e
  ELSE LET on == [e EXCEPT !.heard = IF f.kind = "loud" THEN @ \cup {f.n} ELSE @]
       IN IF on.dictation THEN Within(on, f) ELSE Onset(on, f)

-----------------------------------------------------------------------------
ListeningTypeOK ==
  /\ ear.state \in {"waiting", "listening", "paused"} /\ ear.from \in {"waiting", "listening"}
  /\ ear.backend \in Backends /\ {ear.playback, ear.dictation, ear.finalPending, muted, leftover} \subseteq BOOLEAN
  /\ Len(ear.audio) <= (IF ear.backend = "whisper" THEN LongestFrames ELSE MaxFrames)
  /\ Len(ear.command) <= KeepFrames /\ ear.heard \subseteq 1 .. MaxFrames
  /\ decoder.stage \in {"off", "idle", "decoding", "decoded", "failed"}
  /\ mic.stage \in {"closed", "open"} /\ mic.frames \in 0 .. MaxFrames

ListeningInit ==
  /\ ear \in {NewEar(b) : b \in Backends} /\ decoder = [stage |-> "off", text |-> {}]
  /\ mic = [stage |-> "closed", opens |-> 0, frames |-> 0, controls |-> 0]
  /\ outbox = <<>> /\ sent = <<>> /\ muted = FALSE /\ leftover = FALSE

Published(e) ==
  ear' = [e EXCEPT !.out = <<>>, !.said = <<>>] /\ outbox' = e.out /\ sent' = sent \o e.said

(* The one claim on the microphone; a model that does not load ends it.    *)
MicOpens ==
  /\ mic.stage = "closed" /\ mic.opens < MaxOpens
  /\ mic' = [mic EXCEPT !.stage = "open", !.opens = @ + 1]
  /\ Published(Sends(NewEar(ear.backend), StateEvent(NewEar(ear.backend))))
  /\ decoder' = [decoder EXCEPT !.stage = IF ear.backend = "whisper" THEN "idle" ELSE "off"]
  /\ muted' = FALSE /\ UNCHANGED leftover

(* A bad packet, an error, or the tab going: the decoder task is canceled, *)
(* but its thread has the model until it notices.                          *)
MicCloses ==
  /\ mic.stage = "open" /\ mic' = [mic EXCEPT !.stage = "closed"]
  /\ ear' = ResetAttempt(Invalidate([ear EXCEPT !.preroll = <<>>, !.heard = {}], FALSE))
  /\ leftover' = (leftover \/ decoder.stage = "decoding")
  /\ decoder' = [stage |-> "off", text |-> {}] /\ outbox' = <<>> /\ muted' = FALSE /\ UNCHANGED sent

(* feed *)
FrameArrives(kind, spotted, ended) ==
  /\ mic.stage = "open" /\ mic.frames < MaxFrames /\ mic' = [mic EXCEPT !.frames = @ + 1]
  /\ LET f == [n |-> mic.frames + 1, kind |-> kind]
         near == LastOf(Append(ear.preroll, f), WakeFrames)
         phrase == {i \in DOMAIN near : near[i].kind = "wake"}
     IN CASE ear.state = "paused" -> ~spotted /\ ~ended /\ Published(ear)
          [] ear.state = "listening" -> ~spotted /\ ~ended /\ Published(Frame(ear, f))
          [] ear.state = "waiting" ->
               /\ spotted => phrase # {}
               /\ spotted => ~ended
               /\ IF spotted
                  THEN LET awake == [ear EXCEPT !.state = "listening", !.preroll = <<>>]
                           at == CHOOSE i \in phrase : \A j \in phrase : i <= j
                       IN Published(FoldLeft(Frame, Sends(awake, StateEvent(awake)), SubSeq(near, at + 1, Len(near))))
                  ELSE IF ended THEN Published(Woken(ear)) ELSE Published([ear EXCEPT !.preroll = near])
  /\ UNCHANGED <<decoder, muted, leftover>>

(* Controls are handled, and their acknowledgement sent, under the lock.   *)
ControlArrives(control) ==
  /\ mic.stage = "open" /\ mic.controls < MaxControls /\ mic' = [mic EXCEPT !.controls = @ + 1]
  /\ LET own == [ear EXCEPT !.heard = {}]
     IN Published(CASE control = "pause" -> Paused(own) [] control = "unpause" -> Unpaused(own)
                    [] control = "resume" -> Resumed(own) [] control = "playing" -> SetPlayback(ear, TRUE)
                    [] control = "played" -> SetPlayback(ear, FALSE))
  /\ muted' = CASE control = "pause" -> TRUE [] control \in {"unpause", "resume"} -> FALSE [] OTHER -> muted
  /\ UNCHANGED <<decoder, leftover>>

-----------------------------------------------------------------------------
(* _take_job *)
DecoderTakes ==
  /\ decoder.stage = "idle" /\ ear.job.real
  /\ ear' = [ear EXCEPT !.running = ear.job, !.job = NoJob] /\ outbox' = <<>>
  /\ decoder' = [decoder EXCEPT !.stage = "decoding"] /\ UNCHANGED <<mic, sent, muted, leftover>>

(* transcribe: it waits for the model, looks at canceled between segments, *)
(* and may fail.                                                           *)
DecoderEnds ==
  /\ decoder.stage = "decoding"
  /\ \/ ear.running.canceled /\ decoder' = [decoder EXCEPT !.stage = "idle"]
     \/ ~leftover /\ decoder' = [stage |-> "decoded", text |-> Worded(ear.running.audio)]
     \/ ~leftover /\ decoder' = [decoder EXCEPT !.stage = "failed"]
  /\ outbox' = <<>> /\ UNCHANGED <<ear, mic, sent, muted, leftover>>

LeftoverEnds ==
  leftover /\ leftover' = FALSE /\ outbox' = <<>> /\ UNCHANGED <<ear, decoder, mic, sent, muted>>

\* Slip: what was decoded is published even when it was canceled meanwhile.
Outdated_Never(job) == FALSE

(* Canceled, or of an older generation. *)
Outdated(job) == job.canceled

Completed(e, text) ==
  LET job == e.running
      free == [e EXCEPT !.running = NoJob]
      all == [free EXCEPT !.finalPending = FALSE, !.audio = <<>>, !.draftAt = 0]
      awake == [all EXCEPT !.state = "listening"]
  IN CASE Outdated(job) -> free
       [] ~Outdated(job) /\ ~job.final -> IF text = e.partial THEN free
                                          ELSE Sends([free EXCEPT !.partial = text], Event("partial", text))
       [] ~Outdated(job) /\ job.final /\ job.limit /\ text # {} ->
            Sends(Sends(all, StateEvent(all)), Event("limit", text))
       [] OTHER -> Sends(Sends(awake, StateEvent(awake)), Event(IF text = {} THEN "partial" ELSE "transcript", text))

(* _complete and its events, under the lock that controls take too.        *)
DecoderPublishes ==
  /\ decoder.stage = "decoded" /\ Published(Completed(ear, decoder.text))
  /\ decoder' = [stage |-> "idle", text |-> {}] /\ UNCHANGED <<mic, muted, leftover>>

(* A failure that nobody canceled ends the listener and its socket.        *)
DecoderFails ==
  /\ decoder.stage = "failed"
  /\ IF Outdated(ear.running)
     THEN decoder' = [decoder EXCEPT !.stage = "idle"] /\ outbox' = <<>> /\ UNCHANGED <<ear, mic, muted>>
     ELSE /\ ear' = ResetAttempt(Invalidate([ear EXCEPT !.preroll = <<>>, !.heard = {}], FALSE))
          /\ decoder' = [decoder EXCEPT !.stage = "off"] /\ mic' = [mic EXCEPT !.stage = "closed"]
          /\ outbox' = <<Event("error", {})>> /\ muted' = FALSE
  /\ UNCHANGED <<sent, leftover>>

Controls == {"pause", "unpause", "resume", "playing", "played"}

ListeningNext ==
  \/ MicOpens \/ MicCloses
  \/ \E kind \in FrameKinds, spotted, ended \in BOOLEAN : FrameArrives(kind, spotted, ended)
  \/ \E control \in Controls : ControlArrives(control)
  \/ DecoderTakes \/ DecoderEnds \/ LeftoverEnds \/ DecoderPublishes \/ DecoderFails

ListeningSpec == ListeningInit /\ [][ListeningNext]_listeningVars

-----------------------------------------------------------------------------
(* After the tab was told it is muted, none of what was said appears: no   *)
(* decode that was under way ends up as text (voice_api.py 262-263).       *)
MutedIsSilent ==
  [][muted /\ muted' =>
       \A i \in DOMAIN outbox' : outbox'[i].type \notin {"partial", "transcript", "limit", "speech_start"}]_listeningVars

WordsOf(frames) == {f.n : f \in frames}
Unsent == WordsOf(ToSet(ear.audio) \cup ToSet(ear.command))

(* Every word clearly spoken to an open microphone is submitted once and   *)
(* in order, or still held; speech that goes on before its text was sent   *)
(* extends it (whisper_listener.py 77-78).  Only the user drops words, by  *)
(* a control, and the length limit cuts the last ones.                     *)
WordsArriveOnce ==
  /\ \A i, j \in DOMAIN sent : i < j => \A a \in WordsOf(sent[i]), b \in WordsOf(sent[j]) : a < b
  /\ \A n \in ear.heard : n \in Unsent \/ (\E i \in DOMAIN sent : n \in WordsOf(sent[i]))
=============================================================================
