---------------------------- MODULE Conversation ----------------------------
(***************************************************************************)
(* The turns of a conversation (session.py, api.py, task_chat.py).  A turn *)
(* holds its session's lock while it retrieves, asks the model and writes; *)
(* the writing is done in a thread that goes on when the client has left.  *)
(* Finished research is written by a thread that never takes that lock,    *)
(* and a reset removes the directory and makes another identity.  What is  *)
(* said is left out: a memory is the pair of the turns its halves are of.  *)
(***************************************************************************)
EXTENDS Naturals, FiniteSets, SequencesExt, Selection

CONSTANTS Turns,
          Finds,          \* results of finished tasks, to be remembered
          Requests,       \* request IDs that clients make up
          Kinds,          \* handlers that serve: "task", "stream", "openai"
          Sessions,       \* identities, each given to one session
          MaxTroubles     \* bound on what goes wrong

ASSUME ConversationAssumption == Turns \cap Finds = {} /\ "reset" \notin Turns /\ "none" \notin Turns \cup Finds

VARIABLES folder,     \* what each session has on disk
          turn,       \* every turn: where it is and what it knows
          line,       \* asyncio.Lock of each session: its holder and those that wait
          find,       \* append_research of each result
          pen,        \* the holder of SessionManager._append_lock
          reset,      \* the running reset: what it has done, and of which session
          dropped,    \* sessions that were reset, whose directory was removed
          work,       \* <<session, request>> that a task was started for
          told,       \* turns whose client was told that the turn is committed
          troubles    \* what went wrong so far: clients that left, failed writes, crashes

conversationVars == <<folder, turn, line, find, pen, reset, dropped, work, told, troubles>>

Nothing == [there |-> FALSE, info |-> FALSE, count |-> 0, memories |-> <<>>, half |-> "none",
            traces |-> {}, summaries |-> <<>>]
Fresh == [Nothing EXCEPT !.there = TRUE, !.info = TRUE]
Unasked == [stage |-> "unasked", home |-> "none", request |-> "none", kind |-> "none",
            knew |-> <<>>, draft |-> "none", remember |-> FALSE]
NoReset == [step |-> "none", home |-> "none"]
Writers == Turns \cup Finds

Thinking == {"retrieved", "delegated", "answering", "repairing", "recovering", "ordering", "acknowledging"}
Writing == {"storing", "askingHalf", "replyingHalf", "savingTrace", "summarizing", "counting"}
Stages == {"unasked", "waiting", "retrieving", "orphan", "ended"} \cup Thinking \cup Writing \cup {"written"}

ConversationTypeOK ==
  /\ \A s \in Sessions :
       /\ folder[s].there \in BOOLEAN /\ folder[s].info \in BOOLEAN /\ folder[s].count \in 0..Cardinality(Turns)
       /\ folder[s].traces \subseteq Turns /\ folder[s].half \in Writers \cup {"none"}
       /\ Range(folder[s].summaries) \subseteq folder[s].traces
  /\ \A t \in Turns : turn[t].stage \in Stages /\ turn[t].draft \in {"none", "prose", "payload"}
  /\ find \in [Finds -> {"ready", "opening", "asking", "replying", "lost", "ended"}]
  /\ pen \in Writers \cup {"none"} /\ dropped \subseteq Sessions /\ told \subseteq Turns

ConversationInit ==
  /\ \E s \in Sessions : folder = [x \in Sessions |-> IF x = s THEN Fresh ELSE Nothing]
  /\ turn = [t \in Turns |-> Unasked] /\ line = [s \in Sessions |-> <<>>]
  /\ find = [f \in Finds |-> "ready"] /\ pen = "none" /\ reset = NoReset
  /\ dropped = {} /\ work = {} /\ told = {}
  /\ troubles = 0

Home(t) == turn[t].home
Holds(s, w) == line[s] # <<>> /\ Head(line[s]) = w
Goes(t, stage) == turn' = [turn EXCEPT ![t].stage = stage]
Unlocked(s) == line' = [line EXCEPT ![s] = Tail(@)]
LineWithout(t) == [line EXCEPT ![Home(t)] = Among(@, Range(@) \ {t})]
OnDisk(s, what) == folder' = [folder EXCEPT ![s] = what]

-----------------------------------------------------------------------------
(* POST /api/chat and /v1/chat/completions: the turn waits for the lock.   *)
TurnAsked(t, s, r, k) ==
  /\ turn[t].stage = "unasked" /\ folder[s].info
  /\ turn' = [turn EXCEPT ![t] = [@ EXCEPT !.stage = "waiting", !.home = s, !.request = r, !.kind = k]]
  /\ line' = [line EXCEPT ![s] = Append(@, t)]
  /\ UNCHANGED <<folder, find, pen, reset, dropped, work, told, troubles>>

(* prepare_turn: a session that is gone is an error, and ends the turn. *)
RetrievalStarts(t) ==
  /\ turn[t].stage = "waiting" /\ Holds(Home(t), t)
  /\ IF folder[Home(t)].info THEN Goes(t, "retrieving") /\ UNCHANGED line
     ELSE Goes(t, "ended") /\ Unlocked(Home(t))
  /\ UNCHANGED <<folder, find, pen, reset, dropped, work, told, troubles>>

(* open_store makes the directory it needs, then the episodes are read. *)
RetrievalEnds(t) ==
  /\ turn[t].stage \in {"retrieving", "orphan"}
  /\ OnDisk(Home(t), [folder[Home(t)] EXCEPT !.there = TRUE])
  /\ turn' = [turn EXCEPT ![t].knew = folder[Home(t)].memories,
                          ![t].stage = IF @ = "orphan" THEN "ended" ELSE "retrieved"]
  /\ UNCHANGED <<line, find, pen, reset, dropped, work, told, troubles>>

-----------------------------------------------------------------------------
(* What the turn is to say: each handler in its own way.                   *)
Settles(t, draft, remember) ==
  turn' = [turn EXCEPT ![t] = [@ EXCEPT !.draft = draft, !.remember = remember /\ draft # "none",
             !.stage = IF draft # "none" /\ remember THEN "storing" ELSE "savingTrace"]]

Thought == UNCHANGED <<folder, line, find, pen, reset, dropped, told, troubles>>

(* _stream_openai and _complete keep what the model says; an error nothing. *)
PlainReply(t) ==
  /\ turn[t].stage = "retrieved" /\ turn[t].kind = "openai"
  /\ \E draft \in {"none", "prose", "payload"} : Settles(t, draft, TRUE)
  /\ Thought /\ UNCHANGED work

(* _stream_turn, first phase: the model replies in its own words, or delegates. *)
FirstPhase(t) ==
  /\ turn[t].stage = "retrieved" /\ turn[t].kind = "stream"
  /\ \/ \E draft \in {"none", "prose"} : Settles(t, draft, TRUE)
     \/ Goes(t, "delegated")
  /\ Thought /\ UNCHANGED work

(* The subagent runs inside the lock; whatever comes of it is handed on.   *)
SubagentEnds(t) ==
  /\ turn[t].stage = "delegated" /\ Goes(t, "answering")
  /\ Thought /\ UNCHANGED work

\* Slip: the second draft is taken for what it is.
Rewritten_Trusted(t) == \E draft \in {"prose", "payload"} : Settles(t, draft, TRUE)

(* One rewrite, and then the answer that is made of the result alone. *)
Rewritten(t) == Settles(t, "prose", TRUE)

SecondPhase(t) ==
  /\ turn[t].stage = "answering"
  /\ \/ \E draft \in {"none", "prose"} : Settles(t, draft, TRUE)
     \/ Goes(t, "repairing")            \* _looks_like_internal_payload
  /\ Thought /\ UNCHANGED work

Repaired(t) ==
  /\ turn[t].stage = "repairing" /\ Rewritten(t)
  /\ Thought /\ UNCHANGED work

(* stream_task_turn: a request that started a task is not carried out      *)
(* again, and a question about files, delivery or progress, or a message   *)
(* for the worker, is answered without the model and not remembered.       *)
Known(t) == <<Home(t), turn[t].request>> \in work

TaskReply(t) ==
  /\ turn[t].stage = "retrieved" /\ turn[t].kind = "task"
  /\ \/ Settles(t, "prose", FALSE)
     \/ ~Known(t) /\ \E draft \in {"none", "prose"} : Settles(t, draft, TRUE)
     \/ ~Known(t) /\ Goes(t, "recovering")       \* a promise of work that was not started
     \/ ~Known(t) /\ Goes(t, "ordering")
  /\ Thought /\ UNCHANGED work

(* The routing is repeated once, with the tools that do work. *)
Recovered(t) ==
  /\ turn[t].stage = "recovering"
  /\ Settles(t, "none", FALSE) \/ Goes(t, "ordering")
  /\ Thought /\ UNCHANGED work

(* run_subagent: the task is saved under the request ID.                   *)
TaskStarted(t) ==
  /\ turn[t].stage = "ordering" /\ Goes(t, "acknowledging")
  /\ work' = work \cup {<<Home(t), turn[t].request>>} /\ Thought

(* _control: a command to a task of this conversation, an answer to what   *)
(* its build or connection asks; or no task fits, and that is the reply.   *)
Commanded(t) ==
  /\ turn[t].stage = "ordering" /\ \E w \in work : w[1] = Home(t)
  /\ Goes(t, "acknowledging") /\ Thought /\ UNCHANGED work

CommandRefused(t) ==
  /\ turn[t].stage = "ordering" /\ Goes(t, "acknowledging")
  /\ Thought /\ UNCHANGED work

(* The reply to what the operation returned; the memory was chosen before. *)
Acknowledged(t) ==
  /\ turn[t].stage = "acknowledging"
  /\ \/ Settles(t, "none", FALSE)
     \/ \E remember \in BOOLEAN : Settles(t, "prose", remember)
  /\ Thought /\ UNCHANGED work

-----------------------------------------------------------------------------
(* commit_turn and save_trace, in a thread; the turn waits for its end.    *)

\* Slip: research that is appended takes no lock.
PenFor_Turns(w) == w \in Finds \/ pen = "none"

PenFor(w) == pen = "none"

Halved(s, w) == [folder[s] EXCEPT !.half = w]
Paired(s, w) == [folder[s] EXCEPT !.half = "none", !.memories = Append(@, [asked |-> folder[s].half, said |-> w])]

StoreOpened(t) ==
  /\ turn[t].stage = "storing" /\ folder[Home(t)].info /\ PenFor(t)
  /\ pen' = t /\ Goes(t, "askingHalf")
  /\ UNCHANGED <<folder, line, find, reset, dropped, work, told, troubles>>

UserAppended(t) ==
  /\ turn[t].stage = "askingHalf" /\ Goes(t, "replyingHalf") /\ OnDisk(Home(t), Halved(Home(t), t))
  /\ UNCHANGED <<line, find, pen, reset, dropped, work, told, troubles>>

AssistantAppended(t) ==
  /\ turn[t].stage = "replyingHalf" /\ Goes(t, "savingTrace") /\ OnDisk(Home(t), Paired(Home(t), t))
  /\ pen' = "none"
  /\ UNCHANGED <<line, find, reset, dropped, work, told, troubles>>

TraceSaved(t) ==
  /\ turn[t].stage = "savingTrace" /\ Goes(t, "summarizing")
  /\ OnDisk(Home(t), [folder[Home(t)] EXCEPT !.there = TRUE, !.traces = @ \cup {t}])
  /\ UNCHANGED <<line, find, pen, reset, dropped, work, told, troubles>>

Summarized(t) ==
  /\ turn[t].stage = "summarizing"
  /\ Goes(t, IF turn[t].remember THEN "counting" ELSE "written")
  /\ OnDisk(Home(t), [folder[Home(t)] EXCEPT !.summaries = Append(@, t)])
  /\ UNCHANGED <<line, find, pen, reset, dropped, work, told, troubles>>

Counted(t) ==
  /\ turn[t].stage = "counting" /\ folder[Home(t)].info /\ Goes(t, "written")
  /\ OnDisk(Home(t), [folder[Home(t)] EXCEPT !.count = @ + 1])
  /\ UNCHANGED <<line, find, pen, reset, dropped, work, told, troubles>>

\* Slip: the error stays in the thread, and the turn goes on.
AfterFailure_Lost(t) == "written"

AfterFailure(t) == "ended"

(* A step of the writing raises; the pen is given back, the steps before it stay. *)
WriteFails(t) ==
  /\ turn[t].stage \in Writing /\ troubles < MaxTroubles
  /\ troubles' = troubles + 1
  /\ Goes(t, AfterFailure(t)) /\ line' = LineWithout(t)
  /\ pen' = IF pen = t THEN "none" ELSE pen
  /\ UNCHANGED <<folder, find, reset, dropped, work, told>>

(* The "done" event, and the end of the lock. *)
TurnDone(t) ==
  /\ turn[t].stage = "written" /\ Goes(t, "ended")
  /\ line' = LineWithout(t)
  /\ told' = IF turn[t].remember THEN told \cup {t} ELSE told
  /\ UNCHANGED <<folder, find, pen, reset, dropped, work, troubles>>

\* Slip: the lock goes with the client, before the writing has ended.
StaysLocked_Not(t) == FALSE

StaysLocked(t) == turn[t].stage \in Writing

(* The client leaves: _ChatResponse cancels the turn.  A turn that writes  *)
(* keeps the lock to its end, the thread of a retrieval goes on alone.     *)
ClientLeaves(t) ==
  /\ turn[t].stage \in {"waiting", "retrieving"} \cup Thinking \cup Writing
  /\ troubles < MaxTroubles /\ troubles' = troubles + 1
  /\ Goes(t, IF turn[t].stage = "retrieving" THEN "orphan"
             ELSE IF turn[t].stage \in Writing THEN turn[t].stage ELSE "ended")
  /\ line' = IF StaysLocked(t) THEN line
             ELSE LineWithout(t)
  /\ UNCHANGED <<folder, find, pen, reset, dropped, work, told>>

-----------------------------------------------------------------------------
(* append_research, on the announcer's thread, of a task of the session s. *)
TheSession == CHOOSE s \in Sessions : s \in dropped \/ folder[s].info
FindHome == IF dropped = {} THEN TheSession ELSE CHOOSE s \in dropped : TRUE

FindOpened(f) ==
  /\ find[f] = "ready" /\ PenFor(f)
  /\ IF folder[FindHome].info THEN pen' = f /\ find' = [find EXCEPT ![f] = "opening"]
     ELSE find' = [find EXCEPT ![f] = "ended"] /\ UNCHANGED pen
  /\ UNCHANGED <<folder, turn, line, reset, dropped, work, told, troubles>>

FindStep(f, from, to, what) ==
  /\ find[f] = from /\ find' = [find EXCEPT ![f] = to] /\ OnDisk(FindHome, what)
  /\ UNCHANGED <<turn, line, reset, dropped, work, told, troubles>>

FindMadeFolder(f) == FindStep(f, "opening", "asking", [folder[FindHome] EXCEPT !.there = TRUE]) /\ UNCHANGED pen
FindAsked(f) == FindStep(f, "asking", "replying", Halved(FindHome, f)) /\ UNCHANGED pen
FindKept(f) == FindStep(f, "replying", "ended", Paired(FindHome, f)) /\ pen' = IF pen = f THEN "none" ELSE pen
FindLost(f) == FindStep(f, "lost", "ended", folder[FindHome]) /\ pen' = IF pen = f THEN "none" ELSE pen

-----------------------------------------------------------------------------
(* POST /reset: under the lock, and on to its end when its client leaves.  *)
ResetAsked(s) ==
  /\ reset = NoReset /\ folder[s].info /\ dropped = {} /\ \E x \in Sessions : x # s
  /\ reset' = [step |-> "waiting", home |-> s] /\ line' = [line EXCEPT ![s] = Append(@, "reset")]
  /\ UNCHANGED <<folder, turn, find, pen, dropped, work, told, troubles>>

(* The task records go first; then rmtree, session.json among the rest.  A *)
(* store that is open then has lost its file.                              *)
FolderRemoved ==
  /\ reset.step = "waiting" /\ Holds(reset.home, "reset")
  /\ work' = {w \in work : w[1] # reset.home}
  /\ OnDisk(reset.home, Nothing) /\ dropped' = dropped \cup {reset.home}
  /\ reset' = [reset EXCEPT !.step = "removed"]
  /\ find' = [f \in Finds |-> IF find[f] \in {"asking", "replying"} THEN "lost" ELSE find[f]]
  /\ UNCHANGED <<turn, line, pen, told, troubles>>

FreshMade ==
  /\ reset.step = "removed"
  /\ \E s \in Sessions \ dropped : OnDisk(s, Fresh)
  /\ Unlocked(reset.home) /\ reset' = NoReset
  /\ UNCHANGED <<turn, find, pen, dropped, work, told, troubles>>

(* The process dies; what is on disk stays, a half among it. *)
CrashOfHost ==
  /\ troubles < MaxTroubles /\ troubles' = troubles + 1
  /\ turn' = [t \in Turns |-> IF turn[t].stage = "unasked" THEN turn[t] ELSE [turn[t] EXCEPT !.stage = "ended"]]
  /\ line' = [s \in Sessions |-> <<>>] /\ pen' = "none" /\ reset' = NoReset
  /\ find' = [f \in Finds |-> IF find[f] = "ready" THEN "ready" ELSE "ended"]
  /\ UNCHANGED <<folder, dropped, work, told>>

ConversationNext ==
  \/ \E t \in Turns :
       \/ \E s \in Sessions, r \in Requests, k \in Kinds : TurnAsked(t, s, r, k)
       \/ RetrievalStarts(t) \/ RetrievalEnds(t) \/ PlainReply(t)
       \/ FirstPhase(t) \/ SubagentEnds(t) \/ SecondPhase(t) \/ Repaired(t)
       \/ TaskReply(t) \/ Recovered(t)
       \/ TaskStarted(t) \/ Commanded(t) \/ CommandRefused(t) \/ Acknowledged(t)
       \/ StoreOpened(t) \/ UserAppended(t) \/ AssistantAppended(t)
       \/ TraceSaved(t) \/ Summarized(t) \/ Counted(t) \/ TurnDone(t)
       \/ WriteFails(t) \/ ClientLeaves(t)
  \/ \E f \in Finds : FindOpened(f) \/ FindMadeFolder(f) \/ FindAsked(f) \/ FindKept(f) \/ FindLost(f)
  \/ \E s \in Sessions : ResetAsked(s)
  \/ FolderRemoved \/ FreshMade \/ CrashOfHost

ConversationSpec == ConversationInit /\ [][ConversationNext]_conversationVars

-----------------------------------------------------------------------------
TurnsOf(memories) == Among(memories, {m \in Range(memories) : m.said \in Turns})

(* No memory pairs the question of one writer with the answer of another,  *)
(* whichever of the turns and the research writes first, fails or is cut   *)
(* off by a crash (session.py 98-101).                                     *)
PairsAreWhole ==
  \A s \in Sessions : \A i \in DOMAIN folder[s].memories :
    folder[s].memories[i].asked = folder[s].memories[i].said

(* A remembered turn was answered from all the turns that are remembered   *)
(* before it and from no later one: its own retrieval never ran beside     *)
(* another turn's writing (session.py 9-15).                               *)
TurnsAreSerial ==
  \A s \in Sessions : LET kept == TurnsOf(folder[s].memories) IN
    \A i \in DOMAIN kept : TurnsOf(turn[kept[i].said].knew) = SubSeq(kept, 1, i - 1)

(* chat_history: the turns of turns.jsonl, in full where the trace is there. *)
History(s) == Among(folder[s].summaries, folder[s].traces)

(* What the client was told is committed is on disk with its trace, its    *)
(* summary and its count, unless the session itself was reset.             *)
ToldIsKept ==
  \A t \in told : Home(t) \in dropped
    \/ /\ \E i \in DOMAIN folder[Home(t)].memories : folder[Home(t)].memories[i].said = t
       /\ t \in Range(History(Home(t)))
       /\ folder[Home(t)].count >= Cardinality({u \in told : Home(u) = Home(t)})

(* The drafts that repeat an internal payload of the subagent or of a task *)
(* are never remembered (api.py 862-864).                                  *)
DraftsStayOut ==
  \A t \in Turns : turn[t].kind # "openai" /\ turn[t].remember => turn[t].draft = "prose"

(* A session that was reset is not made again by a late writer (session.py *)
(* 141-142: its identity is fresh so that nothing repopulates it).         *)
DroppedStaysDropped == \A s \in dropped : folder[s] = Nothing
=============================================================================
