------------------------ MODULE MC_TaskCoordinator ------------------------
\* Model values of the runs of TaskCoordinator, and what they check together.
EXTENDS TaskCoordinator, TLC
CONSTANTS s1, s2, r1, r2, r3

OneSession == {s1}
TwoSessions == {s1, s2}
TwoRequests == {r1, r2}
ThreeRequests == {r1, r2, r3}

\* The request ids are interchangeable, and so are the conversations.
RequestSymmetry == Permutations(Requests) \cup Permutations(Sessions)

(* What the user is told of the work is true: queued work has its place in *)
(* the queue, in order; no result hides an instruction that was accepted   *)
(* and not followed; a repeated request names the task of the first; and   *)
(* cancelled work is free to be deleted (tasks.py 397-439, 540-575,        *)
(* 1085-1150).                                                             *)
WorkIsHonest ==
  QueuedHasPlace /\ QueueFIFO /\ ResultIsHonest /\ NoInstructionMissed /\ RequestOnce /\ CanceledIsFree

(* A deletion or reset leaves no work behind: nothing deleted is queued or *)
(* executed, and a reset that completes has emptied its conversation       *)
(* (tasks.py 346-396).                                                     *)
ResetIsClean == [][NoGhost']_vars /\ ResetEmpties

(* Whatever is asked to stop does: a task, the work of a conversation, the *)
(* process (tasks.py 188-222, 366-396, 540-575).                           *)
StopsEnd == CancelSettles /\ ResetEnds /\ ShutdownEnds

(* What is queued is worked on, also after a restart (tasks.py 143-187,    *)
(* 745-760).                                                               *)
UserIsServed == QueueIsServed /\ ServesAgain

=============================================================================
