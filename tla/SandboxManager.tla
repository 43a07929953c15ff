--------------------------- MODULE SandboxManager ---------------------------
(***************************************************************************)
(* The one warm sandbox and the delegated calls that take turns in it      *)
(* (engine/sandbox/manager.py), with the part of the runner that owns a    *)
(* call's lease (engine/sandbox/runner.py: run, run_continuous and their   *)
(* clean-up).  call[c].at is the await where a call is; between two awaits *)
(* nothing interleaves.  What native workers do is in `native`: the pairs  *)
(* of a container and a call whose session executes there.                 *)
(***************************************************************************)
EXTENDS Naturals, FiniteSets

CONSTANTS Calls,      \* the delegated calls
          WholeRuns,  \* those made by `run`, which hold the model for the whole call
          MaxSpawns,  \* containers that can be started
          MaxCuts,    \* cancellations a call can be sent
          MaxCrashes  \* deaths of the process

Handles == 1..MaxSpawns
Nobody == "nobody"

(* Each call is an object of its own, none of which keeps the sandbox. *)
ASSUME SandboxAssumption ==
  /\ {Nobody, "teardown", "force", "reaper"} \cap Calls = {} /\ WholeRuns \subseteq Calls
  /\ MaxSpawns \in Nat /\ MaxCuts \in Nat /\ MaxCrashes \in Nat

VARIABLES call,       \* of each call: where it is, whether its clean-up began, whether that can
                      \* be cancelled (the shield is spent), whether it is suspended on
                      \* _lifecycle_lock, the handle of its invocation, and (history) whether
                      \* its stop was cut short
          cuts,       \* cancellations delivered to each call
          lock,       \* who holds _invocation_lock, _model_slot and _lifecycle_lock
          handle,     \* _handle, 0 when there is none
          active,     \* _active
          spawned,    \* handles made so far
          box,        \* of each handle: container up, `docker run` alive, quarantined
          marker,     \* execution-quarantine.json exists
          native,     \* sessions that execute
          scratch,    \* calls with files in the workspace
          force, reap, closer,   \* force_stop_active, _reap, teardown
          crashes

desk == <<handle, active, spawned>>
world == <<box, marker, native>>
keepers == <<force, reap, closer, crashes>>
stewards == <<keepers, cuts>>
sandboxVars == <<call, lock, desk, world, scratch, stewards>>

Stages == {"out", "queue", "slot", "begin", "ensure", "mend", "spawn", "unspawn", "clear", "post",
           "unpost", "restore", "run", "quiet", "abort", "stop", "checkpoint", "save", "fin",
           "delete", "drop", "scrub", "over"}

SandboxTypeOK ==
  /\ call \in [Calls -> [at : Stages, ending : BOOLEAN, loose : BOOLEAN, parked : BOOLEAN,
                         of : 0..MaxSpawns, torn : BOOLEAN]]
  /\ cuts \in [Calls -> 0..MaxCuts]
  /\ lock \in [lease : Calls \cup {Nobody, "teardown"}, slot : Calls \cup {Nobody},
               life : Calls \cup {Nobody, "teardown", "force", "reaper"}]
  /\ handle \in 0..MaxSpawns /\ active \in Calls \cup {Nobody} /\ spawned \in 0..MaxSpawns
  /\ box \in [Handles -> [up : BOOLEAN, client : BOOLEAN, quarantined : BOOLEAN]]
  /\ marker \in BOOLEAN /\ native \subseteq Handles \X Calls /\ scratch \subseteq Calls
  /\ force \in [stage : {"idle", "stop", "fin", "scrub", "done"}, box : 0..MaxSpawns,
                call : Calls \cup {Nobody}]
  /\ reap \in 0..MaxSpawns /\ closer \in {"no", "lease", "life", "stop", "over"}
  /\ crashes \in 0..MaxCrashes

NewCall == [at |-> "out", ending |-> FALSE, loose |-> FALSE, parked |-> FALSE, of |-> 0,
            torn |-> FALSE]
NoForce == [stage |-> "idle", box |-> 0, call |-> Nobody]

SandboxInit ==
  /\ call = [c \in Calls |-> NewCall] /\ cuts = [c \in Calls |-> 0]
  /\ lock = [lease |-> Nobody, slot |-> Nobody, life |-> Nobody]
  /\ handle = 0 /\ active = Nobody /\ spawned = 0
  /\ box = [h \in Handles |-> [up |-> FALSE, client |-> FALSE, quarantined |-> FALSE]]
  /\ marker = FALSE /\ native = {} /\ scratch = {}
  /\ force = NoForce /\ reap = 0 /\ closer = "no" /\ crashes = 0

At(c, stage) == call[c].at = stage
Go(c, stage) == call' = [call EXCEPT ![c].at = stage]

(***************************************************************************)
(* _lifecycle_lock.  An asyncio lock that is free and has no waiter is     *)
(* taken without suspending; otherwise the caller parks.                   *)
(***************************************************************************)
LifeWaiters == {c \in Calls : call[c].parked}
LifeIsFree == lock.life = Nobody /\ LifeWaiters = {}

Park(c) ==
  /\ call[c].at \in {"begin", "quiet", "fin"} /\ ~call[c].parked /\ ~LifeIsFree
  /\ call' = [call EXCEPT ![c].parked = TRUE]
  /\ UNCHANGED <<lock, desk, world, scratch, stewards>>

EntersLife(c) == lock.life = Nobody /\ (call[c].parked \/ LifeWaiters = {})

(* Take the lock and go to a stage; leave it and go to one. *)
HoldLife(c, stage) ==
  /\ lock' = [lock EXCEPT !.life = c]
  /\ call' = [call EXCEPT ![c].at = stage, ![c].parked = FALSE]

LeaveLife(c, stage) == lock' = [lock EXCEPT !.life = Nobody] /\ Go(c, stage)

Without(c) == [lease |-> IF lock.lease = c THEN Nobody ELSE lock.lease,
               slot |-> IF lock.slot = c THEN Nobody ELSE lock.slot,
               life |-> IF lock.life = c THEN Nobody ELSE lock.life]

(***************************************************************************)
(* _shutdown(h): `docker rm --force`, then the kill of the client.  If     *)
(* both end well the container is gone, otherwise anything may be left.    *)
(* A strict caller quarantines the workspace in that case.                 *)
(***************************************************************************)
Alive(h) == h # 0 /\ box[h].client

Stopped(h, u, k, q) ==
  /\ box' = [box EXCEPT ![h] = [up |-> u, client |-> k, quarantined |-> q]]
  /\ native' = {p \in native : u \/ p[1] # h}

ShutDown(h) ==
  /\ \E u \in {FALSE, box[h].up}, k \in {FALSE, box[h].client} : Stopped(h, u, k, box[h].quarantined)
  /\ UNCHANGED marker

StopConfirmed(h) == Stopped(h, FALSE, FALSE, box[h].quarantined) /\ UNCHANGED marker

\* Slip: nothing is written down.
StopQuarantined_Unmarked(h) ==
  /\ \E u \in {FALSE, box[h].up}, k \in {FALSE, box[h].client} : Stopped(h, u, k, TRUE)
  /\ UNCHANGED marker

StopQuarantined(h) ==
  /\ \E u \in {FALSE, box[h].up}, k \in {FALSE, box[h].client} : Stopped(h, u, k, TRUE)
  /\ marker' = TRUE

(***************************************************************************)
(* begin_invocation, with _ensure_locked and _spawn.                       *)
(***************************************************************************)
LeaseWaiters == {c \in Calls : At(c, "queue")}
FirstLock(c) == IF c \in WholeRuns THEN "slot" ELSE "begin"

Called(c) ==
  /\ At(c, "out") /\ closer = "no" /\ force.stage = "idle"
  /\ IF lock.lease = Nobody /\ LeaseWaiters = {}
     THEN lock' = [lock EXCEPT !.lease = c] /\ Go(c, FirstLock(c))
     ELSE UNCHANGED lock /\ Go(c, "queue")
  /\ UNCHANGED <<desk, world, scratch, stewards>>

LeaseAcquired(c) ==
  /\ At(c, "queue") /\ lock.lease = Nobody
  /\ lock' = [lock EXCEPT !.lease = c] /\ Go(c, FirstLock(c))
  /\ UNCHANGED <<desk, world, scratch, stewards>>

SlotAcquired(c) ==
  /\ At(c, "slot") /\ lock.slot = Nobody
  /\ lock' = [lock EXCEPT !.slot = c] /\ Go(c, "begin")
  /\ UNCHANGED <<desk, world, scratch, stewards>>

LifeAcquired(c) ==
  /\ At(c, "begin") /\ EntersLife(c) /\ HoldLife(c, "ensure")
  /\ UNCHANGED <<desk, world, scratch, stewards>>

(* begin_invocation raises: the call returns every lock it has. *)
Refused(c) == call' = [call EXCEPT ![c].at = "over", ![c].parked = FALSE] /\ lock' = Without(c)

EnsureLocked(c) ==
  /\ At(c, "ensure")
  /\ IF marker THEN Refused(c)
     ELSE /\ call' = [call EXCEPT ![c].of = handle, ![c].at = IF Alive(handle) THEN "clear"
                                     ELSE IF handle # 0 THEN "mend" ELSE "spawn"]
          /\ UNCHANGED lock
  /\ UNCHANGED <<desk, world, scratch, stewards>>

DeadHandleStopped(c) ==
  /\ At(c, "mend") /\ ShutDown(call[c].of) /\ Go(c, "spawn")
  /\ UNCHANGED <<lock, desk, scratch, stewards>>

(* Docker is missing, its engine does not answer or runs no Linux containers, or the
   launch cannot be built or executed: no container is started. *)
SpawnImpossible(c) ==
  /\ At(c, "spawn") /\ Refused(c)
  /\ UNCHANGED <<desk, world, scratch, stewards>>

(* A container starts.  It becomes the warm handle when it is healthy and its inspection
   matches the launch; else it is shut down again. *)
Spawned(c) ==
  /\ At(c, "spawn") /\ spawned < MaxSpawns
  /\ spawned' = spawned + 1
  /\ box' = [box EXCEPT ![spawned'] = [up |-> TRUE, client |-> TRUE, quarantined |-> FALSE]]
  /\ \E healthy \in BOOLEAN :
       /\ handle' = IF healthy THEN spawned' ELSE handle
       /\ call' = [call EXCEPT ![c].of = spawned', ![c].at = IF healthy THEN "clear" ELSE "unspawn"]
  /\ UNCHANGED <<lock, active, marker, native, scratch, stewards>>

UnspawnEnds(c) ==
  /\ At(c, "unspawn") /\ ShutDown(call[c].of) /\ Refused(c)
  /\ UNCHANGED <<desk, scratch, stewards>>

\* Slip: the workspace is taken as it is.
Cleared_Not(c) == At(c, "clear") /\ Go(c, "post") /\ UNCHANGED <<lock, desk, world, scratch, stewards>>

(* _scrub_workspace before a call; an entry that cannot be deleted fails the call. *)
Cleared(c) ==
  /\ At(c, "clear")
  /\ \/ scratch' = {} /\ Go(c, "post") /\ UNCHANGED lock
     \/ (\E left \in SUBSET scratch : scratch' = left) /\ Refused(c)
  /\ UNCHANGED <<desk, world, stewards>>

(* POST /session: the fresh session becomes the active invocation. *)
SessionCreated(c) ==
  /\ At(c, "post") /\ box[call[c].of].up
  /\ active' = c
  /\ LeaveLife(c, IF c \in WholeRuns THEN "run" ELSE "restore")
  /\ UNCHANGED <<handle, spawned, world, scratch, stewards>>

SessionFails(c) ==
  /\ At(c, "post") /\ Go(c, "unpost") /\ handle' = 0
  /\ UNCHANGED <<lock, active, spawned, world, scratch, stewards>>

UnpostEnds(c) ==
  /\ At(c, "unpost") /\ ShutDown(call[c].of) /\ Refused(c)
  /\ UNCHANGED <<desk, scratch, stewards>>

(***************************************************************************)
(* The call owns the sandbox.  Its clean-up is a task of its own, shielded *)
(* from the first cancellation that arrives while it runs.                 *)
(***************************************************************************)
Session(c) == <<call[c].of, c>>

CleanUp(c, torn) ==
  call' = [call EXCEPT ![c].at = IF c \in WholeRuns THEN "abort" ELSE "quiet", ![c].ending = TRUE,
                       ![c].parked = FALSE, ![c].torn = @ \/ torn]

Restored(c) ==
  /\ At(c, "restore")
  /\ scratch' = scratch \cup {c} /\ (Go(c, "run") \/ CleanUp(c, FALSE))
  /\ UNCHANGED <<lock, desk, world, stewards>>

(* A message is posted to the session: the delegation, an update, a reminder. *)
Prompted(c) ==
  /\ At(c, "run") /\ box[call[c].of].up
  /\ native' = native \cup {Session(c)}
  /\ UNCHANGED <<call, lock, desk, box, marker, scratch, stewards>>

(* The run is over (a whole run that completed needs no abort), or it must first stop the
   native work to steer, to resume or to save a checkpoint. *)
RunEnds(c) ==
  /\ At(c, "run")
  /\ \/ CleanUp(c, FALSE)
     \/ c \in WholeRuns /\ call' = [call EXCEPT ![c].at = "fin", ![c].ending = TRUE]
     \/ c \notin WholeRuns /\ Go(c, "quiet")
  /\ UNCHANGED <<lock, desk, world, scratch, stewards>>

(* quiesce_invocation: it returns at once if the invocation is not the active one or its
   handle has been given up. *)
AfterQuiet(c) == IF call[c].ending THEN {"save"} ELSE {"run", "checkpoint"}

QuiesceEntered(c) ==
  /\ At(c, "quiet") /\ EntersLife(c)
  /\ IF active = c /\ handle = call[c].of
     THEN HoldLife(c, "abort")
     ELSE /\ \E next \in AfterQuiet(c) : call' = [call EXCEPT ![c].at = next, ![c].parked = FALSE]
          /\ UNCHANGED lock
  /\ UNCHANGED <<desk, world, scratch, stewards>>

QuiesceAborts(c) ==
  /\ At(c, "abort") /\ c \notin WholeRuns
  /\ \/ /\ box[call[c].of].up /\ native' = native \ {Session(c)}
        /\ \E next \in AfterQuiet(c) : LeaveLife(c, next)
        /\ UNCHANGED handle
     \/ handle' = 0 /\ Go(c, "stop") /\ UNCHANGED <<lock, native>>
  /\ UNCHANGED <<active, spawned, box, marker, scratch, stewards>>

StrictStopEnds(c) ==
  /\ At(c, "stop")
  /\ \/ StopConfirmed(call[c].of) /\ \E next \in AfterQuiet(c) : LeaveLife(c, next)
     \/ /\ StopQuarantined(call[c].of)
        /\ lock' = [lock EXCEPT !.life = Nobody]
        /\ IF call[c].ending THEN Go(c, "fin") ELSE CleanUp(c, FALSE)
  /\ UNCHANGED <<desk, scratch, stewards>>

Checkpointed(c) ==
  /\ At(c, "checkpoint") /\ (Go(c, "run") \/ CleanUp(c, FALSE))
  /\ UNCHANGED <<lock, desk, world, scratch, stewards>>

Saved(c) ==
  /\ At(c, "save") /\ Go(c, "fin")
  /\ UNCHANGED <<lock, desk, world, scratch, stewards>>

(* _cleanup_invocation of a whole run: an abort that fails is ignored. *)
WholeAborts(c) ==
  /\ At(c, "abort") /\ c \in WholeRuns /\ Go(c, "fin")
  /\ (box[call[c].of].up /\ native' = native \ {Session(c)}) \/ UNCHANGED native
  /\ UNCHANGED <<lock, desk, box, marker, scratch, stewards>>

(***************************************************************************)
(* finish_invocation                                                       *)
(***************************************************************************)
\* Slip: a quarantined call keeps its lease.
GiveUp_Keeps(c) ==
  /\ active' = Nobody
  /\ IF box[call[c].of].quarantined
     THEN call' = [call EXCEPT ![c].at = "over", ![c].parked = FALSE] /\ UNCHANGED lock
     ELSE HoldLife(c, "scrub")

(* Its inner `finally`: nobody is active, the workspace is scrubbed unless it is
   quarantined, and the locks are returned. *)
GiveUp(c) ==
  /\ active' = Nobody
  /\ IF box[call[c].of].quarantined THEN Refused(c)
     ELSE HoldLife(c, "scrub")

FinishEntered(c) ==
  /\ At(c, "fin") /\ EntersLife(c)
  /\ CASE active # c -> /\ call' = [call EXCEPT ![c].at = "over", ![c].parked = FALSE]
                        /\ UNCHANGED <<lock, active>>
       [] active = c /\ handle = call[c].of -> HoldLife(c, "delete") /\ UNCHANGED active
       [] active = c /\ handle # call[c].of -> GiveUp(c)
  /\ UNCHANGED <<handle, spawned, world, scratch, stewards>>

SessionDeleted(c) ==
  /\ At(c, "delete")
  /\ \/ (box[call[c].of].up \/ c \in WholeRuns) /\ GiveUp(c) /\ UNCHANGED handle
     \/ c \notin WholeRuns /\ handle' = 0 /\ Go(c, "drop") /\ UNCHANGED <<active, lock>>
  /\ UNCHANGED <<spawned, world, scratch, stewards>>

Dropped(c) ==
  /\ At(c, "drop") /\ ShutDown(call[c].of) /\ GiveUp(c)
  /\ UNCHANGED <<handle, spawned, scratch, stewards>>

(* An entry that cannot be deleted is left to the next scrub. *)
Scrubbed(c) ==
  /\ At(c, "scrub") /\ Refused(c)
  /\ \E left \in SUBSET scratch : scratch' = left
  /\ UNCHANGED <<desk, world, stewards>>

(***************************************************************************)
(* A cancellation reaches the call at the await where it is.               *)
(***************************************************************************)
CutBegin(c) ==
  /\ \/ call[c].at \in {"queue", "slot", "post"} \/ (At(c, "begin") /\ call[c].parked)
  /\ Refused(c) /\ UNCHANGED <<desk, world, scratch>>

CutStart(c) ==
  \/ /\ call[c].at \in {"mend", "unspawn", "unpost"} /\ ShutDown(call[c].of) /\ Refused(c)
     /\ UNCHANGED <<desk, scratch>>
  \/ /\ At(c, "clear") /\ Refused(c) /\ \E left \in SUBSET scratch : scratch' = left
     /\ UNCHANGED <<desk, world>>
  \/ At(c, "spawn") /\ Refused(c) /\ UNCHANGED <<desk, world, scratch>>
  \/ /\ At(c, "spawn") /\ spawned < MaxSpawns /\ spawned' = spawned + 1
     /\ box' = [box EXCEPT ![spawned'] = [up |-> TRUE, client |-> TRUE, quarantined |-> FALSE]]
     /\ call' = [call EXCEPT ![c].at = "unspawn", ![c].of = spawned']
     /\ UNCHANGED <<lock, handle, active, marker, native, scratch>>

(* The run is left: what it was awaiting, a strict stop included, is given up. *)
CutRun(c) ==
  /\ ~call[c].ending
  /\ \/ call[c].at \in {"restore", "run", "checkpoint"} \/ (At(c, "quiet") /\ call[c].parked)
     \/ call[c].at \in {"abort", "stop"}
  /\ CleanUp(c, call[c].at \in {"abort", "stop"})
  /\ lock' = [lock EXCEPT !.life = IF @ = c THEN Nobody ELSE @]
  /\ IF At(c, "stop") THEN ShutDown(call[c].of) ELSE UNCHANGED world
  /\ UNCHANGED <<desk, scratch>>

CutShield(c) ==
  /\ call[c].ending /\ ~call[c].loose /\ ~At(c, "over")
  /\ call' = [call EXCEPT ![c].loose = TRUE]
  /\ UNCHANGED <<lock, desk, world, scratch>>

(* finish() still runs finish_invocation; _cleanup_invocation of a whole run does not. *)
CutCleanUp(c) ==
  /\ call[c].loose
  /\ \/ /\ At(c, "save") \/ (At(c, "quiet") /\ call[c].parked) \/ (At(c, "abort") /\ c \notin WholeRuns)
           \/ At(c, "stop")
        /\ call' = [call EXCEPT ![c].at = "fin", ![c].parked = FALSE, ![c].torn = @ \/ ~At(c, "save")]
        /\ lock' = [lock EXCEPT !.life = IF @ = c THEN Nobody ELSE @]
        /\ IF At(c, "stop") THEN ShutDown(call[c].of) ELSE UNCHANGED world
        /\ UNCHANGED <<desk, scratch>>
     \/ /\ (At(c, "abort") /\ c \in WholeRuns) \/ (At(c, "fin") /\ call[c].parked)
        /\ call' = [call EXCEPT ![c].at = "over", ![c].parked = FALSE]
        /\ UNCHANGED <<lock, desk, world, scratch>>
     \/ At(c, "delete") /\ GiveUp(c) /\ UNCHANGED <<handle, spawned, world, scratch>>
     \/ At(c, "drop") /\ ShutDown(call[c].of) /\ GiveUp(c) /\ UNCHANGED <<handle, spawned, scratch>>
     \/ /\ At(c, "scrub") /\ Refused(c) /\ UNCHANGED <<desk, world>>
        /\ \E left \in SUBSET scratch : scratch' = left

Cut(c) ==
  /\ cuts[c] < MaxCuts
  /\ cuts' = [cuts EXCEPT ![c] = @ + 1]
  /\ CutBegin(c) \/ CutStart(c) \/ CutRun(c) \/ CutShield(c) \/ CutCleanUp(c)
  /\ UNCHANGED keepers

(***************************************************************************)
(* force_stop_active, _reap, teardown.                                     *)
(***************************************************************************)
(* The coordinator's close (tasks.py), which starts no more work and cancelled what waited
   for the sandbox, found a worker that did not end. *)
ForceStarts ==
  /\ force.stage = "idle" /\ LeaseWaiters = {}
  /\ LET target == IF active # Nobody THEN call[active].of ELSE handle IN
       target # 0 /\ force' = [stage |-> "stop", box |-> target, call |-> active]
  /\ UNCHANGED <<call, lock, desk, world, scratch, reap, closer, crashes, cuts>>

ForceStopped ==
  /\ force.stage = "stop"
  /\ StopConfirmed(force.box) \/ StopQuarantined(force.box)
  /\ handle' = IF handle = force.box THEN 0 ELSE handle
  /\ force' = [force EXCEPT !.stage = IF force.call = Nobody THEN "done" ELSE "fin"]
  /\ UNCHANGED <<call, lock, active, spawned, scratch, reap, closer, crashes, cuts>>

(* Its finish_invocation: the handle has been given up, so no session is deleted. *)
ForceFinishes ==
  /\ force.stage = "fin" /\ lock.life = Nobody
  /\ LET over == active # force.call \/ box[force.box].quarantined IN
       /\ force' = [force EXCEPT !.stage = IF over THEN "done" ELSE "scrub"]
       /\ lock' = IF active # force.call THEN lock
                  ELSE IF over THEN Without(force.call) ELSE [lock EXCEPT !.life = "force"]
       /\ active' = IF active = force.call THEN Nobody ELSE active
  /\ UNCHANGED <<call, handle, spawned, world, scratch, reap, closer, crashes, cuts>>

ForceScrubbed ==
  /\ force.stage = "scrub" /\ force' = [force EXCEPT !.stage = "done"]
  /\ lock' = [Without(force.call) EXCEPT !.life = Nobody]
  /\ \E left \in SUBSET scratch : scratch' = left
  /\ UNCHANGED <<call, desk, world, reap, closer, crashes, cuts>>

Busy == active # Nobody /\ call[active].of = handle

ReapStarts ==
  /\ lock.life = Nobody /\ closer = "no" /\ Alive(handle) /\ ~Busy
  /\ lock' = [lock EXCEPT !.life = "reaper"] /\ reap' = handle /\ handle' = 0
  /\ UNCHANGED <<call, active, spawned, world, scratch, force, closer, crashes, cuts>>

ReapEnds ==
  /\ lock.life = "reaper" /\ ShutDown(reap)
  /\ lock' = [lock EXCEPT !.life = Nobody] /\ reap' = 0
  /\ UNCHANGED <<call, desk, scratch, force, closer, crashes, cuts>>

(* close_all: the reaper is cancelled where it is, then teardown asks for both locks. *)
CloseAll ==
  /\ closer = "no" /\ closer' = "lease"
  /\ IF lock.life = "reaper"
     THEN ShutDown(reap) /\ lock' = [lock EXCEPT !.life = Nobody]
     ELSE UNCHANGED <<lock, world>>
  /\ reap' = 0
  /\ UNCHANGED <<call, desk, scratch, force, crashes, cuts>>

TeardownLocks ==
  \/ /\ closer = "lease" /\ lock.lease = Nobody /\ LeaseWaiters = {}
     /\ closer' = "life" /\ lock' = [lock EXCEPT !.lease = "teardown"]
     /\ UNCHANGED <<call, desk, world, scratch, force, reap, crashes, cuts>>
  \/ /\ closer = "life" /\ lock.life = Nobody
     /\ IF handle = 0
        THEN closer' = "over" /\ lock' = Without("teardown") /\ UNCHANGED <<reap, handle>>
        ELSE /\ closer' = "stop" /\ lock' = [lock EXCEPT !.life = "teardown"]
             /\ reap' = handle /\ handle' = 0
     /\ UNCHANGED <<call, active, spawned, world, scratch, force, crashes, cuts>>

TornDown ==
  /\ closer = "stop" /\ closer' = "over" /\ reap' = 0
  /\ ShutDown(reap) /\ lock' = Without("teardown")
  /\ UNCHANGED <<call, desk, scratch, force, crashes, cuts>>

(***************************************************************************)
(* The containers, and the death of the process, which they may survive.   *)
(***************************************************************************)
NativeWrites(h, c) ==
  /\ <<h, c>> \in native /\ scratch' = scratch \cup {c}
  /\ UNCHANGED <<call, lock, desk, world, stewards>>

NativeEnds(h, c) ==
  /\ <<h, c>> \in native /\ native' = native \ {<<h, c>>}
  /\ UNCHANGED <<call, lock, desk, box, marker, scratch, stewards>>

BoxDies(h) ==
  /\ box[h].up /\ Stopped(h, FALSE, FALSE, box[h].quarantined)
  /\ UNCHANGED <<call, lock, desk, marker, scratch, stewards>>

Crash ==
  /\ crashes < MaxCrashes /\ crashes' = crashes + 1
  /\ call' = [c \in Calls |-> IF At(c, "out") THEN call[c] ELSE
                [call[c] EXCEPT !.at = "over", !.parked = FALSE, !.torn = @ \/ ~At(c, "over")]]
  /\ lock' = [lease |-> Nobody, slot |-> Nobody, life |-> Nobody]
  /\ handle' = 0 /\ active' = Nobody /\ force' = NoForce /\ reap' = 0 /\ closer' = "no"
  /\ UNCHANGED <<spawned, world, scratch, cuts>>

CallSteps(c) ==
  \/ LeaseAcquired(c) \/ SlotAcquired(c) \/ Park(c) \/ LifeAcquired(c) \/ EnsureLocked(c)
  \/ DeadHandleStopped(c) \/ SpawnImpossible(c) \/ Spawned(c) \/ UnspawnEnds(c) \/ Cleared(c)
  \/ SessionCreated(c) \/ SessionFails(c) \/ UnpostEnds(c) \/ Restored(c) \/ QuiesceEntered(c)
  \/ QuiesceAborts(c) \/ StrictStopEnds(c) \/ Checkpointed(c) \/ Saved(c) \/ WholeAborts(c)
  \/ FinishEntered(c) \/ SessionDeleted(c) \/ Dropped(c) \/ Scrubbed(c)

StewardSteps == ForceStopped \/ ForceFinishes \/ ForceScrubbed \/ ReapEnds \/ TeardownLocks \/ TornDown

SandboxNext ==
  \/ \E c \in Calls : Called(c) \/ CallSteps(c) \/ Prompted(c) \/ RunEnds(c) \/ Cut(c)
  \/ StewardSteps \/ ForceStarts \/ ReapStarts \/ CloseAll \/ Crash
  \/ \E h \in Handles : BoxDies(h) \/ \E c \in Calls : NativeWrites(h, c) \/ NativeEnds(h, c)

SandboxSpec == SandboxInit /\ [][SandboxNext]_sandboxVars

(***************************************************************************)
(* Properties                                                              *)
(***************************************************************************)
Holds(c) == c \in {lock.lease, lock.slot, lock.life}
BeingForced(c) == force.call = c /\ force.stage \in {"stop", "fin", "scrub"}

(* begin_invocation's error paths, finish_invocation, force_stop_active: whatever fails or is
   cancelled, a call that is over has returned its locks (else every later call waits for
   ever), or the forced stop is about to return them.  A whole run whose clean-up was itself
   cancelled is the exception WholeRunReturnsLease is about. *)
LeaseIsReturned ==
  \A c \in Calls : At(c, "over") /\ Holds(c) => BeingForced(c) \/ (c \in WholeRuns /\ call[c].loose)

(* The comment of `run` (runner.py): the global model slot is not released until OpenCode has
   stopped and its state is cleared, which supposes that the clean-up gets that far. *)
WholeRunReturnsLease ==
  \A c \in WholeRuns : At(c, "over") /\ Holds(c) => BeingForced(c)

(* quiesce_invocation, _quarantine and _ensure_locked: while a call works in the sandbox, no
   other conversation's files are in its workspace, unless the stop of that other call was
   cut short, or it was a whole run, whose failed abort is ignored. *)
ScratchIsPrivate ==
  \A c, d \in Calls :
    /\ call[c].at \in {"restore", "run", "checkpoint", "save"} /\ active = c
    /\ d \in scratch \ {c}
    => call[d].torn \/ d \in WholeRuns

(* A native worker that outlives its call is known: the workspace is quarantined and nothing
   is started there, or its stop was cut short. *)
SurvivorsAreQuarantined ==
  \A h \in Handles, c \in Calls :
    <<h, c>> \in native /\ At(c, "over") => marker \/ call[c].torn \/ c \in WholeRuns

(* docs/SUBAGENT_TASKS.md: checkpoint and export happen after native work is quiescent. *)
ExportIsQuiet == \A c \in Calls : call[c].at \in {"save", "checkpoint"} => Session(c) \notin native

=============================================================================
