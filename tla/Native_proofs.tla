---------------------------- MODULE Native_proofs ---------------------------
(***************************************************************************)
(* Theorems about the parts of MC_Native, for every value of their         *)
(* constants: the sandbox manager, the continuous run, the composition.    *)
(***************************************************************************)
EXTENDS MC_Native, Selection_proofs

-----------------------------------------------------------------------------
(* The manager's locks and its one invocation at a time.  A call is at one *)
(* of the stages that take a turn only while it has the lease, except      *)
(* where the forced stop took it away.                                     *)
CallStates == [at : Stages, ending : BOOLEAN, loose : BOOLEAN, parked : BOOLEAN,
               of : 0..MaxSpawns, torn : BOOLEAN]
Locks == [lease : Calls \cup {Nobody, "teardown"}, slot : Calls \cup {Nobody},
          life : Calls \cup {Nobody, "teardown", "force", "reaper"}]

Starting == {"slot", "begin", "ensure", "mend", "spawn", "unspawn", "clear", "post", "unpost"}
Working == {"restore", "run", "quiet", "abort", "stop", "checkpoint", "save", "fin", "delete",
            "drop"}

(* The stages in which a call holds _lifecycle_lock. *)
InLife(c) ==
  \/ call[c].at \in {"ensure", "mend", "spawn", "unspawn", "clear", "post", "unpost", "stop",
                     "delete", "drop", "scrub"}
  \/ At(c, "abort") /\ c \notin WholeRuns

(* The forced stop has taken the call off the sandbox. *)
Released(c) ==
  /\ force.call = c /\ active = Nobody
  /\ \/ force.stage = "scrub" /\ lock.lease = c
     \/ force.stage = "done" /\ ~Holds(c)

TakesTurn(c) ==
  /\ call[c].at \in {"out", "queue"} => ~Holds(c)
  /\ call[c].at \in Starting \cup {"scrub"} => lock.lease = c /\ active # c
  /\ call[c].at \in Working => (active = c /\ lock.lease = c) \/ Released(c)
  /\ active = c => call[c].at \in Working \cup {"over"} /\ lock.lease = c
  /\ InLife(c) <=> lock.life = c
  /\ At(c, "over") /\ Holds(c)
     => (active = c /\ c \in WholeRuns /\ call[c].loose) \/ (force.call = c /\ force.stage = "scrub")

Waits(c) ==
  /\ call[c].parked => call[c].at \in {"begin", "quiet", "fin"}
  /\ call[c].parked /\ At(c, "fin") => active # c
  /\ active = c \/ call[c].at \in {"clear", "post"} => handle \in {call[c].of, 0}
  /\ At(c, "quiet") => c \notin WholeRuns
  /\ force.stage # "idle" /\ force.call = c => call[c].at \in Working \cup {"scrub", "over"}
  /\ force.stage # "idle" => ~At(c, "queue")
  /\ force.stage # "idle" /\ force.call \in Calls \ {c} => call[c].at \in {"out", "over"}

KeepersInv ==
  /\ lock.life = "teardown" \/ closer \in {"life", "stop"} => lock.lease = "teardown"
  /\ lock.life = "reaper" => active = Nobody
  /\ force.stage = "scrub" <=> lock.life = "force"
  /\ force.stage = "scrub" => force.call \in Calls /\ active = Nobody /\ lock.lease = force.call
  /\ force.stage = "fin" => force.call \in Calls
  /\ force.stage # "idle" => active \in {force.call, Nobody} \/ force.call = Nobody

TurnTyped ==
  /\ call \in [Calls -> CallStates] /\ lock \in Locks
  /\ handle \in 0..MaxSpawns /\ active \in Calls \cup {Nobody} /\ spawned \in 0..MaxSpawns
  /\ force \in [stage : {"idle", "stop", "fin", "scrub", "done"}, box : 0..MaxSpawns,
                call : Calls \cup {Nobody}]

TurnInv == TurnTyped /\ KeepersInv /\ \A c \in Calls : TakesTurn(c) /\ Waits(c)

LEMMA CallMoves ==
  ASSUME NEW x \in CallStates
  PROVE  /\ \A s \in Stages : [x EXCEPT !.at = s] \in CallStates
         /\ [x EXCEPT !.parked = TRUE] \in CallStates
         /\ [x EXCEPT !.parked = FALSE] \in CallStates
         /\ [x EXCEPT !.loose = TRUE] \in CallStates
         /\ [x EXCEPT !.ending = TRUE] \in CallStates
         /\ \A b \in BOOLEAN : [x EXCEPT !.torn = @ \/ b] \in CallStates
         /\ \A h \in 0..MaxSpawns : [x EXCEPT !.of = h] \in CallStates
  BY DEF CallStates

LEMMA LocksMove ==
  ASSUME lock \in Locks
  PROVE  /\ \A k \in Calls \cup {Nobody, "teardown"} : [lock EXCEPT !.lease = k] \in Locks
         /\ \A k \in Calls \cup {Nobody} : [lock EXCEPT !.slot = k] \in Locks
         /\ \A k \in Calls \cup {Nobody, "teardown", "force", "reaper"} : [lock EXCEPT !.life = k] \in Locks
         /\ \A k : Without(k) \in Locks
         /\ \A k : [Without(k) EXCEPT !.life = Nobody] \in Locks
  BY DEF Locks, Without

LEMMA StagesStayTyped ==
  ASSUME call \in [Calls -> CallStates], NEW c \in Calls
  PROVE  /\ \A s \in Stages : Go(c, s) => call' \in [Calls -> CallStates]
         /\ \A s \in Stages : HoldLife(c, s) => call' \in [Calls -> CallStates]
         /\ \A s \in Stages : LeaveLife(c, s) => call' \in [Calls -> CallStates]
         /\ Refused(c) => call' \in [Calls -> CallStates]
         /\ GiveUp(c) => call' \in [Calls -> CallStates]
  <1>1. \A s \in Stages : [call EXCEPT ![c].at = s] \in [Calls -> CallStates]
    BY CallMoves
  <1>2. \A s \in Stages : [call EXCEPT ![c].at = s, ![c].parked = FALSE] \in [Calls -> CallStates]
    BY CallMoves
  <1>3. {"over", "scrub"} \subseteq Stages
    BY DEF Stages
  <1>4. QED
    BY SMTT(90), ZenonT(90), <1>1, <1>2, <1>3 DEF Go, HoldLife, LeaveLife, Refused, GiveUp

LEMMA UpdatesStayTyped ==
  ASSUME call \in [Calls -> CallStates], NEW c \in Calls, NEW s \in Stages
  PROVE  /\ [call EXCEPT ![c].at = s, ![c].parked = FALSE] \in [Calls -> CallStates]
         /\ [call EXCEPT ![c].at = s, ![c].ending = TRUE] \in [Calls -> CallStates]
         /\ \A h \in 0..MaxSpawns : /\ [call EXCEPT ![c].at = s, ![c].of = h] \in [Calls -> CallStates]
                                  /\ [call EXCEPT ![c].of = h, ![c].at = s] \in [Calls -> CallStates]
         /\ \A b \in BOOLEAN :
              [call EXCEPT ![c].at = s, ![c].parked = FALSE, ![c].torn = @ \/ b] \in [Calls -> CallStates]
  <1> DEFINE x == [call[c] EXCEPT !.at = s]
  <1>1. x \in CallStates
    BY CallMoves
  <1>2. [call EXCEPT ![c].at = s, ![c].parked = FALSE] \in [Calls -> CallStates]
    BY CallMoves
  <1>3. [call EXCEPT ![c].at = s, ![c].ending = TRUE] \in [Calls -> CallStates]
    BY CallMoves
  <1>4. ASSUME NEW h \in 0..MaxSpawns
        PROVE  [call EXCEPT ![c].at = s, ![c].of = h] \in [Calls -> CallStates]
    BY CallMoves
  <1>5. ASSUME NEW h \in 0..MaxSpawns
        PROVE  [call EXCEPT ![c].of = h, ![c].at = s] \in [Calls -> CallStates]
    BY CallMoves
  <1>6. ASSUME NEW b \in BOOLEAN
        PROVE  [call EXCEPT ![c].at = s, ![c].parked = FALSE, ![c].torn = @ \/ b] \in [Calls -> CallStates]
    <2> DEFINE y == [x EXCEPT !.parked = FALSE]
               z == [y EXCEPT !.torn = @ \/ b]
    <2>1. y \in CallStates
      BY <1>1, CallMoves
    <2>2. z \in CallStates
      BY <2>1, CallMoves
    <2>3. [call EXCEPT ![c].at = s, ![c].parked = FALSE, ![c].torn = @ \/ b] = [call EXCEPT ![c] = z]
      OBVIOUS
    <2>4. QED
      BY <2>2, <2>3
  <1>7. QED
    BY <1>2, <1>3, <1>4, <1>5, <1>6

LEMMA CleanUpTyped ==
  ASSUME call \in [Calls -> CallStates], NEW c \in Calls, NEW b \in BOOLEAN, CleanUp(c, b)
  PROVE  call' \in [Calls -> CallStates]
  <1> DEFINE x == [call[c] EXCEPT !.at = IF c \in WholeRuns THEN "abort" ELSE "quiet"]
             y == [x EXCEPT !.ending = TRUE]
             z == [y EXCEPT !.parked = FALSE]
             w == [z EXCEPT !.torn = @ \/ b]
  <1>1. x \in CallStates
    BY CallMoves DEF Stages
  <1>2. y \in CallStates
    BY <1>1, CallMoves
  <1>3. z \in CallStates
    BY <1>2, CallMoves
  <1>4. w \in CallStates
    BY <1>3, CallMoves
  <1>5. w = [call[c] EXCEPT !.at = IF c \in WholeRuns THEN "abort" ELSE "quiet",
                            !.ending = TRUE, !.parked = FALSE, !.torn = @ \/ b]
    OBVIOUS
  <1>6. call' = [call EXCEPT ![c] = w]
    BY <1>5 DEF CleanUp
  <1>7. QED
    BY <1>4, <1>6

LEMMA CallsStayTyped ==
  ASSUME TurnTyped, NEW c \in Calls
  PROVE     \/ Called(c)
            \/ LeaseAcquired(c)
            \/ SlotAcquired(c)
            \/ Park(c)
            \/ LifeAcquired(c)
            \/ EnsureLocked(c)
            \/ DeadHandleStopped(c)
            \/ SpawnImpossible(c)
            \/ Spawned(c)
            \/ UnspawnEnds(c)
            \/ Cleared(c)
            \/ SessionFails(c)
            \/ UnpostEnds(c)
            \/ SessionCreated(c)
            \/ Restored(c)
            \/ Prompted(c)
            \/ RunEnds(c)
            \/ Checkpointed(c)
            \/ Saved(c)
            \/ WholeAborts(c)
            \/ QuiesceEntered(c)
            \/ QuiesceAborts(c)
            \/ StrictStopEnds(c)
            \/ FinishEntered(c)
            \/ SessionDeleted(c)
            \/ Dropped(c)
            \/ Scrubbed(c)
            \/ CutBegin(c)
            \/ CutStart(c)
            \/ CutRun(c)
            \/ CutShield(c)
            \/ CutCleanUp(c)
         => call' \in [Calls -> CallStates]
  <1> USE SandboxAssumption DEF TurnTyped, Stages
  <1>1. ASSUME Called(c) PROVE call' \in [Calls -> CallStates]
    BY <1>1, StagesStayTyped DEF Called, FirstLock
  <1>2. ASSUME LeaseAcquired(c) PROVE call' \in [Calls -> CallStates]
    BY <1>2, StagesStayTyped DEF LeaseAcquired, FirstLock
  <1>3. ASSUME SlotAcquired(c) PROVE call' \in [Calls -> CallStates]
    BY <1>3, StagesStayTyped DEF SlotAcquired
  <1>4. ASSUME Park(c) PROVE call' \in [Calls -> CallStates]
    BY <1>4, CallMoves DEF Park
  <1>5. ASSUME LifeAcquired(c) PROVE call' \in [Calls -> CallStates]
    BY <1>5, StagesStayTyped DEF LifeAcquired
  <1>6. ASSUME EnsureLocked(c) PROVE call' \in [Calls -> CallStates]
    <2> DEFINE s == IF Alive(handle) THEN "clear" ELSE IF handle # 0 THEN "mend" ELSE "spawn"
    <2>1. [call EXCEPT ![c].of = handle, ![c].at = s] \in [Calls -> CallStates]
      <3>1. s \in Stages
        OBVIOUS
      <3> HIDE DEF s, Stages
      <3>2. QED
        BY <3>1, UpdatesStayTyped
    <2>2. CASE marker
      BY <1>6, <2>2, StagesStayTyped DEF EnsureLocked
    <2>3. CASE ~marker
      BY <1>6, <2>1, <2>3 DEF EnsureLocked
    <2>4. QED
      BY <2>2, <2>3
  <1>7. ASSUME DeadHandleStopped(c) PROVE call' \in [Calls -> CallStates]
    BY <1>7, StagesStayTyped DEF DeadHandleStopped
  <1>8. ASSUME SpawnImpossible(c) PROVE call' \in [Calls -> CallStates]
    BY <1>8, StagesStayTyped DEF SpawnImpossible
  <1>9. ASSUME Spawned(c) PROVE call' \in [Calls -> CallStates]
    <2>1. /\ [call EXCEPT ![c].of = spawned', ![c].at = "clear"] \in [Calls -> CallStates]
          /\ [call EXCEPT ![c].of = spawned', ![c].at = "unspawn"] \in [Calls -> CallStates]
      <3>1. spawned' \in 0..MaxSpawns
        BY <1>9 DEF Spawned
      <3>2. QED
        BY ZenonT(90), <3>1, UpdatesStayTyped
    <2>2. \E s \in {"clear", "unspawn"} : call' = [call EXCEPT ![c].of = spawned', ![c].at = s]
      BY <1>9 DEF Spawned
    <2>3. QED
      BY <2>1, <2>2
  <1>10. ASSUME UnspawnEnds(c) PROVE call' \in [Calls -> CallStates]
    BY <1>10, StagesStayTyped DEF UnspawnEnds
  <1>11. ASSUME Cleared(c) PROVE call' \in [Calls -> CallStates]
    BY <1>11, StagesStayTyped DEF Cleared
  <1>12. ASSUME SessionFails(c) PROVE call' \in [Calls -> CallStates]
    BY <1>12, StagesStayTyped DEF SessionFails
  <1>13. ASSUME UnpostEnds(c) PROVE call' \in [Calls -> CallStates]
    BY <1>13, StagesStayTyped DEF UnpostEnds
  <1>14. ASSUME SessionCreated(c) PROVE call' \in [Calls -> CallStates]
    BY <1>14, StagesStayTyped DEF SessionCreated
  <1>15. ASSUME Restored(c) PROVE call' \in [Calls -> CallStates]
    BY <1>15, StagesStayTyped, CleanUpTyped DEF Restored
  <1>16. ASSUME Prompted(c) PROVE call' \in [Calls -> CallStates]
    BY <1>16 DEF Prompted
  <1>17. ASSUME RunEnds(c) PROVE call' \in [Calls -> CallStates]
    <2>1. [call EXCEPT ![c].at = "fin", ![c].ending = TRUE] \in [Calls -> CallStates]
      BY UpdatesStayTyped
    <2>2. QED
      BY <1>17, <2>1, StagesStayTyped, CleanUpTyped DEF RunEnds
  <1>18. ASSUME Checkpointed(c) PROVE call' \in [Calls -> CallStates]
    BY <1>18, StagesStayTyped, CleanUpTyped DEF Checkpointed
  <1>19. ASSUME Saved(c) PROVE call' \in [Calls -> CallStates]
    BY <1>19, StagesStayTyped DEF Saved
  <1>20. ASSUME WholeAborts(c) PROVE call' \in [Calls -> CallStates]
    BY <1>20, StagesStayTyped DEF WholeAborts
  <1>21. ASSUME QuiesceEntered(c) PROVE call' \in [Calls -> CallStates]
    <2>1. \A s \in Stages : [call EXCEPT ![c].at = s, ![c].parked = FALSE] \in [Calls -> CallStates]
      <3> HIDE DEF Stages
      <3>1. QED
        BY UpdatesStayTyped
    <2>2. CASE active = c /\ handle = call[c].of
      BY <1>21, <2>2, StagesStayTyped DEF QuiesceEntered
    <2>3. CASE ~(active = c /\ handle = call[c].of)
      <3>1. PICK s \in AfterQuiet(c) : call' = [call EXCEPT ![c].at = s, ![c].parked = FALSE]
        BY <1>21, <2>3 DEF QuiesceEntered
      <3>2. s \in Stages
        BY DEF AfterQuiet
      <3> HIDE DEF Stages
      <3>3. QED
        BY <3>1, <3>2, UpdatesStayTyped
    <2>4. QED
      BY <2>2, <2>3
  <1>22. ASSUME QuiesceAborts(c) PROVE call' \in [Calls -> CallStates]
    BY <1>22, StagesStayTyped DEF QuiesceAborts, AfterQuiet
  <1>23. ASSUME StrictStopEnds(c) PROVE call' \in [Calls -> CallStates]
    BY <1>23, StagesStayTyped, CleanUpTyped DEF StrictStopEnds, AfterQuiet
  <1>24. ASSUME FinishEntered(c) PROVE call' \in [Calls -> CallStates]
    <2>1. [call EXCEPT ![c].at = "over", ![c].parked = FALSE] \in [Calls -> CallStates]
      BY UpdatesStayTyped
    <2>2. CASE active # c
      BY <1>24, <2>1, <2>2 DEF FinishEntered
    <2>3. CASE active = c
      BY <1>24, <2>3, StagesStayTyped DEF FinishEntered
    <2>4. QED
      BY <2>2, <2>3
  <1>25. ASSUME SessionDeleted(c) PROVE call' \in [Calls -> CallStates]
    BY <1>25, StagesStayTyped DEF SessionDeleted
  <1>26. ASSUME Dropped(c) PROVE call' \in [Calls -> CallStates]
    BY <1>26, StagesStayTyped DEF Dropped
  <1>27. ASSUME Scrubbed(c) PROVE call' \in [Calls -> CallStates]
    BY <1>27, StagesStayTyped DEF Scrubbed
  <1>28. ASSUME CutBegin(c) PROVE call' \in [Calls -> CallStates]
    BY <1>28, StagesStayTyped DEF CutBegin
  <1>29. ASSUME CutStart(c) PROVE call' \in [Calls -> CallStates]
    <2>1. CASE Refused(c)
      BY <2>1, StagesStayTyped
    <2>2. CASE spawned < MaxSpawns /\ call' = [call EXCEPT ![c].at = "unspawn", ![c].of = spawned'] /\ spawned' = spawned + 1
      <3>1. spawned' \in 0..MaxSpawns
        BY <2>2
      <3>2. [call EXCEPT ![c].at = "unspawn", ![c].of = spawned'] \in [Calls -> CallStates]
        BY ZenonT(90), <3>1, UpdatesStayTyped
      <3>3. QED
        BY <2>2, <3>2
    <2>3. QED
      BY <1>29, <2>1, <2>2 DEF CutStart
  <1>30. ASSUME CutRun(c) PROVE call' \in [Calls -> CallStates]
    <2>1. CleanUp(c, TRUE) \/ CleanUp(c, FALSE)
      BY <1>30 DEF CutRun, CleanUp
    <2>2. QED
      BY <2>1, CleanUpTyped
  <1>31. ASSUME CutShield(c) PROVE call' \in [Calls -> CallStates]
    BY <1>31, CallMoves DEF CutShield
  <1>32. ASSUME CutCleanUp(c) PROVE call' \in [Calls -> CallStates]
    <2>1. [call EXCEPT ![c].at = "over", ![c].parked = FALSE] \in [Calls -> CallStates]
      BY UpdatesStayTyped
    <2>2. [call EXCEPT ![c].at = "fin", ![c].parked = FALSE, ![c].torn = @ \/ ~At(c, "save")] \in [Calls -> CallStates]
      BY UpdatesStayTyped
    <2>3. QED
      BY <1>32, <2>1, <2>2, StagesStayTyped DEF CutCleanUp
  <1>33. QED
    BY <1>1, <1>2, <1>3, <1>4, <1>5, <1>6, <1>7, <1>8, <1>9, <1>10, <1>11, <1>12, <1>13, <1>14,
       <1>15, <1>16, <1>17, <1>18, <1>19, <1>20, <1>21, <1>22, <1>23, <1>24, <1>25, <1>26, <1>27,
       <1>28, <1>29, <1>30, <1>31, <1>32

LEMMA CallsStand ==
  ASSUME TurnTyped
  PROVE  \A d \in Calls : call[d].at \in {"out", "queue", "over", "scrub"} \cup Starting \cup Working
  BY DEF TurnTyped, CallStates, Stages, Starting, Working

LEMMA AskingStep ==
  ASSUME TurnInv, NEW c \in Calls, Called(c) \/ LeaseAcquired(c) \/ SlotAcquired(c) \/ Park(c)
         \/ LifeAcquired(c) \/ EnsureLocked(c)
  PROVE  TurnInv'
  <1> USE SandboxAssumption DEF Nobody, Called, LeaseAcquired, SlotAcquired, Park, LifeAcquired,
          EnsureLocked, FirstLock, LeaseWaiters, LifeIsFree, LifeWaiters, EntersLife, HoldLife,
          Refused, Without, Go, At, desk, world, stewards, keepers
  <1>1. TurnTyped'
    <2>1. call' \in [Calls -> CallStates]
      BY CallsStayTyped DEF TurnInv
    <2>2. lock' \in Locks
      BY SMTT(60), LocksMove DEF TurnInv, TurnTyped
    <2>3. QED
      BY <2>1, <2>2 DEF TurnInv, TurnTyped, Stages
  <1>2. KeepersInv'
    BY DEF TurnInv, TurnTyped, KeepersInv, TakesTurn, Waits, InLife, Locks, Starting, Working
  <1>3. \A d \in Calls : TakesTurn(d)'
    BY DEF TurnInv, TurnTyped, KeepersInv, TakesTurn, Waits, InLife, Released, Holds, Locks,
       CallStates, Starting, Working
  <1>4. \A d \in Calls : Waits(d)'
    BY DEF TurnInv, TurnTyped, KeepersInv, TakesTurn, Waits, InLife, Released, Holds, Locks,
       CallStates, Starting, Working
  <1>5. QED
    BY <1>1, <1>2, <1>3, <1>4 DEF TurnInv

LEMMA StartingStep ==
  ASSUME TurnInv, NEW c \in Calls, DeadHandleStopped(c) \/ SpawnImpossible(c) \/ Spawned(c)
         \/ UnspawnEnds(c) \/ Cleared(c) \/ SessionFails(c) \/ UnpostEnds(c)
  PROVE  TurnInv'
  <1> USE SandboxAssumption DEF Nobody, DeadHandleStopped, SpawnImpossible, Spawned, UnspawnEnds,
          Cleared, SessionFails, UnpostEnds, Refused, Without, Go, At, desk, world, stewards,
          keepers
  <1>1. TurnTyped'
    <2>1. call' \in [Calls -> CallStates]
      BY CallsStayTyped DEF TurnInv
    <2>2. lock' \in Locks
      BY SMTT(40), ZenonT(40), LocksMove DEF TurnInv, TurnTyped
    <2>3. QED
      BY <2>1, <2>2 DEF TurnInv, TurnTyped, Stages
  <1>2. KeepersInv'
    BY DEF TurnInv, TurnTyped, KeepersInv, TakesTurn, Waits, InLife, Locks, Starting, Working
  <1>3. \A d \in Calls : TakesTurn(d)'
    BY DEF TurnInv, TurnTyped, KeepersInv, TakesTurn, Waits, InLife, Released, Holds, Locks,
       CallStates, Starting, Working
  <1>4. \A d \in Calls : Waits(d)'
    BY DEF TurnInv, TurnTyped, KeepersInv, TakesTurn, Waits, InLife, Released, Holds, Locks,
       CallStates, Starting, Working
  <1>5. QED
    BY <1>1, <1>2, <1>3, <1>4 DEF TurnInv

LEMMA SessionStep ==
  ASSUME TurnInv, NEW c \in Calls, SessionCreated(c) \/ Restored(c) \/ Prompted(c) \/ RunEnds(c)
         \/ Checkpointed(c) \/ Saved(c) \/ WholeAborts(c)
  PROVE  TurnInv'
  <1> USE SandboxAssumption DEF Nobody, SessionCreated, Restored, Prompted, RunEnds, Checkpointed,
          Saved, WholeAborts, CleanUp, LeaveLife, Go, At, desk, world, stewards, keepers
  <1>1. TurnTyped'
    <2>1. call' \in [Calls -> CallStates]
      BY CallsStayTyped DEF TurnInv
    <2>2. lock' \in Locks
      BY LocksMove DEF TurnInv, TurnTyped
    <2>3. QED
      BY <2>1, <2>2 DEF TurnInv, TurnTyped, Stages
  <1>2. KeepersInv'
    BY DEF TurnInv, TurnTyped, KeepersInv, TakesTurn, Waits, InLife, Locks, Starting, Working
  <1>3. \A d \in Calls : TakesTurn(d)'
    BY DEF TurnInv, TurnTyped, KeepersInv, TakesTurn, Waits, InLife, Released, Holds, Locks,
       CallStates, Starting, Working
  <1>4. \A d \in Calls : Waits(d)'
    BY DEF TurnInv, TurnTyped, KeepersInv, TakesTurn, Waits, InLife, Released, Holds, Locks,
       CallStates, Starting, Working
  <1>5. QED
    BY <1>1, <1>2, <1>3, <1>4 DEF TurnInv

LEMMA QuiesceEnteredStep ==
  ASSUME TurnInv, NEW c \in Calls, QuiesceEntered(c)
  PROVE  TurnInv'
  <1> USE SandboxAssumption DEF Nobody, EntersLife, HoldLife, Go, At, desk, world, stewards,
          keepers
  <1> /\ EntersLife(c) /\ call[c].at = "quiet"
      /\ \/ active = c /\ handle = call[c].of /\ HoldLife(c, "abort")
         \/ /\ ~(active = c /\ handle = call[c].of) /\ UNCHANGED lock
            /\ \E s \in {"save", "run", "checkpoint"} : call' = [call EXCEPT ![c].at = s, ![c].parked = FALSE]
      /\ UNCHANGED <<desk, world, scratch, stewards>>
    BY DEF QuiesceEntered, AfterQuiet, At
  <1>1. TurnTyped'
    <2>1. call' \in [Calls -> CallStates]
      BY CallsStayTyped DEF TurnInv
    <2>2. lock' \in Locks
      BY LocksMove DEF TurnInv, TurnTyped
    <2>3. QED
      BY <2>1, <2>2 DEF TurnInv, TurnTyped, Stages
  <1>2. KeepersInv'
    BY DEF TurnInv, TurnTyped, KeepersInv, TakesTurn, Waits, InLife, Locks, Starting, Working
  <1>3. \A d \in Calls : TakesTurn(d)'
    BY DEF TurnInv, TurnTyped, KeepersInv, TakesTurn, Waits, InLife, Released, Holds, Locks,
       CallStates, Starting, Working
  <1>4. \A d \in Calls : Waits(d)'
    BY DEF TurnInv, TurnTyped, KeepersInv, TakesTurn, Waits, InLife, Released, Holds, Locks,
       CallStates, Starting, Working
  <1>5. QED
    BY <1>1, <1>2, <1>3, <1>4 DEF TurnInv

LEMMA QuiesceAbortsStep ==
  ASSUME TurnInv, NEW c \in Calls, QuiesceAborts(c)
  PROVE  TurnInv'
  <1> USE SandboxAssumption DEF Nobody, QuiesceAborts, AfterQuiet, LeaveLife, Go, At, desk, world,
          stewards, keepers
  <1>1. TurnTyped'
    <2>1. call' \in [Calls -> CallStates]
      BY CallsStayTyped DEF TurnInv
    <2>2. lock' \in Locks
      BY LocksMove DEF TurnInv, TurnTyped
    <2>3. QED
      BY <2>1, <2>2 DEF TurnInv, TurnTyped, Stages
  <1>2. KeepersInv'
    BY DEF TurnInv, TurnTyped, KeepersInv, TakesTurn, Waits, InLife, Locks, Starting, Working
  <1>3. \A d \in Calls : TakesTurn(d)'
    BY DEF TurnInv, TurnTyped, KeepersInv, TakesTurn, Waits, InLife, Released, Holds, Locks,
       CallStates, Starting, Working
  <1>4. \A d \in Calls : Waits(d)'
    BY DEF TurnInv, TurnTyped, KeepersInv, TakesTurn, Waits, InLife, Released, Holds, Locks,
       CallStates, Starting, Working
  <1>5. QED
    BY <1>1, <1>2, <1>3, <1>4 DEF TurnInv

LEMMA StrictStopStep ==
  ASSUME TurnInv, NEW c \in Calls, StrictStopEnds(c)
  PROVE  TurnInv'
  <1> USE SandboxAssumption DEF Nobody, StrictStopEnds, AfterQuiet, CleanUp, LeaveLife, Go, At,
          desk, world, stewards, keepers
  <1>1. TurnTyped'
    <2>1. call' \in [Calls -> CallStates]
      BY CallsStayTyped DEF TurnInv
    <2>2. lock' \in Locks
      BY LocksMove DEF TurnInv, TurnTyped
    <2>3. QED
      BY <2>1, <2>2 DEF TurnInv, TurnTyped, Stages
  <1>2. KeepersInv'
    BY DEF TurnInv, TurnTyped, KeepersInv, TakesTurn, Waits, InLife, Locks, Starting, Working
  <1>3. \A d \in Calls : TakesTurn(d)'
    BY DEF TurnInv, TurnTyped, KeepersInv, TakesTurn, Waits, InLife, Released, Holds, Locks,
       CallStates, Starting, Working
  <1>4. \A d \in Calls : Waits(d)'
    BY DEF TurnInv, TurnTyped, KeepersInv, TakesTurn, Waits, InLife, Released, Holds, Locks,
       CallStates, Starting, Working
  <1>5. QED
    BY <1>1, <1>2, <1>3, <1>4 DEF TurnInv

LEMMA FinishEnteredStep ==
  ASSUME TurnInv, NEW c \in Calls, FinishEntered(c)
  PROVE  TurnInv'
  <1> USE SandboxAssumption DEF Nobody, GiveUp, Refused, Without, EntersLife, HoldLife, At, desk,
          world, stewards, keepers
  <1> /\ EntersLife(c) /\ call[c].at = "fin"
      /\ \/ active # c /\ call' = [call EXCEPT ![c].at = "over", ![c].parked = FALSE] /\ UNCHANGED <<lock, active>>
         \/ active = c /\ handle = call[c].of /\ HoldLife(c, "delete") /\ UNCHANGED active
         \/ active = c /\ handle # call[c].of /\ GiveUp(c)
      /\ UNCHANGED <<handle, spawned, world, scratch, stewards>>
    BY DEF FinishEntered, At
  <1>1. TurnTyped'
    <2>1. call' \in [Calls -> CallStates]
      BY CallsStayTyped DEF TurnInv
    <2>2. lock' \in Locks
      BY LocksMove DEF TurnInv, TurnTyped
    <2>3. QED
      BY <2>1, <2>2 DEF TurnInv, TurnTyped, Stages
  <1>2. KeepersInv'
    BY DEF TurnInv, TurnTyped, KeepersInv, TakesTurn, Waits, InLife, Locks, Starting, Working
  <1>3. \A d \in Calls : TakesTurn(d)'
    BY DEF TurnInv, TurnTyped, KeepersInv, TakesTurn, Waits, InLife, Released, Holds, Locks,
       CallStates, Starting, Working
  <1>4. \A d \in Calls : Waits(d)'
    BY DEF TurnInv, TurnTyped, KeepersInv, TakesTurn, Waits, InLife, Released, Holds, Locks,
       CallStates, Starting, Working
  <1>5. QED
    BY <1>1, <1>2, <1>3, <1>4 DEF TurnInv

LEMMA DeletedStep ==
  ASSUME TurnInv, NEW c \in Calls, SessionDeleted(c)
  PROVE  TurnInv'
  <1> USE SandboxAssumption DEF Nobody, SessionDeleted, GiveUp, Refused, Without, HoldLife, Go,
          At, desk, world, stewards, keepers
  <1>1. TurnTyped'
    <2>1. call' \in [Calls -> CallStates]
      BY CallsStayTyped DEF TurnInv
    <2>2. lock' \in Locks
      BY LocksMove DEF TurnInv, TurnTyped
    <2>3. QED
      BY <2>1, <2>2 DEF TurnInv, TurnTyped, Stages
  <1>2. KeepersInv'
    BY DEF TurnInv, TurnTyped, KeepersInv, TakesTurn, Waits, InLife, Locks, Starting, Working
  <1>3. \A d \in Calls : TakesTurn(d)'
    BY DEF TurnInv, TurnTyped, KeepersInv, TakesTurn, Waits, InLife, Released, Holds, Locks,
       CallStates, Starting, Working
  <1>4. \A d \in Calls : Waits(d)'
    BY DEF TurnInv, TurnTyped, KeepersInv, TakesTurn, Waits, InLife, Released, Holds, Locks,
       CallStates, Starting, Working
  <1>5. QED
    BY <1>1, <1>2, <1>3, <1>4 DEF TurnInv

LEMMA DroppedStep ==
  ASSUME TurnInv, NEW c \in Calls, Dropped(c)
  PROVE  TurnInv'
  <1> USE SandboxAssumption DEF Nobody, Dropped, GiveUp, Refused, Without, HoldLife, Go, At, desk,
          world, stewards, keepers
  <1>1. TurnTyped'
    <2>1. call' \in [Calls -> CallStates]
      BY CallsStayTyped DEF TurnInv
    <2>2. lock' \in Locks
      BY LocksMove DEF TurnInv, TurnTyped
    <2>3. QED
      BY <2>1, <2>2 DEF TurnInv, TurnTyped, Stages
  <1>2. KeepersInv'
    BY DEF TurnInv, TurnTyped, KeepersInv, TakesTurn, Waits, InLife, Locks, Starting, Working
  <1>3. \A d \in Calls : TakesTurn(d)'
    BY DEF TurnInv, TurnTyped, KeepersInv, TakesTurn, Waits, InLife, Released, Holds, Locks,
       CallStates, Starting, Working
  <1>4. \A d \in Calls : Waits(d)'
    BY DEF TurnInv, TurnTyped, KeepersInv, TakesTurn, Waits, InLife, Released, Holds, Locks,
       CallStates, Starting, Working
  <1>5. QED
    BY <1>1, <1>2, <1>3, <1>4 DEF TurnInv

LEMMA ScrubbedStep ==
  ASSUME TurnInv, NEW c \in Calls, Scrubbed(c)
  PROVE  TurnInv'
  <1> USE SandboxAssumption DEF Nobody, Scrubbed, Refused, Without, At, desk, world, stewards,
          keepers
  <1>1. TurnTyped'
    <2>1. call' \in [Calls -> CallStates]
      BY CallsStayTyped DEF TurnInv
    <2>2. lock' \in Locks
      BY LocksMove DEF TurnInv, TurnTyped
    <2>3. QED
      BY <2>1, <2>2 DEF TurnInv, TurnTyped, Stages
  <1>2. KeepersInv'
    BY DEF TurnInv, TurnTyped, KeepersInv, TakesTurn, Waits, InLife, Locks, Starting, Working
  <1>3. \A d \in Calls : TakesTurn(d)'
    BY DEF TurnInv, TurnTyped, KeepersInv, TakesTurn, Waits, InLife, Released, Holds, Locks,
       CallStates, Starting, Working
  <1>4. \A d \in Calls : Waits(d)'
    BY DEF TurnInv, TurnTyped, KeepersInv, TakesTurn, Waits, InLife, Released, Holds, Locks,
       CallStates, Starting, Working
  <1>5. QED
    BY <1>1, <1>2, <1>3, <1>4 DEF TurnInv

LEMMA CutBeginStep ==
  ASSUME TurnInv, NEW c \in Calls, Cut(c) /\ CutBegin(c)
  PROVE  TurnInv'
  <1> USE SandboxAssumption DEF Nobody, CutBegin, Cut, Refused, Without, At, desk, world,
          stewards, keepers
  <1>1. TurnTyped'
    <2>1. call' \in [Calls -> CallStates]
      BY CallsStayTyped DEF TurnInv
    <2>2. lock' \in Locks
      BY LocksMove DEF TurnInv, TurnTyped
    <2>3. QED
      BY <2>1, <2>2 DEF TurnInv, TurnTyped, Stages
  <1>2. KeepersInv'
    BY DEF TurnInv, TurnTyped, KeepersInv, TakesTurn, Waits, InLife, Locks, Starting, Working
  <1>3. \A d \in Calls : TakesTurn(d)'
    BY DEF TurnInv, TurnTyped, KeepersInv, TakesTurn, Waits, InLife, Released, Holds, Locks,
       CallStates, Starting, Working
  <1>4. \A d \in Calls : Waits(d)'
    BY DEF TurnInv, TurnTyped, KeepersInv, TakesTurn, Waits, InLife, Released, Holds, Locks,
       CallStates, Starting, Working
  <1>5. QED
    BY <1>1, <1>2, <1>3, <1>4 DEF TurnInv

LEMMA CutStartStep ==
  ASSUME TurnInv, NEW c \in Calls, Cut(c) /\ CutStart(c)
  PROVE  TurnInv'
  <1> USE SandboxAssumption DEF Nobody, CutStart, Cut, Refused, Without, At, desk, world,
          stewards, keepers
  <1>1. TurnTyped'
    <2>1. call' \in [Calls -> CallStates]
      BY CallsStayTyped DEF TurnInv
    <2>2. lock' \in Locks
      BY LocksMove DEF TurnInv, TurnTyped
    <2>3. QED
      BY <2>1, <2>2 DEF TurnInv, TurnTyped, Stages
  <1>2. KeepersInv'
    BY DEF TurnInv, TurnTyped, KeepersInv, TakesTurn, Waits, InLife, Locks, Starting, Working
  <1>3. \A d \in Calls : TakesTurn(d)'
    BY DEF TurnInv, TurnTyped, KeepersInv, TakesTurn, Waits, InLife, Released, Holds, Locks,
       CallStates, Starting, Working
  <1>4. \A d \in Calls : Waits(d)'
    BY DEF TurnInv, TurnTyped, KeepersInv, TakesTurn, Waits, InLife, Released, Holds, Locks,
       CallStates, Starting, Working
  <1>5. QED
    BY <1>1, <1>2, <1>3, <1>4 DEF TurnInv

LEMMA CutRunStep ==
  ASSUME TurnInv, NEW c \in Calls, Cut(c) /\ CutRun(c)
  PROVE  TurnInv'
  <1> USE SandboxAssumption DEF Nobody, CutRun, Cut, CleanUp, At, desk, world, stewards, keepers
  <1>1. TurnTyped'
    <2>1. call' \in [Calls -> CallStates]
      BY CallsStayTyped DEF TurnInv
    <2>2. lock' \in Locks
      <3>1. lock \in Locks
        BY DEF TurnInv, TurnTyped
      <3>2. lock' = lock \/ lock' = [lock EXCEPT !.life = Nobody]
        BY <3>1 DEF Locks
      <3>3. QED
        BY <3>1, <3>2, LocksMove
    <2>3. QED
      BY <2>1, <2>2 DEF TurnInv, TurnTyped, Stages
  <1>2. KeepersInv'
    BY DEF TurnInv, TurnTyped, KeepersInv, TakesTurn, Waits, InLife, Locks, Starting, Working
  <1>3. \A d \in Calls : TakesTurn(d)'
    BY DEF TurnInv, TurnTyped, KeepersInv, TakesTurn, Waits, InLife, Released, Holds, Locks,
       CallStates, Starting, Working
  <1>4. \A d \in Calls : Waits(d)'
    BY DEF TurnInv, TurnTyped, KeepersInv, TakesTurn, Waits, InLife, Released, Holds, Locks,
       CallStates, Starting, Working
  <1>5. QED
    BY <1>1, <1>2, <1>3, <1>4 DEF TurnInv

LEMMA CutShieldStep ==
  ASSUME TurnInv, NEW c \in Calls, Cut(c) /\ CutShield(c)
  PROVE  TurnInv'
  <1> USE SandboxAssumption DEF Nobody, CutShield, Cut, At, desk, world, stewards, keepers
  <1>1. TurnTyped'
    <2>1. call' \in [Calls -> CallStates]
      BY CallsStayTyped DEF TurnInv
    <2>2. lock' \in Locks
      BY LocksMove DEF TurnInv, TurnTyped
    <2>3. QED
      BY <2>1, <2>2 DEF TurnInv, TurnTyped, Stages
  <1>2. KeepersInv'
    BY DEF TurnInv, TurnTyped, KeepersInv, TakesTurn, Waits, InLife, Locks, Starting, Working
  <1>3. \A d \in Calls : TakesTurn(d)'
    BY DEF TurnInv, TurnTyped, KeepersInv, TakesTurn, Waits, InLife, Released, Holds, Locks,
       CallStates, Starting, Working
  <1>4. \A d \in Calls : Waits(d)'
    BY DEF TurnInv, TurnTyped, KeepersInv, TakesTurn, Waits, InLife, Released, Holds, Locks,
       CallStates, Starting, Working
  <1>5. QED
    BY <1>1, <1>2, <1>3, <1>4 DEF TurnInv

\* What a clean-up that is cut writes of its call.
LEMMA CutsWrite ==
  ASSUME TurnTyped, NEW c \in Calls, NEW s,
         \/ call' = [call EXCEPT ![c].at = s, ![c].parked = FALSE]
         \/ call' = [call EXCEPT ![c].at = s, ![c].parked = FALSE, ![c].torn = @ \/ ~At(c, "save")]
  PROVE  /\ \A d \in Calls \ {c} : call'[d] = call[d]
         /\ call'[c].at = s /\ call'[c].loose = call[c].loose /\ call'[c].of = call[c].of /\ ~call'[c].parked
  <1>1. call \in [Calls -> CallStates] /\ call[c] \in CallStates
    BY DEF TurnTyped
  <1>2. CASE call' = [call EXCEPT ![c].at = s, ![c].parked = FALSE]
    BY <1>1, <1>2 DEF CallStates
  <1>3. CASE call' = [call EXCEPT ![c].at = s, ![c].parked = FALSE, ![c].torn = @ \/ ~At(c, "save")]
    BY <1>1, <1>3 DEF CallStates, At
  <1>4. QED
    BY <1>2, <1>3

LEMMA CutCleanUpStep ==
  ASSUME TurnInv, NEW c \in Calls, Cut(c) /\ CutCleanUp(c)
  PROVE  TurnInv'
  <1> USE SandboxAssumption DEF Nobody, CutCleanUp, Cut, GiveUp, Refused, Without, HoldLife, At,
          desk, world, stewards, keepers
  <1>1. TurnTyped'
    <2>1. call' \in [Calls -> CallStates]
      BY CallsStayTyped DEF TurnInv
    <2>2. lock' \in Locks
      <3>1. lock \in Locks
        BY DEF TurnInv, TurnTyped
      <3>2. \/ lock' = lock \/ lock' = [lock EXCEPT !.life = Nobody]
            \/ lock' = [lock EXCEPT !.life = c] \/ lock' = Without(c)
        BY <3>1 DEF Locks
      <3>3. QED
        BY SMTT(90), ZenonT(90), <3>1, <3>2, LocksMove
    <2>3. QED
      BY <2>1, <2>2 DEF TurnInv, TurnTyped, Stages
  <1>2. /\ call[c].loose
        /\ UNCHANGED <<spawned, handle, keepers>>
    BY Zenon
  <1> HIDE DEF At, Without
  <1>3. PICK s : /\ \/ call' = [call EXCEPT ![c].at = s, ![c].parked = FALSE]
                   \/ call' = [call EXCEPT ![c].at = s, ![c].parked = FALSE, ![c].torn = @ \/ ~At(c, "save")]
                 /\ \/ /\ At(c, "save") \/ (At(c, "quiet") /\ call[c].parked)
                          \/ (At(c, "abort") /\ c \notin WholeRuns) \/ At(c, "stop")
                       /\ s = "fin"
                       /\ lock' = [lock EXCEPT !.life = IF @ = c THEN Nobody ELSE @] /\ UNCHANGED desk
                    \/ /\ (At(c, "abort") /\ c \in WholeRuns) \/ (At(c, "fin") /\ call[c].parked)
                       /\ s = "over" /\ UNCHANGED <<lock, desk>>
                    \/ /\ At(c, "delete") \/ At(c, "drop")
                       /\ active' = Nobody
                       /\ \/ s = "over" /\ lock' = Without(c)
                          \/ s = "scrub" /\ lock' = [lock EXCEPT !.life = c]
                    \/ /\ At(c, "scrub") /\ s = "over" /\ lock' = Without(c) /\ UNCHANGED desk
    BY Zenon
  <1>4. /\ \A d \in Calls \ {c} : call'[d] = call[d]
        /\ call'[c].at = s /\ call'[c].loose = call[c].loose /\ call'[c].of = call[c].of /\ ~call'[c].parked
    BY <1>3, CutsWrite DEF TurnInv
  <1> USE DEF At, Without
  <1> HIDE DEF CutCleanUp, Cut, GiveUp, Refused, HoldLife
  <1>5. /\ lock'.lease = lock.lease \/ (lock'.lease = Nobody /\ lock.lease = c /\ lock.life = c)
        /\ lock'.slot = lock.slot \/ (lock'.slot = Nobody /\ lock.slot = c)
        /\ lock'.life \in {lock.life, Nobody, c} /\ (lock'.life = Nobody => lock.life \in {c, Nobody})
        /\ lock'.life = c /\ lock.life # c => FALSE
        /\ active' = active \/ active' = Nobody
    <2>1. call[c].at \in {"delete", "drop", "scrub"} => lock.life = c
      BY DEF TurnInv, TakesTurn, InLife
    <2>2. DOMAIN lock = {"lease", "slot", "life"}
      BY DEF TurnInv, TurnTyped, Locks
    <2>3. QED
      BY <1>3, <2>1, <2>2
  <1>6. KeepersInv'
    <2>1. KeepersInv /\ UNCHANGED keepers
      BY <1>2 DEF TurnInv
    <2>2. QED
      BY <1>5, <2>1 DEF KeepersInv
  <1>7. \A d \in Calls : TakesTurn(d)'
    <2> TAKE d \in Calls
    <2>1. CASE d = c
      <3>1. /\ TakesTurn(c) /\ Waits(c) /\ KeepersInv /\ c \notin {Nobody, "force"}
            /\ UNCHANGED force /\ DOMAIN lock = {"lease", "slot", "life"}
        BY <1>2 DEF TurnInv, TurnTyped, Locks
      <3>2. CASE s = "fin"
        <4>1. call[c].at \in {"save", "quiet", "abort", "stop"} /\ UNCHANGED <<active>>
          BY <1>3, <3>2
        <4>2. lock'.lease = lock.lease /\ lock'.slot = lock.slot /\ lock'.life # c
          BY <1>3, <3>1, <3>2
        <4>3. (active = c /\ lock.lease = c) \/ Released(c)
          BY <3>1, <4>1 DEF TakesTurn, Working
        <4>4. Released(c) => Released(c)'
          BY <3>1, <4>1, <4>2 DEF Released, Holds
        <4>5. QED
          BY <1>4, <2>1, <3>1, <3>2, <4>1, <4>2, <4>3, <4>4 DEF TakesTurn, InLife, Starting, Working
      <3>3. CASE s = "over" /\ UNCHANGED <<lock, active>> /\ ~At(c, "scrub")
        <4>1. (At(c, "abort") /\ c \in WholeRuns) \/ (At(c, "fin") /\ call[c].parked)
          BY <1>3, <3>1, <3>3 DEF TakesTurn, InLife, Holds
        <4>2. (active = c /\ lock.lease = c /\ c \in WholeRuns) \/ Released(c)
          BY <3>1, <4>1 DEF TakesTurn, Waits, Working
        <4>3. QED
          BY <1>2, <1>4, <2>1, <3>1, <3>3, <4>1, <4>2
             DEF TakesTurn, InLife, Released, Holds, Starting, Working
      <3>4. CASE s = "over" /\ lock' = Without(c) /\ (active' = Nobody \/ (At(c, "scrub") /\ UNCHANGED active))
        <4>1. ~Holds(c)' /\ active' # c
          BY <3>1, <3>4 DEF Holds, TakesTurn
        <4>2. QED
          BY <1>4, <2>1, <3>4, <4>1 DEF TakesTurn, InLife, Holds, Starting, Working
      <3>5. CASE s = "scrub" /\ call[c].at \in {"delete", "drop"} /\ active' = Nobody
                 /\ lock' = [lock EXCEPT !.life = c]
        <4>1. lock.life = c
          BY <3>1, <3>5 DEF TakesTurn, InLife
        <4>2. ~Released(c)
          BY <3>1, <4>1 DEF Released, Holds, KeepersInv
        <4>3. lock.lease = c
          BY <3>1, <3>5, <4>2 DEF TakesTurn, Working
        <4>4. QED
          BY <1>4, <2>1, <3>1, <3>5, <4>3 DEF TakesTurn, InLife, Holds, Starting, Working
      <3>6. QED
        BY <1>3, <3>2, <3>3, <3>4, <3>5
    <2>2. CASE d # c
      <3>1. call'[d] = call[d] /\ UNCHANGED force /\ TakesTurn(d)
        BY <1>2, <1>4, <2>2 DEF TurnInv
      <3>2. call[d].at \in {"out", "queue", "over"}
        <4>1. call[c].at \in Working \cup {"scrub"}
          BY <1>3 DEF Working
        <4>2. QED
          BY <2>2, <4>1, CallsStand DEF TurnInv, TakesTurn, Waits, Released, Starting, Working
      <3>3. active # d => active' # d
        BY <1>5
      <3>4. /\ Holds(d)' => Holds(d)
            /\ lock'.life = d <=> lock.life = d
        BY <1>5, <2>2 DEF Holds
      <3>5. (active = d => active' = d /\ lock'.lease = lock.lease) /\ (force.stage = "scrub" => lock'.lease = lock.lease)
        <4>1. active = d => call[c].at \notin {"delete", "drop", "scrub"}
          BY <2>2, <3>2 DEF TurnInv, TakesTurn, InLife, Released, KeepersInv, Working
        <4>2. force.stage = "scrub" => lock.life # c
          BY DEF TurnInv, KeepersInv
        <4>3. active = d => lock.lease # c
          BY <2>2 DEF TurnInv, TakesTurn
        <4>4. active = d => active' = d
          BY <1>3, <4>1
        <4>5. QED
          BY <1>5, <4>2, <4>3, <4>4
      <3>6. QED
        BY <3>1, <3>2, <3>3, <3>4, <3>5 DEF TakesTurn, InLife, Starting, Working
    <2>3. QED
      BY <2>1, <2>2
  <1>8. \A d \in Calls : Waits(d)'
    <2> TAKE d \in Calls
    <2>1. CASE d = c
      BY <1>2, <1>3, <1>4, <2>1 DEF TurnInv, TurnTyped, KeepersInv, TakesTurn, Waits, InLife, Released, Holds, Locks, Starting, Working
    <2>2. CASE d # c
      <3>1. call'[d] = call[d] /\ UNCHANGED <<force, handle>> /\ Waits(d) /\ (active' = d => active = d)
        BY <1>2, <1>4, <1>5, <2>2 DEF TurnInv
      <3>2. QED
        BY <3>1 DEF Waits, Working
    <2>3. QED
      BY <2>1, <2>2
  <1>9. QED
    BY <1>1, <1>6, <1>7, <1>8 DEF TurnInv

LEMMA ForceStartsStep ==
  ASSUME TurnInv, ForceStarts
  PROVE  TurnInv'
  <1> USE SandboxAssumption DEF Nobody, ForceStarts, LeaseWaiters, At, desk, world, stewards,
          keepers
  <1> /\ \A d \in Calls : ~At(d, "queue")
      /\ force.stage = "idle" /\ force'.stage = "stop" /\ force'.call = active
    BY DEF ForceStarts, LeaseWaiters
  <1>1. TurnTyped'
    <2>1. call' \in [Calls -> CallStates]
      BY DEF TurnInv, TurnTyped, Stages
    <2>2. lock' \in Locks
      BY LocksMove DEF TurnInv, TurnTyped
    <2>3. QED
      BY <2>1, <2>2 DEF TurnInv, TurnTyped, CallStates, Stages
  <1>2. KeepersInv'
    BY DEF TurnInv, TurnTyped, KeepersInv, TakesTurn, Waits, InLife, Locks, Starting, Working
  <1>3. \A d \in Calls : TakesTurn(d)'
    BY DEF TurnInv, TurnTyped, KeepersInv, TakesTurn, Waits, InLife, Released, Holds, Locks,
       CallStates, Starting, Working
  <1>4. \A d \in Calls : Waits(d)'
    <2> TAKE d \in Calls
    <2>1. active \in Calls => lock.lease = active
      BY DEF TurnInv, TakesTurn
    <2>2. active = d => call[d].at \in Working \cup {"over"}
      BY DEF TurnInv, TakesTurn
    <2>3. active \in Calls \ {d} => call[d].at \in {"out", "over"}
      BY <2>1, CallsStand DEF TurnInv, TakesTurn, Released, TurnTyped, CallStates
    <2>4. UNCHANGED <<call, active, handle>>
      OBVIOUS
    <2>5. QED
      BY <2>2, <2>3, <2>4 DEF TurnInv, Waits
  <1>5. QED
    BY <1>1, <1>2, <1>3, <1>4 DEF TurnInv

LEMMA ForceStoppedStep ==
  ASSUME TurnInv, ForceStopped
  PROVE  TurnInv'
  <1> USE SandboxAssumption DEF Nobody, ForceStopped, At, desk, world, stewards, keepers
  <1>1. TurnTyped'
    <2>1. call' \in [Calls -> CallStates]
      BY DEF TurnInv, TurnTyped, Stages
    <2>2. lock' \in Locks
      BY LocksMove DEF TurnInv, TurnTyped
    <2>3. QED
      BY <2>1, <2>2 DEF TurnInv, TurnTyped, Stages
  <1>2. KeepersInv'
    BY DEF TurnInv, TurnTyped, KeepersInv, TakesTurn, Waits, InLife, Locks, Starting, Working
  <1>3. \A d \in Calls : TakesTurn(d)'
    BY DEF TurnInv, TurnTyped, KeepersInv, TakesTurn, Waits, InLife, Released, Holds, Locks,
       CallStates, Starting, Working
  <1>4. \A d \in Calls : Waits(d)'
    BY DEF TurnInv, TurnTyped, KeepersInv, TakesTurn, Waits, InLife, Released, Holds, Locks,
       CallStates, Starting, Working
  <1>5. QED
    BY <1>1, <1>2, <1>3, <1>4 DEF TurnInv

LEMMA ForceFinishesStep ==
  ASSUME TurnInv, ForceFinishes
  PROVE  TurnInv'
  <1> USE SandboxAssumption DEF Nobody, ForceFinishes, Without, At, desk, world, stewards, keepers
  <1>1. TurnTyped'
    <2>1. call' \in [Calls -> CallStates]
      BY DEF TurnInv, TurnTyped, Stages
    <2>2. lock' \in Locks
      BY LocksMove DEF TurnInv, TurnTyped
    <2>3. QED
      BY <2>1, <2>2 DEF TurnInv, TurnTyped, Stages
  <1>2. KeepersInv'
    BY DEF TurnInv, TurnTyped, KeepersInv, TakesTurn, Waits, InLife, Locks, Starting, Working
  <1>3. \A d \in Calls : TakesTurn(d)'
    BY DEF TurnInv, TurnTyped, KeepersInv, TakesTurn, Waits, InLife, Released, Holds, Locks,
       CallStates, Starting, Working
  <1>4. \A d \in Calls : Waits(d)'
    BY DEF TurnInv, TurnTyped, KeepersInv, TakesTurn, Waits, InLife, Released, Holds, Locks,
       CallStates, Starting, Working
  <1>5. QED
    BY <1>1, <1>2, <1>3, <1>4 DEF TurnInv

LEMMA ForceScrubbedStep ==
  ASSUME TurnInv, ForceScrubbed
  PROVE  TurnInv'
  <1> USE SandboxAssumption DEF Nobody, ForceScrubbed, Without, At, desk, world, stewards, keepers
  <1>1. TurnTyped'
    <2>1. call' \in [Calls -> CallStates]
      BY DEF TurnInv, TurnTyped, Stages
    <2>2. lock' \in Locks
      BY LocksMove DEF TurnInv, TurnTyped
    <2>3. QED
      BY <2>1, <2>2 DEF TurnInv, TurnTyped, Stages
  <1>2. KeepersInv'
    BY DEF TurnInv, TurnTyped, KeepersInv, TakesTurn, Waits, InLife, Locks, Starting, Working
  <1>3. \A d \in Calls : TakesTurn(d)'
    BY DEF TurnInv, TurnTyped, KeepersInv, TakesTurn, Waits, InLife, Released, Holds, Locks,
       CallStates, Starting, Working
  <1>4. \A d \in Calls : Waits(d)'
    BY DEF TurnInv, TurnTyped, KeepersInv, TakesTurn, Waits, InLife, Released, Holds, Locks,
       CallStates, Starting, Working
  <1>5. QED
    BY <1>1, <1>2, <1>3, <1>4 DEF TurnInv

LEMMA ReapStep ==
  ASSUME TurnInv, ReapStarts \/ ReapEnds
  PROVE  TurnInv'
  <1> USE SandboxAssumption DEF Nobody, ReapStarts, ReapEnds, Alive, Busy, At, desk, world,
          stewards, keepers
  <1>1. TurnTyped'
    <2>1. call' \in [Calls -> CallStates]
      BY DEF TurnInv, TurnTyped, Stages
    <2>2. lock' \in Locks
      BY LocksMove DEF TurnInv, TurnTyped
    <2>3. QED
      BY <2>1, <2>2 DEF TurnInv, TurnTyped, Stages
  <1>2. KeepersInv'
    BY DEF TurnInv, TurnTyped, KeepersInv, TakesTurn, Waits, InLife, Locks, Starting, Working
  <1>3. \A d \in Calls : TakesTurn(d)'
    BY DEF TurnInv, TurnTyped, KeepersInv, TakesTurn, Waits, InLife, Released, Holds, Locks,
       CallStates, Starting, Working
  <1>4. \A d \in Calls : Waits(d)'
    BY DEF TurnInv, TurnTyped, KeepersInv, TakesTurn, Waits, InLife, Released, Holds, Locks,
       CallStates, Starting, Working
  <1>5. QED
    BY <1>1, <1>2, <1>3, <1>4 DEF TurnInv

LEMMA CloseAllStep ==
  ASSUME TurnInv, CloseAll
  PROVE  TurnInv'
  <1> USE SandboxAssumption DEF Nobody, CloseAll, At, desk, world, stewards, keepers
  <1>1. TurnTyped'
    <2>1. call' \in [Calls -> CallStates]
      BY DEF TurnInv, TurnTyped, Stages
    <2>2. lock' \in Locks
      BY LocksMove DEF TurnInv, TurnTyped
    <2>3. QED
      BY <2>1, <2>2 DEF TurnInv, TurnTyped, Stages
  <1>2. KeepersInv'
    BY DEF TurnInv, TurnTyped, KeepersInv, TakesTurn, Waits, InLife, Locks, Starting, Working
  <1>3. \A d \in Calls : TakesTurn(d)'
    BY DEF TurnInv, TurnTyped, KeepersInv, TakesTurn, Waits, InLife, Released, Holds, Locks,
       CallStates, Starting, Working
  <1>4. \A d \in Calls : Waits(d)'
    BY DEF TurnInv, TurnTyped, KeepersInv, TakesTurn, Waits, InLife, Released, Holds, Locks,
       CallStates, Starting, Working
  <1>5. QED
    BY <1>1, <1>2, <1>3, <1>4 DEF TurnInv

LEMMA TeardownStep ==
  ASSUME TurnInv, TeardownLocks \/ TornDown
  PROVE  TurnInv'
  <1> USE SandboxAssumption DEF Nobody, TeardownLocks, TornDown, LeaseWaiters, Without, At, desk,
          world, stewards, keepers
  <1>1. TurnTyped'
    <2>1. call' \in [Calls -> CallStates]
      BY DEF TurnInv, TurnTyped, Stages
    <2>2. lock' \in Locks
      BY SMTT(30), LocksMove DEF TurnInv, TurnTyped
    <2>3. QED
      BY <2>1, <2>2 DEF TurnInv, TurnTyped, Stages
  <1>2. KeepersInv'
    BY DEF TurnInv, TurnTyped, KeepersInv, TakesTurn, Waits, InLife, Locks, Starting, Working
  <1>3. \A d \in Calls : TakesTurn(d)'
    BY DEF TurnInv, TurnTyped, KeepersInv, TakesTurn, Waits, InLife, Released, Holds, Locks,
       CallStates, Starting, Working
  <1>4. \A d \in Calls : Waits(d)'
    BY DEF TurnInv, TurnTyped, KeepersInv, TakesTurn, Waits, InLife, Released, Holds, Locks,
       CallStates, Starting, Working
  <1>5. QED
    BY <1>1, <1>2, <1>3, <1>4 DEF TurnInv

LEMMA CrashStep ==
  ASSUME TurnInv, Crash
  PROVE  TurnInv'
  <1>1. ASSUME NEW d \in Calls
        PROVE  call'[d].at \in {"out", "over"} /\ ~call'[d].parked
    <2>1. CASE At(d, "out")
      <3>1. call'[d] = call[d] /\ ~call[d].parked
        BY <2>1 DEF Crash, TurnInv, Waits, At
      <3>2. QED
        BY <3>1, <2>1 DEF At
    <2>2. CASE ~At(d, "out")
      <3>1. call'[d] = [call[d] EXCEPT !.at = "over", !.parked = FALSE, !.torn = @ \/ ~At(d, "over")]
        BY <2>2 DEF Crash
      <3>2. QED
        BY <3>1 DEF TurnInv, TurnTyped, CallStates
    <2>3. QED
      BY <2>1, <2>2
  <1>2. call' \in [Calls -> CallStates]
    <2> DEFINE Over(d) == [call[d] EXCEPT !.at = "over", !.parked = FALSE, !.torn = @ \/ ~At(d, "over")]
    <2>1. ASSUME NEW d \in Calls
          PROVE  Over(d) \in CallStates
      <3> DEFINE x == [call[d] EXCEPT !.at = "over"]
                 y == [x EXCEPT !.parked = FALSE]
                 z == [y EXCEPT !.torn = @ \/ ~At(d, "over")]
      <3>1. x \in CallStates
        BY CallMoves DEF TurnInv, TurnTyped, Stages
      <3>2. y \in CallStates
        BY <3>1, CallMoves
      <3>3. z \in CallStates
        BY <3>2, CallMoves
      <3>4. z = Over(d)
        OBVIOUS
      <3>5. QED
        BY <3>3, <3>4
    <2> HIDE DEF Over
    <2>2. call' = [d \in Calls |-> IF At(d, "out") THEN call[d] ELSE Over(d)]
      BY DEF Crash, Over
    <2>3. QED
      BY <2>1, <2>2 DEF TurnInv, TurnTyped
  <1>3. lock' = [lease |-> Nobody, slot |-> Nobody, life |-> Nobody] /\ handle' = 0 /\ active' = Nobody
        /\ force' = NoForce /\ spawned' = spawned /\ closer' = "no"
    BY DEF Crash
  <1>4. TurnTyped'
    BY <1>2, <1>3, SandboxAssumption DEF TurnInv, TurnTyped, Locks, NoForce
  <1>5. KeepersInv'
    BY <1>3, SandboxAssumption DEF KeepersInv, NoForce, Nobody
  <1>6. ASSUME NEW d \in Calls
        PROVE  TakesTurn(d)' /\ Waits(d)'
    <2>1. call'[d].at \in {"out", "over"} /\ ~call'[d].parked
      BY <1>1
    <2>2. d # Nobody
      BY SandboxAssumption
    <2>3. ~Holds(d)' /\ active' # d /\ lock'.life # d
      BY <1>3, <2>2 DEF Holds
    <2>4. ~InLife(d)'
      BY <2>1 DEF InLife, At
    <2>5. force'.stage = "idle"
      BY <1>3 DEF NoForce
    <2>6. QED
      BY <2>1, <2>3, <2>4, <2>5 DEF TakesTurn, Waits, At, Starting, Working
  <1>7. QED
    BY <1>4, <1>5, <1>6 DEF TurnInv

LEMMA TurnStands ==
  ASSUME TurnInv, UNCHANGED <<call, lock, handle, active, spawned, force, closer>>
  PROVE  TurnInv'
  BY DEF TurnInv, TurnTyped, KeepersInv, TakesTurn, Waits, InLife, Released, Holds, At

LEMMA TurnInit == SandboxInit => TurnInv
  BY SandboxAssumption
     DEF SandboxInit, NewCall, NoForce, TurnInv, TurnTyped, KeepersInv, TakesTurn, Waits, InLife, Released,
         Holds, At, CallStates, Stages, Locks, Starting, Working, Nobody

LEMMA TurnNext ==
  ASSUME TurnInv, [SandboxNext]_sandboxVars
  PROVE  TurnInv'
  <1>1. ASSUME NEW c \in Calls, Called(c) \/ CallSteps(c) \/ Prompted(c) \/ RunEnds(c)
        PROVE  TurnInv'
    BY <1>1, AskingStep, StartingStep, SessionStep, QuiesceEnteredStep, QuiesceAbortsStep,
       StrictStopStep,
       FinishEnteredStep, DeletedStep, DroppedStep, ScrubbedStep DEF CallSteps
  <1>2. ASSUME NEW c \in Calls, Cut(c)
        PROVE  TurnInv'
    BY <1>2, CutBeginStep, CutStartStep, CutRunStep, CutShieldStep, CutCleanUpStep DEF Cut
  <1>3. ASSUME StewardSteps \/ ForceStarts \/ ReapStarts \/ CloseAll \/ Crash
        PROVE  TurnInv'
    BY <1>3, ForceStartsStep, ForceStoppedStep, ForceFinishesStep, ForceScrubbedStep, ReapStep,
       CloseAllStep, TeardownStep, CrashStep DEF StewardSteps
  <1>4. ASSUME NEW h \in Handles, BoxDies(h) \/ \E c \in Calls : NativeWrites(h, c) \/ NativeEnds(h, c)
        PROVE  TurnInv'
    <2>1. UNCHANGED <<call, lock, handle, active, spawned, force, closer>>
      BY <1>4 DEF BoxDies, NativeWrites, NativeEnds, desk, stewards, keepers
    <2>2. QED
      BY <2>1, TurnStands
  <1>5. CASE UNCHANGED sandboxVars
    <2>1. UNCHANGED <<call, lock, handle, active, spawned, force, closer>>
      BY <1>5 DEF sandboxVars, desk, stewards, keepers
    <2>2. QED
      BY <2>1, TurnStands
  <1>6. QED
    BY <1>1, <1>2, <1>3, <1>4, <1>5 DEF SandboxNext

(* One call at a time has the sandbox, and it alone changes which locks it *)
(* holds, but for the forced stop (manager.py: begin_invocation to         *)
(* finish_invocation).                                                     *)
THEOREM CallsTakeTurns == SandboxSpec => []TurnInv
  BY TurnInit, TurnNext, PTL DEF SandboxSpec

(* Whatever fails or is cancelled, a call that is over has returned its    *)
(* locks (manager.py: begin_invocation, finish_invocation,                 *)
(* force_stop_active; runner.py: _cleanup_invocation).                     *)
THEOREM LeasesComeBack == SandboxSpec => []LeaseIsReturned
  <1>1. TurnInv => LeaseIsReturned
    BY DEF TurnInv, TakesTurn, LeaseIsReturned, BeingForced
  <1>2. QED
    BY <1>1, CallsTakeTurns, PTL
-----------------------------------------------------------------------------
(* The workspace.                                                          *)
Boxes == [up : BOOLEAN, client : BOOLEAN, quarantined : BOOLEAN]
Engaged == {"restore", "run", "quiet", "abort", "checkpoint"}

(* No native worker of the call can run any more, or nothing is started    *)
(* after it; and the two ways in which one is lost sight of.               *)
Gone(c) == marker \/ ~box[call[c].of].up
Lost(c) == c \in WholeRuns \/ call[c].torn

(* A native worker runs in the container of its call.                      *)
Traced(h, c) ==
  <<h, c>> \in native
  => h = call[c].of /\ box[h].up /\ call[c].at \in (Working \ {"restore"}) \cup {"scrub", "over"}

(* A call whose container was given up, or which was taken off the         *)
(* sandbox, has no native worker, nor has one that ended.                  *)
Departs(c) ==
  /\ call[c].of <= spawned
  /\ call[c].at \in {"mend", "unspawn", "clear", "post", "unpost"} \cup Working => call[c].of # 0
  /\ call[c].at \in {"clear", "post"} \cup Engaged /\ handle # call[c].of => Gone(c) \/ Lost(c)
  /\ call[c].at \in Engaged /\ active # c => Gone(c) \/ Lost(c)
  /\ call[c].at \in {"checkpoint", "save", "fin", "delete", "drop", "scrub", "over"}
     => marker \/ Lost(c) \/ Session(c) \notin native

(* What a call finds when it has passed the quarantine.                    *)
Past(c) ==
  \/ call[c].at \in {"mend", "spawn", "unspawn", "clear", "post", "unpost"}
  \/ active = c /\ ~At(c, "over")

Alone(c, d) ==
  /\ Past(c) => Session(d) \notin native \/ Lost(d)
  /\ At(c, "post") \/ (call[c].at \in Working /\ active = c) => d \notin scratch \/ Lost(d)

BoxesInv ==
  /\ handle <= spawned
  /\ \A h \in Handles : (box[h].quarantined => marker) /\ (h > spawned => ~box[h].up)
  /\ force.stage \in {"stop", "fin"} => force.box # 0 /\ force.box <= spawned
  /\ force.stage = "fin" => marker \/ ~box[force.box].up
  /\ force.stage \in {"stop", "fin"} /\ active # Nobody /\ force.call # Nobody
     => force.box = call[force.call].of

WorldTyped == box \in [Handles -> Boxes] /\ native \subseteq Handles \X Calls

WorkspaceInv ==
  /\ WorldTyped /\ BoxesInv
  /\ \A h \in Handles, c \in Calls : Traced(h, c)
  /\ \A c \in Calls : Departs(c)
  /\ \A c, d \in Calls : c # d => Alone(c, d)

(* Containers stop, and with them what runs there.                         *)
WorldFalls ==
  /\ WorldTyped'
  /\ \A h \in Handles : (box'[h].up => box[h].up) /\ (box'[h].quarantined => marker')
  /\ marker => marker'
  /\ native' \subseteq native /\ \A h \in Handles, c \in Calls : <<h, c>> \in native' => box'[h].up

LEMMA OneInside ==
  ASSUME TurnInv
  PROVE  \A c, d \in Calls : c # d /\ call[c].at \in Starting \cup Working \cup {"scrub"}
                             => call[d].at \in {"out", "queue", "over"}
  BY CallsStand DEF TurnInv, TakesTurn, Waits, Released, Starting, Working

LEMMA StopsFall ==
  ASSUME WorkspaceInv, NEW h
  PROVE  /\ ShutDown(h) => WorldFalls
         /\ StopConfirmed(h) => WorldFalls /\ (h \in Handles => ~box'[h].up)
         /\ StopQuarantined(h) => WorldFalls /\ marker'
  <1>1. ASSUME h \in Handles, NEW u \in {FALSE, box[h].up}, NEW k \in BOOLEAN,
               NEW q \in {TRUE, box[h].quarantined}, Stopped(h, u, k, q),
               marker => marker', q => marker' \/ box[h].quarantined
        PROVE  WorldFalls /\ box'[h].up = u
    <2>1. /\ \A x \in Handles \ {h} : box'[x] = box[x]
          /\ box'[h] = [up |-> u, client |-> k, quarantined |-> q]
      BY <1>1 DEF Stopped, WorkspaceInv, WorldTyped
    <2>2. [up |-> u, client |-> k, quarantined |-> q] \in Boxes
      BY <1>1 DEF Boxes, WorkspaceInv, WorldTyped
    <2>3. box' \in [Handles -> Boxes]
      BY <2>2, <1>1 DEF Stopped, WorkspaceInv, WorldTyped
    <2>4. native' \subseteq native /\ \A c \in Calls : <<h, c>> \in native' => u
      BY <1>1 DEF Stopped
    <2>5. box'[h].up = u /\ box'[h].quarantined = q
      BY <2>1
    <2>6. \A x \in Handles, c \in Calls : <<x, c>> \in native' => box'[x].up
      BY <2>1, <2>4, <2>5 DEF WorkspaceInv, Traced
    <2>7. \A x \in Handles : box'[x].quarantined => marker'
      BY <1>1, <2>1, <2>5 DEF WorkspaceInv, BoxesInv
    <2>8. \A x \in Handles : box'[x].up => box[x].up
      BY <1>1, <2>1, <2>5
    <2>9. QED
      BY <1>1, <2>3, <2>4, <2>5, <2>6, <2>7, <2>8 DEF WorldFalls, WorkspaceInv, WorldTyped
  <1>2. ASSUME h \notin Handles, ShutDown(h) \/ StopConfirmed(h) \/ StopQuarantined(h)
        PROVE  WorldFalls
    <2>1. box' = box /\ native' \subseteq native /\ (marker => marker')
      BY <1>2 DEF ShutDown, StopConfirmed, StopQuarantined, Stopped, WorkspaceInv, WorldTyped
    <2>2. QED
      BY <2>1 DEF WorldFalls, WorkspaceInv, WorldTyped, BoxesInv, Traced
  <1>3. h \in Handles => box[h].up \in BOOLEAN /\ box[h].client \in BOOLEAN /\ box[h].quarantined \in BOOLEAN
    BY DEF WorkspaceInv, WorldTyped, Boxes
  <1>4. ASSUME h \in Handles, ShutDown(h)
        PROVE  WorldFalls
    BY <1>1, <1>3, <1>4 DEF ShutDown
  <1>5. ASSUME h \in Handles, StopConfirmed(h)
        PROVE  WorldFalls /\ ~box'[h].up
    BY <1>1, <1>3, <1>5 DEF StopConfirmed
  <1>6. ASSUME h \in Handles, StopQuarantined(h)
        PROVE  WorldFalls /\ marker'
    BY <1>1, <1>3, <1>6 DEF StopQuarantined
  <1>7. StopQuarantined(h) => marker'
    BY DEF StopQuarantined
  <1>8. QED
    BY <1>2, <1>4, <1>5, <1>6, <1>7

\* Only a call that works, or did, may have a native worker.
LEMMA NothingTraced ==
  ASSUME WorkspaceInv, NEW c \in Calls,
         call[c].at \notin (Working \ {"restore"}) \cup {"scrub", "over"}
  PROVE  Session(c) \notin native
  BY DEF WorkspaceInv, WorldTyped, Traced, Session

\* What is gone has no native worker.
LEMMA GoneIsQuiet ==
  ASSUME WorkspaceInv, NEW c \in Calls, call[c].at \in Engaged, Gone(c)
  PROVE  marker \/ Session(c) \notin native
  BY DEF WorkspaceInv, WorldTyped, Traced, Session, Gone

\* A step that leaves the desk and the world alone concerns only the calls it moves.
LEMMA SameDeparts ==
  ASSUME WorkspaceInv, UNCHANGED <<desk, world>>, NEW d \in Calls,
         call'[d].at = call[d].at, call'[d].of = call[d].of, call'[d].torn = call[d].torn
  PROVE  Departs(d)'
  <1>1. /\ (Gone(d) => Gone(d)') /\ (Lost(d) => Lost(d)') /\ Session(d)' = Session(d)
        /\ UNCHANGED <<handle, active, spawned, marker, native>>
    BY DEF Gone, Lost, Session, desk, world
  <1>2. Departs(d)
    BY DEF WorkspaceInv
  <1>3. QED
    BY <1>1, <1>2 DEF Departs, Engaged, Working

\* While one call is inside, the others have nothing to lose.
LEMMA OthersDepart ==
  ASSUME TurnInv, WorkspaceInv, WorldFalls, NEW c \in Calls,
         call[c].at \in Starting \cup Working \cup {"scrub"},
         \A d \in Calls \ {c} : call'[d] = call[d], UNCHANGED spawned
  PROVE  \A d \in Calls \ {c} : Departs(d)'
  <1> TAKE d \in Calls \ {c}
  <1>1. call'[d] = call[d] /\ call[d].at \in {"out", "queue", "over"}
    BY OneInside
  <1>2. Session(d)' = Session(d) /\ (Lost(d) => Lost(d)') /\ (marker => marker') /\ native' \subseteq native
    BY <1>1 DEF Session, Lost, WorldFalls
  <1>3. Departs(d)
    BY DEF WorkspaceInv
  <1>4. QED
    BY <1>1, <1>2, <1>3 DEF Departs, Engaged, Working

LEMMA AskingKeepsSpace ==
  ASSUME TurnInv, TurnInv', WorkspaceInv, NEW c \in Calls, Called(c) \/ LeaseAcquired(c)
         \/ SlotAcquired(c) \/ Park(c) \/ LifeAcquired(c)
  PROVE  WorkspaceInv'
  <1> USE SandboxAssumption DEF Nobody, Called, LeaseAcquired, SlotAcquired, Park, LifeAcquired,
          FirstLock, HoldLife, Go, At, desk, world, stewards, keepers
  <1>1. WorldFalls
    BY StopsFall DEF WorldFalls, WorkspaceInv, WorldTyped, BoxesInv, Traced
  <1>2. BoxesInv'
    BY <1>1 DEF WorldFalls, WorkspaceInv, BoxesInv, TurnInv, TurnTyped, TakesTurn, Waits,
       KeepersInv, Locks, CallStates, Handles
  <1>3. \A h \in Handles, d \in Calls : Traced(h, d)'
    BY <1>1 DEF WorldFalls, WorkspaceInv, Traced, Starting, Working, TurnInv, TurnTyped, CallStates
  <1>4. \A d \in Calls : Departs(d)'
    <2>1. /\ \A d \in Calls \ {c} : call'[d] = call[d]
          /\ call'[c].of = call[c].of /\ call'[c].torn = call[c].torn
          /\ call'[c].at \in {"slot", "begin", "queue", "ensure", call[c].at}
          /\ UNCHANGED <<desk, world>>
      BY DEF TurnInv, TurnTyped, CallStates
    <2> HIDE DEF Called, LeaseAcquired, SlotAcquired, Park, LifeAcquired, FirstLock, HoldLife, Go
    <2>2. \A d \in Calls \ {c} : Departs(d)'
      BY <2>1, SameDeparts
    <2>3. Departs(c)'
      <3>1. CASE call'[c].at = call[c].at
        BY <2>1, <3>1, SameDeparts
      <3>2. CASE call'[c].at \in {"slot", "begin", "queue", "ensure"}
        BY <2>1, <3>2 DEF WorkspaceInv, Departs, Engaged, Working
      <3>3. QED
        BY <2>1, <3>1, <3>2
    <2>4. QED
      BY <2>2, <2>3
  <1>5. \A d, e \in Calls : d # e => Alone(d, e)'
    BY <1>1, OneInside DEF WorldFalls, WorkspaceInv, Alone, Past, Traced, Departs, Lost, Session,
       Starting, Working, TurnInv, TurnTyped, TakesTurn, CallStates
  <1>6. QED
    BY <1>1, <1>2, <1>3, <1>4, <1>5 DEF WorkspaceInv, WorldFalls

LEMMA EnsureKeepsSpace ==
  ASSUME TurnInv, TurnInv', WorkspaceInv, NEW c \in Calls, EnsureLocked(c)
  PROVE  WorkspaceInv'
  <1> USE SandboxAssumption DEF Nobody, EnsureLocked, Alive, Refused, Go, At, desk, world,
          stewards, keepers
  <1>1. WorldFalls
    BY StopsFall DEF WorldFalls, WorkspaceInv, WorldTyped, BoxesInv, Traced
  <1>2. BoxesInv'
    BY <1>1 DEF WorldFalls, WorkspaceInv, BoxesInv, TurnInv, TurnTyped, TakesTurn, Waits,
       KeepersInv, Locks, CallStates, Handles
  <1>3. \A h \in Handles, d \in Calls : Traced(h, d)'
    BY <1>1 DEF WorldFalls, WorkspaceInv, Traced, Starting, Working, TurnInv, TurnTyped, CallStates
  <1>4. \A d \in Calls : Departs(d)'
    <2>1. /\ \A d \in Calls \ {c} : call'[d] = call[d]
          /\ call[c].at = "ensure"
          /\ \/ call'[c].at = "over" /\ marker /\ call'[c].of = call[c].of
             \/ call'[c].at \in {"clear", "mend"} /\ call'[c].of = handle /\ handle # 0
             \/ call'[c].at = "spawn" /\ call'[c].of = handle
          /\ UNCHANGED <<handle, active, spawned, marker>>
      BY DEF TurnInv, TurnTyped, CallStates
    <2> HIDE DEF EnsureLocked, Alive, Refused, Go
    <2>2. \A d \in Calls \ {c} : Departs(d)'
      BY <1>1, <2>1, OthersDepart DEF Starting, Working
    <2>3. Departs(c)'
      BY <2>1 DEF WorkspaceInv, BoxesInv, Departs, Engaged, Working
    <2>4. QED
      BY <2>2, <2>3
  <1>5. \A d, e \in Calls : d # e => Alone(d, e)'
    BY <1>1, OneInside DEF WorldFalls, WorkspaceInv, Alone, Past, Traced, Departs, Lost, Session,
       Starting, Working, TurnInv, TurnTyped, TakesTurn, CallStates
  <1>6. QED
    BY <1>1, <1>2, <1>3, <1>4, <1>5 DEF WorkspaceInv, WorldFalls

LEMMA StopKeepsSpace ==
  ASSUME TurnInv, TurnInv', WorkspaceInv, NEW c \in Calls, DeadHandleStopped(c) \/ UnspawnEnds(c)
         \/ UnpostEnds(c)
  PROVE  WorkspaceInv'
  <1> USE SandboxAssumption DEF Nobody, DeadHandleStopped, UnspawnEnds, UnpostEnds, Refused, Go,
          At, desk, world, stewards, keepers
  <1>1. WorldFalls
    BY StopsFall DEF WorldFalls, WorkspaceInv, WorldTyped, BoxesInv, Traced
  <1>2. BoxesInv'
    BY SMTT(30), <1>1 DEF WorldFalls, WorkspaceInv, BoxesInv, TurnInv, TurnTyped, TakesTurn, Waits,
       KeepersInv, Locks, CallStates, Handles
  <1>3. \A h \in Handles, d \in Calls : Traced(h, d)'
    BY <1>1 DEF WorldFalls, WorkspaceInv, Traced, Starting, Working, TurnInv, TurnTyped, CallStates
  <1>4. \A d \in Calls : Departs(d)'
    <2>1. /\ \A d \in Calls \ {c} : call'[d] = call[d]
          /\ call'[c].of = call[c].of /\ call'[c].torn = call[c].torn
          /\ call[c].at \in {"mend", "unspawn", "unpost"} /\ call'[c].at \in {"spawn", "over"}
          /\ UNCHANGED <<handle, active, spawned>>
      BY DEF TurnInv, TurnTyped, CallStates
    <2> HIDE DEF DeadHandleStopped, UnspawnEnds, UnpostEnds, Refused, Go
    <2>2. \A d \in Calls \ {c} : Departs(d)'
      BY <1>1, <2>1, OthersDepart DEF Starting, Working
    <2>3. Departs(c)'
      <3>1. Departs(c) /\ (Lost(c) => Lost(c)') /\ Session(c)' = Session(c)
        BY <2>1 DEF WorkspaceInv, Lost, Session
      <3>2. Session(c) \notin native
        BY <2>1, NothingTraced DEF Working
      <3>4. QED
        BY <1>1, <2>1, <3>1, <3>2 DEF WorldFalls, Departs, Engaged, Working, Gone, Lost
    <2>4. QED
      BY <2>2, <2>3
  <1>5. \A d, e \in Calls : d # e => Alone(d, e)'
    BY <1>1, OneInside DEF WorldFalls, WorkspaceInv, Alone, Past, Traced, Departs, Lost, Session,
       Starting, Working, TurnInv, TurnTyped, TakesTurn, CallStates
  <1>6. QED
    BY <1>1, <1>2, <1>3, <1>4, <1>5 DEF WorkspaceInv, WorldFalls

LEMMA StartKeepsSpace ==
  ASSUME TurnInv, TurnInv', WorkspaceInv, NEW c \in Calls, SpawnImpossible(c) \/ Cleared(c)
         \/ SessionFails(c)
  PROVE  WorkspaceInv'
  <1> USE SandboxAssumption DEF Nobody, SpawnImpossible, Cleared, SessionFails, Refused, Go, At,
          desk, world, stewards, keepers
  <1>1. WorldFalls
    BY StopsFall DEF WorldFalls, WorkspaceInv, WorldTyped, BoxesInv, Traced
  <1>2. BoxesInv'
    BY <1>1 DEF WorldFalls, WorkspaceInv, BoxesInv, TurnInv, TurnTyped, TakesTurn, Waits,
       KeepersInv, Locks, CallStates, Handles
  <1>3. \A h \in Handles, d \in Calls : Traced(h, d)'
    BY <1>1 DEF WorldFalls, WorkspaceInv, Traced, Starting, Working, TurnInv, TurnTyped, CallStates
  <1>4. \A d \in Calls : Departs(d)'
    <2>1. /\ \A d \in Calls \ {c} : call'[d] = call[d]
          /\ call'[c].of = call[c].of /\ call'[c].torn = call[c].torn
          /\ call[c].at \in {"spawn", "clear", "post"} /\ call'[c].at \in {"over", "post", "unpost"}
          /\ call'[c].at = "post" => call[c].at = "clear" /\ handle' = handle
          /\ call'[c].at = "unpost" => call[c].at = "post"
          /\ UNCHANGED <<active, spawned, world>>
      BY DEF TurnInv, TurnTyped, CallStates
    <2> HIDE DEF SpawnImpossible, Cleared, SessionFails, Refused, Go
    <2>2. \A d \in Calls \ {c} : Departs(d)'
      BY <1>1, <2>1, OthersDepart DEF Starting, Working
    <2>3. Departs(c)'
      <3>1. Departs(c) /\ (Lost(c) => Lost(c)') /\ Session(c)' = Session(c)
        BY <2>1 DEF WorkspaceInv, Lost, Session
      <3>2. Session(c) \notin native
        BY <2>1, NothingTraced DEF Working
      <3>4. QED
        BY <1>1, <2>1, <3>1, <3>2 DEF WorldFalls, Departs, Engaged, Working, Gone, Lost
    <2>4. QED
      BY <2>2, <2>3
  <1>5. \A d, e \in Calls : d # e => Alone(d, e)'
    BY <1>1, OneInside DEF WorldFalls, WorkspaceInv, Alone, Past, Traced, Departs, Lost, Session,
       Starting, Working, TurnInv, TurnTyped, TakesTurn, CallStates
  <1>6. QED
    BY <1>1, <1>2, <1>3, <1>4, <1>5 DEF WorkspaceInv, WorldFalls

LEMMA CreatedKeepsSpace ==
  ASSUME TurnInv, TurnInv', WorkspaceInv, NEW c \in Calls, SessionCreated(c)
  PROVE  WorkspaceInv'
  <1> USE SandboxAssumption DEF Nobody, SessionCreated, LeaveLife, Go, At, desk, world, stewards,
          keepers
  <1>1. WorldFalls
    BY StopsFall DEF WorldFalls, WorkspaceInv, WorldTyped, BoxesInv, Traced
  <1>2. BoxesInv'
    <2>1. force.stage # "idle" => force.call # c
      BY DEF TurnInv, Waits, Working
    <2>2. QED
      BY <1>1, <2>1 DEF WorldFalls, WorkspaceInv, BoxesInv, TurnInv, TurnTyped, TakesTurn, Waits,
         KeepersInv, Locks, CallStates, Handles
  <1>3. \A h \in Handles, d \in Calls : Traced(h, d)'
    BY <1>1 DEF WorldFalls, WorkspaceInv, Traced, Starting, Working, TurnInv, TurnTyped, CallStates
  <1>4. \A d \in Calls : Departs(d)'
    <2>1. /\ \A d \in Calls \ {c} : call'[d] = call[d]
          /\ call'[c].of = call[c].of /\ call'[c].torn = call[c].torn
          /\ call[c].at = "post" /\ call'[c].at \in {"run", "restore"}
          /\ active' = c /\ UNCHANGED <<handle, spawned, world>>
      BY DEF TurnInv, TurnTyped, CallStates
    <2> HIDE DEF SessionCreated, LeaveLife, Go
    <2>2. \A d \in Calls \ {c} : Departs(d)'
      BY <1>1, <2>1, OthersDepart DEF Starting, Working
    <2>3. Departs(c)'
      <3>1. Departs(c) /\ (Lost(c) => Lost(c)') /\ Session(c)' = Session(c)
        BY <2>1 DEF WorkspaceInv, Lost, Session
      <3>4. QED
        BY <1>1, <2>1, <3>1 DEF WorldFalls, Departs, Engaged, Working, Gone, Lost
    <2>4. QED
      BY <2>2, <2>3
  <1>5. \A d, e \in Calls : d # e => Alone(d, e)'
    BY <1>1, OneInside DEF WorldFalls, WorkspaceInv, Alone, Past, Traced, Departs, Lost, Session,
       Starting, Working, TurnInv, TurnTyped, TakesTurn, CallStates
  <1>6. QED
    BY <1>1, <1>2, <1>3, <1>4, <1>5 DEF WorkspaceInv, WorldFalls

LEMMA RestoreKeepsSpace ==
  ASSUME TurnInv, TurnInv', WorkspaceInv, NEW c \in Calls, Restored(c)
  PROVE  WorkspaceInv'
  <1> USE SandboxAssumption DEF Nobody, Restored, CleanUp, Go, At, desk, world, stewards, keepers
  <1>1. WorldFalls
    BY StopsFall DEF WorldFalls, WorkspaceInv, WorldTyped, BoxesInv, Traced
  <1>2. BoxesInv'
    BY <1>1 DEF WorldFalls, WorkspaceInv, BoxesInv, TurnInv, TurnTyped, TakesTurn, Waits,
       KeepersInv, Locks, CallStates, Handles
  <1>3. \A h \in Handles, d \in Calls : Traced(h, d)'
    BY <1>1 DEF WorldFalls, WorkspaceInv, Traced, Starting, Working, TurnInv, TurnTyped, CallStates
  <1>4. \A d \in Calls : Departs(d)'
    <2>1. /\ \A d \in Calls \ {c} : call'[d] = call[d]
          /\ call'[c].of = call[c].of /\ (call[c].torn => call'[c].torn)
          /\ call[c].at = "restore" /\ call'[c].at \in {"run", "abort", "quiet"}
          /\ UNCHANGED <<handle, active, spawned, world>>
      BY DEF TurnInv, TurnTyped, CallStates
    <2> HIDE DEF Restored, CleanUp, Go
    <2>2. \A d \in Calls \ {c} : Departs(d)'
      BY <1>1, <2>1, OthersDepart DEF Starting, Working
    <2>3. Departs(c)'
      <3>1. Departs(c) /\ (Lost(c) => Lost(c)') /\ Session(c)' = Session(c)
        BY <2>1 DEF WorkspaceInv, Lost, Session
      <3>4. QED
        BY <1>1, <2>1, <3>1 DEF WorldFalls, Departs, Engaged, Working, Gone, Lost
    <2>4. QED
      BY <2>2, <2>3
  <1>5. \A d, e \in Calls : d # e => Alone(d, e)'
    BY <1>1, OneInside DEF WorldFalls, WorkspaceInv, Alone, Past, Traced, Departs, Lost, Session,
       Starting, Working, TurnInv, TurnTyped, TakesTurn, CallStates
  <1>6. QED
    BY <1>1, <1>2, <1>3, <1>4, <1>5 DEF WorkspaceInv, WorldFalls

LEMMA RunKeepsSpace ==
  ASSUME TurnInv, TurnInv', WorkspaceInv, NEW c \in Calls, RunEnds(c) \/ Checkpointed(c) \/ Saved(c)
  PROVE  WorkspaceInv'
  <1> USE SandboxAssumption DEF Nobody, RunEnds, Checkpointed, Saved, CleanUp, Go, At, desk,
          world, stewards, keepers
  <1>1. WorldFalls
    BY SMTT(40), ZenonT(40), StopsFall DEF WorldFalls, WorkspaceInv, WorldTyped, BoxesInv, Traced
  <1>2. BoxesInv'
    BY SMTT(40), ZenonT(40), <1>1 DEF WorldFalls, WorkspaceInv, BoxesInv, TurnInv, TurnTyped, TakesTurn, Waits,
       KeepersInv, Locks, CallStates, Handles
  <1>3. \A h \in Handles, d \in Calls : Traced(h, d)'
    BY <1>1 DEF WorldFalls, WorkspaceInv, Traced, Starting, Working, TurnInv, TurnTyped, CallStates
  <1>4. \A d \in Calls : Departs(d)'
    <2>1. /\ \A d \in Calls \ {c} : call'[d] = call[d]
          /\ call'[c].of = call[c].of /\ (call[c].torn => call'[c].torn)
          /\ \/ call[c].at \in {"run", "checkpoint"} /\ call'[c].at \in {"run", "abort", "quiet"}
             \/ call'[c].at = "fin" /\ (call[c].at = "save" \/ (call[c].at = "run" /\ c \in WholeRuns))
          /\ UNCHANGED <<handle, active, spawned, world>>
      BY DEF TurnInv, TurnTyped, CallStates
    <2> HIDE DEF RunEnds, Checkpointed, Saved, CleanUp, Go
    <2>2. \A d \in Calls \ {c} : Departs(d)'
      BY <1>1, <2>1, OthersDepart DEF Starting, Working
    <2>3. Departs(c)'
      <3>1. Departs(c) /\ (Lost(c) => Lost(c)') /\ Session(c)' = Session(c)
        BY <2>1 DEF WorkspaceInv, Lost, Session
      <3>4. QED
        BY <1>1, <2>1, <3>1 DEF WorldFalls, Departs, Engaged, Working, Gone, Lost
    <2>4. QED
      BY <2>2, <2>3
  <1>5. \A d, e \in Calls : d # e => Alone(d, e)'
    BY SMTT(90), <1>1, OneInside DEF WorldFalls, WorkspaceInv, Alone, Past, Traced, Departs, Lost, Session,
       Starting, Working, TurnInv, TurnTyped, TakesTurn, CallStates
  <1>6. QED
    BY <1>1, <1>2, <1>3, <1>4, <1>5 DEF WorkspaceInv, WorldFalls

LEMMA QuiesceKeepsSpace ==
  ASSUME TurnInv, TurnInv', WorkspaceInv, NEW c \in Calls, QuiesceEntered(c)
  PROVE  WorkspaceInv'
  <1> USE SandboxAssumption DEF Nobody, HoldLife, Go, At, desk, world, stewards, keepers
  <1> /\ EntersLife(c) /\ call[c].at = "quiet"
      /\ \/ active = c /\ handle = call[c].of /\ HoldLife(c, "abort")
         \/ /\ ~(active = c /\ handle = call[c].of) /\ UNCHANGED lock
            /\ \E s \in {"save", "run", "checkpoint"} : call' = [call EXCEPT ![c].at = s, ![c].parked = FALSE]
      /\ UNCHANGED <<desk, world, scratch, stewards>>
    BY DEF QuiesceEntered, AfterQuiet, At
  <1>1. WorldFalls
    BY StopsFall DEF WorldFalls, WorkspaceInv, WorldTyped, BoxesInv, Traced
  <1>2. BoxesInv'
    BY <1>1 DEF WorldFalls, WorkspaceInv, BoxesInv, TurnInv, TurnTyped, TakesTurn, Waits,
       KeepersInv, Locks, CallStates, Handles
  <1>3. \A h \in Handles, d \in Calls : Traced(h, d)'
    BY <1>1 DEF WorldFalls, WorkspaceInv, Traced, Starting, Working, TurnInv, TurnTyped, CallStates
  <1>4. \A d \in Calls : Departs(d)'
    <2>1. /\ \A d \in Calls \ {c} : call'[d] = call[d]
          /\ call'[c].of = call[c].of /\ call'[c].torn = call[c].torn
          /\ call[c].at = "quiet" /\ call'[c].at \in {"abort", "save", "run", "checkpoint"}
          /\ call'[c].at # "abort" => active # c \/ handle # call[c].of
          /\ UNCHANGED <<handle, active, spawned, world>>
      BY DEF TurnInv, TurnTyped, CallStates
    <2> HIDE DEF HoldLife, Go
    <2>2. \A d \in Calls \ {c} : Departs(d)'
      BY <1>1, <2>1, OthersDepart DEF Starting, Working
    <2>3. Departs(c)'
      <3>1. Departs(c) /\ (Lost(c) => Lost(c)') /\ Session(c)' = Session(c)
        BY <2>1 DEF WorkspaceInv, Lost, Session
      <3>2. call'[c].at # "abort" => Gone(c) \/ Lost(c)
        BY <2>1, <3>1 DEF Departs, Engaged
      <3>3. Gone(c) => marker \/ Session(c) \notin native
        BY <2>1, GoneIsQuiet DEF Engaged
      <3>4. QED
        BY <1>1, <2>1, <3>1, <3>2, <3>3 DEF WorldFalls, Departs, Engaged, Working, Gone, Lost
    <2>4. QED
      BY <2>2, <2>3
  <1>5. \A d, e \in Calls : d # e => Alone(d, e)'
    BY <1>1, OneInside DEF WorldFalls, WorkspaceInv, Alone, Past, Traced, Departs, Lost, Session,
       Starting, Working, TurnInv, TurnTyped, TakesTurn, CallStates
  <1>6. QED
    BY <1>1, <1>2, <1>3, <1>4, <1>5 DEF WorkspaceInv, WorldFalls

LEMMA AbortKeepsSpace ==
  ASSUME TurnInv, TurnInv', WorkspaceInv, NEW c \in Calls, QuiesceAborts(c) \/ WholeAborts(c)
  PROVE  WorkspaceInv'
  <1> USE SandboxAssumption DEF Nobody, QuiesceAborts, WholeAborts, AfterQuiet, LeaveLife,
          Session, Go, At, desk, world, stewards, keepers
  <1>1. WorldFalls
    BY StopsFall DEF WorldFalls, WorkspaceInv, WorldTyped, BoxesInv, Traced
  <1>2. BoxesInv'
    BY <1>1 DEF WorldFalls, WorkspaceInv, BoxesInv, TurnInv, TurnTyped, TakesTurn, Waits,
       KeepersInv, Locks, CallStates, Handles
  <1>3. \A h \in Handles, d \in Calls : Traced(h, d)'
    BY <1>1 DEF WorldFalls, WorkspaceInv, Traced, Starting, Working, TurnInv, TurnTyped, CallStates
  <1>4. \A d \in Calls : Departs(d)'
    <2>1. /\ \A d \in Calls \ {c} : call'[d] = call[d]
          /\ call'[c].of = call[c].of /\ call'[c].torn = call[c].torn
          /\ call[c].at = "abort" /\ call'[c].at \in {"save", "run", "checkpoint", "stop", "fin"}
          /\ call'[c].at \in {"save", "run", "checkpoint"} => Session(c) \notin native' /\ handle' = handle
          /\ call'[c].at = "fin" => c \in WholeRuns
          /\ UNCHANGED <<active, spawned, box, marker>>
      BY DEF TurnInv, TurnTyped, CallStates
    <2> HIDE DEF QuiesceAborts, WholeAborts, AfterQuiet, LeaveLife, Go
    <2>2. \A d \in Calls \ {c} : Departs(d)'
      BY <1>1, <2>1, OthersDepart DEF Starting, Working
    <2>3. Departs(c)'
      <3>1. Departs(c) /\ (Lost(c) => Lost(c)') /\ Session(c)' = Session(c)
        BY <2>1 DEF WorkspaceInv, Lost, Session
      <3>4. QED
        BY <1>1, <2>1, <3>1 DEF WorldFalls, Departs, Engaged, Working, Gone, Lost
    <2>4. QED
      BY <2>2, <2>3
  <1>5. \A d, e \in Calls : d # e => Alone(d, e)'
    BY <1>1, OneInside DEF WorldFalls, WorkspaceInv, Alone, Past, Traced, Departs, Lost, Session,
       Starting, Working, TurnInv, TurnTyped, TakesTurn, CallStates
  <1>6. QED
    BY <1>1, <1>2, <1>3, <1>4, <1>5 DEF WorkspaceInv, WorldFalls

LEMMA StrictKeepsSpace ==
  ASSUME TurnInv, TurnInv', WorkspaceInv, NEW c \in Calls, StrictStopEnds(c)
  PROVE  WorkspaceInv'
  <1> USE SandboxAssumption DEF Nobody, StrictStopEnds, AfterQuiet, LeaveLife, CleanUp, Go, At,
          desk, world, stewards, keepers
  <1>1. WorldFalls
    BY StopsFall DEF WorldFalls, WorkspaceInv, WorldTyped, BoxesInv, Traced
  <1>2. BoxesInv'
    BY SMTT(90), <1>1 DEF WorldFalls, WorkspaceInv, BoxesInv, TurnInv, TurnTyped, TakesTurn, Waits,
       KeepersInv, Locks, CallStates, Handles
  <1>3. \A h \in Handles, d \in Calls : Traced(h, d)'
    BY <1>1 DEF WorldFalls, WorkspaceInv, Traced, Starting, Working, TurnInv, TurnTyped, CallStates
  <1>4. \A d \in Calls : Departs(d)'
    <2>1. call[c].of \in Handles
      BY DEF WorkspaceInv, Departs, TurnInv, TurnTyped, CallStates, Handles, Working
    <2>2. marker' \/ ~box'[call[c].of].up
      BY <2>1, StopsFall
    <2>3. Session(c) \notin native' \/ marker'
      BY <1>1, <2>1, <2>2 DEF WorldFalls, Session
    <2>4. /\ \A d \in Calls \ {c} : call'[d] = call[d]
          /\ call'[c].of = call[c].of /\ call'[c].torn = call[c].torn
          /\ call'[c].at \in {"save", "run", "checkpoint", "fin", "quiet", "abort"} /\ call[c].at = "stop"
          /\ UNCHANGED desk
      BY DEF TurnInv, TurnTyped, CallStates
    <2> HIDE DEF StrictStopEnds
    <2>5. \A d \in Calls \ {c} : Departs(d)'
      BY <1>1, <2>4, OthersDepart DEF Working
    <2>6. Departs(c)'
      <3>1. Departs(c) /\ (Lost(c) => Lost(c)') /\ Session(c)' = Session(c)
        BY <2>4 DEF WorkspaceInv, Lost, Session
      <3>2. Gone(c)'
        BY <2>2, <2>4 DEF Gone
      <3>3. call[c].of # 0 /\ call[c].of <= spawned
        BY <2>1, <3>1 DEF Departs, Handles
      <3>4. QED
        BY <2>3, <2>4, <3>1, <3>2, <3>3 DEF Departs
    <2>7. QED
      BY <2>5, <2>6
  <1>5. \A d, e \in Calls : d # e => Alone(d, e)'
    BY <1>1, OneInside DEF WorldFalls, WorkspaceInv, Alone, Past, Traced, Departs, Lost, Session,
       Starting, Working, TurnInv, TurnTyped, TakesTurn, CallStates
  <1>6. QED
    BY <1>1, <1>2, <1>3, <1>4, <1>5 DEF WorkspaceInv, WorldFalls

LEMMA FinishKeepsSpace ==
  ASSUME TurnInv, TurnInv', WorkspaceInv, NEW c \in Calls, FinishEntered(c)
  PROVE  WorkspaceInv'
  <1> USE SandboxAssumption DEF Nobody, GiveUp, HoldLife, Refused, At, desk, world, stewards,
          keepers
  <1> /\ EntersLife(c) /\ call[c].at = "fin"
      /\ \/ active # c /\ call' = [call EXCEPT ![c].at = "over", ![c].parked = FALSE] /\ UNCHANGED <<lock, active>>
         \/ active = c /\ handle = call[c].of /\ HoldLife(c, "delete") /\ UNCHANGED active
         \/ active = c /\ handle # call[c].of /\ GiveUp(c)
      /\ UNCHANGED <<handle, spawned, world, scratch, stewards>>
    BY DEF FinishEntered, At
  <1>1. WorldFalls
    BY StopsFall DEF WorldFalls, WorkspaceInv, WorldTyped, BoxesInv, Traced
  <1>2. BoxesInv'
    BY <1>1 DEF WorldFalls, WorkspaceInv, BoxesInv, TurnInv, TurnTyped, TakesTurn, Waits,
       KeepersInv, Locks, CallStates, Handles
  <1>3. \A h \in Handles, d \in Calls : Traced(h, d)'
    BY <1>1 DEF WorldFalls, WorkspaceInv, Traced, Starting, Working, TurnInv, TurnTyped, CallStates
  <1>4. \A d \in Calls : Departs(d)'
    <2>1. /\ \A d \in Calls \ {c} : call'[d] = call[d]
          /\ call'[c].of = call[c].of /\ call'[c].torn = call[c].torn
          /\ call[c].at = "fin" /\ call'[c].at \in {"over", "delete", "scrub"}
          /\ UNCHANGED <<handle, spawned, world>>
      BY DEF TurnInv, TurnTyped, CallStates
    <2> HIDE DEF GiveUp, HoldLife, Refused
    <2>2. \A d \in Calls \ {c} : Departs(d)'
      BY <1>1, <2>1, OthersDepart DEF Starting, Working
    <2>3. Departs(c)'
      <3>1. Departs(c) /\ (Lost(c) => Lost(c)') /\ Session(c)' = Session(c)
        BY <2>1 DEF WorkspaceInv, Lost, Session
      <3>4. QED
        BY <1>1, <2>1, <3>1 DEF WorldFalls, Departs, Engaged, Working, Gone, Lost
    <2>4. QED
      BY <2>2, <2>3
  <1>5. \A d, e \in Calls : d # e => Alone(d, e)'
    BY SMTT(40), ZenonT(40), <1>1, OneInside DEF WorldFalls, WorkspaceInv, Alone, Past, Traced, Departs, Lost, Session,
       Starting, Working, TurnInv, TurnTyped, TakesTurn, CallStates
  <1>6. QED
    BY <1>1, <1>2, <1>3, <1>4, <1>5 DEF WorkspaceInv, WorldFalls

LEMMA DeleteKeepsSpace ==
  ASSUME TurnInv, TurnInv', WorkspaceInv, NEW c \in Calls, SessionDeleted(c) \/ Scrubbed(c)
  PROVE  WorkspaceInv'
  <1> USE SandboxAssumption DEF Nobody, SessionDeleted, Scrubbed, GiveUp, HoldLife, Refused, Go,
          At, desk, world, stewards, keepers
  <1>1. WorldFalls
    BY StopsFall DEF WorldFalls, WorkspaceInv, WorldTyped, BoxesInv, Traced
  <1>2. BoxesInv'
    BY <1>1 DEF WorldFalls, WorkspaceInv, BoxesInv, TurnInv, TurnTyped, TakesTurn, Waits,
       KeepersInv, Locks, CallStates, Handles
  <1>3. \A h \in Handles, d \in Calls : Traced(h, d)'
    BY <1>1 DEF WorldFalls, WorkspaceInv, Traced, Starting, Working, TurnInv, TurnTyped, CallStates
  <1>4. \A d \in Calls : Departs(d)'
    <2>1. /\ \A d \in Calls \ {c} : call'[d] = call[d]
          /\ call'[c].of = call[c].of /\ call'[c].torn = call[c].torn
          /\ \/ call[c].at = "delete" /\ call'[c].at \in {"over", "drop", "scrub"}
             \/ call[c].at = "scrub" /\ call'[c].at = "over"
          /\ UNCHANGED <<spawned, world>>
      BY DEF TurnInv, TurnTyped, CallStates
    <2> HIDE DEF SessionDeleted, Scrubbed, GiveUp, HoldLife, Refused, Go
    <2>2. \A d \in Calls \ {c} : Departs(d)'
      BY <1>1, <2>1, OthersDepart DEF Starting, Working
    <2>3. Departs(c)'
      <3>1. Departs(c) /\ (Lost(c) => Lost(c)') /\ Session(c)' = Session(c)
        BY <2>1 DEF WorkspaceInv, Lost, Session
      <3>4. QED
        BY <1>1, <2>1, <3>1 DEF WorldFalls, Departs, Engaged, Working, Gone, Lost
    <2>4. QED
      BY <2>2, <2>3
  <1>5. \A d, e \in Calls : d # e => Alone(d, e)'
    BY SMTT(40), ZenonT(40), <1>1, OneInside DEF WorldFalls, WorkspaceInv, Alone, Past, Traced, Departs, Lost, Session,
       Starting, Working, TurnInv, TurnTyped, TakesTurn, CallStates
  <1>6. QED
    BY <1>1, <1>2, <1>3, <1>4, <1>5 DEF WorkspaceInv, WorldFalls

LEMMA DropKeepsSpace ==
  ASSUME TurnInv, TurnInv', WorkspaceInv, NEW c \in Calls, Dropped(c)
  PROVE  WorkspaceInv'
  <1> USE SandboxAssumption DEF Nobody, Dropped, GiveUp, HoldLife, Refused, Go, At, desk, world,
          stewards, keepers
  <1>1. WorldFalls
    BY StopsFall DEF WorldFalls, WorkspaceInv, WorldTyped, BoxesInv, Traced
  <1>2. BoxesInv'
    BY SMTT(30), <1>1 DEF WorldFalls, WorkspaceInv, BoxesInv, TurnInv, TurnTyped, TakesTurn, Waits,
       KeepersInv, Locks, CallStates, Handles
  <1>3. \A h \in Handles, d \in Calls : Traced(h, d)'
    BY <1>1 DEF WorldFalls, WorkspaceInv, Traced, Starting, Working, TurnInv, TurnTyped, CallStates
  <1>4. \A d \in Calls : Departs(d)'
    <2>1. /\ \A d \in Calls \ {c} : call'[d] = call[d]
          /\ call'[c].of = call[c].of /\ call'[c].torn = call[c].torn
          /\ call[c].at = "drop" /\ call'[c].at \in {"over", "scrub"}
          /\ UNCHANGED <<handle, spawned>>
      BY DEF TurnInv, TurnTyped, CallStates
    <2> HIDE DEF Dropped, GiveUp, HoldLife, Refused, Go
    <2>2. \A d \in Calls \ {c} : Departs(d)'
      BY <1>1, <2>1, OthersDepart DEF Starting, Working
    <2>3. Departs(c)'
      <3>1. Departs(c) /\ (Lost(c) => Lost(c)') /\ Session(c)' = Session(c)
        BY <2>1 DEF WorkspaceInv, Lost, Session
      <3>4. QED
        BY <1>1, <2>1, <3>1 DEF WorldFalls, Departs, Engaged, Working, Gone, Lost
    <2>4. QED
      BY <2>2, <2>3
  <1>5. \A d, e \in Calls : d # e => Alone(d, e)'
    BY <1>1, OneInside DEF WorldFalls, WorkspaceInv, Alone, Past, Traced, Departs, Lost, Session,
       Starting, Working, TurnInv, TurnTyped, TakesTurn, CallStates
  <1>6. QED
    BY <1>1, <1>2, <1>3, <1>4, <1>5 DEF WorkspaceInv, WorldFalls

LEMMA CutBeginKeepsSpace ==
  ASSUME TurnInv, TurnInv', WorkspaceInv, NEW c \in Calls, Cut(c) /\ CutBegin(c)
  PROVE  WorkspaceInv'
  <1> USE SandboxAssumption DEF Nobody, Cut, CutBegin, Refused, At, desk, world, stewards, keepers
  <1>1. WorldFalls
    BY StopsFall DEF WorldFalls, WorkspaceInv, WorldTyped, BoxesInv, Traced
  <1>2. BoxesInv'
    BY <1>1 DEF WorldFalls, WorkspaceInv, BoxesInv, TurnInv, TurnTyped, TakesTurn, Waits,
       KeepersInv, Locks, CallStates, Handles
  <1>3. \A h \in Handles, d \in Calls : Traced(h, d)'
    BY <1>1 DEF WorldFalls, WorkspaceInv, Traced, Starting, Working, TurnInv, TurnTyped, CallStates
  <1>4. \A d \in Calls : Departs(d)'
    <2>1. /\ \A d \in Calls \ {c} : call'[d] = call[d]
          /\ call'[c].of = call[c].of /\ call'[c].at = "over" /\ call'[c].torn = call[c].torn
          /\ call[c].at \in {"queue", "slot", "post", "begin"}
          /\ UNCHANGED <<handle, spawned, active, box, native, marker>>
      BY DEF TurnInv, TurnTyped, CallStates
    <2>2. \A d \in Calls : Departs(d) /\ call[d].at \in Stages
      BY DEF WorkspaceInv, TurnInv, TurnTyped, CallStates
    <2>3. Session(c) \notin native
      BY <2>1 DEF WorkspaceInv, Traced, Session, Working, TurnInv, TurnTyped, CallStates, WorldTyped
    <2> HIDE DEF Cut, CutBegin, Refused
    <2>4. ASSUME NEW d \in Calls \ {c}
          PROVE  Departs(d)'
      BY <2>1, <2>2 DEF Departs, Gone, Lost, Session, Engaged, Working, InLife
    <2>5. Departs(c)'
      BY <2>1, <2>2, <2>3 DEF Departs, Gone, Lost, Session, Engaged, Working
    <2>6. QED
      BY <2>4, <2>5
  <1>5. \A d, e \in Calls : d # e => Alone(d, e)'
    BY <1>1, OneInside DEF WorldFalls, WorkspaceInv, Alone, Past, Traced, Departs, Lost, Session,
       Starting, Working, TurnInv, TurnTyped, TakesTurn, CallStates
  <1>6. QED
    BY <1>1, <1>2, <1>3, <1>4, <1>5 DEF WorkspaceInv, WorldFalls

LEMMA CutRunKeepsSpace ==
  ASSUME TurnInv, TurnInv', WorkspaceInv, NEW c \in Calls, Cut(c) /\ CutRun(c)
  PROVE  WorkspaceInv'
  <1> USE SandboxAssumption DEF Nobody, Cut, CutRun, CleanUp, At, desk, world, stewards, keepers
  <1>1. WorldFalls
    BY StopsFall DEF WorldFalls, WorkspaceInv, WorldTyped, BoxesInv, Traced
  <1>2. /\ \A d \in Calls \ {c} : call'[d] = call[d]
        /\ call'[c].of = call[c].of /\ (call[c].torn => call'[c].torn)
        /\ call'[c].at \in {"quiet", "abort"}
        /\ call[c].at \in Engaged \cup {"stop"} /\ (At(c, "stop") => call'[c].torn)
        /\ UNCHANGED <<handle, spawned>>
        /\ active' = active \/ (active' = Nobody /\ call'[c].at \in {"over", "scrub"})
    BY DEF TurnInv, TurnTyped, CallStates, Engaged, Working
  <1>3. BoxesInv'
    <2>1. UNCHANGED <<desk, force>> /\ \A d \in Calls : call'[d].of = call[d].of
      BY <1>2
    <2> HIDE DEF Cut, CutRun, CleanUp
    <2>2. QED
      BY <1>1, <2>1 DEF WorldFalls, WorkspaceInv, BoxesInv, TurnInv, TurnTyped, Handles
  <1>4. \A h \in Handles, d \in Calls : Traced(h, d)'
    BY <1>1 DEF WorldFalls, WorkspaceInv, Traced, Starting, Working, TurnInv, TurnTyped, CallStates
  <1> HIDE DEF Cut, CutRun, CleanUp
  <1>5. \A d \in Calls \ {c} : Departs(d)'
    BY <1>1, <1>2, OneInside DEF WorldFalls, WorkspaceInv, WorldTyped, BoxesInv, Departs,
       Traced, Engaged, Gone, Lost, Session, Starting, Working, TurnInv, TurnTyped, TakesTurn,
       Waits, Released, InLife, CallStates, Handles
  <1>6. Departs(c)'
    BY <1>1, <1>2 DEF WorldFalls, WorkspaceInv, WorldTyped, BoxesInv, Departs, Traced, Engaged,
       Gone, Lost, Session, Starting, Working, TurnInv, TurnTyped, TakesTurn, Waits, Released,
       InLife, CallStates, Handles
  <1>7. \A d, e \in Calls : d # e => Alone(d, e)'
    <2>1. scratch' = scratch
      BY DEF Cut, CutRun
    <2>2. c # Nobody /\ Engaged \cup {"stop"} \subseteq Working
      BY DEF Engaged, Working
    <2>3. \A d \in Calls : (active' = d => active = d) /\ (call'[d].at \in Working => call[d].at \in Working)
      BY <1>2, <2>2
    <2>4. \A d \in Calls : Past(d)' => Past(d)
      BY <1>2, <2>2, <2>3 DEF Past, Working
    <2>5. \A d \in Calls : At(d, "post")' => At(d, "post")
      BY <1>2
    <2>6. \A d \in Calls : Session(d)' = Session(d) /\ (Lost(d) => Lost(d)')
      BY <1>2 DEF Session, Lost
    <2>7. native' \subseteq native /\ \A d, e \in Calls : d # e => Alone(d, e)
      BY <1>1 DEF WorldFalls, WorkspaceInv
    <2>8. QED
      BY <2>1, <2>3, <2>4, <2>5, <2>6, <2>7 DEF Alone
  <1>8. \A d \in Calls : Departs(d)'
    BY <1>5, <1>6
  <1>9. QED
    BY <1>1, <1>3, <1>4, <1>7, <1>8 DEF WorkspaceInv, WorldFalls

LEMMA CutShieldKeepsSpace ==
  ASSUME TurnInv, TurnInv', WorkspaceInv, NEW c \in Calls, Cut(c) /\ CutShield(c)
  PROVE  WorkspaceInv'
  <1> USE SandboxAssumption DEF Nobody, Cut, CutShield, At, desk, world, stewards, keepers
  <1>1. WorldFalls
    BY StopsFall DEF WorldFalls, WorkspaceInv, WorldTyped, BoxesInv, Traced
  <1>2. BoxesInv'
    BY <1>1 DEF WorldFalls, WorkspaceInv, BoxesInv, TurnInv, TurnTyped, TakesTurn, Waits,
       KeepersInv, Locks, CallStates, Handles
  <1>3. \A h \in Handles, d \in Calls : Traced(h, d)'
    BY <1>1 DEF WorldFalls, WorkspaceInv, Traced, Starting, Working, TurnInv, TurnTyped, CallStates
  <1>4. \A d \in Calls : Departs(d)'
    <2>1. /\ UNCHANGED <<desk, world>>
          /\ \A d \in Calls : /\ call'[d].at = call[d].at /\ call'[d].of = call[d].of
                              /\ call'[d].torn = call[d].torn
      BY DEF TurnInv, TurnTyped, CallStates
    <2>2. QED
      BY <2>1, SameDeparts
  <1>5. \A d, e \in Calls : d # e => Alone(d, e)'
    BY <1>1, OneInside DEF WorldFalls, WorkspaceInv, Alone, Past, Traced, Departs, Lost, Session,
       Starting, Working, TurnInv, TurnTyped, TakesTurn, CallStates
  <1>6. QED
    BY <1>1, <1>2, <1>3, <1>4, <1>5 DEF WorkspaceInv, WorldFalls

LEMMA CutCleanUpKeepsSpace ==
  ASSUME TurnInv, TurnInv', WorkspaceInv, NEW c \in Calls, Cut(c) /\ CutCleanUp(c)
  PROVE  WorkspaceInv'
  <1> USE SandboxAssumption DEF Nobody, Cut, CutCleanUp, GiveUp, HoldLife, Refused, At, desk,
          world, stewards, keepers
  <1>1. WorldFalls
    <2>1. ShutDown(call[c].of) \/ UNCHANGED world
      BY Zenon
    <2>2. CASE ShutDown(call[c].of)
      BY <2>2, StopsFall
    <2> HIDE DEF Cut, CutCleanUp, GiveUp, HoldLife, Refused
    <2>3. CASE UNCHANGED world
      BY <2>3 DEF WorldFalls, WorkspaceInv, WorldTyped, BoxesInv, Traced
    <2>4. QED
      BY <2>1, <2>2, <2>3
  <1>2. BoxesInv'
    <2>1. /\ UNCHANGED <<handle, spawned, force>> /\ active' \in {active, Nobody}
          /\ \A d \in Calls : call'[d].of = call[d].of
      BY DEF TurnInv, TurnTyped, CallStates
    <2> HIDE DEF CutCleanUp, GiveUp, Refused, HoldLife
    <2>2. QED
      BY <1>1, <2>1 DEF WorldFalls, WorkspaceInv, BoxesInv, TurnInv, TurnTyped, Handles
  <1>3. \A h \in Handles, d \in Calls : Traced(h, d)'
    <2>1. /\ \A d \in Calls : call'[d].of = call[d].of
          /\ \A d \in Calls : call[d].at \in (Working \ {"restore"}) \cup {"scrub", "over"}
                            => call'[d].at \in (Working \ {"restore"}) \cup {"scrub", "over"}
      <3>1. /\ \A d \in Calls \ {c} : call'[d] = call[d]
            /\ call'[c].of = call[c].of /\ call'[c].at \in {"fin", "over", "scrub"}
        BY DEF TurnInv, TurnTyped, CallStates
      <3> HIDE DEF Cut, CutCleanUp, GiveUp, HoldLife, Refused
      <3>2. QED
        BY <3>1 DEF Working
    <2> HIDE DEF Cut, CutCleanUp, GiveUp, HoldLife, Refused
    <2>2. QED
      BY <1>1, <2>1 DEF WorldFalls, WorkspaceInv, Traced, Working
  <1>4. \A d \in Calls : Departs(d)'
    <2>1. /\ \A d \in Calls \ {c} : call'[d] = call[d]
          /\ call'[c].of = call[c].of /\ (call[c].torn => call'[c].torn)
          /\ call'[c].at \in {"fin", "over", "scrub"}
          /\ call[c].at \in Engaged \cup {"stop"} => call'[c].torn \/ c \in WholeRuns
          /\ call[c].at \in Working \/ (At(c, "scrub") /\ call'[c].at = "over")
          /\ UNCHANGED <<handle, spawned>>
          /\ active' = active \/ (active' = Nobody /\ call'[c].at \in {"over", "scrub"})
      BY DEF TurnInv, TurnTyped, CallStates, Engaged, Working
    <2> HIDE DEF CutCleanUp, CleanUp, GiveUp, Refused, HoldLife
    <2>2. \A d \in Calls \ {c} : Departs(d)'
      BY <1>1, <2>1, OneInside DEF WorldFalls, WorkspaceInv, WorldTyped, BoxesInv, Departs,
         Traced, Engaged, Gone, Lost, Session, Starting, Working, TurnInv, TurnTyped, TakesTurn,
         Waits, Released, InLife, CallStates, Handles
    <2>3. Departs(c)'
      <3>1. Lost(c)' \/ marker \/ Lost(c) \/ Session(c) \notin native
        BY <2>1 DEF Lost, Engaged, Working, WorkspaceInv, Departs
      <3>2. Lost(c)' \/ marker' \/ Session(c)' \notin native'
        BY <1>1, <2>1, <3>1 DEF Lost, WorldFalls, Session
      <3>3. call'[c].of <= spawned' /\ (call'[c].at = "fin" => call'[c].of # 0)
        BY <2>1 DEF WorkspaceInv, Departs, Working
      <3>4. QED
        BY <2>1, <3>2, <3>3 DEF Departs, Working, Engaged
    <2>4. QED
      BY <2>2, <2>3
  <1>5. \A d, e \in Calls : d # e => Alone(d, e)'
    <2>1. /\ \A d \in Calls \ {c} : call'[d] = call[d]
          /\ call'[c].of = call[c].of /\ (call[c].torn => call'[c].torn)
          /\ call'[c].at \in {"fin", "over", "scrub"}
          /\ call[c].at \in Working \/ (At(c, "scrub") /\ call'[c].at = "over")
          /\ active' = active \/ (active' = Nobody /\ call'[c].at \in {"over", "scrub"})
          /\ scratch' \subseteq scratch
      BY DEF TurnInv, TurnTyped, CallStates, Working
    <2> HIDE DEF Cut, CutCleanUp, CleanUp, GiveUp, Refused, HoldLife
    <2>2. \A d \in Calls : /\ active' = d => active = d
                          /\ call'[d].at \in Working => call[d].at \in Working
      BY <2>1 DEF Working
    <2>3. \A d \in Calls : Past(d)' => Past(d)
      BY <2>1, <2>2 DEF Past, Working
    <2>4. \A d \in Calls : At(d, "post")' => At(d, "post")
      BY <2>1
    <2>5. \A d \in Calls : Session(d)' = Session(d) /\ (Lost(d) => Lost(d)')
      BY <2>1 DEF Session, Lost
    <2>6. native' \subseteq native /\ \A d, e \in Calls : d # e => Alone(d, e)
      BY <1>1 DEF WorldFalls, WorkspaceInv
    <2>7. QED
      BY <2>1, <2>2, <2>3, <2>4, <2>5, <2>6 DEF Alone
  <1>6. QED
    BY <1>1, <1>2, <1>3, <1>4, <1>5 DEF WorkspaceInv, WorldFalls


LEMMA ForceStartsKeepsSpace ==
  ASSUME TurnInv, TurnInv', WorkspaceInv, ForceStarts
  PROVE  WorkspaceInv'
  <1> USE SandboxAssumption DEF Nobody, ForceStarts, At, desk, world, stewards, keepers
  <1>1. WorldFalls
    BY StopsFall DEF WorldFalls, WorkspaceInv, WorldTyped, BoxesInv, Traced
  <1>2. BoxesInv'
    BY <1>1 DEF WorldFalls, WorkspaceInv, BoxesInv, Departs, TurnInv, TurnTyped, TakesTurn, Waits,
       KeepersInv, Locks, CallStates, Handles
  <1>3. \A h \in Handles, d \in Calls : Traced(h, d)'
    BY <1>1 DEF WorldFalls, WorkspaceInv, Traced, Starting, Working, TurnInv, TurnTyped, CallStates
  <1>4. \A d \in Calls : Departs(d)'
    BY <1>1, OneInside DEF WorldFalls, WorkspaceInv, WorldTyped, BoxesInv, Departs, Traced,
       Engaged, Gone, Lost, Session, Starting, Working, TurnInv, TurnTyped, TakesTurn, Waits,
       Released, InLife, CallStates, Handles
  <1>5. \A d, e \in Calls : d # e => Alone(d, e)'
    BY <1>1, OneInside DEF WorldFalls, WorkspaceInv, Alone, Past, Traced, Departs, Lost, Session,
       Starting, Working, TurnInv, TurnTyped, TakesTurn, CallStates
  <1>6. QED
    BY <1>1, <1>2, <1>3, <1>4, <1>5 DEF WorkspaceInv, WorldFalls

LEMMA ForceStoppedKeepsSpace ==
  ASSUME TurnInv, TurnInv', WorkspaceInv, ForceStopped
  PROVE  WorkspaceInv'
  <1> USE SandboxAssumption DEF Nobody, ForceStopped, At, desk, world, stewards, keepers
  <1>1. WorldFalls
    BY StopsFall DEF WorldFalls, WorkspaceInv, WorldTyped, BoxesInv, Traced
  <1>0. /\ force.box \in Handles /\ (marker' \/ ~box'[force.box].up)
        /\ force.stage = "stop" /\ force'.stage \in {"done", "fin"} /\ force'.box = force.box
        /\ force'.call = force.call /\ (force'.stage = "fin" => force.call # Nobody)
        /\ handle' = IF handle = force.box THEN 0 ELSE handle
        /\ UNCHANGED <<call, active, spawned, scratch>>
    <2>1. force.box \in Handles
      BY DEF WorkspaceInv, BoxesInv, TurnInv, TurnTyped, Handles
    <2>2. marker' \/ ~box'[force.box].up
      BY <2>1, StopsFall
    <2>3. QED
      BY <2>1, <2>2 DEF TurnInv, TurnTyped
  <1> HIDE DEF ForceStopped
  <1>2. BoxesInv'
    BY <1>0, <1>1 DEF WorldFalls, WorkspaceInv, BoxesInv, TurnInv, TurnTyped, Handles
  <1>3. \A h \in Handles, d \in Calls : Traced(h, d)'
    BY <1>0, <1>1 DEF WorldFalls, WorkspaceInv, Traced
  <1>4. \A d \in Calls : Departs(d)'
    BY <1>0, <1>1 DEF WorldFalls, WorkspaceInv, Departs, Engaged, Gone, Lost, Session, Working,
       TurnInv, TurnTyped, CallStates, Handles
  <1>5. \A d, e \in Calls : d # e => Alone(d, e)'
    BY <1>0, <1>1 DEF WorldFalls, WorkspaceInv, Alone, Past, Lost, Session
  <1>6. QED
    BY <1>1, <1>2, <1>3, <1>4, <1>5 DEF WorkspaceInv, WorldFalls

LEMMA ForceFinishesKeepsSpace ==
  ASSUME TurnInv, TurnInv', WorkspaceInv, ForceFinishes \/ ForceScrubbed
  PROVE  WorkspaceInv'
  <1> USE SandboxAssumption DEF Nobody, ForceFinishes, ForceScrubbed, At, desk, world, stewards,
          keepers
  <1>1. WorldFalls
    BY StopsFall DEF WorldFalls, WorkspaceInv, WorldTyped, BoxesInv, Traced
  <1>2. BoxesInv'
    BY <1>1 DEF WorldFalls, WorkspaceInv, BoxesInv, Departs, TurnInv, TurnTyped, TakesTurn, Waits,
       KeepersInv, Locks, CallStates, Handles
  <1>3. \A h \in Handles, d \in Calls : Traced(h, d)'
    BY <1>1 DEF WorldFalls, WorkspaceInv, Traced, Starting, Working, TurnInv, TurnTyped, CallStates
  <1>4. \A d \in Calls : Departs(d)'
    BY <1>1, OneInside DEF WorldFalls, WorkspaceInv, WorldTyped, BoxesInv, Departs, Traced,
       Engaged, Gone, Lost, Session, Starting, Working, TurnInv, TurnTyped, TakesTurn, Waits,
       Released, InLife, CallStates, Handles
  <1>5. \A d, e \in Calls : d # e => Alone(d, e)'
    BY <1>1, OneInside DEF WorldFalls, WorkspaceInv, Alone, Past, Traced, Departs, Lost, Session,
       Starting, Working, TurnInv, TurnTyped, TakesTurn, CallStates
  <1>6. QED
    BY <1>1, <1>2, <1>3, <1>4, <1>5 DEF WorkspaceInv, WorldFalls

LEMMA ReapStartsKeepsSpace ==
  ASSUME TurnInv, TurnInv', WorkspaceInv, ReapStarts
  PROVE  WorkspaceInv'
  <1> USE SandboxAssumption DEF Nobody, ReapStarts, Alive, Busy, At, desk, world, stewards, keepers
  <1>1. WorldFalls
    BY StopsFall DEF WorldFalls, WorkspaceInv, WorldTyped, BoxesInv, Traced
  <1>2. BoxesInv'
    BY <1>1 DEF WorldFalls, WorkspaceInv, BoxesInv, Departs, TurnInv, TurnTyped, TakesTurn, Waits,
       KeepersInv, Locks, CallStates, Handles
  <1>3. \A h \in Handles, d \in Calls : Traced(h, d)'
    BY <1>1 DEF WorldFalls, WorkspaceInv, Traced, Starting, Working, TurnInv, TurnTyped, CallStates
  <1>4. \A d \in Calls : Departs(d)'
    BY <1>1, OneInside DEF WorldFalls, WorkspaceInv, WorldTyped, BoxesInv, Departs, Traced,
       Engaged, Gone, Lost, Session, Starting, Working, TurnInv, TurnTyped, TakesTurn, Waits,
       Released, InLife, CallStates, Handles
  <1>5. \A d, e \in Calls : d # e => Alone(d, e)'
    BY <1>1, OneInside DEF WorldFalls, WorkspaceInv, Alone, Past, Traced, Departs, Lost, Session,
       Starting, Working, TurnInv, TurnTyped, TakesTurn, CallStates
  <1>6. QED
    BY <1>1, <1>2, <1>3, <1>4, <1>5 DEF WorkspaceInv, WorldFalls

LEMMA ReaperKeepsSpace ==
  ASSUME TurnInv, TurnInv', WorkspaceInv, ReapEnds \/ CloseAll \/ TornDown
  PROVE  WorkspaceInv'
  <1> USE SandboxAssumption DEF Nobody, ReapEnds, CloseAll, TornDown, At, desk, world, stewards,
          keepers
  <1>1. WorldFalls
    BY StopsFall DEF WorldFalls, WorkspaceInv, WorldTyped, BoxesInv, Traced
  <1>2. BoxesInv'
    BY <1>1 DEF WorldFalls, WorkspaceInv, BoxesInv, Departs, TurnInv, TurnTyped, TakesTurn, Waits,
       KeepersInv, Locks, CallStates, Handles
  <1>3. \A h \in Handles, d \in Calls : Traced(h, d)'
    BY <1>1 DEF WorldFalls, WorkspaceInv, Traced, Starting, Working, TurnInv, TurnTyped, CallStates
  <1>4. \A d \in Calls : Departs(d)'
    BY <1>1, OneInside DEF WorldFalls, WorkspaceInv, WorldTyped, BoxesInv, Departs, Traced,
       Engaged, Gone, Lost, Session, Starting, Working, TurnInv, TurnTyped, TakesTurn, Waits,
       Released, InLife, CallStates, Handles
  <1>5. \A d, e \in Calls : d # e => Alone(d, e)'
    BY <1>1, OneInside DEF WorldFalls, WorkspaceInv, Alone, Past, Traced, Departs, Lost, Session,
       Starting, Working, TurnInv, TurnTyped, TakesTurn, CallStates
  <1>6. QED
    BY <1>1, <1>2, <1>3, <1>4, <1>5 DEF WorkspaceInv, WorldFalls

LEMMA TeardownKeepsSpace ==
  ASSUME TurnInv, TurnInv', WorkspaceInv, TeardownLocks
  PROVE  WorkspaceInv'
  <1> USE SandboxAssumption DEF Nobody, TeardownLocks, At, desk, world, stewards, keepers
  <1>1. WorldFalls
    BY StopsFall DEF WorldFalls, WorkspaceInv, WorldTyped, BoxesInv, Traced
  <1>2. BoxesInv'
    BY <1>1 DEF WorldFalls, WorkspaceInv, BoxesInv, Departs, TurnInv, TurnTyped, TakesTurn, Waits,
       KeepersInv, Locks, CallStates, Handles
  <1>3. \A h \in Handles, d \in Calls : Traced(h, d)'
    BY <1>1 DEF WorldFalls, WorkspaceInv, Traced, Starting, Working, TurnInv, TurnTyped, CallStates
  <1>4. \A d \in Calls : Departs(d)'
    <2>1. CASE handle' = handle
      BY <2>1 DEF WorkspaceInv, Departs, Gone, Lost, Session
    <2>2. CASE handle' # handle
      <3>1. lock.lease = "teardown" /\ lock.life = Nobody
        BY <2>2 DEF TurnInv, KeepersInv
      <3>2. \A d \in Calls : active # d /\ call[d].at \notin {"clear", "post"}
        BY <3>1 DEF TurnInv, TakesTurn, InLife
      <3>3. QED
        BY <3>2 DEF WorkspaceInv, Departs, Gone, Lost, Session
    <2>3. QED
      BY <2>1, <2>2
  <1>5. \A d, e \in Calls : d # e => Alone(d, e)'
    BY <1>1, OneInside DEF WorldFalls, WorkspaceInv, Alone, Past, Traced, Departs, Lost, Session,
       Starting, Working, TurnInv, TurnTyped, TakesTurn, CallStates
  <1>6. QED
    BY <1>1, <1>2, <1>3, <1>4, <1>5 DEF WorkspaceInv, WorldFalls

LEMMA WorkerKeepsSpace ==
  ASSUME TurnInv, TurnInv', WorkspaceInv, \E h \in Handles, c \in Calls : NativeWrites(h, c)
         \/ NativeEnds(h, c)
  PROVE  WorkspaceInv'
  <1> USE SandboxAssumption DEF Nobody, NativeWrites, NativeEnds, At, desk, world, stewards, keepers
  <1>1. WorldFalls
    BY StopsFall DEF WorldFalls, WorkspaceInv, WorldTyped, BoxesInv, Traced
  <1>2. BoxesInv'
    BY <1>1 DEF WorldFalls, WorkspaceInv, BoxesInv, Departs, TurnInv, TurnTyped, TakesTurn, Waits,
       KeepersInv, Locks, CallStates, Handles
  <1>3. \A h \in Handles, d \in Calls : Traced(h, d)'
    BY <1>1 DEF WorldFalls, WorkspaceInv, Traced, Starting, Working, TurnInv, TurnTyped, CallStates
  <1>4. \A d \in Calls : Departs(d)'
    BY <1>1, OneInside DEF WorldFalls, WorkspaceInv, WorldTyped, BoxesInv, Departs, Traced,
       Engaged, Gone, Lost, Session, Starting, Working, TurnInv, TurnTyped, TakesTurn, Waits,
       Released, InLife, CallStates, Handles
  <1>5. \A d, e \in Calls : d # e => Alone(d, e)'
    BY <1>1, OneInside DEF WorldFalls, WorkspaceInv, Alone, Past, Traced, Departs, Lost, Session,
       Starting, Working, TurnInv, TurnTyped, TakesTurn, CallStates
  <1>6. QED
    BY <1>1, <1>2, <1>3, <1>4, <1>5 DEF WorkspaceInv, WorldFalls

LEMMA DeathKeepsSpace ==
  ASSUME TurnInv, TurnInv', WorkspaceInv, \E h \in Handles : BoxDies(h)
  PROVE  WorkspaceInv'
  <1> USE SandboxAssumption DEF Nobody, BoxDies, At, desk, world, stewards, keepers
  <1>1. WorldFalls
    <2>1. PICK h \in Handles : BoxDies(h)
      OBVIOUS
    <2>2. StopConfirmed(h)
      BY <2>1 DEF StopConfirmed
    <2>3. QED
      BY <2>2, StopsFall
  <1>2. BoxesInv'
    BY <1>1 DEF WorldFalls, WorkspaceInv, BoxesInv, Departs, TurnInv, TurnTyped, TakesTurn, Waits,
       KeepersInv, Locks, CallStates, Handles
  <1>3. \A h \in Handles, d \in Calls : Traced(h, d)'
    BY <1>1 DEF WorldFalls, WorkspaceInv, Traced, Starting, Working, TurnInv, TurnTyped, CallStates
  <1>4. \A d \in Calls : Departs(d)'
    BY <1>1, OneInside DEF WorldFalls, WorkspaceInv, WorldTyped, BoxesInv, Departs, Traced,
       Engaged, Gone, Lost, Session, Starting, Working, TurnInv, TurnTyped, TakesTurn, Waits,
       Released, InLife, CallStates, Handles
  <1>5. \A d, e \in Calls : d # e => Alone(d, e)'
    BY <1>1, OneInside DEF WorldFalls, WorkspaceInv, Alone, Past, Traced, Departs, Lost, Session,
       Starting, Working, TurnInv, TurnTyped, TakesTurn, CallStates
  <1>6. QED
    BY <1>1, <1>2, <1>3, <1>4, <1>5 DEF WorkspaceInv, WorldFalls

LEMMA PromptKeepsSpace ==
  ASSUME TurnInv, TurnInv', WorkspaceInv, NEW c \in Calls, Prompted(c)
  PROVE  WorkspaceInv'
  <1> USE DEF Prompted, Session, At, desk, stewards, keepers
  <1>1. call[c].of \in Handles /\ WorldTyped'
    <2>1. call[c].of \in 0..MaxSpawns /\ call[c].at = "run"
      BY DEF TurnInv, TurnTyped, CallStates
    <2>2. call[c].of # 0
      BY <2>1 DEF WorkspaceInv, Departs, Working
    <2>3. call[c].of \in Handles
      BY <2>1, <2>2, SandboxAssumption DEF Handles
    <2>4. QED
      BY <2>3 DEF WorkspaceInv, WorldTyped
  <1>2. BoxesInv'
    BY DEF WorkspaceInv, BoxesInv
  <1>3. \A h \in Handles, d \in Calls : Traced(h, d)'
    BY <1>1 DEF WorkspaceInv, Traced, Working
  <1>4. \A d \in Calls : Departs(d)'
    BY <1>1 DEF WorkspaceInv, Departs, Gone, Lost, Engaged
  <1>5. \A d, e \in Calls : d # e => Alone(d, e)'
    BY OneInside DEF WorkspaceInv, Alone, Past, Lost, Starting, Working, TurnInv, TakesTurn
  <1>6. QED
    BY <1>1, <1>2, <1>3, <1>4, <1>5 DEF WorkspaceInv

\* A container starts for the call.
LEMMA BoxStarts ==
  ASSUME TurnInv, TurnInv', WorkspaceInv, NEW c \in Calls, At(c, "spawn"), spawned < MaxSpawns,
         spawned' = spawned + 1, UNCHANGED <<active, force, marker, native, scratch>>,
         box' = [box EXCEPT ![spawned'] = [up |-> TRUE, client |-> TRUE, quarantined |-> FALSE]],
         \A d \in Calls \ {c} : call'[d] = call[d],
         call'[c].of = spawned', call'[c].torn = call[c].torn,
         \/ call'[c].at = "clear" /\ handle' = spawned'
         \/ call'[c].at = "unspawn" /\ handle' = handle
  PROVE  WorkspaceInv'
  <1> USE SandboxAssumption
  <1>1. spawned' \in Handles /\ spawned \in Nat
    BY DEF TurnInv, TurnTyped, Handles
  <1>2. WorldTyped'
    BY <1>1 DEF WorkspaceInv, WorldTyped, Boxes
  <1>3. /\ \A h \in Handles \ {spawned'} : box'[h] = box[h]
        /\ box'[spawned'].up /\ ~box'[spawned'].quarantined
    BY <1>1 DEF WorkspaceInv, WorldTyped
  <1>4. force.stage # "idle" => force.call # c
    BY DEF TurnInv, Waits, At, Working
  <1>5. BoxesInv'
    BY <1>1, <1>3, <1>4 DEF WorkspaceInv, BoxesInv, TurnInv, TurnTyped, Handles
  <1>6. \A h \in Handles : <<h, c>> \notin native
    BY DEF WorkspaceInv, Traced, At, Working
  <1>7. \A h \in Handles, d \in Calls : Traced(h, d)'
    BY <1>1, <1>3, <1>6 DEF WorkspaceInv, Traced
  <1>8. \A d \in Calls \ {c} : Departs(d)'
    BY <1>1, <1>3, OneInside
       DEF WorkspaceInv, Departs, Gone, Lost, Session, Engaged, Starting, Working, At, TurnInv, TurnTyped,
           CallStates, Handles
  <1>9. Departs(c)'
    BY <1>1 DEF Departs, Working, Engaged
  <1>10. \A d, e \in Calls : d # e => Alone(d, e)'
    BY <1>1, <1>6, OneInside
       DEF WorkspaceInv, Alone, Past, Lost, Session, Starting, Working, At, TurnInv, TurnTyped, TakesTurn
  <1>11. QED
    BY <1>2, <1>5, <1>7, <1>8, <1>9, <1>10 DEF WorkspaceInv

LEMMA SpawnKeepsSpace ==
  ASSUME TurnInv, TurnInv', WorkspaceInv, NEW c \in Calls, Spawned(c)
  PROVE  WorkspaceInv'
  <1>1. /\ \A d \in Calls \ {c} : call'[d] = call[d]
        /\ call'[c].of = spawned' /\ call'[c].torn = call[c].torn
        /\ \/ call'[c].at = "clear" /\ handle' = spawned'
           \/ call'[c].at = "unspawn" /\ handle' = handle
    BY DEF Spawned, TurnInv, TurnTyped, CallStates
  <1>2. QED
    BY <1>1, BoxStarts DEF Spawned, stewards, keepers

LEMMA CutStartKeepsSpace ==
  ASSUME TurnInv, TurnInv', WorkspaceInv, NEW c \in Calls, Cut(c) /\ CutStart(c)
  PROVE  WorkspaceInv'
  <1> USE SandboxAssumption DEF Nobody, At, desk, world, stewards, keepers
  <1>1. CASE At(c, "spawn") /\ spawned' = spawned + 1
    <2>1. /\ \A d \in Calls \ {c} : call'[d] = call[d]
          /\ call'[c].of = spawned' /\ call'[c].torn = call[c].torn
          /\ call'[c].at = "unspawn"
      BY <1>1 DEF CutStart, TurnInv, TurnTyped, CallStates
    <2>2. QED
      BY <1>1, <2>1, BoxStarts DEF Cut, CutStart, TurnInv, TurnTyped
  <1>2. CASE ~(At(c, "spawn") /\ spawned' = spawned + 1)
    <2>1. /\ call[c].at \in {"mend", "unspawn", "unpost", "clear", "spawn"}
          /\ Refused(c) /\ scratch' \subseteq scratch /\ UNCHANGED <<desk, force>>
          /\ ShutDown(call[c].of) \/ UNCHANGED world
      BY <1>2 DEF Cut, CutStart
    <2> USE DEF Refused
    <2>2. WorldFalls
      BY <2>1, StopsFall DEF WorldFalls, WorkspaceInv, WorldTyped, BoxesInv, Traced
    <2>3. BoxesInv'
      BY SMTT(30), <2>1, <2>2 DEF WorldFalls, WorkspaceInv, BoxesInv, TurnInv, TurnTyped, TakesTurn, Waits,
         KeepersInv,
                        Locks, CallStates, Handles
    <2>4. \A h \in Handles, d \in Calls : Traced(h, d)'
      BY <2>1, <2>2 DEF WorldFalls, WorkspaceInv, Traced, Starting, Working, TurnInv, TurnTyped,
         CallStates
    <2>5. \A d \in Calls : Departs(d)'
      <3>1. /\ \A d \in Calls \ {c} : call'[d] = call[d]
            /\ call'[c].of = call[c].of /\ call'[c].at = "over" /\ call'[c].torn = call[c].torn
        BY <2>1 DEF TurnInv, TurnTyped, CallStates
      <3>2. \A d \in Calls : Departs(d) /\ call[d].of \in 0..MaxSpawns /\ call[d].at \in Stages
        BY DEF WorkspaceInv, TurnInv, TurnTyped, CallStates, Handles
      <3>3. Session(c) \notin native
        BY <2>1 DEF WorkspaceInv, WorldTyped, Traced, Session, Working
      <3>4. \A d \in Calls : call[d].at \in Engaged /\ Gone(d) => call[d].of \in Handles
        BY <3>2 DEF Departs, Engaged, Working, Handles
      <3>5. /\ \A h \in Handles : box'[h].up => box[h].up
            /\ marker => marker'
            /\ native' \subseteq native
        BY <2>2 DEF WorldFalls
      <3> HIDE DEF Refused
      <3>6. ASSUME NEW d \in Calls \ {c}
            PROVE  Departs(d)'
        <4>1. /\ Gone(d) /\ call[d].of \in Handles => Gone(d)'
              /\ Lost(d) => Lost(d)'
              /\ Session(d)' = Session(d)
          BY <3>1, <3>5 DEF Gone, Lost, Session
        <4>2. call'[d] = call[d] /\ UNCHANGED <<handle, active, spawned>>
          BY <2>1, <3>1
        <4>3. call[d].at \in {"clear", "post"} => call[d].of \in Handles
          BY <3>2 DEF Departs, Handles
        <4>4. Departs(d) /\ call[d].of \in 0..MaxSpawns /\ (call[d].at \in Engaged /\ Gone(d) => call[d].of \in Handles)
          BY <3>2, <3>4
        <4>5. /\ call[d].at \in {"clear", "post"} \cup Engaged /\ handle # call[d].of => Gone(d)' \/ Lost(d)'
              /\ call[d].at \in Engaged /\ active # d => Gone(d)' \/ Lost(d)'
          BY <4>1, <4>3, <4>4 DEF Departs
        <4>6. call[d].at \in {"checkpoint", "save", "fin", "delete", "drop", "scrub", "over"}
              => marker' \/ Lost(d)' \/ Session(d)' \notin native'
          BY <3>5, <4>1, <4>4 DEF Departs
        <4>7. QED
          BY <4>2, <4>4, <4>5, <4>6 DEF Departs
      <3>7. Departs(c)'
        <4>1. Session(c)' \notin native'
          BY <3>1, <3>3, <3>5 DEF Session
        <4>2. QED
          BY <2>1, <3>1, <3>2, <4>1 DEF Departs, Engaged, Working
      <3>8. QED
        BY <3>6, <3>7
    <2>6. \A d, e \in Calls : d # e => Alone(d, e)'
      BY <2>1, <2>2, OneInside
         DEF WorldFalls, WorkspaceInv, Alone, Past, Traced, Departs, Lost, Session, Starting, Working,
             TurnInv, TurnTyped, TakesTurn, CallStates
    <2>7. QED
      BY <2>2, <2>3, <2>4, <2>5, <2>6 DEF WorkspaceInv, WorldFalls
  <1>3. QED
    BY <1>1, <1>2

LEMMA CrashKeepsSpace ==
  ASSUME TurnInv, TurnInv', WorkspaceInv, Crash
  PROVE  WorkspaceInv'
  <1>1. ASSUME NEW d \in Calls
        PROVE  /\ call'[d].of = call[d].of /\ (call[d].torn => call'[d].torn)
               /\ IF At(d, "out") THEN call'[d].at = "out"
                  ELSE call'[d].at = "over" /\ (call'[d].torn \/ call[d].at = "over")
    <2>1. CASE At(d, "out")
      BY <2>1 DEF Crash, At
    <2>2. CASE ~At(d, "out")
      <3>1. call'[d] = [call[d] EXCEPT !.at = "over", !.parked = FALSE, !.torn = @ \/ ~At(d, "over")]
        BY <2>2 DEF Crash
      <3>2. call'[d].at = "over" /\ call'[d].of = call[d].of
        BY <3>1 DEF TurnInv, TurnTyped, CallStates
      <3>3. call'[d].torn = (call[d].torn \/ ~At(d, "over"))
        BY <3>1 DEF TurnInv, TurnTyped, CallStates
      <3>4. QED
        BY <2>2, <3>2, <3>3 DEF At
    <2>3. QED
      BY <2>1, <2>2
  <1>2. /\ handle' = 0 /\ active' = Nobody /\ force' = NoForce
        /\ UNCHANGED <<spawned, box, marker, native, scratch>>
    BY DEF Crash, world
  <1>3. BoxesInv' /\ WorldTyped'
    BY <1>2 DEF WorkspaceInv, BoxesInv, WorldTyped, NoForce, TurnInv, TurnTyped
  <1>4. \A h \in Handles, d \in Calls : Traced(h, d)'
    BY <1>1, <1>2 DEF WorkspaceInv, Traced, At, Working
  <1>5. \A d \in Calls : Departs(d)'
    BY <1>1, <1>2 DEF WorkspaceInv, Departs, Gone, Lost, Session, Engaged, Working, At
  <1>6. \A d, e \in Calls : d # e => Alone(d, e)'
    BY <1>1, <1>2, SandboxAssumption DEF Alone, Past, Working, At, Nobody
  <1>7. QED
    BY <1>3, <1>4, <1>5, <1>6 DEF WorkspaceInv

LEMMA SpaceInit == SandboxInit => WorkspaceInv
  BY SandboxAssumption
     DEF SandboxInit, NewCall, NoForce, WorkspaceInv, WorldTyped, BoxesInv, Traced, Departs, Alone, Past,
         Engaged, Working, At, Session, Boxes, Nobody

LEMMA SpaceStands ==
  ASSUME WorkspaceInv, UNCHANGED sandboxVars
  PROVE  WorkspaceInv'
  BY DEF WorkspaceInv, WorldTyped, BoxesInv, Traced, Departs, Alone, Past, Gone, Lost, At,
     Session, sandboxVars,
         desk, world, stewards, keepers

LEMMA SpaceNext ==
  ASSUME TurnInv, TurnInv', WorkspaceInv, [SandboxNext]_sandboxVars
  PROVE  WorkspaceInv'
  <1>1. ASSUME NEW c \in Calls, Called(c) \/ CallSteps(c) \/ Prompted(c) \/ RunEnds(c)
        PROVE  WorkspaceInv'
    BY <1>1, AskingKeepsSpace, EnsureKeepsSpace, StopKeepsSpace, StartKeepsSpace, SpawnKeepsSpace,
       CreatedKeepsSpace, RestoreKeepsSpace, RunKeepsSpace, PromptKeepsSpace, QuiesceKeepsSpace,
       AbortKeepsSpace, StrictKeepsSpace, FinishKeepsSpace, DeleteKeepsSpace, DropKeepsSpace DEF CallSteps
  <1>2. ASSUME NEW c \in Calls, Cut(c)
        PROVE  WorkspaceInv'
    BY <1>2, CutBeginKeepsSpace, CutStartKeepsSpace, CutRunKeepsSpace, CutShieldKeepsSpace,
       CutCleanUpKeepsSpace DEF Cut
  <1>3. ASSUME StewardSteps \/ ForceStarts \/ ReapStarts \/ CloseAll \/ Crash
        PROVE  WorkspaceInv'
    BY <1>3, ForceStartsKeepsSpace, ForceStoppedKeepsSpace, ForceFinishesKeepsSpace,
       ReapStartsKeepsSpace,
       ReaperKeepsSpace, TeardownKeepsSpace, CrashKeepsSpace DEF StewardSteps
  <1>4. ASSUME NEW h \in Handles, BoxDies(h) \/ \E c \in Calls : NativeWrites(h, c) \/ NativeEnds(h, c)
        PROVE  WorkspaceInv'
    BY <1>4, DeathKeepsSpace, WorkerKeepsSpace
  <1>5. CASE UNCHANGED sandboxVars
    BY <1>5, SpaceStands
  <1>6. QED
    BY <1>1, <1>2, <1>3, <1>4, <1>5 DEF SandboxNext

(* A native worker is stopped with its call, or the workspace is           *)
(* quarantined, or it was lost sight of when a stop was cut short          *)
(* (manager.py: quiesce_invocation, _quarantine, finish_invocation).       *)
THEOREM WorkersStayKnown == SandboxSpec => [](TurnInv /\ WorkspaceInv)
  <1>1. SandboxInit => TurnInv /\ WorkspaceInv
    BY TurnInit, SpaceInit
  <1>2. TurnInv /\ WorkspaceInv /\ [SandboxNext]_sandboxVars => TurnInv' /\ WorkspaceInv'
    BY TurnNext, SpaceNext
  <1>3. QED
    BY <1>1, <1>2, PTL DEF SandboxSpec

(* While a call works, nobody else's files are in the shared workspace,    *)
(* and a worker that outlived its call is known to the next one            *)
(* (manager.py: _ensure_locked, _scrub_workspace, quiesce_invocation).     *)
THEOREM WorkspaceStaysOwn == SandboxSpec => []WorkspaceIsOwn
  <1>1. TurnInv /\ WorkspaceInv => ScratchIsPrivate
    BY DEF WorkspaceInv, Alone, ScratchIsPrivate, Lost, Working
  <1>2. WorkspaceInv => SurvivorsAreQuarantined
    BY DEF WorkspaceInv, Traced, Departs, SurvivorsAreQuarantined, Session, Lost, At
  <1>3. QED
    BY <1>1, <1>2, WorkersStayKnown, PTL DEF WorkspaceIsOwn

-----------------------------------------------------------------------------
(* The continuous run.                                                     *)

LEMMA NewestIsNewest ==
  ASSUME known \subseteq Revisions, 1 \in known
  PROVE  Newest(known) \in known /\ \A r \in known : r <= Newest(known)
  <1> DEFINE T == {MaxRevision - r : r \in known}
  <1>1. T \subseteq Nat /\ T # {}
    BY RunnerAssumption DEF Revisions
  <1>2. PICK x \in T : \A y \in T : x <= y
    BY <1>1, LeastNumber
  <1>3. PICK n \in known : x = MaxRevision - n
    BY <1>2
  <1>4. ASSUME NEW r \in known
        PROVE  n >= r
    <2>1. x <= MaxRevision - r
      BY <1>2
    <2>2. QED
      BY <2>1, <1>3, RunnerAssumption DEF Revisions
  <1>5. QED
    BY <1>3, <1>4, RunnerAssumption DEF Newest, Max, Revisions

-----------------------------------------------------------------------------
(* What was handed to the coordinator, and what the run noted of it.       *)
Kinds == {"accepted", "finding", "question", "result", "progress", "blocked", "canceled"}
Entries == [id : Nat, rev : Revisions, kind : Kinds]
Books == [accepted : SUBSET Revisions, results : SUBSET Revisions, waiting : BOOLEAN,
          seen : SUBSET Nat, told : Seq(Entries)]

RunTyped ==
  /\ known \subseteq Revisions /\ 1 \in known
  /\ made \in Seq(WorkerReports)
  /\ stream \in Seq(DOMAIN made) /\ page \subseteq DOMAIN made
  /\ book \in Books

TrueEntry(t) ==
  /\ t.id = 0 => t.kind \in {"progress", "blocked", "canceled"}
  /\ t.id # 0 => t.id \in book.seen /\ t.id \in DOMAIN made
  /\ t.id # 0 /\ t.kind = "accepted"
     => /\ t.rev \in book.accepted
        /\ made[t.id] = [kind |-> "accepted", rev |-> t.rev, rel |-> t.rev, own |-> TRUE]
  /\ t.id # 0 /\ t.kind = "result" /\ made[t.id].own => t.rev \in book.results
  /\ t.rev \in known

BookInv ==
  /\ \A i \in DOMAIN book.told : TrueEntry(book.told[i])
  /\ \A r \in book.accepted :
       \E i \in DOMAIN book.told :
         book.told[i].kind = "accepted" /\ book.told[i].rev = r /\ book.told[i].id # 0
  /\ ReportsCountOnce

RunInv == RunTyped /\ BookInv

LEMMA AppendIsLast ==
  ASSUME NEW S, NEW s \in Seq(S), NEW e \in S
  PROVE  /\ Append(s, e) \in Seq(S) /\ DOMAIN Append(s, e) = DOMAIN s \cup {Len(s) + 1}
         /\ \A i \in DOMAIN s : Append(s, e)[i] = s[i] /\ i < Len(s) + 1
         /\ Append(s, e)[Len(s) + 1] = e
         /\ DOMAIN s = 1..Len(s) /\ Len(s) \in Nat
  OBVIOUS

(* One more entry that repeats none of an earlier id keeps the book.       *)
LEMMA EntryKeepsBook ==
  ASSUME RunInv, NEW e \in Entries, book' \in Books, UNCHANGED <<known, made>>,
         book'.told = Append(book.told, e), book.seen \subseteq book'.seen,
         book.accepted \subseteq book'.accepted, book.results \subseteq book'.results,
         TrueEntry(e)',
         e.id # 0 => e.id \notin book.seen,
         \A r \in book'.accepted : r \in book.accepted \/ (e.kind = "accepted" /\ e.rev = r /\ e.id # 0),
         e.kind # "accepted" => e.rev = Newest(known),
         e.id # 0 /\ e.rev \in book.results => e.kind = "accepted" /\ e.rev \notin book.accepted
  PROVE  BookInv'
  <1> DEFINE n == Len(book.told) + 1
  <1>1. /\ DOMAIN book'.told = DOMAIN book.told \cup {n}
        /\ \A i \in DOMAIN book.told : book'.told[i] = book.told[i] /\ i < n
        /\ book'.told[n] = e /\ DOMAIN book.told = 1..(n - 1) /\ n \in Nat
        /\ \A i \in DOMAIN book.told : book.told[i] \in Entries
    BY AppendIsLast DEF RunInv, RunTyped, Books
  <1> HIDE DEF n
  <1>2. (\A i \in DOMAIN book.told : TrueEntry(book.told[i]))'
    <2> SUFFICES ASSUME NEW i \in DOMAIN book'.told
                 PROVE  TrueEntry(book.told[i])'
      OBVIOUS
    <2>1. CASE i = n
      BY <2>1, <1>1
    <2>2. CASE i # n
      BY <2>2, <1>1 DEF RunInv, BookInv, TrueEntry
    <2>3. QED
      BY <2>1, <2>2
  <1>3. \A r \in book'.accepted :
          \E i \in DOMAIN book'.told :
            book'.told[i].kind = "accepted" /\ book'.told[i].rev = r /\ book'.told[i].id # 0
    BY <1>1 DEF RunInv, BookInv
  <1>4. ReportedOnce'
    <2> SUFFICES ASSUME NEW i \in DOMAIN book'.told, NEW j \in DOMAIN book'.told,
                        book'.told[i].id = book'.told[j].id, i # j
                 PROVE  book'.told[i].id = 0
      BY DEF ReportedOnce
    <2>1. CASE i \in DOMAIN book.told /\ j \in DOMAIN book.told
      BY <2>1, <1>1 DEF RunInv, BookInv, ReportsCountOnce, ReportedOnce
    <2>2. CASE i = n \/ j = n
      <3>1. \A k \in DOMAIN book.told : book.told[k].id # 0 => book.told[k].id \in book.seen
        BY DEF RunInv, BookInv, TrueEntry
      <3>2. \A k \in DOMAIN book.told : book'.told[k].id # 0 => book'.told[k].id # e.id
        BY <3>1, <1>1
      <3>3. QED
        BY <3>2, <2>2, <1>1
    <2>3. QED
      BY <2>1, <2>2, <1>1
  <1>5. NothingStale'
    <2> SUFFICES ASSUME NEW i \in DOMAIN book'.told, NEW j \in DOMAIN book'.told, i < j,
                        book'.told[j].kind # "accepted"
                 PROVE  book'.told[i].rev <= book'.told[j].rev
      BY DEF NothingStale
    <2>1. CASE j \in DOMAIN book.told
      BY <2>1, <1>1 DEF RunInv, BookInv, ReportsCountOnce, NothingStale
    <2>2. CASE j = n
      <3>0. i \in DOMAIN book.told
        BY <2>2, <1>1
      <3>1. i \in DOMAIN book.told /\ book.told[i].rev \in known
        BY <3>0 DEF RunInv, BookInv, TrueEntry
      <3>2. e.rev = Newest(known)
        BY <2>2, <1>1
      <3>3. QED
        BY <3>1, <3>2, <2>2, <1>1, NewestIsNewest DEF RunInv, RunTyped
    <2>3. QED
      BY <2>1, <2>2, <1>1
  <1>6. ResultIsLast'
    <2> SUFFICES ASSUME NEW i \in DOMAIN book'.told, NEW j \in DOMAIN book'.told, i < j,
                        book'.told[i].id # 0, book'.told[j].id # 0,
                        book'.told[i].kind = "result", made'[book'.told[i].id].own,
                        book'.told[j].rev = book'.told[i].rev
                 PROVE  /\ book'.told[j].kind = "accepted"
                        /\ \A k \in 1..(j - 1) :
                             book'.told[k].rev = book'.told[j].rev => book'.told[k].kind # "accepted"
      BY DEF ResultIsLast
    <2>1. CASE j \in DOMAIN book.told
      <3>1. 1..(j - 1) \subseteq DOMAIN book.told /\ i \in DOMAIN book.told
        BY <2>1, <1>1
      <3>2. QED
        BY <2>1, <3>1, <1>1 DEF RunInv, BookInv, ReportsCountOnce, ResultIsLast
    <2>2. CASE j = n
      <3>1. 1..(j - 1) = DOMAIN book.told /\ i \in DOMAIN book.told /\ book'.told[j] = e
        BY <2>2, <1>1
      <3>2. e.rev \in book.results
        BY <3>1, <1>1 DEF RunInv, BookInv, TrueEntry
      <3>3. e.kind = "accepted" /\ e.rev \notin book.accepted
        BY <3>1, <3>2
      <3>4. ASSUME NEW k \in DOMAIN book.told, book.told[k].rev = e.rev
            PROVE  book.told[k].kind # "accepted"
        BY <3>3, <3>4 DEF RunInv, BookInv, TrueEntry
      <3>5. QED
        BY <3>1, <3>3, <3>4, <1>1
    <2>3. QED
      BY <2>1, <2>2, <1>1
  <1>7. QED
    BY <1>2, <1>3, <1>4, <1>5, <1>6 DEF BookInv, ReportsCountOnce

(* More instructions and more calls change nothing that was told.          *)
LEMMA BookStands ==
  ASSUME RunInv, UNCHANGED book, known \subseteq known',
         \A id \in DOMAIN made : id \in DOMAIN made' /\ made'[id] = made[id]
  PROVE  BookInv'
  <1>1. (\A i \in DOMAIN book.told : TrueEntry(book.told[i]))'
    BY DEF RunInv, BookInv, TrueEntry
  <1>2. \A i \in DOMAIN book.told : book.told[i].id # 0 => made'[book.told[i].id] = made[book.told[i].id]
    BY DEF RunInv, BookInv, TrueEntry
  <1>3. ReportsCountOnce'
    BY <1>2 DEF RunInv, BookInv, ReportsCountOnce, ReportedOnce, ResultIsLast, NothingStale
  <1>4. QED
    BY <1>1, <1>3 DEF RunInv, BookInv
(* What a report does to the book: nothing, or one entry under its number. *)
LEMMA ReportKeepsBook ==
  ASSUME RunInv, NEW id \in DOMAIN made, book' = ApplyReport(book, id), UNCHANGED <<known, made>>
  PROVE  BookInv' /\ book' \in Books
  <1> DEFINE said == made[id]
             rev == Stamp(said)
  <1>1. CASE id \in book.seen \/ ~Delivers(book, said)
    <2>1. book' = book
      BY <1>1 DEF ApplyReport
    <2>2. QED
      BY <2>1, BookStands DEF RunInv, RunTyped
  <1>2. CASE ~(id \in book.seen \/ ~Delivers(book, said))
    <2>1. /\ id \in Nat \ {0} /\ said \in WorkerReports /\ said.own \in BOOLEAN
          /\ said.kind \in {"accepted", "finding", "question", "result", "progress", "blocked"}
          /\ said = [kind |-> said.kind, rev |-> said.rev, rel |-> said.rel, own |-> said.own]
      BY RunnerAssumption DEF RunInv, RunTyped
    <2>2. /\ rev \in known /\ ~IsTail(book, said.kind, rev)
          /\ said.kind = "accepted" => said.own /\ said.rel = rev
          /\ said.kind # "accepted" => rev = Newest(known)
      BY <1>2 DEF Delivers
    <2>3. said.kind = "accepted" => said.rev = rev
      BY DEF Stamp
    <2>4. PICK e \in Entries : e = [id |-> id, kind |-> said.kind, rev |-> rev]
      BY <2>1, <2>2 DEF RunInv, RunTyped, Entries, Kinds
    <2>5. /\ e.id = id /\ e.kind = said.kind /\ e.rev = rev
          /\ book'.told = Append(book.told, e) /\ book'.seen = book.seen \cup {id}
          /\ book'.accepted = IF said.kind = "accepted" THEN book.accepted \cup {rev} ELSE book.accepted
          /\ book'.results = IF said.kind = "result" /\ said.own THEN book.results \cup {rev} ELSE book.results
      BY <1>2, <2>4 DEF ApplyReport, Handed, NowSeen
    <2>6. book' \in Books
      <3>1. book'.told \in Seq(Entries)
        BY <2>5, AppendIsLast DEF RunInv, RunTyped, Books
      <3>2. book'.waiting \in BOOLEAN
        BY <1>2 DEF ApplyReport, RunInv, RunTyped, Books
      <3>3. book' = [accepted |-> book'.accepted, results |-> book'.results, waiting |-> book'.waiting,
                     seen |-> book'.seen, told |-> book'.told]
        BY <1>2 DEF ApplyReport
      <3>4. book'.accepted \subseteq Revisions /\ book'.results \subseteq Revisions /\ book'.seen \subseteq Nat
        BY <2>1, <2>2, <2>5 DEF RunInv, RunTyped, Books
      <3>5. QED
        BY <3>1, <3>2, <3>3, <3>4 DEF Books
    <2>7. TrueEntry(e)'
      <3>1. made'[e.id] = said /\ e.id \in DOMAIN made' /\ e.id # 0 /\ known' = known
        BY <2>1, <2>5
      <3> HIDE DEF said, rev
      <3>2. QED
        BY <2>1, <2>2, <2>3, <2>5, <3>1 DEF TrueEntry
    <2> HIDE DEF rev, said
    <2>8. e.id # 0 /\ e.rev \in book.results => e.kind = "accepted" /\ e.rev \notin book.accepted
      BY <2>2, <2>5 DEF IsTail
    <2>9. /\ e.kind # "accepted" => e.rev = Newest(known)
          /\ e.id # 0 /\ e.id \notin book.seen
          /\ \A r \in book'.accepted : r \in book.accepted \/ (e.kind = "accepted" /\ e.rev = r /\ e.id # 0)
          /\ book.seen \subseteq book'.seen /\ book.accepted \subseteq book'.accepted
          /\ book.results \subseteq book'.results
      BY <1>2, <2>1, <2>2, <2>5
    <2>10. BookInv'
      BY <2>5, <2>6, <2>7, <2>8, <2>9, EntryKeepsBook DEF TrueEntry
    <2>11. QED
      BY <2>6, <2>10
  <1>3. QED
    BY <1>1, <1>2

(* What the run itself says.                                               *)
LEMMA SaysKeepsBook ==
  ASSUME RunInv, NEW kind \in {"progress", "blocked", "canceled"}, Says(kind), UNCHANGED <<known, made>>
  PROVE  BookInv' /\ book' \in Books
  <1>0. Newest(known) \in known
    BY NewestIsNewest DEF RunInv, RunTyped
  <1>e. PICK e \in Entries : e = [id |-> 0, kind |-> kind, rev |-> Newest(known)]
    BY <1>0 DEF RunInv, RunTyped, Entries, Kinds
  <1>1. /\ book'.told = Append(book.told, e) /\ book'.seen = book.seen /\ book'.accepted = book.accepted
        /\ book'.results = book.results /\ book'.waiting = book.waiting
        /\ book' = [book EXCEPT !.told = Append(book.told, e)]
    BY <1>e DEF Says, Handed, RunInv, RunTyped, Books
  <1>3. book' \in Books
    BY <1>1, AppendIsLast DEF RunInv, RunTyped, Books
  <1>4. TrueEntry(e)'
    BY <1>0, <1>e DEF TrueEntry
  <1>5. e.id = 0 /\ e.kind = kind /\ e.rev = Newest(known)
    BY <1>e
  <1>6. BookInv'
    BY <1>1, <1>3, <1>4, <1>5, EntryKeepsBook DEF TrueEntry
  <1>7. QED
    BY <1>3, <1>6


LEMMA EndsKeepsBook ==
  ASSUME RunInv, NEW result, NEW kind \in {"nothing", "progress", "blocked", "canceled"}, Ends(result, kind),
         UNCHANGED <<known, made>>
  PROVE  BookInv' /\ book' \in Books
  <1>1. CASE kind = "nothing"
    BY <1>1, BookStands DEF Ends, RunInv, RunTyped
  <1>2. CASE kind # "nothing"
    BY <1>2, SaysKeepsBook DEF Ends
  <1>3. QED
    BY <1>1, <1>2

(* The steps that hand nothing on.                                         *)
LEMMA QuietStep ==
  ASSUME RunInv,
         \/ EventsTaken \/ PageRead \/ HistoriesRead \/ NotOver \/ Reminds \/ Woken \/ Drained
         \/ Steered \/ CancelSent \/ ResponseEnds \/ GoesRoundInCircles \/ ReportMade
         \/ UNCHANGED runnerVars
  PROVE  RunInv'
  <1>1. UNCHANGED book
    BY DEF EventsTaken, PageRead, HistoriesRead, NotOver, Reminds, Woken, Drained, QuietFor, Steered, CancelSent,
           ResponseEnds, GoesRoundInCircles, ReportMade, runnerVars
  <1>2. known' = known \/ known' = known \cup Steering
    BY DEF EventsTaken, PageRead, HistoriesRead, NotOver, Reminds, Woken, Drained, QuietFor, Steered, CancelSent,
           ResponseEnds, GoesRoundInCircles, ReportMade, runnerVars
  <1>3. known \subseteq known' /\ known' \subseteq Revisions /\ 1 \in known'
    BY <1>2 DEF RunInv, RunTyped, Steering
  <1>4. CASE ReportMade
    <2>1. PICK said \in WorkerReports : made' = Append(made, said)
      BY <1>4 DEF ReportMade
    <2>2. /\ made' \in Seq(WorkerReports) /\ Len(made) + 1 \in DOMAIN made'
          /\ \A id \in DOMAIN made : id \in DOMAIN made' /\ made'[id] = made[id]
      BY <2>1, AppendIsLast DEF RunInv, RunTyped
    <2>3. DOMAIN made \subseteq DOMAIN made'
      BY <2>2
    <2>4. stream \in Seq(DOMAIN made')
      BY <2>3 DEF RunInv, RunTyped
    <2>5. stream' \in Seq(DOMAIN made') /\ page' \subseteq DOMAIN made'
      <3>1. Append(stream, Len(made) + 1) \in Seq(DOMAIN made')
        BY <2>2, <2>4, AppendIsLast
      <3>2. stream' \in {stream, Append(stream, Len(made) + 1)} /\ page' = page
        BY <1>4 DEF ReportMade
      <3>3. QED
        BY <2>3, <2>4, <3>1, <3>2 DEF RunInv, RunTyped
    <2>6. QED
      BY <1>1, <1>3, <2>2, <2>5, BookStands DEF RunInv, RunTyped
  <1>5. CASE ~ReportMade
    <2>1. UNCHANGED <<made, stream>> /\ page' \subseteq DOMAIN made
      BY <1>5 DEF EventsTaken, PageRead, HistoriesRead, NotOver, Reminds, Woken, Drained, QuietFor, Steered,
           CancelSent, ResponseEnds, GoesRoundInCircles, runnerVars, runWorker, RunInv, RunTyped
    <2>2. QED
      BY <1>1, <1>3, <2>1, BookStands DEF RunInv, RunTyped
  <1>6. QED
    BY <1>4, <1>5

(* The steps with which a report reaches the coordinator.                  *)
LEMMA TellingStep ==
  ASSUME RunInv,
         \/ EventTaken \/ HistoryApplied
         \/ RepeatsAgain \/ Quiesced \/ QuiesceRefused \/ HistoryFails \/ Concluded
         \/ \E evidence \in BOOLEAN : Capped(evidence)
  PROVE  RunInv'
  <1>1. UNCHANGED <<known, made>>
    BY DEF EventTaken, HistoryApplied, RepeatsAgain, RunFails, Quiesced, QuiesceRefused, HistoryFails, Concluded,
           Capped, runWorker
  <1>2. stream' \in Seq(DOMAIN made)
    <2>1. CASE EventTaken
      BY <2>1 DEF EventTaken, RunInv, RunTyped
    <2>2. CASE ~EventTaken
      BY <2>2 DEF HistoryApplied, RepeatsAgain, RunFails, Quiesced, QuiesceRefused, HistoryFails, Concluded,
           Capped, runWorker, RunInv, RunTyped
    <2>3. QED
      BY <2>1, <2>2
  <1>3. page' \subseteq DOMAIN made
    BY DEF EventTaken, HistoryApplied, RepeatsAgain, RunFails, Quiesced, QuiesceRefused, HistoryFails, Concluded,
           Capped, runWorker, RunInv, RunTyped
  <1>4. BookInv' /\ book' \in Books
    <2>1. CASE EventTaken
      <3>1. Head(stream) \in DOMAIN made
        BY <2>1 DEF EventTaken, RunInv, RunTyped
      <3>2. QED
        BY <1>1, <2>1, <3>1, ReportKeepsBook DEF EventTaken
    <2>2. CASE HistoryApplied
      BY <1>1, <2>2, ReportKeepsBook DEF HistoryApplied, RunInv, RunTyped
    <2>3. CASE RepeatsAgain \/ QuiesceRefused
      BY <1>1, <2>3, EndsKeepsBook DEF RepeatsAgain, QuiesceRefused, RunFails
    <2>4. CASE Quiesced
      <3>1. UNCHANGED book \/ Says("progress") \/ Ends("canceled", "canceled")
        BY <2>4 DEF Quiesced
      <3>2. QED
        BY <1>1, <3>1, EndsKeepsBook, SaysKeepsBook, BookStands DEF RunInv, RunTyped
    <2>5. CASE HistoryFails
      <3>1. UNCHANGED book \/ Ends("error", "blocked")
        BY <2>5 DEF HistoryFails
      <3>2. QED
        BY <1>1, <3>1, EndsKeepsBook, BookStands DEF RunInv, RunTyped
    <2>6. CASE Concluded
      <3>1. \E result : Ends(result, "blocked") \/ Ends(result, "nothing")
        BY <2>6 DEF Concluded
      <3>2. QED
        BY <1>1, <3>1, EndsKeepsBook
    <2>7. CASE \E evidence \in BOOLEAN : Capped(evidence)
      <3>1. UNCHANGED book \/ Ends("partial", "blocked")
        BY <2>7 DEF Capped
      <3>2. QED
        BY <1>1, <3>1, EndsKeepsBook, BookStands DEF RunInv, RunTyped
    <2>8. QED
      BY <2>1, <2>2, <2>3, <2>4, <2>5, <2>6, <2>7
  <1>5. QED
    BY <1>1, <1>2, <1>3, <1>4 DEF RunInv, RunTyped

LEMMA RunInit == RunnerInit => RunInv
  <1> SUFFICES ASSUME RunnerInit
               PROVE  RunInv
    OBVIOUS
  <1>1. RunTyped
    BY RunnerAssumption DEF RunnerInit, RunTyped, Books, Revisions
  <1>2. BookInv
    BY DEF RunnerInit, BookInv, TrueEntry, ReportsCountOnce, ReportedOnce, ResultIsLast, NothingStale
  <1>3. QED
    BY <1>1, <1>2 DEF RunInv

LEMMA RunNext == RunInv /\ [RunnerNext]_runnerVars => RunInv'
  BY QuietStep, TellingStep DEF RunnerNext, RunLoop

(* Whatever order, however often and late the stream and the histories     *)
(* bring the reports, each one counts once, the result of an instruction   *)
(* is the last word on it, and the worker's own acknowledgments are what   *)
(* the run takes for acknowledged (runner.py: _continuous_invocation,      *)
(* apply).                                                                 *)
THEOREM ReportsAreBooked == RunnerSpec => []RunInv
  BY RunInit, RunNext, PTL DEF RunnerSpec

(* A run ends well only with an acknowledgment of its newest instruction   *)
(* that the worker itself made and no command left (runner.py:             *)
(* _continuous_invocation, 523-650).                                       *)
THEOREM OkStaysHonest == RunnerSpec => OkIsHonest
  <1>1. RunInv /\ [RunnerNext]_runnerVars => [OkIsEarned]_runnerVars
    <2> SUFFICES ASSUME RunInv, RunnerNext, outcome' = "ok", outcome = "none"
                 PROVE  OkIsEarned
      BY DEF OkIsEarned
    <2>1. Concluded
      BY DEF RunnerNext, RunLoop, Drained, RepeatsAgain, RunFails, Ends, Quiesced, QuiesceRefused, EventsTaken,
             EventTaken, PageRead, HistoryApplied, HistoriesRead, HistoryFails, NotOver, Reminds, Woken, Capped,
             Steered, CancelSent, ReportMade, ResponseEnds, GoesRoundInCircles, runnerVars
    <2>2. post = "ok" /\ HasAccepted /\ steers = <<>>
      BY <2>1 DEF Concluded, Ends
    <2>3. PICK i \in DOMAIN book.told :
            book.told[i].kind = "accepted" /\ book.told[i].rev = Newest(known) /\ book.told[i].id # 0
      BY <2>2 DEF HasAccepted, RunInv, BookInv
    <2>4. made[book.told[i].id] = [kind |-> "accepted", rev |-> Newest(known), rel |-> Newest(known), own |-> TRUE]
      BY <2>3 DEF RunInv, BookInv, TrueEntry
    <2>5. QED
      BY <2>2, <2>3, <2>4 DEF OkIsEarned
  <1>2. QED
    BY <1>1, ReportsAreBooked, PTL DEF RunnerSpec, OkIsHonest

-----------------------------------------------------------------------------
(* The composition: the manager stands still while a run is in focus and   *)
(* the run while the manager is, so each sees its own behaviours only.     *)
LEMMA NativeIsItsParts == NativeSpec => SandboxSpec /\ RunnerSpec
  <1>1. NativeInit => SandboxInit /\ RunnerInit
    BY DEF NativeInit
  <1>2. ASSUME [NativeNext]_nativeVars
        PROVE  [SandboxNext]_sandboxVars /\ [RunnerNext]_runnerVars
    BY <1>2 DEF NativeNext, InRun, nativeVars
  <1>3. QED
    BY <1>1, <1>2, PTL DEF NativeSpec, SandboxSpec, RunnerSpec

(* LeasesComeBack, for the composition that TLC runs.                      *)
THEOREM LeasesKeepComingBack == NativeSpec => []LeaseIsReturned
  BY NativeIsItsParts, LeasesComeBack, PTL

(* WorkspaceStaysOwn, for the composition that TLC runs.                   *)
THEOREM WorkspaceIsKeptOwn == NativeSpec => []WorkspaceIsOwn
  BY NativeIsItsParts, WorkspaceStaysOwn, PTL

(* Each report of the worker counts once, its result is the last word on   *)
(* its instruction, and nothing is handed on about a superseded one        *)
(* (runner.py: apply), for the composition that TLC runs.                  *)
THEOREM ReportsKeepCountingOnce == NativeSpec => []ReportsCountOnce
  <1>1. RunInv => ReportsCountOnce
    BY DEF RunInv, BookInv
  <1>2. QED
    BY <1>1, NativeIsItsParts, ReportsAreBooked, PTL

(* OkStaysHonest, for the composition that TLC runs.                       *)
THEOREM OkIsKeptHonest == NativeSpec => OkIsHonest
  BY NativeIsItsParts, OkStaysHonest, PTL
=============================================================================
