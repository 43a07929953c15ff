---------------------------- MODULE SearchPacing ----------------------------
(***************************************************************************)
(* How the searches of one worker share a provider (engine/webtools.py):   *)
(* SearchProviderState paces the requests, and what an answer says of the  *)
(* provider holds for the requests after it.  A leg sleeps until its turn  *)
(* while others are in flight, and their answers change the state it read. *)
(***************************************************************************)
EXTENDS Naturals, FiniteSets

CONSTANTS Legs,         \* searches that ask this provider
          Interval,     \* _PROVIDER_INTERVALS of it
          RetryAfters,  \* what a 429 may ask for
          LeastRest,    \* cooldown after a time-out and least one after a 429
          MaxClock      \* time is modelled until then

VARIABLES clock,
          leg,          \* stage of each: new, sleeping, asking, skipped or answered
          wakes,        \* when a sleeping leg goes on
          keyless,      \* a 429 disables the provider for the run
          nextAllowed, cooldownUntil, disabled,   \* of SearchProviderState
          reserving,    \* the leg that holds the provider's lock
          lastAsked     \* when a request went out last

pacingVars == <<clock, leg, wakes, keyless, nextAllowed, cooldownUntil, disabled, reserving, lastAsked>>
pacing == <<nextAllowed, cooldownUntil, disabled>>

NoLeg == "no leg"
Never == 0

ASSUME PacingAssumption ==
  NoLeg \notin Legs /\ Interval \in Nat /\ RetryAfters \subseteq Nat /\ LeastRest \in Nat /\ MaxClock \in Nat \ {0}

PacingTypeOK ==
  /\ clock \in 1..MaxClock /\ leg \in [Legs -> {"new", "sleeping", "asking", "skipped", "answered"}]
  /\ {nextAllowed, cooldownUntil, lastAsked} \subseteq Nat /\ {keyless, disabled} \subseteq BOOLEAN
  /\ reserving \in Legs \cup {NoLeg}

PacingInit ==
  /\ clock = 1 /\ leg = [l \in Legs |-> "new"] /\ wakes = [l \in Legs |-> Never] /\ keyless \in BOOLEAN
  /\ nextAllowed = Never /\ cooldownUntil = Never /\ disabled = FALSE /\ reserving = NoLeg /\ lastAsked = Never

Refused == disabled \/ cooldownUntil > clock

\* Slip: the turn that was waited for is taken.
RefusedNow_Trusts == FALSE

(* After the sleep the provider is looked at again. *)
RefusedNow == Refused

Skips(l) == leg' = [leg EXCEPT ![l] = "skipped"] /\ UNCHANGED <<pacing, lastAsked>>

Reserves(l) ==
  /\ leg' = [leg EXCEPT ![l] = "asking"] /\ nextAllowed' = clock + Interval /\ lastAsked' = clock
  /\ UNCHANGED <<cooldownUntil, disabled>>

\* Slip: nothing serializes the reservations.
LockFree_Always == TRUE
LockFree == reserving = NoLeg

(* Under the provider's lock: refused, at once, or after a sleep for which *)
(* the lock is kept.                                                       *)
LegComes(l) ==
  /\ leg[l] = "new" /\ LockFree
  /\ CASE Refused -> Skips(l) /\ UNCHANGED <<wakes, reserving>>
       [] ~Refused /\ nextAllowed > clock ->
            /\ leg' = [leg EXCEPT ![l] = "sleeping"] /\ wakes' = [wakes EXCEPT ![l] = nextAllowed]
            /\ reserving' = l /\ UNCHANGED <<pacing, lastAsked>>
       [] OTHER -> Reserves(l) /\ UNCHANGED <<wakes, reserving>>
  /\ UNCHANGED <<clock, keyless>>

LegWakes(l) ==
  /\ leg[l] = "sleeping" /\ clock >= wakes[l]
  /\ IF RefusedNow THEN Skips(l) ELSE Reserves(l)
  /\ reserving' = NoLeg /\ UNCHANGED <<clock, wakes, keyless>>

(* A cancelled search gives the lock back. *)
LegCancelled(l) ==
  /\ leg[l] \in {"sleeping", "asking"} /\ leg' = [leg EXCEPT ![l] = "answered"]
  /\ reserving' = IF reserving = l THEN NoLeg ELSE reserving
  /\ UNCHANGED <<clock, wakes, keyless, pacing, lastAsked>>

LaterOf(a, b) == IF a > b THEN a ELSE b

(* The answer: a 429 and a time-out say when the provider may be asked     *)
(* again, each over what was said before.                                  *)
Answered429(after) ==
  IF keyless THEN disabled' = TRUE /\ UNCHANGED cooldownUntil
  ELSE cooldownUntil' = clock + LaterOf(LeastRest, after) /\ UNCHANGED disabled

LegAnswered(l, how, after) ==
  /\ leg[l] = "asking" /\ leg' = [leg EXCEPT ![l] = "answered"]
  /\ CASE how = "429" -> Answered429(after)
       [] how = "timeout" -> cooldownUntil' = clock + LeastRest /\ UNCHANGED disabled
       [] OTHER -> UNCHANGED <<cooldownUntil, disabled>>
  /\ UNCHANGED <<clock, wakes, keyless, nextAllowed, reserving, lastAsked>>

ClockTicks ==
  /\ clock < MaxClock /\ clock' = clock + 1
  /\ UNCHANGED <<leg, wakes, keyless, pacing, reserving, lastAsked>>

PacingNext ==
  \/ ClockTicks
  \/ \E l \in Legs :
       \/ LegComes(l) \/ LegWakes(l) \/ LegCancelled(l)
       \/ \E how \in {"ok", "error", "timeout", "429"}, after \in RetryAfters : LegAnswered(l, how, after)

PacingSpec == PacingInit /\ [][PacingNext]_pacingVars

-----------------------------------------------------------------------------
(* A request goes out an interval after the one before it, and not while   *)
(* the provider is resting or given up, though it has slept since it       *)
(* looked (webtools.py, line 207: serialize the reservations).             *)
RequestsArePaced ==
  [][lastAsked' # lastAsked =>
       /\ lastAsked = Never \/ clock >= lastAsked + Interval
       /\ ~disabled /\ cooldownUntil <= clock]_pacingVars
=============================================================================
