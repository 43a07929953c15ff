--------------------------- MODULE RequestLimits ---------------------------
(***************************************************************************)
(* ResourceLimitsMiddleware (limits.py): what the application is handed.   *)
(* A request takes a place before its body is read and gives it back       *)
(* however it ends; a body is read whole, within its limit and its time,   *)
(* before any route runs.                                                  *)
(***************************************************************************)
EXTENDS Integers, FiniteSets

CONSTANTS Posts,        \* requests
          Lengths,      \* what a request may declare, and what a chunk of its body may be
          MaxBody,      \* max_body_bytes
          MaxRequests   \* max_requests

ASSUME LimitsAssumption == Lengths \subseteq Nat /\ MaxBody \in Nat /\ MaxRequests \in Nat

Undeclared == -1
Bad == -2   \* a Content-Length that is repeated or no number

VARIABLES post,     \* stage of each request
          declared, \* its Content-Length
          total,    \* bytes read of its body
          active    \* _active

limitVars == <<post, declared, total, active>>

Inside == {"uploading", "refused", "served"}

LimitsTypeOK ==
  /\ post \in [Posts -> Inside \cup {"waiting", "busy", "ended"}]
  /\ declared \in [Posts -> Lengths \cup {Undeclared, Bad}] /\ total \in [Posts -> Nat] /\ active \in Int

LimitsInit ==
  /\ post = [p \in Posts |-> "waiting"] /\ declared \in [Posts -> Lengths \cup {Undeclared, Bad}]
  /\ total = [p \in Posts |-> 0] /\ active = 0

At(p, stage) == post' = [post EXCEPT ![p] = stage]

(* A place is taken or refused at once; a length that cannot be is refused *)
(* before the body is read.                                                *)
Enters(p) ==
  /\ post[p] = "waiting"
  /\ IF active >= MaxRequests THEN At(p, "busy") /\ UNCHANGED active
     ELSE /\ active' = active + 1
          /\ At(p, IF declared[p] = Bad \/ declared[p] > MaxBody THEN "refused" ELSE "uploading")
  /\ UNCHANGED <<declared, total>>

(* What a chunk makes of a request depends on what was read, not declared. *)
Chunk(p, size, more) ==
  /\ post[p] = "uploading" /\ total' = [total EXCEPT ![p] = @ + size]
  /\ At(p, IF total'[p] > MaxBody THEN "refused" ELSE IF more THEN "uploading" ELSE "served")
  /\ UNCHANGED <<declared, active>>

UploadTimesOut(p) ==
  /\ post[p] = "uploading" /\ At(p, "refused") /\ UNCHANGED <<declared, total, active>>

\* Slip: only what reached the application gives its place back.
PlaceBack_Answered(p) == IF post[p] = "served" THEN active - 1 ELSE active

(* The finally. *)
PlaceBack(p) == active - 1

(* The refusal is sent, the application answers or raises, or the client   *)
(* goes away while it uploads.                                             *)
Leaves(p) ==
  /\ post[p] \in Inside /\ At(p, "ended") /\ active' = PlaceBack(p)
  /\ UNCHANGED <<declared, total>>

LimitsNext ==
  \E p \in Posts :
    \/ Enters(p) \/ UploadTimesOut(p) \/ Leaves(p)
    \/ \E size \in Lengths, more \in BOOLEAN : Chunk(p, size, more)

LimitsSpec == LimitsInit /\ [][LimitsNext]_limitVars

-----------------------------------------------------------------------------
(* No place is lost and none is given twice: what is counted is what is    *)
(* inside, never more than the limit; no body beyond its limit is served.  *)
PlacesAreKept ==
  /\ active = Cardinality({p \in Posts : post[p] \in Inside}) /\ active <= MaxRequests
  /\ \A p \in Posts : post[p] = "served" => total[p] <= MaxBody
=============================================================================
