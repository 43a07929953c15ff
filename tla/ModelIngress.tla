----------------------------- MODULE ModelIngress -----------------------------
(***************************************************************************)
(* The requests of the native worker for the language model: ModelIngress  *)
(* of src/recollect/engine/model_admission.py, on top of ModelAdmission.    *)
(*                                                                         *)
(* A request is two tasks: its owner, the HTTP handler, and the work that   *)
(* the owner runs beside a watch on the client's connection                 *)
(* (_while_connected).  The lease is taken by the work and returned by the  *)
(* owner's cleanup.  Either task may be cancelled wherever it awaits: the   *)
(* work by its owner when the client is gone, the owner by close.           *)
(***************************************************************************)
EXTENDS ModelAdmission

CONSTANTS
  Requests   \* the callers that come through the ingress, one request at a time

ASSUME IngressAssumption == Requests \subseteq Callers

VARIABLES
  life,       \* the server: new, serving, closing, stopping or closed
  borrowed,   \* not owns_admission: the admission belongs to somebody else
  owner,      \* where the handler of each request is
  work,       \* where its work is
  lease,      \* the variable "lease" of the handler
  response,   \* "response is not None"
  gone,       \* the client has disconnected
  doomed,     \* the owner is cancelled and has not run since
  active      \* the owners close waits for

ingress == <<life, borrowed, owner, work, lease, response, gone, doomed, active>>
allVars == <<vars, ingress>>

Owners ==
  {"none",
   "parsing",     \* awaits request.json()
   "connecting",  \* in _while_connected(connect())
   "reading",     \* in _while_connected(read_body())
   "streaming",   \* in _ModelStream.__call__
   "leaving",     \* an exception left _while_connected, which awaits the work
   "finishing",   \* in the cleanup of a body that was read
   "cleanup",     \* in the cleanup of an exception, or of a stream
   "again"}       \* in the cleanup of an exception of a cleanup

Works ==
  {"none", "context", "acquire", "send", "read",
   "dying",              \* cancelled, and has not run since
   "done", "failed"}

Over(c) == work[c] \in {"none", "done", "failed"}

\* "task in self._requests"
Registered(c) == owner[c] \notin {"none", "parsing", "again"}

IngressInit ==
  /\ Init
  /\ life = "new"
  /\ borrowed \in BOOLEAN
  /\ owner = [c \in Requests |-> "none"]
  /\ work = [c \in Requests |-> "none"]
  /\ lease = [c \in Requests |-> FALSE]
  /\ response = [c \in Requests |-> FALSE]
  /\ gone = [c \in Requests |-> FALSE]
  /\ doomed = [c \in Requests |-> FALSE]
  /\ active = {}

-----------------------------------------------------------------------------
(***************************************************************************)
(* The work: connect() and read_body().                                    *)
(***************************************************************************)

\* The owner of work that ends may be over already.
WorkEnds(c, how) ==
  work' = [work EXCEPT ![c] = IF owner[c] = "none" THEN "none" ELSE how]

\* check_context passed and acquire is called.  A free slot is taken without
\* suspending.
ContextChecked(c) ==
  /\ work[c] = "context"
  /\ life # "closed"
  /\ Acquire(c, "worker")
  /\ lease' = [lease EXCEPT ![c] = phase'[c] = "holding"]
  /\ work' = [work EXCEPT ![c] = IF phase'[c] = "holding" THEN "send" ELSE "acquire"]
  /\ UNCHANGED <<life, borrowed, owner, response, gone, doomed, active>>

\* The context is too long or not answered, or acquire raises at once.
ContextFails(c) ==
  /\ work[c] = "context"
  /\ WorkEnds(c, "failed")
  /\ UNCHANGED <<vars, life, borrowed, owner, lease, response, gone, doomed, active>>

\* Mutant: the lease is noted when the model has answered.
Acquired_Later(c) ==
  /\ work[c] = "acquire"
  /\ Resume(c)
  /\ work' = [work EXCEPT ![c] = "send"]
  /\ UNCHANGED <<life, borrowed, owner, lease, response, gone, doomed, active>>

\* acquire returns
Acquired(c) ==
  /\ work[c] = "acquire"
  /\ Resume(c)
  /\ lease' = [lease EXCEPT ![c] = TRUE]
  /\ work' = [work EXCEPT ![c] = "send"]
  /\ UNCHANGED <<life, borrowed, owner, response, gone, doomed, active>>

\* acquire raises: it was cancelled or the admission was closed
AcquireRaises(c) ==
  /\ work[c] = "acquire"
  /\ Leave(c) \/ GiveBack(c)
  /\ WorkEnds(c, "failed")
  /\ UNCHANGED <<life, borrowed, owner, lease, response, gone, doomed, active>>

\* client.send; a client that is closed answers no more
Sent(c) ==
  /\ work[c] = "send"
  /\ life # "closed"
  /\ work' = [work EXCEPT ![c] = "done"]
  /\ response' = [response EXCEPT ![c] = TRUE]
  /\ UNCHANGED <<vars, life, borrowed, owner, lease, gone, doomed, active>>

BodyArrived(c) ==
  /\ work[c] = "read"
  /\ life # "closed"
  /\ work' = [work EXCEPT ![c] = "done"]
  /\ UNCHANGED <<vars, life, borrowed, owner, lease, response, gone, doomed, active>>

\* The connection to the model fails, the answer is late or too large.
TransportFails(c) ==
  /\ work[c] \in {"send", "read"}
  /\ WorkEnds(c, "failed")
  /\ UNCHANGED <<vars, life, borrowed, owner, lease, response, gone, doomed, active>>

\* CancelledError arrives in the work, outside of acquire.
WorkDies(c) ==
  /\ work[c] = "dying"
  /\ WorkEnds(c, "failed")
  /\ UNCHANGED <<vars, life, borrowed, owner, lease, response, gone, doomed, active>>

\* Mutant: the work goes on.
CancelWork_Not(c) == UNCHANGED <<vars, work>>

\* work.cancel(), "if not work.done()"
CancelWork(c) ==
  \/ /\ work[c] = "acquire" /\ phase[c] \in {"queued", "granted"}
     /\ Cancel(c)
     /\ UNCHANGED work
  \/ /\ work[c] \in {"context", "send", "read"}
     /\ work' = [work EXCEPT ![c] = "dying"]
     /\ UNCHANGED vars
  \/ /\ \/ work[c] = "acquire" /\ phase[c] \notin {"queued", "granted"}
        \/ work[c] = "dying" \/ Over(c)
     /\ UNCHANGED <<vars, work>>

-----------------------------------------------------------------------------
(***************************************************************************)
(* The owner: completion().                                                *)
(***************************************************************************)

\* A request is authorized and the server does not close.
Arrive(c) ==
  /\ life = "serving"
  /\ owner[c] = "none" /\ work[c] = "none"
  /\ owner' = [owner EXCEPT ![c] = "parsing"]
  /\ gone' = [gone EXCEPT ![c] = FALSE]
  /\ UNCHANGED <<vars, life, borrowed, work, lease, response, doomed, active>>

\* The body is complete and valid.  Nobody looks at _closing again.
Parsed(c) ==
  /\ owner[c] = "parsing"
  /\ owner' = [owner EXCEPT ![c] = "connecting"]
  /\ work' = [work EXCEPT ![c] = "context"]
  /\ UNCHANGED <<vars, life, borrowed, lease, response, gone, doomed, active>>

\* ... or is not, or never comes
Rejected(c) ==
  /\ owner[c] = "parsing"
  /\ owner' = [owner EXCEPT ![c] = "none"]
  /\ UNCHANGED <<vars, life, borrowed, work, lease, response, gone, doomed, active>>

\* the client closes its connection
Hangup(c) ==
  /\ owner[c] # "none" /\ ~gone[c]
  /\ gone' = [gone EXCEPT ![c] = TRUE]
  /\ UNCHANGED <<vars, life, borrowed, owner, work, lease, response, doomed, active>>

\* connect() returned: the answer is read, or handed on as it arrives
Connected(c) ==
  /\ owner[c] = "connecting" /\ work[c] = "done" /\ ~doomed[c]
  /\ \/ /\ owner' = [owner EXCEPT ![c] = "reading"]
        /\ work' = [work EXCEPT ![c] = "read"]
     \/ /\ owner' = [owner EXCEPT ![c] = "streaming"]
        /\ work' = [work EXCEPT ![c] = "none"]
  /\ UNCHANGED <<vars, life, borrowed, lease, response, gone, doomed, active>>

BodyRead(c) ==
  /\ owner[c] = "reading" /\ work[c] = "done" /\ ~doomed[c]
  /\ owner' = [owner EXCEPT ![c] = "finishing"]
  /\ work' = [work EXCEPT ![c] = "none"]
  /\ UNCHANGED <<vars, life, borrowed, lease, response, gone, doomed, active>>

\* The stream ended, broke, or its client is gone.
StreamEnds(c) ==
  /\ owner[c] = "streaming" /\ ~doomed[c]
  /\ owner' = [owner EXCEPT ![c] = "cleanup"]
  /\ UNCHANGED <<vars, life, borrowed, work, lease, response, gone, doomed, active>>

\* _while_connected raises 499
Disconnected(c) ==
  /\ owner[c] \in {"connecting", "reading"} /\ gone[c] /\ ~doomed[c]
  /\ owner' = [owner EXCEPT ![c] = "leaving"]
  /\ CancelWork(c)
  /\ UNCHANGED <<life, borrowed, lease, response, gone, doomed, active>>

\* Mutant: what is released is still noted as a lease.
CleanedUp_Keeps(c) ==
  /\ IF lease[c] THEN Release(c) ELSE UNCHANGED vars
  /\ UNCHANGED lease

\* the end of cleanup(): the lease is returned if there is one
CleanedUp(c) ==
  /\ IF lease[c] THEN Release(c) ELSE UNCHANGED vars
  /\ lease' = [lease EXCEPT ![c] = FALSE]

\* The handler is over; its work may not be.
Ends(c) ==
  /\ owner' = [owner EXCEPT ![c] = "none"]
  /\ work' = [work EXCEPT ![c] = IF Over(c) THEN "none" ELSE @]
  /\ response' = [response EXCEPT ![c] = FALSE]

\* "except BaseException": cleanup suspends only when there is a response
Raises(c) ==
  IF response[c]
  THEN /\ owner' = [owner EXCEPT ![c] = "cleanup"]
       /\ UNCHANGED <<vars, work, lease, response>>
  ELSE CleanedUp(c) /\ Ends(c)

WorkFailed(c) ==
  /\ owner[c] \in {"connecting", "reading"} /\ work[c] = "failed" /\ ~doomed[c]
  /\ Raises(c)
  /\ UNCHANGED <<life, borrowed, gone, doomed, active>>

\* The work is over: gather returns in the finally of _while_connected.
Left(c) ==
  /\ owner[c] = "leaving" /\ Over(c) /\ ~doomed[c]
  /\ Raises(c)
  /\ UNCHANGED <<life, borrowed, gone, doomed, active>>

\* response.aclose() returned, or raised in the last cleanup
Cleaned(c) ==
  /\ owner[c] \in {"finishing", "cleanup", "again"} /\ ~doomed[c]
  /\ CleanedUp(c)
  /\ Ends(c)
  /\ UNCHANGED <<life, borrowed, gone, doomed, active>>

\* ... or raised in the first, which is inside the try block
CleanupFails(c) ==
  /\ owner[c] = "finishing"
  /\ CleanedUp(c)
  /\ owner' = [owner EXCEPT ![c] = "again"]
  /\ UNCHANGED <<work, response>>

CleanupRaises(c) ==
  /\ ~doomed[c]
  /\ CleanupFails(c)
  /\ UNCHANGED <<life, borrowed, gone, doomed, active>>

\* CancelledError arrives in the owner.
OwnerCancelled(c) ==
  /\ doomed[c]
  /\ doomed' = [doomed EXCEPT ![c] = FALSE]
  /\ \/ /\ owner[c] \in {"connecting", "reading"}
        /\ owner' = [owner EXCEPT ![c] = "leaving"]
        /\ CancelWork(c)
        /\ UNCHANGED <<lease, response>>
        \* gather, and with it the work, is cancelled a second time: the
        \* handler cleans up beside work that has not ended
     \/ owner[c] = "leaving" /\ Raises(c)
     \/ /\ owner[c] = "streaming"
        /\ owner' = [owner EXCEPT ![c] = "cleanup"]
        /\ UNCHANGED <<vars, work, lease, response>>
     \/ CleanupFails(c)
     \/ owner[c] \in {"cleanup", "again"} /\ CleanedUp(c) /\ Ends(c)
  /\ UNCHANGED <<life, borrowed, gone, active>>

-----------------------------------------------------------------------------
(***************************************************************************)
(* start and close.                                                        *)
(***************************************************************************)

Start ==
  /\ life = "new"
  /\ life' = "serving"
  /\ UNCHANGED <<vars, borrowed, owner, work, lease, response, gone, doomed, active>>

\* close, up to its first await, also of a server that did not start
CloseIngress ==
  LET waiting == {c \in Requests : Registered(c)} IN
  /\ life \in {"new", "serving"}
  /\ IF borrowed \/ closed THEN UNCHANGED vars ELSE Close
  /\ active' = waiting
  /\ doomed' = [c \in Requests |-> c \in waiting]
  /\ life' = IF waiting = {} THEN "stopping" ELSE "closing"
  /\ UNCHANGED <<borrowed, owner, work, lease, response, gone>>

\* The active owners ended, or 5 seconds passed and the rest is cancelled again.
CloseWaited ==
  /\ life = "closing"
  /\ life' = "stopping"
  /\ doomed' = [c \in Requests |-> doomed[c] \/ (c \in active /\ Registered(c))]
  /\ UNCHANGED <<vars, borrowed, owner, work, lease, response, gone, active>>

\* The server stopped, or did not in 5 seconds, and the client is closed.
CloseDone ==
  /\ life = "stopping"
  /\ life' = "closed"
  /\ UNCHANGED <<vars, borrowed, owner, work, lease, response, gone, doomed, active>>

\* The application closes the admission before the ingress.
AdmissionCloses == life = "serving" /\ Close /\ UNCHANGED ingress

\* The conversation uses the admission directly.
Others ==
  /\ \E c \in Callers \ Requests :
       Acquire(c, "conversation") \/ Cancel(c) \/ Resume(c)
         \/ GiveBack(c) \/ Leave(c) \/ Release(c)
  /\ UNCHANGED ingress

WorkStep(c) ==
  \/ ContextChecked(c) \/ ContextFails(c) \/ Acquired(c) \/ AcquireRaises(c)
  \/ Sent(c) \/ BodyArrived(c) \/ TransportFails(c) \/ WorkDies(c)

OwnerStep(c) ==
  \/ Arrive(c) \/ Parsed(c) \/ Rejected(c) \/ Hangup(c)
  \/ Connected(c) \/ BodyRead(c) \/ StreamEnds(c) \/ Disconnected(c)
  \/ WorkFailed(c) \/ Left(c) \/ Cleaned(c) \/ CleanupRaises(c) \/ OwnerCancelled(c)

IngressNext ==
  \/ Start \/ CloseIngress \/ CloseWaited \/ CloseDone \/ AdmissionCloses \/ Others
  \/ \E c \in Requests : WorkStep(c) \/ OwnerStep(c)

IngressSpec == IngressInit /\ [][IngressNext]_allVars

(***************************************************************************)
(* Fairness: the event loop runs what is ready and delivers cancellations; *)
(* the connection watch polls; closing a response is local; close has its   *)
(* own timeouts, and closing the client breaks its connections.  The model  *)
(* server need not answer, nor a client send its body or stay.              *)
(***************************************************************************)
IngressFairness ==
  /\ WF_allVars(CloseWaited) /\ WF_allVars(CloseDone)
  /\ \A c \in Requests :
       /\ WF_allVars(Acquired(c)) /\ WF_allVars(AcquireRaises(c))
       /\ WF_allVars(WorkDies(c)) /\ WF_allVars(life = "closed" /\ TransportFails(c))
       /\ WF_allVars(Connected(c)) /\ WF_allVars(BodyRead(c))
       /\ WF_allVars((gone[c] \/ life = "closed") /\ StreamEnds(c))
       /\ WF_allVars(Disconnected(c)) /\ WF_allVars(WorkFailed(c))
       /\ WF_allVars(Left(c)) /\ WF_allVars(Cleaned(c)) /\ WF_allVars(OwnerCancelled(c))

FairIngressSpec == IngressSpec /\ IngressFairness

-----------------------------------------------------------------------------
IngressTypeOK ==
  /\ life \in {"new", "serving", "closing", "stopping", "closed"}
  /\ borrowed \in BOOLEAN
  /\ owner \in [Requests -> Owners]
  /\ work \in [Requests -> Works]
  /\ lease \in [Requests -> BOOLEAN]
  /\ response \in [Requests -> BOOLEAN]
  /\ gone \in [Requests -> BOOLEAN]
  /\ doomed \in [Requests -> BOOLEAN]
  /\ active \subseteq Requests

\* The handler knows of every lease its work holds, at each point where one of
\* the two can be cancelled: cleanup returns it once, and never the slot of
\* somebody else.
LeaseIsKnown == \A c \in Requests : lease[c] <=> phase[c] = "holding"

\* A request that is over holds no lease and waits for none; at most its
\* cancelled work is about to leave the queue.
OverOwnsNothing ==
  \A c \in Requests : owner[c] = "none" =>
    /\ phase[c] \in {"idle", "cancelled", "revoked", "refused"}
    /\ phase[c] # "idle" => work[c] = "acquire"

\* Where the work is says what it has of the admission, and where the owner is
\* what its work may still be doing.
Flow(c) ==
  /\ work[c] = "acquire" =>
       ~lease[c] /\ lane[c] = "worker" /\ phase[c] \notin {"idle", "holding"}
  /\ work[c] # "acquire" => phase[c] = IF lease[c] THEN "holding" ELSE "idle"
  /\ work[c] = "context" \/ owner[c] \in {"none", "parsing", "again"} => ~lease[c]
  /\ owner[c] = "parsing" => work[c] = "none"
  /\ owner[c] \in {"none", "parsing"} => ~response[c]
  /\ owner[c] = "none" => work[c] \in {"none", "acquire", "dying"}
  /\ owner[c] \in {"none", "leaving"} =>
       /\ work[c] \notin {"context", "send", "read"}
       /\ phase[c] \notin {"queued", "granted"}
  /\ owner[c] \in {"streaming", "finishing", "cleanup", "again"} =>
       work[c] \in {"none", "dying", "done", "failed"}
  /\ response[c] => work[c] \notin {"context", "acquire", "send"}
  /\ owner[c] = "connecting" => work[c] # "read"

LeaseFlow == \A c \in Requests : Flow(c)

\* The slot of a client that is gone becomes free, even if the model server
\* never answers.
DisconnectFrees ==
  \A c \in Requests : gone[c] /\ Owns(c) ~> ~Owns(c)

\* After close no request owns a slot for ever, not even one that was being
\* parsed when close looked at the requests, and on a borrowed admission.
CloseFrees == life = "closed" ~> [](\A c \in Requests : ~Owns(c))

=============================================================================
