----------------------------- MODULE Connectors -----------------------------
(***************************************************************************)
(* One external service that the user can connect (connectors/manager.py,  *)
(* oauth.py): the sign-in on the provider's page, which answers on a       *)
(* loopback port; the stored grant; and the access tokens that workers are *)
(* given, refreshed one at a time and kept until they are about to expire. *)
(* A token or a grant is the sign-in it comes from.                        *)
(***************************************************************************)
EXTENDS Naturals, FiniteSets

CONSTANTS SignIns,       \* times the user says connect
          Calls,         \* worker requests for the connection
          MaxExpiries, MaxForged, MaxForgets   \* bounds

ASSUME ConnectorsAssumption == "free" \notin Calls

VARIABLES signIn,    \* stage of each sign-in, and what its listener has heard
          port,      \* who listens on the registered port
          pages,     \* callbacks being answered: of which sign-in, and what they said
          allowed,   \* sign-ins the user allowed on the provider's page
          grant,     \* the stored grant, "none" when not connected
          token,     \* the cached access token and whether it is fresh
          call,      \* stage of each worker request and the token it got
          access,    \* ConnectorManager._lock
          counts     \* how often each bounded thing happened

connectorsVars == <<signIn, port, pages, allowed, grant, token, call, access, counts>>

ConsentAnswers == {"allow", "deny", "forged"}

ConnectorsTypeOK ==
  /\ \A f \in SignIns : signIn[f].stage \in {"none", "listening", "exchanging", "connected", "failed"}
                        /\ signIn[f].heard \in ConsentAnswers \cup {"nothing", "closed"}
  /\ port \in SignIns \cup {"free"} /\ allowed \subseteq SignIns /\ grant \in SignIns \cup {"none"}
  /\ \A p \in pages : p.of \in SignIns /\ p.said \in ConsentAnswers
  /\ token.of \in SignIns \cup {"none"} /\ token.fresh \in BOOLEAN /\ access \in Calls \cup {"free"}
  /\ \A c \in Calls : call[c].stage \in {"none", "waiting", "refreshing", "looking", "served", "refused"}
                      /\ call[c].got \in SignIns \cup {"none"}

ConnectorsInit ==
  /\ signIn = [f \in SignIns |-> [stage |-> "none", heard |-> "nothing"]]
  /\ port = "free" /\ pages = {} /\ allowed = {} /\ grant = "none"
  /\ token = [of |-> "none", fresh |-> FALSE]
  /\ call = [c \in Calls |-> [stage |-> "none", got |-> "none"]] /\ access = "free"
  /\ counts = [expired |-> 0, forged |-> 0, forgotten |-> 0]

(* connect: only when there is no grant, and only one can have the port. *)
SignInStarts(f) ==
  /\ signIn[f].stage = "none"
  /\ IF grant = "none" /\ port = "free"
     THEN port' = f /\ signIn' = [signIn EXCEPT ![f].stage = "listening"]
     ELSE signIn' = [signIn EXCEPT ![f].stage = "failed"] /\ UNCHANGED port
  /\ UNCHANGED <<pages, allowed, grant, token, call, access, counts>>

\* Slip: any callback is taken for the answer.
Matches_Any(said) == TRUE

(* Only the state of this sign-in settles it. *)
Matches(said) == said # "forged"

(* _handle: whether the callback is the answer is decided before its page  *)
(* is sent; another callback may come between.                             *)
CallbackArrives(f, said) ==
  /\ port = f /\ [of |-> f, said |-> said] \notin pages
  /\ IF said = "forged" THEN counts.forged < MaxForged /\ counts' = [counts EXCEPT !.forged = @ + 1]
     ELSE UNCHANGED counts
  /\ allowed' = IF said = "allow" THEN allowed \cup {f} ELSE allowed
  /\ pages' = IF Matches(said) /\ signIn[f].heard = "nothing" THEN pages \cup {[of |-> f, said |-> said]} ELSE pages
  /\ UNCHANGED <<signIn, port, grant, token, call, access>>

(* set_result after the page was sent; it raises when it comes too late. *)
CallbackSettles(p) ==
  /\ p \in pages /\ pages' = pages \ {p}
  /\ signIn' = IF signIn[p.of].heard = "nothing" THEN [signIn EXCEPT ![p.of].heard = p.said] ELSE signIn
  /\ UNCHANGED <<port, allowed, grant, token, call, access, counts>>

(* wait ends with the answer, or after CALLBACK_TIMEOUT; the port is freed. *)
SignInHeard(f) ==
  /\ signIn[f].stage = "listening" /\ signIn[f].heard # "nothing" /\ port' = "free"
  /\ signIn' = [signIn EXCEPT ![f].stage = IF signIn[f].heard = "deny" THEN "failed" ELSE "exchanging"]
  /\ UNCHANGED <<pages, allowed, grant, token, call, access, counts>>

SignInTimesOut(f) ==
  /\ signIn[f].stage = "listening" /\ signIn[f].heard = "nothing" /\ port' = "free"
  /\ signIn' = [signIn EXCEPT ![f] = [stage |-> "failed", heard |-> "closed"]]
  /\ UNCHANGED <<pages, allowed, grant, token, call, access, counts>>

(* exchange_code: the grant and the first token are kept together. *)
CodeExchanged(f) ==
  /\ signIn[f].stage = "exchanging"
  /\ \/ /\ signIn' = [signIn EXCEPT ![f].stage = "connected"]
        /\ grant' = f /\ token' = [of |-> f, fresh |-> TRUE]
     \/ /\ signIn' = [signIn EXCEPT ![f].stage = "failed"] /\ UNCHANGED <<grant, token>>
  /\ UNCHANGED <<port, pages, allowed, call, access, counts>>

-----------------------------------------------------------------------------
(* connection: a worker asks; a service that is not connected is refused.  *)
ConnectionAsked(c) ==
  /\ call[c].stage = "none"
  /\ call' = [call EXCEPT ![c].stage = IF grant = "none" THEN "refused" ELSE "waiting"]
  /\ UNCHANGED <<signIn, port, pages, allowed, grant, token, access, counts>>

\* Slip: two refreshes may run together.
MayRefresh_Always == TRUE

MayRefresh == access = "free"

(* _access: the cached token if it is fresh, or a refresh of the grant. *)
AccessTaken(c) ==
  /\ call[c].stage = "waiting" /\ MayRefresh
  /\ IF token.of # "none" /\ token.fresh
     THEN call' = [call EXCEPT ![c] = [stage |-> "looking", got |-> token.of]] /\ UNCHANGED access
     ELSE IF grant = "none" THEN call' = [call EXCEPT ![c].stage = "refused"] /\ UNCHANGED access
     ELSE call' = [call EXCEPT ![c] = [stage |-> "refreshing", got |-> grant]] /\ access' = c
  /\ UNCHANGED <<signIn, port, pages, allowed, grant, token, counts>>

(* What comes back is kept as the token, of whichever grant it was asked. *)
AccessRefreshed(c) ==
  /\ call[c].stage = "refreshing" /\ access' = "free"
  /\ \/ token' = [of |-> call[c].got, fresh |-> TRUE] /\ call' = [call EXCEPT ![c].stage = "looking"]
     \/ call' = [call EXCEPT ![c] = [stage |-> "refused", got |-> "none"]] /\ UNCHANGED token
  /\ UNCHANGED <<signIn, port, pages, allowed, grant, counts>>

(* The provider's lookup is outside the lock. *)
ExtrasFound(c) ==
  /\ call[c].stage = "looking"
  /\ \E end \in {"served", "refused"} : call' = [call EXCEPT ![c].stage = end]
  /\ UNCHANGED <<signIn, port, pages, allowed, grant, token, access, counts>>

TokenExpires ==
  /\ token.fresh /\ counts.expired < MaxExpiries
  /\ token' = [token EXCEPT !.fresh = FALSE] /\ counts' = [counts EXCEPT !.expired = @ + 1]
  /\ UNCHANGED <<signIn, port, pages, allowed, grant, call, access>>

Disconnected ==
  /\ grant # "none" /\ counts.forgotten < MaxForgets
  /\ grant' = "none" /\ token' = [of |-> "none", fresh |-> FALSE]
  /\ counts' = [counts EXCEPT !.forgotten = @ + 1]
  /\ UNCHANGED <<signIn, port, pages, allowed, call, access>>

ConnectorsNext ==
  \/ \E f \in SignIns :
       \/ SignInStarts(f) \/ SignInHeard(f) \/ SignInTimesOut(f) \/ CodeExchanged(f)
       \/ \E said \in ConsentAnswers : CallbackArrives(f, said)
  \/ \E p \in pages : CallbackSettles(p)
  \/ \E c \in Calls : ConnectionAsked(c) \/ AccessTaken(c) \/ AccessRefreshed(c) \/ ExtrasFound(c)
  \/ TokenExpires \/ Disconnected

ConnectorsSpec == ConnectorsInit /\ [][ConnectorsNext]_connectorsVars

-----------------------------------------------------------------------------
(* Nobody is connected without the user's Allow on the provider's page, in *)
(* answer to that sign-in: not by a stray callback, a second one, one that *)
(* comes when another sign-in has the port, or a late refresh (oauth.py    *)
(* 45-48, manager.py 149-150).                                             *)
OnlyTheUserConnects ==
  {grant, token.of} \cup {call[c].got : c \in Calls} \subseteq allowed \cup {"none"}

(* Workers that find the token stale wait for one refresh (manager.py 237). *)
RefreshedOnce == Cardinality({c \in Calls : call[c].stage = "refreshing"}) <= 1

(* A worker is never served the account of a grant that was replaced: does *)
(* not hold, since a refresh that is under way keeps what it comes back    *)
(* with even when another account was connected in the meantime.           *)
TokenIsOfTheGrant == grant # "none" /\ token.fresh => token.of = grant
=============================================================================
