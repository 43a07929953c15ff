----------------------------- MODULE HostRelay -----------------------------
(***************************************************************************)
(* The relay through which workers reach the host (connections.py): the    *)
(* store of agents (agents_store.py), served from a thread pool, and the   *)
(* bookings of the timer tools (subagent_tools/scheduling.py).  A call may *)
(* be given up by its worker while the host still handles it, and the host *)
(* may stop at any point of it.                                            *)
(***************************************************************************)
EXTENDS Naturals, FiniteSets

CONSTANTS Namespaces, Keys, RelayCalls,
          MaxKeys, MaxNamespaces,   \* MAX_KEYS_PER_NAMESPACE, MAX_NAMESPACES
          MaxHostStops              \* bound

ASSUME RelayAssumption ==
  /\ {"none", "torn", "free"} \cap RelayCalls = {}
  /\ MaxKeys \in Nat /\ MaxNamespaces \in Nat /\ MaxHostStops \in Nat

VARIABLES dirs,      \* directories of namespaces, entries or not
          entries,   \* entries[ns][key]: the call that wrote it, "none" or "torn"
          putLock,   \* AgentStore._lock
          relay,     \* the calls: what they ask, how far the host is, what the worker was told
          jobs,      \* the booking of each call: in memory, and on disk
          host       \* whether the service runs, and how often it stopped

relayVars == <<dirs, entries, putLock, relay, jobs, host>>

Operations == {"put", "delete", "get", "list", "book"}
NoCall == [op |-> "none", ns |-> "none", key |-> "none", stage |-> "none", rest |-> {}, answer |-> "none", told |-> "none"]

RelayTypeOK ==
  /\ dirs \subseteq Namespaces /\ putLock \in RelayCalls \cup {"free"}
  /\ \A n \in Namespaces, k \in Keys : entries[n][k] \in RelayCalls \cup {"none", "torn"}
  /\ \A c \in RelayCalls :
       /\ relay[c].stage \in {"none", "sent", "allowed", "staged", "found", "listing", "answered", "lost"}
       /\ relay[c].op \in Operations \cup {"none"} /\ relay[c].rest \subseteq Keys
       /\ relay[c].told \in {"none", "ok", "refused", "missing", "error", "unknown"}
       /\ jobs[c] \in [memory : BOOLEAN, disk : BOOLEAN]
  /\ host.up \in BOOLEAN /\ host.stops \in 0 .. MaxHostStops

RelayInit ==
  /\ dirs = {} /\ entries = [n \in Namespaces |-> [k \in Keys |-> "none"]] /\ putLock = "free"
  /\ relay = [c \in RelayCalls |-> NoCall] /\ jobs = [c \in RelayCalls |-> [memory |-> FALSE, disk |-> FALSE]]
  /\ host = [up |-> TRUE, stops |-> 0]

Stored(n) == {k \in Keys : entries[n][k] # "none"}
Moves(c, stage) == relay' = [relay EXCEPT ![c].stage = stage]
Answers(c, answer) == relay' = [relay EXCEPT ![c].stage = "answered", ![c].answer = answer]

CallSent(c, op, n, k) ==
  /\ relay[c].op = "none"
  /\ op = "book" => n = CHOOSE m \in Namespaces : TRUE
  /\ op \in {"book", "list"} => k = CHOOSE j \in Keys : TRUE
  /\ relay' = [relay EXCEPT ![c] = [NoCall EXCEPT !.op = op, !.ns = n, !.key = k,
                                      !.stage = IF host.up THEN "sent" ELSE "lost"]]
  /\ UNCHANGED <<dirs, entries, putLock, jobs, host>>

-----------------------------------------------------------------------------
\* Slip: puts check the quotas together.
MayPut_Always(c) == TRUE

MayPut(c) == putLock = "free"

(* put: the quotas are looked up under the lock.                           *)
PutChecks(c) ==
  /\ relay[c].op = "put" /\ relay[c].stage = "sent" /\ MayPut(c)
  /\ LET n == relay[c].ns
         many == relay[c].key \notin Stored(n) /\ Cardinality(Stored(n)) >= MaxKeys
         new == n \notin dirs /\ Cardinality(dirs) >= MaxNamespaces
     IN IF many \/ new THEN Answers(c, "refused") /\ UNCHANGED putLock
        ELSE Moves(c, "allowed") /\ putLock' = c
  /\ UNCHANGED <<dirs, entries, jobs, host>>

\* Slip: the entry itself is written, without a staging file.
Staged_InPlace(c) == [entries EXCEPT ![relay[c].ns][relay[c].key] = "torn"]

(* The staging file is no entry. *)
Staged(c) == entries

PutStages(c) ==
  /\ relay[c].op = "put" /\ relay[c].stage = "allowed" /\ Moves(c, "staged")
  /\ dirs' = dirs \cup {relay[c].ns} /\ entries' = Staged(c) /\ UNCHANGED <<putLock, jobs, host>>

PutReplaces(c) ==
  /\ relay[c].op = "put" /\ relay[c].stage = "staged" /\ Answers(c, "ok")
  /\ entries' = [entries EXCEPT ![relay[c].ns][relay[c].key] = c]
  /\ putLock' = "free" /\ UNCHANGED <<dirs, jobs, host>>

(* The disk is full: the staging file is removed, the directory stays.     *)
PutFails(c) ==
  /\ relay[c].op = "put" /\ relay[c].stage = "staged" /\ Answers(c, "error")
  /\ putLock' = "free" /\ UNCHANGED <<dirs, entries, jobs, host>>

(* delete, get: first whether the file is there, then the file, which a    *)
(* delete may have taken.  They take no lock; the directory is kept.       *)
EntryLooked(c) ==
  /\ relay[c].op \in {"delete", "get"} /\ relay[c].stage = "sent"
  /\ IF relay[c].key \in Stored(relay[c].ns) THEN Moves(c, "found") ELSE Answers(c, "missing")
  /\ UNCHANGED <<dirs, entries, putLock, jobs, host>>

EntryDeleted(c) ==
  /\ relay[c].op = "delete" /\ relay[c].stage = "found"
  /\ IF relay[c].key \in Stored(relay[c].ns)
     THEN Answers(c, "ok") /\ entries' = [entries EXCEPT ![relay[c].ns][relay[c].key] = "none"]
     ELSE Answers(c, "error") /\ UNCHANGED entries
  /\ UNCHANGED <<dirs, putLock, jobs, host>>

EntryRead(c) ==
  /\ relay[c].op = "get" /\ relay[c].stage = "found"
  /\ Answers(c, IF entries[relay[c].ns][relay[c].key] \in {"none", "torn"} THEN "refused" ELSE "ok")
  /\ UNCHANGED <<dirs, entries, putLock, jobs, host>>

(* list: the names first, then one file after the other; one that is gone  *)
(* is passed over, or fails the list when it goes after the look.          *)
EntriesGlobbed(c) ==
  /\ relay[c].op = "list" /\ relay[c].stage = "sent"
  /\ relay' = [relay EXCEPT ![c].stage = "listing", ![c].rest = Stored(relay[c].ns)]
  /\ UNCHANGED <<dirs, entries, putLock, jobs, host>>

EntryListed(c) ==
  /\ relay[c].op = "list" /\ relay[c].stage = "listing"
  /\ IF relay[c].rest = {} THEN Answers(c, "ok")
     ELSE \E k \in relay[c].rest :
            \/ entries[relay[c].ns][k] # "torn" /\ relay' = [relay EXCEPT ![c].rest = @ \ {k}]
            \/ entries[relay[c].ns][k] \in {"none", "torn"} /\ Answers(c, "refused")
  /\ UNCHANGED <<dirs, entries, putLock, jobs, host>>

\* Slip: a booking whose file could not be written is answered as made.
BookingAnswer_Always(saved) == "ok"

BookingAnswer(saved) == IF saved THEN "ok" ELSE "error"

(* schedule: memory first, then the file with all jobs, on the event loop. *)
JobBooked(c) ==
  /\ relay[c].op = "book" /\ relay[c].stage = "sent"
  /\ \E saved \in BOOLEAN :
       /\ jobs' = [d \in RelayCalls |-> LET known == jobs[d].memory \/ d = c
                                        IN [memory |-> known, disk |-> jobs[d].disk \/ (known /\ saved)]]
       /\ Answers(c, BookingAnswer(saved))
  /\ UNCHANGED <<dirs, entries, putLock, host>>

-----------------------------------------------------------------------------
(* _relay: the answer, or nothing within 20 seconds, whatever the host did. *)
AnswerArrives(c) ==
  /\ relay[c].stage = "answered" /\ relay[c].told = "none"
  /\ relay' = [relay EXCEPT ![c].told = relay[c].answer] /\ UNCHANGED <<dirs, entries, putLock, jobs, host>>

AnswerLost(c) ==
  /\ relay[c].stage # "none" /\ relay[c].told = "none"
  /\ relay' = [relay EXCEPT ![c].told = "unknown"] /\ UNCHANGED <<dirs, entries, putLock, jobs, host>>

HostStops ==
  /\ host.up /\ host.stops < MaxHostStops /\ host' = [up |-> FALSE, stops |-> host.stops + 1]
  /\ relay' = [c \in RelayCalls |-> IF relay[c].stage = "none" THEN relay[c] ELSE [relay[c] EXCEPT !.stage = "lost", !.rest = {}]]
  /\ putLock' = "free" /\ jobs' = [c \in RelayCalls |-> [jobs[c] EXCEPT !.memory = FALSE]]
  /\ UNCHANGED <<dirs, entries>>

HostStarts ==
  /\ ~host.up /\ host' = [host EXCEPT !.up = TRUE]
  /\ jobs' = [c \in RelayCalls |-> [jobs[c] EXCEPT !.memory = jobs[c].disk]]
  /\ UNCHANGED <<dirs, entries, putLock, relay>>

RelayNext ==
  \/ \E c \in RelayCalls :
       \/ \E op \in Operations, n \in Namespaces, k \in Keys : CallSent(c, op, n, k)
       \/ PutChecks(c) \/ PutStages(c) \/ PutReplaces(c) \/ PutFails(c)
       \/ EntryLooked(c) \/ EntryDeleted(c) \/ EntryRead(c) \/ EntriesGlobbed(c) \/ EntryListed(c)
       \/ JobBooked(c) \/ AnswerArrives(c) \/ AnswerLost(c)
  \/ HostStops \/ HostStarts

RelaySpec == RelayInit /\ [][RelayNext]_relayVars

-----------------------------------------------------------------------------
(* The quotas hold for puts of several threads, beside deletes and across  *)
(* stops (agents_store.py 47-48), and what a crash leaves is whole.        *)
QuotasHold ==
  /\ \A n \in Namespaces : Cardinality(Stored(n)) <= MaxKeys /\ (Stored(n) # {} => n \in dirs)
  /\ Cardinality(dirs) <= MaxNamespaces
  /\ \A n \in Namespaces, k \in Keys : entries[n][k] # "torn"

(* A booking that a worker was told of is on disk: it outlives the host    *)
(* ("never claim a booking without an id"); the converse does not hold.    *)
ToldIsBooked == \A c \in RelayCalls : relay[c].op = "book" /\ relay[c].told = "ok" => jobs[c].disk
=============================================================================
