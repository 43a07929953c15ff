----------------------------- MODULE TaskContext -----------------------------
(***************************************************************************)
(* What the main model is told of a conversation's tasks before it answers *)
(* (tasks.py, context): the tasks with those at work first, the last       *)
(* updates and the last instructions.  They are read in three transactions *)
(* of the store, between which more is said; what is too long is reduced   *)
(* one thing at a time until it fits or nothing is left to give up.        *)
(***************************************************************************)
EXTENDS Naturals, FiniteSets, FiniteSetsExt, SequencesExt, Selection

CONSTANTS MaxSaved,    \* tasks in the store
          MaxShown,    \* tasks told of: 8
          LastBlocked, LastEnded,   \* of these only the last: 2 and 3
          LastUpdates, LastOrders,  \* 3 and 8
          MaxSaid,     \* updates and instructions of the conversation
          Budgets      \* lengths allowed: 12,000 characters

ASSUME ContextAssumption ==
  /\ MaxSaved \in Nat /\ MaxSaid \in Nat /\ Budgets \subseteq Nat
  /\ {MaxShown, LastBlocked, LastEnded, LastUpdates, LastOrders} \subseteq Nat \ {0}

VARIABLES saved,   \* the tasks in the store, oldest first
          said,    \* the updates in the mailbox, in order, by their kind
          orders,  \* instructions so far
          composing,  \* stage, the updates and orders there were at the start, and at the snapshot
          context  \* what it gives: records of tasks, updates and orders by their numbers

contextVars == <<saved, said, orders, composing, context>>

SavedTasks == {"running", "queued", "blocked", "asking", "ended"}   \* "asking": blocked, with its worker
UpdateKinds == {"conversation", "notice", "heartbeat"}
NothingTold == [records |-> <<>>, updates |-> {}, orders |-> {}]

ContextTypeOK ==
  /\ saved \in BoundedSeq(SavedTasks, MaxSaved) /\ said \in BoundedSeq(UpdateKinds, MaxSaid)
  /\ orders \in 0..MaxSaid /\ composing.at \in {"snapshot", "updates", "orders", "fitting", "given", "refused"}
  /\ context.updates \subseteq DOMAIN said /\ context.orders \subseteq 1..orders
  /\ \A i \in DOMAIN context.records : context.records[i].task \in DOMAIN saved

ContextInit ==
  /\ saved \in BoundedSeq(SavedTasks, MaxSaved) /\ said \in BoundedSeq(UpdateKinds, MaxSaid)
  /\ orders \in 0..MaxSaid /\ context = NothingTold
  /\ \E budget \in Budgets :
       composing = [at |-> "snapshot", budget |-> budget, began |-> Len(said), ordered |-> orders, horizon |-> 0]

-----------------------------------------------------------------------------
Newest(S, n) == {i \in S : Cardinality({j \in S : j > i}) < n}
Of(kinds) == {i \in DOMAIN saved : saved[i] \in kinds}
Ascending(S) == Ranked(S, {p \in S \X S : p[1] < p[2]})
Descending(S) == Ranked(S, {p \in S \X S : p[1] > p[2]})

Owned == Of({"running", "asking"})

(* Work in progress first, then the queue, then the last of the others. *)
RelevantTasks ==
  Ascending(Owned) \o Ascending(Of({"queued"}))
  \o Descending(Newest(Of({"blocked"}), LastBlocked)) \o Descending(Newest(Of({"ended"}), LastEnded))

RecordOf(i) == [task |-> i, findings |-> TRUE, details |-> TRUE]

(* The snapshot has the notices too. *)
SnapshotTaken ==
  /\ composing.at = "snapshot"
  /\ context' = [context EXCEPT !.records =
                 [i \in 1..Min({MaxShown, Len(RelevantTasks)}) |-> RecordOf(RelevantTasks[i])]]
  /\ composing' = [composing EXCEPT !.at = "updates", !.horizon = Len(said)]
  /\ UNCHANGED <<saved, said, orders>>

Talk == Newest({i \in DOMAIN said : said[i] = "conversation"}, LastUpdates)
Notices == Newest({i \in 1..composing.horizon : said[i] = "notice"}, LastUpdates)

UpdatesRead ==
  /\ composing.at = "updates" /\ composing' = [composing EXCEPT !.at = "orders"]
  /\ context' = [context EXCEPT !.updates = Newest(Talk \cup Notices, LastUpdates)]
  /\ UNCHANGED <<saved, said, orders>>

OrdersRead ==
  /\ composing.at = "orders" /\ composing' = [composing EXCEPT !.at = "fitting"]
  /\ context' = [context EXCEPT !.orders = Newest(1..orders, LastOrders)]
  /\ UNCHANGED <<saved, said, orders>>

MoreSaid(kind) ==
  /\ composing.at \in {"updates", "orders"} /\ Len(said) < MaxSaid /\ said' = Append(said, kind)
  /\ UNCHANGED <<saved, orders, composing, context>>

MoreOrdered ==
  /\ composing.at \in {"updates", "orders"} /\ orders < MaxSaid /\ orders' = orders + 1
  /\ UNCHANGED <<saved, said, composing, context>>

-----------------------------------------------------------------------------
Count(flag) == IF flag THEN 1 ELSE 0
CostOf(t) == [i \in DOMAIN t.records |-> 1 + Count(t.records[i].findings) + Count(t.records[i].details)]
LengthOf(t) ==
  MapThenSumSet(LAMBDA i : CostOf(t)[i], DOMAIN t.records)
  + Cardinality(t.updates) + Cardinality(t.orders)

Fits == LengthOf(context) <= composing.budget

(* The first of these that is possible, if any. *)
GivenUp ==
  LET any == context.records # <<>> IN
  IF Len(context.records) > 1 THEN [context EXCEPT !.records = SubSeq(@, 1, Len(@) - 1)]
  ELSE IF any /\ context.records[1].findings THEN [context EXCEPT !.records[1].findings = FALSE]
  ELSE IF Cardinality(context.updates) > 1 THEN [context EXCEPT !.updates = @ \ {Min(@)}]
  ELSE IF Cardinality(context.orders) > 1 THEN [context EXCEPT !.orders = @ \ {Min(@)}]
  ELSE IF any /\ context.records[1].details THEN [context EXCEPT !.records[1].details = FALSE]
  ELSE context

Shrinks ==
  /\ composing.at = "fitting" /\ ~Fits /\ context' = GivenUp
  /\ composing' = [composing EXCEPT !.at = IF context' = context THEN "refused" ELSE "fitting"]
  /\ UNCHANGED <<saved, said, orders>>

ContextGiven ==
  /\ composing.at = "fitting" /\ Fits /\ composing' = [composing EXCEPT !.at = "given"]
  /\ UNCHANGED <<saved, said, orders, context>>

ContextNext ==
  \/ SnapshotTaken \/ UpdatesRead \/ OrdersRead \/ Shrinks \/ ContextGiven \/ MoreOrdered
  \/ \E kind \in UpdateKinds : MoreSaid(kind)

ContextSpec == ContextInit /\ [][ContextNext]_contextVars

-----------------------------------------------------------------------------
Rank(i) ==
  CASE i \in Owned -> 1 [] saved[i] = "queued" -> 2 [] saved[i] = "blocked" -> 3 [] OTHER -> 4
ToldTasks == {context.records[i].task : i \in DOMAIN context.records}
NewestOf(S) == IF S = {} THEN 0 ELSE Max(S)

\* Of the same rank, what was begun first, and of what is over the last.
ToldBefore(i, j) ==
  Rank(i) < Rank(j) \/ (Rank(i) = Rank(j) /\ IF Rank(i) <= 2 THEN i < j ELSE i > j)
ToldBlocked == {i \in ToldTasks : Rank(i) = 3}

(* However little fits, the model knows of the work in progress before it  *)
(* knows of any other, and leaves out what is blocked only for newer       *)
(* blocked tasks; it knows of the last thing the user was told when it     *)
(* asked and of the last instruction (tasks.py, line 688: preserve the     *)
(* last delivered ordering); it is refused only when not even those would  *)
(* fit.                                                                    *)
LastWordIsTold ==
  composing.at \in {"given", "refused"} =>
    /\ \A i \in ToldTasks, j \in DOMAIN saved \ ToldTasks :
         ToldBefore(i, j) \/ (Rank(j) = 3 /\ Cardinality(ToldBlocked) = LastBlocked /\ \A k \in ToldBlocked : k > j)
    /\ saved # <<>> => ToldTasks # {}
    /\ NewestOf(context.updates) >= NewestOf({i \in 1..composing.began : said[i] # "heartbeat"})
    /\ NewestOf(context.orders) >= composing.ordered
    /\ (composing.at = "refused" =>
          composing.budget < Count(saved # <<>>) + Count(context.updates # {}) + Count(context.orders # {}))
=============================================================================
