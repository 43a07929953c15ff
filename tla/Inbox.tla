------------------------------- MODULE Inbox -------------------------------
(***************************************************************************)
(* What the durable mailbox of a conversation promises: a message is put   *)
(* into the inbox of a task at most once however often it is sent, the     *)
(* order of an inbox never changes, and a reader is given an inbox as it   *)
(* is at one moment.  TaskMailbox implements it with a table, transactions *)
(* that may be refused, and pages.                                         *)
(***************************************************************************)
EXTENDS Sequences

CONSTANTS Owners, MessageIds

VARIABLES inbox,   \* of each owner: its messages, in order
          answer   \* the inbox last read, with its owner; <<>> before

inboxVars == <<inbox, answer>>

Used(id) == \E o \in Owners : \E i \in DOMAIN inbox[o] : inbox[o][i] = id

InboxInit == inbox = [o \in Owners |-> <<>>] /\ answer = <<>>

Put(o, id) ==
  /\ ~Used(id)
  /\ inbox' = [inbox EXCEPT ![o] = Append(@, id)] /\ UNCHANGED answer

Thrown(o) == inbox' = [inbox EXCEPT ![o] = <<>>] /\ UNCHANGED answer

Read(o) == answer' = <<o, inbox[o]>> /\ UNCHANGED inbox

InboxNext ==
  \E o \in Owners : Thrown(o) \/ Read(o) \/ \E id \in MessageIds : Put(o, id)

InboxSpec == InboxInit /\ [][InboxNext]_inboxVars
=============================================================================
