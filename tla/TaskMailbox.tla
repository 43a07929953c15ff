----------------------------- MODULE TaskMailbox -----------------------------
(***************************************************************************)
(* The mailbox of a conversation (task_store.py): one table of messages    *)
(* for all its tasks, numbered in the order of their transactions.  A      *)
(* client that got no answer sends the same message again; the coordinator *)
(* reads the instructions of a task in pages, each in a transaction of its *)
(* own.  Text is left out: what a message says is its content.             *)
(***************************************************************************)
EXTENDS Naturals, FiniteSets, SequencesExt, Selection

CONSTANTS Tasks,
          Ids,          \* message IDs that clients make up
          Texts,        \* what a message may say
          MailLimit,    \* MAX_MESSAGES of a task
          PageSize,     \* 1,000 in the code
          RecordLimit   \* MAX_TASKS

ASSUME MailboxAssumption == "none" \notin Tasks /\ PageSize \in Nat \ {0}

VARIABLES mail,      \* the messages table
          lastSeq,   \* its AUTOINCREMENT counter
          born,      \* tasks ever begun: their IDs are made once
          revision,  \* of each task, 0 for one that is not there
          accepted,  \* accepted_revision of each task
          finished,  \* tasks whose work is over
          reading,   \* _main_messages: task, cursor, what it has; task "none" when it rests
          lastRead   \* the task and the result of the last reading that ended

mailVars == <<mail, lastSeq, born, revision, accepted, finished, reading, lastRead>>

NoReading == [task |-> "none", after |-> 0, got |-> <<>>]
NoText == ""
Here(t) == revision[t] > 0
MailOf(t) == {m \in Range(mail) : m.task = t}
MainMail(t) == Among(mail, {m \in MailOf(t) : m.direction = "main"})

MailTypeOK ==
  /\ \A i \in DOMAIN mail :
       /\ mail[i].seq \in 1..lastSeq /\ mail[i].task \in Tasks /\ mail[i].direction \in {"main", "subagent"}
       /\ mail[i].rev \in 1..revision[mail[i].task]
  /\ revision \in [Tasks -> Nat] /\ accepted \in [Tasks -> Nat]
  /\ \A t \in Tasks : accepted[t] <= revision[t]
  /\ finished \subseteq born /\ born \subseteq Tasks /\ reading.task \in Tasks \cup {"none"} /\ reading.after \in 0..lastSeq

MailboxInit ==
  /\ mail = <<>> /\ lastSeq = 0 /\ born = {} /\ revision = [t \in Tasks |-> 0] /\ accepted = [t \in Tasks |-> 0]
  /\ finished = {} /\ reading = NoReading /\ lastRead = <<>>

-----------------------------------------------------------------------------
(* _message: a saved message is answered again if it says the same, and an *)
(* ID that was used for anything else is refused.                          *)
MayRepeat(id) == \E m \in Range(mail) : m.id = id

\* Slip: the message is inserted whatever was saved under its ID.
IsNewId_Any(id) == TRUE

IsNewId(id) == ~MayRepeat(id)

HasRoom(t) == Cardinality(MailOf(t)) < MailLimit

Inserted(t, id, direction, kind, text, rev) ==
  /\ IsNewId(id) /\ lastSeq' = lastSeq + 1
  /\ mail' = Append(mail, [seq |-> lastSeq', id |-> id, task |-> t, direction |-> direction,
                           kind |-> kind, text |-> text, rev |-> rev])

(* start: the record and its first message in one transaction. *)
Begun(t, text) ==
  /\ t \notin born /\ born' = born \cup {t} /\ Cardinality({u \in Tasks : Here(u)}) < RecordLimit
  /\ revision' = [revision EXCEPT ![t] = 1] /\ accepted' = [accepted EXCEPT ![t] = 0]
  /\ Inserted(t, <<"start", t>>, "main", "start", text, 1)
  /\ UNCHANGED <<finished, reading, lastRead>>

(* message: for a new ID about the revision of now; a full mailbox refuses it. *)
Posted(t, id, direction, kind, text) ==
  /\ Here(t) /\ HasRoom(t)
  /\ Inserted(t, id, direction, kind, text, revision[t])
  /\ UNCHANGED <<born, revision, accepted, finished, reading, lastRead>>

\* Slip: the revision is saved before the mailbox is found to be full.
Steered_Anyway(t, id, text) ==
  /\ Here(t) /\ t \notin finished /\ IsNewId(id)
  /\ revision' = [revision EXCEPT ![t] = @ + 1]
  /\ IF HasRoom(t) THEN Inserted(t, id, "main", "steer", text, revision'[t])
     ELSE UNCHANGED <<mail, lastSeq>>
  /\ UNCHANGED <<born, accepted, finished, reading, lastRead>>

(* steer: a new instruction and its revision in one transaction. *)
Steered(t, id, text) ==
  /\ Here(t) /\ t \notin finished /\ HasRoom(t)
  /\ revision' = [revision EXCEPT ![t] = @ + 1]
  /\ Inserted(t, id, "main", "steer", text, revision'[t])
  /\ UNCHANGED <<born, accepted, finished, reading, lastRead>>

(* accept_revision, with a message of an ID that the revision determines. *)
Accepted(t, rev) ==
  /\ Here(t) /\ rev \in (accepted[t] + 1)..revision[t] /\ HasRoom(t)
  /\ accepted' = [accepted EXCEPT ![t] = rev]
  /\ Inserted(t, <<"accepted", t, rev>>, "subagent", "accepted", NoText, rev)
  /\ UNCHANGED <<born, revision, finished, reading, lastRead>>

(* update: the work is over, or is taken up again; its mailbox stays open to the worker. *)
StateSaved(t, over) ==
  /\ Here(t) /\ finished' = IF over THEN finished \cup {t} ELSE finished \ {t}
  /\ finished' # finished
  /\ UNCHANGED <<born, mail, lastSeq, revision, accepted, reading, lastRead>>

(* delete: the rows of the messages go with the task. *)
Removed(t) ==
  /\ Here(t)
  /\ revision' = [revision EXCEPT ![t] = 0] /\ accepted' = [accepted EXCEPT ![t] = 0]
  /\ mail' = Among(mail, Range(mail) \ MailOf(t))
  /\ UNCHANGED <<born, lastSeq, finished, reading, lastRead>>

-----------------------------------------------------------------------------
(* messages: up to PageSize of the task's messages to the worker after the *)
(* cursor, oldest first; _main_messages goes on until a page is not full.  *)
AfterCursor(t, seq) == Among(MainMail(t), {m \in MailOf(t) : m.seq > seq})
Page(t, seq) == IF Len(AfterCursor(t, seq)) <= PageSize THEN AfterCursor(t, seq) ELSE SubSeq(AfterCursor(t, seq), 1, PageSize)

\* Slip: the cursor counts messages instead of naming the last one.
NextCursor_Counts(page) == reading.after + Len(page)

NextCursor(page) == Last(page).seq

ReadingStarts(t) ==
  /\ reading.task = "none" /\ reading' = [NoReading EXCEPT !.task = t]
  /\ UNCHANGED <<born, mail, lastSeq, revision, accepted, finished, lastRead>>

PageTaken ==
  LET page == Page(reading.task, reading.after)
      got == reading.got \o [i \in DOMAIN page |-> page[i].id] IN
  /\ reading.task # "none" /\ Here(reading.task)
  /\ IF Len(page) < PageSize
     THEN reading' = NoReading /\ lastRead' = <<reading.task, got>>
     ELSE reading' = [reading EXCEPT !.after = NextCursor(page), !.got = got] /\ UNCHANGED lastRead
  /\ UNCHANGED <<born, mail, lastSeq, revision, accepted, finished>>

(* The task was deleted meanwhile. *)
ReadingFails ==
  /\ reading.task # "none" /\ ~Here(reading.task) /\ reading' = NoReading
  /\ UNCHANGED <<born, mail, lastSeq, revision, accepted, finished, lastRead>>

MailboxNext ==
  \/ \E t \in Tasks, text \in Texts : Begun(t, text)
  \/ \E t \in Tasks, id \in Ids, text \in Texts :
       Steered(t, id, text) \/ Posted(t, id, "main", "cancel", text)
       \/ Posted(t, id, "subagent", "question", text)
  \/ \E t \in Tasks : Removed(t) \/ ReadingStarts(t) \/ \E rev \in 1..revision[t] : Accepted(t, rev)
  \/ (\E t \in Tasks, over \in BOOLEAN : StateSaved(t, over))
  \/ PageTaken \/ ReadingFails

MailboxSpec == MailboxInit /\ [][MailboxNext]_mailVars

-----------------------------------------------------------------------------
(* The revision of a task counts its instructions, each of which is saved  *)
(* with its own: a refused one changes nothing.                            *)
RevisionsAreSteers ==
  \A t \in Tasks : Here(t) =>
    LET steers == Among(MainMail(t), {m \in MailOf(t) : m.kind = "steer"}) IN
    /\ revision[t] = Len(steers) + 1
    /\ \A i \in DOMAIN steers : steers[i].rev = i + 1

(* The instructions that the coordinator reads page by page, while others  *)
(* are sent, repeated and refused, are those the mailbox held at one       *)
(* moment, in order and once each: it is an Inbox.  And they are what the  *)
(* revisions count.                                                        *)
Implemented == INSTANCE Inbox WITH
  Owners <- Tasks, MessageIds <- Ids \cup ({"start"} \X Tasks),
  inbox <- [t \in Tasks |-> [i \in DOMAIN MainMail(t) |-> MainMail(t)[i].id]],
  answer <- lastRead

ReadsAnInbox == Implemented!InboxSpec /\ []RevisionsAreSteers
=============================================================================
