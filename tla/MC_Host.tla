------------------------------- MODULE MC_Host -------------------------------
(***************************************************************************)
(* The parts of the service that share no state with one another, one at a *)
(* time: which one a behaviour is about is chosen at the start, so that    *)
(* their states add up and do not multiply.                                *)
(***************************************************************************)
EXTENDS TaskNotices, TaskFiles, TaskMailbox, Conversation, Retrieval, Connectors,
        HostRelay, HostPairing, RequestLimits, ResearchLoop, SearchPacing, ReplyStream,
        TaskContext, SearchMerge

VARIABLE focus

hostVars == <<noticeVars, filesVars, mailVars, conversationVars, retrievalVars, connectorsVars,
              relayVars, pairingVars, limitVars, researchVars, pacingVars, replyVars, contextVars, mergeVars, focus>>

AQuery == CHOOSE q \in Queries : TRUE

\* Where a part has several initial states, it begins in one of them when it is not in focus.
HostInit ==
  /\ focus \in {"notices", "files", "mail", "conversation", "retrieval", "connectors",
                "relay", "pairing", "limits", "research", "pacing", "reply", "context", "merge"}
  /\ NoticesInit /\ MailboxInit /\ ConnectorsInit /\ RelayInit /\ ResearchInit
  /\ FilesInit /\ (focus = "files" \/ \A x \in DOMAIN downloads : downloads[x] = Absence)
  /\ ConversationInit /\ (focus = "conversation" \/ \A s \in Sessions :
                            folder[s] # Nothing => s = CHOOSE x \in Sessions : TRUE)
  /\ PairingInit /\ (focus = "pairing" \/ bundleFile = [file |-> NoFile])
  /\ LimitsInit /\ (focus = "limits" \/ \A p \in Posts : declared[p] = 0)
  /\ PacingInit /\ (focus = "pacing" \/ keyless)
  /\ ReplyInit /\ (focus = "reply" \/ kind = CHOOSE k \in ReplyKinds : TRUE)
  /\ ContextInit /\ (focus = "context" \/ (saved = <<>> /\ said = <<>> /\ orders = 0
                        /\ composing.budget = CHOOSE b \in Budgets : TRUE))
  /\ MergeInit /\ (focus = "merge" \/ wanted = MostAsked)
  /\ IF focus = "retrieval" THEN RetrievalInit ELSE asked = AQuery /\ answered = NoAnswer

Still(part, partVars) == IF focus = part THEN TRUE ELSE UNCHANGED partVars
Only(part) ==
  /\ focus = part /\ UNCHANGED focus
  /\ Still("notices", noticeVars) /\ Still("files", filesVars) /\ Still("mail", mailVars)
  /\ Still("conversation", conversationVars) /\ Still("retrieval", retrievalVars)
  /\ Still("connectors", connectorsVars) /\ Still("relay", relayVars)
  /\ Still("pairing", pairingVars) /\ Still("limits", limitVars) /\ Still("research", researchVars)
  /\ Still("pacing", pacingVars) /\ Still("reply", replyVars)
  /\ Still("context", contextVars) /\ Still("merge", mergeVars)

HostNext ==
  \/ Only("notices") /\ NoticesNext
  \/ Only("files") /\ FilesNext
  \/ Only("mail") /\ MailboxNext
  \/ Only("conversation") /\ ConversationNext
  \/ Only("retrieval") /\ RetrievalNext
  \/ Only("connectors") /\ ConnectorsNext
  \/ Only("relay") /\ RelayNext
  \/ Only("pairing") /\ PairingNext
  \/ Only("limits") /\ LimitsNext
  \/ Only("research") /\ ResearchNext
  \/ Only("pacing") /\ PacingNext
  \/ Only("reply") /\ ReplyNext
  \/ Only("context") /\ ContextNext
  \/ Only("merge") /\ MergeNext

HostSpec ==
  /\ HostInit /\ [][HostNext]_hostVars
  /\ WF_noticeVars(focus = "notices" /\ TellerSteps)
  /\ \A t \in Delegated : WF_noticeVars(focus = "notices" /\ IntervalPasses(t))

(* The states and histories of the parts have the shape their code gives   *)
(* them.                                                                   *)
HostTypeOK ==
  /\ focus = "notices" => NoticesTypeOK
  /\ focus = "files" => FilesTypeOK
  /\ focus = "mail" => MailTypeOK
  /\ focus = "conversation" => ConversationTypeOK
  /\ focus = "retrieval" => RetrievalTypeOK
  /\ focus = "connectors" => ConnectorsTypeOK
  /\ focus = "relay" => RelayTypeOK
  /\ focus = "pairing" => PairingTypeOK
  /\ focus = "limits" => LimitsTypeOK
  /\ focus = "research" => ResearchTypeOK
  /\ focus = "pacing" => PacingTypeOK
  /\ focus = "reply" => ReplyTypeOK
  /\ focus = "context" => ContextTypeOK
  /\ focus = "merge" => MergeTypeOK

(* Every archived version is whole and the one its row names, a file that *)
(* comes back is the latest version kept, and nothing of the user's own in *)
(* Downloads is written over (tasks.py 1380-1520).                         *)
FilesAreKept == [](ArchiveIsSound /\ RestoredIsLatest) /\ DesktopIsSafe

(* What a conversation remembers is whole: turns as pairs and one at a     *)
(* time, all that its user was told was remembered, and no draft           *)
(* (session.py, api.py 300-700).                                           *)
MemoryIsWhole == PairsAreWhole /\ TurnsAreSerial /\ ToldIsKept /\ DraftsStayOut

(* What is picked under a limit is what matters most, and what is said of  *)
(* the rest is true: episodes of the memory (engine/shadow.py 100-190),    *)
(* tasks and updates (tasks.py 567-720), results of searches               *)
(* (engine/webtools.py 660-772).                                           *)
PickedIsFair == CeilingIsFair /\ RowsTellTheTruth /\ LastWordIsTold /\ MergeIsFair

(* A connection exists because the user allowed it, and its token is       *)
(* refreshed by one worker request at a time (connectors/manager.py).      *)
ConnectionsAreTheUsers == OnlyTheUserConnects /\ RefreshedOnce

(* What is stored and served keeps to its limits, and a booking that the   *)
(* worker was told of is booked (agents_store.py, subagent_tools,          *)
(* limits.py).                                                             *)
LimitsHold == QuotasHold /\ ToldIsBooked /\ PlacesAreKept

(* TaskNotices!ResultIsTold, of the announcer in focus: the result of a    *)
(* completed task is told, unless the task is deleted or the store fails.  *)
ResultReachesUser == focus = "notices" => ResultIsTold
=============================================================================
