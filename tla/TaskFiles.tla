------------------------------ MODULE TaskFiles ------------------------------
(***************************************************************************)
(* The files of one task (task_store.py): versions of what its worker      *)
(* wrote, copied from the workspace to the task's archive and from there   *)
(* to the user's Downloads, and restored into a later workspace.  The      *)
(* worker may write while a file is read, any step may fail and the        *)
(* process may die between two of them; an SQLite transaction is atomic,   *)
(* a file that was fsynced stays.                                          *)
(***************************************************************************)
EXTENDS Naturals, FiniteSets, SequencesExt, FiniteSetsExt, Selection

CONSTANTS FileNames,  \* of the files
          Contents,   \* that they may have
          MaxFiles,   \* versions kept (MAX_ARTIFACTS), and files the archive gets in all
          MaxCopies,  \* names tried for a copy in Downloads (1,000 in the code)
          MaxFaults \* failures and deaths of the process

Absence == "absent"
Torn == "torn"

ASSUME FilesAssumption ==
  {MaxFiles, MaxCopies, MaxFaults} \subseteq Nat /\ Contents \cap {Absence, Torn, "users"} = {}

FileIds == 1..MaxFiles

VARIABLES workspace,  \* content of each file there
          archive,    \* content of each archived file, by artifact ID
          rows,       \* the artifacts table, in order
          opened,     \* rows of the transaction that is open
          downloads,  \* content of each name tried in Downloads
          keeper,     \* what the store does: where it is, the names or artifacts to go, what it has
                      \* read, the one it is at, whether that was written meanwhile, its copy
          nextId, faults

filesVars == <<workspace, archive, rows, opened, downloads, keeper, nextId, faults>>

Row == [id : FileIds, name : FileNames, version : FileIds, content : Contents \cup {Torn}, copy : 0..MaxCopies]
Resting == [at |-> "rest", todo |-> {}, got |-> {}, name |-> 0, touched |-> FALSE, copy |-> 0]

FilesTypeOK ==
  /\ workspace \in [FileNames -> Contents \cup {Absence}]
  /\ archive \in [FileIds -> Contents \cup {Absence, Torn}]
  /\ rows \in Seq(Row) /\ opened \in Seq(Row) /\ Len(rows) + Len(opened) <= MaxFiles
  /\ downloads \in [FileNames \X (1..MaxCopies) -> Contents \cup {Absence, Torn, "users"}]
  /\ keeper.at \in {"rest", "list", "copy", "write", "deliver", "copying", "note", "restore",
                   "restored", "unlink", "gone"}
  /\ keeper.todo \subseteq FileNames \cup FileIds
  /\ keeper.got \subseteq FileNames \X (Contents \cup {Torn})
  /\ keeper.copy \in 0..MaxCopies
  /\ keeper.name \in FileNames \cup FileIds \cup {0} /\ keeper.touched \in BOOLEAN
  /\ nextId \in 1..(MaxFiles + 1) /\ faults \in 0..MaxFaults

(* Downloads may hold files of the user with the very names. *)
FilesInit ==
  /\ workspace = [n \in FileNames |-> Absence] /\ archive = [i \in FileIds |-> Absence]
  /\ rows = <<>> /\ opened = <<>> /\ keeper = Resting /\ nextId = 1 /\ faults = 0
  /\ downloads \in [FileNames \X (1..MaxCopies) -> {Absence, "users"}]

KeeperAt(stage) == keeper.at = stage
OfName(table, n) == Among(table, {r \in Range(table) : r.name = n})
HasRow(table, n) == OfName(table, n) # <<>>
Latest(table, n) == Last(OfName(table, n))

-----------------------------------------------------------------------------
(* The native worker. *)
WorkerWrites(n, c) ==
  /\ workspace[n] # c /\ keeper.at \in {"rest", "list", "copy"}
  /\ workspace' = [workspace EXCEPT ![n] = c]
  /\ keeper' = [keeper EXCEPT !.touched = @ \/ (KeeperAt("copy") /\ keeper.name = n)]
  /\ UNCHANGED <<archive, rows, opened, downloads, nextId, faults>>

(* export_workspace: what the walk finds is read file by file. *)
ExportStarts ==
  /\ KeeperAt("rest")
  /\ keeper' = [Resting EXCEPT !.at = "list", !.todo = {n \in FileNames : workspace[n] # Absence}]
  /\ UNCHANGED <<workspace, archive, rows, opened, downloads, nextId, faults>>

ReadStarts(n) ==
  /\ KeeperAt("list") /\ n \in keeper.todo
  /\ keeper' = [keeper EXCEPT !.at = "copy", !.name = n, !.touched = FALSE]
  /\ UNCHANGED <<workspace, archive, rows, opened, downloads, nextId, faults>>

\* Slip: only the size is compared.
ReadIsStable_Not == TRUE

(* _read_stable: the file must look the same before, during and after its reading. *)
ReadIsStable == ~keeper.touched

WhatIsRead == IF keeper.touched THEN Torn ELSE workspace[keeper.name]

ReadEnds ==
  /\ KeeperAt("copy")
  /\ keeper' = IF ReadIsStable
               THEN [keeper EXCEPT !.at = "list", !.todo = @ \ {keeper.name}, !.name = 0,
                                   !.got = @ \cup {<<keeper.name, WhatIsRead>>}]
               ELSE Resting
  /\ UNCHANGED <<workspace, archive, rows, opened, downloads, nextId, faults>>

ReadsDone ==
  /\ KeeperAt("list") /\ keeper.todo = {} /\ keeper' = [keeper EXCEPT !.at = "write"]
  /\ UNCHANGED <<workspace, archive, rows, opened, downloads, nextId, faults>>

(* In the transaction: a content that is not the latest of its name becomes a file of its own
   first and a row then. *)
IsNew(n, c) == HasRow(rows, n) => Latest(rows, n).content # c
NextVersion(n) == IF HasRow(rows, n) THEN Latest(rows, n).version + 1 ELSE 1
Unwritten(p) == ~HasRow(opened, p[1]) /\ IsNew(p[1], p[2])

VersionWritten(n, c) ==
  /\ KeeperAt("write") /\ <<n, c>> \in keeper.got /\ Unwritten(<<n, c>>)
  /\ Len(rows) + Len(opened) < MaxFiles /\ nextId <= MaxFiles
  /\ archive' = [archive EXCEPT ![nextId] = c] /\ nextId' = nextId + 1
  /\ opened' = Append(opened, [id |-> nextId, name |-> n, version |-> NextVersion(n),
                               content |-> c, copy |-> 0])
  /\ UNCHANGED <<workspace, rows, downloads, keeper, faults>>

NotCopied(table) == {table[i].id : i \in {j \in DOMAIN table : table[j].copy = 0}}
Chosen(table) == {table[i].id : i \in {j \in DOMAIN table :
                      table[j] = Latest(table, table[j].name) /\ \E p \in keeper.got : p[1] = table[j].name}}

Committed ==
  /\ KeeperAt("write") /\ ~\E p \in keeper.got : Unwritten(p)
  /\ rows' = rows \o opened /\ opened' = <<>>
  /\ keeper' = [Resting EXCEPT !.at = "deliver", !.todo = Chosen(rows') \cap NotCopied(rows')]
  /\ UNCHANGED <<workspace, archive, downloads, nextId, faults>>

WithoutOpened == [i \in FileIds |-> IF \E j \in DOMAIN opened : opened[j].id = i THEN Absence ELSE archive[i]]

\* Slip: what was inserted stays.
RolledBack_Half == rows' = rows \o opened /\ opened' = <<>> /\ archive' = WithoutOpened

(* The transaction is rolled back and the files it made are deleted. *)
RolledBack == opened' = <<>> /\ UNCHANGED rows /\ archive' = WithoutOpened

(* A limit is reached, or a read or a write fails. *)
ExportFails ==
  /\ \/ KeeperAt("write") /\ Len(rows) + Len(opened) = MaxFiles /\ UNCHANGED faults
     \/ keeper.at \in {"list", "write"} /\ faults < MaxFaults /\ faults' = faults + 1
  /\ RolledBack /\ keeper' = Resting
  /\ UNCHANGED <<workspace, downloads, nextId>>

-----------------------------------------------------------------------------
(***************************************************************************)
(* deliver_artifacts: the archived file is verified and copied under the   *)
(* first free name, and the row notes it afterwards.  A copy that fails is *)
(* an error of that row; one that cannot be verified ends the delivery.    *)
(***************************************************************************)
RowOf(id) == CHOOSE i \in DOMAIN rows : rows[i].id = id
FreeCopies(n) == {k \in 1..MaxCopies : downloads[<<n, k>>] = Absence}

\* Slip: a file of the same name is replaced.
CopyName_Same(n) == 1

CopyName(n) == Min(FreeCopies(n))

CopyBegun(id) ==
  LET row == rows[RowOf(id)] IN
  /\ KeeperAt("deliver") /\ id \in keeper.todo /\ FreeCopies(row.name) # {}
  /\ downloads' = [downloads EXCEPT ![<<row.name, CopyName(row.name)>>] = Torn]
  /\ keeper' = [keeper EXCEPT !.at = "copying", !.name = id, !.copy = CopyName(row.name)]
  /\ UNCHANGED <<workspace, archive, rows, opened, nextId, faults>>

CopyEnds(ok) ==
  LET n == rows[RowOf(keeper.name)].name IN
  /\ KeeperAt("copying") /\ (ok \/ faults < MaxFaults)
  /\ downloads' = [downloads EXCEPT ![<<n, keeper.copy>>] = IF ok THEN archive[keeper.name] ELSE Absence]
  /\ keeper' = IF ok THEN [keeper EXCEPT !.at = "note"]
               ELSE [keeper EXCEPT !.at = "deliver", !.todo = @ \ {keeper.name}, !.name = 0, !.copy = 0]
  /\ faults' = IF ok THEN faults ELSE faults + 1
  /\ UNCHANGED <<workspace, archive, rows, opened, nextId>>

CopyNoted ==
  /\ KeeperAt("note")
  /\ rows' = [rows EXCEPT ![RowOf(keeper.name)].copy = keeper.copy]
  /\ keeper' = [keeper EXCEPT !.at = "deliver", !.todo = @ \ {keeper.name}, !.name = 0, !.copy = 0]
  /\ UNCHANGED <<workspace, archive, opened, downloads, nextId, faults>>

NoNameLeft(id) ==
  /\ KeeperAt("deliver") /\ id \in keeper.todo /\ FreeCopies(rows[RowOf(id)].name) = {}
  /\ keeper' = [keeper EXCEPT !.todo = @ \ {id}]
  /\ UNCHANGED <<workspace, archive, rows, opened, downloads, nextId, faults>>

DeliveryEnds ==
  /\ KeeperAt("deliver") /\ keeper.todo = {} /\ keeper' = Resting
  /\ UNCHANGED <<workspace, archive, rows, opened, downloads, nextId, faults>>

-----------------------------------------------------------------------------
(* restore_workspace: every file is staged beside its place, and only when *)
(* all are, they are moved there one by one; a failure leaves the moved.   *)
\* Slip: the first version of a name is taken.
ToRestore_First == {rows[i].id : i \in {j \in DOMAIN rows : rows[j] = OfName(rows, rows[j].name)[1]}}

ToRestore == {rows[i].id : i \in {j \in DOMAIN rows : rows[j] = Latest(rows, rows[j].name)}}

RestoreStarts ==
  /\ KeeperAt("rest") /\ rows # <<>>
  /\ \A id \in ToRestore : archive[id] = rows[RowOf(id)].content   \* artifact(): size and digest
  /\ keeper' = [Resting EXCEPT !.at = "restore", !.todo = ToRestore]
  /\ UNCHANGED <<workspace, archive, rows, opened, downloads, nextId, faults>>

FileRestored(id) ==
  /\ KeeperAt("restore") /\ id \in keeper.todo
  /\ workspace' = [workspace EXCEPT ![rows[RowOf(id)].name] = archive[id]]
  /\ keeper' = [keeper EXCEPT !.todo = @ \ {id}]
  /\ UNCHANGED <<archive, rows, opened, downloads, nextId, faults>>

RestoreEnds ==
  /\ KeeperAt("restore") /\ keeper.todo = {} /\ keeper' = [Resting EXCEPT !.at = "restored"]
  /\ UNCHANGED <<workspace, archive, rows, opened, downloads, nextId, faults>>

RestoreFails ==
  /\ KeeperAt("restore") /\ faults < MaxFaults
  /\ faults' = faults + 1 /\ keeper' = Resting
  /\ UNCHANGED <<workspace, archive, rows, opened, downloads, nextId>>

(* The restored workspace is handed to a worker. *)
WorkResumes ==
  /\ KeeperAt("restored") /\ keeper' = Resting
  /\ UNCHANGED <<workspace, archive, rows, opened, downloads, nextId, faults>>

-----------------------------------------------------------------------------
\* Slip: the files go first.
Deleted_FilesFirst ==
  /\ KeeperAt("rest") /\ rows # <<>>
  /\ archive' = [i \in FileIds |-> Absence] /\ keeper' = [Resting EXCEPT !.at = "unlink"]
  /\ UNCHANGED <<workspace, rows, opened, downloads, nextId, faults>>

(* delete: the rows go, and after their commit every file of the archive. *)
Deleted ==
  /\ KeeperAt("rest") /\ rows # <<>>
  /\ rows' = <<>> /\ keeper' = [Resting EXCEPT !.at = "unlink"]
  /\ UNCHANGED <<workspace, archive, opened, downloads, nextId, faults>>

FilesUnlinked ==
  /\ KeeperAt("unlink")
  /\ archive' = [i \in FileIds |-> Absence] /\ rows' = <<>> /\ keeper' = [Resting EXCEPT !.at = "gone"]
  /\ UNCHANGED <<workspace, opened, downloads, nextId, faults>>

(* The process dies: its transaction is undone, its files stay.  A new one has an empty
   workspace to restore into. *)
ProcessDies ==
  /\ faults < MaxFaults /\ faults' = faults + 1
  /\ keeper' = IF keeper.at \in {"unlink", "gone"} THEN [Resting EXCEPT !.at = "gone"] ELSE Resting
  /\ opened' = <<>> /\ workspace' = [n \in FileNames |-> Absence]
  /\ UNCHANGED <<archive, rows, downloads, nextId>>

StoreSteps ==
  \/ ExportStarts \/ \E n \in FileNames : ReadStarts(n)
  \/ ReadEnds \/ ReadsDone
  \/ \E n \in FileNames, c \in Contents \cup {Torn} : VersionWritten(n, c)
  \/ Committed \/ ExportFails
  \/ \E id \in FileIds : CopyBegun(id) \/ NoNameLeft(id) \/ FileRestored(id)
  \/ \E ok \in BOOLEAN : CopyEnds(ok)
  \/ CopyNoted \/ DeliveryEnds
  \/ RestoreStarts \/ RestoreEnds \/ RestoreFails \/ WorkResumes
  \/ Deleted \/ FilesUnlinked

FilesNext == StoreSteps \/ ProcessDies \/ \E n \in FileNames, c \in Contents : WorkerWrites(n, c)
FilesSpec == FilesInit /\ [][FilesNext]_filesVars

-----------------------------------------------------------------------------
(* Whatever fails, and whenever the process dies, each recorded version has its complete file, the
   versions of a name are numbered in order, each differs from the one before it, and none mixes
   two states of the file it was read from. *)
ArchiveIsSound ==
  /\ \A i \in DOMAIN rows : rows[i].content \in Contents /\ archive[rows[i].id] = rows[i].content
  /\ \A n \in FileNames : LET mine == OfName(rows, n) IN
       \A i \in DOMAIN mine : mine[i].version = i /\ (i > 1 => mine[i].content # mine[i - 1].content)

(* A file of the user in Downloads is never replaced, and a version that is recorded as delivered
   is there, whole. *)
DesktopIsSafe ==
  /\ [][\A p \in DOMAIN downloads : downloads[p] \notin {Absence, Torn} => downloads'[p] = downloads[p]]_filesVars
  /\ [](\A i \in DOMAIN rows : rows[i].copy # 0 =>
          downloads[<<rows[i].name, rows[i].copy>>] = rows[i].content)

(* A worker goes on from the newest version of every file that was saved. *)
RestoredIsLatest ==
  KeeperAt("restored") => \A n \in FileNames : HasRow(rows, n) => workspace[n] = Latest(rows, n).content
=============================================================================
