-------------------------- MODULE WorkspaceDocuments --------------------------
(***************************************************************************)
(* Edit leases and drafts of the documents open in a workspace, and the    *)
(* files that keep them (crates/yttt-host/src/workspace.rs,                *)
(* workspace/documents.rs, workspace_objects.rs, workspace_backups.rs).    *)
(*                                                                         *)
(* A request runs under the state lock from its checks to its answer, so   *)
(* requests never interleave; but between two writes of a request the Host *)
(* may stop, and each write may fail.  A request is therefore a task with  *)
(* one action per write.  Draft bodies are files named by their digest; a  *)
(* body here stands for its digest, and documents may share one.           *)
(*                                                                         *)
(* Left out: everything of the layout but which documents are open, other  *)
(* workspaces (each has files of its own), Agent states, the notifications *)
(* to Clients, the migration of old schemas, restore_on_startup and the    *)
(* history copies beyond the newest backup.  Every body has size one.      *)
(***************************************************************************)
EXTENDS Integers, FiniteSets

CONSTANTS Clients,      \* Client instance IDs
          Documents,
          Bodies,       \* draft bodies, by digest
          Nobody,
          NoBody,
          MaxBodies,    \* MAX_WORKSPACE_DRAFT_BYTES, in bodies
          Faults,       \* what the storage may do beyond refusing a write:
                        \*   "sync": fail to sync a directory after the rename in it
                        \*   "corrupt": damage a record while the Host is down
          MaxGrants     \* bound of the model: leases granted

ASSUME DocumentsAssumption ==
    /\ Nobody \notin Clients
    /\ NoBody \notin Bodies
    /\ IsFiniteSet(Documents) /\ IsFiniteSet(Bodies)
    /\ {MaxBodies, MaxGrants} \subseteq Nat
    /\ Faults \subseteq {"sync", "corrupt"}

VARIABLES host,             \* what the Host process is doing
          workspace,        \* the record in memory, state.workspaces[id]
          leases,           \* state.leases
          nextLeaseEpoch,   \* starts at the clock, so a restart does not lower it
          task,             \* the request being served and its next write
          record,           \* workspaces/<id>.json
          backup,           \* workspace-backups/<id>/backup-1.json
          bodies,           \* the files in drafts/<id>
          faulted           \* history: a record was damaged, or a sync failed after its rename

memoryVars == <<workspace, leases, nextLeaseEpoch>>
diskVars == <<record, backup, bodies, faulted>>
vars == <<host, memoryVars, task, diskVars>>

-----------------------------------------------------------------------------
Lease == [holder : Clients \cup {Nobody}, epoch : Nat]
NoLease == [holder |-> Nobody, epoch |-> 0]

Record == [status : {"absent", "kept", "unreadable"}, open : SUBSET Documents,
           drafts : [Documents -> Bodies \cup {NoBody}]]
NoRecord == [status |-> "absent", open |-> {}, drafts |-> [d \in Documents |-> NoBody]]

\* lease is the one the request was made under, updated the record it writes
Task == [kind : {"none", "put", "release", "layout", "save", "forget"},
         step : {"none", "body", "record", "sync", "objects"},
         documents : SUBSET Documents, lease : Lease, updated : Record]
NoTask == [kind |-> "none", step |-> "none", documents |-> {}, lease |-> NoLease,
           updated |-> NoRecord]

\* draft_refs, as the digests they name
Refs(rec) == {rec.drafts[d] : d \in Documents} \ {NoBody}

\* validate_references: every body is there, and together they are within the limit
Valid(rec) == /\ Refs(rec) \subseteq bodies
              /\ Cardinality({d \in Documents : rec.drafts[d] # NoBody}) <= MaxBodies

\* Mutant: a body is collected for its document, though another may share it.
CollectByDocument(old, current) ==
    bodies' = bodies \ {old.drafts[d] : d \in {e \in Documents : old.drafts[e] # current.drafts[e]}}

\* collect_obsolete
Collect(old, current) == bodies' = bodies \ (Refs(old) \ Refs(current))

WithDraft(rec, d, body) == [rec EXCEPT !.drafts[d] = body]

\* Mutant: the draft of a closed document stays.
RestrictedLayout(rec, open) == [rec EXCEPT !.status = "kept", !.open = open]

Restricted(rec, open) ==
    [status |-> "kept", open |-> open,
     drafts |-> [d \in Documents |-> IF d \in open THEN rec.drafts[d] ELSE NoBody]]

Init ==
    /\ host = "serving"
    /\ workspace = NoRecord
    /\ leases = [d \in Documents |-> NoLease]
    /\ nextLeaseEpoch = 1
    /\ task = NoTask
    /\ record = NoRecord
    /\ backup = NoRecord
    /\ bodies = {}
    /\ faulted = FALSE

-----------------------------------------------------------------------------
(* Requests, from the lock of the state to their first write.              *)

Idle == host = "serving" /\ task = NoTask

Run(kind, step, documents, lease, updated) ==
    /\ task' = [kind |-> kind, step |-> step, documents |-> documents, lease |-> lease,
                updated |-> updated]
    /\ UNCHANGED <<host, memoryVars, diskVars>>

AcquireDocument(c, d, takeover) ==
    /\ Idle
    /\ nextLeaseEpoch <= MaxGrants
    /\ d \in workspace.open
    /\ leases[d].holder = Nobody \/ (leases[d].holder # c /\ takeover)
    /\ leases' = [leases EXCEPT ![d] = [holder |-> c, epoch |-> nextLeaseEpoch]]
    /\ nextLeaseEpoch' = nextLeaseEpoch + 1
    /\ UNCHANGED <<host, workspace, task, diskVars>>

\* An upload is made under the epoch its Client was told when it acquired the document,
\* perhaps long ago; require_lease refuses it under another.
Holds(lease, d) == leases[d] = lease

PutDocumentDraft(lease, d, body) ==
    /\ Idle
    /\ d \in workspace.open
    /\ Holds(lease, d)
    /\ Run("put", "body", {d}, lease, WithDraft(workspace, d, body))

ReleaseDocument(lease, d) ==
    /\ Idle
    /\ leases[d] = lease
    /\ \/ /\ workspace.drafts[d] # NoBody
          /\ Run("release", "record", {d}, lease, WithDraft(workspace, d, NoBody))
       \/ /\ workspace.drafts[d] = NoBody
          /\ leases' = [leases EXCEPT ![d] = NoLease]
          /\ UNCHANGED <<host, workspace, nextLeaseEpoch, task, diskVars>>

\* An intent that moves the revision of the layout, which it may create
ChangeLayout(open) ==
    Idle /\ Run("layout", "record", {}, NoLease, Restricted(workspace, open))

\* Register, SetRestoreOnStartup and store_agent_states write the record they have.
SaveWorkspace ==
    Idle /\ Run("save", "record", {}, NoLease, [workspace EXCEPT !.status = "kept"])

\* forget_workspace removes the record first; leases stay.
Forget ==
    /\ Idle
    /\ workspace.status = "kept"
    /\ record' = NoRecord
    /\ workspace' = NoRecord
    /\ task' = [NoTask EXCEPT !.kind = "forget", !.step = "objects"]
    /\ UNCHANGED <<host, leases, nextLeaseEpoch, backup, bodies, faulted>>

\* release_client_documents, when the session of c has expired
ExpireSession(c) ==
    /\ Idle
    /\ leases' = [d \in Documents |-> IF leases[d].holder = c THEN NoLease ELSE leases[d]]
    /\ UNCHANGED <<host, workspace, nextLeaseEpoch, task, diskVars>>

-----------------------------------------------------------------------------
(* The writes of a request.  Serving is implied by a task.                 *)

Answer == task' = NoTask /\ UNCHANGED <<host, memoryVars>>

\* WorkspaceObjects::put.  A body that is there already is only checked.
WriteBody ==
    LET body == Refs(task.updated) \ bodies IN
    /\ task.step = "body"
    /\ \/ /\ body = {} \/ Cardinality(bodies) < MaxBodies
          /\ bodies' = bodies \cup body
          /\ task' = [task EXCEPT !.step = "record"]
          /\ UNCHANGED <<host, memoryVars>>
       \/ UNCHANGED bodies /\ Answer
       \/ "sync" \in Faults /\ bodies' = bodies \cup body /\ Answer
    /\ UNCHANGED <<record, backup, faulted>>

\* Mutant: a put that fails collects what a put that succeeds does.
AbortSwapped ==
    /\ IF task.kind = "put" THEN Collect(workspace, task.updated) ELSE UNCHANGED bodies
    /\ Answer

\* A put that fails takes back the bodies only its record names.
Abort ==
    /\ IF task.kind = "put" THEN Collect(task.updated, workspace) ELSE UNCHANGED bodies
    /\ Answer

\* persist_workspace up to the rename; preserving the old record is best effort.
WriteRecord ==
    /\ task.step = "record"
    /\ backup' \in {backup} \cup IF record.status = "kept" THEN {record} ELSE {}
    /\ \/ /\ task.kind = "put" => Valid(task.updated)
          /\ record' = task.updated
          /\ task' = [task EXCEPT !.step = "sync"]
          /\ UNCHANGED <<host, memoryVars, bodies>>
       \/ UNCHANGED record /\ Abort
    /\ UNCHANGED faulted

LeasesAfter ==
    CASE task.kind = "release" ->
           [d \in Documents |-> IF d \in task.documents THEN NoLease ELSE leases[d]]
      [] task.kind = "layout" ->
           [d \in Documents |-> IF d \in task.updated.open THEN leases[d] ELSE NoLease]
      [] OTHER -> leases

\* Mutant: the record in memory stays what it was.
CommitUnpublished ==
    /\ task.step = "sync"
    /\ Collect(workspace, task.updated)
    /\ leases' = LeasesAfter
    /\ task' = NoTask
    /\ UNCHANGED <<host, workspace, nextLeaseEpoch, record, backup, faulted>>

\* The directory sync ends persist_workspace; then bodies that lost their reference are
\* collected and the record becomes the one in memory.
Commit ==
    /\ task.step = "sync"
    /\ Collect(workspace, task.updated)
    /\ workspace' = task.updated
    /\ leases' = LeasesAfter
    /\ task' = NoTask
    /\ UNCHANGED <<host, nextLeaseEpoch, record, backup, faulted>>

FailSync ==
    /\ task.step = "sync"
    /\ "sync" \in Faults
    /\ faulted' = TRUE
    /\ Abort
    /\ UNCHANGED <<record, backup>>

\* forget_workspace removes the bodies, then the backups; either may fail half way.
RemoveObjects ==
    /\ task.step = "objects"
    /\ \/ bodies' \in SUBSET bodies /\ backup' = backup
       \/ bodies' = {} /\ backup' = NoRecord
    /\ UNCHANGED <<record, faulted>>
    /\ Answer

-----------------------------------------------------------------------------
(* The Host stops and starts.                                              *)

Stop ==
    /\ host # "down"
    /\ host' = "down"
    /\ workspace' = NoRecord
    /\ leases' = [d \in Documents |-> NoLease]
    /\ task' = NoTask
    /\ UNCHANGED <<nextLeaseEpoch, diskVars>>

\* WorkspaceObjects::recover, then serve; a record without its bodies ends the startup.
Recover(rec) ==
    IF Valid(rec)
    THEN host' = "serving" /\ workspace' = rec /\ bodies' = Refs(rec)
    ELSE host' = "refused" /\ UNCHANGED <<workspace, bodies>>

\* WorkspaceService::new; drafts are looked at only for a record it found.
Start ==
    /\ host = "down"
    /\ \/ /\ record.status = "absent"
          /\ host' = "serving"
          /\ UNCHANGED <<workspace, bodies>>
       \/ record.status = "kept" /\ Recover(record)
    /\ UNCHANGED <<leases, nextLeaseEpoch, task, record, backup, faulted>>

\* WorkspaceBackups::recover moves the record it cannot read aside
SetAside ==
    /\ host = "down"
    /\ record.status = "unreadable"
    /\ host' = "recovering"
    /\ record' = NoRecord
    /\ UNCHANGED <<memoryVars, task, backup, bodies, faulted>>

\* and the newest backup replaces it.
Restore ==
    /\ host = "recovering"
    /\ record' = backup
    /\ IF backup.status = "kept"
       THEN Recover(backup)
       ELSE host' = "serving" /\ UNCHANGED <<workspace, bodies>>
    /\ UNCHANGED <<leases, nextLeaseEpoch, task, backup, faulted>>

\* External: a record is damaged while the Host is down.
Corrupt ==
    /\ "corrupt" \in Faults
    /\ host = "down"
    /\ record.status = "kept"
    /\ record' = [NoRecord EXCEPT !.status = "unreadable"]
    /\ faulted' = TRUE
    /\ UNCHANGED <<host, memoryVars, task, backup, bodies>>

-----------------------------------------------------------------------------
\* The leases some Client was granted
Granted == [holder : Clients, epoch : 1 .. nextLeaseEpoch - 1]

RequestStep ==
    \/ \E c \in Clients, d \in Documents, takeover \in BOOLEAN :
          AcquireDocument(c, d, takeover)
    \/ \E lease \in Granted, d \in Documents :
          ReleaseDocument(lease, d) \/ \E body \in Bodies : PutDocumentDraft(lease, d, body)
    \/ \E open \in SUBSET Documents : ChangeLayout(open)
    \/ SaveWorkspace
    \/ Forget
    \/ \E c \in Clients : ExpireSession(c)

WriteStep == WriteBody \/ WriteRecord \/ Commit \/ FailSync \/ RemoveObjects

HostStep == Stop \/ Start \/ SetAside \/ Restore \/ Corrupt

Next == RequestStep \/ WriteStep \/ HostStep

Spec == Init /\ [][Next]_vars

-----------------------------------------------------------------------------
\* The record in memory, the files, the leases and the request in progress of
\* WorkspaceService have their types; no draft names anything but a body.
TypeOK ==
    /\ host \in {"serving", "down", "recovering", "refused"}
    /\ {workspace, record, backup} \subseteq Record
    /\ leases \in [Documents -> Lease]
    /\ nextLeaseEpoch \in Nat
    /\ task \in Task
    /\ bodies \subseteq Bodies
    /\ faulted \in BOOLEAN

\* While the Host serves, GetDocumentDraft finds the body of every draft it lists, however
\* uploads, closed documents and failed writes replaced and collected bodies that
\* documents may share.
DraftsReadable == host = "serving" => Refs(workspace) \subseteq bodies

\* The record on disk names only bodies that are there.
RecordNamesBodies == record.status = "kept" => Refs(record) \subseteq bodies

\* The Host never ends up refusing to start, with a damaged record or without.
HostStarts == host # "refused"

\* Until the storage damages a record or fails to sync one it has replaced, the record on disk
\* never names a body that is not there, and the Host starts: bodies are written before the
\* record that names them and collected after it was replaced, or taken back when it was
\* not.  WorkspaceService::new refuses to start on a record that does.
RecordReadable == ~faulted => RecordNamesBodies /\ HostStarts

\* Until then, and between requests, the workspace the Host answers from is the one it would
\* restart with, so that what it acknowledged is what survives, and what it refused has left
\* no trace.
ServesWhatIsStored == Idle /\ ~faulted => workspace = record

\* From the check of its lease to its last write an upload or release has the lease it was
\* made under: nothing that ends or passes on the lease gets between.
WritesUnderItsLease == \A d \in task.documents : leases[d] = task.lease

Store == INSTANCE DraftStore WITH open <- record.open, drafts <- record.drafts

\* Seen through the record on disk, the Host is the draft store it promises, until the storage
\* has a fault: a draft changes by an upload or release of the lease's holder, or goes with
\* its document, all at once, and no stop, restart or failed write changes any.
ImplementsDraftStore == Store!Init /\ [][~faulted' => Store!Next]_(Store!storeVars)

=============================================================================
