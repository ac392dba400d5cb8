----------------------- MODULE WorkspaceDocumentsProofs -----------------------
(* What TLAPS proves of WorkspaceDocuments, for every value of its constants. *)
EXTENDS WorkspaceDocuments, FiniteSetTheorems, TLAPS

-----------------------------------------------------------------------------
(* The records that requests build, and the bodies they name.              *)

\* The bodies of a record are bodies; an absent record names none.
LEMMA RefsType ==
    /\ \A rec \in Record : Refs(rec) \subseteq Bodies
    /\ Refs(NoRecord) = {}
BY DEF Refs, Record, NoRecord

\* The constants of the types
LEMMA NoneTyped == NoRecord \in Record /\ NoLease \in Lease /\ NoTask \in Task
BY DEF NoRecord, Record, NoLease, Lease, NoTask, Task

\* Changing a draft and closing documents give records.
LEMMA RecordsBuilt ==
    ASSUME NEW rec \in Record
    PROVE  /\ \A d \in Documents, body \in Bodies \cup {NoBody} :
                 WithDraft(rec, d, body) \in Record
           /\ \A open \in SUBSET Documents : Restricted(rec, open) \in Record
           /\ [rec EXCEPT !.status = "kept"] \in Record
BY DEF Record, WithDraft, Restricted

\* They name no bodies but the record's own, and the one that was put.
LEMMA RefsBuilt ==
    ASSUME NEW rec \in Record
    PROVE  /\ \A d \in Documents, body \in Bodies :
                 Refs(WithDraft(rec, d, body)) \subseteq Refs(rec) \cup {body}
           /\ \A d \in Documents : Refs(WithDraft(rec, d, NoBody)) \subseteq Refs(rec)
           /\ \A open \in SUBSET Documents : Refs(Restricted(rec, open)) \subseteq Refs(rec)
           /\ Refs([rec EXCEPT !.status = "kept"]) = Refs(rec)
BY DEF Record, WithDraft, Restricted, Refs

-----------------------------------------------------------------------------
(* Types.                                                                  *)

\* An empty state root has the types.
LEMMA InitType == Init => TypeOK
<1>1. Init => faulted \in BOOLEAN
    BY DEF Init
<1> QED BY <1>1, NoneTyped DEF Init, TypeOK, NoLease, Lease

\* A request that starts keeps the types.
LEMMA RunType ==
    ASSUME TypeOK,
           NEW kind \in {"none", "put", "release", "layout", "save", "forget"},
           NEW step \in {"none", "body", "record", "sync", "objects"},
           NEW documents \in SUBSET Documents, NEW lease \in Lease, NEW updated \in Record,
           Run(kind, step, documents, lease, updated)
    PROVE  TypeOK'
BY DEF TypeOK, Run, Task, memoryVars, diskVars

\* A lease that was granted has a Client.
LEMMA GrantedTyped == TypeOK => Granted \subseteq Lease \ {NoLease}
BY DocumentsAssumption DEF Granted, Lease, NoLease, TypeOK

\* Requests keep the types,
LEMMA RequestType == TypeOK /\ RequestStep => TypeOK'
<1> SUFFICES ASSUME TypeOK, RequestStep
             PROVE  TypeOK'
    OBVIOUS
<1> USE NoneTyped
<1>w. workspace \in Record
    BY DEF TypeOK
<1>1. CASE \E c \in Clients, d \in Documents, takeover \in BOOLEAN :
              AcquireDocument(c, d, takeover)
    BY <1>1 DEF AcquireDocument, TypeOK, Lease, diskVars
<1>2. ASSUME NEW lease \in Granted, NEW d \in Documents, ReleaseDocument(lease, d)
      PROVE  TypeOK'
    <2>1. CASE Run("release", "record", {d}, lease, WithDraft(workspace, d, NoBody))
        BY <2>1, <1>w, RunType, RecordsBuilt, GrantedTyped
    <2>2. CASE /\ leases' = [leases EXCEPT ![d] = NoLease]
               /\ UNCHANGED <<host, workspace, nextLeaseEpoch, task, diskVars>>
        BY <2>2 DEF TypeOK, diskVars
    <2> QED BY <1>2, <2>1, <2>2 DEF ReleaseDocument
<1>3. ASSUME NEW lease \in Granted, NEW d \in Documents, NEW body \in Bodies,
             PutDocumentDraft(lease, d, body)
      PROVE  TypeOK'
    BY <1>3, <1>w, RunType, RecordsBuilt, GrantedTyped DEF PutDocumentDraft
<1>4. ASSUME NEW open \in SUBSET Documents, ChangeLayout(open)
      PROVE  TypeOK'
    BY <1>4, <1>w, RunType, RecordsBuilt DEF ChangeLayout
<1>5. CASE SaveWorkspace
    BY <1>5, <1>w, RunType, RecordsBuilt DEF SaveWorkspace
<1>6. CASE Forget
    BY <1>6 DEF Forget, TypeOK, Task, NoTask
<1>7. CASE \E c \in Clients : ExpireSession(c)
    BY <1>7 DEF ExpireSession, TypeOK, diskVars
<1> QED BY <1>1, <1>2, <1>3, <1>4, <1>5, <1>6, <1>7 DEF RequestStep

\* writes keep them,
LEMMA WriteType == TypeOK /\ WriteStep => TypeOK'
<1> SUFFICES ASSUME TypeOK, WriteStep
             PROVE  TypeOK'
    OBVIOUS
<1> USE NoneTyped
<1>t. task.updated \in Record /\ Refs(task.updated) \subseteq Bodies
    BY RefsType DEF TypeOK, Task
<1>f. faulted' \in BOOLEAN
    BY DEF TypeOK, WriteStep, WriteBody, WriteRecord, Commit, FailSync, RemoveObjects
<1>a. ASSUME Abort, UNCHANGED record, backup' \in {backup, record}
      PROVE  TypeOK'
    BY <1>f, <1>a DEF Abort, Answer, Collect, TypeOK, memoryVars
<1>1. CASE WriteBody
    BY <1>1, <1>t DEF WriteBody, Answer, TypeOK, memoryVars, Task
<1>2. CASE WriteRecord
    <2>1. backup' \in {backup, record}
        BY <1>2 DEF WriteRecord
    <2>2. CASE UNCHANGED record /\ Abort
        BY <1>a, <2>1, <2>2
    <2>3. CASE /\ record' = task.updated
               /\ task' = [task EXCEPT !.step = "sync"]
               /\ UNCHANGED <<host, memoryVars, bodies>>
        BY <2>1, <2>3, <1>t, <1>f DEF TypeOK, memoryVars, Task
    <2> QED BY <1>2, <2>2, <2>3 DEF WriteRecord
<1>3. CASE Commit
    BY <1>3, <1>t DEF Commit, Collect, LeasesAfter, TypeOK
<1>4. CASE FailSync
    BY <1>4, <1>a DEF FailSync
<1>5. CASE RemoveObjects
    BY <1>5 DEF RemoveObjects, Answer, TypeOK, memoryVars
<1> QED BY <1>1, <1>2, <1>3, <1>4, <1>5 DEF WriteStep

\* and stops, starts and damage do.
LEMMA HostType == TypeOK /\ HostStep => TypeOK'
<1> SUFFICES ASSUME TypeOK, HostStep
             PROVE  TypeOK'
    OBVIOUS
<1> USE NoneTyped
<1>r. ASSUME NEW rec \in Record, Recover(rec)
      PROVE  /\ host' \in {"serving", "refused"}
             /\ workspace' \in Record
             /\ bodies' \subseteq Bodies
    BY <1>r, RefsType DEF Recover, TypeOK
<1>1. CASE Stop
    BY <1>1 DEF Stop, TypeOK, diskVars
<1>2. CASE Start
    BY <1>2, <1>r DEF Start, TypeOK
<1>3. CASE SetAside
    BY <1>3 DEF SetAside, TypeOK, memoryVars
<1>4. CASE Restore
    BY <1>4, <1>r DEF Restore, TypeOK
<1>5. CASE Corrupt
    BY <1>5 DEF Corrupt, TypeOK, memoryVars, Record, NoRecord
<1> QED BY <1>1, <1>2, <1>3, <1>4, <1>5 DEF HostStep

\* Every variable of the document store keeps its type.
THEOREM TypeCorrect == Spec => []TypeOK
<1>1. TypeOK /\ [Next]_vars => TypeOK'
    <2>1. TypeOK /\ UNCHANGED vars => TypeOK'
        BY DEF TypeOK, vars, memoryVars, diskVars
    <2> QED BY <2>1, RequestType, WriteType, HostType DEF Next
<1> QED BY <1>1, InitType, PTL DEF Spec

-----------------------------------------------------------------------------
(* What a task is about to write, whatever the storage does.               *)

\* The record a task writes is the one in memory, changed by its request.
Writes(kind) ==
    \/ /\ kind = "put"
       /\ task.lease # NoLease
       /\ \E d \in workspace.open, body \in Bodies :
             /\ task.documents = {d}
             /\ task.updated = WithDraft(workspace, d, body)
    \/ /\ kind = "release"
       /\ task.lease # NoLease
       /\ \E d \in Documents : /\ task.documents = {d}
                               /\ workspace.drafts[d] # NoBody
                               /\ task.updated = WithDraft(workspace, d, NoBody)
    \/ /\ kind = "layout"
       /\ task.documents = {}
       /\ \E open \in SUBSET Documents : task.updated = Restricted(workspace, open)
    \/ /\ kind = "save"
       /\ task.documents = {}
       /\ task.updated = [workspace EXCEPT !.status = "kept"]

Serving ==
    /\ host # "serving" => workspace = NoRecord /\ task = NoTask
    /\ task.step = "none" => task = NoTask
    /\ task.step = "objects" => workspace = NoRecord /\ task.documents = {}
    /\ task.step = "body" => task.kind = "put"
    /\ task.step \in {"body", "record", "sync"} => Writes(task.kind)

\* A put checks its bodies when it writes the record.
Covered == task.step = "sync" => Refs(task.updated) \subseteq bodies

Readable == TypeOK /\ Serving /\ Covered /\ Refs(workspace) \subseteq bodies

\* Only a put names a body that its workspace does not.
LEMMA NewBodies ==
    ASSUME TypeOK, Writes(task.kind), task.kind # "put"
    PROVE  Refs(task.updated) \subseteq Refs(workspace)
BY RefsBuilt DEF Writes, TypeOK

\* Without drafts no body is missing.
LEMMA InitReadable == Init => Readable
BY InitType, RefsType DEF Init, Readable, Serving, Covered, NoTask, TypeOK

\* Requests only plan records whose bodies are there or written first;
LEMMA RequestReadable == Readable /\ RequestStep => Readable'
<1> SUFFICES ASSUME Readable, RequestStep
             PROVE  Readable'
    OBVIOUS
<1> USE NoneTyped, RefsType
<1>t. TypeOK /\ TypeOK' /\ workspace \in Record
    BY RequestType DEF Readable, TypeOK
<1>0. ASSUME UNCHANGED <<host, workspace, task, bodies>>
      PROVE  Readable'
    BY <1>0, <1>t DEF Readable, Serving, Covered, Writes
<1>r. ASSUME NEW kind \in {"put", "release", "layout", "save"},
             NEW step \in {"body", "record"}, NEW documents, NEW lease, NEW updated,
             Run(kind, step, documents, lease, updated), Writes(kind)',
             step = "body" => kind = "put", Idle
      PROVE  Readable'
    BY <1>r, <1>t
    DEF Run, Readable, Serving, Covered, memoryVars, diskVars, Idle, NoTask
<1>1. CASE \E c \in Clients, d \in Documents, takeover \in BOOLEAN :
              AcquireDocument(c, d, takeover)
    BY <1>1, <1>0 DEF AcquireDocument, diskVars
<1>2. ASSUME NEW lease \in Granted, NEW d \in Documents, ReleaseDocument(lease, d)
      PROVE  Readable'
    <2>1. CASE /\ workspace.drafts[d] # NoBody
               /\ Run("release", "record", {d}, lease, WithDraft(workspace, d, NoBody))
        <3>1. Writes("release")'
            BY <2>1, <1>t, GrantedTyped DEF Writes, Run, memoryVars, WithDraft
        <3> QED BY <1>2, <2>1, <3>1, <1>r DEF ReleaseDocument
    <2>2. CASE UNCHANGED <<host, workspace, nextLeaseEpoch, task, diskVars>>
        BY <2>2, <1>0 DEF diskVars
    <2> QED BY <1>2, <2>1, <2>2 DEF ReleaseDocument
<1>3. ASSUME NEW lease \in Granted, NEW d \in Documents, NEW body \in Bodies,
             PutDocumentDraft(lease, d, body)
      PROVE  Readable'
    <2>1. Writes("put")'
        BY <1>3, <1>t, GrantedTyped DEF PutDocumentDraft, Writes, Run, memoryVars, WithDraft
    <2> QED BY <1>3, <2>1, <1>r DEF PutDocumentDraft
<1>4. ASSUME NEW open \in SUBSET Documents, ChangeLayout(open)
      PROVE  Readable'
    <2>1. Writes("layout")'
        BY <1>4 DEF ChangeLayout, Writes, Run, memoryVars, Restricted
    <2> QED BY <1>4, <2>1, <1>r DEF ChangeLayout
<1>5. CASE SaveWorkspace
    <2>1. Writes("save")'
        BY <1>5 DEF SaveWorkspace, Writes, Run, memoryVars
    <2> QED BY <1>5, <2>1, <1>r DEF SaveWorkspace
<1>6. CASE Forget
    BY <1>6, <1>t DEF Forget, Readable, Serving, Covered, NoTask, Idle
<1>7. CASE \E c \in Clients : ExpireSession(c)
    BY <1>7, <1>0 DEF ExpireSession, diskVars
<1> QED BY <1>1, <1>2, <1>3, <1>4, <1>5, <1>6, <1>7 DEF RequestStep

\* writes collect no body the record in memory names;
LEMMA WriteReadable == Readable /\ WriteStep => Readable'
<1> SUFFICES ASSUME Readable, WriteStep
             PROVE  Readable'
    OBVIOUS
<1> USE NoneTyped, RefsType
<1>t. TypeOK /\ TypeOK' /\ task \in Task
    BY WriteType DEF Readable, TypeOK
<1>a. ASSUME Answer, Refs(workspace) \subseteq bodies', task.step # "none"
      PROVE  Readable'
    BY <1>a, <1>t DEF Answer, Readable, Serving, Covered, memoryVars, NoTask
<1>b. ASSUME Abort, task.step \in {"record", "sync"}
      PROVE  Readable'
    <2>1. Refs(workspace) \subseteq bodies'
        BY <1>b DEF Abort, Collect, Readable
    <2> QED BY <1>a, <1>b, <2>1 DEF Abort
<1>1. CASE WriteBody
    <2>1. CASE Answer
        BY <1>1, <2>1, <1>a DEF WriteBody, Readable
    <2>2. CASE /\ bodies' = bodies \cup (Refs(task.updated) \ bodies)
               /\ task' = [task EXCEPT !.step = "record"]
               /\ UNCHANGED <<host, memoryVars>>
        BY <1>1, <2>2, <1>t
        DEF WriteBody, Readable, Serving, Covered, Writes, memoryVars, Task, NoTask
    <2> QED BY <1>1, <2>1, <2>2 DEF WriteBody
<1>2. CASE WriteRecord
    <2>1. CASE Abort
        BY <1>2, <2>1, <1>b DEF WriteRecord
    <2>2. CASE /\ task.kind = "put" => Valid(task.updated)
               /\ task' = [task EXCEPT !.step = "sync"]
               /\ UNCHANGED <<host, memoryVars, bodies>>
        <3>1. Refs(task.updated) \subseteq bodies
            BY <1>2, <2>2, <1>t, NewBodies DEF WriteRecord, Valid, Readable, Serving
        <3> QED BY <1>2, <2>2, <3>1, <1>t
                DEF WriteRecord, Readable, Serving, Covered, Writes, memoryVars, Task, NoTask
    <2> QED BY <1>2, <2>1, <2>2 DEF WriteRecord
<1>3. CASE Commit
    BY <1>3, <1>t
    DEF Commit, Collect, Readable, Serving, Covered, NoTask
<1>4. CASE FailSync
    BY <1>4, <1>b DEF FailSync
<1>5. CASE RemoveObjects
    BY <1>5, <1>a DEF RemoveObjects, Readable, Serving
<1> QED BY <1>1, <1>2, <1>3, <1>4, <1>5 DEF WriteStep

\* and a start checks every body before it serves.
LEMMA HostReadable == Readable /\ HostStep => Readable'
<1> SUFFICES ASSUME Readable, HostStep
             PROVE  Readable'
    OBVIOUS
<1> USE NoneTyped, RefsType
<1>t. TypeOK /\ TypeOK'
    BY HostType DEF Readable
<1>n. host # "serving" => task = NoTask /\ workspace = NoRecord
    BY DEF Readable, Serving
<1>r. ASSUME NEW rec \in Record, Recover(rec), host # "serving", UNCHANGED task
      PROVE  Readable'
    BY <1>r, <1>t, <1>n DEF Recover, Readable, Serving, Covered, NoTask
<1>0. ASSUME host # "serving", UNCHANGED <<workspace, task, bodies>>
      PROVE  Readable'
    BY <1>0, <1>t, <1>n DEF Readable, Serving, Covered, NoTask
<1>1. CASE Stop
    BY <1>1, <1>t DEF Stop, Readable, Serving, Covered, NoTask, diskVars
<1>2. CASE Start
    BY <1>2, <1>r, <1>0, <1>t DEF Start, TypeOK
<1>3. CASE SetAside
    BY <1>3, <1>0 DEF SetAside, memoryVars
<1>4. CASE Restore
    BY <1>4, <1>r, <1>0, <1>t DEF Restore, TypeOK
<1>5. CASE Corrupt
    BY <1>5, <1>0 DEF Corrupt, memoryVars
<1> QED BY <1>1, <1>2, <1>3, <1>4, <1>5 DEF HostStep

\* So the strengthened invariant holds always.
LEMMA ReadableAlways == Spec => []Readable
<1>1. Readable /\ [Next]_vars => Readable'
    <2>1. ASSUME Readable, UNCHANGED vars
          PROVE  Readable'
        BY <2>1 DEF Readable, TypeOK, Serving, Covered, Writes, vars, memoryVars, diskVars
    <2> QED BY <2>1, RequestReadable, WriteReadable, HostReadable DEF Next
<1> QED BY <1>1, InitReadable, PTL DEF Spec

\* Every draft a serving Host lists can be read, whatever writes fail, whenever the Host
\* stops and however its records are damaged.
THEOREM DraftsReadableAlways == Spec => []DraftsReadable
<1>1. Readable => DraftsReadable
    BY DEF Readable, DraftsReadable
<1> QED BY <1>1, ReadableAlways, PTL

-----------------------------------------------------------------------------
(* Leases.                                                                 *)

\* A task keeps its lease, since whatever ends leases waits for the state lock.
LEMMA LeaseStep ==
    ASSUME Readable, WritesUnderItsLease, [Next]_vars
    PROVE  WritesUnderItsLease'
<1> USE DEF WritesUnderItsLease
<1>0. ASSUME UNCHANGED leases, task'.documents = task.documents, task'.lease = task.lease
      PROVE  WritesUnderItsLease'
    BY <1>0
<1>n. ASSUME task' = NoTask \/ task'.documents = {}
      PROVE  WritesUnderItsLease'
    BY <1>n DEF NoTask
<1>r. ASSUME NEW kind, NEW step, NEW d, NEW lease, NEW updated, leases[d] = lease,
             Run(kind, step, {d}, lease, updated)
      PROVE  WritesUnderItsLease'
    BY <1>r DEF Run, memoryVars
<1>i. ASSUME Idle, UNCHANGED task
      PROVE  WritesUnderItsLease'
    BY <1>i, <1>n DEF Idle
<1>1. CASE RequestStep
    <2>1. ASSUME NEW lease \in Granted, NEW d \in Documents, ReleaseDocument(lease, d)
          PROVE  WritesUnderItsLease'
        BY <2>1, <1>r, <1>i DEF ReleaseDocument
    <2>2. ASSUME NEW lease \in Granted, NEW d \in Documents, NEW body \in Bodies,
                 PutDocumentDraft(lease, d, body)
          PROVE  WritesUnderItsLease'
        BY <2>2, <1>r DEF PutDocumentDraft, Holds
    <2>3. ASSUME NEW open \in SUBSET Documents, ChangeLayout(open)
          PROVE  WritesUnderItsLease'
        BY <2>3, <1>n DEF ChangeLayout, Run
    <2>4. CASE SaveWorkspace
        BY <2>4, <1>n DEF SaveWorkspace, Run
    <2>5. CASE Forget
        BY <2>5, <1>n DEF Forget, NoTask
    <2>6. CASE \/ \E c \in Clients, d \in Documents, takeover \in BOOLEAN :
                     AcquireDocument(c, d, takeover)
               \/ \E c \in Clients : ExpireSession(c)
        BY <2>6, <1>i DEF AcquireDocument, ExpireSession
    <2> QED BY <1>1, <2>1, <2>2, <2>3, <2>4, <2>5, <2>6 DEF RequestStep
<1>2. CASE WriteStep
    <2>t. task \in Task
        BY DEF Readable, TypeOK
    <2>1. CASE WriteBody
        BY <2>1, <2>t, <1>0, <1>n DEF WriteBody, Answer, memoryVars, Task
    <2>2. CASE WriteRecord
        BY <2>2, <2>t, <1>0, <1>n DEF WriteRecord, Abort, Answer, memoryVars, Task
    <2>3. CASE Commit \/ FailSync \/ RemoveObjects
        BY <2>3, <1>n DEF Commit, FailSync, Abort, RemoveObjects, Answer
    <2> QED BY <1>2, <2>1, <2>2, <2>3 DEF WriteStep
<1>3. CASE HostStep
    <2>1. CASE Stop
        BY <2>1, <1>n DEF Stop
    <2>2. CASE Start \/ SetAside \/ Restore \/ Corrupt
        BY <2>2, <1>0 DEF Start, SetAside, Restore, Corrupt, memoryVars
    <2> QED BY <1>3, <2>1, <2>2 DEF HostStep
<1>4. CASE UNCHANGED vars
    BY <1>4, <1>0 DEF vars, memoryVars
<1> QED BY <1>1, <1>2, <1>3, <1>4 DEF Next

\* An upload or a release has the lease it was made under until its last write.
THEOREM WritesUnderItsLeaseAlways == Spec => []WritesUnderItsLease
<1>1. Init => WritesUnderItsLease
    BY DEF Init, NoTask, WritesUnderItsLease
<1> QED BY <1>1, ReadableAlways, LeaseStep, PTL DEF Spec

-----------------------------------------------------------------------------
(* What is on disk until the storage has a fault.                          *)

\* Fewer drafts than a valid record has are valid too.
LEMMA ValidFewer ==
    ASSUME NEW old \in Record, NEW new \in Record, Valid(old),
           \A d \in Documents : new.drafts[d] \in {old.drafts[d], NoBody}
    PROVE  Valid(new)
<1> DEFINE Drafted(rec) == {d \in Documents : rec.drafts[d] # NoBody}
<1>1. Drafted(new) \subseteq Drafted(old)
    OBVIOUS
<1>2. IsFiniteSet(Drafted(old))
    BY FS_Subset, DocumentsAssumption
<1>3. /\ Cardinality(Drafted(new)) \in Nat
      /\ Cardinality(Drafted(old)) \in Nat
      /\ Cardinality(Drafted(new)) <= Cardinality(Drafted(old))
    BY <1>1, <1>2, FS_Subset, FS_CardinalityType
<1>4. Cardinality(Drafted(new)) <= MaxBodies
    BY <1>3, DocumentsAssumption DEF Valid
<1>5. Refs(new) \subseteq bodies
    BY DEF Valid, Refs
<1> QED BY <1>4, <1>5 DEF Valid

\* No record names no body.
LEMMA ValidNoRecord == Valid(NoRecord)
<1>1. {d \in Documents : NoRecord.drafts[d] # NoBody} = {}
    BY DEF NoRecord
<1> QED BY <1>1, FS_EmptySet, RefsType, DocumentsAssumption DEF Valid

\* Only Refs counts for what Valid asks of the files.
LEMMA ValidKept ==
    ASSUME NEW rec, Valid(rec), Refs(rec) \subseteq bodies'
    PROVE  Valid(rec)'
BY DEF Valid

\* The record a task is about to write is valid once its bodies are there.
LEMMA NewRecordValid ==
    ASSUME TypeOK, Writes(task.kind), task.kind # "put", Valid(workspace)
    PROVE  Valid(task.updated)
<1>1. workspace \in Record /\ task.updated \in Record
    BY DEF TypeOK, Task
<1>2. \A d \in Documents : task.updated.drafts[d] \in {workspace.drafts[d], NoBody}
    <2>1. ASSUME NEW d \in Documents, task.updated = WithDraft(workspace, d, NoBody)
          PROVE  \A e \in Documents : task.updated.drafts[e] \in {workspace.drafts[e], NoBody}
        BY <1>1, <2>1 DEF WithDraft, Record
    <2>2. ASSUME NEW open \in SUBSET Documents, task.updated = Restricted(workspace, open)
          PROVE  \A e \in Documents : task.updated.drafts[e] \in {workspace.drafts[e], NoBody}
        BY <2>2 DEF Restricted
    <2>3. CASE task.updated = [workspace EXCEPT !.status = "kept"]
        BY <1>1, <2>3 DEF Record
    <2> QED BY <2>1, <2>2, <2>3 DEF Writes
<1> QED BY <1>1, <1>2, ValidFewer

Kept(rec) == rec.status = "kept" \/ rec = NoRecord

\* The record on disk is the one in memory, until a task has replaced it.
Stored ==
    /\ Readable
    /\ host \in {"serving", "down"}
    /\ Kept(workspace) /\ Kept(record)
    /\ host = "serving" => record = IF task.step = "sync" THEN task.updated ELSE workspace
    /\ Valid(workspace) /\ Valid(record)

\* Nothing is stored and nothing is served.
LEMMA InitStored == Init => Stored
BY InitReadable, ValidNoRecord DEF Init, Stored, Kept, NoTask

\* A task writes a record that is kept.
LEMMA UpdatedKept ==
    ASSUME TypeOK, Kept(workspace), Writes(task.kind)
    PROVE  Kept(task.updated)
<1>1. workspace \in Record
    BY DEF TypeOK
<1>2. \A d \in Documents : /\ d \in workspace.open \/ workspace.drafts[d] # NoBody
                                => workspace.status = "kept"
    BY DEF Kept, NoRecord
<1>3. CASE task.updated = [workspace EXCEPT !.status = "kept"]
    BY <1>1, <1>3 DEF Kept, Record
<1>4. CASE \E open \in SUBSET Documents : task.updated = Restricted(workspace, open)
    BY <1>4 DEF Kept, Restricted
<1>5. ASSUME NEW d \in Documents, NEW body, workspace.status = "kept",
             task.updated = WithDraft(workspace, d, body)
      PROVE  Kept(task.updated)
    BY <1>1, <1>5 DEF Kept, WithDraft, Record
<1>6. workspace.open \subseteq Documents
    BY <1>1 DEF Record
<1> QED BY <1>2, <1>3, <1>4, <1>5, <1>6 DEF Writes

\* A fault of the storage is not forgotten.
LEMMA FaultsStay == ASSUME Next, ~faulted' PROVE ~faulted
<1>1. CASE RequestStep
    BY <1>1 DEF RequestStep, AcquireDocument, ReleaseDocument, PutDocumentDraft, ChangeLayout,
                SaveWorkspace, Forget, ExpireSession, Run, diskVars
<1>2. CASE WriteStep
    BY <1>2 DEF WriteStep, WriteBody, WriteRecord, Commit, FailSync, RemoveObjects
<1>3. CASE HostStep
    BY <1>3 DEF HostStep, Stop, Start, SetAside, Restore, Corrupt, diskVars
<1> QED BY <1>1, <1>2, <1>3 DEF Next

\* Every step keeps the record on disk the one in memory, or the one about to be.
LEMMA StoredStep == ASSUME ~faulted', Stored, Next PROVE Stored'
<1> USE NoneTyped, RefsType
<1>r. Readable /\ Readable' /\ TypeOK /\ task \in Task
    BY RequestReadable, WriteReadable, HostReadable DEF Stored, Next, Readable, TypeOK
<1>0. ASSUME Idle, UNCHANGED <<host, workspace, record, bodies>>, task'.step # "sync"
      PROVE  Stored'
    BY <1>0, <1>r DEF Stored, Kept, Valid, Idle, NoTask
<1>1. CASE RequestStep
    <2>r. ASSUME NEW kind, NEW step \in {"body", "record"}, NEW documents, NEW lease,
                 NEW updated, Idle, Run(kind, step, documents, lease, updated)
          PROVE  Stored'
        BY <2>r, <1>0 DEF Run, memoryVars, diskVars
    <2>i. ASSUME Idle, UNCHANGED <<host, workspace, task, diskVars>>
          PROVE  Stored'
        BY <2>i, <1>0 DEF diskVars, Idle, NoTask
    <2>1. ASSUME NEW lease \in Granted, NEW d \in Documents, ReleaseDocument(lease, d)
          PROVE  Stored'
        BY <2>1, <2>r, <2>i DEF ReleaseDocument
    <2>2. ASSUME NEW lease \in Granted, NEW d \in Documents, NEW body \in Bodies,
                 PutDocumentDraft(lease, d, body)
          PROVE  Stored'
        BY <2>2, <2>r DEF PutDocumentDraft
    <2>3. ASSUME NEW open \in SUBSET Documents, ChangeLayout(open)
          PROVE  Stored'
        BY <2>3, <2>r DEF ChangeLayout
    <2>4. CASE SaveWorkspace
        BY <2>4, <2>r DEF SaveWorkspace
    <2>5. CASE Forget
        BY <2>5, <1>r, ValidNoRecord DEF Forget, Stored, Kept, Valid, NoTask, Idle
    <2>6. CASE \/ \E c \in Clients, d \in Documents, takeover \in BOOLEAN :
                     AcquireDocument(c, d, takeover)
               \/ \E c \in Clients : ExpireSession(c)
        BY <2>6, <2>i DEF AcquireDocument, ExpireSession
    <2> QED BY <1>1, <2>1, <2>2, <2>3, <2>4, <2>5, <2>6 DEF RequestStep
<1>2. CASE WriteStep
    <2>h. host = "serving" /\ task # NoTask
        BY <1>2, <1>r
        DEF Readable, Serving, WriteStep, WriteBody, WriteRecord, Commit, FailSync,
            RemoveObjects, NoTask
    <2>a. ASSUME Answer, UNCHANGED record, task.step # "sync", Refs(workspace) \subseteq bodies'
          PROVE  Stored'
        BY <2>a, <2>h, <1>r, ValidKept DEF Answer, Stored, Kept, memoryVars, NoTask
    <2>1. CASE WriteBody
        <3>1. Refs(workspace) \subseteq bodies'
            BY <2>1, <1>r DEF WriteBody, Readable
        <3>2. CASE Answer
            BY <2>1, <3>1, <3>2, <2>a DEF WriteBody
        <3>3. CASE /\ task' = [task EXCEPT !.step = "record"]
                   /\ UNCHANGED <<host, memoryVars>>
            BY <2>1, <3>1, <3>3, <2>h, <1>r, ValidKept
            DEF WriteBody, Stored, Kept, memoryVars, Task
        <3> QED BY <2>1, <3>2, <3>3 DEF WriteBody
    <2>2. CASE WriteRecord
        <3>1. CASE UNCHANGED record /\ Abort
            <4>1. Refs(workspace) \subseteq bodies'
                BY <3>1, <1>r DEF Abort, Collect, Readable
            <4> QED BY <2>2, <3>1, <4>1, <2>a DEF WriteRecord, Abort
        <3>2. CASE /\ task.kind = "put" => Valid(task.updated)
                   /\ record' = task.updated
                   /\ task' = [task EXCEPT !.step = "sync"]
                   /\ UNCHANGED <<host, memoryVars, bodies>>
            <4>1. Writes(task.kind)
                BY <2>2, <1>r DEF WriteRecord, Readable, Serving
            <4>2. Valid(task.updated) /\ Kept(task.updated)
                BY <3>2, <4>1, <1>r, NewRecordValid, UpdatedKept DEF Stored
            <4> QED BY <3>2, <4>2, <1>r, <2>h DEF Stored, Kept, Valid, memoryVars, Task
        <3> QED BY <2>2, <3>1, <3>2 DEF WriteRecord
    <2>3. CASE Commit
        <3>1. record = task.updated
            BY <2>3, <2>h DEF Commit, Stored
        <3>2. Refs(record) \subseteq bodies'
            BY <2>3, <3>1 DEF Commit, Collect, Stored, Valid
        <3> QED BY <2>3, <3>1, <3>2, <2>h, <1>r, ValidKept DEF Commit, Stored, Kept, NoTask
    <2>4. CASE FailSync
        BY <2>4 DEF FailSync
    <2>5. CASE RemoveObjects
        BY <2>5, <2>a, <1>r DEF RemoveObjects, Readable, Serving
    <2> QED BY <1>2, <2>1, <2>2, <2>3, <2>4, <2>5 DEF WriteStep
<1>3. CASE HostStep
    <2>1. CASE Stop
        BY <2>1, <1>r, ValidNoRecord DEF Stop, Stored, Kept, Valid, diskVars
    <2>2. CASE Start
        <3>1. workspace = NoRecord /\ task = NoTask
            BY <2>2, <1>r DEF Start, Readable, Serving
        <3>2. CASE record.status = "absent" /\ host' = "serving" /\ UNCHANGED <<workspace, bodies>>
            BY <2>2, <3>1, <3>2, <1>r DEF Start, Stored, Kept, Valid, NoTask
        <3>3. CASE record.status = "kept" /\ Recover(record)
            <4>1. Refs(record) \subseteq bodies'
                BY <3>3 DEF Recover, Stored
            <4> QED BY <2>2, <3>1, <3>3, <4>1, <1>r, ValidKept
                    DEF Start, Recover, Stored, Kept, NoTask
        <3> QED BY <2>2, <3>2, <3>3 DEF Start
    <2>3. CASE SetAside \/ Restore \/ Corrupt
        BY <2>3 DEF SetAside, Restore, Corrupt, Stored, Kept, NoRecord
    <2> QED BY <1>3, <2>1, <2>2, <2>3 DEF HostStep
<1> QED BY <1>1, <1>2, <1>3 DEF Next

\* So they agree always.
LEMMA StoredAlways == Spec => [](~faulted => Stored)
<1>1. (~faulted => Stored) /\ [Next]_vars => (~faulted => Stored)'
    <2>1. ASSUME Stored, UNCHANGED vars
          PROVE  Stored'
        BY <2>1
        DEF Stored, Readable, TypeOK, Serving, Covered, Writes, Kept, Valid, vars,
            memoryVars, diskVars
    <2>2. UNCHANGED vars => UNCHANGED faulted
        BY DEF vars, diskVars
    <2> QED BY <2>1, <2>2, StoredStep, FaultsStay
<1> QED BY <1>1, InitStored, PTL DEF Spec

\* The record on disk names only bodies that are there, so the Host can start from it.
THEOREM RecordReadableAlways == Spec => []RecordReadable
<1>1. (~faulted => Stored) => RecordReadable
    BY DEF Stored, RecordReadable, RecordNamesBodies, HostStarts, Valid
<1> QED BY <1>1, StoredAlways, PTL

\* Between requests the Host answers from the workspace it would restart with.
THEOREM ServesWhatIsStoredAlways == Spec => []ServesWhatIsStored
<1>1. (~faulted => Stored) => ServesWhatIsStored
    BY DEF Stored, ServesWhatIsStored, Idle, NoTask
<1> QED BY <1>1, StoredAlways, PTL

-----------------------------------------------------------------------------
(* The Host implements the draft store.                                    *)

\* The Host starts as an empty draft store.
LEMMA InitStore == Init => Store!Init
BY DEF Init, Store!Init, NoRecord, Store!NoDrafts, NoLease, Store!NoLease

\* A step that writes no record and grants no lease ends the leases of some documents.
LEMMA EndsLeases ==
    ASSUME UNCHANGED <<record, nextLeaseEpoch>>, NEW documents \in SUBSET Documents,
           leases' = [d \in Documents |-> IF d \in documents THEN NoLease ELSE leases[d]]
    PROVE  Store!Next
<1>1. Store!EndLeases(documents)
    BY DEF Store!EndLeases, NoLease, Store!NoLease
<1> QED BY <1>1 DEF Store!Next

\* Every step of the Host is a step of the draft store or none.
LEMMA StoreStep ==
    ASSUME ~faulted', Stored, WritesUnderItsLease, Next
    PROVE  Store!Next \/ UNCHANGED Store!storeVars
<1>t. /\ TypeOK /\ Serving
      /\ workspace \in Record /\ task \in Task
      /\ leases \in [Documents -> Lease]
    BY DEF Stored, Readable, TypeOK
<1>0. ASSUME UNCHANGED <<record, leases, nextLeaseEpoch>>
      PROVE  UNCHANGED Store!storeVars
    BY <1>0 DEF Store!storeVars
<1>i. Idle => record = workspace
    BY DEF Stored, Idle, NoTask
<1>e. ASSUME NEW documents \in SUBSET Documents, UNCHANGED <<record, nextLeaseEpoch>>,
             leases' = [d \in Documents |-> IF d \in documents THEN NoLease ELSE leases[d]]
      PROVE  Store!Next
    BY <1>e, EndsLeases
<1>1. CASE RequestStep
    <2>1. ASSUME NEW c \in Clients, NEW d \in Documents, NEW takeover \in BOOLEAN,
                 AcquireDocument(c, d, takeover)
          PROVE  Store!Next
        <3>1. Store!Acquire(c, d)
            BY <2>1, <1>i DEF AcquireDocument, Store!Acquire, diskVars
        <3> QED BY <3>1 DEF Store!Next
    <2>2. ASSUME NEW lease \in Granted, NEW d \in Documents, ReleaseDocument(lease, d)
          PROVE  Store!Next \/ UNCHANGED Store!storeVars
        <3>1. CASE Run("release", "record", {d}, lease, WithDraft(workspace, d, NoBody))
            BY <3>1, <1>0 DEF Run, memoryVars, diskVars
        <3>2. CASE /\ leases' = [leases EXCEPT ![d] = NoLease]
                   /\ UNCHANGED <<host, workspace, nextLeaseEpoch, task, diskVars>>
            <4>1. leases' = [e \in Documents |-> IF e \in {d} THEN NoLease ELSE leases[e]]
                BY <3>2, <1>t
            <4> QED BY <3>2, <4>1, <1>e DEF diskVars
        <3> QED BY <2>2, <3>1, <3>2 DEF ReleaseDocument
    <2>3. ASSUME NEW lease \in Granted, NEW d \in Documents, NEW body \in Bodies,
                 PutDocumentDraft(lease, d, body)
          PROVE  UNCHANGED Store!storeVars
        BY <2>3, <1>0 DEF PutDocumentDraft, Run, memoryVars, diskVars
    <2>4. ASSUME NEW open \in SUBSET Documents, ChangeLayout(open)
          PROVE  UNCHANGED Store!storeVars
        BY <2>4, <1>0 DEF ChangeLayout, Run, memoryVars, diskVars
    <2>5. CASE SaveWorkspace
        BY <2>5, <1>0 DEF SaveWorkspace, Run, memoryVars, diskVars
    <2>6. CASE Forget
        <3>1. Store!Reshape({})
            BY <2>6 DEF Forget, Store!Reshape, NoRecord
        <3> QED BY <3>1 DEF Store!Next
    <2>7. ASSUME NEW c \in Clients, ExpireSession(c)
          PROVE  Store!Next
        <3> DEFINE held == {d \in Documents : leases[d].holder = c}
        <3>1. leases' = [d \in Documents |-> IF d \in held THEN NoLease ELSE leases[d]]
            BY <2>7 DEF ExpireSession
        <3> QED BY <2>7, <3>1, <1>e DEF ExpireSession, diskVars
    <2> QED BY <1>1, <2>1, <2>2, <2>3, <2>4, <2>5, <2>6, <2>7 DEF RequestStep
<1>2. CASE WriteStep
    <2>1. CASE WriteBody \/ FailSync \/ RemoveObjects
        BY <2>1, <1>0 DEF WriteBody, FailSync, RemoveObjects, Abort, Answer, memoryVars
    <2>2. CASE WriteRecord
        <3>1. CASE UNCHANGED record /\ Abort
            BY <3>1, <1>0 DEF Abort, Answer, memoryVars
        <3>2. CASE /\ record' = task.updated
                   /\ UNCHANGED <<host, memoryVars, bodies>>
            <4>1. record = workspace /\ Writes(task.kind)
                BY <2>2, <1>t DEF WriteRecord, Stored, Serving, NoTask
            <4>2. ASSUME NEW d \in workspace.open, NEW body \in Bodies,
                         task.documents = {d}, task.updated = WithDraft(workspace, d, body),
                         leases[d] # NoLease
                  PROVE  Store!Next
                <5>1. d \in Documents
                    BY <1>t DEF Record
                <5>2. Store!Upload(d, body)
                    BY <3>2, <4>1, <4>2, <1>t
                    DEF Store!Upload, WithDraft, Record, memoryVars, NoLease, Store!NoLease
                <5> QED BY <5>1, <5>2 DEF Store!Next
            <4>3. ASSUME NEW d \in Documents, task.documents = {d},
                         task.updated = WithDraft(workspace, d, NoBody), leases[d] # NoLease
                  PROVE  Store!Next
                <5>1. Store!Discard(d)
                    BY <3>2, <4>1, <4>3, <1>t
                    DEF Store!Discard, WithDraft, Record, memoryVars, NoLease, Store!NoLease
                <5> QED BY <5>1 DEF Store!Next
            <4>4. ASSUME NEW open \in SUBSET Documents,
                         task.updated = Restricted(workspace, open)
                  PROVE  Store!Next
                <5>1. Store!Reshape(open)
                    BY <3>2, <4>1, <4>4 DEF Store!Reshape, Restricted, memoryVars
                <5> QED BY <5>1 DEF Store!Next
            <4>5. CASE task.updated = [workspace EXCEPT !.status = "kept"]
                BY <3>2, <4>1, <4>5, <1>t DEF Store!storeVars, Record, memoryVars
            <4>6. task.kind \in {"put", "release"} => \A d \in task.documents : leases[d] # NoLease
                BY <4>1 DEF Writes, WritesUnderItsLease
            <4> QED BY <4>1, <4>2, <4>3, <4>4, <4>5, <4>6 DEF Writes
        <3> QED BY <2>2, <3>1, <3>2 DEF WriteRecord
    <2>3. CASE Commit
        <3> DEFINE ended == {d \in Documents :
                                \/ task.kind = "release" /\ d \in task.documents
                                \/ task.kind = "layout" /\ d \notin task.updated.open}
        <3>1. leases' = [d \in Documents |-> IF d \in ended THEN NoLease ELSE leases[d]]
            BY <2>3, <1>t DEF Commit, LeasesAfter
        <3> QED BY <2>3, <3>1, <1>e DEF Commit
    <2> QED BY <1>2, <2>1, <2>2, <2>3 DEF WriteStep
<1>3. CASE HostStep
    <2>1. CASE Stop
        <3>1. leases' = [d \in Documents |-> IF d \in Documents THEN NoLease ELSE leases[d]]
            BY <2>1 DEF Stop
        <3> QED BY <2>1, <3>1, <1>e DEF Stop, diskVars
    <2>2. CASE Start
        BY <2>2, <1>0 DEF Start
    <2>3. CASE SetAside \/ Restore \/ Corrupt
        BY <2>3 DEF SetAside, Restore, Corrupt, Stored, Kept, NoRecord
    <2> QED BY <1>3, <2>1, <2>2, <2>3 DEF HostStep
<1> QED BY <1>1, <1>2, <1>3 DEF Next

\* Until the storage has a fault, the Host that writes, fails, stops and restarts is the draft
\* store it promises.
THEOREM DocumentsImplementDraftStore == Spec => ImplementsDraftStore
<1>1. (~faulted => Stored) /\ WritesUnderItsLease /\ [Next]_vars
          => [~faulted' => Store!Next]_Store!storeVars
    <2>1. UNCHANGED vars => UNCHANGED Store!storeVars
        BY DEF vars, memoryVars, diskVars, Store!storeVars
    <2> QED BY <2>1, StoreStep, FaultsStay
<1> QED BY <1>1, InitStore, StoredAlways, WritesUnderItsLeaseAlways, PTL
        DEF Spec, ImplementsDraftStore

=============================================================================
