------------------------------ MODULE DraftStore ------------------------------
(***************************************************************************)
(* What the Host promises about the documents of a workspace: one Client   *)
(* at a time holds a document, only the holder changes its draft, and a    *)
(* draft stays until its holder discards it or the document is closed.     *)
(* WorkspaceDocuments implements it with files, and with a Host that may   *)
(* stop at any step.                                                       *)
(***************************************************************************)
EXTENDS Integers

CONSTANTS Clients, Documents, Bodies, Nobody, NoBody

VARIABLES open,     \* documents open in the layout
          drafts,   \* the draft of each document
          leases,   \* the Client that may edit each document
          nextLeaseEpoch

storeVars == <<open, drafts, leases, nextLeaseEpoch>>

NoLease == [holder |-> Nobody, epoch |-> 0]
NoDrafts == [d \in Documents |-> NoBody]

Init ==
    /\ open = {}
    /\ drafts = NoDrafts
    /\ leases = [d \in Documents |-> NoLease]
    /\ nextLeaseEpoch = 1

\* The document passes to c under an epoch no lease ever had.
Acquire(c, d) ==
    /\ d \in open
    /\ leases' = [leases EXCEPT ![d] = [holder |-> c, epoch |-> nextLeaseEpoch]]
    /\ nextLeaseEpoch' = nextLeaseEpoch + 1
    /\ UNCHANGED <<open, drafts>>

Upload(d, body) ==
    /\ d \in open
    /\ leases[d] # NoLease
    /\ drafts' = [drafts EXCEPT ![d] = body]
    /\ UNCHANGED <<open, leases, nextLeaseEpoch>>

Discard(d) ==
    /\ leases[d] # NoLease
    /\ drafts' = [drafts EXCEPT ![d] = NoBody]
    /\ UNCHANGED <<open, leases, nextLeaseEpoch>>

\* The layout opens and closes documents; a closed one has no draft.
Reshape(documents) ==
    /\ open' = documents
    /\ drafts' = [d \in Documents |-> IF d \in documents THEN drafts[d] ELSE NoBody]
    /\ UNCHANGED <<leases, nextLeaseEpoch>>

\* Leases end on release, with a session, with the document or with the Host.
EndLeases(documents) ==
    /\ leases' = [d \in Documents |-> IF d \in documents THEN NoLease ELSE leases[d]]
    /\ UNCHANGED <<open, drafts, nextLeaseEpoch>>

Next ==
    \/ \E c \in Clients, d \in Documents : Acquire(c, d)
    \/ \E d \in Documents, body \in Bodies : Upload(d, body)
    \/ \E d \in Documents : Discard(d)
    \/ \E documents \in SUBSET Documents : Reshape(documents) \/ EndLeases(documents)

Spec == Init /\ [][Next]_storeVars

=============================================================================
