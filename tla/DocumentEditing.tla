---------------------------- MODULE DocumentEditing ----------------------------
(***************************************************************************)
(* How several Clients edit one document                                   *)
(* (src/ui/workbench/persistence/documents.rs, with the editor's model in  *)
(* src/ui/editor/document.rs and saving in                                 *)
(* src/ui/workbench/document_lifecycle.rs).                                *)
(*                                                                         *)
(* The window of each Client is one thread: handlers here are atomic.      *)
(* What it asks of the Host runs in tasks whose result the window applies  *)
(* later, so that the user, the Host and other Clients act in between.     *)
(* The Host runs each request under the lock of WorkspaceService, here in  *)
(* one step (WorkspaceDocuments models the files behind it), and tells     *)
(* every Client in events.  Answers and events are applied in any order.   *)
(*                                                                         *)
(* A text is the set of the edits it shows: who typed what, and where, is  *)
(* left out.  Left out, too: the layout (the document and its file stay),  *)
(* the watcher's reload of a file that changed, requests that fail on a    *)
(* live connection, a forced close, a second save of a Client while its    *)
(* first is under way, and Markdown's surface.  A Host that restarts is a  *)
(* Host whose Clients all drop and whose sessions all expire.              *)
(***************************************************************************)
EXTENDS Integers, SequencesExt

CONSTANTS Clients, Nobody,
          Budgets           \* bounds of the model: how much of what happens, how many events
                            \* are on their way to a Client at a time, and which edits are
                            \* too large for a draft

ASSUME EditingAssumption ==
    /\ Nobody \notin Clients
    /\ Budgets \subseteq [edits : Nat, undos : Nat, takeovers : Nat, saves : Nat,
                          drops : Nat, closes : Nat, faults : Nat, news : Nat \ {0},
                          large : SUBSET Nat]

VARIABLES lease,        \* the Host: the document's lease,
          next_epoch,   \*   next_lease_epoch,
          draft,        \*   the stored draft,
          disk,         \*   and the text of the file
          client,       \* the window of each Client
          news,         \* events on their way to each Client
          typed,        \* history: how many edits were typed; edit n is the n-th,
          given_up,     \*   those a user took back, or was asked about or warned of,
          continues,    \*   the Clients whose editor continues from the stored draft,
          overwritten,  \*   and the edits of drafts that another Client replaced
          left          \* what is left of the budget

hostVars == <<lease, next_epoch, draft, disk>>
historyVars == <<typed, given_up, continues, overwritten>>
vars == <<hostVars, client, news, historyVars, left>>

-----------------------------------------------------------------------------
NoLease == [holder |-> Nobody, epoch |-> 0]
NoDraft == [revision |-> 0, text |-> {}]

\* DocumentState; no draft is revision 0
State(l, d) == [holder |-> l.holder, epoch |-> l.epoch, revision |-> d.revision]
Unknown == State(NoLease, NoDraft)

\* A DocumentStep, where run_document_step is, and its result so far
NoStep == [kind |-> "none", at |-> "none", epoch |-> 0, generation |-> 0, text |-> {},
           answer |-> Unknown, fetched |-> NoDraft, uploaded |-> 0]

\* A SaveRequest, where it is, and what its conflict became: "asking" the user, "reloading"
\* at the user's wish, or "stuck" (Saving without a task).  A file's fingerprint is its text.
NoSave == [at |-> "none", generation |-> 0, text |-> {}, expected |-> {}]

\* ProjectEditorDocument, its DocumentSync entry, and the window around both; None is 0.
\* copied are the edits in Device copies, writable says whether another can be written, and
\* exposed (history) are the edits exposed to a race, or to a copy that failed.
Opened == [value |-> {}, saved |-> {}, external_dirty |-> FALSE, generation |-> 0,
           fingerprint |-> {}, held |-> FALSE,
           host |-> Unknown, lease_epoch |-> 0, uploaded |-> 0, shown_draft |-> 0,
           error |-> FALSE, step |-> NoStep, save |-> NoSave, reloads |-> 0,
           link |-> "opened", opening |-> Unknown, window |-> "open",
           copied |-> {}, writable |-> TRUE, exposed |-> {}]

Init ==
    /\ lease = NoLease /\ next_epoch = 1 /\ draft = NoDraft /\ disk = {}
    /\ client = [c \in Clients |-> Opened]
    /\ news = [c \in Clients |-> <<>>]
    /\ typed = 0 /\ given_up = {} /\ continues = {} /\ overwritten = {}
    /\ left \in Budgets

IsDirty(w) == w.value # w.saved \/ w.external_dirty
Connected(w) == w.link # "down"

\* has_unsynced_documents
Unsynced(w) == IsDirty(w) /\ ~w.held /\ (w.lease_epoch = 0 \/ w.uploaded # w.generation)

Spend(what) == left[what] > 0 /\ left' = [left EXCEPT ![what] = @ - 1]
Show(c, w) == client' = [client EXCEPT ![c] = w]

-----------------------------------------------------------------------------
(* reconcile_document: what a window does next about its document.         *)

Spawn(w, kind) ==
    IF w.step.at # "none" THEN w
    ELSE [w EXCEPT !.step =
             CASE kind = "upload" ->
                    [NoStep EXCEPT !.kind = kind, !.at = "put", !.epoch = w.lease_epoch,
                                   !.generation = w.generation, !.text = w.value]
               [] kind = "release" ->
                    [NoStep EXCEPT !.kind = kind, !.at = "release", !.epoch = w.lease_epoch]
               [] kind = "show" -> [NoStep EXCEPT !.kind = kind, !.at = "get"]
               [] OTHER -> [NoStep EXCEPT !.kind = kind, !.at = "acquire"]]

\* Mutant: edits the Host does not store are not kept.
LoseUncopied(w) ==
    LET lost == [w EXCEPT !.lease_epoch = 0, !.uploaded = 0, !.shown_draft = 0]
    IN IF ~IsDirty(w) THEN lost ELSE [lost EXCEPT !.reloads = @ + 1]

\* preserve_document_copies; a copy that fails leaves an error message.
Preserve(w) ==
    IF w.writable THEN [w EXCEPT !.copied = @ \cup w.value]
    ELSE [w EXCEPT !.exposed = @ \cup (w.value \ w.saved)]

\* lose_document_lease reloads the file, whether or not there is a copy.
Lose(w) ==
    LET lost == [w EXCEPT !.lease_epoch = 0, !.uploaded = 0, !.shown_draft = 0]
        kept == IF w.uploaded # w.generation THEN Preserve(lost) ELSE lost
    IN IF ~IsDirty(w) THEN lost ELSE [kept EXCEPT !.reloads = @ + 1]

\* Another Client holds the lease.  Edits typed before the window knew have no lease to lose.
Watch(w) ==
    LET watching == IF w.lease_epoch # 0 THEN Lose(w)
                    ELSE [w EXCEPT !.exposed = @ \cup (w.value \ w.saved)]
    IN IF w.host.revision = 0 THEN [watching EXCEPT !.shown_draft = 0, !.held = TRUE]
       ELSE IF watching.shown_draft # w.host.revision THEN Spawn(watching, "show")
       ELSE watching

Tracked(w) ==
    IF w.host.holder = Nobody THEN [w EXCEPT !.held = FALSE, !.lease_epoch = 0, !.uploaded = 0]
    ELSE IF w.lease_epoch # w.host.epoch
    THEN [w EXCEPT !.held = FALSE, !.lease_epoch = w.host.epoch, !.uploaded = 0]
    ELSE [w EXCEPT !.held = FALSE]

\* A draft of a lease the window did not track, or of no lease
Recoverable(w) ==
    /\ ~IsDirty(w) /\ w.host.revision # 0
    /\ IF w.host.holder = Nobody THEN w.shown_draft # w.host.revision
                                 ELSE w.lease_epoch # w.host.epoch

\* document_draft refuses a text of more than MAX_DRAFT_CONTENT_BYTES.
TooLarge(text) == text \cap left.large # {}

\* The document is this Client's, or nobody's.
Edit(w) ==
    LET t == Tracked(w)
    IN CASE Recoverable(w) -> Spawn(t, "recover")
         [] IsDirty(w) /\ t.lease_epoch = 0 -> Spawn(t, "acquire")
         [] IsDirty(w) /\ t.lease_epoch # 0 /\ t.uploaded # t.generation ->
              IF TooLarge(t.value) THEN [t EXCEPT !.error = TRUE] ELSE Spawn(t, "upload")
         [] ~Recoverable(w) /\ ~IsDirty(w) /\ t.lease_epoch # 0 -> Spawn(t, "release")
         [] OTHER -> t

Reconcile(c, w) ==
    IF ~Connected(w) \/ w.step.at # "none" THEN w
    ELSE IF w.host.holder \in {Nobody, c} THEN Edit(w) ELSE Watch(w)

-----------------------------------------------------------------------------
(* apply_document_outcome                                                  *)

\* Mutant: the text of the window, and not the one that was sent, counts as stored.
AnsweredLatest(c, w, s) ==
    LET mine == s.answer.holder = c
    IN [w EXCEPT !.host = s.answer,
                 !.lease_epoch = IF mine THEN s.answer.epoch
                                 ELSE IF s.answer.holder = Nobody /\ ~IsDirty(w) THEN 0 ELSE @,
                 !.uploaded = IF s.uploaded # 0 THEN w.generation
                              ELSE IF w.lease_epoch # s.answer.epoch THEN 0 ELSE @,
                 !.held = @ /\ ~mine]

\* The Host's answer
Answered(c, w, s) ==
    LET mine == s.answer.holder = c
        known == [w EXCEPT
            !.host = s.answer,
            !.lease_epoch = IF mine THEN s.answer.epoch ELSE @,
            !.uploaded = IF s.uploaded # 0 THEN s.uploaded
                         ELSE IF mine /\ w.lease_epoch # s.answer.epoch THEN 0 ELSE @,
            !.held = @ /\ ~mine]
    IN IF s.answer.holder = Nobody /\ ~IsDirty(w)
       THEN [known EXCEPT !.lease_epoch = 0, !.uploaded = 0] ELSE known

\* History: the text was replaced.  A save under way goes on to make what it writes the saved
\* text and the fingerprint, so that the next save finds no conflict with it.
Replaced(w) ==
    IF w.save.at \in {"none", "failed", "reloading", "stuck"} THEN w
    ELSE [w EXCEPT !.exposed = @ \cup (w.save.text \ w.value)]

\* restore_recovered_draft for one's own lease, set_held_elsewhere for another's
Fetched(w, d) ==
    IF d.revision = 0 THEN w
    ELSE IF w.lease_epoch = 0 THEN [w EXCEPT !.shown_draft = d.revision, !.held = TRUE]
    ELSE LET generation == IF w.generation > d.revision THEN w.generation ELSE d.revision
         IN Replaced([w EXCEPT
                !.shown_draft = d.revision, !.value = d.text, !.generation = generation,
                !.external_dirty = TRUE, !.save = IF @.at = "stuck" THEN NoSave ELSE @,
                !.uploaded = IF generation = d.revision THEN generation ELSE 0])

StepDone(c) ==
    LET w == client[c]
        s == w.step
        resting == [w EXCEPT !.step = NoStep, !.error = FALSE]
        answered == IF s.kind = "show" THEN resting ELSE Answered(c, resting, s)
        restored == s.fetched.revision # 0 /\ answered.lease_epoch # 0
    IN /\ s.at = "done"
       /\ Show(c, Reconcile(c, Fetched(answered, s.fetched)))
       /\ continues' = IF restored /\ s.fetched = draft THEN continues \cup {c} ELSE continues
       /\ given_up' = IF restored THEN given_up \cup (w.fingerprint \ s.fetched.text) ELSE given_up
       /\ UNCHANGED <<hostVars, news, typed, overwritten, left>>

StepFails(c) ==
    /\ client[c].step.at = "failed"
    /\ Show(c, [client[c] EXCEPT !.step = NoStep, !.error = TRUE])
    /\ UNCHANGED <<hostVars, news, historyVars, left>>

-----------------------------------------------------------------------------
(* The Host's side of a step (crates/yttt-host/src/workspace/documents.rs). *)

Subscribed(c) == client[c].link \in {"answered", "opened"}

\* Mutant: states that were not sent pile up.
NotifyAppends(state) ==
    news' = [c \in Clients |-> IF Subscribed(c) THEN Append(news[c], state) ELSE news[c]]

\* notify_document: a state that was not sent yet is replaced; at most left.news are on their way.
Notify(state) ==
    \E sent \in SUBSET {c \in Clients : Len(news[c]) \in 1..left.news-1} :
        news' = [c \in Clients |->
                    IF ~Subscribed(c) THEN news[c]
                    ELSE IF news[c] = <<>> \/ c \in sent THEN Append(news[c], state)
                    ELSE Append(Front(news[c]), state)]

Answer(c, at, state) ==
    Show(c, [client[c] EXCEPT !.step.at = at, !.step.answer = state])

HoldsLeaseOf(c, epoch) == lease = [holder |-> c, epoch |-> epoch]
HoldsLease(c) == HoldsLeaseOf(c, client[c].step.epoch)

AcquireDocument(c) ==
    LET s == client[c].step
        granted == lease.holder = Nobody \/ (lease.holder # c /\ s.kind = "takeover")
        wants_draft == s.kind \in {"takeover", "recover"} /\ lease'.holder = c /\ draft # NoDraft
    IN /\ s.at = "acquire"
       /\ IF granted
          THEN /\ lease' = [holder |-> c, epoch |-> next_epoch]
               /\ next_epoch' = next_epoch + 1
               /\ Notify(State(lease', draft))
          ELSE UNCHANGED <<lease, next_epoch, news>>
       /\ Answer(c, IF wants_draft THEN "get" ELSE "done", State(lease', draft))
       /\ UNCHANGED <<draft, disk, historyVars, left>>

\* What of the stored draft goes with it when c, whose editor does not continue from it, puts text
Overwritten(c, text) == IF c \in continues THEN {} ELSE draft.text \ text

\* Conflict makes the task ask who has the lease.
PutDocumentDraft(c) ==
    LET s == client[c].step
    IN /\ s.at = "put"
       /\ IF HoldsLease(c)
          THEN /\ draft' = [revision |-> s.generation, text |-> s.text]
               /\ Show(c, [client[c] EXCEPT !.step.at = "done", !.step.uploaded = s.generation,
                                            !.step.answer = State(lease, draft')])
               /\ Notify(State(lease, draft'))
               /\ overwritten' = overwritten \cup Overwritten(c, s.text)
               /\ continues' = {c}
          ELSE /\ Show(c, [client[c] EXCEPT !.step.at = "acquire"])
               /\ UNCHANGED <<draft, news, overwritten, continues>>
       /\ UNCHANGED <<lease, next_epoch, disk, typed, given_up, left>>

ReleaseDocument(c) ==
    /\ client[c].step.at = "release"
    /\ IF HoldsLease(c)
       THEN /\ lease' = NoLease /\ draft' = NoDraft
            /\ overwritten' = overwritten \cup Overwritten(c, {})
            /\ continues' = {}
            /\ Notify(Unknown)
       ELSE UNCHANGED <<lease, draft, news, continues, overwritten>>
    /\ Answer(c, "done", State(lease', draft'))
    /\ UNCHANGED <<next_epoch, disk, typed, given_up, left>>

GetDocumentDraft(c) ==
    /\ client[c].step.at = "get"
    /\ Show(c, IF draft = NoDraft THEN [client[c] EXCEPT !.step.at = "failed"]
               ELSE [client[c] EXCEPT !.step.at = "done", !.step.fetched = draft])
    /\ UNCHANGED <<hostVars, news, historyVars, left>>

\* release_client_documents, when the session of a Client that is away expires
Expire(c) ==
    /\ ~Connected(client[c]) /\ lease.holder = c
    /\ lease' = NoLease
    /\ Notify(State(NoLease, draft))
    /\ UNCHANGED <<next_epoch, draft, disk, client, historyVars, left>>

-----------------------------------------------------------------------------
(* The user.                                                               *)

\* Something is under way that replaces or hides the text of the window.
Replaces(w) == w.reloads > 0 \/ w.save.at = "reloading" \/ w.step.kind \in {"takeover", "recover", "show"}

\* Another Client's text, and any text without a connection, is shown read-only; a question is modal.
Editable(w) == Connected(w) /\ ~w.held /\ w.window # "closed" /\ w.save.at # "asking"

Type(c) ==
    LET w == client[c]
        edit == typed + 1
        edited == [w EXCEPT !.value = @ \cup {edit}, !.generation = @ + 1]
    IN /\ Spend("edits") /\ Editable(w)
       /\ typed' = edit
       /\ Show(c, IF Replaces(w) \/ w.window = "closing"
                  THEN [edited EXCEPT !.exposed = @ \cup {edit}] ELSE edited)
       /\ UNCHANGED <<hostVars, news, given_up, continues, overwritten>>

Undo(c) ==
    LET w == client[c]
    IN /\ Spend("undos") /\ Editable(w) /\ w.value # w.saved
       /\ Show(c, [w EXCEPT !.value = w.saved, !.generation = @ + 1])
       /\ given_up' = given_up \cup (w.value \ w.saved)
       /\ UNCHANGED <<hostVars, news, typed, continues, overwritten>>

TakeOver(c) ==
    /\ Spend("takeovers") /\ Connected(client[c]) /\ client[c].held
    /\ client[c].step.at = "none" /\ client[c].window # "closed"
    /\ Show(c, Spawn(client[c], "takeover"))
    /\ UNCHANGED <<hostVars, news, historyVars>>

-----------------------------------------------------------------------------
(* Saving and reloading the file.                                          *)

\* save_document, by the user or autosave; one save request at a time
Save(c) ==
    LET w == client[c]
    IN /\ Spend("saves") /\ Connected(w) /\ w.window \in {"open", "close_requested"}
       /\ w.save.at = "none"
       /\ Show(c, [w EXCEPT !.save = [at |-> "check", generation |-> w.generation,
                                      text |-> w.value, expected |-> w.fingerprint]])
       /\ UNCHANGED <<hostVars, news, historyVars>>

\* save_project_file, with SaveMode::Check or Force, which overwrites what it finds, whatever
\* the user was asked about.
SaveFile(c) ==
    LET s == client[c].save
    IN /\ s.at \in {"check", "force"}
       /\ IF s.at = "check" /\ disk # s.expected
          THEN /\ Show(c, [client[c] EXCEPT !.save.at = "conflict"])
               /\ UNCHANGED disk
          ELSE /\ disk' = s.text
               /\ Show(c, [client[c] EXCEPT
                        !.save.at = "saved",
                        !.exposed = IF s.at = "force" THEN @ \cup (disk \ s.text) ELSE @])
       /\ UNCHANGED <<lease, next_epoch, draft, news, historyVars, left>>

\* apply_project_file_save_result
SaveDone(c) ==
    LET w == client[c]
        s == w.save
    IN /\ \/ /\ s.at = "saved"
             /\ Show(c, [w EXCEPT !.saved = s.text, !.fingerprint = s.text, !.save = NoSave,
                                  !.external_dirty = @ /\ s.generation # w.generation])
          \/ /\ s.at = "conflict" /\ IsDirty(w)
             /\ Show(c, [w EXCEPT !.save.at = "asking"])
          \/ /\ s.at = "conflict" /\ ~IsDirty(w)
             /\ Show(c, [w EXCEPT !.save = NoSave, !.reloads = @ + 1])
          \/ /\ s.at = "failed"
             /\ Show(c, [w EXCEPT !.save = NoSave])
       /\ UNCHANGED <<hostVars, news, historyVars, left>>

\* The answers to the question: Overwrite (nothing is saved when the window may not), Reload
\* and Cancel
AnswerConflict(c) ==
    LET w == client[c]
        may_save == Connected(w) /\ w.window \in {"open", "close_requested"}
    IN /\ w.save.at = "asking"
       /\ \/ /\ Show(c, [w EXCEPT !.save.at = IF may_save THEN "force" ELSE "stuck"])
             /\ given_up' = given_up \cup (disk \ w.save.text)
          \/ /\ Show(c, [w EXCEPT !.save.at = "reloading"])
             /\ given_up' = given_up \cup w.value
          \/ /\ Show(c, [w EXCEPT !.save = NoSave])
             /\ UNCHANGED given_up
       /\ UNCHANGED <<hostVars, news, typed, continues, overwritten, left>>

\* replace_from_disk, which also ends the question
FromDisk(w) ==
    Replaced([w EXCEPT !.value = disk, !.saved = disk, !.fingerprint = disk,
                       !.external_dirty = FALSE, !.generation = @ + 1,
                       !.save = IF @.at \in {"asking", "stuck"} THEN NoSave ELSE @])

\* spawn_project_file_reload; the file is read as it is when it is shown.  The reload of a
\* lost lease does not ask whether the lease came back.
ReloadDone(c) ==
    LET w == [client[c] EXCEPT !.exposed = IF lease.holder = c THEN @ \cup client[c].value ELSE @]
    IN /\ \/ w.reloads > 0 /\ Show(c, [FromDisk(w) EXCEPT !.reloads = @ - 1])
          \/ w.save.at = "reloading" /\ Show(c, [FromDisk(w) EXCEPT !.save = NoSave])
       /\ continues' = continues \ {c}
       /\ UNCHANGED <<hostVars, news, typed, given_up, overwritten, left>>

-----------------------------------------------------------------------------
(* The tick, events, and the connection.                                   *)

\* finish_close_when_synced
FinishClose(w) ==
    IF w.window # "close_requested" THEN w
    ELSE IF w.error THEN [w EXCEPT !.window = "open"]
    ELSE IF ~Unsynced(w) THEN [w EXCEPT !.window = "closing"]
    ELSE w

\* Mutant: only events reconcile the document.
TickUnsynced(c) ==
    /\ client[c].window \in {"open", "close_requested"}
    /\ \/ client[c].link = "up" /\ Show(c, [client[c] EXCEPT !.link = "asked"])
       \/ client[c].link = "opened" /\ Show(c, FinishClose(client[c]))
    /\ UNCHANGED <<hostVars, news, historyVars, left>>

\* tick_workspace_persistence
Tick(c) ==
    LET w == client[c]
    IN /\ w.window \in {"open", "close_requested"}
       /\ \/ /\ w.link = "up"
             /\ Show(c, [w EXCEPT !.link = "asked"])
          \/ /\ w.link = "opened"
             /\ Show(c, FinishClose(Reconcile(c, w)))
       /\ UNCHANGED <<hostVars, news, historyVars, left>>

\* A change from the document listener
Deliver(c) ==
    /\ news[c] # <<>>
    /\ Show(c, Reconcile(c, [client[c] EXCEPT !.host = Head(news[c])]))
    /\ news' = [news EXCEPT ![c] = Tail(@)]
    /\ UNCHANGED <<hostVars, historyVars, left>>

\* The Host opens the workspace for a connection and subscribes it.
Open(c) ==
    /\ client[c].link = "asked"
    /\ Show(c, [client[c] EXCEPT !.link = "answered", !.opening = State(lease, draft)])
    /\ UNCHANGED <<hostVars, news, historyVars, left>>

\* show_opened_workspace
ShowOpened(c) ==
    LET w == client[c]
    IN /\ w.link = "answered" /\ w.window # "closing"
       /\ Show(c, Reconcile(c, [w EXCEPT !.link = "opened", !.host = w.opening,
                                         !.opening = Unknown]))
       /\ UNCHANGED <<hostVars, news, historyVars, left>>

\* Requests fail; answers that arrived are lost with the connection or not.
Drop(c) ==
    LET w == client[c]
    IN /\ Spend("drops") /\ Connected(w)
       /\ \E lost \in BOOLEAN :
             Show(c, [w EXCEPT
                 !.link = "down", !.opening = Unknown,
                 !.step.at = IF @ = "none" \/ (@ = "done" /\ ~lost) THEN @ ELSE "failed",
                 !.save.at = IF @ \in {"check", "force"} \/ (@ \in {"saved", "conflict"} /\ lost)
                             THEN "failed"
                             ELSE IF @ = "reloading" /\ lost THEN "asking" ELSE @,
                 !.reloads = IF lost THEN 0 ELSE @])
       /\ news' = [news EXCEPT ![c] = <<>>]
       /\ UNCHANGED <<hostVars, historyVars>>

\* The Device store takes copies, or does not: it has no directory or no space left, or has
\* a copy with the name of the next.
DeviceChanges(c) ==
    /\ Spend("faults") /\ client[c].window # "closed"
    /\ Show(c, [client[c] EXCEPT !.writable = ~@])
    /\ UNCHANGED <<hostVars, news, historyVars>>

Reconnect(c) ==
    /\ client[c].link = "down" /\ client[c].window # "closed"
    /\ Show(c, [client[c] EXCEPT !.link = "up"])
    /\ UNCHANGED <<hostVars, news, historyVars, left>>

\* flush_workspace_persistence_on_close
RequestClose(c) ==
    LET w == client[c]
    IN /\ Spend("closes") /\ Connected(w) /\ w.window = "open"
       /\ Show(c, FinishClose(Reconcile(c, [w EXCEPT !.window = "close_requested"])))
       /\ UNCHANGED <<hostVars, news, historyVars>>

\* close_host_workspace: the Host is told, then the window goes; without a connection it stays.
CloseWindow(c) ==
    /\ client[c].window = "closing"
    /\ IF Connected(client[c])
       THEN /\ Show(c, [Opened EXCEPT !.window = "closed", !.link = "down",
                                      !.copied = client[c].copied, !.exposed = client[c].exposed])
            /\ news' = [news EXCEPT ![c] = <<>>]
            /\ continues' = continues \ {c}
       ELSE /\ Show(c, [client[c] EXCEPT !.window = "open"])
            /\ UNCHANGED <<news, continues>>
    /\ UNCHANGED <<hostVars, typed, given_up, overwritten, left>>

-----------------------------------------------------------------------------
ServeStep(c) == AcquireDocument(c) \/ PutDocumentDraft(c) \/ ReleaseDocument(c) \/ GetDocumentDraft(c)
ApplyStep(c) == StepDone(c) \/ StepFails(c)
HandleFile(c) == SaveFile(c) \/ SaveDone(c) \/ ReloadDone(c)
OpenAgain(c) == Open(c) \/ ShowOpened(c)
User(c) == \/ Type(c) \/ Undo(c) \/ TakeOver(c) \/ Save(c) \/ AnswerConflict(c)
           \/ RequestClose(c)

Next == \E c \in Clients :
    \/ ServeStep(c) \/ ApplyStep(c) \/ HandleFile(c) \/ OpenAgain(c)
    \/ User(c) \/ Tick(c) \/ Deliver(c) \/ CloseWindow(c)
    \/ Expire(c) \/ Drop(c) \/ Reconnect(c) \/ DeviceChanges(c)

Spec == Init /\ [][Next]_vars

\* Tasks run, the Host answers, and the tick is a timer.  What users, networks and files do,
\* and events, need not come.
Fairness == \A c \in Clients :
    /\ WF_vars(ServeStep(c) \/ ApplyStep(c))
    /\ WF_vars(Tick(c) \/ OpenAgain(c) \/ CloseWindow(c))

FairSpec == Spec /\ Fairness

-----------------------------------------------------------------------------
(* Properties.                                                             *)

\* Types; steps and saves are where they can be, and no more events are on their way than
\* the bound says, as newer states replace those that were not sent (notify_document).
TypeOK ==
    /\ lease \in [holder : Clients \cup {Nobody}, epoch : 0..next_epoch-1]
    /\ draft \in [revision : Nat, text : SUBSET (1..typed)]
    /\ disk \subseteq 1..typed
    /\ given_up \cup overwritten \subseteq 1..typed
    /\ continues \subseteq Clients
    /\ \A c \in Clients : LET w == client[c] IN
        /\ w.value \cup w.saved \cup w.fingerprint \cup w.copied \cup w.exposed \subseteq 1..typed
        /\ {w.generation, w.lease_epoch, w.uploaded, w.shown_draft, w.reloads} \subseteq Nat
        /\ {w.held, w.error, w.external_dirty, w.writable} \subseteq BOOLEAN
        /\ w.window \in {"open", "close_requested", "closing", "closed"}
        /\ w.link \in {"down", "up", "asked", "answered", "opened"}
        /\ w.step.at \in {"none", "acquire", "put", "release", "get", "done", "failed"}
        /\ w.save.at \in {"none", "check", "force", "saved", "conflict", "failed", "asking",
                          "reloading", "stuck"}
        /\ (w.step.kind = "none") = (w.step.at = "none")
        /\ Len(news[c]) <= left.news

Kept(e) ==
    \/ e \in disk \cup draft.text
    \/ \E c \in Clients : e \in client[c].value \cup client[c].copied

Exposed == UNION {client[c].exposed : c \in Clients}

\* Whatever is typed is in the file, the draft, a window's editor or a Device copy until it
\* is given up by a user: no takeover, lost lease, lost connection, save, close or late
\* answer loses it.  Named exceptions, which the code allows: what was typed while something
\* was under way that replaces or hides the text or closes the window, or before the window
\* knew that another Client holds the lease; what a window shows but the Host does not store
\* when it loses the lease and no Device copy can be written, which an error message says, and
\* the reload replaces; what is replaced by the reload of a lost lease that ends when the lease
\* is back, or by any text while a save of it is under way; what was saved after the user was
\* asked whether to overwrite the file; and drafts overwritten by others (DraftsReachNextEditor).
EditsKept == \A e \in (1..typed) \ (given_up \cup overwritten \cup Exposed) : Kept(e)

\* A window that believes its text stored, and therefore may close without asking or drop
\* the text when it loses the lease, is right as long as it holds the lease: the draft is
\* the text it shows.
UploadedIsStored ==
    \A c \in Clients : LET w == client[c] IN
        (w.uploaded # 0 /\ w.uploaded = w.generation /\ HoldsLeaseOf(c, w.lease_epoch))
            => draft.text = w.value

\* A window that stays connected and knows of no other holder gets its edits to the Host,
\* however its requests cross events, lost leases, saves and reloads.  (One that knows of a
\* holder may stay editable, and its edits in it: an answer older than an event hides that
\* the draft it showed is of a Client that still edits.  A text too large for a draft stays.)
EditsReachHost ==
    \A c \in Clients : []<>(\/ ~Connected(client[c]) \/ ~Unsynced(client[c])
                            \/ TooLarge(client[c].value)
                            \/ client[c].host.holder \notin {Nobody, c})

\* What the comment on release_client_documents says of a Client whose session ended: its
\* drafts stay for the next Client that edits the documents.  No draft is replaced or deleted
\* by a Client that did not continue from it, other races apart.
DraftsReachNextEditor == \A e \in overwritten \ (given_up \cup Exposed) : Kept(e)

=============================================================================
