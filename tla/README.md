# A formal model of the yttt Host

yttt is a desktop terminal and agent workbench whose terminals, workspaces and SSH connections
live in a *Host* process.  Desktops and paired devices are *Clients* of a Host over sessions that
may drop and come back.  This directory holds TLA+ modules that model the parts of the Host and of
its Clients where threads, connections, files and restarts interleave, the TLC configurations that
check them, and proofs of their main properties for the TLA+ proof system.

Paths below are relative to `crates/yttt-host/src/` of the repository unless they say otherwise.

## 1. Inventory

| Part (source) | State | Operations | Interacts with | Modelled by |
| --- | --- | --- | --- | --- |
| Terminal control (`runtime.rs`) | leases, next lease epoch, controller and its epoch, remembered writers, present and suspended Clients, attachments | claim, take, acquire, release, suspend, resume, release of a Client, removal of terminals | called by connections, grace timers, pane runtime; tells Clients by two broadcasts | `TerminalControl` |
| Session connections (`lib.rs`) | binding of each Client (connection, generation, slot), attachments, request journals | bind, replace, serve, end, prune | lock order: sessions, then runtime; grace timer per connection | `TerminalControl` |
| Lease events and input (`lib.rs`, `src/ui/terminal/pane.rs`) | attachment's mode and epochs; the Desktop pane's lease, pending grant and geometry | forward and resynchronise events, attach, reclaim, take, resize, check input | terminal control, client core | `PaneControl` |
| Workspace documents (`workspace.rs`, `workspace/documents.rs`, `workspace_objects.rs`, `workspace_backups.rs`) | records in memory, document leases, record files, backups, draft bodies | acquire, upload, release, layout intents, register, forget, expiry, start-up and recovery | one state lock; file system | `WorkspaceDocuments`, `DraftStore` |
| Lifecycle (`lifecycle.rs`, lifecycle and owner connections in `lib.rs`) | mode, pending admissions, owners, stop signal | admit, StopIfIdle, BeginDrain, ForceStop, the task `run` | asks terminals, projects, SSH; ends all processes | `HostLifecycle` |
| Pane runtime (`pane_runtime.rs`) | launched panes with session epochs, behind the layout's process states | ensure, launch, exit, close, restart, discard, rescan | workspace layout, runtime, terminals | `PaneRuntime`; exits of a stopping Host in `HostLifecycle` |
| Terminal data (`terminal.rs`, `terminal_data.rs`) | screen, metadata, captures, streams with a pending frame each | capture, publish, snapshot, delta, exit | transport's render lanes, client mirror | `TerminalStream` |
| Transport (`crates/yttt-transport/src/session.rs`) | queues of a connection: interactive, reliable, render lanes | send, replace, select, write, close | all sessions | `SessionWriter` |
| Client core (`crates/yttt-client-core`) | mirror of each terminal, subscriptions, pending requests | apply, resynchronise, reconnect, resubscribe | Host | the mirror in `TerminalStream`, requests of a pane in `PaneControl` |
| Document editing on the Desktop (`src/ui/workbench/persistence/documents.rs`, `persistence.rs`, `document_lifecycle.rs`, `src/ui/editor/document.rs`) | editor text and what it was saved as, what the Host said of lease and draft, upload under way, saves and reloads | reconcile, acquire, upload, release, take over, recover, save, reload, reconnect, close | Host's leases, drafts and project files; other Clients through events | `DocumentEditing` |
| Core (`crates/yttt-core`) | layout of a workspace | intents, claims of panes | Host and desktop | process states of panes, in `PaneRuntime` |
| Requests (`lib.rs`) | request journal per Client, start attempts | replay, conflict, spawn with a start ID | runtime | not modelled, see section 6 |
| Projects (`project.rs`) | registered roots, views, revisions | register, close, sync with workspaces, file operations | lifecycle | as blockers, in `HostLifecycle` |
| SSH (`ssh_runtime.rs`) | statuses, reconnect plans, challenges | connect, disconnect, reconnect | `yttt-ssh`, lifecycle | as blockers, in `HostLifecycle` |
| Agents, remote access, Host services, adapters, control plane, the rest of the user interface | | | | not modelled, see section 6 |

Where it is hard, and what makes each part correct:

* **Terminal control.**  One logical operation spans several critical sections: the terminals
  are listed before the control lock is taken; `release_client` yields leases, drops the lock,
  detaches, and locks again to pass control; a grace timer looks at the sessions under one lock
  and releases under another.  Correct: at most one Client may write; epochs order what Clients
  hear; nobody who left keeps the terminals; a reconnection within the grace period loses nothing.
* **Session connections.**  A new connection of a session replaces the old one, which is still
  being torn down.  Correct: one connection serves a Client, and the new one gets its turn.
* **Lease events.**  A decision reaches a Client in answers and in events, whose handlers nobody
  orders; the forwarder may subscribe late or lag.  Correct: the Host checks input against what it
  decided, and a pane that has heard everything agrees with it.
* **Workspace documents.**  Each request makes up to three writes (body, record, collection of old
  bodies) that may fail, and the Host may stop in between.  Bodies are shared by digest.  Correct: what is
  served is what is stored; no record names a body that is gone; a draft changes only by
  its lease holder.
* **Lifecycle.**  `run` looks at the mode, the admissions and the resources at different times
  and waits on a `Notify` that keeps no permit.  Correct: no drain ends a Host with work left, no wake-up is
  missed, a Host told to stop stops, and what it kills on the way out is not recorded as exited.
* **Pane runtime.**  The layout, the map `launched`, the map of terminals and the process each have a
  lock; requests, exits and restarts are blocking jobs that run at once.  Correct: a pane has one
  process, none is left untold to end when its pane goes, and the layout ends up saying what runs.
* **Document editing on the Desktop.**  The window asks the Host in tasks and applies the result later, when the user
  has typed on, another Client took over, an event came first or the connection went.  Correct: nothing typed is lost
  unless a user gave it up; a text that counts as stored is stored; edits reach the Host.
* **Terminal data.**  Any thread may capture a screen, in three sections; a stream holds one frame
  and merges what it cannot send; frames and reliable messages take different queues.
  Correct: the mirror never shows a mixture, and catches up.
* **Transport.**  No queue waits for space.  Correct: budgets are counted truly, lanes take turns,
  an exit comes after the last frame.

`PROJECT.json` lists the hazards at their lines with the properties that cover them, or why none does.

## 2. Modules

| Module | What it is |
| --- | --- |
| `TerminalControl` | Detailed model of leases, controller, bindings and grace timers |
| `TerminalControlProofs` | Its theorems |
| `MCTerminalControl` | Clients, connections and symmetries for TLC |
| `DraftStore` | Abstract specification of documents, drafts and leases |
| `WorkspaceDocuments` | Detailed model with files, faults and restarts |
| `WorkspaceDocumentsProofs` | Its theorems, and the refinement |
| `MCWorkspaceDocuments` | Symmetry for TLC |
| `HostLifecycle` | Detailed model of when the Host stops; checked directly |
| `HostLifecycleProofs` | Its theorems |
| `PaneRuntime`, `MCPaneRuntime` | How panes are started, followed and restarted; its bound for TLC |
| `PaneRuntimeProofs` | Its theorems |
| `DocumentEditing`, `MCDocumentEditing` | How several Clients edit one document; its scenarios for TLC |
| `DocumentEditingProofs` | Its types, that what counts as stored is stored, and that nothing typed is lost |
| `SessionWriter` | Queues of a connection as operators on one record, and their invariants |
| `TerminalStream`, `MCTerminalStream` | From the screen to the mirror, over `SessionWriter`; its scenarios for TLC |
| `TerminalStreamProofs` | Theorems about it and about `SessionWriter` in its runs: types, turns, frames without a gap |
| `MirrorProofs` | That the Client's mirror shows the rows of its sequence, and the final screen before the exit |
| `PaneControl`, `MCPaneControl` | What one Client hears of its lease; its scenarios for TLC |
| `PaneControlProofs` | Its theorems |

They compose where the parts do: `TerminalStream` extends `SessionWriter` and sends through it;
`WorkspaceDocuments` implements `DraftStore`; `PaneControl` takes over from `TerminalControl`
what a lease decision is and follows it to the pane.

### TerminalControl

Each action is one critical section, or one read that precedes it.  A request of a served
connection `k` is read by `BeginAcquire`, `BeginObserve`, `BeginSpawn`, `BeginTake` or
`BeginDetach`, which also fix `known`, the result of `terminal_ids()`; it goes on with the
sections `ClaimControl`, `StartTerminal`, `AcquireLease`, `TakeControl`, `RegisterAttachment`,
`ReleaseControl` and `ReleaseAttachment`, one request at a time per connection as in
`serve_session_connection`.  Connections go from `new` through `bound` (holding a generation,
waiting for the slot) and `serving` to `closed` (`Bind`, `Serve`, `GiveUp`, `Suspend`); a timer goes
from `sleeping` through `releasing` and `yielded` to `done` (`CheckGrace`, `ReleaseLeases`,
`PassControl`).  `Prune` drops idle bindings, `StartPane`, `ForgetTerminal` and `ReapExits`
change the terminals on behalf of the Host.

What the code keeps in a map that lacks a key is `NoLease`, `NoBinding` or `Nobody` here.  The
order in which a `HashSet` of terminals is granted is an injection of epochs.  `idle` is the order
of `last_disconnected`.  Two durations matter: a binding idle for `CLIENT_SESSION_RETENTION` (five
minutes) has no grace timer (one minute) still sleeping: `Settled`.  `Suspend` joins
`suspend_client` with the drop of the guards, unless a request holds them up: a binding made between the two behaves as one made
before them, since the new connection waits for the slot.

A request runs in a task (`lib.rs:1261-1278`) that a dropped connection aborts without waiting for it, and an aborted task ends
only where it waits.  So a request that has its locks goes on after `Suspend`, one that was about to take them may (`Begun`, which
`Interrupt` may also put there for a request nobody has seen yet, and which `Read` continues or `Abandon` ends), and all of them
compete with the grace timer.  Requests that use the attachments hold the lock that the end of the connection waits for
(`attachments.lock().await.clear()`, `lib.rs:1049`): the connection is `ending` until they have ended (`Leave`, `End`), with its
slot and binding.  `TakeTerminalController` does not use them (`LockFree`), and may go on when its connection is gone.  After the lock no request
waits for anything but other locks, so it takes less than a minute unless its thread is held up: `overdue` are the connections whose last request
nevertheless outlasts a grace timer, at most `MaxOverdue` of them.  Epochs drawn for Observers are left
out: they are never compared and only leave gaps.

### PaneControl

One terminal and the pane of one Client, `Me`; of the others, `Rival`, only what they make the Host
do.  `control` repeats the lease decisions of `TerminalControl` for it (`Granted`, `Yielded`,
`Handed`, `Claimed`), `Leave`, `YieldLeases` and `HandOver` are the sections of `release_client`.
Requests are handled under the lock of the attachments, one step each (`HandleCheckpoint`,
`HandleAcquire`, `HandleAttach`, `HandleTake`, `HandleResize`); the forwarder is `Subscribe`,
`ForwardEvent` and, after `LoseEvents`, `ResyncLeases`; the pane is `Attach`, `FinishAttach`,
`FinishReclaim`, `FinishGrant`, `HearGrant`, `HearRevocation`, `HearReady`, `ResizeView`,
`HearResized` and `TakeControl`.  Answers and events are applied by tasks of their own, so any answered
call may be applied before any event.  `AcceptsInput` is the Host's check of the pane's next input.

`races` is history: the orders in which the code's way of applying the last thing heard goes
wrong, each entered by the action in which it happens (section 4).  `turn` counts decisions.

### WorkspaceDocuments

The state lock is held from a request's checks to its answer, so `task` holds the one request in
progress and its next write: `body` (`WorkspaceObjects::put`), `record` (backup and the rename of
`atomic_write`), `sync` (the directory sync after it, and what follows success), `objects`
(the removal of bodies and backups by `forget_workspace`).  Each write can be refused (`WriteBody`,
`WriteRecord`); with `"sync"` in `Faults` the directory sync may fail after its rename took
effect; with `"corrupt"` a record may be damaged while the Host is down; `faulted` is history and
says that one of the two happened.  `Stop` may come at any
point.  `Start`, `SetAside` and `Restore` are `WorkspaceService::new` and
`WorkspaceBackups::recover`.  A body stands for its digest and has size one, so `MaxBodies` is the
draft quota; documents may share a body.  A Client uploads under any lease that was ever
granted (`Granted`), as one with an old epoch may.

`restore_on_startup`, names, Agent states and the history copies are left out; `Forget` may
therefore happen to any record, where the code asks that it be closed first.

`DraftStore` promises that a draft changes only by the holder of the document's lease, goes only with its
document or its discard, and changes at once.  The refinement reads `open` and `drafts` from the record *on
disk*, so an upload happens at the rename and a stop is a step that ends leases only.

### HostLifecycle

`Terminals`, `Projects` and `Links` (SSH connections) are created under a `ResourceAdmission`
(`Admit`, `Create`, `Admitted`), `Panes` without one (`LaunchPane`).  `Listed` is what
`collect_blockers` finds.  A link is listed by a later status event (`ListLink`).  Removals that
are announced are `Release`, those that are not are `Vanish` and `RecordExit`.  `StopIfIdle` is two actions: `AskIdle` reads
projects and SSH connections, `StopIfIdle` locks the state.  `run` is `Arm`, `ReadState`, `Look`, `Decide` or
`Terminate`, then `Wake` or `Timeout`.  `Notify` delivers a notification that is `owed`
by whoever changed something: `permit` is cleared by `Arm`, which creates the waiter, so a
notification while there is no waiter is lost.  A Host that is not `DesktopOwned` has `Owners = {}`.
`MaxRequested` bounds the resources that Clients ask for.

### PaneRuntime

`layout`, `launched`, `terminals` and `process` are the four records that say what a pane runs.  A
blocking job (a request's, or the one of an exit) goes through `ensure` (`Claim`, `Ensure`) and, for
one claimed pane after another, `Look`, `Adopt` or `Register`, `Prepare`, `Start`, `Insert` and
`Subscribe`, or `LaunchFails`, `AlreadyExists` and `RecordRefused`; `NotedNext` is the recording of the launched
epoch.  An exit is `ProcessExits`, `Tell` (the broadcast) or, after a lag, `Rescan`, then `Match` (under
the lock of `launched`), and without it `Record`, `CloseForExit` or `Discard`, and `WakeUp` after
`AUTO_RESTART_DELAY`.  `WriteFails` is a refused write of the record.  Requests are `CreatePane`, `ClosePane`,
`RestartPane`, `OpenWorkspace` and `TerminateTerminal`.  `Terminate` is `HostedTerminal::terminate`: it marks the terminal as stopped, and the
process ends, or goes on as `stopped` because the signal failed; no later call tries again.  Two histories: `overtaken`, panes that were
closed, created or restarted while another job was about to start them or handled an exit, and
`missed`, panes whose start or exit was lost for good.  An exit has one job at a time: the next begins when the one
before it has ended.

### DocumentEditing

One document and the windows of its Clients.  A window is one thread, so its handlers are atomic; what it asks
of the Host runs beside it.  `run_document_step` is the record `step`, moved by `AcquireDocument`, `PutDocumentDraft`,
`ReleaseDocument` and `GetDocumentDraft`; `StepDone` and `StepFails` are `apply_document_outcome`, after which, as after
`Tick`, `Deliver` and `ShowOpened`, `Reconcile` (`reconcile_document`) decides what the window asks next.  The user types,
undoes, takes over, saves and closes (`Type`, `Undo`, `TakeOver`, `Save`, `AnswerConflict`, `RequestClose`);
`SaveFile`, `SaveDone` and `ReloadDone` are the saves and reloads of the file, with its conflicts; `Open`, `Drop` and
`Reconnect` are the connection, `Expire` the end of a Client's session at the Host, `CloseWindow` the end of a window.
`Notify` is the Host's listener, which replaces a state that was not sent.

A text is the set of the edits it shows: `typed` numbers them, and the properties ask which of them are still
somewhere.  Histories: `given_up` (edits a user took back or was asked about), `continues` (the Clients whose editor shows
the stored draft), `overwritten` (edits of a draft replaced by a Client that did not continue from it) and, in each
window, `exposed` (edits exposed to a race, section 4, or to a copy that failed).  A Device copy fails while the window
is not `writable`, which `DeviceChanges` toggles; a text with an edit in `large` is above `MAX_DRAFT_CONTENT_BYTES` and not uploaded (`TooLarge`).  The Host is the one of `WorkspaceDocuments` without its files: a request is one step.

### SessionWriter and TerminalStream

The writer's state is one record; `PushInteractive`, `PushReliable`, `PushLatest`, `OpenLane`, `DropLane`, `Enqueue` and
`Select`, `Finish` are sections under its lock, `TakeFrame`, `WriteFrame` and `CloseWriter` its task.  An item's
bytes are its frames.

A capture has three sections: whoever makes it reads the metadata first (`PublisherDecides`, `SetTitle`, `ExitState`, and
`LookAtStale` for a capture that was skipped), then comes the screen (`Capture`), then the broadcast (`Publish`);
a scrolled viewport is read with metadata of its own (`ReadContext`).  A viewport is its sequence number, one value for all metadata, and the sequence whose live rows it
shows: this tells a right screen from one with rows of two captures (`Garbled`), which is all
the properties need.  `Apply` and `Merged` are `apply_stream_update_ref` and `merge_terminal_updates`;
`StartFrame` and `Push` those of `PendingTerminalFrame`.  A `TerminalStream` takes events, view
changes and ticks (`ReceiveEvent`, `ReceiveView`, `Tick`) and sends when its lane is drained
(`StreamSends`).  The Client delivers frames, requests snapshots after a gap, disconnects and
resubscribes.  `mishaps` is history, as `races` is.

## 3. Runs

| Run | Module | Instance | Result |
| --- | --- | --- | --- |
| `TerminalTakeover` | `MCTerminalControl` | 2 Clients with a connection each, 2 terminals, 2 requests, one of which may outlast a timer | `OneWriter`, `LeaseEpochsNeverReturn`, `ControllerChangesAreCounted`, `ControlGoesToConnected` hold; 1.8 million states |
| `TerminalReconnect` | `MCTerminalControl` | 2 Clients, one may reconnect once, 1 terminal, 1 request, two idle bindings kept, fairness | `OneServedConnection`, `ServedConnectionIsBound`, `DepartedClientReleases`, `WaitingConnectionProceeds` hold |
| `TerminalGrace` | `MCTerminalControl` | the same with one idle binding kept | `GraceSparesConnected` is violated |
| `PaneControl` | `MCPaneControl` | 2 Clients, 2 sizes, 3 requests under way, 5 scenarios | `TypeOK`, `AttachmentFollowsLease`, `QuietPaneAgrees` hold; 4.6 million states |
| `DocumentStorage` | `MCWorkspaceDocuments` | 2 Clients, 2 documents, 3 bodies, 2 grants, all faults | `DraftsReadable`, `RecordReadable`, `ServesWhatIsStored`, `ImplementsDraftStore` hold |
| `DocumentLostBody` | `MCWorkspaceDocuments` | failing syncs | `RecordNamesBodies` is violated |
| `DocumentEditing` | `MCDocumentEditing` | 2 Clients, 11 scenarios, fairness | `TypeOK`, `EditsKept`, `UploadedIsStored`, `EditsReachHost` hold; 324 thousand states |
| `DocumentHandoff` | `MCDocumentEditing` | 2 Clients, 2 edits, 1 lost connection | `DraftsReachNextEditor` is violated |
| `HostStop` | `HostLifecycle` | a project, an SSH connection, a pane, an owner, an asker, fairness | `PanesSurviveStop`, `DrainLosesNothing`, `ForcedHostStops`, `OwnerlessHostStops`, `NoWakeUpIsLost` hold |
| `HostIdleStop` | `HostLifecycle` | a terminal, a project, an asker | `IdleStopEndsNothing` is violated |
| `PaneLaunch` | `MCPaneRuntime` | 1 pane, 2 requests at a time, 2 processes, 1 lag, fairness | `TypeOK`, `OneProcess`, `NoOrphan`, `ExitWillMatch`, `ExitsAreTrue`, `PaneSettles`, `PaneRestarts` hold |
| `SessionDelivery` | `MCTerminalStream` | 2 lanes, small queues, 12 scenarios, fairness | `TypeOK`, `BytesCounted`, `LanesTakeTurns`, `NoGap`, `RowsMatch`, `ExitIsLast`, `ViewCatchesUp`, `TitleIsSeen`, `ExitIsSeen` hold |

The types of `TerminalControl`, `WorkspaceDocuments` and `HostLifecycle`, and that an upload has its lease until
its last write (`WritesUnderItsLease`), are proved and no run repeats them.

### Bounds

* **Terminal control.**  Two Clients and two terminals are what the properties of control relate; a lease can be granted,
  moved and lost again within two requests while a connection drops and its timer runs: the second one may be one that
  outlives its connection.  `MaxOverdue` is one in `TerminalTakeover`, where the search goes on
  beside an overdue request only while a terminal is unused (`LateBesideOne`), and zero elsewhere.  The epochs and the writer
  rule for any number of requests are theorems.
  `RememberedWriters` is the number of Clients in every instance, so no writer is forgotten.
* **Reconnection.**  One reconnection shows a connection with its predecessor, its timer and the prune, as
  long as a binding is pruned only when it has settled: two idle bindings are kept, as many as
  there are Clients.  It does not show a pruned binding with a *third* connection of its Client: see
  section 4.  What holds for any number of connections is a theorem, with that limit as its hypothesis.
* **Panes.**  All properties speak of one pane at a time.  Two requests at a time meet each other, the
  jobs of two exits, the listener and `ensure_all`; two processes are one and the one that replaces it.
  `Followed` stops following a pane that was overtaken once its jobs have ended, as no property
  speaks of it any more.
* **Terminal data.**  Two lanes are a stream and its successor.  The queues hold two or three items, so each is full
  within a scenario; the channel holds two, so a stream falls behind.  A scenario (`MCTerminalStream`)
  says how often each thing may happen at most; in between everything interleaves.  Together
  they bring every two kinds of event together that meet in the code.  `cut` (an exit that reaches a
  stream being dropped) needs more than any scenario has and is not reached.
* **Pane control.**  Scenarios again: turns of the Rival, resizes, lost connections, lagging broadcasts, up to three
  together.  Two sizes tell a right one from a wrong one.
* **Documents.**  Two documents may share a body or not; the third body is for a replacement while both others
  are in use, and reaches `MaxBodies`.  Two grants are a lease and the lease that replaces it.
* **Document editing.**  A scenario (`Scenarios`) is a budget of what users, networks and the Device's storage do; the rest interleaves.  Each meets
  one hazard: two edits and a takeover; an edit, a takeover and a closing window; an edit, a lost connection and an undo, or a
  closing window; a save that fails with its connection; two edits and two saves that conflict; events of which two are
  on their way, with an edit, an undo and a closing window, or with two edits; an edit, a takeover and a copy that may fail; a
  text too large for a draft, with a takeover, or with a closing window.  Two Clients are all a handover needs.  Larger
  ones (two edits with a lost connection; an edit, a takeover and a lost connection; two edits and a takeover with a closing
  window or a save) keep the safety properties too, but take longer than a run should.
* **Lifecycle.**  One resource of each kind suffices where resources do not relate to each other.  A
  terminal is admitted as a project is and exits as a pane does, and is in `HostIdleStop` only.  `MaxRequested` is one in
  `HostStop`: one admission is what a decision may overlook; two in `HostIdleStop`, where a second resource
  comes while the first one goes.
* Deadlock is not checked where the system may really stop, because all connections, processes or scenarios are used up:
  terminal control, panes, terminal data, pane control, document editing.  It is checked for documents and lifecycle.

Symmetry is used only in runs without liveness properties: `Interchangeable` swaps the two Clients
with their connections and permutes terminals.
The documents, bodies and Clients of the document runs are interchangeable.

### Fairness

* `TerminalControl`: each connection task and its timer are scheduled (weak fairness of
  `ConnectionStep`, `RequestStep`, and of the end of a connection that was told it is replaced).
  tokio runs ready tasks and fires elapsed timers.  No Client is ever obliged to connect, drop
  or ask, and terminals need not start or end.  A request that runs ends, whether its connection does or not.
* `HostLifecycle`: the task `run`, a thread about to call `notify_waiters`, and one about to
  act on the last owner's departure are scheduled.  `Timeout` is strongly fair: the deadline is
  absolute, so each wait after it has passed is ended by it unless a notification comes first, and
  `tokio::select!` polls its branches in random order.  No request, exit or connection is due.
* `PaneRuntime`: blocking jobs run, the restart timer fires, events are delivered, and a lag that was
  noticed is followed by its rescan; a process that survived its termination need not end.  `EnsureAll` is strongly fair only because the model runs it on a
  worker, which the code does not need.  No process need exit, no Client ask.
* `TerminalStream`: every thread of the terminal, the writer with the Client's reading, reconnection,
  and each branch of a stream's `select!`; the tick is strongly fair, as branches are polled in random order and a
  tick that is due stays due.  Output, titles, exits and views are never due.
* `DocumentEditing`: the tasks of a window's step and the Host answer, the window applies what they bring, and its
  timer ticks, which reconciles the document, opens the workspace again after a reconnection and ends a closing window.  Events,
  users, saves and reconnections are never due.
* `PaneControl` and `WorkspaceDocuments` are checked for safety only.

## 4. What the violations and the exemptions show

Four runs show the code against what the repository says of it:

1. **A grace timer can release a Client that reconnected** (`TerminalGrace`).  When more bindings
   are idle than `MAX_IDLE_CLIENT_SESSIONS`, the oldest is pruned although its timer sleeps.  A
   reconnection creates a binding whose generation is 1 again; the old timer, started by a
   connection of generation 1, finds its own generation and releases the Client.
2. **A failed directory sync loses a draft and the next start** (`DocumentLostBody`).
   The record was replaced, `put_document_draft` believes it was not and collects the new body.
3. **A draft whose Client's session ended is overwritten by the next editor** (`DocumentHandoff`).
   It is recovered only into an editor that is clean (`documents.rs:348-389` of the Desktop); a Client that typed before it heard
   that the lease is free acquires it for its own edits and uploads them over the draft, or releases the lease, which
   deletes it.  The first Client, whose text counted as uploaded, kept no Device copy.
4. **StopIfIdle can end a Host with a new project** (`HostIdleStop`).  The lists of projects and
   SSH connections are read before `stop_if_idle` locks the state; what was admitted,
   registered and finished in between is in neither the lists nor the count of admissions.

Three more were met while modelling, and have no run:

* **Control that was lost can be regained without taking it.**  A Client that becomes controller by succession is
  not remembered as a writer; nor does asking for a lease while in control remember it (`runtime.rs:540`); so once it loses
  control, its next ordinary request counts as its first and takes control back, which the comment at
  `runtime.rs:320-322` excludes.
* **A restored backup may keep the Host from starting.**  The backup names bodies that were collected after it was
  replaced; `WorkspaceObjects::recover` then fails the start.  `HostStarts` of `WorkspaceDocuments` says that it starts, and
  TLC refutes it with `Faults = {"corrupt"}`.
* **Two connections can serve one Client**, from the same cause as 1, if a Client has three or more
connections while over-limit pruning happens.  a1 is bound and waits, a2 replaces it and gets the slot
first (the mutex is not granted in the order of binding), ends, and its idle binding is pruned; a3 binds as
generation 1 in a new slot and is served; a1 gives up and, finding its own generation 1, clears a3's binding
(`SessionConnectionGuard`, `lib.rs:857-872`), which is pruned in turn; a4 binds in a third slot and is
served beside a3.  The comment at `lib.rs:993` says a replaced connection finishes first.  TLC finds it with
four connections of one Client and `MaxIdleSessions = 0`.  `OneServedWhileFewIdle` proves that pruning of
live bindings is the only way to it.

The properties of the last four models exempt named races, each recorded by the history variable
when it happens.  They are what the code allows today, and not claims of correctness:

| Model | Race | What happens |
| --- | --- | --- |
| `PaneRuntime` | `overtaken` | A pane closed between its claim and the insertion of its terminal leaves a process without pane; two launches of a pane whose identity was used again may both start; a handler that left the lock of `launched` records, closes or discards the pane's next process, which docs/host-client-architecture.md 7.5 excludes |
| | `missed` | The process exited before the runtime subscribed, or the listener lagged until the terminal was forgotten, or the layout could not be written: the pane stays as it was |
| `TerminalStream` | `older` | `push` takes a snapshot over a newer pending frame, so the baseline falls behind the mirror (`terminal_data.rs:98` says it never does) |
| | `outdated` | A capture that read its metadata before the exit follows the final one (`terminal.rs:757`) |
| | `dropped`, `behind` | A title is lost with a frame dropped by hiding, or set while the history is read |
| | `early`, `overlap` | A stream is started before the Client knows of the terminal; one that was aborted and is not at an `await` yet sends its frame or the snapshot it is in beside its successor (`lib.rs:1477`) |
| | `unfinished`, `missed`, `cut` | A stream opens between the exit and its capture (`terminal_data.rs:410`), falls behind after it, or is dropped with the event |
| `DocumentEditing` | `exposed` | What is typed while a takeover, a recovery, a fetch or a reload is under way that replaces or hides the text, while the window closes, or before it knows that another Client holds the lease; what the reload of a lost lease replaces when the lease is back meanwhile; what a forced save finds in the file beside what the user was asked about; what a draft or the file replaces while a save of it is under way, which `finish_save` takes for what the window shows; and, no race, what a window shows beyond the file when it loses the lease and its Device copy cannot be written (`documents.rs:642`), for the reload at `documents.rs:625` replaces it |
| | `overwritten` | Finding 3 |
| `PaneControl` | `unheard` | The lease is decided before the forwarder subscribes (`lib.rs:1843`) |
| | `silent` | The lease is granted again between the two sections of `release_client`, whose late event then demotes the attachment |
| | `untold` | After a lag only modes are compared (`lib.rs:2045`), so an epoch is missed |
| | `crossed` | An older answer is applied after a newer event or answer: writable without the lease, or read-only with it |
| | `unready` | `Ready` is skipped while attaching and no reclaim follows |
| | `misjudged` | The pane of the holder takes over a checkpoint that is older than the terminal's geometry, or verifies its grant without one; over when it adopts a right one |
| | `unsized`, `shadowed` | The size of the catalog is old; a rejected resize hides a newer one (`pane.rs:318`), or the view is resized while disconnected, beside an older size that is still pending (`pane.rs:903`) |

No property of `DocumentEditing` says that a window which heard everything agrees with the Host: an answer applied after a
newer event leaves it read-only although nobody holds the lease, which `documents.rs:11-12` excludes, and a draft with the
`shown_draft` revision leaves it editable while another Client holds the lease.  `EditsReachHost` exempts a window that knows of
another holder for this reason.

## 5. Proofs

All theorems hold for every value of the constants that satisfies the module's named assumption
(`ControlAssumption`, `DocumentsAssumption`, `LifecycleAssumption`, `EditingAssumption`, `WriterAssumption`, `StreamAssumption`, and
`PaneAssumption`, as both `PaneRuntime` and `PaneControl` call theirs).  TLC evaluates these assumptions in the runs.

**TerminalControlProofs.**  `TypeCorrect` is inductive by itself.  `ControlStep` says that any step
of any module-level action treats leases and controller in one of five ways: leaves
them, hands control over, grants the controller a lease, takes leases back, or leaves nobody
in control.  `OneWriter` is inductive over these five: a hand-over moves every lease that has a holder, also
those of terminals its caller did not know.  `ControllerChangesCounted` follows from
the same lemma.  `EpochsNeverReturn` needs that leases held are older than the next epoch and
differ from each other (`EpochsUsed`).

`OneServedWhileFewIdle` and `ServedWhileBound` rest on `BindingNames`: every connection that is not closed
is named by its Client's binding or was replaced, shares the binding's slot, and its generation is no newer than the binding's
and equal to it only if the binding names it.  It is inductive only under `FewIdle` (no more idle bindings
than `MaxIdleSessions`), the hypothesis of both theorems, for then only settled bindings are pruned.
`ControlGoesToServed` says that control goes to a Client that a connection serves, or whose last request outlived its connection and whose
timer is still to release it, unless that request took longer than the timer.  It rests on two invariants: those in `present` are served, once
each (`PresentServed`), and a request in progress is one of a connection that is served, or whose timer sleeps, or that outlasted it
(`RequestsTimed`): `Suspend` starts the timer in the step that ends the service, and `CheckGrace` counts what it leaves behind.

**WorkspaceDocumentsProofs.**  `Readable` adds to the types what a task is about to write
(`Writes`), that its bodies are there once the record is replaced (`Covered`), and that a
Host that is down holds nothing.  It holds with all faults and gives `DraftsReadableAlways`.
`WritesUnderItsLeaseAlways` rests on the state lock: whatever ends a lease waits until there is no task.
`Stored` adds that, until a fault happened, the record on disk is the one in memory, or the one being written, and that
both are valid.  It gives `RecordReadableAlways`, `ServesWhatIsStoredAlways` and, with the leases,
`DocumentsImplementDraftStore`.

**HostLifecycleProofs.**  `DrainLosesNothing` is not inductive: `Decide` acts on what was copied and looked at
earlier.  `Safe` adds `SeenStays` (after a drained mode and no
admission was copied nothing is admitted any more, and after nothing was found nothing
appears) and `ExitsKept` (processes that were killed were live when the Host had left the
running mode, so no handler that looked at the mode before holds them).

**PaneRuntimeProofs.**  The inductive invariant is `TypeOK /\ Wiring /\ PaneInv`.  `Wiring` says that whatever names a process names
one of the right pane: the jobs on the way to it, the entries of `launched`, the map of terminals, the events.  `PaneInv` says of each pane
that was not overtaken that one job at a time starts it, and none while an exit of it is to come or handled (`OneStarter`); what the
launched entry is on the way to a process (`EntryFits`) and while an exit is handled (`HandlerFits`); and that what runs is what the
entry names, with its terminal in the map or about to be, and, once its pane is gone, has its terminal listed and is about to be terminated, or was (`ProcessFits`).  What
`terminate` does to a process, end it or leave it stopped, changes nothing that names it (`Terminates`, `EndKeeps`); a process that
survives is therefore adopted by a pane of the same identity, or its exit is recorded when it comes, but no theorem says it ends.
`OneProcess` alone is not inductive: a second process comes from a second job that was already under way.
Most steps keep `PaneInv` in one of few ways: they end or advance one job (`YieldKeeps`), begin (`BeginKeeps`) or claim
(`ClaimKeeps`).  `ExitsAreTrueAlways` follows since a handler excludes a running process.

**DocumentEditingProofs.**  `UploadedIsStored` is not inductive: answers and events come late, so the invariant says of each window what
the step under way knows (`StepFits`).  While an upload is under way less than the present text counts as stored; the text sent is
the window's if its generation still is; and a done upload or a fetched draft is the Host's draft *if the lease epoch it was done
under is still held*.  `EpochsGranted` (every epoch anyone knows is older than the next one) is why a new lease
makes nobody's old claim true again.  `GoodKept` says what the Host may do beside a window,
`GoodEdited` and `GoodStepped` what a window does to its text and step; `GoodReconcile`, `GoodAnswered` and `GoodFetched` cover
the operators that all handlers share.

`EditsKept` says that an edit is *somewhere*, so it is kept by steps that know where.  The inductive invariant
(`KeptInv`) calls an edit safe if it is in the file, the draft or a Device copy, was given up, or exposed, and says that every other edit is
shown by a window (`AllShown`).  What leaves a window is then safe because of what the window is about to do: while its text is
hidden or about to be replaced, its window is closing, or its text counts as stored (`Losing`), all it shows is safe (`ShowsKept`).
The rest is what later steps need for this: what a step fetched or stored is safe (`StepKept`); a save has nothing that the window does not
show, and what it replaces in the file it has (`SaveKept`); an editor that continues from the draft shows all of it
(`DraftKept`), and what it is about to put it still shows (`PutKept`).  `Safe` only grows, but for what a window takes out of
draft or file, which it shows itself.  What `reconcile_document` and the tick do to a window is one relation (`Follows`), which a window
enters `Losing` by only when its text is saved, copied, stored or exposed; `FineFollows` shows once that it keeps all this.  The proof found two races that
the runs' bounds had hidden, the last two of `exposed` in section 4: without them the invariant is not inductive, and the
handlers in the order of its failing steps lose text.

**PaneControlProofs.**  `AttachmentFollowsLease` speaks of the states in which the forwarder has read everything, and is not
inductive: answers change the attachment while events are still on their way, and any event may be lost.  The inductive
invariant (`Follows`) speaks of all other states too: *the last event that was not read tells what was decided last* (`LastFits`).
With it go that only a forwarder that subscribed has events and only a connection an attachment (`Linked`), and
that a lease that is held has an epoch and Me does not hold it while Rival is in control (`Holding`).  A decision of the
Host either changes nothing that concerns Me or appends the event that tells it (`EventsTell`, `Decided`);
reading keeps the last event last, or makes the attachment what it tells (`ReadKeeps`); losing events keeps the last one or says that
some were lost.  An answer that grants a lease while events wait is the hard case (`AcquireKeeps`): it agrees with them, or is the race
`silent`.  The theorem exempts what the property does: `unheard`, `silent` and, for the epoch, `untold`.  It shows that no other
race is needed: neither overtaken answers, nor reconnections, nor events lost elsewhere put the attachment out of step.

`QuietPaneHoldsLease`, the half of `QuietPaneAgrees` about the lease, speaks of the states in which nothing is under way; its
inductive invariant (`PaneInv`) of what is.  Who holds the lease changes only with a *turn*, which every event and every answer
carries, so both are tidings of the turn they were made in.  `Reaches` says that there is a turn since which *all tidings under way
are true* (`Truthful`), and *the pane has heard of it, or will* (`Covered`): by tidings at least as late, by an answer, a `Ready` or a lag that
is still to come (`Awaited`), or it has, and then holds what is due unless an older answer crossed.  The turn is quantified because no one
counts it: a reconnection begins a new one, a lost event hands over to the `Ready` that replaces it.  With it go that no turn is told
of before it comes (`Counted`), that a pane waits for one attachment and that a grant it verifies has its request (`Asking`), and
that a pane that is attached is attached at the Host too (`Bound`), from which `Follows` makes the epochs agree.  A step that
concerns neither keeps all this by `AsideKeeps`, a decision by `DecisionReaches`, an answer by `AnswerReaches`, what the pane hears by
`HearingReaches`.  The proof found a fault of the model: a request that failed after its answer was made kept the lease epoch of that
answer, which the code drops with it (`pane.rs:747`); `Disconnect` now does too.  

`QuietPaneAgreesAlways` adds the other half, about geometry.  A pane that is quiet has the terminal's geometry, or keeps the size
it could not send; while it is not, a resize is under way, or its answer, or a checkpoint, and any of them may be overtaken.  The
inductive invariant (`GeometryInv`) says of a pane that has its lease and is about to adopt no checkpoint (`Settled`) that *its last
resize under way will be accepted, and has its epoch (`Ahead`), or its epoch is the terminal's and no answer under way
changes this (`There`)*, and that the size of its view is the one that this leads to, or is pending, or will be once a rejection is
answered (`Sized`).  `HandleResize` takes the pane from `Ahead` to `There`.  A checkpoint that is adopted makes a pane `Settled`
again, so the checkpoints under way are no newer than the terminal's geometry (`Known`, `Attaching`).  An older resize cannot be
accepted late, since the pane's epochs are issued in order and those without an answer are later than those with one
(`Numbers`, `InOrder`).  A lease that is granted anew makes no old resize acceptable again (`Epochs`).  A connection that asks
for the stream again is one the pane will hear of (`Resubscribes`), and a view resized meanwhile is what is pending
(`Remembers`, `Awaits`).  The first attempt found this half false in the model of
the time, for more resizes than TLC had looked at: a `reclaim` that is late adopts a checkpoint over the one its grant had verified, whose epoch
the pane's next resize then does not exceed, so that it is rejected and the pane keeps an epoch the Host refuses.  That is
`misjudged` now, whichever event the answer belongs to, until a right checkpoint is adopted; and the run has a scenario for it.

**TerminalStreamProofs.**  `LanesTakeTurns` of `SessionWriter`, in every run of `TerminalStream`.  A lane leaves the turn when it is
passed over, goes to its end when a frame is queued or one of several was taken, stays there when a message that waits for the lane
takes its frames out of turn, and may be dropped while in it.  The lemmas say so for each operator of the writer and any
writer record (`Good`): `PlacedAppend` and `PlacedRest` what happens to the turn, `PopRenderGood` and `NextRenderGood` the choice.
Between passing lanes over and serving one, the lane to be served is out of the turn though it has frames, so `PopRenderGood`
assumes only the others were called (`Called`).  The writer's types go with it: a begun item has frames left while none of it is being
written (`Begins`), or `Finish` would have no case.  A lane is opened only if no turn remembers it (`Free`): in
the code lanes have fresh identities, in the model a lane is reused once it is forgotten.

`BytesCounted` sums over queues.  `BytesOf` is a recursive function, and what it is for every queue follows by induction.  The library's
induction theorems cannot be used here, for they take a formula as a parameter; but a *set* of numbers that has 0 and with each number the next one
has them all (`Induction`, from `LeastNumber`).  With it `SumsExist`, `BytesAreSum` and `SumsAlike` say that `BytesOf` is the running
sum, and `BytesOfAppend`, `BytesOfTail` and `BytesOfReplaced` what the operators of the writer do to it.  `Counted` is `BytesCounted` of
any writer record; `CountedClosed`, `QueueCounted`, `LaneCounted`, `SelectCounted` and `FinishCounted` show that every operator keeps it, and it is
inductive with the types: a lane that is opened must not be the one whose dropped frame is still being written (`Free`).

`TypeOKAlways` is about all of `TerminalStream`: terminal, capturing threads, streams, requests, writer and Client.  Its inductive
invariant (`Types`) adds what the types of the next state need: metadata that a thread has read are the terminal's and what it
captured is a snapshot or a delta (`CaptureTypes`), the process exits once, so its metadata are not marked as exited twice
(`ExitOnce`), a channel has only snapshots, deltas and exits (`StreamTypes`), and the writer is good.

`NoGap` speaks of a gap that was found; its inductive invariant (`Sound`) of everything that is on its way.  `Flow`, over any writer and
streams, says what a lane has queued or is being written (`Sending`, `Sent`) and when: a lane sends one frame at a time (`Fleet`), and
none while its stream makes a snapshot (`Stationed`); a delta, and a frame an exit event waits for, are written
before the frames of other lanes, and those of the stream that serves after them (`Ordered`); the Client knows of the terminal before a
frame of it is written, for the response that tells it is before the frames (`Introduced`).  From these follows the core (`Agrees`):
*a delta on its way is based on what the mirror holds, and what the stream that serves has sent, and no more, is what the mirror
holds or gets last*.  `Ordered` fails after `overlap` only, `Introduced` after `early` only, and `Agrees` after any of the
three, so the rest of `Flow` holds with all faults.  With it go that updates are numbered by captures and a delta is based on an earlier one
(`Numbers`), that what is pending continues the baseline unless an `older` snapshot came (`PendingFits`), and that an attached
Client is acquainted (`Acquainted`).  The proof first shows what each operator of the writer does to what is on its way (`Keeps` and `Carries`
for those that send or take, `OneLane` for those of a lane), then what this means for `Flow` (`FlowCarried`,
`FlowSends`, `FlowDelivers`, `FlowTells`, `FlowStarts`, `FlowStops`, `FlowEnds`, `FlowMoves`), and only then looks at the actions.
The first attempt found `NoGap` false in the model of the time, beyond the bounds TLC had: a stream that is aborted while
it is inside the synchronous `send_snapshot` still queues the snapshot, beside its successor's frames.  That is `overlap`
now too; `RowsMatch` exempts it, and `ExitIsLast` exempts it and `early` where the final screen is concerned.

**MirrorProofs.**  `RowsMatch` looks at the mirror only; its inductive invariant (`Matched`, beside `Sound`) says of everything that
is on its way whether the rows it carries will be right.  What is captured, sent to a stream or pending *shows what it is numbered with*
(`Whole`), but for viewports of the history, which only a Client that already knows of the terminal is sent, or is told first
(`Knowing`, `Scrolls`).  A delta is then right if the mirror it reaches shows the rows of its base, or starts with a viewport that does
(`Fitting`).  `NoGap`'s core gives that the mirror is *at* the base by then, so the rest is about the stream that serves (`Backed`): once
it has sent its baseline as a snapshot (`Settled`), and the baseline follows the live rows, the mirror shows them or gets them with what is
on its way; before that a snapshot is to come, which puts the mirror right whatever it shows.  A delta with rows is sent only by a stream
whose baseline follows the live rows (`PendingRows`), which a scrolled view never does.  The proof first says which messages and frames an
operator of the writer may take (`Hands`), then what that leaves of all this (`RowsCarried` and the lemmas after it), and then looks at the actions.
`early`, which breaks `Introduced` and with it `NoGap`, needs no exemption here: a Client that is not acquainted applies nothing.

`ExitIsLast` compares what the Client was told with its mirror; its inductive invariant (`Concluded`, beside `Sound`) follows the exit
there from the Host.  Nothing speaks of an exit before the process is over (`ExitThread`), and the events of a stream name a capture that was made
(`Departs`).  From the stream to the Client it is `Farewell`, over any writer, streams and mirror, in three parts that need the less the
fewer races there were.  A Client of an open stream has a mirror or gets a snapshot first (`Mirrored`, not after `early`).  *The mirror is as far as any
exit on its way says, or the snapshot that goes before it is* (`Arrives`, not after `early` or `cut`).  And once an exit is on its way or told
(`Departing`), without a race that `ExitIsLast` names (`Orderly`), every frame on its way is final, the mirror is final or the frame the exit waits
for makes it so (`Closing`), and a stream opened from then on goes no further than its first screen, which is final (`Retired`).  The last is what
the answer to "which screens can follow the exit" comes to: a Client that connects again, or a view opened late, starts with metadata that are
read after the exit, and after its own exit event no stream sends.  The proof says what the operators of the writer do to exits (`Parting` those
queued, `LastWords` the one being written, `Bides` that none is taken before its lane's frame), then what that leaves of `Farewell`
(`FarewellCarried`, `FarewellCloses`, `FarewellSends`, `FarewellParts`, `FarewellDelivers`, `FarewellTells`, `FarewellReconnects`), and then looks at the actions.

Only model-checked: liveness (`DepartedClientReleases`, `WaitingConnectionProceeds`,
`ForcedHostStops`, `OwnerlessHostStops`, `NoWakeUpIsLost`, `PaneSettles`, `PaneRestarts`, `ViewCatchesUp`, `TitleIsSeen`,
`ExitIsSeen`, `EditsReachHost`), which the prover cannot do under fairness.

## 6. Not modelled, and what is next

The repository is large, and most of it does not interleave: user interface (`src/ui` but for the terminal pane and
document editing, the web console, `yttt-ui`), emulation and rendering (`yttt-terminal*`), Agent adapters, file formats,
encodings, transports to sockets.  These are sequential code over large data, and best tested.  Of the rest:

* *Request journal and start attempts* (`lib.rs`): the Clients of this repository neither repeat a
  request nor send SpawnTerminal, so the journal is exercised by no one whose behaviour could be modelled from the code.
* *Agent hooks, control and processes*: credentials per terminal epoch; they read what `PaneRuntime` decides.
* *SSH reconnection* (`ssh_runtime.rs`): plans, challenges; only its connections as blockers are modelled.
* *Remote access, Host start by a Desktop, configuration files*: exchanges of two parties each,
  candidates for small models of their own.
* *Control plane and relay*: a database transaction per request.
* Inside document editing: the layout and closed documents, the watcher's reload of a file that changed, Markdown's
  surface, a forced close, autosave timers, a second save of a window while its first is under way, and requests that
  fail on a live connection.
* Inside the other modelled parts: Agent snapshots and commands of panes, input, graphics and
  search of a terminal, views and file operations of projects, schema migration of records.

Runs are few on purpose: each asks one question, and models are joined where their instances allow.

Every safety property that a run expects to hold is stated by a theorem (section 5).  What is worth proving next comes with
the models above: a module for start attempts or for SSH reconnection would bring its own.
