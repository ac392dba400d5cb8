----------------------------- MODULE TerminalStream -----------------------------
(***************************************************************************)
(* How the screen of a terminal reaches a Client: HostedTerminal captures  *)
(* and publishes it (crates/yttt-host/src/terminal.rs), a TerminalStream   *)
(* per attachment merges what it publishes into one frame at a time        *)
(* (terminal_data.rs, TerminalStreams in lib.rs), SessionWriter sends      *)
(* them, and the mirror of the Client applies them                         *)
(* (crates/yttt-client-core/src/mirror.rs, yttt-protocol/src/terminal.rs). *)
(*                                                                         *)
(* The capture of a screen takes three sections: the metadata are read,    *)
(* then the screen is captured under a new sequence number, then the       *)
(* update is broadcast.  Any thread of the terminal may capture.           *)
(*                                                                         *)
(* One terminal and one Client with one connection at a time; of a second  *)
(* Client only whether it renders the terminal.  A viewport is its         *)
(* sequence number, its metadata, and the sequence number whose live rows  *)
(* it shows.  Title, working directory, modes and process state are one    *)
(* value.  A step that only reads the metadata is taken with the step of   *)
(* the same thread before it.  Left out: resizes and graphics (they        *)
(* capture as a title does), a restarted Host, leases (TerminalControl).   *)
(***************************************************************************)
EXTENDS SessionWriter, FiniteSets

CONSTANTS Budgets,          \* bounds of the model, together: how much of what happens
          Capacity          \* SUBSCRIBER_CAPACITY

ASSUME StreamAssumption ==
    /\ Budgets \subseteq [attached : BOOLEAN, prints : Nat, titles : Nat, exits : Nat,
                         views : Nat, others : Nat, scrolls : Nat, requests : Nat, early : Nat,
                         messages : Nat, drops : Nat]
    /\ Capacity \in Nat \ {0}
    /\ Lanes # {}
    /\ Lanes \cap {"publisher", "titles", "exit", "request"} = {}

VARIABLES screen,           \* snapshots.latest_viewport: its sequence and metadata
          metadata,         \* TerminalMetadata
          output,           \* the emulator has output that no capture holds
          requested,        \* capture_requested
          stale,            \* capture_stale
          exited,           \* and stopped
          capture,          \* where each capturing thread is
          subscribers,      \* the subscriber count is not zero
          recount,          \* refresh_terminal_subscriber_count: computed, not yet stored
          attachment,       \* the Client's AttachmentStreamState
          watched,          \* the other Client renders the terminal
          stream,           \* each TerminalStream, by its render lane
          serving,          \* the one in TerminalStreams
          request,          \* the request that attaches the terminal
          client,           \* the Client's side
          left,             \* what is left of the budget
          mishaps           \* history: races that may lose something

terminalVars == <<screen, metadata, output, requested, stale, exited>>
countVars == <<subscribers, recount, watched>>
streamVars == <<stream, serving>>
vars == <<terminalVars, capture, countVars, attachment, streamVars, request, writer, client,
          left, mishaps>>

-----------------------------------------------------------------------------
Titles == {0, 1}
Exited == 2                 \* added to the title once the process has exited
Ended(meta) == meta >= Exited
Same == -1
Scrolled == 0               \* rows of the history
Garbled == -2

\* An update: a snapshot has no base.
Viewport(sequence, meta, rows) ==
    [base |-> 0, sequence |-> sequence, meta |-> meta, rows |-> rows]
IsSnapshot(update) == update.base = 0
IsDelta(update) == update.base > 0

\* No update: nothing pending, a snapshot is required, the stream has a gap, the process exited
Mark(n) == [base |-> n, sequence |-> 0, meta |-> Same, rows |-> Same]
Nothing == Mark(-1)
SnapshotRequired == Mark(-2)
Gap == Mark(-3)
ExitEvent(final) == [Mark(-4) EXCEPT !.sequence = final]
IsExit(event) == event.base = -4

\* Mutant: a delta is applied whatever it is based on.
ApplyAny(mirror, update) ==
    IF IsSnapshot(update) THEN IF update.sequence < mirror.sequence THEN mirror ELSE update
    ELSE IF update.sequence <= mirror.sequence THEN mirror
    ELSE [mirror EXCEPT !.sequence = update.sequence,
                        !.meta = IF update.meta = Same THEN @ ELSE update.meta,
                        !.rows = IF update.rows = Same THEN @
                                 ELSE IF @ = update.base THEN update.rows ELSE Garbled]

\* apply_stream_update_ref; rows that are not those a delta is based on are garbled by it.
Apply(mirror, update) ==
    IF IsSnapshot(update) THEN IF update.sequence < mirror.sequence THEN mirror ELSE update
    ELSE IF update.sequence <= mirror.sequence THEN mirror
    ELSE IF update.base # mirror.sequence THEN Gap
    ELSE [mirror EXCEPT !.sequence = update.sequence,
                        !.meta = IF update.meta = Same THEN @ ELSE update.meta,
                        !.rows = IF update.rows = Same THEN @
                                 ELSE IF @ = update.base THEN update.rows ELSE Garbled]

\* merge_contiguous
Contiguous(delta, next) ==
    [delta EXCEPT !.sequence = next.sequence, !.rows = next.rows,
                  !.meta = IF next.meta = Same THEN @ ELSE next.meta]

\* merge_terminal_updates
Merged(current, next) ==
    CASE IsSnapshot(current) /\ Apply(current, next) # Gap -> Apply(current, next)
      [] IsDelta(current) /\ IsDelta(next) /\ next.base = current.sequence ->
             Contiguous(current, next)
      [] OTHER -> SnapshotRequired

-----------------------------------------------------------------------------
(* SentBaseline and PendingTerminalFrame.                                  *)

Baseline(viewport) == [sequence |-> viewport.sequence, meta |-> viewport.meta,
                       follows_live |-> viewport.rows # Scrolled]

Advance(baseline, update) ==
    IF IsSnapshot(update) THEN Baseline(update)
    ELSE [baseline EXCEPT !.sequence = update.sequence,
                          !.meta = IF update.meta = Same THEN @ ELSE update.meta]

MetadataDiffers(baseline, update) == update.meta \notin {Same, baseline.meta}

MetadataDelta(baseline) ==
    IF screen.sequence <= baseline.sequence \/ screen.meta = baseline.meta THEN Nothing
    ELSE [base |-> baseline.sequence, sequence |-> screen.sequence, meta |-> screen.meta,
          rows |-> Same]

\* Mutant: a delta starts a frame whatever it is based on.
StartFrameAny(baseline, update) ==
    IF update.sequence > baseline.sequence \/ IsSnapshot(update) THEN update ELSE Nothing

\* PendingTerminalFrame::start
StartFrame(baseline, update) ==
    CASE IsSnapshot(update) /\ update.sequence < baseline.sequence -> Nothing
      [] IsSnapshot(update) /\ update.sequence >= baseline.sequence -> update
      [] IsDelta(update) /\ update.sequence <= baseline.sequence -> Nothing
      [] IsDelta(update) /\ update.sequence > baseline.sequence ->
             IF baseline.follows_live /\ update.base = baseline.sequence
             THEN update ELSE SnapshotRequired

\* PendingTerminalFrame::push
Push(pending, baseline, update) ==
    CASE pending = Nothing -> StartFrame(baseline, update)
      [] pending # Nothing /\ IsSnapshot(update) -> update
      [] pending # Nothing /\ IsDelta(update) -> Merged(pending, update)

-----------------------------------------------------------------------------
Threads == {"publisher", "titles", "exit", "request"} \cup Lanes
Resting == [pc |-> "idle", meta |-> Same, update |-> Nothing, next |-> "idle"]

NoStream == [pc |-> "none", events |-> <<>>, lagged |-> FALSE, visible |-> TRUE,
             scrolled |-> FALSE, changed |-> FALSE, revised |-> FALSE,
             baseline |-> Baseline(Viewport(0, Same, Scrolled)), pending |-> Nothing,
             dirty |-> FALSE, detached |-> FALSE, aborted |-> FALSE,
             newest |-> 0]  \* history: the newest update received

NoRequest == [pc |-> "none", kind |-> "none", viewport |-> Nothing]
Detached == [attached |-> FALSE, visible |-> TRUE, scrolled |-> FALSE]

\* The terminal was spawned: its first capture has sequence 1.  The Client does not know of it
\* yet, or is attached and has what its stream opened with.
Init ==
    /\ left \in Budgets
    /\ screen = [sequence |-> 1, meta |-> 0]
    /\ metadata = 0
    /\ output = FALSE /\ requested = FALSE /\ stale = FALSE /\ exited = FALSE
    /\ capture = [t \in Threads |-> Resting]
    /\ recount = [viewer |-> Same, other |-> Same]
    /\ watched = FALSE
    /\ request = NoRequest
    /\ mishaps = {}
    /\ \/ /\ ~left.attached
          /\ subscribers = FALSE
          /\ attachment = Detached
          /\ stream = [l \in Lanes |-> NoStream] /\ serving = NoLane
          /\ writer = NewWriter
          /\ client = [connected |-> TRUE, known |-> FALSE, attached |-> FALSE,
                       mirror |-> Nothing, told |-> 0, gap |-> FALSE]
       \/ LET l == CHOOSE lane \in Lanes : TRUE
              opening == Viewport(1, 0, 1)
          IN /\ left.attached
             /\ subscribers = TRUE
             /\ attachment = [Detached EXCEPT !.attached = TRUE]
             /\ stream = [k \in Lanes |->
                            IF k # l THEN NoStream
                            ELSE [NoStream EXCEPT !.pc = "streaming",
                                                  !.baseline = Baseline(opening)]]
             /\ serving = l
             /\ writer = OpenLane(NewWriter, l)
             /\ client = [connected |-> TRUE, known |-> TRUE, attached |-> TRUE,
                          mirror |-> opening, told |-> 0, gap |-> FALSE]

Spend(what) == left[what] > 0 /\ left' = [left EXCEPT ![what] = @ - 1]
Mishap(what, happens) == mishaps' = IF happens THEN mishaps \cup {what} ELSE mishaps

-----------------------------------------------------------------------------
(* HostedTerminal: what captures it, and the capture.                      *)

clientSide == <<attachment, countVars, request, writer, client>>

\* spawn_reader: the emulator parses output.
ReadOutput ==
    /\ Spend("prints") /\ ~exited
    /\ output' = TRUE /\ requested' = TRUE
    /\ UNCHANGED <<screen, metadata, stale, exited, capture, streamVars, clientSide, mishaps>>

\* spawn_output_publisher
PublisherStarts ==
    /\ requested /\ ~exited
    /\ capture["publisher"].pc = "idle"
    /\ requested' = FALSE
    /\ capture' = [capture EXCEPT !["publisher"].pc = "paced"]
    /\ UNCHANGED <<screen, metadata, output, stale, exited, streamVars, clientSide, left,
                   mishaps>>

\* capture_output_and_publish, after the pause between captures
PublisherDecides ==
    /\ capture["publisher"].pc = "paced"
    /\ stale' = IF exited THEN stale ELSE ~subscribers
    /\ capture' = [capture EXCEPT !["publisher"] =
                      IF exited \/ ~subscribers THEN Resting
                      ELSE [Resting EXCEPT !.pc = "read", !.meta = metadata]]
    /\ UNCHANGED <<screen, metadata, output, requested, exited, streamVars, clientSide, left,
                   mishaps>>

\* Event::Title; the event thread may be behind the exit of the process.
SetTitle ==
    /\ Spend("titles")
    /\ capture["titles"].pc = "idle"
    /\ metadata' = IF metadata % 2 = 0 THEN metadata + 1 ELSE metadata - 1
    /\ capture' = [capture EXCEPT !["titles"] =
                      [Resting EXCEPT !.pc = "read", !.meta = metadata']]
    /\ UNCHANGED <<screen, output, requested, stale, exited, streamVars, clientSide, mishaps>>

\* mark_exited
Exit ==
    /\ Spend("exits") /\ ~exited
    /\ exited' = TRUE
    /\ capture' = [capture EXCEPT !["exit"].pc = "flagged"]
    /\ UNCHANGED <<screen, metadata, output, requested, stale, streamVars, clientSide, mishaps>>

ExitState ==
    /\ capture["exit"].pc = "flagged"
    /\ metadata' = metadata + Exited
    /\ capture' = [capture EXCEPT !["exit"] = [pc |-> "read", meta |-> metadata',
                                              update |-> Nothing, next |-> "published"]]
    /\ UNCHANGED <<screen, output, requested, stale, exited, streamVars, clientSide, left,
                   mishaps>>

\* capture_damage under the lock of the state.  The screen may have changed so that it is a
\* snapshot: another geometry, the alternate screen, a cleared history.
Capture(t) ==
    LET sequence == screen.sequence + 1
        meta == capture[t].meta
        delta == [base |-> screen.sequence, sequence |-> sequence, rows |-> sequence,
                  meta |-> IF meta = screen.meta THEN Same ELSE meta]
    IN /\ capture[t].pc = "read"
       /\ screen' = [sequence |-> sequence, meta |-> meta]
       /\ output' = FALSE
       /\ \E update \in {delta} \cup IF output THEN {Viewport(sequence, meta, sequence)} ELSE {} :
             capture' = [capture EXCEPT ![t].pc = "captured", ![t].update = update]
       /\ Mishap("outdated", meta # metadata)
       /\ UNCHANGED <<metadata, requested, stale, exited, streamVars, clientSide, left>>

\* Mutant: the channel has no limit.
ReceivesAll(s, event) ==
    IF s.pc = "none" THEN s ELSE [s EXCEPT !.events = Append(@, event)]

\* broadcast::Sender::send: a receiver that is behind loses the oldest event.
Receives(s, event) ==
    IF s.pc = "none" THEN s
    ELSE IF Len(s.events) < Capacity THEN [s EXCEPT !.events = Append(@, event)]
    ELSE [s EXCEPT !.events = Append(Tail(@), event), !.lagged = TRUE]

Broadcast(event) ==
    /\ stream' = [l \in Lanes |-> Receives(stream[l], event)]
    /\ Mishap("missed", \E l \in Lanes : /\ stream[l].pc # "none"
                                         /\ Len(stream[l].events) = Capacity
                                         /\ IsExit(Head(stream[l].events)))

Publish(t) ==
    LET update == capture[t].update IN
    /\ capture[t].pc = "captured"
    /\ Broadcast(update)
    /\ capture' = [capture EXCEPT ![t] =
                      IF @.next = "published" THEN [@ EXCEPT !.pc = "published"]
                      ELSE [Resting EXCEPT !.pc = capture[t].next]]
    /\ UNCHANGED <<terminalVars, serving, clientSide, left>>

\* mark_exited, after its capture
TellExit ==
    /\ capture["exit"].pc = "published"
    /\ Broadcast(ExitEvent(capture["exit"].update.sequence))
    /\ capture' = [capture EXCEPT !["exit"] = Resting]
    /\ UNCHANGED <<terminalVars, serving, clientSide, left>>

\* current_viewport: output whose capture was skipped is captured now.
LookAtStale(t) ==
    /\ capture[t].pc = "look"
    /\ stale' = FALSE
    /\ capture' = [capture EXCEPT ![t] =
                      IF stale
                      THEN [Resting EXCEPT !.pc = "read", !.meta = metadata, !.next = "view"]
                      ELSE [Resting EXCEPT !.pc = "view"]]
    /\ UNCHANGED <<screen, metadata, output, requested, exited, streamVars, clientSide, left,
                   mishaps>>

\* A scrolled viewport is read with metadata of its own.
ReadContext(t, scrolled) ==
    /\ capture[t].pc = "view" /\ scrolled
    /\ capture' = [capture EXCEPT ![t].pc = "context", ![t].meta = metadata]
    /\ UNCHANGED <<terminalVars, streamVars, clientSide, left, mishaps>>

CanView(t, scrolled) == capture[t].pc = IF scrolled THEN "context" ELSE "view"
CurrentViewport(t, scrolled) ==
    IF scrolled THEN Viewport(screen.sequence, capture[t].meta, Scrolled)
    ELSE Viewport(screen.sequence, screen.meta, screen.sequence)

-----------------------------------------------------------------------------
(* HostRuntime: attachments, visibility and the subscriber count.          *)

hostSide == <<terminalVars, capture>>

Shown(a) == a.attached /\ a.visible

\* Each section of attachment.send wakes the streams that watch the attachment.
Attachment(a) ==
    /\ attachment' = a
    /\ stream' = [l \in Lanes |->
                    IF stream[l].pc = "none" THEN stream[l]
                    ELSE [stream[l] EXCEPT !.changed = TRUE,
                                           !.revised = @ \/ a.scrolled # attachment.scrolled,
                                           !.detached = @ \/ ~a.attached]]

\* The first half of refresh_terminal_subscriber_count: the attachments are counted.
Count(who) == recount[who] = Same
           /\ recount' = [recount EXCEPT ![who] = IF Shown(attachment') \/ watched' THEN 1 ELSE 0]

\* The other half, set_subscriber_count
StoreCount(who) ==
    /\ recount[who] # Same
    /\ subscribers' = (recount[who] = 1)
    /\ requested' = (requested \/ (~subscribers /\ subscribers'))
    /\ recount' = [recount EXCEPT ![who] = Same]
    /\ UNCHANGED <<screen, metadata, output, stale, exited, capture, attachment, watched,
                   streamVars, request, writer, client, left, mishaps>>

\* set_client_visibility
SetVisible ==
    /\ Spend("views") /\ client.connected
    /\ Attachment([attachment EXCEPT !.visible = ~@])
    /\ UNCHANGED watched
    /\ IF attachment.attached THEN Count("viewer") ELSE UNCHANGED recount
    /\ UNCHANGED <<hostSide, subscribers, serving, request, writer, client, mishaps>>

\* The other Client shows or hides the terminal.
OtherWatches ==
    /\ Spend("others")
    /\ watched' = ~watched
    /\ UNCHANGED attachment
    /\ Count("other")
    /\ UNCHANGED <<hostSide, subscribers, streamVars, request, writer, client, mishaps>>

\* update_attachment_display_offset
ScrollView ==
    /\ Spend("scrolls") /\ client.connected /\ attachment.attached
    /\ Attachment([attachment EXCEPT !.scrolled = ~@])
    /\ UNCHANGED <<hostSide, countVars, serving, request, writer, client, mishaps>>

-----------------------------------------------------------------------------
(* The requests of the connection, and the streams they start.             *)

Free(l) ==
    /\ stream[l].pc = "none"
    /\ ~writer.render[l].open /\ writer.lane # l
    /\ \A i \in DOMAIN writer.render_ready : writer.render_ready[i] # l
    /\ \A i \in DOMAIN writer.reliable : writer.reliable[i].after_lane # l

\* register_attachment, at the end of the requests that attach a terminal
Register(kind, viewport) ==
    /\ Attachment([attachment EXCEPT !.attached = TRUE])
    /\ UNCHANGED watched
    /\ Count("viewer")
    /\ request' = [pc |-> "registered", kind |-> kind, viewport |-> viewport]

\* SpawnTerminal, once the terminal exists
Spawned ==
    /\ Spend("requests") /\ client.connected /\ request.pc = "none" /\ ~client.known
    /\ Register("spawn", Nothing)
    /\ UNCHANGED <<hostSide, subscribers, serving, writer, client, mishaps>>

\* attach_terminal: a Client that controls the terminal sets its palette first.
Attach ==
    /\ Spend("requests") /\ client.connected /\ request.pc = "none"
    /\ request' = [NoRequest EXCEPT !.pc = "viewing", !.kind = "attach"]
    /\ \E first \in {"read", "look"} :
          capture' = [capture EXCEPT !["request"] =
                        [Resting EXCEPT !.pc = first, !.meta = metadata, !.next = "look"]]
    /\ UNCHANGED <<terminalVars, countVars, attachment, streamVars, writer, client, mishaps>>

Attached ==
    /\ request.pc = "viewing"
    /\ CanView("request", attachment.scrolled)
    /\ capture' = [capture EXCEPT !["request"] = Resting]
    /\ Register("attach", CurrentViewport("request", attachment.scrolled))
    /\ UNCHANGED <<terminalVars, subscribers, serving, writer, client, left, mishaps>>

\* DetachTerminal
Detach ==
    /\ Spend("requests") /\ client.connected /\ request.pc = "none" /\ client.attached
    /\ attachment.attached
    /\ Attachment([attachment EXCEPT !.attached = FALSE, !.scrolled = FALSE])
    /\ UNCHANGED watched
    /\ Count("viewer")
    /\ request' = [NoRequest EXCEPT !.pc = "registered", !.kind = "detach"]
    /\ UNCHANGED <<hostSide, subscribers, serving, writer, client, mishaps>>

\* TerminalStream::start, and the end of the stream it replaces: the task may go on for a while.
Start(l, s) ==
    /\ writer' = OpenLane(s, l)
    /\ stream' = [k \in Lanes |->
                    IF k = l THEN [NoStream EXCEPT !.pc = "starting"]
                    ELSE IF k = serving /\ stream[k].pc # "none"
                    THEN [stream[k] EXCEPT !.aborted = TRUE]
                    ELSE stream[k]]
    /\ serving' = l

Stop(s) ==
    /\ writer' = s
    /\ stream' = [k \in Lanes |-> IF k = serving /\ stream[k].pc # "none"
                                  THEN [stream[k] EXCEPT !.aborted = TRUE] ELSE stream[k]]
    /\ serving' = NoLane

\* TerminalStreams::reconcile, of the connection's one terminal
Reconcile(restart, s) ==
    \/ ~attachment.attached /\ Stop(s)
    \/ /\ attachment.attached /\ (restart \/ serving = NoLane)
       /\ \E l \in Lanes : Free(l)
       /\ Start(CHOOSE l \in Lanes : Free(l), s)
    \/ /\ attachment.attached /\ ~restart /\ serving # NoLane
       /\ writer' = s
       /\ UNCHANGED streamVars

Response(r) == [kind |-> "response", of |-> r.kind, update |-> r.viewport]

\* The response is queued, then the stream started.
Answer ==
    LET answered == PushReliable(writer, Item(Response(request), 1)) IN
    /\ request.pc = "registered" /\ recount.viewer = Same /\ ~writer.closed
    /\ request' = NoRequest
    /\ IF answered.closed THEN writer' = answered /\ UNCHANGED streamVars
       ELSE Reconcile(request.kind \in {"spawn", "attach"}, answered)
    /\ UNCHANGED <<hostSide, countVars, attachment, client, left, mishaps>>

\* Another request of the connection ends first, and its reconcile finds this attachment.
ReconcileEarly ==
    /\ Spend("early")
    /\ request.pc = "registered" /\ recount.viewer = Same /\ ~writer.closed
    /\ attachment.attached /\ serving = NoLane
    /\ Reconcile(FALSE, writer)
    /\ Mishap("early", ~client.known)
    /\ UNCHANGED <<hostSide, countVars, attachment, request, client>>

\* Other messages of the connection: Pong, a response in two chunks, a state event.
SendOther ==
    /\ Spend("messages") /\ client.connected
    /\ LET other == [kind |-> "other", of |-> "none", update |-> Nothing] IN
       writer' \in {PushInteractive(writer, Item(other, 1)), PushReliable(writer, Item(other, 2)),
                    PushLatest(writer, Item(other, 1)), PushLatest(writer, Item(other, 2))}
    /\ UNCHANGED <<hostSide, countVars, attachment, streamVars, request, client, mishaps>>

-----------------------------------------------------------------------------
(* stream_terminal.                                                        *)

streamRest == <<subscribers, recount, watched, attachment, serving, request, client, left>>

Becomes(l, s) == stream' = [stream EXCEPT ![l] = s]

\* The task of the stream returns, or is dropped, and the lane with it.
EndStream(l) ==
    /\ Becomes(l, NoStream)
    /\ capture' = [capture EXCEPT ![l] = Resting]
    /\ writer' = DropLane(writer, l)

Live(s) == s.visible /\ ~s.scrolled
Lost(l) == writer.closed \/ ~writer.render[l].open
Snapshots == {"opening", "framing", "ending"}

\* The view is the attachment's, and a snapshot begins.
OpenStream(l) ==
    /\ stream[l].pc = "starting"
    /\ IF stream[l].detached THEN EndStream(l)
       ELSE /\ Becomes(l, [stream[l] EXCEPT !.pc = "opening", !.revised = FALSE,
                                            !.visible = attachment.visible,
                                            !.scrolled = attachment.scrolled])
            /\ capture' = [capture EXCEPT ![l].pc = "look"]
            /\ UNCHANGED writer
    /\ UNCHANGED <<terminalVars, streamRest, mishaps>>

\* The frames of a snapshot are two, of a delta one.
Frame(update) == Item([kind |-> "frame", of |-> "none", update |-> update],
                      IF IsSnapshot(update) THEN 2 ELSE 1)

\* send_snapshot
SendSnapshot(l) ==
    LET s == stream[l]
        viewport == CurrentViewport(l, s.scrolled)
        sent == Enqueue(writer, l, Frame(viewport))
        exit == Item([kind |-> "exit", of |-> "none",
                      update |-> ExitEvent(s.pending.sequence)], 1)
    IN /\ s.pc \in Snapshots /\ CanView(l, s.scrolled)
       /\ IF ~LaneTakes(writer, l, Frame(viewport)) THEN EndStream(l)
          ELSE /\ capture' = [capture EXCEPT ![l] = Resting]
               /\ \/ /\ s.pc = "opening"
                     /\ Becomes(l, [s EXCEPT !.pc = "opened", !.baseline = Baseline(viewport)])
                     /\ writer' = sent
                  \/ /\ s.pc = "framing"
                     /\ Becomes(l, [s EXCEPT !.pc = "streaming", !.baseline = Baseline(viewport),
                                             !.dirty = FALSE])
                     /\ writer' = sent
                  \/ /\ s.pc = "ending"
                     /\ Becomes(l, [s EXCEPT !.pc = "leaving", !.pending = Nothing])
                     /\ writer' = PushReliable(sent, [exit EXCEPT !.after_lane = l])
       /\ mishaps' = mishaps \cup {m \in {"behind", "overlap"} :
                        CASE m = "behind" -> viewport.meta # metadata /\ s.scrolled
                          [] m = "overlap" -> s.aborted /\ ~Lost(l)}
       /\ UNCHANGED <<terminalVars, streamRest>>

\* A terminal that has exited: its viewport is final, and so is the snapshot.
CheckExited(l) ==
    /\ stream[l].pc = "opened"
    /\ Becomes(l, [stream[l] EXCEPT !.pc = IF exited THEN "leaving" ELSE "streaming"])
    /\ Mishap("unfinished", exited /\ ~Ended(stream[l].baseline.meta))
    /\ UNCHANGED <<terminalVars, capture, writer, streamRest>>

\* Mutant: a Client that does not render the terminal misses what it should know of it.
AfterUpdateDeaf(s, update) ==
    IF Live(s) THEN [s EXCEPT !.pending = Push(@, s.baseline, update)] ELSE s

AfterUpdate(s, update) ==
    IF Live(s) THEN [s EXCEPT !.pending = Push(@, s.baseline, update)]
    ELSE [s EXCEPT !.dirty = @ \/ MetadataDiffers(s.baseline, update)]

ReceiveEvent(l) ==
    LET s == stream[l]
        event == Head(s.events)
        rest == [s EXCEPT !.events = Tail(@),
                          !.newest = IF event.sequence > @ THEN event.sequence ELSE @]
    IN /\ s.pc = "streaming"
       /\ \/ /\ s.lagged
             /\ Becomes(l, IF Live(s)
                          THEN [s EXCEPT !.lagged = FALSE, !.pending = SnapshotRequired]
                          ELSE [s EXCEPT !.lagged = FALSE, !.dirty = TRUE])
             /\ UNCHANGED mishaps
          \/ /\ ~s.lagged /\ s.events # <<>> /\ ~IsExit(event)
             /\ Becomes(l, AfterUpdate(rest, event))
             /\ Mishap("older", s.pending # Nothing /\ IsSnapshot(event)
                               /\ \/ event.sequence < s.newest
                                  \/ event.sequence < s.baseline.sequence)
          \/ /\ ~s.lagged /\ s.events # <<>> /\ IsExit(event)
             /\ Becomes(l, [rest EXCEPT !.pc = "draining", !.pending = event])
             /\ UNCHANGED mishaps
       /\ UNCHANGED <<terminalVars, capture, writer, streamRest>>

\* Mutant: a terminal that is shown again waits for its next output.
ViewChangedOnly(s) ==
    [s EXCEPT !.changed = FALSE, !.revised = FALSE,
              !.visible = attachment.visible, !.scrolled = attachment.scrolled,
              !.pending = IF ~attachment.visible THEN Nothing
                          ELSE IF s.revised THEN SnapshotRequired ELSE @]

\* attachment.changed
ViewChanged(s) ==
    [s EXCEPT !.changed = FALSE, !.revised = FALSE,
              !.visible = attachment.visible, !.scrolled = attachment.scrolled,
              !.pending = IF ~attachment.visible THEN Nothing
                          ELSE IF ~s.visible \/ s.revised THEN SnapshotRequired ELSE @]

ReceiveView(l) ==
    LET s == stream[l] IN
    /\ s.pc = "streaming" /\ s.changed
    /\ IF s.detached THEN EndStream(l)
       ELSE Becomes(l, ViewChanged(s)) /\ UNCHANGED <<capture, writer>>
    /\ Mishap("dropped", /\ ~attachment.visible /\ s.pending # Nothing
                        /\ s.baseline.meta # screen.meta)
    /\ UNCHANGED <<terminalVars, streamRest>>

AfterMetadata(s, delta) ==
    [s EXCEPT !.baseline = [Advance(@, delta) EXCEPT !.follows_live = FALSE], !.dirty = FALSE]

\* The frame interval; a lane that is not idle leaves the frame merging.
Tick(l) ==
    LET s == stream[l]
        delta == MetadataDelta(s.baseline)
    IN /\ s.pc = "streaming" /\ (s.pending # Nothing \/ s.dirty) /\ LaneIdle(writer, l)
       /\ \/ /\ s.pending = SnapshotRequired
             /\ Becomes(l, [s EXCEPT !.pc = "framing", !.pending = Nothing])
             /\ capture' = [capture EXCEPT ![l].pc = "look"]
             /\ UNCHANGED writer
          \/ /\ s.pending \notin {Nothing, SnapshotRequired}
             /\ IF ~LaneTakes(writer, l, Frame(s.pending)) THEN EndStream(l)
                ELSE /\ Becomes(l, [s EXCEPT !.baseline = Advance(@, s.pending),
                                             !.pending = Nothing, !.dirty = FALSE])
                     /\ writer' = Enqueue(writer, l, Frame(s.pending))
                     /\ UNCHANGED capture
          \/ /\ s.pending = Nothing /\ delta # Nothing
             /\ IF ~LaneTakes(writer, l, Frame(delta)) THEN EndStream(l)
                ELSE /\ Becomes(l, AfterMetadata(s, delta))
                     /\ writer' = Enqueue(writer, l, Frame(delta))
                     /\ UNCHANGED capture
          \/ /\ s.pending = Nothing /\ delta = Nothing
             /\ Becomes(l, [s EXCEPT !.dirty = FALSE])
             /\ UNCHANGED <<capture, writer>>
       /\ Mishap("overlap", /\ s.aborted /\ ~Lost(l) /\ s.pending # SnapshotRequired
                            /\ s.pending # Nothing \/ delta # Nothing)
       /\ UNCHANGED <<terminalVars, streamRest>>

\* Mutant: the stream of an exited terminal ends without the final screen.
DrainedOnly(l) ==
    /\ LaneIdle(writer, l)
    /\ stream[l].pc \in {"draining", "leaving"}
    /\ EndStream(l)
    /\ UNCHANGED <<terminalVars, streamRest, mishaps>>

\* lane.drain, before the final snapshot and after the exit event
Drained(l) ==
    LET s == stream[l] IN
    /\ LaneIdle(writer, l)
    /\ \/ /\ s.pc = "draining" /\ ~Lost(l)
          /\ Becomes(l, [s EXCEPT !.pc = "ending"])
          /\ capture' = [capture EXCEPT ![l].pc = "look"]
          /\ UNCHANGED writer
       \/ s.pc = "leaving" /\ EndStream(l)
    /\ UNCHANGED <<terminalVars, streamRest, mishaps>>

\* The writer is closed, or the task is dropped where it waits.
Dropped(l) ==
    LET s == stream[l] IN
    /\ \/ s.aborted /\ s.pc \in {"starting", "streaming", "draining", "leaving"}
       \/ Lost(l) /\ s.pc \in {"streaming", "draining", "leaving"}
    /\ EndStream(l)
    /\ Mishap("cut", s.pc = "leaving" /\ ~Lost(l) /\ ~LaneIdle(writer, l))
    /\ UNCHANGED <<terminalVars, streamRest>>

StreamSends(l) ==
    \/ OpenStream(l) \/ LookAtStale(l) \/ ReadContext(l, stream[l].scrolled)
    \/ Capture(l) \/ Publish(l)
    \/ SendSnapshot(l) \/ CheckExited(l) \/ Drained(l) \/ Dropped(l)

-----------------------------------------------------------------------------
(* The Client and its connection.                                          *)

\* seed_terminal_mirror, register_terminal
AfterResponse(c, r) ==
    CASE r.of = "spawn" -> [c EXCEPT !.known = TRUE, !.attached = TRUE]
      [] r.of = "attach" -> [c EXCEPT !.known = TRUE, !.attached = TRUE,
                                      !.mirror = IF @ = Nothing THEN r.update ELSE @]
      [] r.of = "detach" -> [c EXCEPT !.attached = FALSE]
      [] OTHER -> c

\* apply_terminal_update
AfterUpdateFrame(c, update) ==
    LET applied == IF c.mirror # Nothing THEN Apply(c.mirror, update)
                   ELSE IF IsSnapshot(update) THEN update ELSE Gap
    IN IF ~c.known /\ c.mirror = Nothing THEN c
       ELSE IF applied = Gap THEN [c EXCEPT !.gap = TRUE]
       ELSE [c EXCEPT !.mirror = applied]

\* The session task of the Client has a message when its last frame is written.
AfterFrames(c, frame) ==
    CASE ~frame.last \/ frame.msg.kind = "other" -> c
      [] frame.last /\ frame.msg.kind = "response" -> AfterResponse(c, frame.msg)
      [] frame.last /\ frame.msg.kind = "frame" -> AfterUpdateFrame(c, frame.msg.update)
      [] frame.last /\ frame.msg.kind = "exit" -> [c EXCEPT !.told = frame.msg.update.sequence]

\* A frame that is on its way is one that is not written yet.
Deliver ==
    /\ WriteFrame /\ ~client.gap
    /\ client' = AfterFrames(client, Written)
    /\ UNCHANGED <<hostSide, countVars, attachment, streamVars, request, left, mishaps>>

\* suspend_client, when the connection ends on either side
Disconnect ==
    /\ client.connected /\ request.pc # "viewing"
    /\ writer.closed \/ client.gap
    /\ client' = [client EXCEPT !.connected = FALSE]
    /\ writer' = ClosedWriter(writer)
    /\ attachment' = [attachment EXCEPT !.attached = FALSE, !.scrolled = FALSE]
    /\ stream' = [l \in Lanes |-> IF stream[l].pc = "none" THEN stream[l]
                                 ELSE [stream[l] EXCEPT !.changed = TRUE, !.detached = TRUE,
                                                        !.aborted = TRUE]]
    /\ UNCHANGED watched
    /\ Count("viewer")
    /\ serving' = NoLane
    /\ request' = NoRequest
    /\ UNCHANGED <<hostSide, subscribers, left, mishaps>>

\* The next connection: visibility is reported, and attached terminals are subscribed to.
Reconnect ==
    /\ ~client.connected /\ recount.viewer = Same
    /\ client' = [client EXCEPT !.connected = TRUE, !.gap = FALSE]
    /\ writer' = NewWriter
    /\ IF client.attached THEN Register("subscribe", Nothing)
       ELSE UNCHANGED <<attachment, stream, request, recount, watched>>
    /\ UNCHANGED <<hostSide, subscribers, serving, left, mishaps>>

\* The connection is lost.
LoseConnection ==
    /\ Spend("drops")
    /\ client.connected /\ CloseWriter
    /\ UNCHANGED <<hostSide, countVars, attachment, streamVars, request, client, mishaps>>

-----------------------------------------------------------------------------
Take ==
    /\ TakeFrame
    /\ UNCHANGED <<hostSide, countVars, attachment, streamVars, request, client, left, mishaps>>

Captures(t) == Capture(t) \/ Publish(t)

Happens == ReadOutput \/ SetTitle \/ Exit \/ SetVisible \/ OtherWatches \/ ScrollView
           \/ Spawned \/ Attach \/ Detach \/ ReconcileEarly \/ SendOther \/ LoseConnection

Terminal ==
    \/ PublisherStarts \/ PublisherDecides \/ Captures("publisher") \/ Captures("titles")
    \/ ExitState \/ Captures("exit") \/ TellExit

Requests ==
    \/ LookAtStale("request") \/ ReadContext("request", attachment.scrolled)
    \/ Captures("request") \/ Attached \/ Answer

Session == Take \/ Deliver \/ Disconnect \/ Reconnect

StreamStep(l) == StreamSends(l) \/ ReceiveEvent(l) \/ ReceiveView(l) \/ Tick(l)

Next ==
    \/ Happens \/ Terminal \/ Requests \/ Session
    \/ \E who \in {"viewer", "other"} : StoreCount(who)
    \/ \E l \in Lanes : StreamStep(l)

Spec == Init /\ [][Next]_vars

\* Every thread and task goes on; select! is fair to its branches.
FairSpec ==
    /\ Spec
    /\ WF_vars(PublisherStarts \/ PublisherDecides \/ Captures("publisher"))
    /\ WF_vars(Captures("titles"))
    /\ WF_vars(ExitState \/ Captures("exit") \/ TellExit)
    /\ WF_vars(Requests)
    /\ WF_vars(Take \/ Deliver)
    /\ WF_vars(Disconnect \/ Reconnect)
    /\ \A who \in {"viewer", "other"} : WF_vars(StoreCount(who))
    /\ \A l \in Lanes : WF_vars(StreamSends(l)) /\ WF_vars(ReceiveEvent(l))
                       /\ WF_vars(ReceiveView(l)) /\ SF_vars(Tick(l))

-----------------------------------------------------------------------------
Updates == [base : Int, sequence : Nat, meta : -1 .. 3, rows : Int]

Places == {"idle", "paced", "flagged", "look", "read", "captured", "view", "context", "published"}
CaptureStates == [pc : Places, meta : -1 .. 3, update : Updates,
                  next : {"idle", "look", "view", "published"}]

StreamStates ==
    [pc : Snapshots \cup {"none", "starting", "opened", "streaming", "draining", "leaving"},
     events : Seq(Updates), lagged : BOOLEAN, visible : BOOLEAN, scrolled : BOOLEAN,
     changed : BOOLEAN, revised : BOOLEAN,
     baseline : [sequence : Nat, meta : -1 .. 3, follows_live : BOOLEAN], pending : Updates,
     dirty : BOOLEAN, detached : BOOLEAN, aborted : BOOLEAN, newest : Nat]

TypeOK ==
    /\ screen \in [sequence : Nat, meta : 0 .. 3] /\ metadata \in 0 .. 3
    /\ {output, requested, stale, exited, subscribers, watched} \subseteq BOOLEAN
    /\ capture \in [Threads -> CaptureStates]
    /\ recount \in [{"viewer", "other"} -> {Same, 0, 1}]
    /\ attachment \in [attached : BOOLEAN, visible : BOOLEAN, scrolled : BOOLEAN]
    /\ stream \in [Lanes -> StreamStates] /\ \A l \in Lanes : Len(stream[l].events) <= Capacity
    /\ serving \in Lanes \cup {NoLane}
    /\ request \in [pc : {"none", "viewing", "registered"},
                    kind : {"none", "spawn", "attach", "detach", "subscribe"}, viewport : Updates]
    /\ client \in [connected : BOOLEAN, known : BOOLEAN, attached : BOOLEAN, mirror : Updates,
                   told : Nat, gap : BOOLEAN]

\* A Client's mirror finds no gap in what its stream sends ("A gap means the Host broke its
\* stream contract", client-core lib.rs): whatever the terminal and the views do, the frames
\* that reach it apply to what it holds.  Three things the code allows break the contract: a
\* stream that the reconcile of another request starts before the Client knows of the
\* terminal; one that was aborted and, not yet at an await, sends beside its successor; and
\* `push`, which takes a snapshot from the channel over any pending frame, so that the baseline
\* may fall behind the mirror.
NoGap == client.gap => mishaps \cap {"early", "overlap", "older"} # {}

\* No delta is applied to rows that are not the ones it was made from: metadata that a Client
\* gets while it does not render, and views of the history, take the stream off the live rows
\* until the next snapshot.  Only a baseline behind the mirror, or two streams, may mix them.
RowsMatch == client.mirror.rows = Garbled => mishaps \cap {"overlap", "older"} # {}

\* The final screen is there before the event that tells the exit ("The final frame of an
\* exited terminal reaches the client before its TerminalExit event", terminal_data.rs): the
\* event is queued behind the lane.  A capture that read the metadata before the exit may
\* follow the final one, and so may the snapshot of a second stream; a Client that does not
\* know the terminal drops the screen; and a stream that is dropped then takes its frames, not
\* the event.
ExitIsLast ==
    client.told > 0 /\ "cut" \notin mishaps =>
        /\ client.mirror.sequence >= client.told \/ "early" \in mishaps
        /\ Ended(client.mirror.meta) \/ mishaps \cap {"outdated", "overlap", "early"} # {}

Served == client.connected /\ attachment.attached /\ request.pc = "none"

\* What a Client renders catches up with the terminal, however its frames were merged,
\* dropped with a hidden view or missed by a full channel, and with every capture that was
\* skipped for want of viewers.  Not so if a snapshot that is older than what the stream has
\* seen replaced the pending frame, or a subscriber count stored late hides the viewer.
ViewCatchesUp ==
    <>[](Served /\ Live(attachment) /\ subscribers /\ ~exited /\ "older" \notin mishaps)
        => []<>(/\ ~output
                /\ client.mirror = Viewport(screen.sequence, screen.meta, screen.sequence))

\* A Client that shows the terminal nowhere, or shows its history, learns the title.  Lost
\* are the title in a frame that is dropped when the view is hidden, and one set while the
\* history is read.
TitleIsSeen ==
    <>[](Served /\ ~exited /\ mishaps \cap {"dropped", "behind", "older"} = {})
        => []<>(client.mirror.meta \in {screen.meta, metadata})

\* An attached Client learns that the process has exited, from the final screen if not from
\* the event, shown or hidden.  A stream that opens between the exit and its capture ends
\* without either, and one that falls behind by the whole channel after it misses both.
ExitIsSeen ==
    <>[](Served /\ exited /\ mishaps \cap {"outdated", "unfinished", "missed"} = {})
        => []<>Ended(client.mirror.meta)

=============================================================================
