----------------------------- MODULE SessionWriter -----------------------------
(***************************************************************************)
(* The write side of a Session connection                                  *)
(* (crates/yttt-transport/src/session.rs).                                 *)
(*                                                                         *)
(* Three kinds of queues share one stream of bytes: interactive messages,  *)
(* reliable messages, and a render lane per terminal stream.  One task     *)
(* takes frame after frame from them.  A message is one frame, or several  *)
(* chunks; only interactive messages come between the chunks of another.   *)
(* No queue waits for space: one that is full closes the connection, but a *)
(* render lane refuses the frame.                                          *)
(*                                                                         *)
(* Every operator below is one section under the lock of the state, which  *)
(* is the record `writer`.  The bytes of an item are its frames.           *)
(***************************************************************************)
EXTENDS Integers, SequencesExt

CONSTANTS Lanes,            \* the render lanes that may be opened
          NoLane,
          InteractiveItems,
          ReliableItems,
          ReliableBytes,
          LaneBytes         \* RENDER_LANE_BYTES

ASSUME WriterAssumption ==
    /\ NoLane \notin Lanes
    /\ {InteractiveItems, ReliableItems, ReliableBytes, LaneBytes} \subseteq Nat \ {0}

VARIABLE writer

-----------------------------------------------------------------------------
NoItem == [kind |-> "none"]
Item(msg, chunks) == [kind |-> "item", msg |-> msg, left |-> chunks, bytes |-> chunks,
                      after_lane |-> NoLane, latest |-> FALSE]

NoQueue == [open |-> FALSE, items |-> <<>>, bytes |-> 0, ready |-> FALSE]

NewWriter == [closed |-> FALSE,
              interactive |-> <<>>, current_interactive |-> NoItem,
              reliable |-> <<>>, reliable_bytes |-> 0,
              current |-> NoItem,
              lane |-> NoLane,              \* the source of current, if it is a lane
              render |-> [l \in Lanes |-> NoQueue],
              render_ready |-> <<>>,
              slot |-> "none"]              \* whose frame send_frame is writing

\* Shared::close
ClosedWriter(s) ==
    [NewWriter EXCEPT !.closed = TRUE,
                      !.render = [l \in Lanes |-> [s.render[l] EXCEPT !.items = <<>>,
                                                                      !.bytes = 0]]]

-----------------------------------------------------------------------------
(* The queues' producers.                                                  *)

\* An item larger than the budget is let in alone.
Fits(bytes, used, budget) == used = 0 \/ bytes + used <= budget

PushInteractive(s, item) ==
    IF s.closed THEN s
    ELSE IF Len(s.interactive) < InteractiveItems
    THEN [s EXCEPT !.interactive = Append(@, item)]
    ELSE ClosedWriter(s)

\* send_reliable, and send_reliable_after for an item that waits for a lane
PushReliable(s, item) ==
    IF s.closed THEN s
    ELSE IF Len(s.reliable) < ReliableItems /\ Fits(item.bytes, s.reliable_bytes, ReliableBytes)
    THEN [s EXCEPT !.reliable = Append(@, item), !.reliable_bytes = @ + item.bytes]
    ELSE ClosedWriter(s)

WaitingLatest(s) == {i \in DOMAIN s.reliable : s.reliable[i].latest}

\* Mutant: the bytes of the replaced item stay counted.
ReplaceCounted(s, i, item) ==
    [s EXCEPT !.reliable = ReplaceAt(@, i, item), !.reliable_bytes = @ + item.bytes]

ReplaceLatest(s, i, item) ==
    LET others == s.reliable_bytes - s.reliable[i].bytes IN
    IF Fits(item.bytes, others, ReliableBytes)
    THEN [s EXCEPT !.reliable = ReplaceAt(@, i, item), !.reliable_bytes = others + item.bytes]
    ELSE ClosedWriter(s)

\* send_reliable_latest, of one key
PushLatest(s, item) ==
    LET newer == [item EXCEPT !.latest = TRUE] IN
    IF s.closed \/ WaitingLatest(s) = {} THEN PushReliable(s, newer)
    ELSE ReplaceLatest(s, CHOOSE i \in WaitingLatest(s) : TRUE, newer)

OpenLane(s, l) == [s EXCEPT !.render[l] = [NoQueue EXCEPT !.open = TRUE]]

\* RenderLane::drop; the lane may stay in render_ready.
DropLane(s, l) == [s EXCEPT !.render[l] = NoQueue]

\* RenderLane::enqueue_frame
LaneTakes(s, l, item) ==
    /\ ~s.closed
    /\ s.render[l].open
    /\ Fits(item.bytes, s.render[l].bytes, LaneBytes)

Enqueue(s, l, item) ==
    LET queue == s.render[l] IN
    [s EXCEPT !.render[l] = [queue EXCEPT !.items = Append(@, item), !.bytes = @ + item.bytes,
                                          !.ready = TRUE],
              !.render_ready = IF queue.ready THEN @ ELSE Append(@, l)]

\* RenderLane::is_idle, drain
LaneIdle(s, l) == s.render[l].bytes = 0

-----------------------------------------------------------------------------
(* The writer task.                                                        *)

Queued(s, l) == l # NoLane /\ s.render[l].items # <<>>

PopRender(s, l) ==
    LET queue == s.render[l]
        rest == Tail(queue.items)
        again == rest # <<>> /\ ~queue.ready
    IN [s EXCEPT !.current = Head(queue.items), !.lane = l,
                 !.render[l] = [queue EXCEPT !.items = rest, !.ready = @ \/ again],
                 !.render_ready = IF again THEN Append(@, l) ELSE @]

\* Mutant: a lane that was passed over still counts as ready.
UnreadyKept(s, n) == [s EXCEPT !.render_ready = SubSeq(@, n + 1, Len(@))]

\* Lanes are served in turn; those that were dropped or emptied are passed over.
Unready(s, n) ==
    LET passed == {s.render_ready[i] : i \in 1 .. n} IN
    [s EXCEPT !.render_ready = SubSeq(@, n + 1, Len(@)),
              !.render = [l \in Lanes |-> IF l \in passed THEN [@[l] EXCEPT !.ready = FALSE]
                                                          ELSE @[l]]]

NextRender(s) ==
    LET waiting == {i \in DOMAIN s.render_ready : Queued(s, s.render_ready[i])} IN
    IF waiting = {} THEN Unready(s, Len(s.render_ready))
    ELSE LET n == CHOOSE i \in waiting : \A j \in waiting : i <= j
         IN PopRender(Unready(s, n), s.render_ready[n])

\* Mutant: a message does not wait for the lane it names.
NextCurrentAtOnce(s) ==
    IF s.reliable = <<>> THEN NextRender(s)
    ELSE [s EXCEPT !.current = Head(s.reliable), !.lane = NoLane, !.reliable = Tail(@)]

\* Reliable messages go before frames, but one that names a lane after that lane's frames.
NextCurrent(s) ==
    IF s.reliable = <<>> THEN NextRender(s)
    ELSE LET front == Head(s.reliable) IN
         IF Queued(s, front.after_lane) THEN PopRender(s, front.after_lane)
         ELSE [s EXCEPT !.current = front, !.lane = NoLane, !.reliable = Tail(@)]

\* select
Select(s) ==
    IF s.current_interactive # NoItem
    THEN [s EXCEPT !.current_interactive.left = @ - 1, !.slot = "interactive"]
    ELSE IF s.interactive # <<>>
    THEN [s EXCEPT !.current_interactive = [Head(s.interactive) EXCEPT !.left = @ - 1],
                   !.interactive = Tail(@), !.slot = "interactive"]
    ELSE LET chosen == IF s.current = NoItem THEN NextCurrent(s) ELSE s IN
         IF chosen.current = NoItem THEN chosen
         ELSE [chosen EXCEPT !.current.left = @ - 1, !.slot = "current"]

\* finish
Finish(s) ==
    LET item == IF s.slot = "interactive" THEN s.current_interactive ELSE s.current
        written == [s EXCEPT !.slot = "none"]
    IN CASE item.left > 0 -> written
         [] s.slot = "interactive" /\ item.left = 0 ->
                [written EXCEPT !.current_interactive = NoItem]
         [] s.slot = "current" /\ item.left = 0 /\ s.lane = NoLane ->
                [written EXCEPT !.current = NoItem, !.reliable_bytes = @ - item.bytes]
         [] s.slot = "current" /\ item.left = 0 /\ s.lane # NoLane ->
                [written EXCEPT !.current = NoItem, !.lane = NoLane,
                                !.render[s.lane].bytes =
                                    IF s.render[s.lane].open THEN @ - item.bytes ELSE @]

TakeFrame ==
    /\ ~writer.closed
    /\ writer.slot = "none"
    /\ Select(writer) # writer
    /\ writer' = Select(writer)

\* send_frame has written the frame that was taken; `last`, if it ends its message.
Written == LET item == IF writer.slot = "interactive" THEN writer.current_interactive
                                                      ELSE writer.current
           IN [msg |-> item.msg, last |-> item.left = 0]

WriteFrame ==
    /\ writer.slot # "none"
    /\ writer' = Finish(writer)

\* Shared::close: a write fails or misses its deadline, or the connection is given up.
CloseWriter ==
    /\ ~writer.closed
    /\ writer' = ClosedWriter(writer)

-----------------------------------------------------------------------------
BytesOf(items) ==
    LET sum[n \in 0 .. Len(items)] == IF n = 0 THEN 0 ELSE sum[n - 1] + items[n].bytes
    IN sum[Len(items)]
Writing(s, l) == IF s.current # NoItem /\ s.lane = l THEN s.current.bytes ELSE 0

\* What admits and refuses messages is exact: the bytes counted for the reliable queue and
\* for each lane are those of the items that wait in it or are being written.
\* send_reliable_latest subtracts what it replaces from the count without a check.
BytesCounted ==
    /\ writer.reliable_bytes = BytesOf(writer.reliable) + Writing(writer, NoLane)
    /\ \A l \in Lanes : writer.render[l].open =>
          writer.render[l].bytes = BytesOf(writer.render[l].items) + Writing(writer, l)

\* No lane starves: a lane with frames is in the writer's turn, exactly once, and `ready` says
\* so, whatever frames a barrier took out of turn and lanes were dropped.
LanesTakeTurns ==
    \A l \in Lanes : writer.render[l].open /\ ~writer.closed =>
        LET turns == {i \in DOMAIN writer.render_ready : writer.render_ready[i] = l} IN
        /\ writer.render[l].ready <=> turns # {}
        /\ \A i, j \in turns : i = j
        /\ writer.render[l].items # <<>> => writer.render[l].ready

=============================================================================
