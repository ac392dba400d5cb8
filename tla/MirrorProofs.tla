---------------------------- MODULE MirrorProofs ----------------------------
(***************************************************************************)
(* That the live rows a Client shows are those of the sequence it is at,   *)
(* and that the final screen of a terminal reaches it before its exit      *)
(* (RowsMatch and ExitIsLast of TerminalStream), for every instance of its *)
(* constants.                                                              *)
(***************************************************************************)
EXTENDS TerminalStreamProofs

-----------------------------------------------------------------------------
(* The messages on their way, and the lane whose frame is written.         *)

\* No message is lost, and the frame of a lane is taken when no message waits, or one for it.
Hands(s, t) ==
    /\ Told(s) \subseteq Told(t)
    /\ \A l \in Lanes : t.lane = l /\ s.lane # l => Told(t) = {} \/ l \in Awaited(s)

\* What leaves the items alone
LEMMA SameItemsHands ==
    ASSUME NEW s, NEW t, t.reliable = s.reliable, t.lane = s.lane, SameCurrent(s, t)
    PROVE  Hands(s, t) /\ Told(t) = Told(s)
BY DEF Hands, Told, Current, SameCurrent

\* The frame of a lane is taken.
LEMMA PopHands ==
    ASSUME NEW s, Good(s, Messages), Fleet(s), s.current = NoItem,
           NEW u, Alike(s, u), NEW l \in Lanes, s.render[l].items # <<>>,
           s.reliable = <<>> \/ l \in Awaited(s), NEW t, t = PopRender(u, l)
    PROVE  Hands(s, t)
<1>1. Len(s.render[l].items) = 1 /\ s.lane = NoLane
  BY WriterParts DEF Fleet, Loaded, Good
<1>2. u \in Writer(Messages) /\ u.render[l].items = s.render[l].items /\ u.reliable = s.reliable
  BY DEF Alike
<1>3. Len(u.render[l].items) = 1 /\ u.render[l].items # <<>>
  BY <1>1, <1>2
<1>4. t.lane = l /\ t.reliable = s.reliable
  BY <1>2, <1>3, PopLane
<1>5. l # NoLane
  BY WriterAssumption
<1>6. Told(t) = Told(s)
  BY <1>4, <1>5 DEF Told, Current
<1>7. s.reliable = <<>> => Told(t) = {}
  BY <1>4, <1>5 DEF Told, Current
<1> QED
  BY <1>4, <1>6, <1>7 DEF Hands

\* The frame of the lane that is due
LEMMA NextRenderHands ==
    ASSUME NEW s, Good(s, Messages), ~s.closed, Fleet(s), s.current = NoItem,
           s.slot = "none", s.reliable = <<>>, NEW t, t = NextRender(s)
    PROVE  Hands(s, t)
<1> DEFINE order == s.render_ready
           waiting == {i \in DOMAIN order : Queued(s, order[i])}
<1>1. order \in Seq(Lanes) /\ Len(order) \in Nat /\ DOMAIN order = 1 .. Len(order)
  BY WriterParts, LenProperties DEF Good
<1>2. \A i \in DOMAIN order : order[i] \in Lanes
  BY <1>1, ElementOfSeq
<1>3. CASE waiting = {}
  <2> DEFINE n == Len(order)
  <2>1. n \in 0 .. Len(s.render_ready) /\ t = Unready(s, n)
    BY <1>1, <1>3 DEF NextRender
  <2> HIDE DEF n
  <2>2. Alike(s, t)
    BY <2>1, UnreadyAlike
  <2> QED
    BY <2>2, SameItemsHands DEF Alike, SameCurrent
<1>4. CASE waiting # {}
  <2> DEFINE n == CHOOSE i \in waiting : \A j \in waiting : i <= j
             l == order[n]
             u == Unready(s, n)
  <2>1. t = PopRender(u, l)
    BY <1>4 DEF NextRender
  <2>2. n \in waiting
    <3>1. waiting \subseteq Nat
      BY <1>1
    <3> HIDE DEF waiting
    <3>2. \E i \in waiting : \A j \in waiting : i <= j
      BY <1>4, <3>1, LeastNumber
    <3> QED
      BY <3>2
  <2> HIDE DEF n
  <2>3. n \in 0 .. Len(s.render_ready) /\ n \in DOMAIN order
    BY <1>1, <2>2
  <2>4. Alike(s, u)
    BY <2>3, UnreadyAlike
  <2> HIDE DEF u
  <2>5. l \in Lanes /\ s.render[l].items # <<>>
    BY <1>2, <2>2 DEF Queued
  <2> HIDE DEF l
  <2> QED
    BY <2>1, <2>4, <2>5, PopHands
<1> QED
  BY <1>3, <1>4

\* The item that is due is taken.
LEMMA NextCurrentHands ==
    ASSUME NEW s, Good(s, Messages), ~s.closed, Fleet(s), s.current = NoItem,
           s.slot = "none", NEW t, t = NextCurrent(s)
    PROVE  Hands(s, t)
<1>1. s \in Writer(Messages) /\ s.reliable \in Seq(Items(Messages)) /\ s.lane = NoLane
  BY WriterParts DEF Good, Fleet
<1>2. CASE s.reliable = <<>>
  BY <1>2, NextRenderHands DEF NextCurrent
<1>3. CASE s.reliable # <<>>
  <2> DEFINE front == s.reliable[1]
             l == front.after_lane
             rest == Tail(s.reliable)
  <2>1. /\ Head(s.reliable) = front /\ 1 \in DOMAIN s.reliable /\ front \in Items(Messages)
        /\ \A i \in DOMAIN s.reliable : i # 1 => i - 1 \in DOMAIN rest
        /\ \A i \in DOMAIN rest : i + 1 \in DOMAIN s.reliable /\ rest[i] = s.reliable[i + 1]
    BY <1>1, <1>3, FrontAndRest
  <2>2. CASE Queued(s, l)
    <3>1. t = PopRender(s, l)
      BY <1>3, <2>1, <2>2 DEF NextCurrent
    <3>2. l \in Lanes /\ s.render[l].items # <<>> /\ l \in Awaited(s)
      BY <2>1, <2>2 DEF Queued, Items, Awaited
    <3> HIDE DEF l
    <3>3. Alike(s, s)
      BY <1>1 DEF Alike
    <3> QED
      BY <3>1, <3>2, <3>3, PopHands
  <2>3. CASE ~Queued(s, l)
    <3>1. t = [s EXCEPT !.current = front, !.lane = NoLane, !.reliable = rest]
      BY <1>1, <1>3, <2>1, <2>3 DEF NextCurrent, Writer
    <3>2. front # NoItem
      BY <2>1, NoItemBegun
    <3>3. \A i \in DOMAIN s.reliable : i \in Nat
      BY <1>1, LenProperties
    <3>4. front = s.reliable[1]
      OBVIOUS
    <3> HIDE DEF front, l, rest
    <3>5. t.lane = NoLane /\ t.current = front /\ t.reliable = rest
      BY <1>1, <3>1 DEF Writer
    <3>6. front.msg \in Told(t)
      BY <3>2, <3>5 DEF Told, Current
    <3>7. ASSUME NEW i \in DOMAIN s.reliable PROVE s.reliable[i].msg \in Told(t)
      <4>1. CASE i = 1
        BY <3>4, <3>6, <4>1
      <4>2. CASE i # 1
        <5> DEFINE k == i - 1
        <5>1. k \in DOMAIN rest /\ i = k + 1
          BY <2>1, <3>3, <4>2
        <5> HIDE DEF k
        <5>2. rest[k] = s.reliable[i]
          BY <2>1, <5>1
        <5> QED
          BY <3>5, <5>1, <5>2 DEF Told
      <4> QED
        BY <4>1, <4>2
    <3>8. Told(s) \subseteq Told(t)
      <4>1. Current(s) = {}
        BY DEF Current
      <4> QED
        BY <3>7, <4>1 DEF Told
    <3>9. \A k \in Lanes : k # NoLane
      BY WriterAssumption
    <3> QED
      BY <3>5, <3>8, <3>9 DEF Hands
  <2> QED
    BY <2>2, <2>3
<1> QED
  BY <1>2, <1>3

\* The writer task takes a frame: no message is lost.
LEMMA SelectHands ==
    ASSUME NEW s, Good(s, Messages), ~s.closed, Fleet(s), s.slot = "none",
           NEW t, t = Select(s)
    PROVE  Hands(s, t)
<1> DEFINE mine == "interactive"
           its == "current"
<1>1. s \in Writer(Messages) /\ Good(s, Messages)
  BY DEF Good
<1>2. CASE s.current_interactive # NoItem \/ s.interactive # <<>>
  <2>1. t.reliable = s.reliable /\ t.lane = s.lane /\ t.current = s.current
    <3>1. CASE s.current_interactive # NoItem
      <4> DEFINE item == [s.current_interactive EXCEPT !.left = @ - 1]
      <4>1. t = [s EXCEPT !.current_interactive = item, !.slot = mine]
        BY <1>1, <3>1 DEF Select, Writer
      <4> HIDE DEF item
      <4> QED
        BY <1>1, <4>1 DEF Writer
    <3>2. CASE s.current_interactive = NoItem
      <4> DEFINE item == [Head(s.interactive) EXCEPT !.left = @ - 1]
                 rest == Tail(s.interactive)
      <4>1. t = [s EXCEPT !.current_interactive = item, !.interactive = rest, !.slot = mine]
        BY <1>1, <1>2, <3>2 DEF Select, Writer
      <4> HIDE DEF item, rest
      <4> QED
        BY <1>1, <4>1 DEF Writer
    <3> QED
      BY <3>1, <3>2
  <2> QED
    BY <2>1, SameItemsHands DEF SameCurrent
<1>3. CASE s.current_interactive = NoItem /\ s.interactive = <<>>
  <2> DEFINE chosen == IF s.current = NoItem THEN NextCurrent(s) ELSE s
             item == [chosen.current EXCEPT !.left = @ - 1]
  <2>1. t = IF chosen.current = NoItem THEN chosen
            ELSE [chosen EXCEPT !.current.left = @ - 1, !.slot = "current"]
    BY <1>3 DEF Select
  <2>2. Hands(s, chosen)
    <3>1. CASE s.current = NoItem
      BY <3>1, NextCurrentHands
    <3>2. CASE s.current # NoItem
      BY <3>2 DEF Hands
    <3> QED
      BY <3>1, <3>2
  <2>3. Good(chosen, Messages)
    BY NextCurrentGood DEF Takes
  <2> HIDE DEF chosen
  <2>4. chosen \in Writer(Messages) /\ chosen.current \in UnderWay(Messages)
    BY <2>3, WriterParts DEF Good
  <2>5. CASE chosen.current # NoItem
    <3>1. item.msg = chosen.current.msg /\ item.bytes = chosen.current.bytes /\ item # NoItem
      <4>1. item.msg = chosen.current.msg /\ item.bytes = chosen.current.bytes
            /\ item.kind = "item"
        BY <2>4, <2>5 DEF UnderWay, Begun
      <4> QED
        BY <4>1 DEF NoItem
    <3>2. t = [chosen EXCEPT !.current = item, !.slot = its]
      BY <2>1, <2>4, <2>5 DEF Writer
    <3> HIDE DEF item
    <3>3. t.lane = chosen.lane /\ t.current = item /\ t.reliable = chosen.reliable
      BY <2>4, <3>2 DEF Writer
    <3>4. SameCurrent(chosen, t)
      BY <2>5, <3>1, <3>3 DEF SameCurrent
    <3>5. Told(t) = Told(chosen)
      BY <3>3, <3>4, SameItemsHands
    <3> QED
      BY <2>2, <3>3, <3>5 DEF Hands
  <2>6. CASE chosen.current = NoItem
    BY <2>1, <2>2, <2>6
  <2> QED
    BY <2>5, <2>6
<1> QED
  BY <1>2, <1>3

\* A message is queued: the others stay, but that a latest one may be replaced.
LEMMA QueuesHand ==
    ASSUME NEW s, Good(s, Messages), ~s.closed, Fleet(s), NEW item \in Items(Messages),
           NEW t, ~t.closed,
           t \in {PushInteractive(s, item), PushReliable(s, item), PushLatest(s, item)}
    PROVE  /\ t.lane = s.lane
           /\ \A m \in Told(s) : m.kind # "other" => m \in Told(t)
<1>1. s \in Writer(Messages) /\ s.reliable \in Seq(Items(Messages))
  BY WriterParts DEF Good
<1>2. ASSUME NEW new \in Items(Messages), t = PushReliable(s, new)
      PROVE  t.lane = s.lane /\ Told(s) \subseteq Told(t)
  <2> DEFINE more == Append(s.reliable, new)
             bytes == s.reliable_bytes + new.bytes
  <2>1. t = [s EXCEPT !.reliable = more, !.reliable_bytes = bytes]
    BY <1>1, <1>2, ClosedGood DEF PushReliable, Writer
  <2>2. /\ DOMAIN s.reliable = 1 .. Len(s.reliable) /\ Len(s.reliable) \in Nat
        /\ DOMAIN more = 1 .. Len(s.reliable) + 1
        /\ \A i \in 1 .. Len(s.reliable) : more[i] = s.reliable[i]
    BY <1>1, AppendedItems
  <2> HIDE DEF more, bytes
  <2>3. t.lane = s.lane /\ t.reliable = more /\ t.current = s.current
    BY <1>1, <2>1 DEF Writer
  <2>4. \A i \in DOMAIN s.reliable : i \in DOMAIN more /\ more[i] = s.reliable[i]
    BY <2>2
  <2> QED
    BY <2>3, <2>4 DEF Told, Current
<1>3. CASE t = PushInteractive(s, item)
  <2> DEFINE more == Append(s.interactive, item)
  <2>1. t = [s EXCEPT !.interactive = more]
    BY <1>1, <1>3, ClosedGood DEF PushInteractive, Writer
  <2> HIDE DEF more
  <2>2. t.lane = s.lane /\ t.reliable = s.reliable /\ t.current = s.current
    BY <1>1, <2>1 DEF Writer
  <2> QED
    BY <2>2 DEF Told, Current
<1>4. CASE t = PushLatest(s, item)
  <2> DEFINE newer == [item EXCEPT !.latest = TRUE]
  <2>1. newer \in Items(Messages)
    BY DEF Items
  <2> HIDE DEF newer
  <2>2. CASE t = PushReliable(s, newer)
    BY <1>2, <2>1, <2>2
  <2>3. CASE t # PushReliable(s, newer)
    <3> DEFINE i == CHOOSE k \in WaitingLatest(s) : TRUE
               more == ReplaceAt(s.reliable, i, newer)
               bytes == s.reliable_bytes - s.reliable[i].bytes + newer.bytes
    <3>1. i \in WaitingLatest(s) /\ t = ReplaceLatest(s, i, newer)
      BY <1>4, <2>3 DEF PushLatest, newer
    <3> HIDE DEF i
    <3>2. i \in DOMAIN s.reliable /\ s.reliable[i].latest
      BY <3>1 DEF WaitingLatest
    <3>3. t = [s EXCEPT !.reliable = more, !.reliable_bytes = bytes]
      BY <3>1, ClosedGood DEF ReplaceLatest
    <3>4. more = [s.reliable EXCEPT ![i] = newer] /\ DOMAIN more = DOMAIN s.reliable
      BY <1>1, <3>2, ExceptSeq DEF ReplaceAt
    <3> HIDE DEF more, bytes
    <3>5. t.lane = s.lane /\ t.reliable = more /\ t.current = s.current
      BY <1>1, <3>3 DEF Writer
    <3>6. \A k \in DOMAIN s.reliable : k # i => k \in DOMAIN more /\ more[k] = s.reliable[k]
      BY <1>1, <3>2, <3>4
    <3>7. s.reliable[i].msg.kind = "other"
      BY <3>2 DEF Fleet, Plain
    <3> QED
      BY <3>5, <3>6, <3>7 DEF Told, Current
  <2> QED
    BY <2>2, <2>3
<1> QED
  BY <1>2, <1>3, <1>4

\* The writer task has written a frame: what it ends is told, and what else waits stays.
LEMMA FinishHands ==
    ASSUME NEW s, Good(s, Messages), Fleet(s), s.slot # "none", NEW t, t = Finish(s)
    PROVE  /\ t.lane \in {s.lane, NoLane}
           /\ \A m \in Told(s) :
                 m \in Told(t) \/ (s.slot = "current" /\ s.current.left = 0 /\ m = s.current.msg)
<1> DEFINE none == "none"
           written == [s EXCEPT !.slot = none]
           after == IF Taken(s).left > 0 THEN s.current_interactive ELSE NoItem
<1>1. /\ s \in Writer(Messages) /\ s.slot \in {"interactive", "current"}
      /\ Taken(s) # NoItem /\ Taken(s).left \in Nat /\ s.lane \in Lanes \cup {NoLane}
  BY TakenParts, WriterParts
<1>2. CASE s.slot = "interactive" \/ s.current.left # 0
  <2>1. t = IF Taken(s).left > 0 THEN written ELSE [written EXCEPT !.current_interactive = NoItem]
    BY <1>1, <1>2 DEF Finish, Taken
  <2>2. t.lane = s.lane /\ t.current = s.current /\ t.reliable = s.reliable
    BY <1>1, <2>1 DEF Writer
  <2> QED
    BY <2>2 DEF Told, Current
<1>3. CASE s.slot = "current" /\ s.current.left = 0 /\ s.lane = NoLane
  <2> DEFINE bytes == s.reliable_bytes - s.current.bytes
  <2>1. t = [s EXCEPT !.slot = none, !.current = NoItem, !.reliable_bytes = bytes]
    BY <1>1, <1>3 DEF Finish, Writer, Taken
  <2> HIDE DEF bytes
  <2>2. t.lane = s.lane /\ t.current = NoItem /\ t.reliable = s.reliable
    BY <1>1, <2>1 DEF Writer
  <2> QED
    BY <1>3, <2>2 DEF Told, Current
<1>4. CASE s.slot = "current" /\ s.current.left = 0 /\ s.lane \in Lanes
  <2>1. Told(t) = Told(s)
    BY <1>4, FinishFrame
  <2>2. t.lane = NoLane
    <3> DEFINE render == [s.render EXCEPT ![s.lane].bytes =
                            IF s.render[s.lane].open THEN @ - s.current.bytes ELSE @]
    <3>1. s.lane # NoLane
      BY <1>4, WriterAssumption
    <3>2. t = [s EXCEPT !.slot = none, !.current = NoItem, !.lane = NoLane, !.render = render]
      BY <1>1, <1>4, <3>1 DEF Finish, Writer, Taken
    <3> HIDE DEF render
    <3> QED
      BY <1>1, <3>2 DEF Writer
  <2> QED
    BY <2>1, <2>2
<1> QED
  BY <1>1, <1>2, <1>3, <1>4

-----------------------------------------------------------------------------
(* The rows that the frames on their way are made from.                    *)

\* The live rows of what the update says, and what a viewport of number n shows
Whole(u) == u.rows = u.sequence
Shows(v, n) == v.sequence = n => v.rows = n

\* A viewport that comes before the delta d does not take its rows away.
Supports(u, d) == Whole(u) \/ d.sequence <= u.sequence

\* A delta of lane l finds the rows it is based on, in the mirror or in the viewport that the
\* mirror starts with: one that is told, or one of those due.
Fitting(w, mirror, due, l) ==
    Sending(w, l) /\ IsDelta(Sent(w, l)) /\ Sent(w, l).rows # Same =>
        /\ Shows(mirror, Sent(w, l).base)
        /\ mirror = Nothing => /\ \A m \in Told(w) : Attaches(m) => Supports(m.update, Sent(w, l))
                               /\ \A u \in due : Supports(u, Sent(w, l))

\* The stream of lane l has sent its baseline, or it is on its way: a snapshot puts the mirror
\* right, whatever it shows; otherwise it is right, if the Client has one.
Settled(w, l) == Sending(w, l) => IsDelta(Sent(w, l))
Backed(w, baseline, known, mirror, l) ==
    /\ mirror.sequence <= baseline.sequence
    /\ Sending(w, l) => Sent(w, l).sequence = baseline.sequence
    /\ \A k \in Lanes : Sending(w, k) => Sent(w, k).sequence <= baseline.sequence
    /\ \A m \in Told(w) : Attaches(m) => m.update.sequence <= baseline.sequence
    /\ baseline.follows_live =>
          /\ Sending(w, l) => Sent(w, l).rows = baseline.sequence
          /\ Settled(w, l) => Shows(mirror, baseline.sequence)
    /\ Settled(w, l) \/ w.lane = l => \A m \in Told(w) : ~Introduces(m)
    /\ mirror = Nothing /\ Settled(w, l) => ~known

Serving(streams, srv, l) == srv = l /\ streams[l].pc \in Opened
Unmixed(faults) == faults \cap {"overlap", "older"} = {}

Rows(w, streams, srv, known, mirror, due, faults) ==
    ~w.closed =>
        /\ \A l \in Lanes : Sending(w, l) => Sent(w, l).rows # Garbled
        /\ \A m \in Told(w) : Attaches(m) => m.update.rows # Garbled
        /\ Unmixed(faults) =>
              /\ \A l \in Lanes : Fitting(w, mirror, due, l)
              /\ \A l \in Lanes : Serving(streams, srv, l)
                                     => Backed(w, streams[l].baseline, known, mirror, l)

\* What the stream of lane l that serves has sent stays as it is.
Serves(w, v, streams, others, srv, l) ==
    /\ Serving(streams, srv, l) /\ others[l].baseline = streams[l].baseline
    /\ Sending(w, l) => Sending(v, l)
    /\ \A m \in Told(v) : Introduces(m) => m \in Told(w) /\ (v.lane = l => w.lane = l)

\* A step that sends no frame and has the Client told nothing
LEMMA RowsCarried ==
    ASSUME NEW w, ~w.closed, NEW streams, NEW srv, NEW known, NEW mirror, NEW due, NEW faults,
           Rows(w, streams, srv, known, mirror, due, faults), \A u \in due : u.rows # Garbled,
           NEW v, \A l \in Lanes : Sending(v, l) => Sending(w, l) /\ Sent(v, l) = Sent(w, l),
           \A m \in Told(v) : Attaches(m) => m \in Told(w) \/ m.update \in due,
           NEW others, NEW later,
           \A l \in Lanes : Serving(others, later, l) => Serves(w, v, streams, others, srv, l),
           NEW next, \A u \in next : \/ u \in due \/ Whole(u)
                                     \/ \A l \in Lanes : Sending(w, l) => Sent(w, l).sequence <= u.sequence,
           NEW more, faults \subseteq more
    PROVE  Rows(v, others, later, known, mirror, next, more)
<1>1. /\ \A l \in Lanes : Sending(w, l) => Sent(w, l).rows # Garbled
      /\ \A m \in Told(w) : Attaches(m) => m.update.rows # Garbled
  BY DEF Rows
<1>2. /\ \A l \in Lanes : Sending(v, l) => Sent(v, l).rows # Garbled
      /\ \A m \in Told(v) : Attaches(m) => m.update.rows # Garbled
  BY <1>1
<1>3. ASSUME Unmixed(more), NEW l \in Lanes PROVE Fitting(v, mirror, next, l)
  <2>1. Fitting(w, mirror, due, l)
    BY <1>3 DEF Rows, Unmixed
  <2>2. SUFFICES ASSUME Sending(v, l), IsDelta(Sent(v, l)), Sent(v, l).rows # Same
                 PROVE  /\ Shows(mirror, Sent(v, l).base)
                        /\ mirror = Nothing =>
                              /\ \A m \in Told(v) : Attaches(m) => Supports(m.update, Sent(v, l))
                              /\ \A u \in next : Supports(u, Sent(v, l))
    BY DEF Fitting
  <2>3. Sending(w, l) /\ Sent(v, l) = Sent(w, l)
    BY <2>2
  <2>4. /\ Shows(mirror, Sent(w, l).base)
        /\ mirror = Nothing => /\ \A m \in Told(w) : Attaches(m) => Supports(m.update, Sent(w, l))
                               /\ \A u \in due : Supports(u, Sent(w, l))
    BY <2>1, <2>2, <2>3 DEF Fitting
  <2>5. ASSUME mirror = Nothing, NEW u \in next PROVE Supports(u, Sent(w, l))
    BY <2>3, <2>4, <2>5 DEF Supports
  <2> QED
    BY <2>3, <2>4, <2>5
<1>4. ASSUME Unmixed(more), NEW l \in Lanes, Serving(others, later, l)
      PROVE  Backed(v, others[l].baseline, known, mirror, l)
  <2>1. /\ Serving(streams, srv, l) /\ others[l].baseline = streams[l].baseline
        /\ Sending(w, l) <=> Sending(v, l)
        /\ Sending(v, l) => Sent(v, l) = Sent(w, l)
        /\ \A m \in Told(v) : Introduces(m) => m \in Told(w) /\ (v.lane = l => w.lane = l)
    BY <1>4 DEF Serves
  <2>2. Backed(w, streams[l].baseline, known, mirror, l)
    BY <1>4, <2>1 DEF Rows, Unmixed
  <2>3. Settled(v, l) <=> Settled(w, l)
    BY <2>1 DEF Settled
  <2>4. \A m : Attaches(m) => Introduces(m)
    BY DEF Attaches, Introduces
  <2> QED
    BY <2>1, <2>2, <2>3, <2>4 DEF Backed
<1> QED
  BY <1>2, <1>3, <1>4 DEF Rows

\* A closed connection carries nothing.
LEMMA RowsClosed ==
    ASSUME NEW w, w.closed, NEW streams, NEW srv, NEW known, NEW mirror, NEW due, NEW faults
    PROVE  Rows(w, streams, srv, known, mirror, due, faults)
BY DEF Rows

\* The Client knows of the terminal, or will before it gets anything else.
Knowing(w, known) == known \/ w.closed \/ \E m \in Told(w) : Introduces(m)

\* The stream of lane l sends a frame.
LEMMA RowsSends ==
    ASSUME NEW w, Good(w, Messages), ~w.closed, NEW streams, Based(streams), NEW srv, NEW known,
           NEW mirror \in Updates, NEW n \in Nat, mirror.sequence <= n, NEW due, NEW faults,
           Flow(w, streams, srv, known, mirror.sequence, n, faults),
           Rows(w, streams, srv, known, mirror, due, faults), NEW l \in Lanes,
           w.render[l].open, ~Sending(w, l), streams[l].pc \in Opened \cup {"opening"},
           "overlap" \notin faults => srv = l,
           NEW item \in Items(Messages), item.msg.kind = "frame", IsUpdate(item.msg.update, n),
           item.msg.update.rows # Garbled,
           IsDelta(item.msg.update) => streams[l].pc \in Opened,
           IsDelta(item.msg.update) /\ item.msg.update.rows # Same
              => streams[l].baseline.follows_live,
           Unmixed(faults) =>
              /\ IsDelta(item.msg.update) => item.msg.update.base = streams[l].baseline.sequence
              /\ \/ item.msg.update.sequence = n
                 \/ streams[l].pc \in Opened
                    /\ streams[l].baseline.sequence <= item.msg.update.sequence,
           \A u \in due : Whole(u) \/ Knowing(w, known),
           NEW others, \A k \in Lanes \ {l} : others[k] = streams[k],
           others[l].pc \in Opened =>
              /\ others[l].baseline.sequence = item.msg.update.sequence
              /\ others[l].baseline.follows_live => Whole(item.msg.update),
           NEW v, v = Enqueue(w, l, item)
    PROVE  Rows(v, others, srv, known, mirror, due, faults)
<1> DEFINE u == item.msg.update
           b == streams[l].baseline
<1>1. Fleet(w) /\ WriterNumbers(w, n)
  BY DEF Flow
<1>2. /\ Fleet(v) /\ Sending(v, l) /\ Sent(v, l) = u
      /\ ~v.closed /\ Told(v) = Told(w)
      /\ \A k \in Lanes : k # l => /\ Sending(v, k) <=> Sending(w, k)
                                   /\ Sent(v, k) = Sent(w, k)
  BY <1>1, EnqueueKeeps DEF OneLane
<1>3. v.lane = w.lane /\ w.lane # l
  <2>1. w \in Writer(Messages)
    BY DEF Good
  <2> DEFINE render == [w.render EXCEPT ![l] = [w.render[l] EXCEPT !.items = Append(@, item),
                                               !.bytes = @ + item.bytes, !.ready = TRUE]]
             order == IF w.render[l].ready THEN w.render_ready ELSE Append(w.render_ready, l)
  <2>2. v = [w EXCEPT !.render = render, !.render_ready = order]
    BY <2>1 DEF Enqueue, Writer
  <2> HIDE DEF render, order
  <2> QED
    BY <2>1, <2>2 DEF Writer, Sending
<1>4. u \in Updates /\ u.sequence \in Nat /\ u.base \in Int /\ u.sequence <= n
  <2>1. u \in Updates
    BY DEF Items, Messages
  <2> QED
    BY <2>1 DEF Updates, IsUpdate, IsView
<1>5. mirror.sequence \in Nat /\ b.sequence \in Nat
  BY DEF Based, Updates
<1>6. IsDelta(u) => u.base < u.sequence
  BY <1>4 DEF IsDelta, IsUpdate, IsView
<1>7. \A m : Attaches(m) => Introduces(m)
  BY DEF Attaches, Introduces
<1>8. /\ \A k \in Lanes : Sending(v, k) => Sent(v, k).rows # Garbled
      /\ \A m \in Told(v) : Attaches(m) => m.update.rows # Garbled
  BY <1>2 DEF Rows
<1>9. /\ IsUpdate(u, n) /\ u.rows # Garbled /\ (IsDelta(u) => streams[l].pc \in Opened)
      /\ IsDelta(u) /\ u.rows # Same => b.follows_live
      /\ Unmixed(faults) => /\ IsDelta(u) => u.base = b.sequence
                            /\ \/ u.sequence = n
                               \/ streams[l].pc \in Opened /\ b.sequence <= u.sequence
      /\ others[l].pc \in Opened => /\ others[l].baseline.sequence = u.sequence
                                    /\ others[l].baseline.follows_live => Whole(u)
  OBVIOUS
<1> HIDE DEF u
<1>10. ASSUME Unmixed(faults), streams[l].pc \in Opened
       PROVE  /\ Backed(w, b, known, mirror, l) /\ Settled(w, l) /\ srv = l
              /\ \A m \in Told(w) : ~Introduces(m)
              /\ mirror = Nothing => ~known /\ \A x \in due : Whole(x)
  <2>1. srv = l /\ Settled(w, l)
    BY <1>10 DEF Unmixed, Settled
  <2>2. Backed(w, b, known, mirror, l)
    BY <1>10, <2>1 DEF Rows, Serving
  <2>3. /\ \A m \in Told(w) : ~Introduces(m)
        /\ mirror = Nothing => ~known
    BY <2>1, <2>2 DEF Backed
  <2> QED
    BY <2>1, <2>2, <2>3 DEF Knowing
<1>11. ASSUME Unmixed(faults), NEW k \in Lanes PROVE Fitting(v, mirror, due, k)
  <2>1. CASE k # l
    <3>1. Fitting(w, mirror, due, k)
      BY <1>11 DEF Rows
    <3> QED
      BY <1>2, <2>1, <3>1 DEF Fitting
  <2>2. CASE k = l
    <3>1. SUFFICES ASSUME IsDelta(u), u.rows # Same
                   PROVE  /\ Shows(mirror, u.base)
                          /\ mirror = Nothing =>
                                /\ \A m \in Told(w) : Attaches(m) => Supports(m.update, u)
                                /\ \A x \in due : Supports(x, u)
      BY <1>2, <2>2 DEF Fitting
    <3>2. b.follows_live /\ u.base = b.sequence /\ streams[l].pc \in Opened
      BY <1>9, <1>11, <3>1
    <3>3. Backed(w, b, known, mirror, l) /\ Settled(w, l)
      BY <1>10, <1>11, <3>2
    <3>4. Shows(mirror, u.base)
      BY <3>2, <3>3 DEF Backed
    <3> QED
      BY <1>7, <1>10, <1>11, <3>2, <3>4 DEF Supports
  <2> QED
    BY <2>1, <2>2
<1>12. ASSUME Unmixed(faults), NEW k \in Lanes, Serving(others, srv, k)
       PROVE  Backed(v, others[k].baseline, known, mirror, k)
  <2>1. k = l /\ others[l].pc \in Opened
    BY <1>12 DEF Serving, Unmixed
  <2> DEFINE c == others[l].baseline
  <2>2. c.sequence = u.sequence /\ (c.follows_live => Whole(u))
    BY <1>9, <2>1
  <2>3. mirror.sequence <= u.sequence
    <3>1. CASE u.sequence = n
      BY <3>1
    <3>2. CASE streams[l].pc \in Opened /\ b.sequence <= u.sequence
      <4>1. mirror.sequence <= b.sequence
        BY <1>10, <1>12, <3>2 DEF Backed
      <4> HIDE DEF b
      <4> QED
        BY <1>4, <1>5, <3>2, <4>1
    <3> QED
      BY <1>9, <1>12, <3>1, <3>2
  <2>4. ASSUME NEW j \in Lanes, Sending(v, j) PROVE Sent(v, j).sequence <= u.sequence
    <3>1. CASE j = l
      BY <1>2, <1>4, <3>1
    <3>2. CASE j # l
      <4>1. Sending(w, j) /\ Sent(v, j) = Sent(w, j)
        BY <1>2, <2>4, <3>2
      <4> DEFINE q == Sent(w, j).sequence
      <4>2. q <= n /\ q \in Nat
        <5>1. Sent(w, j) \in Updates
          BY <1>1, <4>1, OnTheWay
        <5> QED
          BY <1>1, <4>1, <5>1 DEF WriterNumbers, IsUpdate, IsView, Updates
      <4>3. streams[l].pc \in Opened => q <= b.sequence
        BY <1>10, <1>12, <4>1 DEF Backed
      <4> HIDE DEF q, b
      <4>4. q <= u.sequence
        BY <1>4, <1>5, <1>9, <1>12, <4>2, <4>3
      <4> QED
        BY <4>1, <4>4 DEF q
    <3> QED
      BY <3>1, <3>2
  <2>5. ASSUME NEW m \in Told(v), Attaches(m) PROVE m.update.sequence <= u.sequence
    <3>1. m \in Told(w)
      BY <1>2, <2>5
    <3>2. streams[l].pc \notin Opened
      BY <1>7, <1>10, <1>12, <2>5, <3>1
    <3>3. u.sequence = n
      BY <1>9, <1>12, <3>2
    <3> QED
      BY <1>1, <2>5, <3>1, <3>3 DEF WriterNumbers, IsView
  <2>6. ASSUME IsDelta(u)
        PROVE  /\ Shows(mirror, u.sequence)
               /\ \A m \in Told(v) : ~Introduces(m)
               /\ mirror = Nothing => ~known
    <3>1. streams[l].pc \in Opened /\ u.base = b.sequence
      BY <1>9, <1>12, <2>6
    <3>2. mirror.sequence <= b.sequence
      BY <1>10, <1>12, <3>1 DEF Backed
    <3> HIDE DEF b
    <3>3. mirror.sequence < u.sequence
      BY <1>4, <1>5, <1>6, <2>6, <3>1, <3>2
    <3> QED
      BY <1>2, <1>5, <1>4, <1>10, <1>12, <3>1, <3>3 DEF Shows
  <2>7. Settled(v, l) <=> IsDelta(u)
    BY <1>2 DEF Settled
  <2> HIDE DEF c
  <2>8. Backed(v, c, known, mirror, l)
    BY <1>2, <1>3, <2>2, <2>3, <2>4, <2>5, <2>6, <2>7 DEF Backed, Whole
  <2> QED
    BY <2>1, <2>8 DEF c
<1> QED
  BY <1>8, <1>11, <1>12 DEF Rows

\* What the mirror is after a frame: apply_terminal_update
Reached(mirror, known, u) ==
    LET applied == IF mirror # Nothing THEN Apply(mirror, u)
                   ELSE IF IsSnapshot(u) THEN u ELSE Gap
    IN IF ~known /\ mirror = Nothing THEN mirror
       ELSE IF applied = Gap THEN mirror ELSE applied

\* The rows of a mirror after a frame
LEMMA ReachedIs ==
    ASSUME NEW n \in Nat, NEW mirror \in Updates, Mirrors(mirror, n), NEW known,
           NEW u \in Updates, IsUpdate(u, n), NEW reached, reached = Reached(mirror, known, u)
    PROVE  \/ reached = mirror /\ (IsSnapshot(u) /\ (known \/ mirror # Nothing)
                                      => u.sequence < mirror.sequence)
           \/ IsSnapshot(u) /\ reached = u
           \/ /\ IsDelta(u) /\ mirror # Nothing /\ u.base = mirror.sequence
              /\ reached # Nothing /\ reached.sequence = u.sequence
              /\ reached.rows = IF u.rows = Same THEN mirror.rows
                                ELSE IF mirror.rows = u.base THEN u.rows ELSE Garbled
<1>1. /\ Nothing.base = -1 /\ Nothing.sequence = 0 /\ Gap.base = -3
      /\ mirror # Nothing => mirror # Gap
  BY MarksAre DEF Mirrors
<1>2. u.base \in Int /\ u.sequence \in Nat /\ mirror.sequence \in Nat
  BY DEF Updates
<1>3. u # Gap /\ u # Nothing /\ (IsSnapshot(u) \/ IsDelta(u)) /\ ~(IsSnapshot(u) /\ IsDelta(u))
  BY <1>1, <1>2 DEF IsUpdate, IsView, IsSnapshot, IsDelta
<1>4. CASE mirror = Nothing
  <2>1. CASE ~known
    BY <1>4, <2>1 DEF Reached
  <2>2. CASE known /\ IsSnapshot(u)
    BY <1>3, <1>4, <2>2 DEF Reached
  <2>3. CASE known /\ ~IsSnapshot(u)
    BY <1>4, <2>3 DEF Reached
  <2> QED
    BY <2>1, <2>2, <2>3
<1>5. CASE mirror # Nothing
  <2>1. reached = IF Apply(mirror, u) = Gap THEN mirror ELSE Apply(mirror, u)
    BY <1>5 DEF Reached
  <2>2. CASE IsSnapshot(u)
    BY <1>2, <1>3, <2>1, <2>2 DEF Apply
  <2>3. CASE IsDelta(u) /\ u.sequence <= mirror.sequence
    BY <1>3, <2>1, <2>3 DEF Apply
  <2>4. CASE IsDelta(u) /\ ~(u.sequence <= mirror.sequence) /\ u.base # mirror.sequence
    BY <1>3, <2>1, <2>4 DEF Apply
  <2>5. CASE IsDelta(u) /\ ~(u.sequence <= mirror.sequence) /\ u.base = mirror.sequence
    <3> DEFINE meta == IF u.meta = Same THEN mirror.meta ELSE u.meta
               rows == IF u.rows = Same THEN mirror.rows
                       ELSE IF mirror.rows = u.base THEN u.rows ELSE Garbled
               after == [mirror EXCEPT !.sequence = u.sequence, !.meta = meta, !.rows = rows]
    <3>1. Apply(mirror, u) = after
      BY <1>3, <2>5 DEF Apply, Updates
    <3> HIDE DEF meta, rows
    <3>2. after.sequence = u.sequence /\ after.rows = rows /\ after.base = mirror.base
      BY DEF Updates
    <3>3. mirror.base = 0
      BY <1>5 DEF Mirrors, IsView
    <3> HIDE DEF after
    <3>4. after # Gap /\ after # Nothing
      BY <1>1, <3>2, <3>3
    <3> QED
      BY <1>5, <2>1, <2>5, <3>1, <3>2, <3>4 DEF rows
  <2> QED
    BY <1>3, <2>2, <2>3, <2>4, <2>5
<1> QED
  BY <1>4, <1>5

\* A frame of lane l reaches the Client.
LEMMA RowsDelivers ==
    ASSUME NEW w, Good(w, Messages), ~w.closed, NEW streams, Based(streams), NEW srv, NEW known,
           NEW n \in Nat, NEW mirror \in Updates, Mirrors(mirror, n), NEW due, NEW faults,
           Flow(w, streams, srv, known, mirror.sequence, n, faults),
           Rows(w, streams, srv, known, mirror, due, faults),
           Unmixed(faults) => mirror.rows # Garbled,
           w.slot = "current", w.current.left = 0, w.lane \in Lanes,
           NEW reached, reached = Reached(mirror, known, w.current.msg.update),
           NEW v, v = Finish(w)
    PROVE  /\ Rows(v, streams, srv, known, reached, due, faults)
           /\ Unmixed(faults) => reached.rows # Garbled
<1> DEFINE l == w.lane
           u == w.current.msg.update
<1>1. Fleet(w) /\ WriterNumbers(w, n)
  BY DEF Flow
<1>2. /\ ~v.closed /\ Sending(w, l) /\ Sent(w, l) = u /\ ~Sending(v, l)
      /\ \A k \in Lanes : k # l => /\ Sending(v, k) <=> Sending(w, k)
                                   /\ Sent(v, k) = Sent(w, k)
      /\ Told(v) = Told(w)
  BY <1>1, FinishFrame
<1>3. \A k \in Lanes : Before(w, k, l) => k = l
  BY DEF Before
<1>4. reached = Reached(mirror, known, u) /\ w.lane = l
  OBVIOUS
<1>5. v.lane \in {l, NoLane}
  BY <1>1, FinishHands
<1> HIDE DEF l, u
<1>6. l \in Lanes /\ u \in Updates /\ IsUpdate(u, n)
  <2>1. l \in Lanes
    BY DEF l
  <2> QED
    BY <1>1, <1>2, <2>1, OnTheWay DEF WriterNumbers
<1>7. /\ u.base \in Int /\ u.sequence \in Nat /\ mirror.sequence \in Nat
      /\ IsSnapshot(u) <=> ~IsDelta(u)
      /\ IsDelta(u) => u.base < u.sequence
  <2>1. u.base \in Int /\ u.sequence \in Nat /\ mirror.sequence \in Nat
    BY <1>6 DEF Updates
  <2> QED
    BY <1>6, <2>1 DEF IsSnapshot, IsDelta, IsUpdate, IsView
<1>8. \/ reached = mirror /\ (IsSnapshot(u) /\ (known \/ mirror # Nothing)
                                      => u.sequence < mirror.sequence)
      \/ IsSnapshot(u) /\ reached = u
      \/ /\ IsDelta(u) /\ mirror # Nothing /\ u.base = mirror.sequence
         /\ reached # Nothing /\ reached.sequence = u.sequence
         /\ reached.rows = IF u.rows = Same THEN mirror.rows
                           ELSE IF mirror.rows = u.base THEN u.rows ELSE Garbled
  BY <1>4, <1>6, ReachedIs
<1>9. /\ u.rows # Garbled
      /\ \A k \in Lanes : Sending(v, k) => Sent(v, k).rows # Garbled
      /\ \A m \in Told(v) : Attaches(m) => m.update.rows # Garbled
  BY <1>2, <1>6 DEF Rows
<1>10. ASSUME Unmixed(faults) PROVE reached.rows # Garbled
  <2>1. Fitting(w, mirror, due, l)
    BY <1>6, <1>10 DEF Rows
  <2>2. CASE reached = mirror
    BY <1>10, <2>2
  <2>3. CASE reached = u
    BY <1>9, <2>3
  <2>4. CASE IsDelta(u) /\ u.base = mirror.sequence
             /\ reached.rows = IF u.rows = Same THEN mirror.rows
                               ELSE IF mirror.rows = u.base THEN u.rows ELSE Garbled
    <3>1. u.rows # Same => Shows(mirror, u.base)
      BY <1>2, <2>1, <2>4 DEF Fitting
    <3> QED
      BY <1>9, <1>10, <2>4, <3>1 DEF Shows
  <2> QED
    BY <1>8, <2>2, <2>3, <2>4
<1>11. ASSUME Unmixed(faults), NEW k \in Lanes PROVE Fitting(v, reached, due, k)
  <2>1. Ordered(w, streams, srv)
    BY <1>11 DEF Flow, Unmixed
  <2>2. ASSUME Sending(v, k), IsDelta(Sent(v, k)) PROVE FALSE
    BY <1>2, <1>3, <1>6, <2>1, <2>2 DEF Ordered
  <2> QED
    BY <2>2 DEF Fitting
<1>12. ASSUME Unmixed(faults), NEW k \in Lanes, Serving(streams, srv, k)
       PROVE  Backed(v, streams[k].baseline, known, reached, k)
  <2> DEFINE c == streams[k].baseline
             b == c.sequence
  <2>1. Ordered(w, streams, srv) /\ srv = k /\ streams[k].pc \in Opened
    BY <1>12 DEF Flow, Unmixed, Serving
  <2>2. Backed(w, c, known, mirror, k)
    BY <1>12 DEF Rows
  <2>3. Sending(w, k)
    BY <1>2, <1>6, <2>1 DEF Ordered
  <2>4. b \in Nat /\ 1 <= b
    BY <2>1 DEF Based
  <2>5. Sent(w, k).sequence = b /\ mirror.sequence <= b /\ u.sequence <= b
    BY <1>2, <1>6, <2>2, <2>3 DEF Backed
  <2>6. reached.sequence <= b
    BY <1>8, <2>5
  <2>7. /\ \A j \in Lanes : Sending(v, j) => Sent(v, j).sequence <= b
        /\ \A m \in Told(v) : Attaches(m) => m.update.sequence <= b
    BY <1>2, <2>2 DEF Backed
  <2>8. CASE k # l
    <3>1. Sending(v, k) /\ Sent(v, k) = Sent(w, k)
      BY <1>2, <2>3, <2>8
    <3>2. ~IsDelta(Sent(w, k))
      BY <1>2, <1>3, <1>6, <2>1, <2>3, <2>8 DEF Ordered
    <3>3. ~Settled(v, k)
      BY <3>1, <3>2 DEF Settled
    <3>4. v.lane # k
      BY <1>5, <2>8, WriterAssumption
    <3>5. c.follows_live => Sent(v, k).rows = b
      BY <2>2, <2>3, <3>1 DEF Backed
    <3> QED
      BY <2>5, <2>6, <2>7, <3>1, <3>3, <3>4, <3>5 DEF Backed
  <2>9. CASE k = l
    <3>1. ~Sending(v, k) /\ u.sequence = b
      BY <1>2, <2>5, <2>9
    <3>2. /\ \A m \in Told(w) : ~Introduces(m)
          /\ c.follows_live => u.rows = b
          /\ IsDelta(u) => /\ c.follows_live => Shows(mirror, b)
                           /\ mirror = Nothing => ~known
      BY <1>2, <1>4, <2>2, <2>3, <2>9 DEF Backed, Settled
    <3> HIDE DEF c, b
    <3>3. Nothing.sequence = 0
      BY MarksAre
    <3>4. ASSUME c.follows_live PROVE Shows(reached, b)
      <4>1. CASE reached = mirror /\ IsDelta(u)
        BY <3>2, <3>4, <4>1
      <4>2. CASE reached = mirror /\ IsSnapshot(u) /\ reached # u
        <5>1. ~(u.sequence < mirror.sequence)
          BY <1>7, <2>4, <2>5, <3>1
        <5>2. mirror = Nothing
          BY <1>7, <1>8, <4>2, <5>1
        <5> QED
          BY <2>4, <3>3, <4>2, <5>2 DEF Shows
      <4>3. CASE reached = u
        BY <3>2, <3>4, <4>3 DEF Shows
      <4>4. CASE /\ IsDelta(u) /\ u.base = mirror.sequence
                 /\ reached.rows = IF u.rows = Same THEN mirror.rows
                                   ELSE IF mirror.rows = u.base THEN u.rows ELSE Garbled
        <5>1. u.rows = b /\ u.rows # Same
          BY <2>4, <3>2, <3>4 DEF Same
        <5>2. reached.rows # Garbled
          BY <1>10, <1>12
        <5> QED
          BY <4>4, <5>1, <5>2 DEF Shows
      <4> QED
        BY <1>7, <1>8, <4>1, <4>2, <4>3, <4>4
    <3>5. reached = Nothing => ~known
      <4>1. CASE reached = mirror /\ IsDelta(u)
        BY <3>2, <4>1
      <4>2. CASE reached = mirror /\ IsSnapshot(u) /\ reached # u
        <5>1. ~(u.sequence < mirror.sequence)
          BY <1>7, <2>4, <2>5, <3>1
        <5> QED
          BY <1>7, <1>8, <4>2, <5>1
      <4>3. CASE reached = u
        BY <1>6, <4>3, MarksAre, <3>1, <2>4
      <4>4. CASE reached # Nothing
        BY <4>4
      <4> QED
        BY <1>7, <1>8, <4>1, <4>2, <4>3, <4>4
    <3> QED
      BY <1>2, <2>6, <2>7, <3>1, <3>2, <3>4, <3>5 DEF Backed, c, b
  <2> QED
    BY <2>8, <2>9
<1> QED
  BY <1>2, <1>9, <1>10, <1>11, <1>12 DEF Rows

\* A message that is not a frame reaches the Client.
LEMMA RowsTells ==
    ASSUME NEW w, Good(w, Messages), ~w.closed, NEW streams, Based(streams), NEW srv, NEW known,
           NEW n \in Nat, NEW mirror \in Updates, NEW due, NEW faults,
           Flow(w, streams, srv, known, mirror.sequence, n, faults),
           Rows(w, streams, srv, known, mirror, due, faults),
           Unmixed(faults) => mirror.rows # Garbled,
           w.slot = "current", w.current.left = 0, w.lane = NoLane,
           NEW knows, knows => known \/ Introduces(w.current.msg),
           NEW reached,
           \/ reached = mirror
           \/ mirror = Nothing /\ Attaches(w.current.msg) /\ reached = w.current.msg.update,
           NEW v, v = Finish(w)
    PROVE  /\ Rows(v, streams, srv, knows, reached, due, faults)
           /\ Unmixed(faults) => reached.rows # Garbled
<1> DEFINE msg == w.current.msg
<1>1. Fleet(w) /\ WriterNumbers(w, n)
  BY DEF Flow
<1>2. ~v.closed /\ SameFrames(w, v) /\ msg \in Told(w) /\ Told(v) \subseteq Told(w)
  BY <1>1, FinishMessage
<1>3. \A k \in Lanes : v.lane # k
  BY <1>1, FinishHands, WriterAssumption
<1>4. /\ reached = mirror \/ (mirror = Nothing /\ Attaches(msg) /\ reached = msg.update)
      /\ knows => known \/ Introduces(msg)
  OBVIOUS
<1> HIDE DEF msg
<1>5. \A k \in Lanes : /\ Sending(v, k) <=> Sending(w, k)
                       /\ Sending(w, k) => Sent(v, k) = Sent(w, k)
  BY <1>2 DEF SameFrames
<1>6. \A m : Attaches(m) => Introduces(m)
  BY DEF Attaches, Introduces
<1>7. ASSUME reached # mirror
      PROVE  /\ mirror = Nothing /\ Attaches(msg) /\ reached = msg.update
             /\ reached # Nothing /\ reached.sequence \in Nat
  <2>1. IsView(msg.update, n) /\ msg.update \in Updates
    BY <1>1, <1>2, <1>4, <1>7, OnTheWay DEF WriterNumbers
  <2> QED
    BY <1>4, <1>7, <2>1, MarksAre DEF Updates
<1>8. /\ \A k \in Lanes : Sending(v, k) => Sent(v, k).rows # Garbled
      /\ \A m \in Told(w) : Attaches(m) => m.update.rows # Garbled
  BY <1>5 DEF Rows
<1>9. Unmixed(faults) => reached.rows # Garbled
  BY <1>2, <1>7, <1>8
<1>10. ASSUME Unmixed(faults), NEW k \in Lanes PROVE Fitting(v, reached, due, k)
  <2> DEFINE d == Sent(w, k)
  <2>1. SUFFICES ASSUME Sending(w, k), IsDelta(d), d.rows # Same
                 PROVE  /\ Shows(reached, d.base)
                        /\ reached = Nothing => /\ \A m \in Told(v) : Attaches(m) => Supports(m.update, d)
                                                /\ \A x \in due : Supports(x, d)
    BY <1>5 DEF Fitting
  <2>2. /\ Shows(mirror, d.base)
        /\ mirror = Nothing => /\ \A m \in Told(w) : Attaches(m) => Supports(m.update, d)
                               /\ \A x \in due : Supports(x, d)
    BY <1>10, <2>1 DEF Rows, Fitting
  <2>3. d.base \in Int /\ d.sequence \in Nat /\ d.base < d.sequence
    <3>1. d \in Updates /\ IsUpdate(d, n)
      BY <1>1, <2>1, OnTheWay DEF WriterNumbers
    <3>2. d.base \in Int /\ d.sequence \in Nat
      BY <3>1 DEF Updates
    <3> QED
      BY <2>1, <3>1, <3>2 DEF IsUpdate, IsView, IsDelta
  <2> HIDE DEF d
  <2>4. CASE reached = mirror
    BY <1>2, <2>2, <2>4
  <2>5. CASE reached # mirror
    <3>1. Supports(reached, d)
      BY <1>2, <1>7, <2>2, <2>5
    <3>2. Shows(reached, d.base)
      BY <1>7, <2>3, <2>5, <3>1 DEF Supports, Whole, Shows
    <3> QED
      BY <1>7, <2>5, <3>2
  <2> QED
    BY <2>4, <2>5
<1>11. ASSUME Unmixed(faults), NEW k \in Lanes, Serving(streams, srv, k)
       PROVE  Backed(v, streams[k].baseline, knows, reached, k)
  <2> DEFINE c == streams[k].baseline
  <2>1. Backed(w, c, known, mirror, k)
    BY <1>11 DEF Rows
  <2>2. Settled(v, k) <=> Settled(w, k)
    BY <1>5 DEF Settled
  <2> HIDE DEF c
  <2>3. ASSUME Introduces(msg) PROVE Backed(v, c, knows, reached, k)
    <3>1. ~Settled(w, k)
      BY <1>2, <2>1, <2>3 DEF Backed
    <3>2. reached.sequence <= c.sequence
      BY <1>2, <1>7, <2>1 DEF Backed
    <3> QED
      BY <1>2, <1>3, <1>5, <2>1, <2>2, <3>1, <3>2 DEF Backed
  <2>4. ASSUME ~Introduces(msg) PROVE Backed(v, c, knows, reached, k)
    <3>1. reached = mirror /\ (knows => known)
      BY <1>4, <1>6, <2>4
    <3> QED
      BY <1>2, <1>3, <1>5, <2>1, <2>2, <3>1 DEF Backed
  <2> QED
    BY <2>3, <2>4 DEF c
<1> QED
  BY <1>2, <1>8, <1>9, <1>10, <1>11 DEF Rows

-----------------------------------------------------------------------------
(* The inductive invariant of the rows, and the steps that send nothing.   *)

\* Who captures the screen, or is sent what was captured, has rows that it shows.
Showing(event) == IsExit(event) \/ Whole(event)
CaptureRows == \A t \in Threads : capture[t].pc = "captured" => Whole(capture[t].update)

\* A frame that is pending, and a delta only while the stream follows the live rows
PendingRows(baseline, pending) ==
    /\ pending \in {Nothing, SnapshotRequired} \/ Whole(pending)
    /\ IsDelta(pending) => baseline.follows_live
StreamRows(s) ==
    /\ \A i \in DOMAIN s.events : Showing(s.events[i])
    /\ s.pc = "streaming" => PendingRows(s.baseline, s.pending)

\* The viewport that a request will be answered with: one of the history is for a Client that
\* already knows of the terminal.
Due(rq) == IF rq.pc = "registered" /\ rq.kind = "attach" THEN {rq.viewport} ELSE {}
ViewRows ==
    \A u \in Due(request) : u.rows # Garbled /\ (Whole(u) \/ Knowing(writer, client.known))
Scrolls ==
    /\ attachment.scrolled => attachment.attached
    /\ attachment.attached /\ request.pc # "registered" => Knowing(writer, client.known)
    /\ ~client.connected => ~attachment.attached /\ request.pc = "none"
WriterRows ==
    Rows(writer, stream, serving, client.known, client.mirror, Due(request), mishaps)
Matched ==
    /\ CaptureRows
    /\ \A l \in Lanes : StreamRows(stream[l])
    /\ ViewRows
    /\ Scrolls
    /\ WriterRows
    /\ RowsMatch

\* A step that leaves the connection and what the streams have sent alone
LEMMA QuietMatched ==
    ASSUME Types, Sound, Matched, UNCHANGED <<writer, serving, client>>, mishaps \subseteq mishaps',
           NEW n, \A l \in Lanes : Undisturbed(stream[l], stream'[l], n),
           \A l \in Lanes : \A i \in DOMAIN stream'[l].events : Showing(stream'[l].events[i]),
           CaptureRows', ViewRows', Scrolls',
           \A u \in Due(request') : u \in Due(request) \/ Whole(u) \/ u.sequence = screen.sequence
    PROVE  Matched'
<1> DEFINE others == stream'
           next == Due(request')
           more == mishaps'
           due == Due(request)
<1>1. Rows(writer, others, serving, client.known, client.mirror, next, more)
  <2>1. CASE writer.closed
    BY <2>1, RowsClosed
  <2>2. CASE ~writer.closed
    <3>1. Rows(writer, stream, serving, client.known, client.mirror, due, mishaps)
      BY DEF Matched, WriterRows
    <3>2. \A u \in due : u.rows # Garbled
      BY DEF Matched, ViewRows
    <3>3. \A l \in Lanes : Serving(others, serving, l)
                              => Serves(writer, writer, stream, others, serving, l)
      BY DEF Serving, Serves, Undisturbed
    <3>4. \A l \in Lanes : Sending(writer, l) => Sent(writer, l).sequence <= screen.sequence
      <4>1. WriterNumbers(writer, screen.sequence)
        BY <2>2 DEF Sound, Flows, Flow
      <4> QED
        BY <4>1 DEF WriterNumbers, IsUpdate, IsView
    <3>5. \A u \in next : \/ u \in due \/ Whole(u)
                          \/ \A l \in Lanes : Sending(writer, l) => Sent(writer, l).sequence <= u.sequence
      BY <3>4
    <3>6. mishaps \subseteq more
      OBVIOUS
    <3> HIDE DEF others, next, more, due
    <3> QED
      BY <2>2, <3>1, <3>2, <3>3, <3>5, <3>6, RowsCarried
  <2> QED
    BY <2>1, <2>2
<1>2. WriterRows'
  BY <1>1 DEF WriterRows
<1>3. \A l \in Lanes : StreamRows(stream'[l])
  BY DEF StreamRows, Undisturbed, Matched
<1>4. RowsMatch'
  BY DEF Matched, RowsMatch
<1> QED
  BY <1>2, <1>3, <1>4 DEF Matched

\* A step that leaves the streams and the requests alone too
LEMMA StillMatched ==
    ASSUME Types, Types', Sound, Matched, UNCHANGED <<writer, serving, client, stream, request>>,
           screen.sequence <= screen'.sequence, mishaps \subseteq mishaps',
           UNCHANGED attachment, CaptureRows'
    PROVE  Matched'
<1>1. \A l \in Lanes : Undisturbed(stream[l], stream'[l], screen'.sequence)
  BY StillUndisturbed DEF Types, TerminalTypes
<1>2. \A l \in Lanes : \A i \in DOMAIN stream'[l].events : Showing(stream'[l].events[i])
  BY DEF Matched, StreamRows
<1>3. ViewRows' /\ Scrolls' /\ Due(request') = Due(request)
  BY DEF Matched, ViewRows, Scrolls
<1> QED
  BY <1>1, <1>2, <1>3, QuietMatched

\* No new capture
LEMMA StillCaptureRows ==
    ASSUME Matched, \A t \in Threads : capture'[t].pc = "captured" => capture'[t] = capture[t]
    PROVE  CaptureRows'
BY DEF Matched, CaptureRows

-----------------------------------------------------------------------------
(* What the terminal and the views leave alone.                            *)

\* The steps of the terminal's threads before a capture
LEMMA ThreadsStill ==
    ASSUME Types,
           ReadOutput \/ PublisherStarts \/ PublisherDecides \/ SetTitle \/ Exit \/ ExitState
    PROVE  /\ UNCHANGED <<writer, serving, client, stream, screen, request, attachment, mishaps>>
           /\ \A t \in Threads : capture'[t].pc = "captured" => capture'[t] = capture[t]
<1>1. UNCHANGED <<writer, serving, client, stream, screen, request, attachment, mishaps>>
  BY DEF ReadOutput, PublisherStarts, PublisherDecides, SetTitle, Exit, ExitState, streamVars, clientSide
<1>2. capture \in [Threads -> CaptureStates]
  BY DEF Types, CaptureTypes
<1>3. \A t \in Threads : capture'[t].pc = "captured" => capture'[t] = capture[t]
  <2>1. CASE ReadOutput
    BY <2>1 DEF ReadOutput
  <2>2. CASE PublisherStarts
    BY <1>2, <2>2 DEF PublisherStarts, CaptureStates
  <2>3. CASE PublisherDecides
    BY <1>2, <2>3 DEF PublisherDecides, Resting
  <2>4. CASE SetTitle
    BY <1>2, <2>4 DEF SetTitle, Resting
  <2>5. CASE Exit
    BY <1>2, <2>5 DEF Exit, CaptureStates
  <2>6. CASE ExitState
    BY <1>2, <2>6 DEF ExitState
  <2> QED
    BY <2>1, <2>2, <2>3, <2>4, <2>5, <2>6
<1> QED
  BY <1>1, <1>3

\* The steps before a viewport is read, and the counts
LEMMA LooksStill ==
    ASSUME Types, NEW t \in Threads, NEW scrolled \in BOOLEAN, NEW who \in {"viewer", "other"},
           LookAtStale(t) \/ ReadContext(t, scrolled) \/ StoreCount(who) \/ OtherWatches
    PROVE  /\ UNCHANGED <<writer, serving, client, stream, screen, request, attachment, mishaps>>
           /\ \A k \in Threads : capture'[k].pc = "captured" => capture'[k] = capture[k]
<1>1. UNCHANGED <<writer, serving, client, stream, screen, request, attachment, mishaps>>
  BY DEF LookAtStale, ReadContext, StoreCount, OtherWatches, streamVars, clientSide,
         terminalVars, hostSide
<1>2. capture \in [Threads -> CaptureStates]
  BY DEF Types, CaptureTypes
<1>3. \A k \in Threads : capture'[k].pc = "captured" => capture'[k] = capture[k]
  <2>1. CASE LookAtStale(t)
    BY <1>2, <2>1 DEF LookAtStale, Resting
  <2>2. CASE ReadContext(t, scrolled)
    BY <1>2, <2>2 DEF ReadContext, CaptureStates
  <2>3. CASE StoreCount(who) \/ OtherWatches
    BY <2>3 DEF StoreCount, OtherWatches, hostSide
  <2> QED
    BY <2>1, <2>2, <2>3
<1> QED
  BY <1>1, <1>3

\* A capture that is published is not a new one.
LEMMA PublishStill ==
    ASSUME Types, NEW t \in Threads, Publish(t) \/ TellExit
    PROVE  \A k \in Threads : capture'[k].pc = "captured" => capture'[k] = capture[k]
<1>1. capture \in [Threads -> CaptureStates] /\ "exit" \in Threads
  BY ThreadsAre DEF Types, CaptureTypes
<1>2. CASE Publish(t)
  <2> DEFINE c == IF capture[t].next = "published" THEN [capture[t] EXCEPT !.pc = "published"]
                  ELSE [Resting EXCEPT !.pc = capture[t].next]
  <2>1. capture' = [capture EXCEPT ![t] = c]
    BY <1>2 DEF Publish
  <2>2. c.pc # "captured"
    BY <1>1 DEF CaptureStates, Resting
  <2> HIDE DEF c
  <2> QED
    BY <1>1, <2>1, <2>2
<1>3. CASE TellExit
  BY <1>1, <1>3 DEF TellExit, Resting
<1> QED
  BY <1>2, <1>3

\* What is broadcast is an update or the exit.
LEMMA PublishedEvent ==
    ASSUME Types, Sound, NEW t \in Threads, Publish(t) \/ TellExit
    PROVE  \E event \in Events : /\ Broadcast(event) /\ IsEvent(event, screen.sequence)
                                 /\ CaptureRows => Showing(event)
<1>1. capture \in [Threads -> CaptureStates] /\ "exit" \in Threads
  BY ThreadsAre DEF Types, CaptureTypes
<1>2. CASE Publish(t)
  <2>1. capture[t].update \in Events /\ IsEvent(capture[t].update, screen.sequence)
    BY <1>1, <1>2 DEF Publish, Types, CaptureTypes, CaptureStates, Events, Sound, Numbers,
                      CaptureNumbers, IsEvent
  <2>2. Broadcast(capture[t].update) /\ capture[t].pc = "captured"
    BY <1>2 DEF Publish
  <2> QED
    BY <2>1, <2>2 DEF CaptureRows, Showing
<1>3. CASE TellExit
  <2> DEFINE event == ExitEvent(capture["exit"].update.sequence)
  <2>1. capture["exit"].update.sequence \in Nat
    BY <1>1, UpdateParts DEF CaptureStates
  <2>2. event \in Events /\ IsExit(event)
    BY <2>1, UpdatesAre DEF Events, IsExit, ExitEvent, Mark
  <2>3. Broadcast(event)
    BY <1>3 DEF TellExit
  <2> HIDE DEF event
  <2> QED
    BY <2>2, <2>3 DEF IsEvent, Showing
<1> QED
  BY <1>2, <1>3

\* What a stream has waiting after a broadcast is the event, or was waiting before.
LEMMA ReceivesOnly ==
    ASSUME NEW s, StreamFits(s), NEW event \in Events, NEW t, t = Receives(s, event)
    PROVE  /\ t.pc = s.pc /\ t.aborted = s.aborted /\ t.baseline = s.baseline
           /\ t.pending = s.pending
           /\ \A i \in DOMAIN t.events :
                 t.events[i] = event \/ \E j \in DOMAIN s.events : t.events[i] = s.events[j]
<1> DEFINE longer == Append(s.events, event)
           shifted == Append(Tail(s.events), event)
           Old(e) == \E j \in DOMAIN s.events : e = s.events[j]
<1>1. s.events \in Seq(Events) /\ s \in StreamStates
  BY DEF StreamFits
<1>2. CASE s.pc = "none"
  BY <1>2 DEF Receives
<1>3. CASE s.pc # "none" /\ Len(s.events) < Capacity
  <2>1. t = [s EXCEPT !.events = longer]
    BY <1>3 DEF Receives
  <2>2. \A i \in DOMAIN longer : longer[i] = event \/ Old(longer[i])
    <3>1. \A i \in DOMAIN longer : longer[i] = event \/ (i \in DOMAIN s.events /\ longer[i] = s.events[i])
      BY <1>1, AppendedItems
    <3> QED
      BY <3>1
  <2> HIDE DEF longer, Old
  <2>3. /\ t.pc = s.pc /\ t.aborted = s.aborted /\ t.baseline = s.baseline
        /\ t.pending = s.pending /\ t.events = longer
    BY <1>1, <2>1 DEF StreamStates
  <2> QED
    BY <2>2, <2>3 DEF Old
<1>4. CASE s.pc # "none" /\ ~(Len(s.events) < Capacity)
  <2>1. s.events # <<>>
    BY <1>1, <1>4, StreamAssumption
  <2>2. /\ Tail(s.events) \in Seq(Events)
        /\ \A i \in DOMAIN Tail(s.events) : i + 1 \in DOMAIN s.events /\ Tail(s.events)[i] = s.events[i + 1]
    BY <1>1, <2>1, FrontAndRest
  <2>3. \A i \in DOMAIN shifted : shifted[i] = event
                                  \/ (i \in DOMAIN Tail(s.events) /\ shifted[i] = Tail(s.events)[i])
    BY <2>2, AppendedItems
  <2>4. \A i \in DOMAIN shifted : shifted[i] = event \/ Old(shifted[i])
    BY <2>2, <2>3
  <2>5. t = [s EXCEPT !.events = shifted, !.lagged = TRUE]
    BY <1>4 DEF Receives
  <2> HIDE DEF shifted, Old
  <2>6. /\ t.pc = s.pc /\ t.aborted = s.aborted /\ t.baseline = s.baseline
        /\ t.pending = s.pending /\ t.events = shifted
    BY <1>1, <2>5 DEF StreamStates
  <2> QED
    BY <2>4, <2>6 DEF Old
<1> QED
  BY <1>2, <1>3, <1>4

-----------------------------------------------------------------------------
(* The terminal, the views and the requests, and the rows.                 *)

\* The threads of the terminal before a capture
LEMMA ThreadsMatched ==
    Types /\ Types' /\ Sound /\ Matched
    /\ (ReadOutput \/ PublisherStarts \/ PublisherDecides \/ SetTitle \/ Exit \/ ExitState) => Matched'
<1>1. SUFFICES ASSUME Types, Types', Sound, Matched,
                      ReadOutput \/ PublisherStarts \/ PublisherDecides \/ SetTitle \/ Exit \/ ExitState
               PROVE  Matched'
  OBVIOUS
<1>2. CaptureRows'
  BY <1>1, ThreadsStill, StillCaptureRows
<1>3. UNCHANGED <<writer, serving, client, stream, screen, request, attachment, mishaps>>
  BY <1>1, ThreadsStill
<1>4. screen.sequence <= screen'.sequence
  BY <1>1, <1>3 DEF Types, TerminalTypes
<1> QED
  BY <1>1, <1>2, <1>3, <1>4, StillMatched

\* A thread that looks before it views, the other Client, the subscriber count
LEMMA LooksMatched ==
    \A t \in Threads, scrolled \in BOOLEAN, who \in {"viewer", "other"} :
        /\ Types /\ Types' /\ Sound /\ Matched /\ LookAtStale(t) => Matched'
        /\ Types /\ Types' /\ Sound /\ Matched /\ ReadContext(t, scrolled) => Matched'
        /\ Types /\ Types' /\ Sound /\ Matched /\ StoreCount(who) => Matched'
        /\ Types /\ Types' /\ Sound /\ Matched /\ OtherWatches => Matched'
<1>1. SUFFICES ASSUME NEW t \in Threads, NEW scrolled \in BOOLEAN, NEW who \in {"viewer", "other"},
                      Types, Types', Sound, Matched,
                      LookAtStale(t) \/ ReadContext(t, scrolled) \/ StoreCount(who) \/ OtherWatches
               PROVE  Matched'
  OBVIOUS
<1>2. \A k \in Threads : capture'[k].pc = "captured" => capture'[k] = capture[k]
  BY <1>1, LooksStill
<1>3. CaptureRows'
  BY <1>1, <1>2, StillCaptureRows
<1>4. UNCHANGED <<writer, serving, client, stream, screen, request, attachment, mishaps>>
  BY <1>1, LooksStill
<1>5. screen.sequence <= screen'.sequence
  BY <1>1, <1>4 DEF Types, TerminalTypes
<1> QED
  BY <1>1, <1>3, <1>4, <1>5, StillMatched

\* A capture shows what it is numbered with.
LEMMA CaptureMatched ==
    \A t \in Threads : Types /\ Types' /\ Sound /\ Matched /\ Capture(t) => Matched'
<1>1. SUFFICES ASSUME NEW t \in Threads, Types, Types', Sound, Matched, Capture(t) PROVE Matched'
  OBVIOUS
<1>2. UNCHANGED <<writer, serving, client, stream, request, attachment>> /\ mishaps \subseteq mishaps'
  BY <1>1 DEF Capture, streamVars, clientSide, Mishap
<1>3. screen.sequence \in Nat /\ screen'.sequence = screen.sequence + 1
  <2>1. screen' = [sequence |-> screen.sequence + 1, meta |-> capture[t].meta]
    BY <1>1 DEF Capture
  <2> QED
    BY <1>1, <2>1 DEF Types, TerminalTypes
<1>4. screen.sequence <= screen'.sequence
  BY <1>3
<1>5. CaptureRows'
  <2> DEFINE n == screen.sequence + 1
             m == IF capture[t].meta = screen.meta THEN Same ELSE capture[t].meta
             delta == [base |-> screen.sequence, sequence |-> n, rows |-> n, meta |-> m]
  <2>1. PICK update \in {delta, Viewport(n, capture[t].meta, n)} :
           capture' = [capture EXCEPT ![t].pc = "captured", ![t].update = update]
    BY <1>1 DEF Capture
  <2>2. Whole(update)
    <3> HIDE DEF n, m
    <3> QED
      BY <2>1 DEF Whole, Viewport
  <2>3. capture \in [Threads -> CaptureStates]
    BY <1>1 DEF Types, CaptureTypes
  <2>4. capture'[t].update = update /\ \A k \in Threads \ {t} : capture'[k] = capture[k]
    <3> HIDE DEF delta
    <3> QED
      BY <2>1, <2>3 DEF CaptureStates
  <2> QED
    BY <1>1, <2>2, <2>4 DEF CaptureRows, Matched
<1> QED
  BY <1>1, <1>2, <1>4, <1>5, StillMatched

\* What is published is what was captured.
LEMMA PublishMatched ==
    \A t \in Threads : Types /\ Types' /\ Sound /\ Matched /\ (Publish(t) \/ TellExit) => Matched'
<1>1. SUFFICES ASSUME NEW t \in Threads, Types, Types', Sound, Matched, Publish(t) \/ TellExit
               PROVE  Matched'
  OBVIOUS
<1>2. UNCHANGED <<writer, serving, client, screen, request, attachment>> /\ mishaps \subseteq mishaps'
  BY <1>1 DEF Publish, TellExit, Broadcast, terminalVars, clientSide, Mishap
<1>3. CaptureRows'
  BY <1>1, PublishStill, StillCaptureRows
<1>4. PICK event \in Events : Broadcast(event) /\ IsEvent(event, screen.sequence) /\ Showing(event)
  BY <1>1, PublishedEvent DEF Matched
<1>5. \A l \in Lanes : Undisturbed(stream[l], stream'[l], screen'.sequence)
  BY <1>1, <1>2, <1>4, BroadcastUndisturbs
<1>6. ASSUME NEW l \in Lanes, NEW i \in DOMAIN stream'[l].events
      PROVE  Showing(stream'[l].events[i])
  <2>1. stream'[l] = Receives(stream[l], event)
    BY <1>4 DEF Broadcast
  <2>2. StreamFits(stream[l])
    BY <1>1, StreamIs DEF Types
  <2>3. \/ stream'[l].events[i] = event
        \/ \E j \in DOMAIN stream[l].events : stream'[l].events[i] = stream[l].events[j]
    BY <1>6, <2>1, <2>2, ReceivesOnly
  <2> QED
    BY <1>1, <1>4, <2>3 DEF Matched, StreamRows
<1>7. ViewRows' /\ Scrolls'
  BY <1>1, <1>2 DEF Matched, ViewRows, Scrolls
<1>8. Due(request') = Due(request)
  BY <1>2
<1> QED
  BY <1>1, <1>2, <1>3, <1>5, <1>6, <1>7, <1>8, QuietMatched

\* The streams that watch an attachment are woken.
LEMMA AttachedMatched ==
    ASSUME Types, Sound, Matched, UNCHANGED <<writer, serving, client, screen, mishaps>>,
           NEW a, Attachment(a),
           \A t \in Threads : capture'[t].pc = "captured" => capture'[t] = capture[t],
           ViewRows', Scrolls',
           \A u \in Due(request') : u \in Due(request) \/ Whole(u) \/ u.sequence = screen.sequence
    PROVE  Matched'
<1>1. \A l \in Lanes : Undisturbed(stream[l], stream'[l], screen'.sequence)
  BY AttachmentUndisturbs
<1>2. ASSUME NEW l \in Lanes PROVE stream'[l].events = stream[l].events
  <2> DEFINE s == stream[l]
             revised == s.revised \/ a.scrolled # attachment.scrolled
             detached == s.detached \/ ~a.attached
  <2>1. stream'[l] = s \/ stream'[l] = [s EXCEPT !.changed = TRUE, !.revised = revised, !.detached = detached]
    BY DEF Attachment
  <2>2. s \in StreamStates
    BY DEF Types, StreamTypes
  <2> HIDE DEF s, revised, detached
  <2>3. stream'[l].events = s.events
    BY <2>1, <2>2 DEF StreamStates
  <2> QED
    BY <2>3 DEF s
<1>3. \A l \in Lanes : \A i \in DOMAIN stream'[l].events : Showing(stream'[l].events[i])
  BY <1>2 DEF Matched, StreamRows
<1>4. CaptureRows'
  BY StillCaptureRows
<1> QED
  BY <1>1, <1>3, <1>4, QuietMatched

\* The view changes.
LEMMA ViewsMatched == Types /\ Types' /\ Sound /\ Matched /\ (SetVisible \/ ScrollView) => Matched'
<1>1. SUFFICES ASSUME Types, Types', Sound, Matched, SetVisible \/ ScrollView PROVE Matched'
  OBVIOUS
<1>2. UNCHANGED <<writer, serving, client, screen, mishaps, request, capture>> /\ client.connected
  BY <1>1 DEF SetVisible, ScrollView, hostSide, terminalVars
<1>3. PICK a : Attachment(a) /\ a.attached = attachment.attached /\ (a.scrolled => a.attached)
  <2>1. attachment \in [attached : BOOLEAN, visible : BOOLEAN, scrolled : BOOLEAN]
    BY <1>1 DEF Types, AttachmentTypes
  <2>2. attachment.scrolled => attachment.attached
    BY <1>1 DEF Matched, Scrolls
  <2>3. CASE SetVisible
    <3>1. Attachment([attachment EXCEPT !.visible = ~@])
      BY <2>3 DEF SetVisible
    <3> QED
      BY <2>1, <2>2, <3>1
  <2>4. CASE ScrollView
    <3> DEFINE flipped == ~attachment.scrolled
               a == [attachment EXCEPT !.scrolled = flipped]
    <3>1. Attachment(a) /\ attachment.attached
      BY <2>4 DEF ScrollView
    <3> HIDE DEF flipped
    <3>2. a.attached = attachment.attached
      BY <2>1
    <3> HIDE DEF a
    <3> QED
      BY <3>1, <3>2
  <2> QED
    BY <1>1, <2>3, <2>4
<1>4. attachment' = a
  BY <1>3 DEF Attachment
<1>5. ViewRows'
  <2>1. ViewRows /\ request' = request /\ writer' = writer /\ client' = client
    BY <1>1, <1>2 DEF Matched
  <2> QED
    BY <2>1 DEF ViewRows
<1>6. Scrolls'
  BY <1>1, <1>2, <1>3, <1>4 DEF Matched, Scrolls
<1>7. Due(request') = Due(request)
  BY <1>2
<1> QED
  BY <1>1, <1>2, <1>3, <1>5, <1>6, <1>7, AttachedMatched

\* What a viewport shows
LEMMA ViewportRows ==
    ASSUME Types, NEW t, NEW scrolled
    PROVE  LET u == CurrentViewport(t, scrolled) IN
           /\ u.rows # Garbled
           /\ Whole(u) \/ scrolled
           /\ u.rows # Scrolled => Whole(u)
<1>1. screen.sequence \in Nat
  BY DEF Types, TerminalTypes
<1> QED
  BY <1>1 DEF CurrentViewport, Viewport, Whole, Garbled, Scrolled

\* The requests register what they attach.
LEMMA RequestsMatched ==
    Types /\ Types' /\ Sound /\ Matched /\ (Spawned \/ Detach \/ Attached) => Matched'
<1>1. SUFFICES ASSUME Types, Types', Sound, Matched, Spawned \/ Detach \/ Attached PROVE Matched'
  OBVIOUS
<1>2. UNCHANGED <<writer, serving, client, screen, mishaps>>
  BY <1>1 DEF Spawned, Detach, Attached, hostSide, terminalVars
<1>3. /\ attachment \in [attached : BOOLEAN, visible : BOOLEAN, scrolled : BOOLEAN]
      /\ attachment' \in [attached : BOOLEAN, visible : BOOLEAN, scrolled : BOOLEAN]
  BY <1>1 DEF Types, AttachmentTypes
<1>4. /\ \E a : Attachment(a)
      /\ attachment'.scrolled => attachment'.attached
      /\ ~client.connected => ~attachment'.attached
  <2>1. CASE Spawned \/ Attached
    <3>1. Attachment([attachment EXCEPT !.attached = TRUE])
      BY <2>1 DEF Spawned, Attached, Register
    <3>2. client.connected
      BY <1>1, <2>1 DEF Spawned, Attached, Matched, Scrolls
    <3> QED
      BY <1>3, <3>1, <3>2 DEF Attachment
  <2>2. CASE Detach
    <3>1. Attachment([attachment EXCEPT !.attached = FALSE, !.scrolled = FALSE])
      BY <2>2 DEF Detach
    <3> QED
      BY <1>3, <3>1 DEF Attachment
  <2> QED
    BY <1>1, <2>1, <2>2
<1>5. \A t \in Threads : capture'[t].pc = "captured" => capture'[t] = capture[t]
  <2>1. CASE Spawned \/ Detach
    BY <2>1 DEF Spawned, Detach, hostSide
  <2>2. CASE Attached
    <3>1. capture \in [Threads -> CaptureStates] /\ capture' = [capture EXCEPT !["request"] = Resting]
      BY <1>1, <2>2 DEF Attached, Types, CaptureTypes
    <3> QED
      BY <3>1 DEF Resting
  <2> QED
    BY <1>1, <2>1, <2>2
<1>6. /\ request'.pc = "registered"
      /\ client.connected
      /\ \A u \in Due(request') : /\ u.sequence = screen.sequence
                                  /\ u.rows # Garbled
                                  /\ Whole(u) \/ Knowing(writer, client.known)
  <2>1. CASE Spawned
    BY <2>1 DEF Spawned, Register, Due
  <2>2. CASE Detach
    <3>1. request' = [NoRequest EXCEPT !.pc = "registered", !.kind = "detach"] /\ client.connected
      BY <2>2 DEF Detach
    <3> QED
      BY <3>1 DEF NoRequest, Due
  <2>3. CASE Attached
    <3> DEFINE viewport == CurrentViewport("request", attachment.scrolled)
    <3>1. request' = [pc |-> "registered", kind |-> "attach", viewport |-> viewport]
      BY <2>3 DEF Attached, Register
    <3>2. viewport.sequence = screen.sequence
      BY <1>1, ViewportIs
    <3>3. viewport.rows # Garbled /\ (Whole(viewport) \/ attachment.scrolled)
      BY <1>1, ViewportRows
    <3>4. client.connected /\ (attachment.scrolled => Knowing(writer, client.known))
      BY <1>1, <2>3 DEF Attached, Matched, Scrolls
    <3> HIDE DEF viewport
    <3>5. Due(request') = {viewport} /\ request'.pc = "registered"
      BY <3>1 DEF Due
    <3> QED
      BY <3>2, <3>3, <3>4, <3>5
  <2> QED
    BY <1>1, <2>1, <2>2, <2>3
<1>7. ViewRows' /\ Scrolls'
  BY <1>2, <1>4, <1>6 DEF ViewRows, Scrolls
<1>8. \A u \in Due(request') : u \in Due(request) \/ Whole(u) \/ u.sequence = screen.sequence
  BY <1>6
<1> QED
  BY <1>1, <1>2, <1>4, <1>5, <1>7, <1>8, AttachedMatched

\* A request begins to view the terminal.
LEMMA AttachMatched == Types /\ Types' /\ Sound /\ Matched /\ Attach => Matched'
<1>1. SUFFICES ASSUME Types, Types', Sound, Matched, Attach PROVE Matched'
  OBVIOUS
<1>2. UNCHANGED <<writer, serving, client, screen, mishaps, stream, attachment>>
  BY <1>1 DEF Attach, streamVars, terminalVars
<1>3. screen'.sequence \in Nat /\ screen.sequence <= screen'.sequence
  BY <1>1, <1>2 DEF Types, TerminalTypes
<1>4. \A l \in Lanes : Undisturbed(stream[l], stream'[l], screen'.sequence)
  BY <1>1, <1>2, <1>3, StillUndisturbed
<1>5. PICK first \in {"read", "look"} :
         capture' = [capture EXCEPT !["request"] =
                        [Resting EXCEPT !.pc = first, !.meta = metadata, !.next = "look"]]
  BY <1>1 DEF Attach
<1>6. \A t \in Threads : capture'[t].pc = "captured" => capture'[t] = capture[t]
  <2>1. capture \in [Threads -> CaptureStates]
    BY <1>1 DEF Types, CaptureTypes
  <2> QED
    BY <1>5, <2>1 DEF Resting
<1>7. CaptureRows'
  BY <1>1, <1>6, StillCaptureRows
<1>8. request'.pc = "viewing" /\ request.pc = "none" /\ client.connected
  BY <1>1 DEF Attach, NoRequest
<1>9. ViewRows' /\ Scrolls' /\ Due(request') = {}
  BY <1>1, <1>2, <1>8 DEF ViewRows, Scrolls, Due, Matched
<1>10. \A l \in Lanes : \A i \in DOMAIN stream'[l].events : Showing(stream'[l].events[i])
  BY <1>1, <1>2 DEF Matched, StreamRows
<1> QED
  BY <1>1, <1>2, <1>4, <1>7, <1>9, <1>10, QuietMatched

-----------------------------------------------------------------------------
(* The steps of a stream that send nothing, and the rows.                  *)

\* A stream moves, and the connection with it.
LEMMA StreamMatched ==
    ASSUME Types, Matched, NEW l \in Lanes, NEW s, Becomes(l, s),
           UNCHANGED <<serving, client, request, attachment>>, mishaps \subseteq mishaps',
           \A t \in Threads : capture'[t].pc = "captured" => capture'[t] = capture[t],
           Knowing(writer, client.known) => Knowing(writer', client.known),
           Rows(writer', stream', serving, client.known, client.mirror, Due(request), mishaps'),
           StreamRows(s)
    PROVE  Matched'
<1>1. stream'[l] = s /\ \A k \in Lanes \ {l} : stream'[k] = stream[k]
  BY DEF Types, StreamTypes, Becomes
<1>2. CaptureRows'
  BY StillCaptureRows
<1>3. \A k \in Lanes : StreamRows(stream'[k])
  BY <1>1 DEF Matched
<1>4. ViewRows'
  BY DEF Matched, ViewRows
<1>5. Scrolls'
  BY DEF Matched, Scrolls
<1>6. WriterRows'
  BY DEF WriterRows
<1>7. RowsMatch'
  BY DEF Matched, RowsMatch
<1> QED
  BY <1>2, <1>3, <1>4, <1>5, <1>6, <1>7 DEF Matched

\* What RowsCarried and RowsSends need of the state
LEMMA MatchedParts ==
    ASSUME Matched
    PROVE  /\ Rows(writer, stream, serving, client.known, client.mirror, Due(request), mishaps)
           /\ \A u \in Due(request) : u.rows # Garbled /\ (Whole(u) \/ Knowing(writer, client.known))
           /\ \A k \in Lanes : StreamRows(stream[k])
           /\ Unmixed(mishaps) => client.mirror.rows # Garbled
BY DEF Matched, WriterRows, ViewRows, RowsMatch, Unmixed

\* The task of a stream ends.
LEMMA EndMatched ==
    ASSUME Types, Sound, Matched, NEW l \in Lanes, EndStream(l), mishaps \subseteq mishaps',
           UNCHANGED <<serving, client, request, attachment>>
    PROVE  Matched'
<1> DEFINE w == writer
           v == DropLane(w, l)
           others == stream'
           due == Due(request)
           more == mishaps'
<1>1. others[l] = NoStream /\ \A k \in Lanes \ {l} : others[k] = stream[k]
  BY DEF EndStream, Becomes, Types, StreamTypes
<1>2. writer' = v /\ Becomes(l, NoStream)
  BY DEF EndStream
<1>3. Good(w, Messages) /\ w \in Writer(Messages)
  BY DEF Types, WriterTypes, Good
<1>4. v.closed = w.closed /\ v.lane = w.lane
  <2> DEFINE render == [w.render EXCEPT ![l].open = FALSE, ![l].ready = FALSE]
             order == v.render_ready
  <2> QED
    BY <1>3 DEF DropLane, Writer
<1>5. Rows(v, others, serving, client.known, client.mirror, due, more)
      /\ (Knowing(w, client.known) => Knowing(v, client.known))
  <2>1. CASE w.closed
    <3> HIDE DEF v, others, due, more
    <3> QED
      BY <1>4, <2>1, RowsClosed DEF Knowing
  <2>2. CASE ~w.closed
    <3>1. Fleet(w)
      BY <2>2 DEF Sound, Flows, Flow
    <3>2. /\ OneLane(w, v, l)
          /\ Sending(v, l) => Sending(w, l) /\ Sent(v, l) = Sent(w, l)
      BY <1>3, <3>1, DropLaneKeeps
    <3>3. \A k \in Lanes : Sending(v, k) => Sending(w, k) /\ Sent(v, k) = Sent(w, k)
      BY <3>2 DEF OneLane
    <3>4. Told(v) = Told(w)
      BY <3>2 DEF OneLane
    <3>5. NoStream.pc = "none"
      BY DEF NoStream
    <3>6. ASSUME NEW k \in Lanes, Serving(others, serving, k)
          PROVE  Serves(w, v, stream, others, serving, k)
      <4>1. k # l
        BY <1>1, <3>5, <3>6 DEF Serving, Opened
      <4>2. others[k] = stream[k] /\ (Sending(w, k) => Sending(v, k))
        BY <1>1, <3>2, <4>1 DEF OneLane
      <4> QED
        BY <1>4, <3>4, <3>6, <4>2 DEF Serves, Serving
    <3>7. /\ Rows(w, stream, serving, client.known, client.mirror, due, mishaps)
          /\ \A u \in due : u.rows # Garbled
      BY MatchedParts
    <3>8. mishaps \subseteq more
      OBVIOUS
    <3> HIDE DEF w, v, others, due, more
    <3>9. Rows(v, others, serving, client.known, client.mirror, due, more)
      BY <2>2, <3>3, <3>4, <3>6, <3>7, <3>8, RowsCarried
    <3> QED
      BY <1>4, <3>4, <3>9 DEF Knowing
  <2> QED
    BY <2>1, <2>2
<1>6. \A t \in Threads : capture'[t].pc = "captured" => capture'[t] = capture[t]
  BY DEF EndStream, Types, CaptureTypes, Resting
<1>7. StreamRows(NoStream)
  BY DEF StreamRows, NoStream
<1> QED
  BY <1>2, <1>5, <1>6, <1>7, StreamMatched

\* A stream moves on by itself.
LEMMA MoveMatched ==
    ASSUME Types, Sound, Matched, NEW l \in Lanes, NEW s, Becomes(l, s),
           UNCHANGED <<serving, client, request, attachment, writer>>, mishaps \subseteq mishaps',
           \A t \in Threads : capture'[t].pc = "captured" => capture'[t] = capture[t],
           s.baseline = stream[l].baseline, s.pc \in Opened => stream[l].pc \in Opened,
           StreamRows(s)
    PROVE  Matched'
<1> DEFINE w == writer
           others == stream'
           due == Due(request)
           more == mishaps'
<1>1. others[l] = s /\ \A k \in Lanes \ {l} : others[k] = stream[k]
  BY DEF Types, StreamTypes, Becomes
<1>2. Rows(w, others, serving, client.known, client.mirror, due, more)
  <2>1. CASE w.closed
    BY <2>1, RowsClosed
  <2>2. CASE ~w.closed
    <3>1. \A k \in Lanes : Serving(others, serving, k) => Serves(w, w, stream, others, serving, k)
      BY <1>1 DEF Serves, Serving
    <3>2. /\ Rows(w, stream, serving, client.known, client.mirror, due, mishaps)
          /\ \A u \in due : u.rows # Garbled
      BY MatchedParts
    <3>3. mishaps \subseteq more
      OBVIOUS
    <3> HIDE DEF w, others, due, more
    <3> QED
      BY <2>2, <3>1, <3>2, <3>3, RowsCarried
  <2> QED
    BY <2>1, <2>2
<1> QED
  BY <1>2, StreamMatched

\* A stream that opens has sent nothing yet, so its first frame will be a snapshot.
LEMMA OpenStreamMatched ==
    \A l \in Lanes : Types /\ Types' /\ Sound /\ Matched /\ OpenStream(l) => Matched'
<1>1. SUFFICES ASSUME NEW l \in Lanes, Types, Types', Sound, Matched, OpenStream(l) PROVE Matched'
  OBVIOUS
<1>2. UNCHANGED <<serving, client, request, attachment, mishaps>>
  BY <1>1 DEF OpenStream, streamRest, terminalVars
<1>3. CASE stream[l].detached
  BY <1>1, <1>2, <1>3, EndMatched DEF OpenStream
<1>4. CASE ~stream[l].detached
  <2> DEFINE s == [stream[l] EXCEPT !.pc = "opening", !.revised = FALSE,
                                    !.visible = attachment.visible,
                                    !.scrolled = attachment.scrolled]
  <2>1. Becomes(l, s) /\ capture' = [capture EXCEPT ![l].pc = "look"] /\ writer' = writer
    BY <1>1, <1>4 DEF OpenStream
  <2>2. s.pc = "opening" /\ s.baseline = stream[l].baseline /\ s.events = stream[l].events
    BY <1>1, StreamHas DEF StreamStates
  <2> HIDE DEF s
  <2>3. StreamRows(s)
    BY <1>1, <2>2, MatchedParts DEF StreamRows
  <2>4. \A t \in Threads : capture'[t].pc = "captured" => capture'[t] = capture[t]
    BY <1>1, <2>1 DEF Types, CaptureTypes, CaptureStates
  <2> QED
    BY <1>1, <1>2, <2>1, <2>2, <2>3, <2>4, MoveMatched DEF Opened
<1> QED
  BY <1>3, <1>4

\* A stream that looks whether the process exited
LEMMA CheckExitedMatched ==
    \A l \in Lanes : Types /\ Types' /\ Sound /\ Matched /\ CheckExited(l) => Matched'
<1>1. SUFFICES ASSUME NEW l \in Lanes, Types, Types', Sound, Matched, CheckExited(l) PROVE Matched'
  OBVIOUS
<1>2. UNCHANGED <<serving, client, request, attachment, writer, capture>> /\ mishaps \subseteq mishaps'
  BY <1>1 DEF CheckExited, streamRest, terminalVars, Mishap
<1> DEFINE pc == IF exited THEN "leaving" ELSE "streaming"
           s == [stream[l] EXCEPT !.pc = pc]
<1>3. Becomes(l, s) /\ stream[l].pc = "opened"
  BY <1>1 DEF CheckExited
<1> HIDE DEF pc
<1>4. /\ s.baseline = stream[l].baseline /\ s.pending = stream[l].pending
      /\ s.events = stream[l].events
  BY <1>1, StreamHas DEF StreamStates
<1> HIDE DEF s
<1>5. stream[l].pending = Nothing /\ ~IsDelta(Nothing)
  BY <1>1, <1>3, StreamHas DEF StreamNumbers, Nothing, Mark, IsDelta
<1>6. StreamRows(s)
  BY <1>1, <1>4, <1>5, MatchedParts DEF StreamRows, PendingRows
<1> QED
  BY <1>1, <1>2, <1>3, <1>4, <1>6, MoveMatched DEF Opened

\* The marks are no deltas.
LEMMA MarkRows ==
    \A b : PendingRows(b, Nothing) /\ PendingRows(b, SnapshotRequired)
BY DEF PendingRows, Nothing, SnapshotRequired, Mark, IsDelta

\* A stream that hears of a new view begins a snapshot of it.
LEMMA ReceiveViewMatched ==
    \A l \in Lanes : Types /\ Types' /\ Sound /\ Matched /\ ReceiveView(l) => Matched'
<1>1. SUFFICES ASSUME NEW l \in Lanes, Types, Types', Sound, Matched, ReceiveView(l) PROVE Matched'
  OBVIOUS
<1>2. UNCHANGED <<serving, client, request, attachment>> /\ mishaps \subseteq mishaps'
  BY <1>1 DEF ReceiveView, streamRest, terminalVars, Mishap
<1>3. CASE EndStream(l)
  BY <1>1, <1>2, <1>3, EndMatched
<1>4. CASE Becomes(l, ViewChanged(stream[l])) /\ UNCHANGED <<capture, writer>>
  <2> DEFINE pending == IF ~attachment.visible THEN Nothing
                        ELSE IF ~stream[l].visible \/ stream[l].revised THEN SnapshotRequired
                        ELSE stream[l].pending
             s == [stream[l] EXCEPT !.changed = FALSE, !.revised = FALSE,
                     !.visible = attachment.visible, !.scrolled = attachment.scrolled,
                     !.pending = pending]
  <2>1. Becomes(l, s) /\ stream[l].pc = "streaming"
    BY <1>1, <1>4 DEF ReceiveView, ViewChanged
  <2>2. pending \in {Nothing, SnapshotRequired, stream[l].pending}
    OBVIOUS
  <2> HIDE DEF pending
  <2>3. /\ s.pc = "streaming" /\ s.baseline = stream[l].baseline
        /\ s.pending = pending /\ s.events = stream[l].events
    BY <1>1, <2>1, StreamHas DEF StreamStates
  <2> HIDE DEF s
  <2>4. StreamRows(s)
    BY <1>1, <2>1, <2>2, <2>3, MatchedParts, MarkRows DEF StreamRows
  <2> QED
    BY <1>1, <1>2, <1>4, <2>1, <2>3, <2>4, MoveMatched
<1> QED
  BY <1>1, <1>3, <1>4 DEF ReceiveView

\* A stream that ends, or whose lane is gone, queues nothing but an exit.
LEMMA StreamEndMatched ==
    \A l \in Lanes : Types /\ Types' /\ Sound /\ Matched /\ (Drained(l) \/ Dropped(l)) => Matched'
<1>1. SUFFICES ASSUME NEW l \in Lanes, Types, Types', Sound, Matched, Drained(l) \/ Dropped(l)
               PROVE  Matched'
  OBVIOUS
<1>2. UNCHANGED <<serving, client, request, attachment>> /\ mishaps \subseteq mishaps'
  BY <1>1 DEF Drained, Dropped, streamRest, terminalVars, Mishap
<1>3. CASE EndStream(l)
  BY <1>1, <1>2, <1>3, EndMatched
<1>4. CASE ~EndStream(l)
  <2> DEFINE s == [stream[l] EXCEPT !.pc = "ending"]
  <2>1. Becomes(l, s) /\ capture' = [capture EXCEPT ![l].pc = "look"] /\ UNCHANGED writer
        /\ stream[l].pc = "draining"
    BY <1>1, <1>4 DEF Drained, Dropped
  <2>2. s.pc = "ending" /\ s.baseline = stream[l].baseline /\ s.events = stream[l].events
    BY <1>1, StreamHas DEF StreamStates
  <2> HIDE DEF s
  <2>3. StreamRows(s)
    BY <1>1, <2>2, MatchedParts DEF StreamRows
  <2>4. \A t \in Threads : capture'[t].pc = "captured" => capture'[t] = capture[t]
    BY <1>1, <2>1 DEF Types, CaptureTypes, CaptureStates
  <2> QED
    BY <1>1, <1>2, <2>1, <2>2, <2>3, <2>4, MoveMatched DEF Opened
<1> QED
  BY <1>3, <1>4

-----------------------------------------------------------------------------
(* What a stream merges, and the rows.                                     *)

\* A merge of updates that show what they are numbered with does so too.
LEMMA MergedRows ==
    ASSUME NEW n \in Nat, NEW current \in Updates, NEW next \in Updates, IsUpdate(next, n),
           IsDelta(next), Whole(next), NEW b, PendingRows(b, current), NEW p, p = Merged(current, next)
    PROVE  PendingRows(b, p)
<1>1. /\ current.sequence \in Nat /\ current.base \in Int /\ next.sequence \in Nat
      /\ next.base \in Int /\ next.rows \in Nat
  BY UpdateParts DEF Whole
<1>2. CASE IsSnapshot(current) /\ Apply(current, next) # Gap
  <2> DEFINE meta == IF next.meta = Same THEN current.meta ELSE next.meta
             rows == IF next.rows = Same THEN current.rows
                     ELSE IF current.rows = next.base THEN next.rows ELSE Garbled
             new == [current EXCEPT !.sequence = next.sequence, !.meta = meta, !.rows = rows]
  <2>1. p = current \/ (p = new /\ next.base = current.sequence)
    BY <1>2 DEF Merged, Apply, IsSnapshot, IsDelta
  <2>2. Whole(current)
    BY <1>2 DEF PendingRows, Nothing, SnapshotRequired, Mark, IsSnapshot
  <2>3. next.base = current.sequence => rows = next.sequence
    BY <1>1, <2>2 DEF Whole, Same
  <2> HIDE DEF meta, rows
  <2>4. new.base = current.base /\ new.sequence = next.sequence /\ new.rows = rows
    BY DEF Updates
  <2> HIDE DEF new
  <2>5. Whole(p) /\ p.base = 0
    BY <1>2, <2>1, <2>2, <2>3, <2>4 DEF Whole, IsSnapshot
  <2> QED
    BY <2>5 DEF PendingRows, IsDelta
<1>3. CASE IsDelta(current) /\ next.base = current.sequence
  <2> DEFINE meta == IF next.meta = Same THEN current.meta ELSE next.meta
             new == [current EXCEPT !.sequence = next.sequence, !.rows = next.rows, !.meta = meta]
  <2>1. p = new
    BY <1>3 DEF Merged, Contiguous, IsSnapshot, IsDelta
  <2> HIDE DEF meta
  <2>2. new.sequence = next.sequence /\ new.rows = next.rows
    BY DEF Updates
  <2> HIDE DEF new
  <2> QED
    BY <1>3, <2>1, <2>2 DEF PendingRows, Whole
<1>4. CASE /\ ~(IsSnapshot(current) /\ Apply(current, next) # Gap)
           /\ ~(IsDelta(current) /\ next.base = current.sequence)
  <2>1. p = SnapshotRequired
    BY <1>4 DEF Merged
  <2> QED
    BY <2>1, MarkRows
<1> QED
  BY <1>2, <1>3, <1>4

\* What is pending is a mark, or shows what it is numbered with; a delta is live.
LEMMA PushRows ==
    ASSUME NEW n \in Nat, NEW pending \in Updates, NEW update \in Updates, IsUpdate(update, n),
           Whole(update), NEW b \in Baselines, PendingRows(b, pending),
           NEW p, p = Push(pending, b, update)
    PROVE  PendingRows(b, p)
<1>1. update.sequence \in Nat /\ update.base \in Int /\ b.sequence \in Nat
  BY UpdateParts DEF Baselines
<1>2. IsSnapshot(update) \/ IsDelta(update)
  BY DEF IsUpdate, IsView, IsSnapshot, IsDelta
<1>3. CASE pending = Nothing
  <2>1. p = StartFrame(b, update)
    BY <1>3 DEF Push
  <2>2. p \in {Nothing, SnapshotRequired} \/ (p = update /\ (IsDelta(update) => b.follows_live))
    BY <1>1, <1>2, <2>1 DEF StartFrame, IsSnapshot, IsDelta
  <2> QED
    BY <2>2, MarkRows DEF PendingRows
<1>4. CASE pending # Nothing /\ IsSnapshot(update)
  <2>1. ~IsDelta(update)
    BY <1>4 DEF IsSnapshot, IsDelta
  <2>2. p = update
    BY <1>4, <2>1 DEF Push
  <2> QED
    BY <2>1, <2>2 DEF PendingRows
<1>5. CASE pending # Nothing /\ IsDelta(update)
  <2>1. p = Merged(pending, update)
    BY <1>5 DEF Push, IsSnapshot, IsDelta
  <2> QED
    BY <1>5, <2>1, MergedRows
<1> QED
  BY <1>2, <1>3, <1>4, <1>5

\* What a stream becomes when it receives
LEMMA ReceiveEventIs ==
    ASSUME Types, Sound, NEW l \in Lanes, ReceiveEvent(l)
    PROVE  \E t : /\ Becomes(l, t) /\ t.baseline = stream[l].baseline
                  /\ t.aborted = stream[l].aborted /\ t.pc \in {"streaming", "draining"}
                  /\ t.pc = "draining" =>
                        \E j \in DOMAIN stream[l].events :
                           IsExit(stream[l].events[j]) /\ t.pending = stream[l].events[j]
                  /\ \A i \in DOMAIN t.events :
                        \E j \in DOMAIN stream[l].events : t.events[i] = stream[l].events[j]
                  /\ t.pc = "streaming" =>
                        \/ t.pending \in {SnapshotRequired, stream[l].pending}
                        \/ \E j \in DOMAIN stream[l].events :
                              LET event == stream[l].events[j] IN
                              /\ ~IsExit(event)
                              /\ t.pending = Push(stream[l].pending, stream[l].baseline, event)
<1> DEFINE s == stream[l]
           event == Head(s.events)
           newest == IF event.sequence > s.newest THEN event.sequence ELSE s.newest
           tail == Tail(s.events)
           rest == [s EXCEPT !.events = tail, !.newest = newest]
           Old(e) == \E j \in DOMAIN s.events : e = s.events[j]
           Goes(t) == /\ Becomes(l, t) /\ t.baseline = s.baseline
                      /\ t.aborted = s.aborted /\ t.pc \in {"streaming", "draining"}
                      /\ t.pc = "draining" =>
                            \E j \in DOMAIN s.events : IsExit(s.events[j]) /\ t.pending = s.events[j]
                      /\ \A i \in DOMAIN t.events : Old(t.events[i])
                      /\ t.pc = "streaming" =>
                            \/ t.pending \in {SnapshotRequired, s.pending}
                            \/ \E j \in DOMAIN s.events :
                                  /\ ~IsExit(s.events[j])
                                  /\ t.pending = Push(s.pending, s.baseline, s.events[j])
<1>1. s \in StreamStates /\ s.events \in Seq(Events) /\ s.pc = "streaming"
  BY StreamHas DEF ReceiveEvent
<1>2. SUFFICES \E t : Goes(t)
  OBVIOUS
<1>3. \/ \/ Becomes(l, [s EXCEPT !.lagged = FALSE, !.pending = SnapshotRequired])
         \/ Becomes(l, [s EXCEPT !.lagged = FALSE, !.dirty = TRUE])
      \/ s.events # <<>> /\ ~IsExit(event) /\ Becomes(l, AfterUpdate(rest, event))
      \/ s.events # <<>> /\ IsExit(event) /\ Becomes(l, [rest EXCEPT !.pc = "draining", !.pending = event])
  BY DEF ReceiveEvent
<1> HIDE DEF s
<1>4. CASE \/ Becomes(l, [s EXCEPT !.lagged = FALSE, !.pending = SnapshotRequired])
           \/ Becomes(l, [s EXCEPT !.lagged = FALSE, !.dirty = TRUE])
  <2> DEFINE no == FALSE
             yes == TRUE
             behind == [s EXCEPT !.lagged = no, !.pending = SnapshotRequired]
             hidden == [s EXCEPT !.lagged = no, !.dirty = yes]
  <2> HIDE DEF no, yes
  <2>1. /\ behind.baseline = s.baseline /\ behind.events = s.events /\ behind.pending = SnapshotRequired
        /\ behind.aborted = s.aborted /\ behind.pc = s.pc
    BY <1>1 DEF StreamStates
  <2>2. /\ hidden.baseline = s.baseline /\ hidden.events = s.events /\ hidden.pending = s.pending
        /\ hidden.aborted = s.aborted /\ hidden.pc = s.pc
    BY <1>1 DEF StreamStates
  <2>3. Becomes(l, behind) \/ Becomes(l, hidden)
    BY <1>4 DEF no, yes
  <2> HIDE DEF behind, hidden
  <2>4. \A i \in DOMAIN s.events : Old(s.events[i])
    OBVIOUS
  <2>5. Goes(behind) \/ Goes(hidden)
    BY <1>1, <2>1, <2>2, <2>3, <2>4
  <2> QED
    BY <2>5
<1>5. CASE s.events # <<>>
  <2>1. /\ 1 \in DOMAIN s.events /\ event = s.events[1]
        /\ \A i \in DOMAIN tail : Old(tail[i])
    BY <1>1, <1>5, FrontAndRest
  <2> HIDE DEF event, tail, newest, Old
  <2>2. /\ rest.pc = "streaming" /\ rest.baseline = s.baseline /\ rest.events = tail
        /\ rest.pending = s.pending /\ DOMAIN rest = DOMAIN s /\ rest.aborted = s.aborted
    BY <1>1 DEF StreamStates
  <2>3. CASE IsExit(event) /\ Becomes(l, [rest EXCEPT !.pc = "draining", !.pending = event])
    <3> DEFINE t == [rest EXCEPT !.pc = "draining", !.pending = event]
    <3>1. /\ t.pc = "draining" /\ t.baseline = s.baseline /\ t.events = tail
          /\ t.aborted = s.aborted /\ t.pending = event
      BY <1>1, <2>2 DEF StreamStates
    <3>2. Becomes(l, t)
      BY <2>3
    <3> HIDE DEF t
    <3>3. Goes(t)
      BY <2>1, <2>3, <3>1, <3>2
    <3> QED
      BY <3>3
  <2>4. CASE ~IsExit(event) /\ Becomes(l, AfterUpdate(rest, event))
    <3> DEFINE pushed == Push(s.pending, s.baseline, event)
               differs == rest.dirty \/ MetadataDiffers(s.baseline, event)
    <3>1. AfterUpdate(rest, event) \in {[rest EXCEPT !.pending = pushed], [rest EXCEPT !.dirty = differs]}
      BY <2>2 DEF AfterUpdate
    <3>2. pushed = Push(s.pending, s.baseline, s.events[1])
      BY <2>1
    <3> HIDE DEF pushed, differs, rest
    <3>3. PICK t \in {[rest EXCEPT !.pending = pushed], [rest EXCEPT !.dirty = differs]} : Becomes(l, t)
      BY <2>4, <3>1
    <3>4. /\ t.pc = "streaming" /\ t.baseline = s.baseline /\ t.aborted = s.aborted
          /\ t.events = tail /\ t.pending \in {pushed, s.pending}
      BY <1>1, <2>2, <3>3 DEF StreamStates
    <3>5. Goes(t)
      BY <2>1, <2>4, <3>2, <3>3, <3>4
    <3> QED
      BY <3>5
  <2> QED
    BY <1>3, <1>4, <2>3, <2>4
<1> QED
  BY <1>3, <1>4, <1>5

\* A stream that takes a snapshot, a delta or an exit from its channel
LEMMA ReceiveEventMatched ==
    \A l \in Lanes : Types /\ Types' /\ Sound /\ Matched /\ ReceiveEvent(l) => Matched'
<1>1. SUFFICES ASSUME NEW l \in Lanes, Types, Types', Sound, Matched, ReceiveEvent(l) PROVE Matched'
  OBVIOUS
<1>2. UNCHANGED <<serving, client, request, attachment, writer, capture>> /\ mishaps \subseteq mishaps'
  BY <1>1 DEF ReceiveEvent, streamRest, terminalVars, Mishap
<1> DEFINE s == stream[l]
<1>3. /\ s.baseline \in Baselines /\ s.pending \in Updates /\ s.events \in Seq(Events)
      /\ StreamNumbers(s, screen.sequence) /\ screen.sequence \in Nat
  BY <1>1, StreamHas, SoundParts
<1>4. s.pc = "streaming" /\ StreamRows(s)
  BY <1>1, MatchedParts DEF ReceiveEvent
<1>5. PICK t : /\ Becomes(l, t) /\ t.baseline = s.baseline
               /\ \A i \in DOMAIN t.events : \E j \in DOMAIN s.events : t.events[i] = s.events[j]
               /\ t.pc = "streaming" =>
                     \/ t.pending \in {SnapshotRequired, s.pending}
                     \/ \E j \in DOMAIN s.events :
                           /\ ~IsExit(s.events[j])
                           /\ t.pending = Push(s.pending, s.baseline, s.events[j])
  BY <1>1, ReceiveEventIs
<1>6. StreamRows(t)
  <2>1. \A i \in DOMAIN t.events : Showing(t.events[i])
    BY <1>4, <1>5 DEF StreamRows
  <2>2. ASSUME t.pc = "streaming" PROVE PendingRows(s.baseline, t.pending)
    <3>1. PendingRows(s.baseline, s.pending)
      BY <1>4 DEF StreamRows
    <3>2. CASE t.pending \in {SnapshotRequired, s.pending}
      BY <3>1, <3>2, MarkRows
    <3>3. ASSUME NEW j \in DOMAIN s.events, ~IsExit(s.events[j]),
                 t.pending = Push(s.pending, s.baseline, s.events[j])
          PROVE  PendingRows(s.baseline, t.pending)
      <4> DEFINE event == s.events[j]
      <4>1. event \in Updates
        BY <1>3, ElementOfSeq, LenProperties DEF Events
      <4>2. IsUpdate(event, screen.sequence) /\ Whole(event)
        BY <1>3, <1>4, <3>3 DEF StreamNumbers, IsEvent, StreamRows, Showing
      <4> HIDE DEF event, s
      <4>3. t.pending = Push(s.pending, s.baseline, event)
        BY <3>3 DEF event
      <4> QED
        BY <1>3, <3>1, <4>1, <4>2, <4>3, PushRows
    <3> QED
      BY <1>5, <2>2, <3>2, <3>3
  <2> QED
    BY <1>5, <2>1, <2>2 DEF StreamRows
<1>7. s.pc \in Opened
  BY <1>4 DEF Opened
<1> QED
  BY <1>1, <1>2, <1>5, <1>6, <1>7, MoveMatched

-----------------------------------------------------------------------------
(* The frames of a stream, and the rows.                                   *)

\* More races that may mix the rows
LEMMA RowsMore ==
    ASSUME NEW w, NEW streams, NEW srv, NEW known, NEW mirror, NEW due, NEW faults,
           Rows(w, streams, srv, known, mirror, due, faults), NEW more, faults \subseteq more
    PROVE  Rows(w, streams, srv, known, mirror, due, more)
<1>1. Unmixed(more) => Unmixed(faults)
  BY DEF Unmixed
<1> QED
  BY <1>1 DEF Rows

\* A stream sends an update of the terminal.
LEMMA SendRows ==
    ASSUME Types, Sound, Matched, NEW l \in Lanes, NEW u \in Updates, IsUpdate(u, screen.sequence),
           LaneTakes(writer, l, Frame(u)), ~Sending(writer, l),
           mishaps \subseteq mishaps', "overlap" \notin mishaps' => ~stream[l].aborted,
           stream[l].pc \in Opened \cup {"opening"}, u.rows # Garbled,
           IsDelta(u) => stream[l].pc \in Opened,
           IsDelta(u) /\ u.rows # Same => stream[l].baseline.follows_live,
           Unmixed(mishaps') =>
              /\ IsDelta(u) => u.base = stream[l].baseline.sequence
              /\ \/ u.sequence = screen.sequence
                 \/ stream[l].pc \in Opened /\ stream[l].baseline.sequence <= u.sequence,
           NEW others, \A k \in Lanes \ {l} : others[k] = stream[k],
           others[l].pc \in Opened => /\ others[l].baseline.sequence = u.sequence
                                      /\ others[l].baseline.follows_live => Whole(u),
           NEW v, v = Enqueue(writer, l, Frame(u))
    PROVE  /\ Rows(v, others, serving, client.known, client.mirror, Due(request), mishaps')
           /\ Told(v) = Told(writer) /\ v.closed = writer.closed
<1> DEFINE more == mishaps'
           due == Due(request)
           item == Frame(u)
<1>1. /\ screen.sequence \in Nat /\ client.mirror \in Updates
      /\ client.mirror.sequence <= screen.sequence
      /\ Good(writer, Messages) /\ Based(stream)
      /\ Flow(writer, stream, serving, client.known, client.mirror.sequence, screen.sequence, mishaps)
  BY SoundParts
<1>2. Flow(writer, stream, serving, client.known, client.mirror.sequence, screen.sequence, more)
  BY <1>1, MoreMishaps
<1>3. ~writer.closed /\ writer.render[l].open /\ Fleet(writer)
  BY <1>1 DEF LaneTakes, Flow
<1>4. stream[l].pc # "none"
  BY DEF Opened
<1>5. "overlap" \notin more => serving = l
  BY <1>2, <1>4 DEF Flow, Alone
<1>6. Rows(writer, stream, serving, client.known, client.mirror, due, more)
  BY MatchedParts, RowsMore
<1>7. \A d \in due : Whole(d) \/ Knowing(writer, client.known)
  BY MatchedParts
<1>8. item \in Items(Messages) /\ item.msg.kind = "frame" /\ item.msg.update = u
  BY FrameIs
<1>9. v = Enqueue(writer, l, item)
  OBVIOUS
<1> HIDE DEF item, due, more
<1>10. OneLane(writer, v, l)
  BY <1>1, <1>3, <1>8, <1>9, EnqueueKeeps
<1>11. Rows(v, others, serving, client.known, client.mirror, due, more)
  <2> DEFINE n == screen.sequence
             known == client.known
             mirror == client.mirror
             f == item.msg.update
  <2>1. Unmixed(more) =>
              /\ IsDelta(f) => f.base = stream[l].baseline.sequence
              /\ f.sequence = n \/ (stream[l].pc \in Opened /\ stream[l].baseline.sequence <= f.sequence)
    BY <1>8 DEF more
  <2>2. /\ IsUpdate(f, n) /\ f.rows # Garbled
        /\ IsDelta(f) => stream[l].pc \in Opened
        /\ IsDelta(f) /\ f.rows # Same => stream[l].baseline.follows_live
    BY <1>8
  <2>3. others[l].pc \in Opened => /\ others[l].baseline.sequence = f.sequence
                                   /\ others[l].baseline.follows_live => Whole(f)
    BY <1>8
  <2>4. /\ n \in Nat /\ mirror \in Updates /\ mirror.sequence <= n
        /\ Flow(writer, stream, serving, known, mirror.sequence, n, more)
        /\ Rows(writer, stream, serving, known, mirror, due, more)
        /\ \A d \in due : Whole(d) \/ Knowing(writer, known)
    BY <1>1, <1>2, <1>6, <1>7
  <2> HIDE DEF n, known, mirror
  <2>5. Rows(v, others, serving, known, mirror, due, more)
    BY <1>1, <1>3, <1>5, <1>8, <1>9, <2>1, <2>2, <2>3, <2>4, RowsSends
  <2> QED
    BY <2>5 DEF known, mirror
<1> QED
  BY <1>10, <1>11 DEF OneLane, more, due

\* What SendRows shows makes up the step.
LEMMA SendsMatched ==
    ASSUME Types, Sound, Matched, NEW l \in Lanes, NEW u \in Updates, IsUpdate(u, screen.sequence),
           LaneTakes(writer, l, Frame(u)), ~Sending(writer, l),
           mishaps \subseteq mishaps', "overlap" \notin mishaps' => ~stream[l].aborted,
           stream[l].pc \in Opened \cup {"opening"}, u.rows # Garbled,
           IsDelta(u) => stream[l].pc \in Opened,
           IsDelta(u) /\ u.rows # Same => stream[l].baseline.follows_live,
           Unmixed(mishaps') =>
              /\ IsDelta(u) => u.base = stream[l].baseline.sequence
              /\ \/ u.sequence = screen.sequence
                 \/ stream[l].pc \in Opened /\ stream[l].baseline.sequence <= u.sequence,
           NEW s, Becomes(l, s), s.pending = Nothing, s.events = stream[l].events,
           s.baseline.sequence = u.sequence, s.baseline.follows_live => Whole(u),
           writer' = Enqueue(writer, l, Frame(u)),
           UNCHANGED <<serving, client, request, attachment>>,
           \A t \in Threads : capture'[t].pc = "captured" => capture'[t] = capture[t]
    PROVE  Matched'
<1> DEFINE others == stream'
           v == writer'
<1>1. others[l] = s /\ \A k \in Lanes \ {l} : others[k] = stream[k]
  BY DEF Types, StreamTypes, Becomes
<1>2. v = Enqueue(writer, l, Frame(u))
  OBVIOUS
<1> HIDE DEF others, v
<1>3. /\ Rows(v, others, serving, client.known, client.mirror, Due(request), mishaps')
      /\ Told(v) = Told(writer) /\ v.closed = writer.closed
  BY <1>1, <1>2, SendRows
<1>4. Knowing(writer, client.known) => Knowing(v, client.known)
  BY <1>3 DEF Knowing
<1>5. StreamRows(s)
  BY MatchedParts, MarkRows DEF StreamRows
<1> QED
  BY <1>3, <1>4, <1>5, StreamMatched DEF others, v

\* The rows of what the stream falls back on
LEMMA AdvanceRows ==
    ASSUME NEW b \in Baselines, NEW u \in Updates
    PROVE  /\ IsDelta(u) => Advance(b, u).follows_live = b.follows_live
           /\ [Advance(b, u) EXCEPT !.follows_live = FALSE].follows_live = FALSE
           /\ Baseline(u).follows_live => u.rows # Scrolled
<1> DEFINE m == IF u.meta = Same THEN b.meta ELSE u.meta
           no == FALSE
<1>1. IsDelta(u) => Advance(b, u) = [b EXCEPT !.sequence = u.sequence, !.meta = m]
  BY DEF Advance, IsDelta, IsSnapshot
<1>2. Baseline(u).follows_live = (u.rows # Scrolled)
  BY DEF Baseline
<1>3. Advance(b, u) \in Baselines
  BY BaselineTyped
<1> HIDE DEF m, no
<1>4. IsDelta(u) => Advance(b, u).follows_live = b.follows_live
  BY <1>1 DEF Baselines
<1>5. [Advance(b, u) EXCEPT !.follows_live = no].follows_live = no
  BY <1>3 DEF Baselines
<1> QED
  BY <1>2, <1>4, <1>5 DEF no

\* What the frame interval does
LEMMA TickIs ==
    ASSUME Types, Sound, NEW l \in Lanes, Tick(l)
    PROVE  \/ EndStream(l)
           \/ \E t : /\ Becomes(l, t) /\ UNCHANGED writer
                     /\ t.baseline = stream[l].baseline /\ t.events = stream[l].events
                     /\ t.pending = Nothing
                     /\ t.aborted = stream[l].aborted /\ t.pc \in {"streaming", "framing"}
           \/ /\ stream[l].pending \notin {Nothing, SnapshotRequired}
              /\ "overlap" \notin mishaps' => ~stream[l].aborted
              /\ LaneTakes(writer, l, Frame(stream[l].pending))
              /\ writer' = Enqueue(writer, l, Frame(stream[l].pending))
              /\ \E t : /\ Becomes(l, t) /\ t.events = stream[l].events /\ t.pending = Nothing
                        /\ t.baseline = Advance(stream[l].baseline, stream[l].pending)
                        /\ t.aborted = stream[l].aborted /\ t.pc = "streaming"
           \/ /\ MetadataDelta(stream[l].baseline) # Nothing
              /\ "overlap" \notin mishaps' => ~stream[l].aborted
              /\ LaneTakes(writer, l, Frame(MetadataDelta(stream[l].baseline)))
              /\ writer' = Enqueue(writer, l, Frame(MetadataDelta(stream[l].baseline)))
              /\ \E t : /\ Becomes(l, t) /\ t.events = stream[l].events /\ t.pending = Nothing
                        /\ t.baseline = [Advance(stream[l].baseline, MetadataDelta(stream[l].baseline))
                                            EXCEPT !.follows_live = FALSE]
                        /\ t.aborted = stream[l].aborted /\ t.pc = "streaming"
<1> DEFINE s == stream[l]
           delta == MetadataDelta(s.baseline)
           b == Advance(s.baseline, s.pending)
           m == [Advance(s.baseline, delta) EXCEPT !.follows_live = FALSE]
           no == FALSE
           framing == [s EXCEPT !.pc = "framing", !.pending = Nothing]
           sent == [s EXCEPT !.baseline = b, !.pending = Nothing, !.dirty = no]
           told == [s EXCEPT !.baseline = m, !.dirty = no]
           clean == [s EXCEPT !.dirty = no]
<1>1. s \in StreamStates /\ s.pc = "streaming"
  BY StreamHas DEF Tick
<1>2. \/ EndStream(l)
      \/ Becomes(l, framing) /\ UNCHANGED writer
      \/ /\ s.pending \notin {Nothing, SnapshotRequired}
         /\ "overlap" \notin mishaps' => ~s.aborted \/ Lost(l)
         /\ LaneTakes(writer, l, Frame(s.pending))
         /\ Becomes(l, sent)
         /\ writer' = Enqueue(writer, l, Frame(s.pending))
      \/ /\ s.pending = Nothing /\ delta # Nothing
         /\ "overlap" \notin mishaps' => ~s.aborted \/ Lost(l)
         /\ LaneTakes(writer, l, Frame(delta))
         /\ Becomes(l, told)
         /\ writer' = Enqueue(writer, l, Frame(delta))
      \/ s.pending = Nothing /\ Becomes(l, clean) /\ UNCHANGED writer
  <2>1. SnapshotRequired # Nothing
    BY DEF SnapshotRequired, Nothing, Mark
  <2>2. "overlap" \notin mishaps' /\ s.pending # SnapshotRequired /\ (s.pending # Nothing \/ delta # Nothing)
           => ~s.aborted \/ Lost(l)
    BY DEF Tick, Mishap
  <2> QED
    BY <2>1, <2>2 DEF Tick, AfterMetadata
<1>3. \A u : LaneTakes(writer, l, Frame(u)) => ~Lost(l)
  BY DEF LaneTakes, Lost
<1> HIDE DEF s, delta, b, m, no
<1>4. /\ framing.baseline = s.baseline /\ framing.events = s.events /\ framing.pending = Nothing
      /\ framing.aborted = s.aborted /\ framing.pc = "framing"
  BY <1>1 DEF StreamStates
<1>5. /\ sent.baseline = b /\ sent.events = s.events /\ sent.pending = Nothing
      /\ sent.aborted = s.aborted /\ sent.pc = "streaming"
  BY <1>1 DEF StreamStates
<1>6. /\ told.baseline = m /\ told.events = s.events /\ told.pending = s.pending
      /\ told.aborted = s.aborted /\ told.pc = "streaming"
  BY <1>1 DEF StreamStates
<1>7. /\ clean.baseline = s.baseline /\ clean.events = s.events /\ clean.pending = s.pending
      /\ clean.aborted = s.aborted /\ clean.pc = "streaming"
  BY <1>1 DEF StreamStates
<1> HIDE DEF framing, sent, told, clean
<1>8. \/ EndStream(l)
      \/ \E t : /\ Becomes(l, t) /\ UNCHANGED writer
                /\ t.baseline = s.baseline /\ t.events = s.events /\ t.pending = Nothing
                /\ t.aborted = s.aborted /\ t.pc \in {"streaming", "framing"}
      \/ /\ s.pending \notin {Nothing, SnapshotRequired}
         /\ "overlap" \notin mishaps' => ~s.aborted
         /\ LaneTakes(writer, l, Frame(s.pending))
         /\ writer' = Enqueue(writer, l, Frame(s.pending))
         /\ \E t : /\ Becomes(l, t) /\ t.events = s.events /\ t.pending = Nothing /\ t.baseline = b
                   /\ t.aborted = s.aborted /\ t.pc = "streaming"
      \/ /\ delta # Nothing
         /\ "overlap" \notin mishaps' => ~s.aborted
         /\ LaneTakes(writer, l, Frame(delta))
         /\ writer' = Enqueue(writer, l, Frame(delta))
         /\ \E t : /\ Becomes(l, t) /\ t.events = s.events /\ t.pending = Nothing /\ t.baseline = m
                   /\ t.aborted = s.aborted /\ t.pc = "streaming"
  BY <1>2, <1>3, <1>4, <1>5, <1>6, <1>7
<1> QED
  BY <1>8 DEF s, delta, b, m

\* A stream that sends what is pending, or begins a snapshot
LEMMA TickMatched == \A l \in Lanes : Types /\ Types' /\ Sound /\ Matched /\ Tick(l) => Matched'
<1>1. SUFFICES ASSUME NEW l \in Lanes, Types, Types', Sound, Matched, Tick(l) PROVE Matched'
  OBVIOUS
<1>2. UNCHANGED <<serving, client, request, attachment>> /\ mishaps \subseteq mishaps'
  BY <1>1 DEF Tick, streamRest, terminalVars, Mishap
<1> DEFINE n == screen.sequence
           s == stream[l]
           delta == MetadataDelta(s.baseline)
<1>3. /\ s.baseline \in Baselines /\ s.baseline.sequence \in Nat
      /\ s.pending \in Updates /\ StreamNumbers(s, n) /\ n \in Nat
      /\ "older" \notin mishaps => Continues(s)
  BY <1>1, StreamHas, SoundParts
<1>4. s.pc = "streaming" /\ LaneIdle(writer, l) /\ s.pc \in Opened
  BY <1>1 DEF Tick, Opened
<1>5. /\ 1 <= s.baseline.sequence
      /\ s.pending \in {Nothing, SnapshotRequired} \/ IsUpdate(s.pending, n)
      /\ "older" \notin mishaps => Follows(s.baseline, s.pending)
      /\ PendingRows(s.baseline, s.pending) /\ StreamRows(s)
  BY <1>1, <1>3, <1>4, MatchedParts DEF StreamNumbers, Continues, StreamRows
<1>6. \A u : LaneTakes(writer, l, Frame(u)) => ~Sending(writer, l)
  BY <1>1, <1>4, DrainedSendsNothing DEF LaneTakes
<1>7. \A t \in Threads : capture'[t].pc = "captured" => capture'[t] = capture[t]
  <2>1. CASE EndStream(l)
    BY <1>1, <2>1 DEF EndStream, Types, CaptureTypes, Resting
  <2>2. CASE ~EndStream(l)
    <3>1. UNCHANGED capture \/ capture' = [capture EXCEPT ![l].pc = "look"]
      BY <1>1, <2>2 DEF Tick
    <3> QED
      BY <1>1, <3>1 DEF Types, CaptureTypes, CaptureStates
  <2> QED
    BY <2>1, <2>2
<1>8. CASE EndStream(l)
  BY <1>1, <1>2, <1>8, EndMatched
<1>9. ASSUME NEW t, Becomes(l, t), UNCHANGED writer, t.baseline = s.baseline, t.events = s.events,
             t.pending = Nothing
      PROVE  Matched'
  <2>1. StreamRows(t)
    BY <1>5, <1>9, MarkRows DEF StreamRows
  <2> QED
    BY <1>1, <1>2, <1>4, <1>7, <1>9, <2>1, MoveMatched
<1>10. ASSUME s.pending \notin {Nothing, SnapshotRequired}, "overlap" \notin mishaps' => ~s.aborted,
              LaneTakes(writer, l, Frame(s.pending)),
              writer' = Enqueue(writer, l, Frame(s.pending)),
              NEW t, Becomes(l, t), t.events = s.events, t.pending = Nothing,
              t.baseline = Advance(s.baseline, s.pending)
       PROVE  Matched'
  <2> DEFINE u == s.pending
  <2>1. u \in Updates /\ IsUpdate(u, n) /\ Whole(u) /\ (IsDelta(u) => s.baseline.follows_live)
    BY <1>3, <1>5, <1>10 DEF PendingRows
  <2>2. u.sequence \in Nat /\ u.base \in Int
    BY <1>3, UpdateParts
  <2>3. u.rows # Garbled
    BY <2>1, <2>2 DEF Whole, Garbled
  <2>4. Unmixed(mishaps') => /\ IsDelta(u) => u.base = s.baseline.sequence
                             /\ s.baseline.sequence <= u.sequence
    <3>1. Unmixed(mishaps') => "older" \notin mishaps
      BY <1>2 DEF Unmixed
    <3> QED
      BY <1>3, <1>5, <2>1, <2>2, <3>1 DEF Follows, IsUpdate, IsView, IsSnapshot, IsDelta
  <2>5. t.baseline.sequence = u.sequence
    BY <1>3, <1>10, AdvanceIs
  <2>6. ~Sending(writer, l)
    BY <1>6, <1>10
  <2> QED
    BY <1>1, <1>2, <1>4, <1>7, <1>10, <2>1, <2>3, <2>4, <2>5, <2>6, SendsMatched
<1>11. ASSUME delta # Nothing, "overlap" \notin mishaps' => ~s.aborted,
              LaneTakes(writer, l, Frame(delta)),
              writer' = Enqueue(writer, l, Frame(delta)),
              NEW t, Becomes(l, t), t.events = s.events, t.pending = Nothing,
              t.baseline = [Advance(s.baseline, delta) EXCEPT !.follows_live = FALSE]
       PROVE  Matched'
  <2>1. /\ delta \in Updates /\ IsUpdate(delta, n) /\ delta.base = s.baseline.sequence
        /\ delta.sequence = n
    BY <1>1, <1>3, <1>5, <1>11, MetadataDeltaIs
  <2>2. delta.rows = Same /\ delta.rows # Garbled
    BY <1>11 DEF MetadataDelta, Same, Garbled
  <2>3. t.baseline.sequence = delta.sequence /\ ~t.baseline.follows_live
    BY <1>3, <1>11, <2>1, AdvanceIs, AdvanceRows
  <2>4. ~Sending(writer, l)
    BY <1>6, <1>11
  <2> HIDE DEF delta
  <2> QED
    BY <1>1, <1>2, <1>4, <1>7, <1>11, <2>1, <2>2, <2>3, <2>4, SendsMatched
<1> QED
  BY <1>1, <1>8, <1>9, <1>10, <1>11, TickIs

\* A snapshot of the stream, and after the last one the message that tells the exit
LEMMA SendSnapshotMatched ==
    \A l \in Lanes : Types /\ Types' /\ Sound /\ Matched /\ SendSnapshot(l) => Matched'
<1>1. SUFFICES ASSUME NEW l \in Lanes, Types, Types', Sound, Matched, SendSnapshot(l) PROVE Matched'
  OBVIOUS
<1>2. UNCHANGED <<serving, client, request, attachment>> /\ mishaps \subseteq mishaps'
  BY <1>1 DEF SendSnapshot, streamRest, terminalVars
<1> DEFINE n == screen.sequence
           s == stream[l]
           viewport == CurrentViewport(l, s.scrolled)
           sent == Enqueue(writer, l, Frame(viewport))
           exit == [ExitMessage(s.pending.sequence) EXCEPT !.after_lane = l]
           b == Baseline(viewport)
           no == FALSE
<1>3. /\ s \in StreamStates /\ StreamNumbers(s, n) /\ n \in Nat /\ s.pending.sequence \in Nat
      /\ s.scrolled \in BOOLEAN /\ StreamRows(s)
  BY <1>1, StreamHas, SoundParts, StreamParts, UpdateParts, MatchedParts
<1>4. /\ viewport \in Updates /\ IsView(viewport, n) /\ viewport.sequence = n
      /\ b.sequence = n /\ viewport.rows # Garbled /\ (b.follows_live => Whole(viewport))
  <2>1. CanView(l, s.scrolled) /\ l \in Threads
    BY <1>1, ThreadsAre DEF SendSnapshot
  <2>2. viewport \in Updates
    BY <1>1, <1>3, <2>1, ViewportTyped DEF Types
  <2>3. IsView(viewport, n) /\ viewport.sequence = n
    BY <1>1, ViewportIs
  <2>4. viewport.rows # Garbled /\ (viewport.rows # Scrolled => Whole(viewport))
    BY <1>1, ViewportRows
  <2> HIDE DEF viewport
  <2> QED
    BY <2>2, <2>3, <2>4 DEF Baseline
<1>5. s.pc \in {"opening", "framing", "ending"}
  BY <1>1 DEF SendSnapshot, Snapshots
<1>6. \/ EndStream(l)
      \/ /\ LaneTakes(writer, l, Frame(viewport))
         /\ capture' = [capture EXCEPT ![l] = Resting]
         /\ \/ /\ s.pc = "opening"
               /\ Becomes(l, [s EXCEPT !.pc = "opened", !.baseline = b])
               /\ writer' = sent
            \/ /\ s.pc = "framing"
               /\ Becomes(l, [s EXCEPT !.pc = "streaming", !.baseline = b, !.dirty = no])
               /\ writer' = sent
            \/ /\ s.pc = "ending"
               /\ Becomes(l, [s EXCEPT !.pc = "leaving", !.pending = Nothing])
               /\ writer' = PushReliable(sent, exit)
  BY <1>1 DEF SendSnapshot, ExitMessage
<1>7. "overlap" \notin mishaps' => ~s.aborted \/ Lost(l)
  BY <1>1 DEF SendSnapshot
<1>8. CASE EndStream(l)
  BY <1>1, <1>2, <1>8, EndMatched
<1>9. CASE ~EndStream(l)
  <2>1. LaneTakes(writer, l, Frame(viewport)) /\ ~Lost(l) /\ writer.render[l].open /\ ~writer.closed
    BY <1>6, <1>9 DEF LaneTakes, Lost
  <2>2. ~Sending(writer, l)
    <3>1. Stationed(writer, serving, s.pc, l)
      BY <1>1, <2>1, SoundParts DEF Flow
    <3> QED
      BY <1>5, <2>1, <3>1 DEF Stationed
  <2>3. "overlap" \notin mishaps' => ~s.aborted
    BY <1>7, <2>1
  <2>4. \A k \in Threads : capture'[k].pc = "captured" => capture'[k] = capture[k]
    BY <1>1, <1>6, <1>9 DEF Types, CaptureTypes, Resting
  <2>5. ~IsDelta(viewport) /\ IsUpdate(viewport, n)
    BY <1>4 DEF IsDelta, IsView, IsUpdate
  <2>6. s.pc \in Opened \cup {"opening"}
    BY <1>5 DEF Opened
  <2> HIDE DEF viewport, b, exit, no
  <2>7. ASSUME NEW t, Becomes(l, t), t.baseline = b, t.pending = Nothing, t.events = s.events,
               writer' = sent
        PROVE  Matched'
    BY <1>1, <1>2, <1>4, <2>1, <2>2, <2>3, <2>4, <2>5, <2>6, <2>7, SendsMatched
  <2>8. CASE s.pc = "opening"
    <3> DEFINE t == [s EXCEPT !.pc = "opened", !.baseline = b]
    <3>1. t.baseline = b /\ t.events = s.events /\ t.pending = s.pending
      BY <1>3 DEF StreamStates
    <3>2. Becomes(l, t) /\ writer' = sent
      BY <1>6, <1>9, <2>8
    <3>3. s.pending = Nothing
      BY <1>3, <2>8 DEF StreamNumbers
    <3> HIDE DEF t, s, sent
    <3> QED
      BY <2>7, <3>1, <3>2, <3>3
  <2>9. CASE s.pc = "framing"
    <3> DEFINE t == [s EXCEPT !.pc = "streaming", !.baseline = b, !.dirty = no]
    <3>1. t.baseline = b /\ t.events = s.events /\ t.pending = s.pending
      BY <1>3 DEF StreamStates
    <3>2. Becomes(l, t) /\ writer' = sent
      BY <1>6, <1>9, <2>9
    <3>3. s.pending = Nothing
      BY <1>3, <2>9 DEF StreamNumbers
    <3> HIDE DEF t, s, sent
    <3> QED
      BY <2>7, <3>1, <3>2, <3>3
  <2>10. CASE s.pc = "ending"
    <3> DEFINE t == [s EXCEPT !.pc = "leaving", !.pending = Nothing]
    <3>1. t.pc = "leaving" /\ t.events = s.events /\ t.pending = Nothing /\ t.aborted = s.aborted
      BY <1>3 DEF StreamStates
    <3>2. Becomes(l, t) /\ writer' = PushReliable(sent, exit)
      BY <1>6, <1>9, <2>10
    <3> HIDE DEF t
    <3>3. stream'[l] = t /\ \A k \in Lanes \ {l} : stream'[k] = stream[k]
      BY <1>1, <3>2 DEF Types, StreamTypes, Becomes
    <3>4. t.pc \notin Opened /\ s.pc \in Opened
      BY <2>10, <3>1 DEF Opened
    <3> DEFINE others == stream'
               v == writer'
               due == Due(request)
               more == mishaps'
    <3>5. Good(sent, Messages) /\ ~sent.closed /\ Fleet(sent)
      BY <1>1, <1>2, <1>4, <2>1, <2>2, <2>3, <2>5, <2>6, <3>1, <3>3, <3>4, SendFlow
    <3> HIDE DEF others
    <3>6. /\ others[l].pc \notin Opened /\ \A k \in Lanes \ {l} : others[k] = stream[k]
      BY <3>3, <3>4 DEF others
    <3>7. /\ Rows(sent, others, serving, client.known, client.mirror, due, more)
          /\ Told(sent) = Told(writer) /\ sent.closed = writer.closed
      BY <1>1, <1>2, <1>4, <2>1, <2>2, <2>3, <2>5, <2>6, <3>4, <3>6, SendRows
    <3>8. exit \in Items(Messages) /\ Plain(exit) /\ exit.after_lane = l /\ exit.msg.kind = "exit"
      <4> DEFINE told == s.pending.sequence
      <4>1. told \in Nat /\ exit = [ExitMessage(told) EXCEPT !.after_lane = l]
        BY <1>3 DEF exit
      <4> HIDE DEF told
      <4>2. exit \in Items(Messages) /\ Plain(exit) /\ exit.after_lane = l
        BY <4>1, ExitIs
      <4>3. exit.msg.kind = "exit"
        BY <4>1 DEF ExitMessage, Item
      <4> QED
        BY <4>2, <4>3
    <3>9. v = PushReliable(sent, exit)
      BY <3>2
    <3> HIDE DEF sent, v, due, more
    <3>10. /\ Rows(v, others, serving, client.known, client.mirror, due, more)
           /\ Knowing(writer, client.known) => Knowing(v, client.known)
      <4>1. CASE v.closed
        BY <4>1, RowsClosed DEF Knowing
      <4>2. CASE ~v.closed
        <5>1. Keeps(sent, v) /\ Told(v) = Told(sent) \cup {exit.msg}
          BY <3>5, <3>8, <3>9, <4>2, PushReliableKeeps
        <5>2. v.lane = sent.lane
          BY <3>5, <3>8, <3>9, <4>2, QueuesHand
        <5>3. \A k \in Lanes : Sending(v, k) <=> Sending(sent, k)
          BY <5>1 DEF Keeps, SameFrames
        <5>4. \A k \in Lanes : Sending(sent, k) => Sent(v, k) = Sent(sent, k)
          BY <5>1 DEF Keeps, SameFrames
        <5>5. ~Attaches(exit.msg) /\ ~Introduces(exit.msg)
          BY <3>8 DEF Attaches, Introduces
        <5>6. \A k \in Lanes : Serving(others, serving, k) => Serves(sent, v, others, others, serving, k)
          BY <5>1, <5>2, <5>3, <5>5 DEF Serves
        <5>7. \A u \in due : u.rows # Garbled
          BY <1>1, MatchedParts DEF due
        <5>8. Rows(v, others, serving, client.known, client.mirror, due, more)
          BY <3>5, <3>7, <5>1, <5>3, <5>4, <5>5, <5>6, <5>7, RowsCarried
        <5>9. Knowing(writer, client.known) => Knowing(v, client.known)
          BY <2>1, <3>7, <5>1 DEF Knowing
        <5> QED
          BY <5>8, <5>9
      <4> QED
        BY <4>1, <4>2
    <3>11. StreamRows(t)
      BY <1>3, <3>1 DEF StreamRows
    <3> QED
      BY <1>1, <1>2, <2>4, <3>2, <3>10, <3>11, StreamMatched DEF others, v, due, more
  <2> QED
    BY <1>5, <2>8, <2>9, <2>10
<1> QED
  BY <1>8, <1>9

-----------------------------------------------------------------------------
(* Rows: the requests, the connection, and the beginning.                  *)

\* A stream that is stopped keeps its rows.
LEMMA HaltRows ==
    ASSUME Types, Sound, NEW k \in Lanes
    PROVE  /\ Halted[k].pc = stream[k].pc /\ Halted[k].events = stream[k].events
           /\ Halted[k].baseline = stream[k].baseline /\ Halted[k].pending = stream[k].pending
<1> DEFINE yes == TRUE
           s == stream[k]
           t == [s EXCEPT !.aborted = yes]
<1>1. s \in StreamStates
  BY StreamHas
<1>2. Halted[k] = IF k = serving /\ s.pc # "none" THEN t ELSE s
  BY DEF Halted
<1> HIDE DEF yes, s
<1>3. t.pc = s.pc /\ t.events = s.events /\ t.baseline = s.baseline /\ t.pending = s.pending
  BY <1>1 DEF StreamStates
<1> HIDE DEF t
<1>4. /\ Halted[k].pc = s.pc /\ Halted[k].events = s.events
      /\ Halted[k].baseline = s.baseline /\ Halted[k].pending = s.pending
  BY <1>2, <1>3
<1> QED
  BY <1>4 DEF s

\* The stream of a terminal that is attached starts, and that of one that is not ends.
LEMMA ReconcileRows ==
    ASSUME Types, Sound, Matched, ~writer.closed, mishaps \subseteq mishaps', UNCHANGED client,
           NEW restart, NEW w, Good(w, Messages), ~w.closed, Fleet(w), w.lane = writer.lane,
           \A k \in Lanes : /\ Sending(w, k) <=> Sending(writer, k)
                            /\ Sending(writer, k) => Sent(w, k) = Sent(writer, k)
                            /\ Free(k) => ~w.render[k].open /\ w.lane # k,
           \A m \in Told(w) : \/ m \in Told(writer)
                              \/ /\ Attaches(m) => m.update \in Due(request)
                                 /\ Introduces(m) => restart,
           Reconcile(restart, w), Due(request') \subseteq Due(request)
    PROVE  /\ Rows(writer', stream', serving', client.known, client.mirror, Due(request'), mishaps')
           /\ Told(writer') = Told(w) /\ ~writer'.closed
           /\ \A k \in Lanes : StreamRows(stream'[k])
<1> DEFINE v == writer'
           others == stream'
           later == serving'
           due == Due(request)
           next == Due(request')
           more == mishaps'
           known == client.known
           mirror == client.mirror
<1>1. /\ Rows(writer, stream, serving, known, mirror, due, mishaps)
      /\ \A u \in due : u.rows # Garbled
      /\ \A k \in Lanes : StreamRows(stream[k])
  BY MatchedParts
<1>2. \A k \in Lanes : StreamRows(Halted[k])
  BY <1>1, HaltRows DEF StreamRows
<1>3. StreamRows([NoStream EXCEPT !.pc = "starting"])
  <2> DEFINE none == <<>>
             t == [NoStream EXCEPT !.pc = "starting"]
  <2>1. t.pc = "starting" /\ t.events = none /\ DOMAIN none = {}
    BY EmptySeq DEF NoStream
  <2> HIDE DEF t, none
  <2>2. StreamRows(t)
    BY <2>1 DEF StreamRows
  <2> QED
    BY <2>2 DEF t
<1>4. SUFFICES /\ ~v.closed /\ Told(v) = Told(w)
               /\ \A k \in Lanes : /\ Sending(v, k) <=> Sending(w, k)
                                   /\ Sending(w, k) => Sent(v, k) = Sent(w, k)
               /\ \/ \A k \in Lanes : ~Serving(others, later, k)
                  \/ ~restart /\ v = w /\ others = stream /\ later = serving
               /\ \A k \in Lanes : StreamRows(others[k])
  <2>1. \A k \in Lanes : Sending(v, k) => Sending(writer, k) /\ Sent(v, k) = Sent(writer, k)
    BY <1>4
  <2>2. \A m \in Told(v) : Attaches(m) => m \in Told(writer) \/ m.update \in due
    BY <1>4
  <2>3. \A k \in Lanes : Serving(others, later, k) => Serves(writer, v, stream, others, serving, k)
    <3> SUFFICES ASSUME NEW k \in Lanes, Serving(others, later, k)
                 PROVE  Serves(writer, v, stream, others, serving, k)
      OBVIOUS
    <3>1. ~restart /\ v = w /\ others = stream /\ later = serving
      BY <1>4
    <3> HIDE DEF v, others, later
    <3> QED
      BY <3>1 DEF Serves
  <2>4. \A u \in next : u \in due
    OBVIOUS
  <2> HIDE DEF v, others, later, due, next, more, known, mirror
  <2>5. Rows(v, others, later, known, mirror, next, more)
    <3>1. mishaps \subseteq more
      BY DEF more
    <3> QED
      BY <1>1, <2>1, <2>2, <2>3, <2>4, <3>1, RowsCarried
  <2> QED
    BY <1>4, <2>5 DEF v, others, later, next, more, known, mirror
<1>5. CASE Stop(w)
  <2>1. v = w /\ others = Halted /\ later = NoLane
    BY <1>5 DEF Stop, Halted
  <2> HIDE DEF v, others, later
  <2>2. \A k \in Lanes : ~Serving(others, later, k)
    BY <2>1, WriterAssumption DEF Serving
  <2> QED
    BY <1>2, <2>1, <2>2
<1>6. ASSUME NEW l \in Lanes, Free(l), Start(l, w)
      PROVE  /\ ~v.closed /\ Told(v) = Told(w)
             /\ \A k \in Lanes : /\ Sending(v, k) <=> Sending(w, k)
                                 /\ Sending(w, k) => Sent(v, k) = Sent(w, k)
             /\ \A k \in Lanes : ~Serving(others, later, k)
             /\ \A k \in Lanes : StreamRows(others[k])
  <2> DEFINE starting == [NoStream EXCEPT !.pc = "starting"]
             aborted(k) == [stream[k] EXCEPT !.aborted = TRUE]
  <2>1. others = [k \in Lanes |-> IF k = l THEN starting
                                  ELSE IF k = serving /\ stream[k].pc # "none" THEN aborted(k)
                                  ELSE stream[k]]
    BY <1>6 DEF Start
  <2>2. Halted = [k \in Lanes |-> IF k = serving /\ stream[k].pc # "none" THEN aborted(k) ELSE stream[k]]
    BY DEF Halted
  <2>3. v = OpenLane(w, l) /\ later = l
    BY <1>6 DEF Start
  <2>4. starting.pc \notin Opened
    BY DEF NoStream, Opened
  <2> HIDE DEF starting, aborted, others, v, later
  <2>5. others[l] = starting /\ \A k \in Lanes \ {l} : others[k] = Halted[k]
    BY <2>1, <2>2
  <2>6. OneLane(w, v, l) /\ ~Sending(w, l) /\ ~Sending(v, l)
    BY <1>6, <2>3, OpenLaneKeeps
  <2>7. \A k \in Lanes : ~Serving(others, later, k)
    BY <2>3, <2>4, <2>5 DEF Serving
  <2>8. \A k \in Lanes : StreamRows(others[k])
    BY <1>2, <1>3, <2>5 DEF starting
  <2> QED
    BY <2>6, <2>7, <2>8 DEF OneLane
<1>7. CASE (\E l \in Lanes : Free(l)) /\ Start(CHOOSE l \in Lanes : Free(l), w)
  <2> DEFINE l == CHOOSE k \in Lanes : Free(k)
  <2>1. l \in Lanes /\ Free(l) /\ Start(l, w)
    BY <1>7
  <2> HIDE DEF l
  <2> QED
    BY <1>6, <2>1
<1>8. CASE ~restart /\ writer' = w /\ UNCHANGED streamVars
  <2>1. v = w /\ others = stream /\ later = serving
    BY <1>8 DEF streamVars
  <2> HIDE DEF v, others, later
  <2> QED
    BY <1>1, <1>8, <2>1
<1> QED
  BY <1>5, <1>7, <1>8 DEF Reconcile

\* The other parts of the invariant, when only the streams and the connection change
LEMMA ReconciledMatched ==
    ASSUME Matched, UNCHANGED <<capture, client>>, mishaps \subseteq mishaps',
           Rows(writer', stream', serving', client.known, client.mirror, Due(request'), mishaps'),
           \A k \in Lanes : StreamRows(stream'[k]), ViewRows', Scrolls'
    PROVE  Matched'
<1>1. WriterRows'
  BY DEF WriterRows
<1>2. CaptureRows'
  BY DEF CaptureRows, Matched
<1>3. RowsMatch'
  BY DEF RowsMatch, Matched
<1> QED
  BY <1>1, <1>2, <1>3 DEF Matched

\* The reconcile of another request comes first.
LEMMA ReconcileEarlyMatched ==
    Types /\ Types' /\ Sound /\ Matched /\ ReconcileEarly => Matched'
<1>1. SUFFICES ASSUME Types, Types', Sound, Matched, ReconcileEarly PROVE Matched'
  OBVIOUS
<1>2. /\ UNCHANGED <<capture, client, request, attachment>> /\ mishaps \subseteq mishaps'
      /\ ~writer.closed /\ request.pc = "registered" /\ Reconcile(FALSE, writer)
  BY <1>1 DEF ReconcileEarly, hostSide, Mishap
<1>3. Good(writer, Messages) /\ Fleet(writer)
  BY <1>1, <1>2, SoundParts DEF Flow
<1>4. \A k \in Lanes : Free(k) => ~writer.render[k].open /\ writer.lane # k
  BY <1>1, <1>3, FreeLane
<1>5. /\ Rows(writer', stream', serving', client.known, client.mirror, Due(request'), mishaps')
      /\ Told(writer') = Told(writer) /\ ~writer'.closed
      /\ \A k \in Lanes : StreamRows(stream'[k])
  BY <1>1, <1>2, <1>3, <1>4, ReconcileRows
<1>6. Knowing(writer, client.known) => Knowing(writer', client'.known)
  BY <1>2, <1>5 DEF Knowing
<1>7. ViewRows' /\ Scrolls'
  BY <1>1, <1>2, <1>6 DEF Matched, ViewRows, Scrolls
<1> QED
  BY <1>1, <1>2, <1>5, <1>7, ReconciledMatched

\* A request is answered: its response, then its stream.
LEMMA AnswerMatched == Types /\ Types' /\ Sound /\ Matched /\ Answer => Matched'
<1>1. SUFFICES ASSUME Types, Types', Sound, Matched, Answer PROVE Matched'
  OBVIOUS
<1> DEFINE item == Item(Response(request), 1)
           w == PushReliable(writer, item)
           restart == request.kind \in {"spawn", "attach"}
           known == client.known
<1>2. /\ UNCHANGED <<capture, client, mishaps, attachment>> /\ request' = NoRequest
      /\ request.pc = "registered" /\ ~writer.closed
  BY <1>1 DEF Answer, hostSide
<1>3. \/ w.closed /\ writer' = w /\ UNCHANGED streamVars
      \/ ~w.closed /\ Reconcile(restart, w)
  BY <1>1 DEF Answer
<1>4. Good(writer, Messages) /\ Fleet(writer)
  BY <1>1, <1>2, SoundParts DEF Flow
<1>5. /\ item \in Items(Messages) /\ Plain(item) /\ item.after_lane = NoLane
      /\ item.msg.kind = "response" /\ item.msg.of = request.kind
      /\ item.msg.update = request.viewport
  BY <1>1, ResponseIs
<1>6. /\ Introduces(item.msg) <=> restart
      /\ Attaches(item.msg) => item.msg.update \in Due(request)
  BY <1>2, <1>5 DEF Introduces, Attaches, Due
<1>7. ~restart => known
  BY <1>1, <1>2 DEF Sound, Acquainted
<1>8. Due(request') = {} /\ request'.pc = "none"
  BY <1>2 DEF Due, NoRequest
<1>9. client.connected
  BY <1>1, <1>2 DEF Matched, Scrolls
<1>10. w.closed \/ (/\ Good(w, Messages)
                    /\ \A l \in Lanes : Free(l) => ~w.render[l].open /\ w.lane # l)
  BY <1>1, <1>2, AnsweredFlow
<1>11. w = PushReliable(writer, item)
  OBVIOUS
<1> HIDE DEF w, item, restart
<1>12. SUFFICES /\ Rows(writer', stream', serving', known, client.mirror, Due(request'), mishaps')
                /\ \A k \in Lanes : StreamRows(stream'[k])
                /\ Knowing(writer', known)
  <2>1. ViewRows' /\ Scrolls'
    BY <1>1, <1>2, <1>8, <1>9, <1>12 DEF ViewRows, Scrolls, Matched
  <2> QED
    BY <1>1, <1>2, <1>12, <2>1, ReconciledMatched
<1>13. CASE w.closed /\ writer' = w /\ UNCHANGED streamVars
  <2>1. stream' = stream
    BY <1>13 DEF streamVars
  <2>2. Rows(writer', stream', serving', known, client.mirror, Due(request'), mishaps')
    <3> DEFINE v == writer'
               others == stream'
               later == serving'
               due == Due(request')
               more == mishaps'
    <3>1. v.closed
      BY <1>13
    <3> HIDE DEF v, others, later, due, more
    <3>2. Rows(v, others, later, known, client.mirror, due, more)
      BY <3>1, RowsClosed
    <3> QED
      BY <3>2 DEF v, others, later, due, more
  <2> QED
    BY <1>1, <1>13, <2>1, <2>2 DEF Knowing, Matched
<1>14. CASE ~w.closed /\ Reconcile(restart, w)
  <2>1. /\ Keeps(writer, w) /\ Told(w) = Told(writer) \cup {item.msg}
    BY <1>2, <1>4, <1>5, <1>11, <1>14, PushReliableKeeps
  <2>2. w.lane = writer.lane
    BY <1>2, <1>4, <1>5, <1>11, <1>14, QueuesHand
  <2>3. /\ Fleet(w)
        /\ \A k \in Lanes : /\ Sending(w, k) <=> Sending(writer, k)
                            /\ Sending(writer, k) => Sent(w, k) = Sent(writer, k)
                            /\ Free(k) => ~w.render[k].open /\ w.lane # k
    BY <1>10, <1>14, <2>1 DEF Keeps, SameFrames
  <2>4. \A m \in Told(w) : \/ m \in Told(writer)
                           \/ /\ Attaches(m) => m.update \in Due(request)
                              /\ Introduces(m) => restart
    BY <1>6, <2>1
  <2>5. /\ Rows(writer', stream', serving', known, client.mirror, Due(request'), mishaps')
        /\ Told(writer') = Told(w)
        /\ \A k \in Lanes : StreamRows(stream'[k])
    BY <1>1, <1>2, <1>8, <1>10, <1>14, <2>2, <2>3, <2>4, ReconcileRows
  <2>6. Knowing(writer', known)
    BY <1>6, <1>7, <2>1, <2>5 DEF Knowing
  <2> QED
    BY <2>5, <2>6
<1> QED
  BY <1>3, <1>13, <1>14

\* Only the connection moves, and nobody is told more.
LEMMA WriterMatched ==
    ASSUME Types, Sound, Matched, UNCHANGED <<capture, client, mishaps, request, stream, serving, attachment>>,
           Rows(writer', stream, serving, client.known, client.mirror, Due(request), mishaps),
           Knowing(writer, client.known) => Knowing(writer', client.known)
    PROVE  Matched'
<1>1. \A k \in Lanes : StreamRows(stream'[k])
  BY DEF Matched
<1>2. Knowing(writer, client.known) => Knowing(writer', client'.known)
  OBVIOUS
<1>3. ViewRows' /\ Scrolls'
  BY <1>2 DEF Matched, ViewRows, Scrolls
<1> QED
  BY <1>1, <1>3, ReconciledMatched

\* Other messages are sent.
LEMMA SendOtherMatched == Types /\ Types' /\ Sound /\ Matched /\ SendOther => Matched'
<1>1. SUFFICES ASSUME Types, Types', Sound, Matched, SendOther PROVE Matched'
  OBVIOUS
<1>2. UNCHANGED <<capture, client, mishaps, request, stream, serving, attachment>>
  BY <1>1 DEF SendOther, hostSide, streamVars
<1> DEFINE known == client.known
           mirror == client.mirror
           due == Due(request)
<1>3. /\ Good(writer, Messages)
      /\ Rows(writer, stream, serving, known, mirror, due, mishaps)
      /\ \A u \in due : u.rows # Garbled
  BY <1>1, SoundParts, MatchedParts
<1>4. PICK chunks \in {1, 2} : writer' \in {PushInteractive(writer, Item(OtherMessage, chunks)),
                                            PushReliable(writer, Item(OtherMessage, chunks)),
                                            PushLatest(writer, Item(OtherMessage, chunks))}
  BY <1>1 DEF SendOther, OtherMessage
<1> DEFINE item == Item(OtherMessage, chunks)
           v == writer'
<1>5. /\ item \in Items(Messages) /\ Plain(item) /\ item.after_lane = NoLane
      /\ item.msg = OtherMessage /\ item.msg.kind = "other" /\ ~Attaches(item.msg)
  BY OtherIs
<1>6. v \in {PushInteractive(writer, item), PushReliable(writer, item), PushLatest(writer, item)}
  BY <1>4
<1>7. SUFFICES /\ Rows(v, stream, serving, known, mirror, due, mishaps)
               /\ Knowing(writer, known) => Knowing(v, known)
  BY <1>1, <1>2, WriterMatched
<1> HIDE DEF item, known, mirror, due, v
<1>8. CASE writer.closed
  <2>1. v = writer
    BY <1>6, <1>8 DEF PushInteractive, PushReliable, PushLatest
  <2> QED
    BY <1>3, <2>1
<1>9. CASE v.closed
  BY <1>9, RowsClosed DEF Knowing
<1>10. CASE ~writer.closed /\ ~v.closed
  <2>1. Fleet(writer)
    BY <1>1, <1>10, SoundParts DEF Flow
  <2>2. Keeps(writer, v) /\ Told(v) \subseteq Told(writer) \cup {item.msg}
    BY <1>3, <1>5, <1>6, <1>10, <2>1, PushInteractiveKeeps, PushReliableKeeps, PushLatestKeeps
  <2>3. v.lane = writer.lane /\ \A m \in Told(writer) : m.kind # "other" => m \in Told(v)
    BY <1>3, <1>5, <1>6, <1>10, <2>1, QueuesHand
  <2>4. \A k \in Lanes : /\ Sending(v, k) <=> Sending(writer, k)
                         /\ Sending(writer, k) => Sent(v, k) = Sent(writer, k)
    BY <2>2 DEF Keeps, SameFrames
  <2>5. ~Introduces(item.msg)
    BY <1>5 DEF Introduces
  <2>6. \A k \in Lanes : Serving(stream, serving, k) => Serves(writer, v, stream, stream, serving, k)
    BY <2>2, <2>3, <2>4, <2>5 DEF Serves
  <2>7. Rows(v, stream, serving, known, mirror, due, mishaps)
    BY <1>3, <1>5, <1>10, <2>2, <2>4, <2>6, RowsCarried
  <2>8. Knowing(writer, known) => Knowing(v, known)
    BY <1>10, <2>3 DEF Knowing, Introduces
  <2> QED
    BY <2>7, <2>8
<1> QED
  BY <1>8, <1>9, <1>10

\* A frame is taken; the connection is lost.
LEMMA WriterTaskMatched ==
    Types /\ Types' /\ Sound /\ Matched /\ (LoseConnection \/ Take) => Matched'
<1>1. SUFFICES ASSUME Types, Types', Sound, Matched, LoseConnection \/ Take PROVE Matched'
  OBVIOUS
<1>2. /\ UNCHANGED <<capture, client, mishaps, request, stream, serving, attachment>>
      /\ ~writer.closed
  BY <1>1 DEF LoseConnection, Take, TakeFrame, CloseWriter, hostSide, streamVars
<1> DEFINE known == client.known
           mirror == client.mirror
           due == Due(request)
           v == writer'
           w == writer
<1>3. /\ Good(w, Messages) /\ Fleet(w)
      /\ Rows(w, stream, serving, known, mirror, due, mishaps)
      /\ \A u \in due : u.rows # Garbled
      /\ \A l \in Lanes : Stationed(w, serving, stream[l].pc, l)
  BY <1>1, <1>2, SoundParts, MatchedParts DEF Flow
<1>4. SUFFICES /\ Rows(v, stream, serving, known, mirror, due, mishaps)
               /\ Knowing(w, known) => Knowing(v, known)
  BY <1>1, <1>2, WriterMatched
<1>5. CASE LoseConnection
  <2>1. v.closed
    BY <1>5 DEF LoseConnection, CloseWriter, ClosedWriter
  <2> HIDE DEF known, mirror, due, v
  <2> QED
    BY <2>1, RowsClosed DEF Knowing
<1>6. CASE Take
  <2>1. v = Select(w) /\ w.slot = "none"
    BY <1>6 DEF Take, TakeFrame
  <2> HIDE DEF known, mirror, due, v
  <2>2. Carries(w, v) /\ Hands(w, v)
    BY <1>2, <1>3, <2>1, SelectKeeps, SelectHands
  <2>3. Told(v) = Told(w) /\ v.closed = w.closed
    BY <2>2 DEF Carries, Keeps, Hands
  <2>4. \A k \in Lanes : /\ Sending(v, k) <=> Sending(w, k)
                         /\ Sending(w, k) => Sent(v, k) = Sent(w, k)
    BY <2>2 DEF Carries, Keeps, SameFrames
  <2>5. ASSUME NEW k \in Lanes, Serving(stream, serving, k)
        PROVE  Serves(w, v, stream, stream, serving, k)
    <3>1. k \notin Awaited(w)
      BY <1>3, <2>5 DEF Stationed, Serving, Opened
    <3>2. v.lane = k /\ w.lane # k => Told(v) = {}
      BY <2>2, <3>1 DEF Hands
    <3> QED
      BY <2>3, <2>4, <2>5, <3>2 DEF Serves
  <2>6. Rows(v, stream, serving, known, mirror, due, mishaps)
    BY <1>2, <1>3, <2>3, <2>4, <2>5, RowsCarried
  <2> QED
    BY <2>3, <2>6 DEF Knowing
<1> QED
  BY <1>1, <1>5, <1>6

\* What a frame makes of the mirror, and a message of it and of what the Client knows
LEMMA FrameReached ==
    ASSUME NEW c \in Clients, NEW u, NEW d, d = AfterUpdateFrame(c, u)
    PROVE  d.connected = c.connected /\ d.known = c.known /\ d.mirror = Reached(c.mirror, c.known, u)
<1> DEFINE applied == IF c.mirror # Nothing THEN Apply(c.mirror, u)
                      ELSE IF IsSnapshot(u) THEN u ELSE Gap
           yes == TRUE
           gone == [c EXCEPT !.gap = yes]
           new == [c EXCEPT !.mirror = applied]
<1>1. d = IF ~c.known /\ c.mirror = Nothing THEN c ELSE IF applied = Gap THEN gone ELSE new
  BY DEF AfterUpdateFrame
<1>2. Reached(c.mirror, c.known, u) = IF ~c.known /\ c.mirror = Nothing THEN c.mirror
                                      ELSE IF applied = Gap THEN c.mirror ELSE applied
  BY DEF Reached
<1> HIDE DEF applied, yes
<1>3. /\ gone.connected = c.connected /\ gone.known = c.known /\ gone.mirror = c.mirror
      /\ new.connected = c.connected /\ new.known = c.known /\ new.mirror = applied
  BY DEF Clients
<1> HIDE DEF gone, new
<1> QED
  BY <1>1, <1>2, <1>3

\* A message that is no frame reaches the mirror only as the viewport it attaches with.
LEMMA MessageReached ==
    ASSUME NEW c \in Clients, NEW m \in Messages, m.kind # "frame",
           NEW d, d = AfterFrames(c, [msg |-> m, last |-> TRUE])
    PROVE  /\ d.connected = c.connected
           /\ d.known <=> c.known \/ Introduces(m)
           /\ d.mirror = c.mirror \/ (c.mirror = Nothing /\ Attaches(m) /\ d.mirror = m.update)
<1> DEFINE yes == TRUE
           no == FALSE
           mirror == IF c.mirror = Nothing THEN m.update ELSE c.mirror
           spawned == [c EXCEPT !.known = yes, !.attached = yes]
           attached == [c EXCEPT !.known = yes, !.attached = yes, !.mirror = mirror]
           detached == [c EXCEPT !.attached = no]
           told == [c EXCEPT !.told = m.update.sequence]
<1>1. yes = TRUE /\ m.kind \in {"response", "exit", "other"}
  BY DEF Messages
<1>2. /\ Attaches(m) => d = attached /\ Introduces(m)
      /\ Introduces(m) /\ ~Attaches(m) => d = spawned
      /\ ~Introduces(m) => d \in {c, detached, told}
  BY <1>1 DEF AfterFrames, AfterResponse, Attaches, Introduces
<1>3. mirror = c.mirror \/ (c.mirror = Nothing /\ mirror = m.update)
  OBVIOUS
<1> HIDE DEF yes, no, mirror
<1>4. /\ spawned.connected = c.connected /\ spawned.known = yes /\ spawned.mirror = c.mirror
      /\ attached.connected = c.connected /\ attached.known = yes /\ attached.mirror = mirror
  BY DEF Clients
<1>5. /\ detached.connected = c.connected /\ detached.known = c.known /\ detached.mirror = c.mirror
      /\ told.connected = c.connected /\ told.known = c.known /\ told.mirror = c.mirror
  BY DEF Clients
<1>6. c.known \in BOOLEAN
  BY DEF Clients
<1> HIDE DEF spawned, attached, detached, told
<1>7. CASE Attaches(m)
  BY <1>1, <1>2, <1>3, <1>4, <1>7
<1>8. CASE Introduces(m) /\ ~Attaches(m)
  BY <1>1, <1>2, <1>4, <1>8
<1>9. CASE ~Introduces(m)
  BY <1>2, <1>5, <1>6, <1>9
<1> QED
  BY <1>2, <1>7, <1>8, <1>9

\* A frame is written, and the Client has what it ends.
LEMMA DeliverMatched == Types /\ Types' /\ Sound /\ Matched /\ Deliver => Matched'
<1>1. SUFFICES ASSUME Types, Types', Sound, Matched, Deliver PROVE Matched'
  OBVIOUS
<1>2. /\ UNCHANGED <<capture, mishaps, request, stream, serving, attachment>>
      /\ writer.slot # "none" /\ writer' = Finish(writer) /\ client' = AfterFrames(client, Written)
  BY <1>1 DEF Deliver, WriteFrame, hostSide, streamVars
<1> DEFINE n == screen.sequence
           known == client.known
           mirror == client.mirror
           due == Due(request)
           w == writer
           v == writer'
           m == Written.msg
<1>3. /\ Good(w, Messages) /\ n \in Nat /\ mirror \in Updates /\ Based(stream)
      /\ Flow(w, stream, serving, known, mirror.sequence, n, mishaps)
      /\ Rows(w, stream, serving, known, mirror, due, mishaps)
      /\ \A u \in due : u.rows # Garbled
      /\ Unmixed(mishaps) => mirror.rows # Garbled
  BY <1>1, SoundParts, MatchedParts
<1>4. ~w.closed
  BY <1>2, <1>3 DEF Flow
<1>5. Fleet(w) /\ WriterNumbers(w, n)
  BY <1>3, <1>4 DEF Flow
<1>6. /\ client \in Clients /\ Mirrors(mirror, n) /\ m \in Messages /\ Written.last \in BOOLEAN
  BY <1>1, <1>2, WrittenTyped
     DEF Types, ClientTypes, Clients, Sound, Numbers, MirrorNumbers, Mirrors
<1>7. Written = [msg |-> m, last |-> Written.last]
  BY DEF Written
<1>8. SUFFICES /\ client'.connected = client.connected
               /\ Rows(v, stream, serving, client'.known, client'.mirror, due, mishaps)
               /\ Unmixed(mishaps) => client'.mirror.rows # Garbled
               /\ Knowing(w, known) => Knowing(v, client'.known)
  <2>1. WriterRows'
    BY <1>2, <1>8 DEF WriterRows
  <2>2. CaptureRows' /\ \A k \in Lanes : StreamRows(stream'[k])
    BY <1>1, <1>2 DEF CaptureRows, Matched
  <2>3. ViewRows' /\ Scrolls'
    BY <1>1, <1>2, <1>8 DEF Matched, ViewRows, Scrolls
  <2>4. RowsMatch'
    BY <1>2, <1>8 DEF RowsMatch, Unmixed
  <2> QED
    BY <2>1, <2>2, <2>3, <2>4 DEF Matched
<1>9. w.slot \in {"interactive", "current"} /\ Taken(w).left \in Nat /\ w.lane \in Lanes \cup {NoLane}
  BY <1>2, <1>3, TakenParts, WriterParts DEF Good
<1>10. /\ v.lane \in {w.lane, NoLane}
       /\ \A x \in Told(w) :
             x \in Told(v) \/ (w.slot = "current" /\ w.current.left = 0 /\ x = w.current.msg)
  BY <1>2, <1>3, <1>5, FinishHands
<1>11. CASE w.slot = "interactive" \/ w.current.left # 0
  <2>1. /\ Keeps(w, v) /\ Told(v) = Told(w)
        /\ w.slot = "interactive" => w.current_interactive.msg.kind = "other"
    BY <1>2, <1>3, <1>5, <1>9, <1>11, FinishKeeps
  <2>2. ~Written.last \/ m.kind = "other"
    BY <1>9, <1>11, <2>1 DEF Written
  <2>3. client' = client
    BY <1>2, <2>2 DEF AfterFrames
  <2>4. \A k \in Lanes : /\ Sending(v, k) <=> Sending(w, k)
                         /\ Sending(w, k) => Sent(v, k) = Sent(w, k)
    BY <2>1 DEF Keeps, SameFrames
  <2> HIDE DEF known, mirror, due, v
  <2>5. \A k \in Lanes : Serving(stream, serving, k) => Serves(w, v, stream, stream, serving, k)
    BY <1>10, <2>1, <2>4, WriterAssumption DEF Serves
  <2>6. Rows(v, stream, serving, known, mirror, due, mishaps)
    BY <1>3, <1>4, <2>1, <2>4, <2>5, RowsCarried
  <2>7. Knowing(w, known) => Knowing(v, known)
    BY <2>1 DEF Knowing, Keeps
  <2> QED
    BY <1>3, <2>3, <2>6, <2>7 DEF known, mirror
<1>12. CASE w.slot = "current" /\ w.current.left = 0
  <2>1. m = w.current.msg /\ Written.last = TRUE
    BY <1>12 DEF Written
  <2>2. client' = AfterFrames(client, [msg |-> m, last |-> TRUE])
    BY <1>2, <1>7, <2>1
  <2>3. CASE w.lane = NoLane
    <3>1. m \in Told(w) /\ m.kind # "frame"
      BY <1>2, <1>3, <1>5, <1>12, <2>1, <2>3, FinishMessage
    <3> DEFINE knows == client'.known
               reached == client'.mirror
    <3>2. /\ client'.connected = client.connected
          /\ knows <=> known \/ Introduces(m)
          /\ reached = mirror \/ (mirror = Nothing /\ Attaches(m) /\ reached = m.update)
      BY <1>6, <2>2, <3>1, MessageReached
    <3>3. v = Finish(w)
      BY <1>2
    <3> HIDE DEF m, n, knows, reached, known, mirror, due, v
    <3>4. /\ Rows(v, stream, serving, knows, reached, due, mishaps)
          /\ Unmixed(mishaps) => reached.rows # Garbled
      BY <1>3, <1>4, <1>12, <2>1, <2>3, <3>2, <3>3, RowsTells
    <3>5. Knowing(w, known) => Knowing(v, knows)
      BY <1>4, <1>10, <2>1, <3>2 DEF Knowing
    <3> QED
      BY <3>2, <3>4, <3>5 DEF knows, reached
  <2>4. CASE w.lane \in Lanes
    <3> DEFINE u == m.update
               reached == client'.mirror
    <3>1. m.kind = "frame" /\ Told(v) = Told(w) /\ v.closed = w.closed
      BY <1>2, <1>3, <1>5, <1>12, <2>1, <2>4, FinishFrame
    <3>2. client' = AfterUpdateFrame(client, u)
      BY <2>2, <3>1 DEF AfterFrames
    <3>3. /\ client'.connected = client.connected /\ client'.known = known
          /\ reached = Reached(mirror, known, u)
      BY <1>6, <3>2, FrameReached
    <3>4. u = w.current.msg.update /\ v = Finish(w)
      BY <1>2, <2>1
    <3> HIDE DEF u, n, reached, known, mirror, due, v
    <3>5. /\ Rows(v, stream, serving, known, reached, due, mishaps)
          /\ Unmixed(mishaps) => reached.rows # Garbled
      BY <1>3, <1>4, <1>6, <1>12, <2>4, <3>3, <3>4, RowsDelivers
    <3>6. Knowing(w, known) => Knowing(v, known)
      BY <3>1 DEF Knowing
    <3> QED
      BY <3>3, <3>5, <3>6 DEF reached
  <2> QED
    BY <1>9, <2>3, <2>4
<1> QED
  BY <1>9, <1>11, <1>12

\* The connection ends.
LEMMA DisconnectMatched == Types /\ Types' /\ Sound /\ Matched /\ Disconnect => Matched'
<1>1. SUFFICES ASSUME Types, Types', Sound, Matched, Disconnect PROVE Matched'
  OBVIOUS
<1>2. /\ UNCHANGED <<capture, mishaps>> /\ request' = NoRequest /\ writer' = ClosedWriter(writer)
  BY <1>1 DEF Disconnect, hostSide
<1>3. client'.known = client.known /\ client'.mirror = client.mirror
  BY <1>1 DEF Disconnect, Types, ClientTypes
<1>4. writer'.closed
  BY <1>2 DEF ClosedWriter
<1>5. ~attachment'.attached /\ ~attachment'.scrolled
  <2> DEFINE no == FALSE
             a == [attachment EXCEPT !.attached = no, !.scrolled = no]
  <2>1. attachment' = a /\ ~no
    BY <1>1 DEF Disconnect
  <2> HIDE DEF no
  <2>2. a.attached = no /\ a.scrolled = no
    BY <1>1 DEF Types, AttachmentTypes
  <2> HIDE DEF a
  <2> QED
    BY <2>1, <2>2
<1>6. ASSUME NEW l \in Lanes PROVE StreamRows(stream'[l])
  <2> DEFINE yes == TRUE
             s == stream[l]
             t == [s EXCEPT !.changed = yes, !.detached = yes, !.aborted = yes]
  <2>1. s \in StreamStates
    BY <1>1, StreamHas
  <2>2. stream'[l] = IF s.pc = "none" THEN s ELSE t
    BY <1>1 DEF Disconnect
  <2>3. StreamRows(s)
    BY <1>1 DEF Matched
  <2> HIDE DEF yes, s
  <2>4. t.pc = s.pc /\ t.events = s.events /\ t.baseline = s.baseline /\ t.pending = s.pending
    BY <2>1 DEF StreamStates
  <2> HIDE DEF t
  <2> QED
    BY <2>2, <2>3, <2>4 DEF StreamRows
<1>7. Due(request') = {} /\ request'.pc = "none"
  BY <1>2 DEF Due, NoRequest
<1>8. CaptureRows' /\ ViewRows' /\ Scrolls'
  <2>1. CaptureRows'
    BY <1>1, <1>2 DEF Matched, CaptureRows
  <2> QED
    BY <1>5, <1>7, <2>1 DEF ViewRows, Scrolls
<1>9. WriterRows'
  BY <1>4 DEF WriterRows, Rows
<1>10. RowsMatch'
  BY <1>1, <1>2, <1>3 DEF Matched, RowsMatch
<1> QED
  BY <1>6, <1>8, <1>9, <1>10 DEF Matched

\* A new writer has nothing on its way that could be garbled.
LEMMA NewRows ==
    ASSUME NEW w, Told(w) = {}, \A l \in Lanes : ~Sending(w, l), NEW streams, NEW srv, NEW known,
           NEW mirror, NEW due, NEW faults,
           \A l \in Lanes : Serving(streams, srv, l)
                               => Backed(w, streams[l].baseline, known, mirror, l)
    PROVE  Rows(w, streams, srv, known, mirror, due, faults)
BY DEF Rows, Fitting

\* The Client connects again.
LEMMA ReconnectMatched == Types /\ Types' /\ Sound /\ Matched /\ Reconnect => Matched'
<1>1. SUFFICES ASSUME Types, Types', Sound, Matched, Reconnect PROVE Matched'
  OBVIOUS
<1>2. /\ UNCHANGED <<capture, mishaps, serving>> /\ writer' = NewWriter /\ ~client.connected
  BY <1>1 DEF Reconnect, hostSide
<1>3. client'.known = client.known /\ client'.mirror = client.mirror /\ client'.connected
  <2> DEFINE yes == TRUE
             no == FALSE
             t == [client EXCEPT !.connected = yes, !.gap = no]
  <2>1. client' = t /\ yes
    BY <1>1 DEF Reconnect
  <2> HIDE DEF yes, no
  <2>2. t.known = client.known /\ t.mirror = client.mirror /\ t.connected = yes
    BY <1>1 DEF Types, ClientTypes
  <2> HIDE DEF t
  <2> QED
    BY <2>1, <2>2
<1>4. serving = NoLane /\ ~attachment.attached /\ ~attachment.scrolled /\ request.pc = "none"
  BY <1>1, <1>2 DEF Sound, Acquainted, Matched, Scrolls
<1>5. \/ Register("subscribe", Nothing)
      \/ UNCHANGED <<stream, request, attachment>>
  BY <1>1 DEF Reconnect
<1>6. /\ Due(request') = {} /\ ~attachment'.scrolled
      /\ attachment'.attached => request'.pc = "registered"
  <2>1. CASE Register("subscribe", Nothing)
    <3> DEFINE yes == TRUE
               a == [attachment EXCEPT !.attached = yes]
    <3>1. attachment' = a /\ request'.pc = "registered" /\ request'.kind = "subscribe"
      BY <2>1 DEF Register, Attachment
    <3> HIDE DEF yes
    <3>2. a.scrolled = attachment.scrolled
      BY <1>1 DEF Types, AttachmentTypes
    <3> HIDE DEF a
    <3> QED
      BY <1>4, <3>1, <3>2 DEF Due
  <2>2. CASE UNCHANGED <<stream, request, attachment>>
    BY <1>4, <2>2 DEF Due
  <2> QED
    BY <1>5, <2>1, <2>2
<1>7. ASSUME NEW l \in Lanes PROVE StreamRows(stream'[l])
  <2>1. StreamRows(stream[l]) /\ stream[l] \in StreamStates
    BY <1>1, StreamHas DEF Matched
  <2>2. CASE Register("subscribe", Nothing)
    <3> DEFINE yes == TRUE
               a == [attachment EXCEPT !.attached = yes]
               s == stream[l]
               revised == s.revised \/ a.scrolled # attachment.scrolled
               detached == s.detached \/ ~a.attached
               t == [s EXCEPT !.changed = yes, !.revised = revised, !.detached = detached]
    <3>1. stream'[l] = IF s.pc = "none" THEN s ELSE t
      BY <2>2 DEF Register, Attachment
    <3> HIDE DEF yes, a, revised, detached, s
    <3>2. t.pc = s.pc /\ t.events = s.events /\ t.baseline = s.baseline /\ t.pending = s.pending
      BY <2>1 DEF StreamStates, s
    <3> HIDE DEF t
    <3> QED
      BY <2>1, <3>1, <3>2 DEF StreamRows, s
  <2>3. CASE UNCHANGED <<stream, request, attachment>>
    BY <2>1, <2>3
  <2> QED
    BY <1>5, <2>2, <2>3
<1>8. WriterRows'
  <2> DEFINE v == writer'
             others == stream'
             due == Due(request')
  <2>1. Told(v) = {} /\ \A l \in Lanes : ~Sending(v, l)
    <3>1. Alone([k \in Lanes |-> NoStream], NoLane)
      BY DEF Alone, NoStream
    <3> QED
      BY <1>2, <3>1, NewFlow
  <2>2. \A l \in Lanes : ~Serving(others, serving, l)
    BY <1>4, WriterAssumption DEF Serving
  <2> HIDE DEF v, others, due
  <2>3. Rows(v, others, serving, client.known, client.mirror, due, mishaps)
    BY <2>1, <2>2, NewRows
  <2> QED
    BY <1>2, <1>3, <2>3 DEF WriterRows, v, others, due
<1>9. CaptureRows' /\ ViewRows' /\ Scrolls'
  <2>1. CaptureRows'
    BY <1>1, <1>2 DEF Matched, CaptureRows
  <2> QED
    BY <1>3, <1>6, <2>1 DEF ViewRows, Scrolls
<1>10. RowsMatch'
  BY <1>1, <1>2, <1>3 DEF Matched, RowsMatch
<1> QED
  BY <1>7, <1>8, <1>9, <1>10 DEF Matched

\* The rows at the beginning
LEMMA InitMatched == Init => Matched
<1>1. SUFFICES ASSUME Init PROVE Matched
  OBVIOUS
<1> DEFINE l == CHOOSE lane \in Lanes : TRUE
           opening == Viewport(1, 0, 1)
           b == Baseline(opening)
           started == [NoStream EXCEPT !.pc = "streaming", !.baseline = b]
           yes == TRUE
           no == FALSE
<1>2. /\ capture = [t \in Threads |-> Resting] /\ request = NoRequest /\ mishaps = {}
  BY <1>1 DEF Init
<1>3. \/ /\ stream = [k \in Lanes |-> NoStream] /\ serving = NoLane
         /\ writer = NewWriter /\ attachment = Detached
         /\ client = [connected |-> yes, known |-> no, attached |-> no,
                      mirror |-> Nothing, told |-> 0, gap |-> no]
      \/ /\ stream = [k \in Lanes |-> IF k # l THEN NoStream ELSE started]
         /\ serving = l
         /\ writer = OpenLane(NewWriter, l) /\ attachment = [Detached EXCEPT !.attached = yes]
         /\ client = [connected |-> yes, known |-> yes, attached |-> yes,
                      mirror |-> opening, told |-> 0, gap |-> no]
  BY <1>1 DEF Init
<1>4. l \in Lanes
  BY StreamAssumption
<1>5. /\ b.sequence = 1 /\ opening.sequence = 1 /\ opening.rows = 1
      /\ opening # Nothing /\ opening.rows # Garbled /\ Nothing.rows # Garbled
  BY DEF Baseline, Viewport, Nothing, Mark, Garbled, Same
<1>6. /\ started.pc = "streaming" /\ started.baseline = b /\ started.pending = Nothing
      /\ started.events = <<>> /\ NoStream.pc = "none" /\ NoStream.events = <<>>
      /\ DOMAIN <<>> = {}
  BY EmptySeq DEF NoStream
<1>7. StreamRows(NoStream) /\ StreamRows(started)
  <2> DEFINE none == <<>>
  <2>1. /\ started.events = none /\ NoStream.events = none /\ DOMAIN none = {}
    BY <1>6
  <2> HIDE DEF started, none, b
  <2> QED
    BY <1>6, <2>1, MarkRows DEF StreamRows
<1>8. /\ ~Detached.scrolled /\ ~Detached.attached
      /\ ~[Detached EXCEPT !.attached = yes].scrolled
      /\ yes /\ ~no
  BY DEF Detached
<1>9. Told(NewWriter) = {} /\ \A k \in Lanes : ~Sending(NewWriter, k) /\ ~NewWriter.render[k].open
  <2>1. Alone([k \in Lanes |-> NoStream], NoLane)
    BY DEF Alone, NoStream
  <2> QED
    BY <2>1, NewFlow
<1>10. Fleet(NewWriter) /\ NewWriter.lane = NoLane
  <2>1. Alone([k \in Lanes |-> NoStream], NoLane)
    BY DEF Alone, NoStream
  <2> QED
    BY <2>1, NewFlow DEF NewWriter
<1>11. Due(request) = {} /\ request.pc = "none"
  BY <1>2 DEF Due, NoRequest
<1> HIDE DEF l, opening, b, started, yes, no
<1>12. \A k \in Lanes : StreamRows(stream[k])
  BY <1>3, <1>7
<1>13. CaptureRows
  BY <1>2 DEF CaptureRows, Resting
<1>14. RowsMatch /\ Scrolls
  <2>1. /\ client.mirror \in {Nothing, opening} /\ client.connected /\ ~attachment.scrolled
        /\ attachment.attached => client.known
    <3>1. CASE client = [connected |-> yes, known |-> no, attached |-> no,
                         mirror |-> Nothing, told |-> 0, gap |-> no] /\ attachment = Detached
      BY <1>8, <3>1
    <3>2. CASE client = [connected |-> yes, known |-> yes, attached |-> yes,
                         mirror |-> opening, told |-> 0, gap |-> no]
               /\ attachment = [Detached EXCEPT !.attached = yes]
      BY <1>8, <3>2
    <3> QED
      BY <1>3, <3>1, <3>2
  <2>2. RowsMatch
    BY <1>5, <2>1 DEF RowsMatch
  <2> QED
    BY <1>11, <2>1, <2>2 DEF Scrolls, Knowing
<1>15. ViewRows
  BY <1>11 DEF ViewRows
<1>16. WriterRows
  <2> DEFINE due == Due(request)
             mirror == client.mirror
             known == client.known
             w == writer
  <2>1. CASE serving = NoLane /\ w = NewWriter
    <3>1. \A k \in Lanes : ~Serving(stream, serving, k)
      BY <2>1, WriterAssumption DEF Serving
    <3> HIDE DEF due, mirror, known, w
    <3>2. Told(w) = {} /\ \A k \in Lanes : ~Sending(w, k)
      BY <1>9, <2>1
    <3>3. Rows(w, stream, serving, known, mirror, due, mishaps)
      BY <3>1, <3>2, NewRows
    <3> QED
      BY <3>3 DEF due, mirror, known, w, WriterRows
  <2>2. CASE serving = l /\ w = OpenLane(NewWriter, l) /\ mirror = opening /\ stream[l] = started
    <3> HIDE DEF due, mirror, known, w
    <3>1. Good(NewWriter, Messages)
      BY NewGood
    <3>2. OneLane(NewWriter, w, l) /\ ~Sending(w, l)
      BY <1>4, <1>9, <1>10, <2>2, <3>1, WriterAssumption, OpenLaneKeeps
    <3>3. Told(w) = {} /\ \A k \in Lanes : ~Sending(w, k)
      BY <1>9, <3>2 DEF OneLane
    <3>4. mirror.sequence = 1 /\ mirror.rows = 1 /\ mirror # Nothing
      BY <1>5, <2>2
    <3>5. Backed(w, b, known, mirror, l)
      <4>1. mirror.sequence <= b.sequence /\ Shows(mirror, b.sequence)
        BY <1>5, <3>4 DEF Shows
      <4>2. \A m \in Told(w) : FALSE
        BY <3>3
      <4> QED
        BY <1>4, <3>3, <3>4, <4>1, <4>2 DEF Backed
    <3>6. \A k \in Lanes : Serving(stream, serving, k) => Backed(w, stream[k].baseline, known, mirror, k)
      BY <1>6, <2>2, <3>5 DEF Serving
    <3>7. Rows(w, stream, serving, known, mirror, due, mishaps)
      BY <3>3, <3>6, NewRows
    <3> QED
      BY <3>7 DEF due, mirror, known, w, WriterRows
  <2> QED
    BY <1>3, <1>4, <2>1, <2>2
<1> QED
  BY <1>12, <1>13, <1>14, <1>15, <1>16 DEF Matched

\* No step breaks it.
LEMMA StepMatched == Types /\ Sound /\ Matched /\ [Next]_vars => Matched'
<1>1. SUFFICES ASSUME Types, Sound, Matched, [Next]_vars PROVE Matched'
  OBVIOUS
<1>2. Types'
  BY <1>1, StepTypes
<1>3. CASE Happens
  <2>1. CASE ReadOutput \/ SetTitle \/ Exit
    BY <1>1, <1>2, <2>1, ThreadsMatched
  <2>2. CASE SetVisible \/ ScrollView
    BY <1>1, <1>2, <2>2, ViewsMatched
  <2>3. CASE OtherWatches
    <3>1. "exit" \in Threads /\ TRUE \in BOOLEAN /\ "viewer" \in {"viewer", "other"}
      BY ThreadsAre
    <3> QED
      BY <1>1, <1>2, <2>3, <3>1, LooksMatched
  <2>4. CASE Spawned \/ Detach
    BY <1>1, <1>2, <2>4, RequestsMatched
  <2>5. CASE Attach
    BY <1>1, <1>2, <2>5, AttachMatched
  <2>6. CASE ReconcileEarly \/ SendOther \/ LoseConnection
    BY <1>1, <1>2, <2>6, ReconcileEarlyMatched, SendOtherMatched, WriterTaskMatched
  <2> QED
    BY <1>3, <2>1, <2>2, <2>3, <2>4, <2>5, <2>6 DEF Happens
<1>4. CASE Terminal
  BY <1>1, <1>2, <1>4, ThreadsMatched, CaptureMatched, PublishMatched, ThreadsAre
     DEF Terminal, Captures
<1>5. CASE Requests
  <2>1. /\ attachment.scrolled \in BOOLEAN /\ "request" \in Threads
        /\ "viewer" \in {"viewer", "other"}
    BY <1>1, ThreadsAre DEF Types, AttachmentTypes
  <2>2. CASE LookAtStale("request") \/ ReadContext("request", attachment.scrolled)
    BY <1>1, <1>2, <2>1, <2>2, LooksMatched
  <2>3. CASE Captures("request")
    BY <1>1, <1>2, <2>1, <2>3, CaptureMatched, PublishMatched DEF Captures
  <2>4. CASE Attached \/ Answer
    BY <1>1, <1>2, <2>4, RequestsMatched, AnswerMatched
  <2> QED
    BY <1>5, <2>2, <2>3, <2>4 DEF Requests
<1>6. CASE Session
  BY <1>1, <1>2, <1>6, WriterTaskMatched, DeliverMatched, DisconnectMatched, ReconnectMatched
     DEF Session
<1>7. ASSUME NEW who \in {"viewer", "other"}, StoreCount(who) PROVE Matched'
  <2>1. "exit" \in Threads /\ TRUE \in BOOLEAN
    BY ThreadsAre
  <2> QED
    BY <1>1, <1>2, <1>7, <2>1, LooksMatched
<1>8. ASSUME NEW l \in Lanes, StreamStep(l) PROVE Matched'
  <2>1. /\ l \in Threads /\ stream[l].scrolled \in BOOLEAN
        /\ "viewer" \in {"viewer", "other"}
    BY <1>1, ThreadsAre, StreamIs, StreamParts DEF Types
  <2>2. CASE OpenStream(l) \/ SendSnapshot(l) \/ CheckExited(l) \/ Drained(l) \/ Dropped(l)
    BY <1>1, <1>2, <2>2, OpenStreamMatched, SendSnapshotMatched, CheckExitedMatched,
       StreamEndMatched
  <2>3. CASE LookAtStale(l) \/ ReadContext(l, stream[l].scrolled)
    BY <1>1, <1>2, <2>1, <2>3, LooksMatched
  <2>4. CASE Capture(l) \/ Publish(l)
    BY <1>1, <1>2, <2>1, <2>4, CaptureMatched, PublishMatched
  <2>5. CASE ReceiveEvent(l) \/ ReceiveView(l) \/ Tick(l)
    BY <1>1, <1>2, <2>5, ReceiveEventMatched, ReceiveViewMatched, TickMatched
  <2> QED
    BY <1>8, <2>2, <2>3, <2>4, <2>5 DEF StreamStep, StreamSends
<1>9. CASE UNCHANGED vars
  <2>1. /\ UNCHANGED <<writer, serving, client, stream, screen, request, attachment, mishaps>>
        /\ UNCHANGED capture
    BY <1>9 DEF vars, terminalVars, streamVars
  <2>2. CaptureRows'
    BY <1>1, <2>1 DEF Matched, CaptureRows
  <2>3. screen.sequence <= screen'.sequence /\ mishaps \subseteq mishaps'
    BY <1>1, <2>1, SoundParts
  <2> QED
    BY <1>1, <1>2, <2>1, <2>2, <2>3, StillMatched
<1> QED
  BY <1>1, <1>3, <1>4, <1>5, <1>6, <1>7, <1>8, <1>9 DEF Next

\* The rows of a Client's mirror are those of one screen of the terminal, unless an aborted
\* stream sent beside its successor, or an older snapshot replaced a pending frame: a delta is
\* applied to the rows that it was made from.
THEOREM RowsMatchAlways == Spec => []RowsMatch
<1>1. Init => Sound /\ Matched
  BY InitSound, InitMatched
<1>2. Types /\ (Sound /\ Matched) /\ [Next]_vars => (Sound /\ Matched)'
  BY StepSound, StepMatched
<1>3. Sound /\ Matched => RowsMatch
  BY DEF Matched
<1> QED
  BY <1>1, <1>2, <1>3, TypesHold, PTL DEF Spec

-----------------------------------------------------------------------------
(* The exits that the Client is to be told of.                             *)

\* The exits that wait in the reliable queue, and the one that is being written
Parting(s) ==
    {item \in {s.reliable[i] : i \in DOMAIN s.reliable} : item.msg.kind = "exit"}
LastWords(s) == {m \in Current(s) : m.kind = "exit"}

\* An exit names the lane it waits for.
Addressed(s) == \A e \in Parting(s) : e.after_lane \in Lanes

\* No exit is new, and one whose lane sends a frame is not taken.
Bides(s, t) ==
    /\ Parting(t) \subseteq Parting(s)
    /\ \A m \in LastWords(t) :
          m \in LastWords(s) \/ \E e \in Parting(s) : m = e.msg /\ ~Sending(s, e.after_lane)

\* What leaves the items alone
LEMMA SameItemsBide ==
    ASSUME NEW s, NEW t, t.reliable = s.reliable, t.lane = s.lane, SameCurrent(s, t)
    PROVE  Parting(t) = Parting(s) /\ LastWords(t) = LastWords(s) /\ Bides(s, t)
<1>1. Parting(t) = Parting(s)
  BY DEF Parting
<1>2. Current(t) = Current(s)
  BY DEF Current, SameCurrent
<1>3. LastWords(t) = LastWords(s)
  BY <1>2 DEF LastWords
<1> QED
  BY <1>1, <1>3 DEF Bides

\* Exits are messages with updates and lanes.
LEMMA PartingAre ==
    ASSUME NEW s, Good(s, Messages)
    PROVE  /\ \A e \in Parting(s) : /\ e \in Items(Messages) /\ e.msg \in Told(s)
                                    /\ e.msg.update.sequence \in Nat
                                    /\ e.after_lane \in Awaited(s)
           /\ \A m \in LastWords(s) : m \in Told(s) /\ m.update.sequence \in Nat
<1>1. s.reliable \in Seq(Items(Messages)) /\ s.current \in UnderWay(Messages)
  BY WriterParts DEF Good
<1>2. \A m \in Messages : m.update.sequence \in Nat
  BY DEF Messages, Updates
<1>3. \A i \in DOMAIN s.reliable : s.reliable[i] \in Items(Messages)
  BY <1>1, ElementOfSeq, LenProperties
<1>4. ASSUME NEW e \in Parting(s)
      PROVE  /\ e \in Items(Messages) /\ e.msg \in Told(s)
             /\ e.msg.update.sequence \in Nat
             /\ e.after_lane \in Awaited(s)
  <2>1. PICK i \in DOMAIN s.reliable : e = s.reliable[i]
    BY <1>4 DEF Parting
  <2>2. e \in Items(Messages) /\ e.msg \in Messages
    BY <1>3, <2>1 DEF Items
  <2>3. e.msg.update.sequence \in Nat
    BY <1>2, <2>2
  <2> QED
    BY <2>1, <2>2, <2>3 DEF Told, Awaited
<1>5. ASSUME NEW m \in LastWords(s) PROVE m \in Told(s) /\ m.update.sequence \in Nat
  <2>1. m \in Current(s)
    BY <1>5 DEF LastWords
  <2>2. s.current # NoItem /\ m = s.current.msg
    BY <2>1 DEF Current
  <2>3. m \in Messages
    BY <1>1, <2>2 DEF UnderWay, Begun
  <2> QED
    BY <1>2, <2>1, <2>3 DEF Told
<1> QED
  BY <1>4, <1>5

\* What changes a lane leaves the messages.
LEMMA LaneBides ==
    ASSUME NEW s \in Writer(Messages), NEW l, NEW q, NEW order, NEW t, WithLane(s, l, q, order, t)
    PROVE  Parting(t) = Parting(s) /\ LastWords(t) = LastWords(s) /\ t.lane = s.lane
           /\ t.closed = s.closed
<1> DEFINE render == [s.render EXCEPT ![l] = q]
<1>1. t = [s EXCEPT !.render = render, !.render_ready = order]
  BY DEF WithLane
<1> HIDE DEF render
<1>2. t.reliable = s.reliable /\ t.lane = s.lane /\ t.current = s.current /\ t.closed = s.closed
  BY <1>1 DEF Writer
<1> QED
  BY <1>2, SameItemsBide DEF SameCurrent

\* The lanes of a connection are opened and dropped, and take frames.
LEMMA LanesBide ==
    ASSUME NEW s \in Writer(Messages), NEW l \in Lanes, NEW item,
           NEW t, t \in {OpenLane(s, l), DropLane(s, l), Enqueue(s, l, item)}
    PROVE  Parting(t) = Parting(s) /\ LastWords(t) = LastWords(s) /\ t.lane = s.lane
           /\ t.closed = s.closed
<1>1. CASE t = OpenLane(s, l)
  <2> DEFINE q == [NoQueue EXCEPT !.open = TRUE]
  <2>1. t = [s EXCEPT !.render = [s.render EXCEPT ![l] = q]]
    BY <1>1 DEF OpenLane
  <2> HIDE DEF q
  <2>2. WithLane(s, l, q, s.render_ready, t)
    BY <2>1 DEF Writer, WithLane
  <2> QED
    BY <2>2, LaneBides
<1>2. CASE t = DropLane(s, l)
  <2> DEFINE q == NoQueue
  <2>1. t = [s EXCEPT !.render = [s.render EXCEPT ![l] = q]]
    BY <1>2 DEF DropLane
  <2> HIDE DEF q
  <2>2. WithLane(s, l, q, s.render_ready, t)
    BY <2>1 DEF Writer, WithLane
  <2> QED
    BY <2>2, LaneBides
<1>3. CASE t = Enqueue(s, l, item)
  <2> DEFINE queue == s.render[l]
             items == Append(queue.items, item)
             bytes == queue.bytes + item.bytes
             q == [queue EXCEPT !.items = items, !.bytes = bytes, !.ready = TRUE]
             order == IF queue.ready THEN s.render_ready ELSE Append(s.render_ready, l)
  <2>1. WithLane(s, l, q, order, t)
    BY <1>3 DEF Enqueue, WithLane
  <2> HIDE DEF q, order
  <2> QED
    BY <2>1, LaneBides
<1> QED
  BY <1>1, <1>2, <1>3

\* The frame of a lane is taken.
LEMMA PopBides ==
    ASSUME NEW s, Good(s, Messages), Fleet(s), s.current = NoItem,
           NEW u, Alike(s, u), NEW l \in Lanes, s.render[l].items # <<>>,
           NEW t, t = PopRender(u, l)
    PROVE  Bides(s, t)
<1>1. Len(s.render[l].items) = 1
  BY DEF Fleet, Loaded
<1>2. u \in Writer(Messages) /\ u.render[l].items = s.render[l].items /\ u.reliable = s.reliable
  BY DEF Alike
<1>3. Len(u.render[l].items) = 1 /\ u.render[l].items # <<>>
  BY <1>1, <1>2
<1>4. t.lane = l /\ t.reliable = s.reliable
  BY <1>2, <1>3, PopLane
<1>5. l # NoLane
  BY WriterAssumption
<1>6. Parting(t) = Parting(s)
  BY <1>4 DEF Parting
<1>7. LastWords(t) = {}
  BY <1>4, <1>5 DEF LastWords, Current
<1> QED
  BY <1>6, <1>7 DEF Bides

\* The frame of the lane that is due
LEMMA NextRenderBides ==
    ASSUME NEW s, Good(s, Messages), ~s.closed, Fleet(s), s.current = NoItem,
           s.slot = "none", NEW t, t = NextRender(s)
    PROVE  Bides(s, t)
<1> DEFINE order == s.render_ready
           waiting == {i \in DOMAIN order : Queued(s, order[i])}
<1>1. order \in Seq(Lanes) /\ Len(order) \in Nat /\ DOMAIN order = 1 .. Len(order)
  BY WriterParts, LenProperties DEF Good
<1>2. \A i \in DOMAIN order : order[i] \in Lanes
  BY <1>1, ElementOfSeq
<1>3. CASE waiting = {}
  <2> DEFINE n == Len(order)
  <2>1. n \in 0 .. Len(s.render_ready) /\ t = Unready(s, n)
    BY <1>1, <1>3 DEF NextRender
  <2> HIDE DEF n
  <2>2. Alike(s, t)
    BY <2>1, UnreadyAlike
  <2> QED
    BY <2>2, SameItemsBide DEF Alike, SameCurrent
<1>4. CASE waiting # {}
  <2> DEFINE n == CHOOSE i \in waiting : \A j \in waiting : i <= j
             l == order[n]
             u == Unready(s, n)
  <2>1. t = PopRender(u, l)
    BY <1>4 DEF NextRender
  <2>2. n \in waiting
    <3>1. waiting \subseteq Nat
      BY <1>1
    <3> HIDE DEF waiting
    <3>2. \E i \in waiting : \A j \in waiting : i <= j
      BY <1>4, <3>1, LeastNumber
    <3> QED
      BY <3>2
  <2> HIDE DEF n
  <2>3. n \in 0 .. Len(s.render_ready) /\ n \in DOMAIN order
    BY <1>1, <2>2
  <2>4. Alike(s, u)
    BY <2>3, UnreadyAlike
  <2> HIDE DEF u
  <2>5. l \in Lanes /\ s.render[l].items # <<>>
    BY <1>2, <2>2 DEF Queued
  <2> HIDE DEF l
  <2> QED
    BY <2>1, <2>4, <2>5, PopBides
<1> QED
  BY <1>3, <1>4

\* The item that is due is taken: an exit not before the frame of its lane.
LEMMA NextCurrentBides ==
    ASSUME NEW s, Good(s, Messages), ~s.closed, Fleet(s), s.current = NoItem,
           s.slot = "none", Addressed(s), NEW t, t = NextCurrent(s)
    PROVE  Bides(s, t)
<1>1. s \in Writer(Messages) /\ s.reliable \in Seq(Items(Messages)) /\ s.lane = NoLane
  BY WriterParts DEF Good, Fleet
<1>2. CASE s.reliable = <<>>
  BY <1>2, NextRenderBides DEF NextCurrent
<1>3. CASE s.reliable # <<>>
  <2> DEFINE front == s.reliable[1]
             l == front.after_lane
             rest == Tail(s.reliable)
  <2>1. /\ Head(s.reliable) = front /\ 1 \in DOMAIN s.reliable /\ front \in Items(Messages)
        /\ \A i \in DOMAIN rest : i + 1 \in DOMAIN s.reliable /\ rest[i] = s.reliable[i + 1]
    BY <1>1, <1>3, FrontAndRest
  <2>2. CASE Queued(s, l)
    <3>1. t = PopRender(s, l)
      BY <1>3, <2>1, <2>2 DEF NextCurrent
    <3>2. l \in Lanes /\ s.render[l].items # <<>>
      BY <2>1, <2>2 DEF Queued, Items
    <3> HIDE DEF l
    <3>3. Alike(s, s)
      BY <1>1 DEF Alike
    <3> QED
      BY <3>1, <3>2, <3>3, PopBides
  <2>3. CASE ~Queued(s, l)
    <3>1. t = [s EXCEPT !.current = front, !.lane = NoLane, !.reliable = rest]
      BY <1>1, <1>3, <2>1, <2>3 DEF NextCurrent, Writer
    <3>2. front.msg.kind = "exit" => front \in Parting(s) /\ l \in Lanes /\ ~Sending(s, l)
      <4>1. SUFFICES ASSUME front.msg.kind = "exit"
                     PROVE  front \in Parting(s) /\ l \in Lanes /\ ~Sending(s, l)
        OBVIOUS
      <4>2. front \in Parting(s)
        BY <2>1, <4>1 DEF Parting
      <4>3. l \in Lanes
        BY <4>2 DEF Addressed
      <4> QED
        BY <1>1, <2>3, <4>2, <4>3, WriterAssumption DEF Sending, Queued
    <3> HIDE DEF front, rest
    <3>3. t.lane = NoLane /\ t.current = front /\ t.reliable = rest
      BY <1>1, <3>1 DEF Writer
    <3>4. Parting(t) \subseteq Parting(s)
      BY <2>1, <3>3 DEF Parting
    <3>5. \A m \in LastWords(t) : m = front.msg /\ front.msg.kind = "exit"
      BY <3>3 DEF LastWords, Current
    <3> QED
      BY <3>2, <3>4, <3>5 DEF Bides
  <2> QED
    BY <2>2, <2>3
<1> QED
  BY <1>2, <1>3

\* The writer task takes a frame.
LEMMA SelectBides ==
    ASSUME NEW s, Good(s, Messages), ~s.closed, Fleet(s), s.slot = "none", Addressed(s),
           NEW t, t = Select(s)
    PROVE  Bides(s, t)
<1> DEFINE mine == "interactive"
           its == "current"
<1>1. s \in Writer(Messages) /\ Good(s, Messages)
  BY DEF Good
<1>2. CASE s.current_interactive # NoItem \/ s.interactive # <<>>
  <2>1. t.reliable = s.reliable /\ t.lane = s.lane /\ t.current = s.current
    <3>1. CASE s.current_interactive # NoItem
      <4> DEFINE item == [s.current_interactive EXCEPT !.left = @ - 1]
      <4>1. t = [s EXCEPT !.current_interactive = item, !.slot = mine]
        BY <1>1, <3>1 DEF Select, Writer
      <4> HIDE DEF item
      <4> QED
        BY <1>1, <4>1 DEF Writer
    <3>2. CASE s.current_interactive = NoItem
      <4> DEFINE item == [Head(s.interactive) EXCEPT !.left = @ - 1]
                 rest == Tail(s.interactive)
      <4>1. t = [s EXCEPT !.current_interactive = item, !.interactive = rest, !.slot = mine]
        BY <1>1, <1>2, <3>2 DEF Select, Writer
      <4> HIDE DEF item, rest
      <4> QED
        BY <1>1, <4>1 DEF Writer
    <3> QED
      BY <3>1, <3>2
  <2> QED
    BY <2>1, SameItemsBide DEF SameCurrent
<1>3. CASE s.current_interactive = NoItem /\ s.interactive = <<>>
  <2> DEFINE chosen == IF s.current = NoItem THEN NextCurrent(s) ELSE s
             item == [chosen.current EXCEPT !.left = @ - 1]
  <2>1. t = IF chosen.current = NoItem THEN chosen
            ELSE [chosen EXCEPT !.current.left = @ - 1, !.slot = "current"]
    BY <1>3 DEF Select
  <2>2. Bides(s, chosen)
    <3>1. CASE s.current = NoItem
      BY <3>1, NextCurrentBides
    <3>2. CASE s.current # NoItem
      BY <3>2 DEF Bides
    <3> QED
      BY <3>1, <3>2
  <2>3. Good(chosen, Messages)
    BY NextCurrentGood DEF Takes
  <2> HIDE DEF chosen
  <2>4. chosen \in Writer(Messages) /\ chosen.current \in UnderWay(Messages)
    BY <2>3, WriterParts DEF Good
  <2>5. CASE chosen.current # NoItem
    <3>1. item.msg = chosen.current.msg /\ item.bytes = chosen.current.bytes /\ item # NoItem
      <4>1. item.msg = chosen.current.msg /\ item.bytes = chosen.current.bytes
            /\ item.kind = "item"
        BY <2>4, <2>5 DEF UnderWay, Begun
      <4> QED
        BY <4>1 DEF NoItem
    <3>2. t = [chosen EXCEPT !.current = item, !.slot = its]
      BY <2>1, <2>4, <2>5 DEF Writer
    <3> HIDE DEF item
    <3>3. t.lane = chosen.lane /\ t.current = item /\ t.reliable = chosen.reliable
      BY <2>4, <3>2 DEF Writer
    <3>4. SameCurrent(chosen, t)
      BY <2>5, <3>1, <3>3 DEF SameCurrent
    <3>5. Parting(t) = Parting(chosen) /\ LastWords(t) = LastWords(chosen)
      BY <3>3, <3>4, SameItemsBide
    <3> QED
      BY <2>2, <3>5 DEF Bides
  <2>6. CASE chosen.current = NoItem
    BY <2>1, <2>2, <2>6
  <2> QED
    BY <2>5, <2>6
<1> QED
  BY <1>2, <1>3

\* A reliable message is queued.
LEMMA ReliableBides ==
    ASSUME NEW s, Good(s, Messages), ~s.closed, NEW item \in Items(Messages),
           NEW t, t = PushReliable(s, item), ~t.closed
    PROVE  /\ Parting(t) \subseteq Parting(s) \cup {item} /\ LastWords(t) = LastWords(s)
           /\ item.msg.kind # "exit" => Bides(s, t)
<1> DEFINE more == Append(s.reliable, item)
           bytes == s.reliable_bytes + item.bytes
<1>1. s \in Writer(Messages) /\ s.reliable \in Seq(Items(Messages))
  BY WriterParts DEF Good
<1>2. t = [s EXCEPT !.reliable = more, !.reliable_bytes = bytes]
  BY ClosedGood DEF PushReliable
<1>3. \A i \in DOMAIN more : more[i] = item \/ (i \in DOMAIN s.reliable /\ more[i] = s.reliable[i])
  BY <1>1, AppendedItems
<1> HIDE DEF more, bytes
<1>4. t.lane = s.lane /\ t.reliable = more /\ t.current = s.current
  BY <1>1, <1>2 DEF Writer
<1>5. Parting(t) \subseteq Parting(s) \cup {item}
  BY <1>3, <1>4 DEF Parting
<1>6. LastWords(t) = LastWords(s)
  BY <1>4 DEF LastWords, Current
<1>7. item.msg.kind # "exit" => item \notin Parting(t)
  BY DEF Parting
<1> QED
  BY <1>5, <1>6, <1>7 DEF Bides

\* Other messages are queued.
LEMMA QueuesBide ==
    ASSUME NEW s, Good(s, Messages), ~s.closed, NEW item \in Items(Messages),
           item.msg.kind = "other", NEW t, ~t.closed,
           t \in {PushInteractive(s, item), PushReliable(s, item), PushLatest(s, item)}
    PROVE  Bides(s, t)
<1>1. s \in Writer(Messages) /\ s.reliable \in Seq(Items(Messages))
  BY WriterParts DEF Good
<1>2. CASE t = PushInteractive(s, item)
  <2> DEFINE more == Append(s.interactive, item)
  <2>1. t = [s EXCEPT !.interactive = more]
    BY <1>1, <1>2, ClosedGood DEF PushInteractive, Writer
  <2> HIDE DEF more
  <2>2. t.lane = s.lane /\ t.reliable = s.reliable /\ t.current = s.current
    BY <1>1, <2>1 DEF Writer
  <2> QED
    BY <2>2, SameItemsBide DEF SameCurrent
<1>3. CASE t = PushReliable(s, item)
  BY <1>3, ReliableBides
<1>4. CASE t = PushLatest(s, item)
  <2> DEFINE newer == [item EXCEPT !.latest = TRUE]
  <2>1. newer \in Items(Messages) /\ newer.msg = item.msg
    BY DEF Items
  <2> HIDE DEF newer
  <2>2. CASE t = PushReliable(s, newer)
    BY <2>1, <2>2, ReliableBides
  <2>3. CASE t # PushReliable(s, newer)
    <3> DEFINE i == CHOOSE k \in WaitingLatest(s) : TRUE
               more == ReplaceAt(s.reliable, i, newer)
               bytes == s.reliable_bytes - s.reliable[i].bytes + newer.bytes
    <3>1. i \in WaitingLatest(s) /\ t = ReplaceLatest(s, i, newer)
      BY <1>4, <2>3 DEF PushLatest, newer
    <3> HIDE DEF i
    <3>2. i \in DOMAIN s.reliable
      BY <3>1 DEF WaitingLatest
    <3>3. t = [s EXCEPT !.reliable = more, !.reliable_bytes = bytes]
      BY <3>1, ClosedGood DEF ReplaceLatest
    <3>4. more = [s.reliable EXCEPT ![i] = newer] /\ DOMAIN more = DOMAIN s.reliable
      BY <1>1, <3>2, ExceptSeq DEF ReplaceAt
    <3> HIDE DEF more, bytes
    <3>5. t.lane = s.lane /\ t.reliable = more /\ t.current = s.current
      BY <1>1, <3>3 DEF Writer
    <3>6. \A k \in DOMAIN more : more[k] = newer \/ (k \in DOMAIN s.reliable /\ more[k] = s.reliable[k])
      BY <1>1, <3>2, <3>4
    <3>7. newer.msg.kind # "exit"
      BY <2>1
    <3>8. Parting(t) \subseteq Parting(s)
      BY <3>5, <3>6, <3>7 DEF Parting
    <3>9. LastWords(t) = LastWords(s)
      BY <3>5 DEF LastWords, Current
    <3> QED
      BY <3>8, <3>9 DEF Bides
  <2> QED
    BY <2>2, <2>3
<1> QED
  BY <1>2, <1>3, <1>4

\* The writer task has written a frame.
LEMMA FinishBides ==
    ASSUME NEW s, Good(s, Messages), Fleet(s), s.slot # "none", NEW t, t = Finish(s)
    PROVE  /\ Parting(t) = Parting(s) /\ LastWords(t) \subseteq LastWords(s)
           /\ s.slot = "current" /\ s.current.left = 0 => LastWords(t) = {}
<1> DEFINE none == "none"
           written == [s EXCEPT !.slot = none]
<1>1. /\ s \in Writer(Messages) /\ s.slot \in {"interactive", "current"}
      /\ Taken(s) # NoItem /\ Taken(s).left \in Nat /\ s.lane \in Lanes \cup {NoLane}
  BY TakenParts, WriterParts
<1>2. CASE s.slot = "interactive" \/ s.current.left # 0
  <2>1. t = IF Taken(s).left > 0 THEN written ELSE [written EXCEPT !.current_interactive = NoItem]
    BY <1>1, <1>2 DEF Finish, Taken
  <2>2. t.lane = s.lane /\ t.current = s.current /\ t.reliable = s.reliable
    BY <1>1, <2>1 DEF Writer
  <2> QED
    BY <1>2, <2>2, SameItemsBide DEF SameCurrent
<1>3. CASE s.slot = "current" /\ s.current.left = 0
  <2>1. t.current = NoItem /\ t.reliable = s.reliable
    <3>1. CASE s.lane = NoLane
      <4> DEFINE bytes == s.reliable_bytes - s.current.bytes
      <4>1. t = [s EXCEPT !.slot = none, !.current = NoItem, !.reliable_bytes = bytes]
        BY <1>1, <1>3, <3>1 DEF Finish, Writer, Taken
      <4> HIDE DEF bytes
      <4> QED
        BY <1>1, <4>1 DEF Writer
    <3>2. CASE s.lane \in Lanes
      <4> DEFINE render == [s.render EXCEPT ![s.lane].bytes =
                              IF s.render[s.lane].open THEN @ - s.current.bytes ELSE @]
      <4>1. s.lane # NoLane
        BY <3>2, WriterAssumption
      <4>2. t = [s EXCEPT !.slot = none, !.current = NoItem, !.lane = NoLane, !.render = render]
        BY <1>1, <1>3, <4>1 DEF Finish, Writer, Taken
      <4> HIDE DEF render
      <4> QED
        BY <1>1, <4>2 DEF Writer
    <3> QED
      BY <1>1, <3>1, <3>2
  <2> QED
    BY <2>1 DEF Parting, LastWords, Current
<1> QED
  BY <1>1, <1>2, <1>3

-----------------------------------------------------------------------------
(* The final screen that goes before them.                                 *)

\* The screen of a process that has exited
Final(u) == IsSnapshot(u) /\ Ended(u.meta)

\* The Client has a screen when its stream is open, or gets one first.
Mirrored(w, streams, srv, mirror) ==
    \A l \in Lanes : srv = l /\ streams[l].pc \in Opened
        => mirror # Nothing \/ (Sending(w, l) /\ IsSnapshot(Sent(w, l)))

\* The mirror at `sequence` is as far as an exit on its way says, or a screen that goes before
\* the exit is.
Arrives(w, sequence) ==
    /\ \A e \in Parting(w) :
          \/ e.msg.update.sequence <= sequence
          \/ /\ Sending(w, e.after_lane) /\ IsSnapshot(Sent(w, e.after_lane))
             /\ e.msg.update.sequence <= Sent(w, e.after_lane).sequence
    /\ \A m \in LastWords(w) : m.update.sequence <= sequence

\* The Client was told of the exit, or will be.
Departing(w, told) ==
    told > 0 \/ (~w.closed /\ (Parting(w) # {} \/ LastWords(w) # {}))

\* What is still on its way then is final, and an exit finds the mirror final.
Closing(w, mirror) ==
    /\ \A l \in Lanes : Sending(w, l) => Final(Sent(w, l))
    /\ LastWords(w) # {} => Ended(mirror.meta)
    /\ \A e \in Parting(w) :
          \/ Ended(mirror.meta)
          \/ Sending(w, e.after_lane) /\ mirror.sequence <= Sent(w, e.after_lane).sequence

\* A stream goes no further then than its first screen, which is final.
Retired(s, c) ==
    ~s.aborted => /\ s.pc \in {"none", "starting", "opening", "opened", "leaving"}
                  /\ s.pc = "opening" /\ c.pc = "context" => Ended(c.meta)

Punctual(faults) == faults \cap {"early", "cut"} = {}
Orderly(faults) == faults \cap {"outdated", "overlap", "early", "cut"} = {}

\* All of it, of the writer w, the streams, their captures, the one that serves, the mirror, the
\* exit that was told and the mishaps
Farewell(w, streams, captures, srv, mirror, told, faults) ==
    /\ ~w.closed => Addressed(w)
    /\ ~w.closed /\ "early" \notin faults => Mirrored(w, streams, srv, mirror)
    /\ Punctual(faults) => told <= mirror.sequence /\ (~w.closed => Arrives(w, mirror.sequence))
    /\ Orderly(faults) /\ Departing(w, told) =>
          /\ mirror # Nothing /\ (told > 0 => Ended(mirror.meta))
          /\ ~w.closed => Closing(w, mirror)
          /\ \A l \in Lanes : Retired(streams[l], captures[l])

\* More mishaps demand less.
LEMMA OrderlyBefore ==
    ASSUME NEW faults, NEW more, faults \subseteq more
    PROVE  /\ Punctual(more) => Punctual(faults) /\ "early" \notin more /\ "cut" \notin more
           /\ Orderly(more) => /\ Orderly(faults) /\ Punctual(more)
                               /\ "overlap" \notin more /\ "outdated" \notin more
           /\ "early" \notin more => "early" \notin faults
BY DEF Punctual, Orderly

\* An exit that departs did before.
LEMMA DepartingBefore ==
    ASSUME NEW w, ~w.closed, NEW v, Bides(w, v), NEW told, Departing(v, told)
    PROVE  Departing(w, told)
BY DEF Departing, Bides

\* A step that sends no frame and delivers none
LEMMA FarewellCarried ==
    ASSUME NEW w, ~w.closed, NEW streams, NEW captures, NEW srv, NEW mirror, NEW told, NEW faults,
           Farewell(w, streams, captures, srv, mirror, told, faults),
           NEW v, ~v.closed, Bides(w, v),
           \A l \in Lanes : Sending(v, l) => Sending(w, l) /\ Sent(v, l) = Sent(w, l),
           NEW others, NEW caught, NEW later, NEW more, faults \subseteq more,
           \A e \in Parting(w) : Sending(w, e.after_lane) /\ Punctual(more) => Sending(v, e.after_lane),
           \A l \in Lanes : later = l /\ others[l].pc \in Opened =>
              srv = l /\ streams[l].pc \in Opened /\ (Sending(w, l) => Sending(v, l)),
           Orderly(more) /\ Departing(w, told) =>
              \A l \in Lanes : Retired(streams[l], captures[l]) => Retired(others[l], caught[l])
    PROVE  Farewell(v, others, caught, later, mirror, told, more)
<1>1. Addressed(w) /\ Addressed(v)
  BY DEF Farewell, Addressed, Bides
<1>2. ASSUME "early" \notin more PROVE Mirrored(v, others, later, mirror)
  <2>1. Mirrored(w, streams, srv, mirror)
    BY <1>2 DEF Farewell
  <2> QED
    BY <2>1 DEF Mirrored
<1>3. ASSUME Punctual(more) PROVE told <= mirror.sequence /\ Arrives(v, mirror.sequence)
  <2>1. told <= mirror.sequence /\ Arrives(w, mirror.sequence)
    BY <1>3, OrderlyBefore DEF Farewell
  <2>2. ASSUME NEW e \in Parting(v)
        PROVE  \/ e.msg.update.sequence <= mirror.sequence
               \/ /\ Sending(v, e.after_lane) /\ IsSnapshot(Sent(v, e.after_lane))
                  /\ e.msg.update.sequence <= Sent(v, e.after_lane).sequence
    <3>1. e \in Parting(w) /\ e.after_lane \in Lanes
      BY <1>1, <2>2 DEF Bides, Addressed
    <3> QED
      BY <1>3, <2>1, <3>1 DEF Arrives
  <2>3. ASSUME NEW m \in LastWords(v) PROVE m.update.sequence <= mirror.sequence
    BY <2>1, <2>3 DEF Bides, Arrives
  <2> QED
    BY <2>1, <2>2, <2>3 DEF Arrives
<1>4. ASSUME Orderly(more), Departing(v, told)
      PROVE  /\ mirror # Nothing /\ (told > 0 => Ended(mirror.meta))
             /\ Closing(v, mirror)
             /\ \A l \in Lanes : Retired(others[l], caught[l])
  <2>1. Departing(w, told) /\ Orderly(faults) /\ Punctual(more)
    BY <1>4, DepartingBefore, OrderlyBefore
  <2>2. /\ mirror # Nothing /\ (told > 0 => Ended(mirror.meta)) /\ Closing(w, mirror)
        /\ \A l \in Lanes : Retired(streams[l], captures[l])
    BY <2>1 DEF Farewell
  <2>3. \A l \in Lanes : Sending(v, l) => Final(Sent(v, l))
    BY <2>2 DEF Closing
  <2>4. LastWords(v) # {} => Ended(mirror.meta)
    BY <2>2 DEF Closing, Bides
  <2>5. ASSUME NEW e \in Parting(v)
        PROVE  \/ Ended(mirror.meta)
               \/ Sending(v, e.after_lane) /\ mirror.sequence <= Sent(v, e.after_lane).sequence
    <3>1. e \in Parting(w) /\ e.after_lane \in Lanes
      BY <1>1, <2>5 DEF Bides, Addressed
    <3> QED
      BY <2>1, <2>2, <3>1 DEF Closing
  <2> QED
    BY <1>4, <2>1, <2>2, <2>3, <2>4, <2>5 DEF Closing
<1> QED
  BY <1>1, <1>2, <1>3, <1>4 DEF Farewell

\* A connection that is closed, or was, takes nothing to the Client.
LEMMA FarewellCloses ==
    ASSUME NEW w, NEW streams, NEW captures, NEW srv, NEW mirror, NEW told, NEW faults,
           Farewell(w, streams, captures, srv, mirror, told, faults),
           NEW v, v.closed, NEW others, NEW caught, NEW later, NEW more, faults \subseteq more,
           Orderly(more) /\ Departing(w, told) =>
              \A l \in Lanes : Retired(streams[l], captures[l]) => Retired(others[l], caught[l])
    PROVE  Farewell(v, others, caught, later, mirror, told, more)
<1>1. Punctual(more) => told <= mirror.sequence
  BY OrderlyBefore DEF Farewell
<1>2. ASSUME Orderly(more), Departing(v, told)
      PROVE  /\ mirror # Nothing /\ (told > 0 => Ended(mirror.meta))
             /\ \A l \in Lanes : Retired(others[l], caught[l])
  <2>1. Departing(w, told) /\ Orderly(faults)
    BY <1>2, OrderlyBefore DEF Departing
  <2> QED
    BY <1>2, <2>1 DEF Farewell
<1> QED
  BY <1>1, <1>2 DEF Farewell

\* The stream of lane l sends a frame.
LEMMA FarewellSends ==
    ASSUME NEW w, ~w.closed, NEW streams, NEW captures, NEW srv, NEW mirror, NEW told, NEW faults,
           Farewell(w, streams, captures, srv, mirror, told, faults),
           NEW l \in Lanes, ~Sending(w, l), \A e \in Parting(w) : e.after_lane # l,
           NEW v, ~v.closed, OneLane(w, v, l), Sending(v, l),
           Parting(v) = Parting(w), LastWords(v) = LastWords(w),
           IsSnapshot(Sent(v, l)) \/ streams[l].pc \in Opened,
           NEW others, \A k \in Lanes \ {l} : others[k] = streams[k],
           NEW caught, \A k \in Lanes \ {l} : caught[k] = captures[k],
           NEW more, faults \subseteq more,
           Orderly(more) /\ Departing(w, told) /\ Retired(streams[l], captures[l]) =>
              Final(Sent(v, l)) /\ Retired(others[l], caught[l])
    PROVE  Farewell(v, others, caught, srv, mirror, told, more)
<1>1. Addressed(w) /\ Addressed(v)
  BY DEF Farewell, Addressed
<1>2. \A k \in Lanes \ {l} : (Sending(v, k) <=> Sending(w, k)) /\ Sent(v, k) = Sent(w, k)
  BY DEF OneLane
<1>3. ASSUME "early" \notin more PROVE Mirrored(v, others, srv, mirror)
  <2>1. Mirrored(w, streams, srv, mirror)
    BY <1>3 DEF Farewell
  <2>2. SUFFICES ASSUME NEW k \in Lanes, srv = k, others[k].pc \in Opened
                 PROVE  mirror # Nothing \/ (Sending(v, k) /\ IsSnapshot(Sent(v, k)))
    BY DEF Mirrored
  <2>3. CASE k = l
    BY <2>1, <2>2, <2>3 DEF Mirrored
  <2>4. CASE k # l
    BY <1>2, <2>1, <2>2, <2>4 DEF Mirrored
  <2> QED
    BY <2>3, <2>4
<1>4. \A e \in Parting(v) : /\ e \in Parting(w) /\ e.after_lane \in Lanes \ {l}
                            /\ Sending(v, e.after_lane) <=> Sending(w, e.after_lane)
                            /\ Sent(v, e.after_lane) = Sent(w, e.after_lane)
  BY <1>1, <1>2 DEF Addressed
<1>5. ASSUME Punctual(more) PROVE told <= mirror.sequence /\ Arrives(v, mirror.sequence)
  <2>1. told <= mirror.sequence /\ Arrives(w, mirror.sequence)
    BY <1>5, OrderlyBefore DEF Farewell
  <2> QED
    BY <1>4, <2>1 DEF Arrives
<1>6. ASSUME Orderly(more), Departing(v, told)
      PROVE  /\ mirror # Nothing /\ (told > 0 => Ended(mirror.meta))
             /\ Closing(v, mirror)
             /\ \A k \in Lanes : Retired(others[k], caught[k])
  <2>1. Departing(w, told) /\ Orderly(faults)
    BY <1>6, OrderlyBefore DEF Departing
  <2>2. /\ mirror # Nothing /\ (told > 0 => Ended(mirror.meta)) /\ Closing(w, mirror)
        /\ \A k \in Lanes : Retired(streams[k], captures[k])
    BY <2>1 DEF Farewell
  <2>3. Final(Sent(v, l)) /\ Retired(others[l], caught[l])
    BY <1>6, <2>1, <2>2
  <2>4. \A k \in Lanes : Sending(v, k) => Final(Sent(v, k))
    BY <1>2, <2>2, <2>3 DEF Closing
  <2>5. \A k \in Lanes : Retired(others[k], caught[k])
    BY <2>2, <2>3
  <2> QED
    BY <1>4, <2>2, <2>4, <2>5 DEF Closing
<1> QED
  BY <1>1, <1>3, <1>5, <1>6 DEF Farewell

\* The stream of lane l has sent the final screen and queues the exit.
LEMMA FarewellParts ==
    ASSUME NEW w, Good(w, Messages), ~w.closed, NEW streams, NEW captures, NEW srv,
           Alone(streams, srv), NEW mirror, NEW told \in Nat, NEW faults,
           Farewell(w, streams, captures, srv, mirror, told, faults),
           NEW l \in Lanes, ~Sending(w, l), \A e \in Parting(w) : e.after_lane # l,
           streams[l].pc = "ending",
           NEW v, ~v.closed, Sending(v, l), NEW exit, exit.after_lane = l,
           \A k \in Lanes \ {l} : (Sending(v, k) <=> Sending(w, k))
                                  /\ (Sending(w, k) => Sent(v, k) = Sent(w, k)),
           Parting(v) \subseteq Parting(w) \cup {exit}, LastWords(v) = LastWords(w),
           IsSnapshot(Sent(v, l)), mirror.sequence <= Sent(v, l).sequence,
           exit.msg.update.sequence <= Sent(v, l).sequence,
           NEW others, \A k \in Lanes \ {l} : others[k] = streams[k], others[l].pc = "leaving",
           NEW caught, NEW more, faults \subseteq more, "overlap" \notin more =>
              ~streams[l].aborted /\ \A k \in Lanes : Sending(v, k) => k = l,
           Orderly(more) => Final(Sent(v, l))
    PROVE  Farewell(v, others, caught, srv, mirror, told, more)
<1>1. Addressed(w) /\ Addressed(v)
  BY DEF Farewell, Addressed
<1>2. ASSUME "early" \notin more PROVE Mirrored(v, others, srv, mirror)
  <2>1. Mirrored(w, streams, srv, mirror)
    BY <1>2 DEF Farewell
  <2>2. SUFFICES ASSUME NEW k \in Lanes, srv = k, others[k].pc \in Opened
                 PROVE  mirror # Nothing \/ (Sending(v, k) /\ IsSnapshot(Sent(v, k)))
    BY DEF Mirrored
  <2>3. k # l
    BY <2>2 DEF Opened
  <2> QED
    BY <2>1, <2>2, <2>3 DEF Mirrored
<1>3. ASSUME Punctual(more) PROVE told <= mirror.sequence /\ Arrives(v, mirror.sequence)
  <2>1. told <= mirror.sequence /\ Arrives(w, mirror.sequence)
    BY <1>3, OrderlyBefore DEF Farewell
  <2>2. ASSUME NEW e \in Parting(v)
        PROVE  \/ e.msg.update.sequence <= mirror.sequence
               \/ /\ Sending(v, e.after_lane) /\ IsSnapshot(Sent(v, e.after_lane))
                  /\ e.msg.update.sequence <= Sent(v, e.after_lane).sequence
    <3>1. CASE e = exit
      BY <3>1
    <3>2. CASE e \in Parting(w)
      <4>1. e.after_lane \in Lanes \ {l}
        BY <1>1, <3>2 DEF Addressed
      <4> QED
        BY <2>1, <3>2, <4>1 DEF Arrives
    <3> QED
      BY <2>2, <3>1, <3>2
  <2> QED
    BY <2>1, <2>2 DEF Arrives
<1>4. ASSUME Orderly(more)
      PROVE  /\ mirror # Nothing /\ (told > 0 => Ended(mirror.meta))
             /\ Closing(v, mirror)
             /\ \A k \in Lanes : Retired(others[k], caught[k])
  <2>1. /\ ~streams[l].aborted /\ srv = l /\ Orderly(faults) /\ "early" \notin faults
        /\ \A k \in Lanes : Sending(v, k) => k = l
    BY <1>4, OrderlyBefore DEF Alone, Punctual
  <2>2. ~Departing(w, told)
    <3>1. ~Retired(streams[l], captures[l])
      BY <2>1 DEF Retired
    <3> QED
      BY <2>1, <3>1 DEF Farewell
  <2>3. ~(told > 0) /\ Parting(w) = {} /\ LastWords(w) = {}
    BY <2>2 DEF Departing
  <2>4. mirror # Nothing
    <3>1. Mirrored(w, streams, srv, mirror)
      BY <2>1 DEF Farewell
    <3> QED
      BY <2>1, <3>1 DEF Mirrored, Opened
  <2>5. Closing(v, mirror)
    BY <1>4, <2>1, <2>3 DEF Closing
  <2>6. ASSUME NEW k \in Lanes PROVE Retired(others[k], caught[k])
    <3>1. CASE k = l
      BY <3>1 DEF Retired
    <3>2. CASE k # l
      <4>1. streams[k].pc = "none" \/ streams[k].aborted
        BY <2>1, <3>2 DEF Alone
      <4> QED
        BY <3>2, <4>1 DEF Retired
    <3> QED
      BY <3>1, <3>2
  <2> QED
    BY <2>3, <2>4, <2>5, <2>6
<1> QED
  BY <1>1, <1>2, <1>3, <1>4 DEF Farewell

\* A frame of lane l reaches the Client.
LEMMA FarewellDelivers ==
    ASSUME NEW w, ~w.closed, NEW streams, NEW captures, NEW srv, NEW mirror,
           mirror.sequence \in Nat, NEW told \in Nat, NEW faults, Good(w, Messages),
           Farewell(w, streams, captures, srv, mirror, told, faults),
           NEW l \in Lanes, Sending(w, l), NEW u, u = Sent(w, l), u.sequence \in Nat,
           NEW v, ~v.closed, ~Sending(v, l),
           \A k \in Lanes \ {l} : (Sending(v, k) <=> Sending(w, k)) /\ Sent(v, k) = Sent(w, k),
           Parting(v) = Parting(w), LastWords(v) = {},
           NEW reached, reached.sequence \in Nat, mirror.sequence <= reached.sequence,
           mirror # Nothing => reached # Nothing,
           "early" \notin faults /\ IsSnapshot(u) => reached # Nothing /\ u.sequence <= reached.sequence,
           mirror # Nothing /\ IsSnapshot(u) =>
              reached \in {mirror, u} /\ (mirror.sequence <= u.sequence => reached = u)
    PROVE  Farewell(v, streams, captures, srv, reached, told, faults)
<1>1. Addressed(w) /\ Addressed(v)
  BY DEF Farewell, Addressed
<1>2. \A e \in Parting(w) : e.msg.update.sequence \in Nat
  BY PartingAre
<1>3. ASSUME "early" \notin faults PROVE Mirrored(v, streams, srv, reached)
  <2>1. Mirrored(w, streams, srv, mirror)
    BY <1>3 DEF Farewell
  <2>2. SUFFICES ASSUME NEW k \in Lanes, srv = k, streams[k].pc \in Opened
                 PROVE  reached # Nothing \/ (Sending(v, k) /\ IsSnapshot(Sent(v, k)))
    BY DEF Mirrored
  <2>3. mirror # Nothing \/ (Sending(w, k) /\ IsSnapshot(Sent(w, k)))
    BY <2>1, <2>2 DEF Mirrored
  <2>4. CASE k = l
    BY <1>3, <2>3, <2>4
  <2>5. CASE k # l
    BY <2>3, <2>5
  <2> QED
    BY <2>4, <2>5
<1>4. ASSUME Punctual(faults) PROVE told <= reached.sequence /\ Arrives(v, reached.sequence)
  <2>1. told <= mirror.sequence /\ Arrives(w, mirror.sequence) /\ "early" \notin faults
    BY <1>4 DEF Farewell, Punctual
  <2>2. ASSUME NEW e \in Parting(v)
        PROVE  \/ e.msg.update.sequence <= reached.sequence
               \/ /\ Sending(v, e.after_lane) /\ IsSnapshot(Sent(v, e.after_lane))
                  /\ e.msg.update.sequence <= Sent(v, e.after_lane).sequence
    <3>1. e \in Parting(w) /\ e.after_lane \in Lanes /\ e.msg.update.sequence \in Nat
      BY <1>1, <1>2, <2>2 DEF Addressed
    <3>2. CASE e.msg.update.sequence <= mirror.sequence
      BY <3>1, <3>2
    <3>3. CASE /\ Sending(w, e.after_lane) /\ IsSnapshot(Sent(w, e.after_lane))
               /\ e.msg.update.sequence <= Sent(w, e.after_lane).sequence
      <4>1. CASE e.after_lane = l
        BY <2>1, <3>1, <3>3, <4>1
      <4>2. CASE e.after_lane # l
        BY <3>1, <3>3, <4>2
      <4> QED
        BY <4>1, <4>2
    <3> QED
      BY <2>1, <3>1, <3>2, <3>3 DEF Arrives
  <2>3. told <= reached.sequence
    BY <2>1
  <2> QED
    BY <2>2, <2>3 DEF Arrives
<1>5. ASSUME Orderly(faults), Departing(v, told)
      PROVE  /\ reached # Nothing /\ (told > 0 => Ended(reached.meta))
             /\ Closing(v, reached)
             /\ \A k \in Lanes : Retired(streams[k], captures[k])
  <2>1. Departing(w, told)
    BY <1>5 DEF Departing
  <2>2. /\ mirror # Nothing /\ (told > 0 => Ended(mirror.meta)) /\ Closing(w, mirror)
        /\ \A k \in Lanes : Retired(streams[k], captures[k])
    BY <1>5, <2>1 DEF Farewell
  <2>3. IsSnapshot(u) /\ Ended(u.meta)
    BY <2>2 DEF Closing, Final
  <2>4. reached \in {mirror, u} /\ (mirror.sequence <= u.sequence => reached = u)
    BY <2>2, <2>3
  <2>5. told > 0 => Ended(reached.meta)
    BY <2>2, <2>3, <2>4
  <2>6. ASSUME NEW e \in Parting(v)
        PROVE  \/ Ended(reached.meta)
               \/ Sending(v, e.after_lane) /\ reached.sequence <= Sent(v, e.after_lane).sequence
    <3>1. e \in Parting(w) /\ e.after_lane \in Lanes
      BY <1>1, <2>6 DEF Addressed
    <3>2. CASE reached = u
      BY <2>3, <3>2
    <3>3. CASE reached # u
      <4>1. reached = mirror /\ ~(mirror.sequence <= u.sequence)
        BY <2>4, <3>3
      <4>2. \/ Ended(mirror.meta)
            \/ Sending(w, e.after_lane) /\ mirror.sequence <= Sent(w, e.after_lane).sequence
        BY <2>2, <3>1 DEF Closing
      <4> QED
        BY <3>1, <4>1, <4>2
    <3> QED
      BY <3>2, <3>3
  <2>7. \A k \in Lanes : Sending(v, k) => Final(Sent(v, k))
    BY <2>2 DEF Closing
  <2> QED
    BY <2>2, <2>5, <2>6, <2>7 DEF Closing
<1> QED
  BY <1>1, <1>3, <1>4, <1>5 DEF Farewell

\* Another message reaches the Client.
LEMMA FarewellTells ==
    ASSUME NEW w, ~w.closed, NEW streams, NEW captures, NEW srv, NEW mirror,
           mirror.sequence \in Nat, NEW told \in Nat, NEW faults, Good(w, Messages),
           Farewell(w, streams, captures, srv, mirror, told, faults),
           NEW v, ~v.closed,
           \A k \in Lanes : (Sending(v, k) <=> Sending(w, k))
                            /\ (Sending(w, k) => Sent(v, k) = Sent(w, k)),
           Parting(v) = Parting(w), LastWords(v) \subseteq LastWords(w),
           NEW reached, reached.sequence \in Nat, mirror.sequence <= reached.sequence,
           reached = mirror \/ (mirror = Nothing /\ reached # Nothing),
           NEW tells, tells = told \/ \E m \in LastWords(w) : tells = m.update.sequence
    PROVE  Farewell(v, streams, captures, srv, reached, tells, faults)
<1>1. Addressed(w) /\ Addressed(v)
  BY DEF Farewell, Addressed
<1>2. /\ \A e \in Parting(w) : e.msg.update.sequence \in Nat
      /\ \A m \in LastWords(w) : m.update.sequence \in Nat
  BY PartingAre
<1>3. ASSUME "early" \notin faults PROVE Mirrored(v, streams, srv, reached)
  <2>1. Mirrored(w, streams, srv, mirror)
    BY <1>3 DEF Farewell
  <2> QED
    BY <2>1 DEF Mirrored
<1>4. ASSUME Punctual(faults) PROVE tells <= reached.sequence /\ Arrives(v, reached.sequence)
  <2>1. told <= mirror.sequence /\ Arrives(w, mirror.sequence)
    BY <1>4 DEF Farewell
  <2>2. \A m \in LastWords(w) : m.update.sequence <= reached.sequence
    BY <1>2, <2>1 DEF Arrives
  <2>3. tells <= reached.sequence
    BY <2>1, <2>2
  <2>4. ASSUME NEW e \in Parting(v)
        PROVE  \/ e.msg.update.sequence <= reached.sequence
               \/ /\ Sending(v, e.after_lane) /\ IsSnapshot(Sent(v, e.after_lane))
                  /\ e.msg.update.sequence <= Sent(v, e.after_lane).sequence
    <3>1. e \in Parting(w) /\ e.after_lane \in Lanes /\ e.msg.update.sequence \in Nat
      BY <1>1, <1>2, <2>4 DEF Addressed
    <3>2. CASE e.msg.update.sequence <= mirror.sequence
      BY <3>1, <3>2
    <3>3. CASE ~(e.msg.update.sequence <= mirror.sequence)
      BY <2>1, <3>1, <3>3 DEF Arrives
    <3> QED
      BY <3>2, <3>3
  <2> QED
    BY <2>2, <2>3, <2>4 DEF Arrives
<1>5. ASSUME Orderly(faults), Departing(v, tells)
      PROVE  /\ reached # Nothing /\ (tells > 0 => Ended(reached.meta))
             /\ Closing(v, reached)
             /\ \A k \in Lanes : Retired(streams[k], captures[k])
  <2>1. Departing(w, told)
    <3>1. CASE tells = told
      BY <1>5, <3>1 DEF Departing
    <3>2. CASE tells # told
      <4>1. LastWords(w) # {}
        BY <3>2
      <4> QED
        BY <4>1 DEF Departing
    <3> QED
      BY <3>1, <3>2
  <2>2. /\ mirror # Nothing /\ (told > 0 => Ended(mirror.meta)) /\ Closing(w, mirror)
        /\ \A k \in Lanes : Retired(streams[k], captures[k])
    BY <1>5, <2>1 DEF Farewell
  <2>3. reached = mirror
    BY <2>2
  <2>4. tells > 0 => Ended(mirror.meta)
    BY <2>2 DEF Closing
  <2>5. \A k \in Lanes : Sending(v, k) => Final(Sent(v, k))
    BY <2>2 DEF Closing
  <2>6. LastWords(v) # {} => Ended(mirror.meta)
    BY <2>2 DEF Closing
  <2>7. ASSUME NEW e \in Parting(v)
        PROVE  \/ Ended(mirror.meta)
               \/ Sending(v, e.after_lane) /\ mirror.sequence <= Sent(v, e.after_lane).sequence
    <3>1. e \in Parting(w) /\ e.after_lane \in Lanes
      BY <1>1, <2>7 DEF Addressed
    <3> QED
      BY <2>2, <3>1 DEF Closing
  <2>8. Closing(v, mirror)
    BY <2>5, <2>6, <2>7 DEF Closing
  <2> QED
    BY <2>2, <2>3, <2>4, <2>8
<1> QED
  BY <1>1, <1>3, <1>4, <1>5 DEF Farewell

-----------------------------------------------------------------------------
(* The inductive invariant of the exit.                                    *)

\* The process has exited, and no capture can show it otherwise.
Over == exited /\ Ended(metadata) /\ ("outdated" \in mishaps \/ Ended(screen.meta))

\* The thread that captures the final screen
ExitThread ==
    LET c == capture["exit"] IN
    /\ c.pc = "read" => exited /\ Ended(metadata) /\ Ended(c.meta)
    /\ c.pc \in {"captured", "published"} => Over
    /\ c.pc = "published" => c.update.sequence <= screen.sequence

\* A stream is told of the exit, with the number of a capture up to the n-th.
Departs(s, c, over, n) ==
    /\ \A i \in DOMAIN s.events : IsExit(s.events[i]) => over /\ s.events[i].sequence <= n
    /\ s.pc \in {"draining", "ending"} => over /\ s.pending.sequence <= n
    /\ s.pc = "ending" /\ c.pc = "context" => Ended(c.meta)

Concluded ==
    /\ ExitThread
    /\ \A l \in Lanes : Departs(stream[l], capture[l], Over, screen.sequence)
    /\ Departing(writer, client.told) => Over
    /\ Farewell(writer, stream, capture, serving, client.mirror, client.told, mishaps)

\* It is as the run checks it.
LEMMA ConcludedExit == Types /\ Concluded => ExitIsLast
<1>1. SUFFICES ASSUME Types, Concluded, client.told > 0, "cut" \notin mishaps
               PROVE  /\ client.mirror.sequence >= client.told \/ "early" \in mishaps
                      /\ Ended(client.mirror.meta) \/ mishaps \cap {"outdated", "overlap", "early"} # {}
  BY DEF ExitIsLast
<1>2. client.told \in Nat /\ client.mirror.sequence \in Nat
  BY <1>1, UpdateParts DEF Types, ClientTypes
<1>3. Farewell(writer, stream, capture, serving, client.mirror, client.told, mishaps)
  BY <1>1 DEF Concluded
<1>4. client.mirror.sequence >= client.told \/ "early" \in mishaps
  BY <1>1, <1>2, <1>3 DEF Farewell, Punctual
<1>5. Ended(client.mirror.meta) \/ mishaps \cap {"outdated", "overlap", "early"} # {}
  <2>1. Departing(writer, client.told)
    BY <1>1 DEF Departing
  <2>2. Orderly(mishaps) \/ mishaps \cap {"outdated", "overlap", "early"} # {}
    BY <1>1 DEF Orderly
  <2> QED
    BY <1>1, <1>3, <2>1, <2>2 DEF Farewell
<1> QED
  BY <1>4, <1>5

\* A step that leaves the connection and what the streams have sent alone
LEMMA QuietConcluded ==
    ASSUME Types, Types', Concluded, UNCHANGED <<writer, serving, client>>,
           mishaps \subseteq mishaps', Over => Over', ExitThread',
           screen.sequence <= screen'.sequence,
           \A l \in Lanes : /\ stream'[l].pc = stream[l].pc /\ stream'[l].aborted = stream[l].aborted
                            /\ stream'[l].pending = stream[l].pending,
           \A l \in Lanes : \A i \in DOMAIN stream'[l].events :
              LET e == stream'[l].events[i] IN
              \/ IsExit(e) => Over' /\ e.sequence <= screen'.sequence
              \/ \E j \in DOMAIN stream[l].events : e = stream[l].events[j],
           \A l \in Lanes : capture'[l].pc = "context" =>
              capture'[l] = capture[l] \/ capture'[l].meta = metadata
    PROVE  Concluded'
<1>1. screen.sequence \in Nat /\ screen'.sequence \in Nat
  BY DEF Types, TerminalTypes
<1>2. \A l \in Lanes : Departs(stream[l], capture[l], Over, screen.sequence)
  BY DEF Concluded
<1>3. Over => Ended(metadata)
  BY DEF Over
<1>4. ASSUME NEW l \in Lanes PROVE Departs(stream'[l], capture'[l], Over', screen'.sequence)
  <2>1. /\ stream[l].pending.sequence \in Nat
        /\ \A j \in DOMAIN stream[l].events : stream[l].events[j].sequence \in Nat
    <3>1. stream[l].pending \in Updates /\ stream[l].events \in Seq(Events)
      BY DEF Types, StreamTypes, StreamStates
    <3>2. \A j \in DOMAIN stream[l].events : stream[l].events[j] \in Updates
      BY <3>1, ElementOfSeq, LenProperties DEF Events
    <3> QED
      BY <3>1, <3>2, UpdateParts
  <2>2. ASSUME NEW i \in DOMAIN stream'[l].events, IsExit(stream'[l].events[i])
        PROVE  Over' /\ stream'[l].events[i].sequence <= screen'.sequence
    <3>1. CASE \E j \in DOMAIN stream[l].events : stream'[l].events[i] = stream[l].events[j]
      <4>1. PICK j \in DOMAIN stream[l].events : stream'[l].events[i] = stream[l].events[j]
        BY <3>1
      <4>2. Over /\ stream[l].events[j].sequence <= screen.sequence
        BY <1>2, <2>2, <4>1 DEF Departs
      <4> QED
        BY <1>1, <2>1, <4>1, <4>2
    <3> QED
      BY <2>2, <3>1
  <2>3. stream'[l].pc \in {"draining", "ending"} =>
           Over' /\ stream'[l].pending.sequence <= screen'.sequence
    BY <1>1, <1>2, <2>1 DEF Departs
  <2>4. stream'[l].pc = "ending" /\ capture'[l].pc = "context" => Ended(capture'[l].meta)
    BY <1>2, <1>3 DEF Departs
  <2> QED
    BY <2>2, <2>3, <2>4 DEF Departs
<1>5. Departing(writer, client.told) => Over
  BY DEF Concluded
<1> DEFINE others == stream'
           caught == capture'
           more == mishaps'
<1>6. Farewell(writer, others, caught, serving, client.mirror, client.told, more)
  <2>1. Farewell(writer, stream, capture, serving, client.mirror, client.told, mishaps)
    BY DEF Concluded
  <2>2. Departing(writer, client.told) =>
           \A l \in Lanes : Retired(stream[l], capture[l]) => Retired(others[l], caught[l])
    BY <1>3, <1>5 DEF Retired
  <2>3. \A l \in Lanes : serving = l /\ others[l].pc \in Opened => stream[l].pc \in Opened
    OBVIOUS
  <2>4. mishaps \subseteq more
    OBVIOUS
  <2> HIDE DEF others, caught, more
  <2>5. CASE writer.closed
    BY <2>1, <2>2, <2>4, <2>5, FarewellCloses
  <2>6. CASE ~writer.closed
    <3>1. Bides(writer, writer)
      BY DEF Bides
    <3>2. \A e \in Parting(writer) : Sending(writer, e.after_lane) => Sending(writer, e.after_lane)
      OBVIOUS
    <3> QED
      BY <2>1, <2>2, <2>3, <2>4, <2>6, <3>1, FarewellCarried
  <2> QED
    BY <2>5, <2>6
<1> QED
  BY <1>4, <1>5, <1>6 DEF Concluded

\* A step that leaves the streams alone too
LEMMA StillConcluded ==
    ASSUME Types, Types', Concluded, UNCHANGED <<writer, serving, client, stream>>,
           mishaps \subseteq mishaps', Over => Over', ExitThread',
           screen.sequence <= screen'.sequence,
           \A l \in Lanes : capture'[l].pc = "context" =>
              capture'[l] = capture[l] \/ capture'[l].meta = metadata
    PROVE  Concluded'
BY QuietConcluded

\* The exit thread is not one of the lanes'.
LEMMA ExitIsThread ==
    /\ "exit" \in Threads /\ \A l \in Lanes : l \in Threads /\ l # "exit"
    /\ "titles" \in Threads /\ "publisher" \in Threads /\ "request" \in Threads
BY StreamAssumption DEF Threads

\* What the exit thread has is as it was.
LEMMA ExitThreadStays ==
    ASSUME ExitThread, Over => Over', screen.sequence <= screen'.sequence,
           screen.sequence \in Nat, screen'.sequence \in Nat,
           capture'["exit"].pc = capture["exit"].pc, capture'["exit"].meta = capture["exit"].meta,
           capture'["exit"].update = capture["exit"].update,
           capture["exit"].update.sequence \in Nat,
           exited /\ Ended(metadata) => exited' /\ Ended(metadata')
    PROVE  ExitThread'
BY DEF ExitThread

\* A process that has exited stays so.
LEMMA OverStays ==
    ASSUME mishaps \subseteq mishaps', screen'.meta = screen.meta,
           exited /\ Ended(metadata) => exited' /\ Ended(metadata')
    PROVE  Over => Over'
BY DEF Over

-----------------------------------------------------------------------------
(* The terminal, the views and the requests, and the exit.                 *)

\* The types that these steps need
LEMMA ConcludedTypes ==
    ASSUME Types
    PROVE  /\ screen.sequence \in Nat /\ screen.meta \in 0 .. 3 /\ metadata \in 0 .. 3
           /\ exited \in BOOLEAN
           /\ capture \in [Threads -> CaptureStates]
           /\ \A t \in Threads : capture[t].update \in Updates /\ capture[t].update.sequence \in Nat
<1>1. capture \in [Threads -> CaptureStates]
  BY DEF Types, CaptureTypes
<1>2. \A t \in Threads : capture[t].update \in Updates
  BY <1>1 DEF CaptureStates
<1> QED
  BY <1>1, <1>2, UpdateParts DEF Types, TerminalTypes

\* The threads of the terminal before a capture
LEMMA ThreadsConcluded ==
    Types /\ Types' /\ Sound /\ Concluded
    /\ (ReadOutput \/ PublisherStarts \/ PublisherDecides \/ SetTitle \/ Exit \/ ExitState) => Concluded'
<1>1. SUFFICES ASSUME Types, Types', Sound, Concluded,
                      ReadOutput \/ PublisherStarts \/ PublisherDecides \/ SetTitle \/ Exit \/ ExitState
               PROVE  Concluded'
  OBVIOUS
<1>2. UNCHANGED <<writer, serving, client, stream, screen, mishaps>>
  BY <1>1, ThreadsStill
<1>3. /\ screen.sequence \in Nat /\ screen.meta \in 0 .. 3 /\ metadata \in 0 .. 3
      /\ capture \in [Threads -> CaptureStates] /\ capture["exit"].update.sequence \in Nat
  BY <1>1, ConcludedTypes, ExitIsThread
<1>4. /\ exited /\ Ended(metadata) => exited' /\ Ended(metadata')
      /\ ExitThread'
      /\ \A l \in Lanes : capture'[l] = capture[l]
  <2>1. ExitThread
    BY <1>1 DEF Concluded
  <2>2. CASE ReadOutput
    BY <1>2, <2>1, <2>2 DEF ReadOutput, ExitThread, Over
  <2>3. CASE PublisherStarts
    BY <1>2, <1>3, <2>1, <2>3, ExitIsThread, StreamAssumption DEF PublisherStarts, ExitThread, Over
  <2>4. CASE PublisherDecides
    BY <1>2, <1>3, <2>1, <2>4, ExitIsThread, StreamAssumption DEF PublisherDecides, ExitThread, Over
  <2>5. CASE SetTitle
    <3>1. exited' = exited /\ (Ended(metadata) => Ended(metadata'))
      BY <1>3, <2>5 DEF SetTitle, Ended, Exited
    <3>2. /\ capture'["exit"] = capture["exit"]
          /\ \A l \in Lanes : capture'[l] = capture[l]
      BY <1>3, <2>5, ExitIsThread, StreamAssumption DEF SetTitle
    <3> QED
      BY <1>2, <2>1, <3>1, <3>2 DEF ExitThread, Over
  <2>6. CASE Exit
    <3>1. exited' /\ metadata' = metadata /\ ~exited
      BY <2>6 DEF Exit
    <3>2. /\ capture'["exit"].pc = "flagged"
          /\ \A l \in Lanes : capture'[l] = capture[l]
      BY <1>3, <2>6, ExitIsThread DEF Exit, CaptureStates
    <3> QED
      BY <3>1, <3>2 DEF ExitThread
  <2>7. CASE ExitState
    <3>1. exited /\ metadata < Exited /\ exited' = exited /\ metadata' = metadata + Exited
      BY <1>1, <2>7 DEF ExitState, Types, ExitOnce
    <3>2. capture' = [capture EXCEPT !["exit"] = [pc |-> "read", meta |-> metadata',
                                              update |-> Nothing, next |-> "published"]]
      BY <2>7 DEF ExitState
    <3>3. /\ capture'["exit"].pc = "read" /\ capture'["exit"].meta = metadata'
          /\ \A l \in Lanes : capture'[l] = capture[l]
      BY <1>3, <3>2, ExitIsThread
    <3>4. Ended(metadata') /\ ~Ended(metadata)
      BY <1>3, <3>1 DEF Ended, Exited
    <3> QED
      BY <3>1, <3>3, <3>4 DEF ExitThread
  <2> QED
    BY <1>1, <2>2, <2>3, <2>4, <2>5, <2>6, <2>7
<1>5. Over => Over'
  BY <1>2, <1>4, OverStays
<1> QED
  BY <1>1, <1>2, <1>3, <1>4, <1>5, StillConcluded

\* A thread that looks before it views, the other Client, the subscriber count
LEMMA LooksConcluded ==
    \A t \in Threads \ {"exit"}, scrolled \in BOOLEAN, who \in {"viewer", "other"} :
        /\ Types /\ Types' /\ Sound /\ Concluded /\ LookAtStale(t) => Concluded'
        /\ Types /\ Types' /\ Sound /\ Concluded /\ ReadContext(t, scrolled) => Concluded'
        /\ Types /\ Types' /\ Sound /\ Concluded /\ StoreCount(who) => Concluded'
        /\ Types /\ Types' /\ Sound /\ Concluded /\ OtherWatches => Concluded'
<1>1. SUFFICES ASSUME NEW t \in Threads \ {"exit"}, NEW scrolled \in BOOLEAN,
                      NEW who \in {"viewer", "other"}, Types, Types', Sound, Concluded,
                      LookAtStale(t) \/ ReadContext(t, scrolled) \/ StoreCount(who) \/ OtherWatches
               PROVE  Concluded'
  OBVIOUS
<1>2. UNCHANGED <<writer, serving, client, stream, screen, mishaps>>
  BY <1>1, LooksStill
<1>3. UNCHANGED <<metadata, exited>>
  BY <1>1 DEF LookAtStale, ReadContext, StoreCount, OtherWatches, hostSide, terminalVars
<1>4. screen.sequence \in Nat /\ capture \in [Threads -> CaptureStates]
  BY <1>1, ConcludedTypes
<1>5. /\ capture'["exit"] = capture["exit"]
      /\ \A l \in Lanes : capture'[l].pc = "context" =>
            capture'[l] = capture[l] \/ capture'[l].meta = metadata
  <2>1. CASE LookAtStale(t)
    BY <1>1, <1>4, <2>1, ExitIsThread DEF LookAtStale, Resting
  <2>2. CASE ReadContext(t, scrolled)
    BY <1>1, <1>4, <2>2, ExitIsThread DEF ReadContext, CaptureStates
  <2>3. CASE StoreCount(who) \/ OtherWatches
    BY <2>3 DEF StoreCount, OtherWatches, hostSide
  <2> QED
    BY <1>1, <2>1, <2>2, <2>3
<1>6. (Over => Over') /\ ExitThread'
  BY <1>1, <1>2, <1>3, <1>5, OverStays DEF ExitThread, Over, Concluded
<1> QED
  BY <1>1, <1>2, <1>4, <1>5, <1>6, StillConcluded

\* A capture shows what the thread read, and if that is no longer so it is a mishap.
LEMMA CaptureConcluded ==
    \A t \in Threads : Types /\ Types' /\ Sound /\ Concluded /\ Capture(t) => Concluded'
<1>1. SUFFICES ASSUME NEW t \in Threads, Types, Types', Sound, Concluded, Capture(t)
               PROVE  Concluded'
  OBVIOUS
<1>2. UNCHANGED <<writer, serving, client, stream, metadata, exited>> /\ mishaps \subseteq mishaps'
  BY <1>1 DEF Capture, streamVars, clientSide, Mishap
<1>3. /\ screen.sequence \in Nat /\ capture \in [Threads -> CaptureStates]
      /\ capture["exit"].update.sequence \in Nat
  BY <1>1, ConcludedTypes, ExitIsThread
<1>4. /\ screen' = [sequence |-> screen.sequence + 1, meta |-> capture[t].meta]
      /\ capture[t].meta # metadata => "outdated" \in mishaps'
      /\ capture[t].pc = "read"
  BY <1>1 DEF Capture, Mishap
<1>5. screen'.sequence = screen.sequence + 1 /\ screen'.meta = capture[t].meta
  BY <1>4
<1>6. exited /\ Ended(metadata) => Over'
  BY <1>2, <1>4, <1>5 DEF Over
<1>7. PICK update : capture' = [capture EXCEPT ![t].pc = "captured", ![t].update = update]
  BY <1>1 DEF Capture
<1>8. capture'[t].pc = "captured" /\ \A k \in Threads \ {t} : capture'[k] = capture[k]
  BY <1>3, <1>7 DEF CaptureStates
<1>9. ExitThread'
  <2>1. ExitThread
    BY <1>1 DEF Concluded
  <2>2. CASE t = "exit"
    BY <1>4, <1>6, <1>8, <2>1, <2>2 DEF ExitThread
  <2>3. CASE t # "exit"
    <3>1. capture'["exit"] = capture["exit"]
      BY <1>8, <2>3, ExitIsThread
    <3> QED
      BY <1>2, <1>3, <1>5, <1>6, <2>1, <3>1 DEF ExitThread, Over
  <2> QED
    BY <2>2, <2>3
<1>10. \A l \in Lanes : capture'[l].pc = "context" => capture'[l] = capture[l]
  BY <1>8, ExitIsThread
<1> QED
  BY <1>1, <1>2, <1>3, <1>5, <1>6, <1>9, <1>10, StillConcluded DEF Over

\* What is published of the exit comes after the final screen.
LEMMA PublishConcluded ==
    \A t \in Threads : Types /\ Types' /\ Sound /\ Concluded /\ (Publish(t) \/ TellExit) => Concluded'
<1>1. SUFFICES ASSUME NEW t \in Threads, Types, Types', Sound, Concluded, Publish(t) \/ TellExit
               PROVE  Concluded'
  OBVIOUS
<1>2. UNCHANGED <<writer, serving, client, screen, metadata, exited>> /\ mishaps \subseteq mishaps'
  BY <1>1 DEF Publish, TellExit, Broadcast, terminalVars, clientSide, Mishap
<1>3. /\ screen.sequence \in Nat /\ capture \in [Threads -> CaptureStates]
      /\ capture["exit"].update.sequence \in Nat
  BY <1>1, ConcludedTypes, ExitIsThread
<1>4. Over => Over'
  BY <1>2, OverStays
<1>5. ExitThread
  BY <1>1 DEF Concluded
<1>6. PICK event \in Events : /\ Broadcast(event)
                              /\ IsExit(event) => Over /\ event.sequence <= screen.sequence
  <2>1. CASE Publish(t)
    <3> DEFINE update == capture[t].update
    <3>1. Broadcast(update) /\ capture[t].pc = "captured" /\ update \in Updates
      BY <1>1, <2>1, ConcludedTypes DEF Publish
    <3>2. update.base >= 0
      BY <1>1, <3>1 DEF Types, CaptureTypes
    <3>3. update \in Events /\ ~IsExit(update)
      BY <3>1, <3>2 DEF Events, IsExit
    <3> QED
      BY <3>1, <3>3
  <2>2. CASE TellExit
    <3> DEFINE event == ExitEvent(capture["exit"].update.sequence)
    <3>1. capture["exit"].pc = "published" /\ Broadcast(event)
      BY <2>2 DEF TellExit
    <3>2. Over /\ capture["exit"].update.sequence <= screen.sequence
      BY <1>5, <3>1 DEF ExitThread
    <3>3. event \in Events /\ IsExit(event)
      BY <1>3, UpdatesAre DEF Events, IsExit, ExitEvent, Mark
    <3>4. event.sequence = capture["exit"].update.sequence
      BY DEF ExitEvent, Mark
    <3> HIDE DEF event
    <3> QED
      BY <3>1, <3>2, <3>3, <3>4
  <2> QED
    BY <1>1, <2>1, <2>2
<1>7. ASSUME NEW l \in Lanes
      PROVE  /\ stream'[l].pc = stream[l].pc /\ stream'[l].aborted = stream[l].aborted
             /\ stream'[l].pending = stream[l].pending
             /\ \A i \in DOMAIN stream'[l].events :
                   \/ stream'[l].events[i] = event
                   \/ \E j \in DOMAIN stream[l].events : stream'[l].events[i] = stream[l].events[j]
  <2>1. stream'[l] = Receives(stream[l], event)
    BY <1>6 DEF Broadcast
  <2>2. StreamFits(stream[l])
    BY <1>1, StreamIs DEF Types
  <2> QED
    BY <2>1, <2>2, ReceivesOnly
<1>8. \A l \in Lanes : \A i \in DOMAIN stream'[l].events :
         LET e == stream'[l].events[i] IN
         \/ IsExit(e) => Over' /\ e.sequence <= screen'.sequence
         \/ \E j \in DOMAIN stream[l].events : e = stream[l].events[j]
  BY <1>2, <1>4, <1>6, <1>7
<1>9. ExitThread' /\ \A l \in Lanes : capture'[l].pc = "context" => capture'[l] = capture[l]
  <2>1. CASE Publish(t)
    <3> DEFINE c == IF capture[t].next = "published" THEN [capture[t] EXCEPT !.pc = "published"]
                    ELSE [Resting EXCEPT !.pc = capture[t].next]
    <3>1. capture' = [capture EXCEPT ![t] = c] /\ capture[t].pc = "captured"
      BY <2>1 DEF Publish
    <3>2. c.pc \in {"idle", "look", "view", "published"}
          /\ (c.pc = "published" => c.update = capture[t].update)
      <4>1. capture[t] \in CaptureStates
        BY <1>3
      <4>2. CASE capture[t].next = "published"
        BY <4>1, <4>2 DEF CaptureStates
      <4>3. CASE capture[t].next # "published"
        BY <4>1, <4>3 DEF CaptureStates, Resting
      <4> QED
        BY <4>2, <4>3
    <3> HIDE DEF c
    <3>3. capture'[t] = c /\ \A k \in Threads \ {t} : capture'[k] = capture[k]
      BY <1>3, <3>1
    <3>4. CASE t = "exit"
      <4>1. capture["exit"].update.sequence <= screen.sequence
        <5>1. IsUpdate(capture[t].update, screen.sequence)
          BY <1>1, <3>1 DEF Sound, Numbers, CaptureNumbers
        <5> QED
          BY <1>3, <3>4, <5>1 DEF IsUpdate, IsView
      <4>2. Over'
        BY <1>4, <1>5, <3>1, <3>4 DEF ExitThread
      <4> QED
        BY <1>2, <3>2, <3>3, <3>4, <4>1, <4>2, ExitIsThread DEF ExitThread
    <3>5. CASE t # "exit"
      <4>1. capture'["exit"] = capture["exit"]
        BY <3>3, <3>5, ExitIsThread
      <4> QED
        BY <1>2, <1>4, <1>5, <3>2, <3>3, <4>1, ExitIsThread DEF ExitThread, Over
    <3> QED
      BY <3>4, <3>5
  <2>2. CASE TellExit
    <3>1. capture' = [capture EXCEPT !["exit"] = Resting]
      BY <2>2 DEF TellExit
    <3>2. capture'["exit"].pc = "idle" /\ \A l \in Lanes : capture'[l] = capture[l]
      BY <1>3, <3>1, ExitIsThread DEF Resting
    <3> QED
      BY <3>2 DEF ExitThread
  <2> QED
    BY <1>1, <2>1, <2>2
<1>10. screen.sequence <= screen'.sequence
  BY <1>2, <1>3
<1> QED
  BY <1>1, <1>2, <1>4, <1>7, <1>8, <1>9, <1>10, QuietConcluded

\* The streams that watch an attachment are woken.
LEMMA AttachmentConcluded ==
    ASSUME Types, Types', Concluded,
           UNCHANGED <<writer, serving, client, screen, metadata, exited, mishaps>>,
           NEW a, Attachment(a), capture'["exit"] = capture["exit"],
           \A l \in Lanes : capture'[l] = capture[l]
    PROVE  Concluded'
<1>1. ASSUME NEW l \in Lanes
      PROVE  /\ stream'[l].events = stream[l].events
             /\ stream'[l].pc = stream[l].pc /\ stream'[l].aborted = stream[l].aborted
             /\ stream'[l].pending = stream[l].pending
  <2> DEFINE s == stream[l]
             revised == s.revised \/ a.scrolled # attachment.scrolled
             detached == s.detached \/ ~a.attached
  <2>1. stream'[l] = s \/ stream'[l] = [s EXCEPT !.changed = TRUE, !.revised = revised, !.detached = detached]
    BY DEF Attachment
  <2>2. s \in StreamStates
    BY DEF Types, StreamTypes
  <2> HIDE DEF s, revised, detached
  <2>3. /\ stream'[l].events = s.events
        /\ stream'[l].pc = s.pc /\ stream'[l].aborted = s.aborted /\ stream'[l].pending = s.pending
    BY <2>1, <2>2 DEF StreamStates
  <2> QED
    BY <2>3 DEF s
<1>2. Over => Over'
  BY OverStays
<1>3. screen.sequence \in Nat
  BY ConcludedTypes
<1>4. ExitThread'
  BY <1>2 DEF ExitThread, Over, Concluded
<1> QED
  BY <1>1, <1>2, <1>3, <1>4, QuietConcluded

\* The requests and the views
LEMMA RequestsConcluded ==
    Types /\ Types' /\ Sound /\ Concluded
    /\ (SetVisible \/ ScrollView \/ Spawned \/ Detach \/ Attached \/ Attach) => Concluded'
<1>1. SUFFICES ASSUME Types, Types', Sound, Concluded,
                      SetVisible \/ ScrollView \/ Spawned \/ Detach \/ Attached \/ Attach
               PROVE  Concluded'
  OBVIOUS
<1>2. UNCHANGED <<writer, serving, client, screen, metadata, exited, mishaps>>
  BY <1>1 DEF SetVisible, ScrollView, Spawned, Detach, Attached, Attach, hostSide, terminalVars,
              streamVars
<1>3. capture'["exit"] = capture["exit"] /\ \A l \in Lanes : capture'[l] = capture[l]
  <2>1. CASE SetVisible \/ ScrollView \/ Spawned \/ Detach
    BY <2>1 DEF SetVisible, ScrollView, Spawned, Detach, hostSide
  <2>2. CASE Attached \/ Attach
    <3>1. \E c : capture' = [capture EXCEPT !["request"] = c]
      BY <2>2 DEF Attached, Attach
    <3>2. \A l \in Lanes : l # "request"
      BY StreamAssumption
    <3> QED
      BY <1>1, <3>1, <3>2, ConcludedTypes, ExitIsThread
  <2> QED
    BY <1>1, <2>1, <2>2
<1>4. CASE Attach
  <2>1. UNCHANGED stream
    BY <1>4 DEF Attach, streamVars
  <2>2. (Over => Over') /\ ExitThread'
    BY <1>1, <1>2, <1>3, OverStays DEF ExitThread, Over, Concluded
  <2>3. screen.sequence \in Nat
    BY <1>1, ConcludedTypes
  <2> QED
    BY <1>1, <1>2, <1>3, <2>1, <2>2, <2>3, StillConcluded
<1>5. CASE ~Attach
  <2>1. \E a : Attachment(a)
    BY <1>1, <1>5 DEF SetVisible, ScrollView, Spawned, Detach, Attached, Register
  <2> QED
    BY <1>1, <1>2, <1>3, <2>1, AttachmentConcluded
<1> QED
  BY <1>4, <1>5

-----------------------------------------------------------------------------
(* The steps of a stream that send nothing, and the exit.                  *)

\* A stream moves, and the connection with it.
LEMMA StreamConcluded ==
    ASSUME Types, Types', Concluded, NEW l \in Lanes, NEW s, Becomes(l, s),
           UNCHANGED <<serving, client, screen, metadata, exited>>, mishaps \subseteq mishaps',
           \A t \in Threads \ {l} : capture'[t] = capture[t],
           Over => Departs(s, capture'[l], TRUE, screen.sequence),
           ~Over => Departs(s, capture'[l], FALSE, screen.sequence),
           Departing(writer', client.told) => Over,
           Farewell(writer', stream', capture', serving, client.mirror, client.told, mishaps')
    PROVE  Concluded'
<1>1. stream'[l] = s /\ \A k \in Lanes \ {l} : stream'[k] = stream[k]
  BY DEF Types, StreamTypes, Becomes
<1>2. Over => Over'
  BY OverStays
<1>3. ExitThread'
  <2>1. capture'["exit"] = capture["exit"]
    BY ExitIsThread
  <2> QED
    BY <1>2, <2>1 DEF ExitThread, Over, Concluded
<1>4. ASSUME NEW k \in Lanes PROVE Departs(stream'[k], capture'[k], Over', screen'.sequence)
  <2>1. CASE k = l
    BY <1>1, <1>2, <2>1 DEF Departs
  <2>2. CASE k # l
    <3>1. stream'[k] = stream[k] /\ capture'[k] = capture[k]
      BY <1>1, <2>2, ExitIsThread
    <3>2. Departs(stream[k], capture[k], Over, screen.sequence)
      BY DEF Concluded
    <3> QED
      BY <1>2, <3>1, <3>2 DEF Departs
  <2> QED
    BY <2>1, <2>2
<1>5. Departing(writer, client.told)' => Over'
  BY <1>2
<1>6. Farewell(writer, stream, capture, serving, client.mirror, client.told, mishaps)'
  OBVIOUS
<1> QED
  BY <1>3, <1>4, <1>5, <1>6 DEF Concluded

\* What the invariant says of one stream, as far as the process has exited
LEMMA ConcludedParts ==
    ASSUME Concluded, NEW l \in Lanes
    PROVE  /\ Farewell(writer, stream, capture, serving, client.mirror, client.told, mishaps)
           /\ Departing(writer, client.told) => Over
           /\ Departs(stream[l], capture[l], Over, screen.sequence)
           /\ Over => exited /\ Ended(metadata)
BY DEF Concluded, Over

\* The task of a stream ends: an exit that waits for its frame is not cut off.
LEMMA EndConcluded ==
    ASSUME Types, Types', Sound, Concluded, NEW l \in Lanes, EndStream(l), mishaps \subseteq mishaps',
           UNCHANGED <<serving, client, screen, metadata, exited>>,
           \/ "cut" \in mishaps' \/ writer.closed \/ ~writer.render[l].open
           \/ ~Sending(writer, l) \/ l \notin Awaited(writer)
    PROVE  Concluded'
<1> DEFINE w == writer
           v == DropLane(w, l)
           others == stream'
           caught == capture'
           more == mishaps'
<1>1. others[l] = NoStream /\ \A k \in Lanes \ {l} : others[k] = stream[k]
  BY DEF EndStream, Becomes, Types, StreamTypes
<1>2. writer' = v /\ Becomes(l, NoStream) /\ capture' = [capture EXCEPT ![l] = Resting]
  BY DEF EndStream
<1>3. Good(w, Messages) /\ w \in Writer(Messages)
  BY DEF Types, WriterTypes, Good
<1>4. Parting(v) = Parting(w) /\ LastWords(v) = LastWords(w) /\ v.lane = w.lane /\ v.closed = w.closed
  BY <1>3, LanesBide
<1>5. /\ caught[l] = Resting
      /\ \A t \in Threads \ {l} : caught[t] = capture[t]
  BY <1>2, ConcludedTypes, ExitIsThread
<1>6. NoStream.pc = "none" /\ NoStream.events = <<>> /\ ~NoStream.aborted
  BY DEF NoStream
<1>7. \A over, n, c : Departs(NoStream, c, over, n)
  BY <1>6 DEF Departs
<1>8. Farewell(w, stream, capture, serving, client.mirror, client.told, mishaps)
  BY ConcludedParts
<1>9. Departing(v, client.told) => Over
  BY <1>4, ConcludedParts DEF Departing
<1>10. \A k \in Lanes : Retired(stream[k], capture[k]) => Retired(others[k], caught[k])
  <2>1. Retired(NoStream, caught[l])
    BY <1>6 DEF Retired
  <2>2. \A k \in Lanes \ {l} : caught[k] = capture[k]
    BY <1>5, ExitIsThread
  <2> QED
    BY <1>1, <2>1, <2>2
<1>11. Farewell(v, others, caught, serving, client.mirror, client.told, more)
  <2>1. CASE w.closed
    <3>1. mishaps \subseteq more /\ v.closed
      BY <1>4, <2>1
    <3>2. Orderly(more) /\ Departing(w, client.told) =>
             \A k \in Lanes : Retired(stream[k], capture[k]) => Retired(others[k], caught[k])
      BY <1>10
    <3> HIDE DEF w, v, others, caught, more
    <3> QED
      BY <1>8, <3>1, <3>2, FarewellCloses
  <2>2. CASE ~w.closed
    <3>1. Fleet(w) /\ Addressed(w)
      BY <1>8, <2>2 DEF Sound, Flows, Flow, Farewell
    <3>2. /\ OneLane(w, v, l)
          /\ Sending(v, l) => Sending(w, l) /\ Sent(v, l) = Sent(w, l)
      BY <1>3, <3>1, DropLaneKeeps
    <3>3. \A k \in Lanes : Sending(v, k) => Sending(w, k) /\ Sent(v, k) = Sent(w, k)
      BY <3>2 DEF OneLane
    <3>4. Bides(w, v)
      BY <1>4 DEF Bides
    <3>5. ASSUME NEW e \in Parting(w), Sending(w, e.after_lane), Punctual(more)
          PROVE  Sending(v, e.after_lane)
      <4>1. e.after_lane \in Lanes /\ e.after_lane \in Awaited(w)
        BY <1>3, <3>1, <3>5, PartingAre DEF Addressed
      <4>2. CASE e.after_lane # l
        BY <3>2, <3>5, <4>1, <4>2 DEF OneLane
      <4>3. CASE e.after_lane = l
        <5>1. ~w.render[l].open
          BY <2>2, <3>5, <4>1, <4>3 DEF Punctual
        <5>2. w.render[l].items = <<>>
          BY <3>1, <5>1 DEF Fleet, Loaded
        <5> QED
          BY <1>4, <3>5, <4>3, <5>2 DEF Sending
      <4> QED
        BY <4>2, <4>3
    <3>6. ASSUME NEW k \in Lanes, serving = k, others[k].pc \in Opened
          PROVE  stream[k].pc \in Opened /\ (Sending(w, k) => Sending(v, k))
      <4>1. k # l
        BY <1>1, <1>6, <3>6 DEF Opened
      <4> QED
        BY <1>1, <3>2, <3>6, <4>1 DEF OneLane
    <3>7. mishaps \subseteq more
      OBVIOUS
    <3> HIDE DEF w, v, others, caught, more
    <3> QED
      BY <1>4, <1>8, <1>10, <2>2, <3>3, <3>4, <3>5, <3>6, <3>7, FarewellCarried
  <2> QED
    BY <2>1, <2>2
<1> QED
  BY <1>2, <1>5, <1>7, <1>9, <1>11, StreamConcluded

\* A stream ends that no message waits for.
LEMMA UnawaitedEnds ==
    ASSUME Types, Types', Sound, Concluded, NEW l \in Lanes, EndStream(l), mishaps \subseteq mishaps',
           UNCHANGED <<serving, client, screen, metadata, exited>>,
           stream[l].pc \notin {"leaving", "none"}
    PROVE  Concluded'
<1>1. writer.closed \/ l \notin Awaited(writer)
  BY SoundParts DEF Flow, Stationed
<1> QED
  BY <1>1, EndConcluded

\* A stream moves on by itself.
LEMMA MoveConcluded ==
    ASSUME Types, Types', Concluded, NEW l \in Lanes, NEW s, Becomes(l, s),
           UNCHANGED <<serving, client, screen, metadata, exited, writer>>,
           mishaps \subseteq mishaps',
           \A t \in Threads \ {l} : capture'[t] = capture[t],
           s.pc \in Opened => stream[l].pc \in Opened,
           Over => Departs(s, capture'[l], TRUE, screen.sequence),
           ~Over => Departs(s, capture'[l], FALSE, screen.sequence),
           Over /\ Retired(stream[l], capture[l]) => Retired(s, capture'[l])
    PROVE  Concluded'
<1> DEFINE w == writer
           others == stream'
           caught == capture'
           more == mishaps'
<1>1. others[l] = s /\ \A k \in Lanes \ {l} : others[k] = stream[k] /\ caught[k] = capture[k]
  BY ExitIsThread DEF Types, StreamTypes, Becomes
<1>2. Farewell(w, stream, capture, serving, client.mirror, client.told, mishaps)
      /\ (Departing(w, client.told) => Over)
  BY ConcludedParts
<1>3. Departing(w, client.told) =>
         \A k \in Lanes : Retired(stream[k], capture[k]) => Retired(others[k], caught[k])
  <2>1. Over /\ Retired(stream[l], capture[l]) => Retired(others[l], caught[l])
    BY <1>1
  <2> HIDE DEF others, caught
  <2> QED
    BY <1>1, <1>2, <2>1
<1>4. \A k \in Lanes : others[k].pc \in Opened => stream[k].pc \in Opened
  BY <1>1
<1>5. mishaps \subseteq more
  OBVIOUS
<1>6. Farewell(w, others, caught, serving, client.mirror, client.told, more)
  <2> HIDE DEF w, others, caught, more
  <2>1. CASE w.closed
    BY <1>2, <1>3, <1>5, <2>1, FarewellCloses
  <2>2. CASE ~w.closed
    <3>1. Bides(w, w)
      BY DEF Bides
    <3> QED
      BY <1>2, <1>3, <1>4, <1>5, <2>2, <3>1, FarewellCarried
  <2> QED
    BY <2>1, <2>2
<1> QED
  BY <1>2, <1>6, StreamConcluded

\* A stream that opens has not sent its first screen yet.
LEMMA OpenStreamConcluded ==
    \A l \in Lanes : Types /\ Types' /\ Sound /\ Concluded /\ OpenStream(l) => Concluded'
<1>1. SUFFICES ASSUME NEW l \in Lanes, Types, Types', Sound, Concluded, OpenStream(l) PROVE Concluded'
  OBVIOUS
<1>2. UNCHANGED <<serving, client, screen, metadata, exited, mishaps>> /\ stream[l].pc = "starting"
  BY <1>1 DEF OpenStream, streamRest, terminalVars
<1>3. CASE stream[l].detached
  BY <1>1, <1>2, <1>3, UnawaitedEnds DEF OpenStream
<1>4. CASE ~stream[l].detached
  <2> DEFINE s == [stream[l] EXCEPT !.pc = "opening", !.revised = FALSE,
                                    !.visible = attachment.visible,
                                    !.scrolled = attachment.scrolled]
  <2>1. Becomes(l, s) /\ capture' = [capture EXCEPT ![l].pc = "look"] /\ writer' = writer
    BY <1>1, <1>4 DEF OpenStream
  <2>2. s.pc = "opening" /\ s.aborted = stream[l].aborted /\ s.events = stream[l].events
    BY <1>1, StreamHas DEF StreamStates
  <2> HIDE DEF s
  <2>3. capture'[l].pc = "look" /\ \A t \in Threads \ {l} : capture'[t] = capture[t]
    BY <1>1, <2>1, ConcludedTypes, ExitIsThread DEF CaptureStates
  <2>4. Departs(stream[l], capture[l], Over, screen.sequence) /\ Over \in BOOLEAN
    BY <1>1, ConcludedParts, ConcludedTypes DEF Over
  <2>5. /\ Over => Departs(s, capture'[l], TRUE, screen.sequence)
        /\ ~Over => Departs(s, capture'[l], FALSE, screen.sequence)
    BY <2>2, <2>4 DEF Departs
  <2>6. Retired(stream[l], capture[l]) => Retired(s, capture'[l])
    BY <2>2, <2>3 DEF Retired
  <2> QED
    BY <1>1, <1>2, <2>1, <2>2, <2>3, <2>5, <2>6, MoveConcluded DEF Opened
<1> QED
  BY <1>3, <1>4

\* The stream of a terminal that has exited leaves after its first screen.
LEMMA CheckExitedConcluded ==
    \A l \in Lanes : Types /\ Types' /\ Sound /\ Concluded /\ CheckExited(l) => Concluded'
<1>1. SUFFICES ASSUME NEW l \in Lanes, Types, Types', Sound, Concluded, CheckExited(l) PROVE Concluded'
  OBVIOUS
<1>2. /\ UNCHANGED <<serving, client, screen, metadata, exited, writer, capture>>
      /\ mishaps \subseteq mishaps'
  BY <1>1 DEF CheckExited, streamRest, terminalVars, Mishap
<1> DEFINE pc == IF exited THEN "leaving" ELSE "streaming"
           s == [stream[l] EXCEPT !.pc = pc]
<1>3. Becomes(l, s) /\ stream[l].pc = "opened"
  BY <1>1 DEF CheckExited
<1>4. pc \in {"leaving", "streaming"} /\ (exited => pc = "leaving")
  OBVIOUS
<1> HIDE DEF pc
<1>5. s.pc = pc /\ s.aborted = stream[l].aborted /\ s.events = stream[l].events
  BY <1>1, StreamHas DEF StreamStates
<1> HIDE DEF s
<1>6. Departs(stream[l], capture[l], Over, screen.sequence) /\ Over \in BOOLEAN
      /\ (Over => exited)
  BY <1>1, ConcludedParts, ConcludedTypes DEF Over
<1>7. /\ Over => Departs(s, capture'[l], TRUE, screen.sequence)
      /\ ~Over => Departs(s, capture'[l], FALSE, screen.sequence)
  BY <1>4, <1>5, <1>6 DEF Departs
<1>8. Over /\ Retired(stream[l], capture[l]) => Retired(s, capture'[l])
  BY <1>2, <1>4, <1>5, <1>6 DEF Retired
<1> QED
  BY <1>1, <1>2, <1>3, <1>4, <1>5, <1>7, <1>8, MoveConcluded DEF Opened

\* A stream that streams goes on.
LEMMA StreamingConcluded ==
    ASSUME Types, Types', Concluded, NEW l \in Lanes, NEW s, Becomes(l, s),
           UNCHANGED <<serving, client, screen, metadata, exited, writer>>,
           mishaps \subseteq mishaps', \A t \in Threads \ {l} : capture'[t] = capture[t],
           stream[l].pc = "streaming", s.aborted = stream[l].aborted,
           s.pc \in {"streaming", "framing", "draining"},
           \A i \in DOMAIN s.events : \E j \in DOMAIN stream[l].events :
              s.events[i] = stream[l].events[j],
           s.pc = "draining" => \E j \in DOMAIN stream[l].events :
              IsExit(stream[l].events[j]) /\ s.pending = stream[l].events[j]
    PROVE  Concluded'
<1>1. Departs(stream[l], capture[l], Over, screen.sequence) /\ Over \in BOOLEAN
  BY ConcludedParts, ConcludedTypes DEF Over
<1>2. /\ Over => Departs(s, capture'[l], TRUE, screen.sequence)
      /\ ~Over => Departs(s, capture'[l], FALSE, screen.sequence)
  BY <1>1 DEF Departs
<1>3. Retired(stream[l], capture[l]) => Retired(s, capture'[l])
  BY DEF Retired
<1>4. stream[l].pc \in Opened
  BY DEF Opened
<1> QED
  BY <1>2, <1>3, <1>4, MoveConcluded

\* A stream hears of a new view.
LEMMA ReceiveViewConcluded ==
    \A l \in Lanes : Types /\ Types' /\ Sound /\ Concluded /\ ReceiveView(l) => Concluded'
<1>1. SUFFICES ASSUME NEW l \in Lanes, Types, Types', Sound, Concluded, ReceiveView(l) PROVE Concluded'
  OBVIOUS
<1>2. /\ UNCHANGED <<serving, client, screen, metadata, exited>> /\ mishaps \subseteq mishaps'
      /\ stream[l].pc = "streaming"
  BY <1>1 DEF ReceiveView, streamRest, terminalVars, Mishap
<1>3. CASE EndStream(l)
  BY <1>1, <1>2, <1>3, UnawaitedEnds
<1>4. CASE Becomes(l, ViewChanged(stream[l])) /\ UNCHANGED <<capture, writer>>
  <2> DEFINE pending == IF ~attachment.visible THEN Nothing
                        ELSE IF ~stream[l].visible \/ stream[l].revised THEN SnapshotRequired
                        ELSE stream[l].pending
             s == [stream[l] EXCEPT !.changed = FALSE, !.revised = FALSE,
                     !.visible = attachment.visible, !.scrolled = attachment.scrolled,
                     !.pending = pending]
  <2>1. Becomes(l, s)
    BY <1>1, <1>4 DEF ReceiveView, ViewChanged
  <2> HIDE DEF pending
  <2>2. s.pc = "streaming" /\ s.aborted = stream[l].aborted /\ s.events = stream[l].events
    BY <1>1, <1>2, StreamHas DEF StreamStates
  <2> HIDE DEF s
  <2> QED
    BY <1>1, <1>2, <1>4, <2>1, <2>2, StreamingConcluded
<1> QED
  BY <1>1, <1>3, <1>4 DEF ReceiveView

\* A stream takes a snapshot, a delta or the exit from its channel.
LEMMA ReceiveEventConcluded ==
    \A l \in Lanes : Types /\ Types' /\ Sound /\ Concluded /\ ReceiveEvent(l) => Concluded'
<1>1. SUFFICES ASSUME NEW l \in Lanes, Types, Types', Sound, Concluded, ReceiveEvent(l) PROVE Concluded'
  OBVIOUS
<1>2. /\ UNCHANGED <<serving, client, screen, metadata, exited, writer, capture>>
      /\ mishaps \subseteq mishaps' /\ stream[l].pc = "streaming"
  BY <1>1 DEF ReceiveEvent, streamRest, terminalVars, Mishap
<1>3. PICK t : /\ Becomes(l, t) /\ t.aborted = stream[l].aborted
               /\ t.pc \in {"streaming", "draining"}
               /\ t.pc = "draining" => \E j \in DOMAIN stream[l].events :
                     IsExit(stream[l].events[j]) /\ t.pending = stream[l].events[j]
               /\ \A i \in DOMAIN t.events : \E j \in DOMAIN stream[l].events :
                     t.events[i] = stream[l].events[j]
  BY <1>1, ReceiveEventIs
<1>4. t.pc \in {"streaming", "framing", "draining"}
  BY <1>3
<1> QED
  BY <1>1, <1>2, <1>3, <1>4, StreamingConcluded

\* A stream that drains its lane goes on to the final screen, and one that leaves waits until
\* its frame is written; else it is a mishap.
LEMMA StreamEndConcluded ==
    \A l \in Lanes :
        Types /\ Types' /\ Sound /\ Concluded /\ (Drained(l) \/ Dropped(l)) => Concluded'
<1>1. SUFFICES ASSUME NEW l \in Lanes, Types, Types', Sound, Concluded, Drained(l) \/ Dropped(l)
               PROVE  Concluded'
  OBVIOUS
<1>2. UNCHANGED <<serving, client, screen, metadata, exited>> /\ mishaps \subseteq mishaps'
  BY <1>1 DEF Drained, Dropped, streamRest, terminalVars, Mishap
<1>3. CASE EndStream(l)
  <2>1. stream[l].pc \notin {"leaving", "none"} \/ stream[l].pc = "leaving"
    BY <1>1 DEF Drained, Dropped
  <2>2. CASE stream[l].pc \notin {"leaving", "none"}
    BY <1>1, <1>2, <1>3, <2>2, UnawaitedEnds
  <2>3. CASE stream[l].pc = "leaving"
    <3>1. LaneIdle(writer, l) \/ Lost(l) \/ "cut" \in mishaps'
      BY <1>1, <2>3 DEF Drained, Dropped, Mishap
    <3>2. \/ "cut" \in mishaps' \/ writer.closed \/ ~writer.render[l].open
          \/ ~Sending(writer, l)
      BY <1>1, <3>1, DrainedSendsNothing DEF Lost
    <3> QED
      BY <1>1, <1>2, <1>3, <3>2, EndConcluded
  <2> QED
    BY <2>1, <2>2, <2>3
<1>4. CASE ~EndStream(l)
  <2> DEFINE s == [stream[l] EXCEPT !.pc = "ending"]
  <2>1. Becomes(l, s) /\ capture' = [capture EXCEPT ![l].pc = "look"] /\ UNCHANGED writer
        /\ stream[l].pc = "draining"
    BY <1>1, <1>4 DEF Drained, Dropped
  <2>2. /\ s.pc = "ending" /\ s.aborted = stream[l].aborted /\ s.events = stream[l].events
        /\ s.pending = stream[l].pending
    BY <1>1, StreamHas DEF StreamStates
  <2> HIDE DEF s
  <2>3. capture'[l].pc = "look" /\ \A t \in Threads \ {l} : capture'[t] = capture[t]
    BY <1>1, <2>1, ConcludedTypes, ExitIsThread DEF CaptureStates
  <2>4. Departs(stream[l], capture[l], Over, screen.sequence) /\ Over \in BOOLEAN
    BY <1>1, ConcludedParts, ConcludedTypes DEF Over
  <2>5. /\ Over => Departs(s, capture'[l], TRUE, screen.sequence)
        /\ ~Over => Departs(s, capture'[l], FALSE, screen.sequence)
    BY <2>1, <2>2, <2>3, <2>4 DEF Departs
  <2>6. Retired(stream[l], capture[l]) => Retired(s, capture'[l])
    BY <2>1, <2>2 DEF Retired
  <2>7. stream[l].pc \in Opened
    BY <2>1 DEF Opened
  <2> QED
    BY <1>1, <1>2, <2>1, <2>2, <2>3, <2>5, <2>6, <2>7, MoveConcluded
<1> QED
  BY <1>3, <1>4

-----------------------------------------------------------------------------
(* The steps of a stream that send, and the exit.                          *)

\* A stream sends a frame.
LEMMA SendsConcluded ==
    ASSUME Types, Types', Sound, Concluded, NEW l \in Lanes, NEW u \in Updates,
           LaneTakes(writer, l, Frame(u)), ~Sending(writer, l),
           writer' = Enqueue(writer, l, Frame(u)),
           UNCHANGED <<serving, client, screen, metadata, exited>>, mishaps \subseteq mishaps',
           NEW s, Becomes(l, s), s.events = stream[l].events, s.pc \notin {"draining", "ending"},
           \A t \in Threads \ {l} : capture'[t] = capture[t],
           stream[l].pc \notin {"leaving", "none"}, IsSnapshot(u) \/ stream[l].pc \in Opened,
           Orderly(mishaps') /\ Over /\ Retired(stream[l], capture[l]) =>
              Final(u) /\ Retired(s, capture'[l])
    PROVE  Concluded'
<1> DEFINE w == writer
           item == Frame(u)
           v == writer'
           others == stream'
           caught == capture'
           more == mishaps'
<1>1. others[l] = s /\ \A k \in Lanes \ {l} : others[k] = stream[k] /\ caught[k] = capture[k]
  BY ExitIsThread DEF Types, StreamTypes, Becomes
<1>2. /\ Farewell(w, stream, capture, serving, client.mirror, client.told, mishaps)
      /\ Departing(w, client.told) => Over
      /\ Departs(stream[l], capture[l], Over, screen.sequence) /\ Over \in BOOLEAN
  BY ConcludedParts, ConcludedTypes DEF Over
<1>3. ~w.closed /\ w.render[l].open /\ Good(w, Messages) /\ Fleet(w) /\ l \notin Awaited(w)
  BY SoundParts DEF LaneTakes, Flow, Stationed
<1>4. item \in Items(Messages) /\ item.msg.kind = "frame" /\ item.msg.update = u
  BY FrameIs
<1> HIDE DEF item
<1>5. v = Enqueue(w, l, item)
  BY DEF item
<1> HIDE DEF v
<1>6. OneLane(w, v, l) /\ Sending(v, l) /\ Sent(v, l) = u
  BY <1>3, <1>4, <1>5, EnqueueKeeps
<1>7. Parting(v) = Parting(w) /\ LastWords(v) = LastWords(w) /\ v.closed = w.closed
  BY <1>3, <1>5, LanesBide DEF Good
<1>8. \A e \in Parting(w) : e.after_lane # l
  BY <1>3, PartingAre
<1>9. Orderly(more) /\ Departing(w, client.told) /\ Retired(stream[l], capture[l]) =>
         Final(Sent(v, l)) /\ Retired(others[l], caught[l])
  BY <1>1, <1>2, <1>6
<1>10. Farewell(v, others, caught, serving, client.mirror, client.told, more)
  <2>1. mishaps \subseteq more /\ ~Sending(w, l) /\ ~v.closed
    BY <1>3, <1>7
  <2>2. IsSnapshot(Sent(v, l)) \/ stream[l].pc \in Opened
    BY <1>6
  <2> HIDE DEF w, others, caught, more
  <2> QED
    BY <1>1, <1>2, <1>3, <1>6, <1>7, <1>8, <1>9, <2>1, <2>2, FarewellSends
<1>11. Departing(v, client.told) => Over
  BY <1>2, <1>7 DEF Departing
<1>12. /\ Over => Departs(s, capture'[l], TRUE, screen.sequence)
       /\ ~Over => Departs(s, capture'[l], FALSE, screen.sequence)
  BY <1>2 DEF Departs
<1> QED
  BY <1>10, <1>11, <1>12, StreamConcluded DEF v

\* A stream sends what is pending, or begins a snapshot.
LEMMA TickConcluded == \A l \in Lanes : Types /\ Types' /\ Sound /\ Concluded /\ Tick(l) => Concluded'
<1>1. SUFFICES ASSUME NEW l \in Lanes, Types, Types', Sound, Concluded, Tick(l) PROVE Concluded'
  OBVIOUS
<1>2. /\ UNCHANGED <<serving, client, screen, metadata, exited>> /\ mishaps \subseteq mishaps'
      /\ stream[l].pc = "streaming" /\ LaneIdle(writer, l)
  BY <1>1 DEF Tick, streamRest, terminalVars, Mishap
<1>3. \A u : LaneTakes(writer, l, Frame(u)) => ~Sending(writer, l)
  BY <1>1, <1>2, DrainedSendsNothing DEF LaneTakes
<1>4. \A t \in Threads \ {l} : capture'[t] = capture[t]
  <2>1. \/ UNCHANGED capture \/ capture' = [capture EXCEPT ![l] = Resting]
        \/ capture' = [capture EXCEPT ![l].pc = "look"]
    BY <1>1 DEF Tick, EndStream
  <2> QED
    BY <1>1, <2>1, ConcludedTypes
<1>5. CASE EndStream(l)
  BY <1>1, <1>2, <1>5, UnawaitedEnds
<1>6. ASSUME NEW t, Becomes(l, t), UNCHANGED writer, t.events = stream[l].events,
             t.aborted = stream[l].aborted, t.pc \in {"streaming", "framing"}
      PROVE  Concluded'
  <2>1. /\ \A i \in DOMAIN t.events : \E j \in DOMAIN stream[l].events : t.events[i] = stream[l].events[j]
        /\ t.pc \in {"streaming", "framing", "draining"} /\ t.pc # "draining"
    BY <1>6
  <2> QED
    BY <1>1, <1>2, <1>4, <1>6, <2>1, StreamingConcluded
<1>7. ASSUME NEW u \in Updates, LaneTakes(writer, l, Frame(u)), writer' = Enqueue(writer, l, Frame(u)),
             "overlap" \notin mishaps' => ~stream[l].aborted,
             NEW t, Becomes(l, t), t.events = stream[l].events, t.pc = "streaming"
      PROVE  Concluded'
  <2>1. Orderly(mishaps') => ~Retired(stream[l], capture[l])
    BY <1>2, <1>7 DEF Orderly, Retired
  <2>2. stream[l].pc \in Opened /\ ~Sending(writer, l)
    BY <1>2, <1>3, <1>7 DEF Opened
  <2> QED
    BY <1>1, <1>2, <1>4, <1>7, <2>1, <2>2, SendsConcluded
<1>8. stream[l].pending \in Updates /\ stream[l].baseline \in Baselines
  BY <1>1, StreamHas
<1> DEFINE delta == MetadataDelta(stream[l].baseline)
<1>9. delta \in Updates
  BY <1>1, <1>8, MetadataDeltaTyped DEF Types
<1> HIDE DEF delta
<1>10. \/ EndStream(l)
       \/ \E t : /\ Becomes(l, t) /\ UNCHANGED writer /\ t.events = stream[l].events
                 /\ t.aborted = stream[l].aborted /\ t.pc \in {"streaming", "framing"}
       \/ \E u \in {stream[l].pending, delta} :
             /\ LaneTakes(writer, l, Frame(u)) /\ writer' = Enqueue(writer, l, Frame(u))
             /\ "overlap" \notin mishaps' => ~stream[l].aborted
             /\ \E t : Becomes(l, t) /\ t.events = stream[l].events /\ t.pc = "streaming"
  BY <1>1, TickIs DEF delta
<1> QED
  BY <1>5, <1>6, <1>7, <1>8, <1>9, <1>10

\* A snapshot of a terminal that is over is final, and the first of its stream.
LEMMA LastSnapshot ==
    ASSUME Types, Sound, Concluded, Over, Orderly(mishaps'), mishaps \subseteq mishaps',
           NEW l \in Lanes, CanView(l, stream[l].scrolled),
           \/ stream[l].pc = "ending"
           \/ ~stream[l].aborted /\ stream[l].pc \in Snapshots /\ Retired(stream[l], capture[l])
    PROVE  /\ Final(CurrentViewport(l, stream[l].scrolled))
           /\ stream[l].pc \in {"opening", "ending"}
<1> DEFINE s == stream[l]
           viewport == CurrentViewport(l, s.scrolled)
<1>1. s.scrolled \in BOOLEAN
  BY StreamHas DEF StreamStates
<1>2. "outdated" \notin mishaps
  BY OrderlyBefore
<1>3. Ended(screen.meta)
  BY <1>2 DEF Over
<1>4. s.pc = "opening" \/ s.pc = "ending"
  BY DEF Retired, Snapshots
<1>5. s.scrolled => Ended(capture[l].meta)
  <2>1. s.scrolled => capture[l].pc = "context"
    BY DEF CanView
  <2>2. Departs(s, capture[l], Over, screen.sequence)
    BY ConcludedParts
  <2> QED
    BY <1>4, <2>1, <2>2 DEF Departs, Retired
<1>6. IsSnapshot(viewport) /\ viewport.meta = IF s.scrolled THEN capture[l].meta ELSE screen.meta
  BY DEF CurrentViewport, Viewport, IsSnapshot
<1>7. Ended(viewport.meta)
  BY <1>1, <1>3, <1>5, <1>6
<1> QED
  BY <1>4, <1>6, <1>7 DEF Final

\* A snapshot of the stream, and after the last one the message that tells the exit
LEMMA SendSnapshotConcluded ==
    \A l \in Lanes : Types /\ Types' /\ Sound /\ Concluded /\ SendSnapshot(l) => Concluded'
<1>1. SUFFICES ASSUME NEW l \in Lanes, Types, Types', Sound, Concluded, SendSnapshot(l)
               PROVE  Concluded'
  OBVIOUS
<1>2. UNCHANGED <<serving, client, screen, metadata, exited>> /\ mishaps \subseteq mishaps'
  BY <1>1 DEF SendSnapshot, streamRest, terminalVars
<1> DEFINE n == screen.sequence
           s == stream[l]
           viewport == CurrentViewport(l, s.scrolled)
           sent == Enqueue(writer, l, Frame(viewport))
           exit == [ExitMessage(s.pending.sequence) EXCEPT !.after_lane = l]
           b == Baseline(viewport)
           no == FALSE
<1>3. /\ s \in StreamStates /\ n \in Nat /\ s.pending.sequence \in Nat
      /\ s.scrolled \in BOOLEAN
  BY <1>1, StreamHas, StreamParts, SoundParts, UpdateParts
<1>4. /\ viewport \in Updates /\ IsSnapshot(viewport) /\ viewport.sequence = n
      /\ ~IsDelta(viewport) /\ IsUpdate(viewport, n)
  <2>1. CanView(l, s.scrolled) /\ l \in Threads
    BY <1>1, ThreadsAre DEF SendSnapshot
  <2>2. viewport \in Updates
    BY <1>1, <1>3, <2>1, ViewportTyped DEF Types
  <2>3. IsView(viewport, n) /\ viewport.sequence = n
    BY <1>1, ViewportIs
  <2> HIDE DEF viewport
  <2> QED
    BY <2>2, <2>3 DEF IsView, IsSnapshot, IsDelta, IsUpdate
<1>5. s.pc \in {"opening", "framing", "ending"} /\ s.pc \in Snapshots /\ CanView(l, s.scrolled)
  BY <1>1 DEF SendSnapshot, Snapshots
<1>6. \/ EndStream(l)
      \/ /\ LaneTakes(writer, l, Frame(viewport))
         /\ capture' = [capture EXCEPT ![l] = Resting]
         /\ \/ /\ s.pc = "opening"
               /\ Becomes(l, [s EXCEPT !.pc = "opened", !.baseline = b])
               /\ writer' = sent
            \/ /\ s.pc = "framing"
               /\ Becomes(l, [s EXCEPT !.pc = "streaming", !.baseline = b, !.dirty = no])
               /\ writer' = sent
            \/ /\ s.pc = "ending"
               /\ Becomes(l, [s EXCEPT !.pc = "leaving", !.pending = Nothing])
               /\ writer' = PushReliable(sent, exit)
  BY <1>1 DEF SendSnapshot, ExitMessage
<1>7. "overlap" \notin mishaps' => ~s.aborted \/ Lost(l)
  BY <1>1 DEF SendSnapshot
<1>8. CASE EndStream(l)
  <2>1. s.pc \notin {"leaving", "none"}
    BY <1>5
  <2> QED
    BY <1>1, <1>2, <1>8, <2>1, UnawaitedEnds
<1>9. CASE ~EndStream(l)
  <2>1. LaneTakes(writer, l, Frame(viewport)) /\ ~Lost(l) /\ writer.render[l].open /\ ~writer.closed
    BY <1>6, <1>9 DEF LaneTakes, Lost
  <2>2. ~Sending(writer, l) /\ (s.pc = "ending" => l \notin Awaited(writer))
    <3>1. Stationed(writer, serving, s.pc, l)
      BY <1>1, <2>1, SoundParts DEF Flow
    <3> QED
      BY <1>5, <2>1, <3>1 DEF Stationed
  <2>3. "overlap" \notin mishaps' => ~s.aborted
    BY <1>7, <2>1
  <2>4. capture'[l] = Resting /\ \A k \in Threads \ {l} : capture'[k] = capture[k]
    BY <1>1, <1>6, <1>9, ConcludedTypes, ExitIsThread
  <2>5. Over /\ Orderly(mishaps') /\ (s.pc = "ending" \/ Retired(s, capture[l]))
           => Final(viewport) /\ s.pc \in {"opening", "ending"}
    BY <1>1, <1>2, <1>5, <2>3, LastSnapshot, OrderlyBefore
  <2> HIDE DEF viewport, b, exit, no
  <2>6. ASSUME NEW t, Becomes(l, t), t.pc \in {"opened", "streaming"}, t.events = s.events,
               s.pc = "opening" => t.pc = "opened", s.pc \in {"opening", "framing"}, writer' = sent
        PROVE  Concluded'
    <3>1. Orderly(mishaps') /\ Over /\ Retired(stream[l], capture[l]) =>
             Final(viewport) /\ Retired(t, capture'[l])
      BY <2>5, <2>6 DEF Retired
    <3>2. /\ t.pc \notin {"draining", "ending"} /\ stream[l].pc \notin {"leaving", "none"}
          /\ t.events = stream[l].events
      BY <2>6
    <3> HIDE DEF s
    <3> QED
      BY <1>1, <1>2, <1>4, <2>1, <2>2, <2>4, <2>6, <3>1, <3>2, SendsConcluded
  <2>7. CASE s.pc = "opening"
    <3> DEFINE t == [s EXCEPT !.pc = "opened", !.baseline = b]
    <3>1. t.pc = "opened" /\ t.events = s.events
      BY <1>3 DEF StreamStates
    <3>2. Becomes(l, t) /\ writer' = sent
      BY <1>6, <1>9, <2>7
    <3> HIDE DEF t, s, sent
    <3> QED
      BY <2>6, <2>7, <3>1, <3>2
  <2>8. CASE s.pc = "framing"
    <3> DEFINE t == [s EXCEPT !.pc = "streaming", !.baseline = b, !.dirty = no]
    <3>1. t.pc = "streaming" /\ t.events = s.events
      BY <1>3 DEF StreamStates
    <3>2. Becomes(l, t) /\ writer' = sent
      BY <1>6, <1>9, <2>8
    <3> HIDE DEF t, s, sent
    <3> QED
      BY <2>6, <2>8, <3>1, <3>2
  <2>9. CASE s.pc = "ending"
    <3> DEFINE t == [s EXCEPT !.pc = "leaving", !.pending = Nothing]
    <3>1. t.pc = "leaving" /\ t.events = s.events /\ t.aborted = s.aborted
      BY <1>3 DEF StreamStates
    <3>2. Becomes(l, t) /\ writer' = PushReliable(sent, exit)
      BY <1>6, <1>9, <2>9
    <3> HIDE DEF t
    <3>3. stream'[l] = t /\ \A k \in Lanes \ {l} : stream'[k] = stream[k] /\ capture'[k] = capture[k]
      BY <1>1, <2>4, <3>2, ExitIsThread DEF Types, StreamTypes, Becomes
    <3>4. Over /\ s.pending.sequence <= n
      BY <1>1, <2>9, ConcludedParts DEF Departs
    <3> DEFINE others == stream'
               caught == capture'
               v == writer'
               more == mishaps'
    <3>5. others[l].pc = "leaving" /\ others[l].aborted = stream[l].aborted
      BY <3>1, <3>3
    <3>6. /\ Good(writer, Messages) /\ Fleet(writer) /\ Alone(stream, serving)
          /\ client.told \in Nat /\ client.mirror.sequence <= n
      BY <1>1, <2>1, SoundParts DEF Flow, Types, ClientTypes
    <3>7. /\ Good(sent, Messages) /\ ~sent.closed /\ Fleet(sent)
          /\ "overlap" \notin more => \A k \in Lanes : Sending(sent, k) => k = l
      <4> HIDE DEF others
      <4>1. /\ s.pc \in Opened /\ s.pc \in Opened \cup {"opening"}
            /\ others[l].pc \in {"opened", "streaming", "leaving"} /\ others[l].pc \notin Opened
        BY <2>9, <3>5 DEF Opened
      <4>2. \A k \in Lanes \ {l} : others[k] = stream[k]
        BY <3>3 DEF others
      <4> QED
        BY <1>1, <1>2, <1>4, <2>1, <2>2, <2>3, <3>5, <4>1, <4>2, SendFlow
    <3>8. exit \in Items(Messages) /\ Plain(exit) /\ exit.after_lane = l
          /\ exit.msg.update.sequence <= viewport.sequence
      <4> DEFINE told == s.pending.sequence
      <4>1. told \in Nat /\ exit = [ExitMessage(told) EXCEPT !.after_lane = l] /\ told <= n
        BY <1>3, <3>4 DEF exit
      <4> HIDE DEF told
      <4>2. exit \in Items(Messages) /\ Plain(exit) /\ exit.after_lane = l
        BY <4>1, ExitIs
      <4>3. exit.msg.update.sequence = told
        BY <4>1 DEF ExitMessage, Item, ExitEvent, Mark
      <4> QED
        BY <1>4, <4>1, <4>2, <4>3
    <3>9. v = PushReliable(sent, exit)
      BY <3>2
    <3>10. /\ OneLane(writer, sent, l) /\ Sending(sent, l) /\ Sent(sent, l) = viewport
           /\ Parting(sent) = Parting(writer) /\ LastWords(sent) = LastWords(writer)
      <4> DEFINE item == Frame(viewport)
      <4>1. item \in Items(Messages) /\ item.msg.kind = "frame" /\ item.msg.update = viewport
        BY <1>4, FrameIs
      <4>2. sent = Enqueue(writer, l, item)
        OBVIOUS
      <4> HIDE DEF item, sent
      <4>3. OneLane(writer, sent, l) /\ Sending(sent, l) /\ Sent(sent, l) = viewport
        BY <2>1, <2>2, <3>6, <4>1, <4>2, EnqueueKeeps
      <4>4. Parting(sent) = Parting(writer) /\ LastWords(sent) = LastWords(writer)
        BY <3>6, <4>2, LanesBide DEF Good
      <4> QED
        BY <4>3, <4>4
    <3>11. \A e \in Parting(writer) : e.after_lane # l
      BY <2>2, <2>9, <3>6, PartingAre
    <3>12. mishaps \subseteq more
      BY <1>2
    <3>13. Farewell(writer, stream, capture, serving, client.mirror, client.told, mishaps)
      BY <1>1, ConcludedParts
    <3>14. Farewell(v, others, caught, serving, client.mirror, client.told, more)
      <4>1. \A k \in Lanes \ {l} : others[k] = stream[k] /\ caught[k] = capture[k]
        BY <3>3
      <4>2. Orderly(more) => Final(viewport)
        BY <2>5, <2>9, <3>4
      <4>3. "overlap" \notin more => ~stream[l].aborted
        BY <2>3
      <4> HIDE DEF sent, v, others, caught, more
      <4>4. CASE v.closed
        <5>1. \A k \in Lanes : Retired(stream[k], capture[k]) => Retired(others[k], caught[k])
          <6>1. Retired(others[l], caught[l])
            BY <3>5 DEF Retired
          <6> QED
            BY <4>1, <6>1
        <5> QED
          BY <3>12, <3>13, <4>4, <5>1, FarewellCloses
      <4>5. CASE ~v.closed
        <5>1. Keeps(sent, v)
          BY <3>7, <3>8, <3>9, <4>5, PushReliableKeeps
        <5>2. \A k \in Lanes : /\ Sending(v, k) <=> Sending(sent, k)
                               /\ Sending(sent, k) => Sent(v, k) = Sent(sent, k)
          BY <5>1 DEF Keeps, SameFrames
        <5>3. Parting(v) \subseteq Parting(writer) \cup {exit} /\ LastWords(v) = LastWords(writer)
          BY <3>7, <3>8, <3>9, <3>10, <4>5, ReliableBides
        <5>4. \A k \in Lanes \ {l} : /\ Sending(v, k) <=> Sending(writer, k)
                                     /\ Sending(writer, k) => Sent(v, k) = Sent(writer, k)
          BY <3>10, <5>2 DEF OneLane
        <5>5. /\ Sending(v, l) /\ Sent(v, l) = viewport
              /\ "overlap" \notin more =>
                    ~stream[l].aborted /\ \A k \in Lanes : Sending(v, k) => k = l
          BY <3>7, <3>10, <4>3, <5>2
        <5>6. /\ IsSnapshot(Sent(v, l)) /\ client.mirror.sequence <= Sent(v, l).sequence
              /\ exit.msg.update.sequence <= Sent(v, l).sequence
              /\ Orderly(more) => Final(Sent(v, l))
          BY <1>4, <3>6, <3>8, <4>2, <5>5
        <5>7. stream[l].pc = "ending" /\ ~writer.closed /\ ~Sending(writer, l)
          BY <2>1, <2>2, <2>9
        <5> HIDE DEF s
        <5> QED
          BY <3>5, <3>6, <3>8, <3>11, <3>12, <3>13, <4>1, <4>5, <5>3, <5>4, <5>5, <5>6, <5>7,
             FarewellParts
      <4> QED
        BY <4>4, <4>5
    <3>15. Departs(t, capture'[l], TRUE, screen.sequence)
      <4>1. Departs(stream[l], capture[l], Over, screen.sequence)
        BY <1>1, ConcludedParts
      <4> QED
        BY <3>1, <3>4, <4>1 DEF Departs
    <3> QED
      BY <1>1, <1>2, <2>4, <3>2, <3>4, <3>14, <3>15, StreamConcluded
  <2> QED
    BY <1>5, <2>7, <2>8, <2>9
<1> QED
  BY <1>8, <1>9

-----------------------------------------------------------------------------
(* The requests and the connection, and the exit.                          *)

\* Only the connection and the streams move.
LEMMA ConnectionConcluded ==
    ASSUME Types, Concluded, UNCHANGED <<screen, metadata, exited, capture>>, mishaps \subseteq mishaps',
           \A l \in Lanes : \A c, over, n :
              Departs(stream[l], c, over, n) => Departs(stream'[l], c, over, n),
           Departing(writer', client'.told) => Over,
           Farewell(writer', stream', capture, serving', client'.mirror, client'.told, mishaps')
    PROVE  Concluded'
<1>1. Over => Over'
  BY OverStays
<1>2. ExitThread'
  BY <1>1 DEF ExitThread, Over, Concluded
<1>3. ASSUME NEW l \in Lanes PROVE Departs(stream'[l], capture'[l], Over', screen'.sequence)
  <2>1. Departs(stream[l], capture[l], Over, screen.sequence)
    BY DEF Concluded
  <2>2. Departs(stream'[l], capture[l], Over, screen.sequence)
    BY <2>1
  <2> QED
    BY <1>1, <2>2 DEF Departs
<1>4. Departing(writer, client.told)' => Over'
  BY <1>1
<1>5. Farewell(writer, stream, capture, serving, client.mirror, client.told, mishaps)'
  OBVIOUS
<1> QED
  BY <1>2, <1>3, <1>4, <1>5 DEF Concluded

\* Only the connection moves, and nobody is told more.
LEMMA CarriedConcluded ==
    ASSUME Types, Concluded,
           UNCHANGED <<screen, metadata, exited, capture, client, mishaps, stream, serving>>,
           NEW w, w = writer, ~w.closed, NEW v, v = writer',
           ~v.closed => /\ Bides(w, v)
                        /\ \A k \in Lanes : /\ Sending(v, k) <=> Sending(w, k)
                                            /\ Sending(w, k) => Sent(v, k) = Sent(w, k)
    PROVE  Concluded'
<1>1. Farewell(w, stream, capture, serving, client.mirror, client.told, mishaps)
      /\ (Departing(w, client.told) => Over)
  BY DEF Concluded
<1>2. CASE v.closed
  <2>1. Farewell(v, stream, capture, serving, client.mirror, client.told, mishaps)
    BY <1>1, <1>2, FarewellCloses
  <2>2. Departing(v, client.told) => Departing(w, client.told)
    BY <1>2 DEF Departing
  <2> QED
    BY <1>1, <2>1, <2>2, ConnectionConcluded
<1>3. CASE ~v.closed
  <2>1. Farewell(v, stream, capture, serving, client.mirror, client.told, mishaps)
    <3>1. Addressed(w)
      BY <1>1 DEF Farewell
    <3>2. \A e \in Parting(w) : Sending(w, e.after_lane) => Sending(v, e.after_lane)
      BY <1>3, <3>1 DEF Addressed
    <3> QED
      BY <1>1, <1>3, <3>2, FarewellCarried
  <2>2. Departing(v, client.told) => Departing(w, client.told)
    BY <1>3, DepartingBefore
  <2> QED
    BY <1>1, <2>1, <2>2, ConnectionConcluded
<1> QED
  BY <1>2, <1>3

\* Other messages are sent.
LEMMA SendOtherConcluded == Types /\ Types' /\ Sound /\ Concluded /\ SendOther => Concluded'
<1>1. SUFFICES ASSUME Types, Types', Sound, Concluded, SendOther PROVE Concluded'
  OBVIOUS
<1>2. UNCHANGED <<screen, metadata, exited, capture, client, mishaps, stream, serving>>
  BY <1>1 DEF SendOther, hostSide, terminalVars, streamVars
<1>3. Good(writer, Messages)
  BY <1>1, SoundParts
<1>4. PICK chunks \in {1, 2} : writer' \in {PushInteractive(writer, Item(OtherMessage, chunks)),
                                            PushReliable(writer, Item(OtherMessage, chunks)),
                                            PushLatest(writer, Item(OtherMessage, chunks))}
  BY <1>1 DEF SendOther, OtherMessage
<1> DEFINE item == Item(OtherMessage, chunks)
           v == writer'
           w == writer
<1>5. /\ item \in Items(Messages) /\ Plain(item) /\ item.after_lane = NoLane
      /\ item.msg.kind = "other"
  BY OtherIs
<1>6. v \in {PushInteractive(w, item), PushReliable(w, item), PushLatest(w, item)}
  BY <1>4
<1> HIDE DEF item
<1>7. CASE w.closed
  <2>1. v = w
    BY <1>6, <1>7 DEF PushInteractive, PushReliable, PushLatest
  <2> QED
    BY <1>1, <1>2, <2>1, ConnectionConcluded DEF Concluded
<1>8. CASE ~w.closed
  <2> HIDE DEF v
  <2>1. ASSUME ~v.closed
        PROVE  /\ Bides(w, v)
               /\ \A k \in Lanes : /\ Sending(v, k) <=> Sending(w, k)
                                   /\ Sending(w, k) => Sent(v, k) = Sent(w, k)
    <3>1. Fleet(w)
      BY <1>1, <1>8, SoundParts DEF Flow
    <3>2. Keeps(w, v)
      BY <1>3, <1>5, <1>6, <1>8, <2>1, <3>1, PushInteractiveKeeps, PushReliableKeeps, PushLatestKeeps
    <3>3. Bides(w, v)
      BY <1>3, <1>5, <1>6, <1>8, <2>1, QueuesBide
    <3> QED
      BY <3>2, <3>3 DEF Keeps, SameFrames
  <2> QED
    BY <1>1, <1>2, <1>8, <2>1, CarriedConcluded DEF v
<1> QED
  BY <1>7, <1>8

\* A frame is taken; the connection is lost.
LEMMA WriterTaskConcluded ==
    Types /\ Types' /\ Sound /\ Concluded /\ (LoseConnection \/ Take) => Concluded'
<1>1. SUFFICES ASSUME Types, Types', Sound, Concluded, LoseConnection \/ Take PROVE Concluded'
  OBVIOUS
<1>2. /\ UNCHANGED <<screen, metadata, exited, capture, client, mishaps, stream, serving>>
      /\ ~writer.closed
  BY <1>1 DEF LoseConnection, Take, TakeFrame, CloseWriter, hostSide, terminalVars, streamVars
<1> DEFINE v == writer'
           w == writer
<1>3. Good(w, Messages) /\ Fleet(w) /\ Addressed(w)
  BY <1>1, <1>2, SoundParts, ConcludedParts DEF Flow, Concluded, Farewell
<1>4. CASE LoseConnection
  <2>1. v.closed
    BY <1>4 DEF LoseConnection, CloseWriter, ClosedWriter
  <2> HIDE DEF v
  <2> QED
    BY <1>1, <1>2, <2>1, CarriedConcluded DEF v
<1>5. CASE Take
  <2>1. v = Select(w) /\ w.slot = "none"
    BY <1>5 DEF Take, TakeFrame
  <2> HIDE DEF v
  <2>2. Carries(w, v)
    BY <1>2, <1>3, <2>1, SelectKeeps
  <2>3. Bides(w, v)
    BY <1>2, <1>3, <2>1, SelectBides
  <2>4. \A k \in Lanes : /\ Sending(v, k) <=> Sending(w, k)
                         /\ Sending(w, k) => Sent(v, k) = Sent(w, k)
    BY <2>2 DEF Carries, Keeps, SameFrames
  <2> QED
    BY <1>1, <1>2, <2>3, <2>4, CarriedConcluded DEF v
<1> QED
  BY <1>1, <1>4, <1>5

\* What a frame makes of the mirror is no older.
LEMMA ReachedGrows ==
    ASSUME NEW n \in Nat, NEW mirror \in Updates, Mirrors(mirror, n), NEW known,
           NEW u \in Updates, IsUpdate(u, n), NEW reached, reached = Reached(mirror, known, u)
    PROVE  /\ reached.sequence \in Nat /\ mirror.sequence <= reached.sequence
           /\ mirror # Nothing => reached # Nothing
           /\ (known \/ mirror # Nothing) /\ IsSnapshot(u) =>
                 reached # Nothing /\ u.sequence <= reached.sequence
           /\ mirror # Nothing /\ IsSnapshot(u) =>
                 reached \in {mirror, u} /\ (mirror.sequence <= u.sequence => reached = u)
<1>1. Nothing.base = -1 /\ Nothing.sequence = 0 /\ (mirror # Nothing => mirror # Gap) /\ Gap.base = -3
  BY MarksAre DEF Mirrors
<1>2. u.base \in Int /\ u.sequence \in Nat /\ mirror.sequence \in Nat
  BY DEF Updates
<1>3. u # Gap /\ u # Nothing /\ (IsSnapshot(u) \/ IsDelta(u)) /\ ~(IsSnapshot(u) /\ IsDelta(u))
      /\ (IsDelta(u) => u.base < u.sequence)
  BY <1>1, <1>2 DEF IsUpdate, IsView, IsSnapshot, IsDelta
<1>4. ASSUME mirror # Nothing, IsSnapshot(u)
      PROVE  reached = IF u.sequence < mirror.sequence THEN mirror ELSE u
  BY <1>1, <1>3, <1>4 DEF Reached, Apply
<1>5. ASSUME mirror = Nothing, IsSnapshot(u) PROVE reached = IF known THEN u ELSE mirror
  BY <1>3, <1>5 DEF Reached
<1>6. \/ reached = mirror
      \/ IsSnapshot(u)
      \/ /\ IsDelta(u) /\ mirror # Nothing /\ u.base = mirror.sequence
         /\ reached # Nothing /\ reached.sequence = u.sequence
  BY ReachedIs
<1>7. CASE IsSnapshot(u) /\ mirror # Nothing
  BY <1>2, <1>3, <1>4, <1>7
<1>8. CASE IsSnapshot(u) /\ mirror = Nothing
  BY <1>1, <1>2, <1>3, <1>5, <1>8
<1>9. CASE ~IsSnapshot(u)
  BY <1>2, <1>3, <1>6, <1>9
<1> QED
  BY <1>7, <1>8, <1>9

\* The Client is told of an exit by its message only.
LEMMA FrameTells ==
    ASSUME NEW c \in Clients, NEW u, NEW d, d = AfterUpdateFrame(c, u)
    PROVE  d.told = c.told
<1> DEFINE applied == IF c.mirror # Nothing THEN Apply(c.mirror, u)
                      ELSE IF IsSnapshot(u) THEN u ELSE Gap
           yes == TRUE
           gone == [c EXCEPT !.gap = yes]
           new == [c EXCEPT !.mirror = applied]
<1>1. d \in {c, gone, new}
  BY DEF AfterUpdateFrame
<1> HIDE DEF applied, yes
<1>2. gone.told = c.told /\ new.told = c.told
  BY DEF Clients
<1> HIDE DEF gone, new
<1> QED
  BY <1>1, <1>2

\* Nor by another message.
LEMMA MessageTells ==
    ASSUME NEW c \in Clients, NEW m \in Messages, m.kind # "frame",
           NEW d, d = AfterFrames(c, [msg |-> m, last |-> TRUE])
    PROVE  d.told = c.told \/ (m.kind = "exit" /\ d.told = m.update.sequence)
<1> DEFINE yes == TRUE
           no == FALSE
           n == m.update.sequence
           mirror == IF c.mirror = Nothing THEN m.update ELSE c.mirror
           spawned == [c EXCEPT !.known = yes, !.attached = yes]
           attached == [c EXCEPT !.known = yes, !.attached = yes, !.mirror = mirror]
           detached == [c EXCEPT !.attached = no]
           told == [c EXCEPT !.told = n]
<1>1. m.kind \in {"response", "exit", "other"}
  BY DEF Messages
<1>2. d \in {c, spawned, attached, detached} \/ (m.kind = "exit" /\ d = told)
  BY <1>1 DEF AfterFrames, AfterResponse
<1> HIDE DEF yes, no, mirror, n
<1>3. spawned.told = c.told /\ attached.told = c.told /\ detached.told = c.told /\ told.told = n
  BY DEF Clients
<1> HIDE DEF spawned, attached, detached, told
<1> QED
  BY <1>2, <1>3 DEF n

\* A frame is written, and the Client has what it ends.
LEMMA DeliverConcluded == Types /\ Types' /\ Sound /\ Concluded /\ Deliver => Concluded'
<1>1. SUFFICES ASSUME Types, Types', Sound, Concluded, Deliver PROVE Concluded'
  OBVIOUS
<1>2. /\ UNCHANGED <<screen, metadata, exited, capture, mishaps, stream, serving>>
      /\ writer.slot # "none" /\ writer' = Finish(writer) /\ client' = AfterFrames(client, Written)
  BY <1>1 DEF Deliver, WriteFrame, hostSide, terminalVars, streamVars
<1> DEFINE n == screen.sequence
           known == client.known
           mirror == client.mirror
           told == client.told
           w == writer
           v == writer'
           m == Written.msg
<1>3. /\ Good(w, Messages) /\ n \in Nat /\ mirror \in Updates /\ mirror.sequence \in Nat
      /\ told \in Nat /\ Flow(w, stream, serving, known, mirror.sequence, n, mishaps)
      /\ Farewell(w, stream, capture, serving, mirror, told, mishaps)
      /\ (Departing(w, told) => Over)
  BY <1>1, SoundParts, ConcludedParts DEF Concluded, Types, ClientTypes
<1>4. ~w.closed
  BY <1>2, <1>3 DEF Flow
<1>5. Fleet(w) /\ WriterNumbers(w, n) /\ ("early" \notin mishaps => Introduced(w, known))
  BY <1>3, <1>4 DEF Flow
<1>6. /\ client \in Clients /\ Mirrors(mirror, n) /\ m \in Messages /\ Written.last \in BOOLEAN
  BY <1>1, <1>2, WrittenTyped
     DEF Types, ClientTypes, Clients, Sound, Numbers, MirrorNumbers, Mirrors
<1>7. Written = [msg |-> m, last |-> Written.last]
  BY DEF Written
<1>8. SUFFICES /\ Farewell(v, stream, capture, serving, client'.mirror, client'.told, mishaps)
               /\ Departing(v, client'.told) => Departing(w, told)
  BY <1>1, <1>2, <1>3, <1>8, ConnectionConcluded
<1>9. w.slot \in {"interactive", "current"} /\ Taken(w).left \in Nat /\ w.lane \in Lanes \cup {NoLane}
  BY <1>2, <1>3, TakenParts, WriterParts DEF Good
<1>10. /\ Parting(v) = Parting(w) /\ LastWords(v) \subseteq LastWords(w)
       /\ w.slot = "current" /\ w.current.left = 0 => LastWords(v) = {}
  BY <1>2, <1>3, <1>5, FinishBides
<1>11. CASE w.slot = "interactive" \/ w.current.left # 0
  <2>1. ~Written.last \/ m.kind = "other"
    BY <1>2, <1>3, <1>5, <1>9, <1>11, FinishKeeps DEF Written
  <2>2. client' = client
    BY <1>2, <2>1 DEF AfterFrames
  <2>3. Keeps(w, v)
    BY <1>2, <1>3, <1>5, <1>9, <1>11, FinishKeeps
  <2> HIDE DEF known, mirror, told, v
  <2>4. ~v.closed /\ Bides(w, v)
        /\ \A k \in Lanes : /\ Sending(v, k) <=> Sending(w, k)
                            /\ Sending(w, k) => Sent(v, k) = Sent(w, k)
    BY <1>4, <1>10, <2>3 DEF Keeps, SameFrames, Bides
  <2>5. \A e \in Parting(w) : Sending(w, e.after_lane) => Sending(v, e.after_lane)
    BY <1>3, <1>4, <2>4 DEF Farewell, Addressed
  <2>6. Farewell(v, stream, capture, serving, mirror, told, mishaps)
    BY <1>3, <1>4, <2>4, <2>5, FarewellCarried
  <2>7. Departing(v, told) => Departing(w, told)
    BY <1>4, <2>4, DepartingBefore
  <2> QED
    BY <2>2, <2>6, <2>7 DEF mirror, told
<1>12. CASE w.slot = "current" /\ w.current.left = 0
  <2>1. m = w.current.msg /\ Written.last = TRUE
    BY <1>12 DEF Written
  <2>2. client' = AfterFrames(client, [msg |-> m, last |-> TRUE])
    BY <1>2, <1>7, <2>1
  <2>3. CASE w.lane = NoLane
    <3>1. /\ m \in Told(w) /\ m.kind # "frame" /\ SameFrames(w, v) /\ v.closed = w.closed
      BY <1>2, <1>3, <1>5, <1>12, <2>1, <2>3, FinishMessage
    <3> DEFINE tells == client'.told
               reached == client'.mirror
    <3>2. reached = mirror \/ (mirror = Nothing /\ Attaches(m) /\ reached = m.update)
      BY <1>6, <2>2, <3>1, MessageReached
    <3>3. tells = told \/ (m.kind = "exit" /\ tells = m.update.sequence)
      BY <1>6, <2>2, <3>1, MessageTells
    <3>4. w.current # NoItem
      BY <1>3, <1>12, TakenParts DEF Taken
    <3>5. m.kind = "exit" => m \in LastWords(w)
      BY <2>1, <2>3, <3>4 DEF LastWords, Current
    <3> HIDE DEF m, n, tells, reached, known, mirror, told, v
    <3>6. /\ reached.sequence \in Nat /\ mirror.sequence <= reached.sequence
          /\ reached = mirror \/ (mirror = Nothing /\ reached # Nothing)
      <4>1. CASE reached = mirror
        BY <1>3, <4>1
      <4>2. CASE mirror = Nothing /\ Attaches(m) /\ reached = m.update
        <5>1. IsView(m.update, n) /\ m.update \in Updates /\ Nothing.base = -1 /\ Nothing.sequence = 0
          BY <1>5, <1>6, <3>1, <4>2, MarksAre DEF WriterNumbers, Messages
        <5>2. m.update.sequence \in Nat
          BY <5>1, UpdateParts
        <5> QED
          BY <4>2, <5>1, <5>2 DEF IsView
      <4> QED
        BY <3>2, <4>1, <4>2
    <3>7. \A k \in Lanes : /\ Sending(v, k) <=> Sending(w, k)
                           /\ Sending(w, k) => Sent(v, k) = Sent(w, k)
      BY <3>1 DEF SameFrames
    <3>8. tells = told \/ \E x \in LastWords(w) : tells = x.update.sequence
      BY <3>3, <3>5
    <3>9. ~v.closed
      BY <1>4, <3>1
    <3>10. Farewell(v, stream, capture, serving, reached, tells, mishaps)
      BY <1>3, <1>4, <1>10, <3>6, <3>7, <3>8, <3>9, FarewellTells
    <3>11. Departing(v, tells) => Departing(w, told)
      <4>1. CASE tells = told
        BY <1>4, <1>10, <4>1 DEF Departing
      <4>2. CASE tells # told
        BY <1>4, <3>8, <4>2 DEF Departing
      <4> QED
        BY <4>1, <4>2
    <3> QED
      BY <3>10, <3>11 DEF reached, tells
  <2>4. CASE w.lane \in Lanes
    <3> DEFINE l == w.lane
               u == m.update
               reached == client'.mirror
    <3>1. /\ v.closed = w.closed /\ Sending(w, l) /\ Sent(w, l) = u
          /\ m.kind = "frame" /\ ~Sending(v, l) /\ ~Introducing(w)
          /\ \A k \in Lanes \ {l} : (Sending(v, k) <=> Sending(w, k)) /\ Sent(v, k) = Sent(w, k)
      BY <1>2, <1>3, <1>5, <1>12, <2>1, <2>4, FinishFrame
    <3>2. client' = AfterUpdateFrame(client, u)
      BY <2>2, <3>1 DEF AfterFrames
    <3>3. reached = Reached(mirror, known, u) /\ client'.told = told
      BY <1>6, <3>2, FrameReached, FrameTells
    <3>4. u \in Updates /\ IsUpdate(u, n) /\ u.sequence \in Nat
      <4>1. u \in Updates
        BY <1>6 DEF Messages
      <4> QED
        BY <1>5, <2>4, <3>1, <4>1, UpdateParts DEF WriterNumbers
    <3>5. "early" \notin mishaps => known
      BY <1>5, <2>4, <3>1 DEF Introduced
    <3> HIDE DEF m, n, u, reached, known, mirror, told, v
    <3>6. /\ reached.sequence \in Nat /\ mirror.sequence <= reached.sequence
          /\ mirror # Nothing => reached # Nothing
          /\ (known \/ mirror # Nothing) /\ IsSnapshot(u) =>
                reached # Nothing /\ u.sequence <= reached.sequence
          /\ mirror # Nothing /\ IsSnapshot(u) =>
                reached \in {mirror, u} /\ (mirror.sequence <= u.sequence => reached = u)
      BY <1>3, <1>6, <3>3, <3>4, ReachedGrows
    <3>7. "early" \notin mishaps /\ IsSnapshot(u) => reached # Nothing /\ u.sequence <= reached.sequence
      BY <3>5, <3>6
    <3>8. ~v.closed /\ LastWords(v) = {} /\ u = Sent(w, l) /\ l \in Lanes
      BY <1>4, <1>10, <1>12, <2>4, <3>1
    <3> HIDE DEF l
    <3>9. Farewell(v, stream, capture, serving, reached, told, mishaps)
      BY <1>3, <1>4, <1>10, <3>1, <3>4, <3>6, <3>7, <3>8, FarewellDelivers
    <3>10. Departing(v, told) => Departing(w, told)
      BY <1>4, <1>10, <3>8 DEF Departing
    <3> QED
      BY <3>3, <3>9, <3>10 DEF reached
  <2> QED
    BY <1>9, <2>3, <2>4
<1> QED
  BY <1>9, <1>11, <1>12

\* What a stream that is woken or aborted departs with stays.
LEMMA WokenStays ==
    ASSUME NEW s \in StreamStates, NEW t \in StreamStates, t.pc = s.pc, t.events = s.events,
           t.pending = s.pending, s.aborted => t.aborted
    PROVE  /\ \A c, over, n : Departs(s, c, over, n) => Departs(t, c, over, n)
           /\ \A c : Retired(s, c) => Retired(t, c)
BY DEF Departs, Retired

\* The connection ends.
LEMMA DisconnectConcluded == Types /\ Types' /\ Sound /\ Concluded /\ Disconnect => Concluded'
<1>1. SUFFICES ASSUME Types, Types', Sound, Concluded, Disconnect PROVE Concluded'
  OBVIOUS
<1>2. /\ UNCHANGED <<screen, metadata, exited, capture, mishaps>> /\ writer' = ClosedWriter(writer)
  BY <1>1 DEF Disconnect, hostSide, terminalVars
<1>3. client'.told = client.told /\ client'.mirror = client.mirror
  BY <1>1 DEF Disconnect, Types, ClientTypes
<1>4. writer'.closed
  BY <1>2 DEF ClosedWriter
<1>5. ASSUME NEW l \in Lanes
      PROVE  /\ \A c, over, n : Departs(stream[l], c, over, n) => Departs(stream'[l], c, over, n)
             /\ \A c : Retired(stream[l], c) => Retired(stream'[l], c)
  <2> DEFINE yes == TRUE
             s == stream[l]
             t == [s EXCEPT !.changed = yes, !.detached = yes, !.aborted = yes]
  <2>1. s \in StreamStates /\ yes
    BY <1>1, StreamHas
  <2>2. stream'[l] = IF s.pc = "none" THEN s ELSE t
    BY <1>1 DEF Disconnect
  <2>3. yes \in BOOLEAN
    OBVIOUS
  <2> HIDE DEF yes, s
  <2>4. /\ t.pc = s.pc /\ t.events = s.events /\ t.pending = s.pending /\ t.aborted = yes
        /\ t \in StreamStates
    BY <2>1, <2>3 DEF StreamStates
  <2> HIDE DEF t
  <2>5. s.aborted => t.aborted
    BY <2>1, <2>4
  <2> QED
    BY <2>1, <2>2, <2>4, <2>5, WokenStays DEF s
<1> DEFINE v == writer'
           others == stream'
           later == serving'
           mirror == client.mirror
           told == client.told
<1>6. \A l \in Lanes : Retired(stream[l], capture[l]) => Retired(others[l], capture[l])
  BY <1>5
<1>7. Farewell(writer, stream, capture, serving, mirror, told, mishaps)
      /\ (Departing(writer, told) => Over)
  BY <1>1 DEF Concluded
<1> HIDE DEF v, others, later, mirror, told
<1>8. Farewell(v, others, capture, later, mirror, told, mishaps)
  <2>1. v.closed
    BY <1>4 DEF v
  <2> QED
    BY <1>6, <1>7, <2>1, FarewellCloses
<1>9. Departing(v, told) => Over
  BY <1>4, <1>7 DEF Departing, v
<1>10. /\ Farewell(writer', stream', capture, serving', client'.mirror, client'.told, mishaps')
       /\ Departing(writer', client'.told) => Over
  BY <1>2, <1>3, <1>8, <1>9 DEF v, others, later, mirror, told
<1> QED
  BY <1>1, <1>2, <1>5, <1>10, ConnectionConcluded

\* A new connection has nothing on its way.
LEMMA FarewellReconnects ==
    ASSUME NEW w, NEW streams, NEW captures, NEW srv, NEW mirror, NEW told, NEW faults,
           Farewell(w, streams, captures, srv, mirror, told, faults),
           NEW v, Parting(v) = {}, LastWords(v) = {}, \A l \in Lanes : ~Sending(v, l),
           NEW others, \A l \in Lanes : Retired(streams[l], captures[l]) => Retired(others[l], captures[l])
    PROVE  Farewell(v, others, captures, NoLane, mirror, told, faults)
<1>1. Addressed(v)
  BY DEF Addressed
<1>2. Mirrored(v, others, NoLane, mirror)
  BY WriterAssumption DEF Mirrored
<1>3. Arrives(v, mirror.sequence) /\ Closing(v, mirror)
  BY DEF Arrives, Closing
<1>4. Departing(v, told) => Departing(w, told)
  BY DEF Departing
<1> QED
  BY <1>1, <1>2, <1>3, <1>4 DEF Farewell

\* Nothing is on its way in a new writer.
LEMMA NewParts == Parting(NewWriter) = {} /\ LastWords(NewWriter) = {}
                  /\ \A l \in Lanes : ~Sending(NewWriter, l) /\ ~NewWriter.render[l].open
<1>1. Alone([k \in Lanes |-> NoStream], NoLane)
  BY DEF Alone, NoStream
<1>2. Told(NewWriter) = {} /\ \A l \in Lanes : ~Sending(NewWriter, l) /\ ~NewWriter.render[l].open
  BY <1>1, NewFlow
<1>3. LastWords(NewWriter) = {}
  BY <1>2 DEF LastWords, Told
<1>4. Parting(NewWriter) = {}
  BY <1>2 DEF Parting, Told
<1> QED
  BY <1>2, <1>3, <1>4

\* The Client connects again.
LEMMA ReconnectConcluded == Types /\ Types' /\ Sound /\ Concluded /\ Reconnect => Concluded'
<1>1. SUFFICES ASSUME Types, Types', Sound, Concluded, Reconnect PROVE Concluded'
  OBVIOUS
<1>2. /\ UNCHANGED <<screen, metadata, exited, capture, mishaps, serving>>
      /\ writer' = NewWriter /\ ~client.connected
  BY <1>1 DEF Reconnect, hostSide, terminalVars
<1>3. client'.told = client.told /\ client'.mirror = client.mirror
  <2> DEFINE yes == TRUE
             no == FALSE
             t == [client EXCEPT !.connected = yes, !.gap = no]
  <2>1. client' = t
    BY <1>1 DEF Reconnect
  <2> HIDE DEF yes, no
  <2>2. t.told = client.told /\ t.mirror = client.mirror
    BY <1>1 DEF Types, ClientTypes
  <2> HIDE DEF t
  <2> QED
    BY <2>1, <2>2
<1>4. serving = NoLane
  BY <1>1, <1>2 DEF Sound, Acquainted
<1>5. Register("subscribe", Nothing) \/ UNCHANGED stream
  BY <1>1 DEF Reconnect
<1>6. ASSUME NEW l \in Lanes
      PROVE  /\ \A c, over, n : Departs(stream[l], c, over, n) => Departs(stream'[l], c, over, n)
             /\ \A c : Retired(stream[l], c) => Retired(stream'[l], c)
  <2>1. stream[l] \in StreamStates
    BY <1>1, StreamHas
  <2>2. CASE Register("subscribe", Nothing)
    <3> DEFINE yes == TRUE
               a == [attachment EXCEPT !.attached = yes]
               s == stream[l]
               revised == s.revised \/ a.scrolled # attachment.scrolled
               detached == s.detached \/ ~a.attached
               t == [s EXCEPT !.changed = yes, !.revised = revised, !.detached = detached]
    <3>1. stream'[l] = IF s.pc = "none" THEN s ELSE t
      BY <2>2 DEF Register, Attachment
    <3>2. yes \in BOOLEAN /\ revised \in BOOLEAN /\ detached \in BOOLEAN
      BY <2>1 DEF StreamStates
    <3> HIDE DEF yes, a, revised, detached, s
    <3>3. /\ t.pc = s.pc /\ t.events = s.events /\ t.pending = s.pending /\ t.aborted = s.aborted
          /\ t \in StreamStates
      BY <2>1, <3>2 DEF StreamStates, s
    <3> HIDE DEF t
    <3> QED
      BY <2>1, <3>1, <3>3, WokenStays DEF s
  <2>3. CASE UNCHANGED stream
    BY <2>3
  <2> QED
    BY <1>5, <2>2, <2>3
<1> DEFINE v == writer'
           others == stream'
           mirror == client.mirror
           told == client.told
<1>7. \A l \in Lanes : Retired(stream[l], capture[l]) => Retired(others[l], capture[l])
  BY <1>6
<1>8. Farewell(writer, stream, capture, serving, mirror, told, mishaps)
      /\ (Departing(writer, told) => Over)
  BY <1>1 DEF Concluded
<1>9. Parting(v) = {} /\ LastWords(v) = {} /\ \A l \in Lanes : ~Sending(v, l)
  BY <1>2, NewParts
<1> HIDE DEF v, others, mirror, told
<1>10. Farewell(v, others, capture, NoLane, mirror, told, mishaps)
  BY <1>7, <1>8, <1>9, FarewellReconnects
<1>11. Departing(v, told) => Over
  BY <1>8, <1>9 DEF Departing
<1>12. /\ Farewell(writer', stream', capture, serving', client'.mirror, client'.told, mishaps')
       /\ Departing(writer', client'.told) => Over
  BY <1>2, <1>3, <1>4, <1>10, <1>11 DEF v, others, mirror, told
<1> QED
  BY <1>1, <1>2, <1>6, <1>12, ConnectionConcluded

\* A stream that is stopped is as it was, but aborted.
LEMMA HaltStays ==
    ASSUME Types, Sound, NEW k \in Lanes
    PROVE  /\ \A c, over, n : Departs(stream[k], c, over, n) => Departs(Halted[k], c, over, n)
           /\ \A c : Retired(stream[k], c) => Retired(Halted[k], c)
           /\ Halted[k].pc = stream[k].pc
<1> DEFINE yes == TRUE
           s == stream[k]
           t == [s EXCEPT !.aborted = yes]
<1>1. s \in StreamStates /\ yes /\ yes \in BOOLEAN
  BY StreamHas
<1>2. Halted[k] = IF k = serving /\ s.pc # "none" THEN t ELSE s
  BY DEF Halted
<1> HIDE DEF yes, s
<1>3. t.pc = s.pc /\ t.events = s.events /\ t.pending = s.pending /\ t.aborted = yes /\ t \in StreamStates
  BY <1>1 DEF StreamStates
<1> HIDE DEF t
<1>4. /\ \A c, over, n : Departs(s, c, over, n) => Departs(t, c, over, n)
      /\ \A c : Retired(s, c) => Retired(t, c)
  BY <1>1, <1>3, WokenStays
<1> QED
  BY <1>2, <1>3, <1>4 DEF s

\* The stream of a terminal that is attached starts, and that of one that is not ends.
LEMMA ReconcileConcluded ==
    ASSUME Types, Sound, Concluded, ~writer.closed, mishaps \subseteq mishaps',
           UNCHANGED <<screen, metadata, exited, capture, client>>,
           NEW restart, NEW w, Good(w, Messages), ~w.closed, Fleet(w), Bides(writer, w),
           \A k \in Lanes : /\ Sending(w, k) <=> Sending(writer, k)
                            /\ Sending(writer, k) => Sent(w, k) = Sent(writer, k)
                            /\ Free(k) => ~w.render[k].open /\ w.lane # k,
           Reconcile(restart, w)
    PROVE  Concluded'
<1> DEFINE v == writer'
           others == stream'
           later == serving'
           more == mishaps'
           mirror == client.mirror
           told == client.told
<1>1. /\ Farewell(writer, stream, capture, serving, mirror, told, mishaps)
      /\ (Departing(writer, told) => Over) /\ Addressed(writer)
  BY DEF Concluded, Farewell
<1>2. SUFFICES /\ ~v.closed /\ Parting(v) = Parting(w) /\ LastWords(v) = LastWords(w)
               /\ \A k \in Lanes : /\ Sending(v, k) <=> Sending(w, k)
                                   /\ Sending(w, k) => Sent(v, k) = Sent(w, k)
               /\ \/ \A k \in Lanes : ~(later = k /\ others[k].pc \in Opened)
                  \/ others = stream /\ later = serving
               /\ \A k \in Lanes :
                    /\ \A c, over, n : Departs(stream[k], c, over, n) => Departs(others[k], c, over, n)
                    /\ \A c : Retired(stream[k], c) => Retired(others[k], c)
  <2>1. Bides(writer, v)
    BY <1>2 DEF Bides
  <2>2. \A k \in Lanes : /\ Sending(v, k) <=> Sending(writer, k)
                         /\ Sending(v, k) => Sent(v, k) = Sent(writer, k)
    BY <1>2
  <2>3. \A e \in Parting(writer) : Sending(writer, e.after_lane) => Sending(v, e.after_lane)
    BY <1>1, <2>2 DEF Addressed
  <2>4. \A k \in Lanes : later = k /\ others[k].pc \in Opened => serving = k /\ stream[k].pc \in Opened
    BY <1>2
  <2>5. \A k \in Lanes : Retired(stream[k], capture[k]) => Retired(others[k], capture[k])
    BY <1>2
  <2>6. mishaps \subseteq more /\ ~v.closed
    BY <1>2
  <2> HIDE DEF v, others, later, more, mirror, told
  <2>7. Farewell(v, others, capture, later, mirror, told, more)
    BY <1>1, <2>1, <2>2, <2>3, <2>4, <2>5, <2>6, FarewellCarried
  <2>8. Departing(v, told) => Over
    BY <1>1, <2>1, <2>6, DepartingBefore
  <2>9. /\ Farewell(writer', stream', capture, serving', client'.mirror, client'.told, mishaps')
        /\ Departing(writer', client'.told) => Over
    BY <2>7, <2>8 DEF v, others, later, more, mirror, told
  <2>10. \A l \in Lanes : \A c, over, n : Departs(stream[l], c, over, n) => Departs(stream'[l], c, over, n)
    BY <1>2 DEF others
  <2> QED
    BY <2>9, <2>10, ConnectionConcluded
<1>3. CASE Stop(w)
  <2>1. v = w /\ others = Halted /\ later = NoLane
    BY <1>3 DEF Stop, Halted
  <2> HIDE DEF v, others, later
  <2>2. \A k \in Lanes : later # k
    BY <2>1, WriterAssumption
  <2> QED
    BY <2>1, <2>2, HaltStays
<1>4. ASSUME NEW l \in Lanes, Free(l), Start(l, w)
      PROVE  /\ ~v.closed /\ Parting(v) = Parting(w) /\ LastWords(v) = LastWords(w)
             /\ \A k \in Lanes : /\ Sending(v, k) <=> Sending(w, k)
                                 /\ Sending(w, k) => Sent(v, k) = Sent(w, k)
             /\ \A k \in Lanes : ~(later = k /\ others[k].pc \in Opened)
             /\ \A k \in Lanes :
                    /\ \A c, over, n : Departs(stream[k], c, over, n) => Departs(others[k], c, over, n)
                    /\ \A c : Retired(stream[k], c) => Retired(others[k], c)
  <2> DEFINE starting == [NoStream EXCEPT !.pc = "starting"]
             aborted(k) == [stream[k] EXCEPT !.aborted = TRUE]
  <2>1. others = [k \in Lanes |-> IF k = l THEN starting
                                  ELSE IF k = serving /\ stream[k].pc # "none" THEN aborted(k)
                                  ELSE stream[k]]
    BY <1>4 DEF Start
  <2>2. Halted = [k \in Lanes |-> IF k = serving /\ stream[k].pc # "none" THEN aborted(k) ELSE stream[k]]
    BY DEF Halted
  <2>3. v = OpenLane(w, l) /\ later = l
    BY <1>4 DEF Start
  <2>4. starting.pc = "starting" /\ starting.events = <<>> /\ starting.pc \notin Opened
    BY DEF NoStream, Opened
  <2> HIDE DEF starting, aborted, others, v, later
  <2>5. others[l] = starting /\ \A k \in Lanes \ {l} : others[k] = Halted[k]
    BY <2>1, <2>2
  <2>6. OneLane(w, v, l) /\ ~Sending(w, l) /\ ~Sending(v, l)
    BY <1>4, <2>3, OpenLaneKeeps
  <2>7. Parting(v) = Parting(w) /\ LastWords(v) = LastWords(w) /\ v.closed = w.closed
    BY <2>3, LanesBide DEF Good
  <2>8. \A k \in Lanes : ~(later = k /\ others[k].pc \in Opened)
    BY <2>3, <2>4, <2>5
  <2>9. /\ \A c, over, n : Departs(starting, c, over, n)
        /\ \A c : Retired(starting, c)
    <3> DEFINE none == <<>>
    <3>1. starting.events = none /\ DOMAIN none = {}
      BY <2>4, EmptySeq
    <3> HIDE DEF none
    <3> QED
      BY <2>4, <3>1 DEF Departs, Retired
  <2>10. ASSUME NEW k \in Lanes
         PROVE  /\ \A c, over, n : Departs(stream[k], c, over, n) => Departs(others[k], c, over, n)
                /\ \A c : Retired(stream[k], c) => Retired(others[k], c)
    <3>1. CASE k = l
      BY <2>5, <2>9, <3>1
    <3>2. CASE k # l
      BY <2>5, <3>2, HaltStays
    <3> QED
      BY <3>1, <3>2
  <2>11. \A k \in Lanes : /\ Sending(v, k) <=> Sending(w, k)
                          /\ Sending(w, k) => Sent(v, k) = Sent(w, k)
    BY <2>6 DEF OneLane
  <2> QED
    BY <2>7, <2>8, <2>10, <2>11
<1>5. CASE (\E l \in Lanes : Free(l)) /\ Start(CHOOSE l \in Lanes : Free(l), w)
  <2> DEFINE l == CHOOSE k \in Lanes : Free(k)
  <2>1. l \in Lanes /\ Free(l) /\ Start(l, w)
    BY <1>5
  <2> HIDE DEF l
  <2> QED
    BY <1>4, <2>1
<1>6. CASE writer' = w /\ UNCHANGED streamVars
  <2>1. v = w /\ others = stream /\ later = serving
    BY <1>6 DEF streamVars
  <2> HIDE DEF v, others, later
  <2> QED
    BY <2>1
<1> QED
  BY <1>3, <1>5, <1>6 DEF Reconcile

\* The reconcile of another request comes first.
LEMMA ReconcileEarlyConcluded ==
    Types /\ Types' /\ Sound /\ Concluded /\ ReconcileEarly => Concluded'
<1>1. SUFFICES ASSUME Types, Types', Sound, Concluded, ReconcileEarly PROVE Concluded'
  OBVIOUS
<1>2. /\ UNCHANGED <<screen, metadata, exited, capture, client>> /\ mishaps \subseteq mishaps'
      /\ ~writer.closed /\ Reconcile(FALSE, writer)
  BY <1>1 DEF ReconcileEarly, hostSide, terminalVars, Mishap
<1>3. Good(writer, Messages) /\ Fleet(writer) /\ Bides(writer, writer)
  BY <1>1, <1>2, SoundParts DEF Flow, Bides
<1>4. \A k \in Lanes : Free(k) => ~writer.render[k].open /\ writer.lane # k
  BY <1>1, <1>3, FreeLane
<1> QED
  BY <1>1, <1>2, <1>3, <1>4, ReconcileConcluded

\* A request is answered: its response, then its stream.
LEMMA AnswerConcluded == Types /\ Types' /\ Sound /\ Concluded /\ Answer => Concluded'
<1>1. SUFFICES ASSUME Types, Types', Sound, Concluded, Answer PROVE Concluded'
  OBVIOUS
<1> DEFINE item == Item(Response(request), 1)
           w == PushReliable(writer, item)
           restart == request.kind \in {"spawn", "attach"}
<1>2. /\ UNCHANGED <<screen, metadata, exited, capture, client, mishaps>>
      /\ request.pc = "registered" /\ ~writer.closed
  BY <1>1 DEF Answer, hostSide, terminalVars
<1>3. \/ w.closed /\ writer' = w /\ UNCHANGED streamVars
      \/ ~w.closed /\ Reconcile(restart, w)
  BY <1>1 DEF Answer
<1>4. Good(writer, Messages) /\ Fleet(writer)
  BY <1>1, <1>2, SoundParts DEF Flow
<1>5. /\ item \in Items(Messages) /\ Plain(item) /\ item.msg.kind = "response"
  BY <1>1, ResponseIs
<1>6. w.closed \/ (/\ Good(w, Messages)
                   /\ \A l \in Lanes : Free(l) => ~w.render[l].open /\ w.lane # l)
  BY <1>1, <1>2, AnsweredFlow
<1>7. w = PushReliable(writer, item)
  OBVIOUS
<1> HIDE DEF w, item, restart
<1>8. CASE w.closed /\ writer' = w /\ UNCHANGED streamVars
  <2>1. UNCHANGED <<stream, serving>>
    BY <1>8 DEF streamVars
  <2> QED
    BY <1>1, <1>2, <1>8, <2>1, CarriedConcluded
<1>9. CASE ~w.closed /\ Reconcile(restart, w)
  <2>1. Keeps(writer, w)
    BY <1>2, <1>4, <1>5, <1>7, <1>9, PushReliableKeeps
  <2>2. Bides(writer, w)
    BY <1>2, <1>4, <1>5, <1>7, <1>9, ReliableBides
  <2>3. /\ Fleet(w)
        /\ \A k \in Lanes : /\ Sending(w, k) <=> Sending(writer, k)
                            /\ Sending(writer, k) => Sent(w, k) = Sent(writer, k)
                            /\ Free(k) => ~w.render[k].open /\ w.lane # k
    BY <1>6, <1>9, <2>1 DEF Keeps, SameFrames
  <2> QED
    BY <1>1, <1>2, <1>6, <1>9, <2>2, <2>3, ReconcileConcluded
<1> QED
  BY <1>3, <1>8, <1>9

\* No process has exited at the beginning, and no exit is on its way.
LEMMA InitConcluded == Init => Concluded
<1>1. SUFFICES ASSUME Init PROVE Concluded
  OBVIOUS
<1> DEFINE l == CHOOSE lane \in Lanes : TRUE
           opening == Viewport(1, 0, 1)
           started == [NoStream EXCEPT !.pc = "streaming", !.baseline = Baseline(opening)]
           none == <<>>
<1>2. /\ capture = [t \in Threads |-> Resting] /\ mishaps = {}
      /\ \/ /\ stream = [k \in Lanes |-> NoStream] /\ serving = NoLane
            /\ writer = NewWriter /\ client.mirror = Nothing /\ client.told = 0
         \/ /\ stream = [k \in Lanes |-> IF k # l THEN NoStream ELSE started]
            /\ writer = OpenLane(NewWriter, l) /\ client.mirror = opening /\ client.told = 0
  BY <1>1 DEF Init
<1>3. l \in Lanes
  BY StreamAssumption
<1>4. /\ started.pc = "streaming" /\ started.events = none
      /\ NoStream.pc = "none" /\ NoStream.events = none /\ DOMAIN none = {}
  BY EmptySeq DEF NoStream
<1>5. opening # Nothing /\ 0 <= opening.sequence /\ 0 <= Nothing.sequence
  BY DEF Viewport, Nothing, Mark, Same
<1> HIDE DEF l, opening, started, none
<1>6. ExitThread
  <2>1. capture["exit"] = Resting
    BY <1>2, ExitIsThread
  <2> QED
    BY <2>1 DEF ExitThread, Resting
<1>7. \A k \in Lanes : Departs(stream[k], capture[k], Over, screen.sequence)
  BY <1>2, <1>4 DEF Departs
<1>8. Parting(writer) = {} /\ LastWords(writer) = {} /\ \A k \in Lanes : ~Sending(writer, k)
  <2>1. CASE writer = NewWriter
    BY <2>1, NewParts
  <2>2. CASE writer = OpenLane(NewWriter, l)
    <3>1. Good(NewWriter, Messages) /\ NewWriter \in Writer(Messages)
      BY NewGood DEF Good
    <3>2. Fleet(NewWriter) /\ NewWriter.lane = NoLane
      <4>1. Alone([k \in Lanes |-> NoStream], NoLane)
        BY DEF Alone, NoStream
      <4> QED
        BY <4>1, NewFlow DEF NewWriter
    <3>3. OneLane(NewWriter, writer, l) /\ ~Sending(writer, l)
      BY <1>3, <2>2, <3>1, <3>2, NewParts, WriterAssumption, OpenLaneKeeps
    <3>4. Parting(writer) = Parting(NewWriter) /\ LastWords(writer) = LastWords(NewWriter)
      BY <1>3, <2>2, <3>1, LanesBide
    <3> QED
      BY <3>3, <3>4, NewParts DEF OneLane
  <2> QED
    BY <1>2, <2>1, <2>2
<1> DEFINE told == client.told
           mirror == client.mirror
<1>9. told = 0 /\ 0 <= mirror.sequence
  BY <1>2, <1>5
<1>10. ~Departing(writer, told)
  BY <1>8, <1>9 DEF Departing
<1>11. Mirrored(writer, stream, serving, mirror)
  <2>1. CASE serving = NoLane
    BY <2>1, WriterAssumption DEF Mirrored
  <2>2. CASE mirror = opening
    BY <1>5, <2>2 DEF Mirrored
  <2> QED
    BY <1>2, <2>1, <2>2
<1>12. Arrives(writer, mirror.sequence) /\ Addressed(writer)
  BY <1>8 DEF Arrives, Addressed
<1> HIDE DEF told, mirror
<1>13. Farewell(writer, stream, capture, serving, mirror, told, mishaps)
  BY <1>9, <1>10, <1>11, <1>12 DEF Farewell
<1> QED
  BY <1>6, <1>7, <1>10, <1>13 DEF Concluded, told, mirror

\* No step breaks it.
LEMMA StepConcluded == Types /\ Sound /\ Concluded /\ [Next]_vars => Concluded'
<1>1. SUFFICES ASSUME Types, Sound, Concluded, [Next]_vars PROVE Concluded'
  OBVIOUS
<1>2. Types'
  BY <1>1, StepTypes
<1>3. "request" \in Threads \ {"exit"} /\ "publisher" \in Threads /\ "titles" \in Threads
      /\ "exit" \in Threads /\ \A l \in Lanes : l \in Threads \ {"exit"}
  BY ExitIsThread
<1>4. CASE Happens
  <2>1. CASE ReadOutput \/ SetTitle \/ Exit
    BY <1>1, <1>2, <2>1, ThreadsConcluded
  <2>2. CASE SetVisible \/ ScrollView \/ Spawned \/ Detach \/ Attach
    BY <1>1, <1>2, <2>2, RequestsConcluded
  <2>3. CASE OtherWatches
    <3>1. TRUE \in BOOLEAN /\ "viewer" \in {"viewer", "other"}
      OBVIOUS
    <3> QED
      BY <1>1, <1>2, <1>3, <2>3, <3>1, LooksConcluded
  <2>4. CASE ReconcileEarly \/ SendOther \/ LoseConnection
    BY <1>1, <1>2, <2>4, ReconcileEarlyConcluded, SendOtherConcluded, WriterTaskConcluded
  <2> QED
    BY <1>4, <2>1, <2>2, <2>3, <2>4 DEF Happens
<1>5. CASE Terminal
  BY <1>1, <1>2, <1>3, <1>5, ThreadsConcluded, CaptureConcluded, PublishConcluded
     DEF Terminal, Captures
<1>6. CASE Requests
  <2>1. attachment.scrolled \in BOOLEAN /\ "viewer" \in {"viewer", "other"}
    BY <1>1 DEF Types, AttachmentTypes
  <2>2. CASE LookAtStale("request") \/ ReadContext("request", attachment.scrolled)
    BY <1>1, <1>2, <1>3, <2>1, <2>2, LooksConcluded
  <2>3. CASE Captures("request")
    BY <1>1, <1>2, <1>3, <2>3, CaptureConcluded, PublishConcluded DEF Captures
  <2>4. CASE Attached \/ Answer
    BY <1>1, <1>2, <2>4, RequestsConcluded, AnswerConcluded
  <2> QED
    BY <1>6, <2>2, <2>3, <2>4 DEF Requests
<1>7. CASE Session
  BY <1>1, <1>2, <1>7, WriterTaskConcluded, DeliverConcluded, DisconnectConcluded,
     ReconnectConcluded DEF Session
<1>8. ASSUME NEW who \in {"viewer", "other"}, StoreCount(who) PROVE Concluded'
  <2>1. TRUE \in BOOLEAN
    OBVIOUS
  <2> QED
    BY <1>1, <1>2, <1>3, <1>8, <2>1, LooksConcluded
<1>9. ASSUME NEW l \in Lanes, StreamStep(l) PROVE Concluded'
  <2>1. stream[l].scrolled \in BOOLEAN /\ "viewer" \in {"viewer", "other"}
    BY <1>1, StreamIs, StreamParts DEF Types
  <2>2. CASE OpenStream(l) \/ SendSnapshot(l) \/ CheckExited(l) \/ Drained(l) \/ Dropped(l)
    BY <1>1, <1>2, <2>2, OpenStreamConcluded, SendSnapshotConcluded, CheckExitedConcluded,
       StreamEndConcluded
  <2>3. CASE LookAtStale(l) \/ ReadContext(l, stream[l].scrolled)
    BY <1>1, <1>2, <1>3, <2>1, <2>3, LooksConcluded
  <2>4. CASE Capture(l) \/ Publish(l)
    BY <1>1, <1>2, <1>3, <2>4, CaptureConcluded, PublishConcluded
  <2>5. CASE ReceiveEvent(l) \/ ReceiveView(l) \/ Tick(l)
    BY <1>1, <1>2, <2>5, ReceiveEventConcluded, ReceiveViewConcluded, TickConcluded
  <2> QED
    BY <1>9, <2>2, <2>3, <2>4, <2>5 DEF StreamStep, StreamSends
<1>10. CASE UNCHANGED vars
  <2>1. UNCHANGED <<screen, metadata, exited, capture, mishaps, stream, writer, serving, client>>
    BY <1>10 DEF vars, terminalVars, streamVars
  <2>2. mishaps \subseteq mishaps' /\ (Departing(writer, client.told) => Over)
        /\ Farewell(writer, stream, capture, serving, client.mirror, client.told, mishaps)
    BY <1>1, <2>1 DEF Concluded
  <2> QED
    BY <1>1, <2>1, <2>2, ConnectionConcluded
<1> QED
  BY <1>1, <1>4, <1>5, <1>6, <1>7, <1>8, <1>9, <1>10 DEF Next

\* The final screen of a terminal that has exited is in the Client's mirror before the message
\* that tells it the exit, unless the stream was cut off: the mirror is as far as that message
\* says, and shows the exit, whatever the views did and connections were lost, but for the
\* races that the property names.
THEOREM ExitIsLastAlways == Spec => []ExitIsLast
<1>1. Init => Sound /\ Concluded
  BY InitSound, InitConcluded
<1>2. Types /\ (Sound /\ Concluded) /\ [Next]_vars => (Sound /\ Concluded)'
  BY StepSound, StepConcluded
<1>3. Types /\ (Sound /\ Concluded) => ExitIsLast
  BY ConcludedExit
<1> QED
  BY <1>1, <1>2, <1>3, TypesHold, PTL DEF Spec

=============================================================================
