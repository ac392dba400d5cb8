-------------------------- MODULE TerminalStreamProofs --------------------------
(***************************************************************************)
(* Theorems about TerminalStream, and about SessionWriter in its runs, for *)
(* every instance of their constants.                                      *)
(***************************************************************************)
EXTENDS TerminalStream, SequenceTheorems, WellFoundedInduction, TLAPS

-----------------------------------------------------------------------------
(* Types of the writer, for any set of messages.                           *)

Items(M) == [kind : {"item"}, msg : M, left : Nat \ {0}, bytes : Nat \ {0},
             after_lane : Lanes \cup {NoLane}, latest : BOOLEAN]
Begun(M) == [kind : {"item"}, msg : M, left : Nat, bytes : Nat \ {0},
             after_lane : Lanes \cup {NoLane}, latest : BOOLEAN]
UnderWay(M) == Begun(M) \cup {NoItem}
Queue(M) == [open : BOOLEAN, items : Seq(Items(M)), bytes : Int, ready : BOOLEAN]
Writer(M) == [closed : BOOLEAN,
              interactive : Seq(Items(M)), current_interactive : UnderWay(M),
              reliable : Seq(Items(M)), reliable_bytes : Int,
              current : UnderWay(M), lane : Lanes \cup {NoLane},
              render : [Lanes -> Queue(M)], render_ready : Seq(Lanes),
              slot : {"none", "interactive", "current"}]

\* What was begun has frames left to be taken, but for the frame that is being written.
Begins(s) ==
    /\ s.slot # "interactive" /\ s.current_interactive # NoItem
          => s.current_interactive.left # 0
    /\ s.slot # "current" /\ s.current # NoItem => s.current.left # 0
    /\ s.slot = "interactive" => s.current_interactive # NoItem
    /\ s.slot = "current" => s.current # NoItem

\* A lane is in the turn `order` just if it is ready, and then once.
PlacedIn(ready, order, l) ==
    /\ ready <=> \E i \in DOMAIN order : order[i] = l
    /\ \A i, j \in DOMAIN order : order[i] = l /\ order[j] = l => i = j

Placed(s) ==
    \A l \in Lanes : s.render[l].open /\ ~s.closed
                        => PlacedIn(s.render[l].ready, s.render_ready, l)

\* The lanes of S that have frames are ready.
Called(s, S) ==
    \A l \in S : s.render[l].open /\ ~s.closed /\ s.render[l].items # <<>> => s.render[l].ready

Turns(s) == Placed(s) /\ Called(s, Lanes)

Good(s, M) == s \in Writer(M) /\ Begins(s) /\ Turns(s)

-----------------------------------------------------------------------------
(* The turn.                                                               *)

\* A lane that was not in the turn goes to its end.
LEMMA PlacedAppend ==
    ASSUME NEW order \in Seq(Lanes), NEW l \in Lanes, NEW k \in Lanes, NEW ready \in BOOLEAN,
           PlacedIn(ready, order, l)
    PROVE  /\ k # l => PlacedIn(ready, Append(order, k), l)
           /\ k = l /\ ~ready => PlacedIn(TRUE, Append(order, k), l)
<1> DEFINE longer == Append(order, k)
<1>1. Len(order) \in Nat /\ DOMAIN order = 1 .. Len(order)
  BY LenProperties
<1>2. /\ longer \in Seq(Lanes) /\ Len(longer) = Len(order) + 1
      /\ \A i \in 1 .. Len(order) : longer[i] = order[i]
      /\ longer[Len(order) + 1] = k
  BY AppendProperties
<1>3. DOMAIN longer = 1 .. Len(order) + 1
  BY <1>2, LenProperties
<1> HIDE DEF longer
<1>4. \A i \in DOMAIN longer : i \in DOMAIN order \/ i = Len(order) + 1
  BY <1>1, <1>3
<1>5. \A i \in DOMAIN order : i \in DOMAIN longer
  BY <1>1, <1>3
<1>6. k # l => PlacedIn(ready, longer, l)
  BY <1>1, <1>2, <1>3, <1>4, <1>5 DEF PlacedIn
<1>7. k = l /\ ~ready => PlacedIn(TRUE, longer, l)
  BY <1>1, <1>2, <1>3, <1>4, <1>5 DEF PlacedIn
<1> QED
  BY <1>6, <1>7 DEF longer

\* Lanes at the front of the turn are taken out.
LEMMA PlacedRest ==
    ASSUME NEW order \in Seq(Lanes), NEW l \in Lanes, NEW ready \in BOOLEAN,
           NEW n \in 0 .. Len(order), PlacedIn(ready, order, l)
    PROVE  LET rest == SubSeq(order, n + 1, Len(order))
               passed == {order[i] : i \in 1 .. n}
           IN  /\ rest \in Seq(Lanes)
               /\ PlacedIn(ready /\ l \notin passed, rest, l)
<1> DEFINE rest == SubSeq(order, n + 1, Len(order))
           passed == {order[i] : i \in 1 .. n}
<1>1. Len(order) \in Nat /\ DOMAIN order = 1 .. Len(order)
  BY LenProperties
<1>2. \A i \in n + 1 .. Len(order) : order[i] \in Lanes
  BY <1>1, ElementOfSeq
<1>3. /\ rest \in Seq(Lanes)
      /\ Len(rest) = IF n + 1 <= Len(order) THEN Len(order) - (n + 1) + 1 ELSE 0
      /\ \A i \in 1 .. Len(order) - (n + 1) + 1 : rest[i] = order[n + 1 + i - 1]
  <2> DEFINE first == n + 1
             last == Len(order)
  <2>1. first \in Int /\ last \in Int /\ \A i \in first .. last : order[i] \in Lanes
    BY <1>1, <1>2
  <2>2. rest = SubSeq(order, first, last)
    OBVIOUS
  <2> HIDE DEF first, last, rest
  <2>3. /\ SubSeq(order, first, last) \in Seq(Lanes)
        /\ Len(SubSeq(order, first, last)) = IF first <= last THEN last - first + 1 ELSE 0
        /\ \A i \in 1 .. last - first + 1 :
              SubSeq(order, first, last)[i] = order[first + i - 1]
    BY <2>1, SubSeqProperties
  <2>4. /\ rest \in Seq(Lanes)
        /\ Len(rest) = IF first <= last THEN last - first + 1 ELSE 0
        /\ \A i \in 1 .. last - first + 1 : rest[i] = order[first + i - 1]
    BY <2>2, <2>3
  <2> QED
    BY <2>4 DEF first, last
<1> HIDE DEF rest
<1>4. Len(rest) = Len(order) - n /\ Len(order) - (n + 1) + 1 = Len(order) - n
  <2> DEFINE old == Len(order)
             new == Len(rest)
  <2>1. old \in Nat /\ n \in 0 .. old /\ new = IF n + 1 <= old THEN old - (n + 1) + 1 ELSE 0
    BY <1>1, <1>3
  <2> HIDE DEF old, new
  <2>2. new = old - n /\ old - (n + 1) + 1 = old - n
    BY <2>1
  <2> QED
    BY <2>2 DEF old, new
<1>5. DOMAIN rest = 1 .. Len(order) - n
  BY <1>3, <1>4, LenProperties
<1>6. ASSUME NEW i \in DOMAIN rest
      PROVE  rest[i] = order[n + i] /\ n + i \in DOMAIN order
  <2>1. /\ n + 1 + i - 1 = n + i /\ n + i \in 1 .. Len(order)
        /\ i \in 1 .. Len(order) - (n + 1) + 1
    BY <1>1, <1>4, <1>5
  <2> QED
    BY <1>1, <1>3, <2>1
<1>7. ASSUME NEW i \in DOMAIN order, i \notin 1 .. n
      PROVE  i - n \in DOMAIN rest /\ rest[i - n] = order[i]
  <2>1. i - n \in DOMAIN rest /\ n + (i - n) = i
    BY <1>1, <1>5, <1>7
  <2> DEFINE k == i - n
  <2>2. k \in DOMAIN rest /\ n + k = i
    BY <2>1
  <2> HIDE DEF k
  <2>3. rest[k] = order[n + k]
    BY <1>6, <2>2
  <2> QED
    BY <2>2, <2>3 DEF k
<1>8. l \in passed <=> \E i \in 1 .. n : order[i] = l
  OBVIOUS
<1> HIDE DEF passed
<1>9. ASSUME NEW i \in DOMAIN rest, NEW j \in DOMAIN rest, rest[i] = l, rest[j] = l
      PROVE  i = j
  <2>1. n + i = n + j
    BY <1>6, <1>9 DEF PlacedIn
  <2> QED
    BY <1>1, <1>5, <2>1
<1>10. ASSUME l \in passed PROVE ~ \E i \in DOMAIN rest : rest[i] = l
  <2>1. SUFFICES ASSUME NEW i \in DOMAIN rest, rest[i] = l PROVE FALSE
    OBVIOUS
  <2>2. PICK k \in 1 .. n : order[k] = l
    BY <1>8, <1>10
  <2>3. k \in DOMAIN order /\ n + i # k
    BY <1>1, <1>5
  <2> QED
    BY <1>6, <2>1, <2>2, <2>3 DEF PlacedIn
<1>11. ASSUME l \notin passed PROVE ready <=> \E i \in DOMAIN rest : rest[i] = l
  <2>1. ASSUME NEW i \in DOMAIN order, order[i] = l PROVE \E k \in DOMAIN rest : rest[k] = l
    <3>1. i \notin 1 .. n
      BY <1>8, <1>11, <2>1
    <3> QED
      BY <1>7, <2>1, <3>1
  <2>2. ASSUME NEW i \in DOMAIN rest, rest[i] = l PROVE \E k \in DOMAIN order : order[k] = l
    BY <1>6, <2>2
  <2> QED
    BY <2>1, <2>2 DEF PlacedIn
<1> QED
  BY <1>3, <1>9, <1>10, <1>11 DEF PlacedIn, rest, passed
-----------------------------------------------------------------------------
(* What producers do to the writer.                                        *)

\* The parts of a writer
LEMMA WriterParts ==
    ASSUME NEW M, NEW s \in Writer(M)
    PROVE  /\ s.closed \in BOOLEAN
           /\ s.interactive \in Seq(Items(M)) /\ s.reliable \in Seq(Items(M))
           /\ s.current_interactive \in UnderWay(M) /\ s.current \in UnderWay(M)
           /\ s.reliable_bytes \in Int
           /\ s.lane \in Lanes \cup {NoLane}
           /\ s.render \in [Lanes -> Queue(M)]
           /\ s.render_ready \in Seq(Lanes)
           /\ s.slot \in {"none", "interactive", "current"}
BY DEF Writer

\* The parts of a lane
LEMMA QueueParts ==
    ASSUME NEW M, NEW q \in Queue(M)
    PROVE  /\ q.open \in BOOLEAN /\ q.ready \in BOOLEAN
           /\ q.items \in Seq(Items(M)) /\ q.bytes \in Int
BY DEF Queue

\* What leaves the lanes alone leaves their turn alone.
LEMMA TurnsSame ==
    ASSUME NEW s, NEW new, new.render = s.render, new.render_ready = s.render_ready,
           new.closed = s.closed, Turns(s)
    PROVE  Turns(new)
BY DEF Turns, Placed, Called

\* A closed writer owes nothing.
LEMMA TurnsClosed ==
    ASSUME NEW s, s.closed = TRUE
    PROVE  Turns(s)
BY DEF Turns, Placed, Called

\* An item begun, and one that waits, are of more messages than they were.
LEMMA NoItemBegun ==
    ASSUME NEW M
    PROVE  /\ NoItem \in UnderWay(M)
           /\ \A item \in Items(M) : item \in UnderWay(M) /\ item # NoItem /\ item.left \in Nat \ {0}
           /\ \A item \in UnderWay(M) : item # NoItem => item.left \in Nat /\ item.bytes \in Nat
<1>1. \A item \in Items(M) : item.kind = "item"
  BY DEF Items
<1>2. NoItem.kind = "none"
  BY DEF NoItem
<1>3. \A item \in Items(M) : item \in UnderWay(M) /\ item.left \in Nat \ {0}
  BY DEF Items, UnderWay, Begun
<1>4. \A item \in UnderWay(M) : item # NoItem => item.left \in Nat /\ item.bytes \in Nat
  BY DEF UnderWay, Begun
<1> QED
  BY <1>1, <1>2, <1>3, <1>4 DEF UnderWay

\* A lane that nobody opened
LEMMA NoQueueParts ==
    ASSUME NEW M
    PROVE  /\ NoQueue \in Queue(M)
           /\ NoQueue.open = FALSE /\ NoQueue.ready = FALSE /\ NoQueue.items = <<>>
<1>1. <<>> \in Seq(Items(M))
  BY EmptySeq
<1> QED
  BY <1>1 DEF NoQueue, Queue

\* A lane whose frames are dropped
LEMMA EmptiedQueue ==
    ASSUME NEW M, NEW q \in Queue(M)
    PROVE  [q EXCEPT !.items = <<>>, !.bytes = 0] \in Queue(M)
<1> DEFINE none == <<>>
           zero == 0
           new == [q EXCEPT !.items = none, !.bytes = zero]
<1>1. none \in Seq(Items(M)) /\ zero \in Int
  BY EmptySeq
<1>2. new = [q EXCEPT !.items = <<>>, !.bytes = 0]
  OBVIOUS
<1> HIDE DEF none, zero
<1>3. new \in Queue(M)
  BY <1>1 DEF Queue
<1> QED
  BY <1>2, <1>3

\* A writer whose stream begins
LEMMA NewGood ==
    ASSUME NEW M
    PROVE  Good(NewWriter, M)
<1>1. <<>> \in Seq(Items(M)) /\ <<>> \in Seq(Lanes)
  BY EmptySeq
<1> DEFINE render == [l \in Lanes |-> NoQueue]
<1>2. render \in [Lanes -> Queue(M)] /\ \A l \in Lanes : render[l] = NoQueue
  BY NoQueueParts
<1>3. NoItem \in UnderWay(M)
  BY NoItemBegun
<1>4. NewWriter = [closed |-> FALSE, interactive |-> <<>>, current_interactive |-> NoItem,
                   reliable |-> <<>>, reliable_bytes |-> 0, current |-> NoItem,
                   lane |-> NoLane, render |-> render, render_ready |-> <<>>, slot |-> "none"]
  BY DEF NewWriter
<1> HIDE DEF render
<1>5. NewWriter \in Writer(M)
  BY <1>1, <1>2, <1>3, <1>4 DEF Writer
<1>6. /\ NewWriter.render = render /\ NewWriter.slot = "none"
      /\ NewWriter.current = NoItem /\ NewWriter.current_interactive = NoItem
  BY <1>4
<1>7. Begins(NewWriter)
  BY <1>6 DEF Begins
<1>8. Turns(NewWriter)
  BY <1>2, <1>6, NoQueueParts DEF Turns, Placed, Called
<1> QED
  BY <1>5, <1>7, <1>8 DEF Good

\* Shared::close
LEMMA ClosedGood ==
    ASSUME NEW M, NEW s, Good(s, M)
    PROVE  Good(ClosedWriter(s), M) /\ ClosedWriter(s).closed
<1> DEFINE render == [l \in Lanes |-> [s.render[l] EXCEPT !.items = <<>>, !.bytes = 0]]
<1>1. render \in [Lanes -> Queue(M)]
  <2>1. ASSUME NEW l \in Lanes
        PROVE  [s.render[l] EXCEPT !.items = <<>>, !.bytes = 0] \in Queue(M)
    <3>1. s.render[l] \in Queue(M)
      BY WriterParts DEF Good
    <3> QED
      BY <3>1, EmptiedQueue
  <2> QED
    BY <2>1
<1>2. ClosedWriter(s) = [NewWriter EXCEPT !.closed = TRUE, !.render = render]
  BY DEF ClosedWriter
<1> HIDE DEF render
<1>3. NewWriter \in Writer(M) /\ Begins(NewWriter)
  BY NewGood DEF Good
<1>4. /\ ClosedWriter(s) \in Writer(M) /\ ClosedWriter(s).closed = TRUE
      /\ ClosedWriter(s).slot = NewWriter.slot /\ ClosedWriter(s).current = NewWriter.current
      /\ ClosedWriter(s).current_interactive = NewWriter.current_interactive
  BY <1>1, <1>2, <1>3 DEF Writer
<1>5. Begins(ClosedWriter(s))
  BY <1>3, <1>4 DEF Begins
<1> QED
  BY <1>4, <1>5, TurnsClosed DEF Good

\* The writer closes, or only a queue of messages changes.
Sends(s, new, M) ==
    /\ Good(new, M)
    /\ new.closed \/ (new.closed = s.closed /\ new.render = s.render
                        /\ new.render_ready = s.render_ready)

\* A queue of messages changes.
LEMMA QueuedGood ==
    ASSUME NEW M, NEW s, Good(s, M), NEW new \in Writer(M),
           new.closed = s.closed, new.render = s.render, new.render_ready = s.render_ready,
           new.slot = s.slot, new.current = s.current,
           new.current_interactive = s.current_interactive
    PROVE  Sends(s, new, M)
<1>1. Begins(new)
  BY DEF Good, Begins
<1>2. Turns(new)
  BY TurnsSame DEF Good
<1> QED
  BY <1>1, <1>2 DEF Sends, Good

\* The interactive queue takes a message, or closes the connection.
LEMMA PushInteractiveGood ==
    ASSUME NEW M, NEW s, Good(s, M), NEW item \in Items(M)
    PROVE  Sends(s, PushInteractive(s, item), M)
<1> DEFINE more == Append(s.interactive, item)
           new == [s EXCEPT !.interactive = more]
<1>1. s \in Writer(M) /\ more \in Seq(Items(M))
  BY WriterParts, AppendProperties DEF Good
<1>2. new = [s EXCEPT !.interactive = Append(@, item)]
  OBVIOUS
<1> HIDE DEF more
<1>3. /\ new \in Writer(M) /\ new.closed = s.closed /\ new.render = s.render
      /\ new.render_ready = s.render_ready /\ new.slot = s.slot /\ new.current = s.current
      /\ new.current_interactive = s.current_interactive
  BY <1>1 DEF Writer
<1> HIDE DEF new
<1>4. Sends(s, new, M)
  BY <1>3, QueuedGood
<1>5. Sends(s, s, M)
  BY DEF Sends
<1>6. Sends(s, ClosedWriter(s), M)
  BY ClosedGood DEF Sends
<1> QED
  BY <1>2, <1>4, <1>5, <1>6 DEF PushInteractive

\* The reliable queue takes a message, or closes the connection.
LEMMA PushReliableGood ==
    ASSUME NEW M, NEW s, Good(s, M), NEW item \in Items(M)
    PROVE  Sends(s, PushReliable(s, item), M)
<1> DEFINE more == Append(s.reliable, item)
           bytes == s.reliable_bytes + item.bytes
           new == [s EXCEPT !.reliable = more, !.reliable_bytes = bytes]
<1>1. s \in Writer(M) /\ more \in Seq(Items(M)) /\ bytes \in Int
  <2>1. item.bytes \in Int
    BY DEF Items
  <2> QED
    BY <2>1, WriterParts, AppendProperties DEF Good
<1>2. new = [s EXCEPT !.reliable = Append(@, item), !.reliable_bytes = @ + item.bytes]
  OBVIOUS
<1> HIDE DEF more, bytes
<1>3. /\ new \in Writer(M) /\ new.closed = s.closed /\ new.render = s.render
      /\ new.render_ready = s.render_ready /\ new.slot = s.slot /\ new.current = s.current
      /\ new.current_interactive = s.current_interactive
  BY <1>1 DEF Writer
<1> HIDE DEF new
<1>4. Sends(s, new, M)
  BY <1>3, QueuedGood
<1>5. Sends(s, s, M)
  BY DEF Sends
<1>6. Sends(s, ClosedWriter(s), M)
  BY ClosedGood DEF Sends
<1> QED
  BY <1>2, <1>4, <1>5, <1>6 DEF PushReliable

\* A message replaces one of its key that waits.
LEMMA PushLatestGood ==
    ASSUME NEW M, NEW s, Good(s, M), NEW item \in Items(M)
    PROVE  Sends(s, PushLatest(s, item), M)
<1> DEFINE newer == [item EXCEPT !.latest = TRUE]
<1>1. newer \in Items(M)
  BY DEF Items
<1>2. Sends(s, PushReliable(s, newer), M)
  BY <1>1, PushReliableGood
<1>3. ASSUME NEW i \in WaitingLatest(s) PROVE Sends(s, ReplaceLatest(s, i, newer), M)
  <2> HIDE DEF newer
  <2> DEFINE more == ReplaceAt(s.reliable, i, newer)
             bytes == s.reliable_bytes - s.reliable[i].bytes + newer.bytes
             new == [s EXCEPT !.reliable = more, !.reliable_bytes = bytes]
  <2>1. s \in Writer(M) /\ s.reliable \in Seq(Items(M)) /\ i \in DOMAIN s.reliable
    BY WriterParts DEF Good, WaitingLatest
  <2>2. more \in Seq(Items(M))
    BY <1>1, <2>1, ExceptSeq DEF ReplaceAt
  <2>3. bytes \in Int
    <3>1. s.reliable[i] \in Items(M)
      BY <2>1, ElementOfSeq, LenProperties
    <3>2. \A m \in Items(M) : m.bytes \in Int
      BY DEF Items
    <3>3. s.reliable[i].bytes \in Int /\ newer.bytes \in Int /\ s.reliable_bytes \in Int
      BY <1>1, <2>1, <3>1, <3>2, WriterParts
    <3> QED
      BY <3>3
  <2>4. ReplaceLatest(s, i, newer) \in {new, ClosedWriter(s)}
    BY DEF ReplaceLatest
  <2> HIDE DEF more, bytes
  <2>5. /\ new \in Writer(M) /\ new.closed = s.closed /\ new.render = s.render
        /\ new.render_ready = s.render_ready /\ new.slot = s.slot /\ new.current = s.current
        /\ new.current_interactive = s.current_interactive
    BY <2>1, <2>2, <2>3 DEF Writer
  <2> HIDE DEF new
  <2>6. Sends(s, new, M)
    BY <2>5, QueuedGood
  <2>7. Sends(s, ClosedWriter(s), M)
    BY ClosedGood DEF Sends
  <2> QED
    BY <2>4, <2>6, <2>7
<1>4. CASE s.closed \/ WaitingLatest(s) = {}
  <2>1. PushLatest(s, item) = PushReliable(s, newer)
    BY <1>4 DEF PushLatest
  <2> QED
    BY <1>2, <2>1
<1>5. CASE ~(s.closed \/ WaitingLatest(s) = {})
  <2> DEFINE i == CHOOSE i \in WaitingLatest(s) : TRUE
  <2>1. i \in WaitingLatest(s)
    BY <1>5
  <2>2. PushLatest(s, item) = ReplaceLatest(s, i, newer)
    BY <1>5 DEF PushLatest
  <2> HIDE DEF i, newer
  <2> QED
    BY <1>3, <2>1, <2>2
<1> QED
  BY <1>4, <1>5

-----------------------------------------------------------------------------
(* What streams do to their lanes.                                         *)

\* With lane l as q, and the turn as `order`, the lanes are placed.
LaneFits(s, l, q, order) ==
    /\ q.open /\ ~s.closed => PlacedIn(q.ready, order, l)
    /\ q.open /\ ~s.closed /\ q.items # <<>> => q.ready
    /\ \A k \in Lanes \ {l} : s.render[k].open /\ ~s.closed
                                 => PlacedIn(s.render[k].ready, order, k)

\* The writer `new` differs from s in lane l and in the turn; its other lanes were called.
LaneBecomes(s, l, q, order, new) ==
    /\ DOMAIN s.render = Lanes
    /\ LaneFits(s, l, q, order) /\ Called(s, Lanes \ {l})
    /\ new.render = [s.render EXCEPT ![l] = q] /\ new.render_ready = order
    /\ new.closed = s.closed

\* ... and its lanes take turns.
LEMMA TurnsOfLane ==
    ASSUME NEW s, NEW l \in Lanes, NEW q, NEW order, NEW new,
           LaneBecomes(s, l, q, order, new)
    PROVE  Turns(new)
<1> DEFINE render == [s.render EXCEPT ![l] = q]
<1>1. render[l] = q /\ \A k \in Lanes \ {l} : render[k] = s.render[k]
  BY DEF LaneBecomes
<1>2. new.render = render /\ new.render_ready = order /\ new.closed = s.closed
  BY DEF LaneBecomes
<1>3. LaneFits(s, l, q, order) /\ Called(s, Lanes \ {l})
  BY DEF LaneBecomes
<1> HIDE DEF render
<1> QED
  BY <1>1, <1>2, <1>3 DEF Turns, Placed, Called, LaneFits

\* One lane of a good writer changes.
LEMMA LaneGood ==
    ASSUME NEW M, NEW s, Good(s, M), NEW l \in Lanes, NEW q \in Queue(M),
           NEW order \in Seq(Lanes),
           NEW new, new = [s EXCEPT !.render = [s.render EXCEPT ![l] = q],
                                    !.render_ready = order],
           LaneFits(s, l, q, order)
    PROVE  Good(new, M) /\ new.closed = s.closed
<1> DEFINE render == [s.render EXCEPT ![l] = q]
<1>1. s \in Writer(M) /\ s.render \in [Lanes -> Queue(M)] /\ Begins(s) /\ Called(s, Lanes \ {l})
  BY WriterParts DEF Good, Turns, Called
<1>2. render \in [Lanes -> Queue(M)]
  BY <1>1
<1>3. new = [s EXCEPT !.render = render, !.render_ready = order]
  OBVIOUS
<1>4. render = [s.render EXCEPT ![l] = q]
  OBVIOUS
<1> HIDE DEF render
<1>5. /\ new \in Writer(M) /\ new.render = render /\ new.render_ready = order
      /\ new.closed = s.closed /\ new.slot = s.slot /\ new.current = s.current
      /\ new.current_interactive = s.current_interactive
  BY <1>1, <1>2, <1>3 DEF Writer
<1>6. Begins(new)
  BY <1>1, <1>5 DEF Begins
<1>7. LaneBecomes(s, l, q, order, new)
  BY <1>1, <1>4, <1>5 DEF LaneBecomes
<1>8. Turns(new)
  BY <1>7, TurnsOfLane
<1> QED
  BY <1>5, <1>6, <1>8 DEF Good

\* Other lanes stay placed in the order there is.
LEMMA OthersPlaced ==
    ASSUME NEW M, NEW s, Good(s, M)
    PROVE  /\ s.render_ready \in Seq(Lanes) /\ s.render \in [Lanes -> Queue(M)]
           /\ \A k \in Lanes : s.render[k].open /\ ~s.closed
                                  => /\ PlacedIn(s.render[k].ready, s.render_ready, k)
                                     /\ s.render[k].items # <<>> => s.render[k].ready
BY WriterParts DEF Good, Turns, Placed, Called

\* A lane is opened that no turn remembers.
LEMMA OpenLaneGood ==
    ASSUME NEW M, NEW s, Good(s, M), NEW l \in Lanes,
           \A i \in DOMAIN s.render_ready : s.render_ready[i] # l
    PROVE  Good(OpenLane(s, l), M)
<1> DEFINE yes == TRUE
           q == [NoQueue EXCEPT !.open = yes]
           order == s.render_ready
           new == [s EXCEPT !.render = [s.render EXCEPT ![l] = q], !.render_ready = order]
<1>1. yes \in BOOLEAN
  OBVIOUS
<1> HIDE DEF yes
<1>2. q \in Queue(M) /\ q.ready = FALSE /\ q.items = <<>>
  BY <1>1, NoQueueParts DEF Queue
<1>3. PlacedIn(q.ready, order, l)
  BY <1>2 DEF PlacedIn
<1>4. OpenLane(s, l) = new
  <2>1. OpenLane(s, l) = [s EXCEPT !.render = [s.render EXCEPT ![l] = q]]
    BY DEF OpenLane, yes
  <2> HIDE DEF q
  <2>2. s \in Writer(M)
    BY DEF Good
  <2>3. [s EXCEPT !.render = [s.render EXCEPT ![l] = q]]
            = [s EXCEPT !.render = [s.render EXCEPT ![l] = q], !.render_ready = s.render_ready]
    BY <2>2 DEF Writer
  <2> QED
    BY <2>1, <2>3
<1> HIDE DEF q
<1>5. order \in Seq(Lanes)
  BY OthersPlaced
<1>6. \A k \in Lanes \ {l} : s.render[k].open /\ ~s.closed
                                => PlacedIn(s.render[k].ready, order, k)
  BY OthersPlaced
<1> HIDE DEF order
<1>7. LaneFits(s, l, q, order)
  BY <1>2, <1>3, <1>6 DEF LaneFits
<1>8. Good(new, M)
  BY <1>2, <1>5, <1>7, LaneGood
<1> QED
  BY <1>4, <1>8

\* A lane that is closed owes nothing.
LEMMA DropLaneGood ==
    ASSUME NEW M, NEW s, Good(s, M), NEW l \in Lanes
    PROVE  Good(DropLane(s, l), M)
<1> DEFINE q == NoQueue
           order == s.render_ready
           new == [s EXCEPT !.render = [s.render EXCEPT ![l] = q], !.render_ready = order]
<1>1. q \in Queue(M) /\ ~q.open
  BY NoQueueParts
<1>2. DropLane(s, l) = new
  <2>1. DropLane(s, l) = [s EXCEPT !.render = [s.render EXCEPT ![l] = q]]
    BY DEF DropLane
  <2> HIDE DEF q
  <2>2. s \in Writer(M)
    BY DEF Good
  <2>3. [s EXCEPT !.render = [s.render EXCEPT ![l] = q]]
            = [s EXCEPT !.render = [s.render EXCEPT ![l] = q], !.render_ready = s.render_ready]
    BY <2>2 DEF Writer
  <2> QED
    BY <2>1, <2>3
<1> HIDE DEF q
<1>3. order \in Seq(Lanes)
  BY OthersPlaced
<1>4. \A k \in Lanes \ {l} : s.render[k].open /\ ~s.closed
                                => PlacedIn(s.render[k].ready, order, k)
  BY OthersPlaced
<1> HIDE DEF order
<1>5. LaneFits(s, l, q, order)
  BY <1>1, <1>4 DEF LaneFits
<1>6. Good(new, M)
  BY <1>1, <1>3, <1>5, LaneGood
<1> QED
  BY <1>2, <1>6

\* A lane with a frame takes its turn.
LEMMA EnqueueGood ==
    ASSUME NEW M, NEW s, Good(s, M), NEW l \in Lanes, NEW item \in Items(M)
    PROVE  Good(Enqueue(s, l, item), M)
<1> DEFINE queue == s.render[l]
           items == Append(queue.items, item)
           bytes == queue.bytes + item.bytes
           yes == TRUE
           q == [queue EXCEPT !.items = items, !.bytes = bytes, !.ready = yes]
           order == IF queue.ready THEN s.render_ready ELSE Append(s.render_ready, l)
           new == [s EXCEPT !.render = [s.render EXCEPT ![l] = q], !.render_ready = order]
<1>1. queue \in Queue(M) /\ s.render_ready \in Seq(Lanes) /\ queue.ready \in BOOLEAN
  BY OthersPlaced, QueueParts
<1>2. items \in Seq(Items(M)) /\ bytes \in Int /\ yes \in BOOLEAN
  <2>1. item.bytes \in Int
    BY DEF Items
  <2> QED
    BY <1>1, <2>1, QueueParts, AppendProperties
<1>3. Enqueue(s, l, item) = new
  BY DEF Enqueue
<1>4. order \in Seq(Lanes)
  BY <1>1, AppendProperties
<1>5. ASSUME queue.open, ~s.closed PROVE PlacedIn(TRUE, order, l)
  <2>1. PlacedIn(queue.ready, s.render_ready, l)
    BY <1>5, OthersPlaced
  <2>2. CASE queue.ready
    <3>1. PlacedIn(TRUE, s.render_ready, l)
      BY <2>1, <2>2 DEF PlacedIn
    <3> QED
      BY <2>2, <3>1
  <2>3. CASE ~queue.ready
    <3> HIDE DEF queue
    <3>1. PlacedIn(TRUE, Append(s.render_ready, l), l)
      BY <1>1, <2>1, <2>3, PlacedAppend
    <3> QED
      BY <2>3, <3>1
  <2> QED
    BY <2>2, <2>3
<1>6. ASSUME NEW k \in Lanes \ {l}, s.render[k].open, ~s.closed
      PROVE  PlacedIn(s.render[k].ready, order, k)
  <2>1. PlacedIn(s.render[k].ready, s.render_ready, k) /\ s.render[k].ready \in BOOLEAN
    BY <1>6, OthersPlaced, QueueParts
  <2>2. PlacedIn(s.render[k].ready, Append(s.render_ready, l), k)
    BY <1>1, <2>1, PlacedAppend
  <2> QED
    BY <2>1, <2>2
<1> HIDE DEF items, bytes, yes, order
<1> HIDE DEF queue
<1>7. q \in Queue(M) /\ q.open = queue.open /\ q.ready = yes
  BY <1>1, <1>2 DEF Queue
<1>8. yes = TRUE
  BY DEF yes
<1> HIDE DEF q
<1>9. LaneFits(s, l, q, order)
  BY <1>5, <1>6, <1>7, <1>8 DEF LaneFits
<1>10. new = [s EXCEPT !.render = [s.render EXCEPT ![l] = q], !.render_ready = order]
  OBVIOUS
<1> HIDE DEF new
<1>11. Good(new, M)
  BY <1>4, <1>7, <1>9, <1>10, LaneGood
<1> QED
  BY <1>3, <1>11

-----------------------------------------------------------------------------
(* What the writer task takes.                                             *)

\* A set of numbers has a least one.
LEMMA LeastNumber ==
    ASSUME NEW T, T \subseteq Nat, T # {}
    PROVE  \E x \in T : \A y \in T : x <= y
<1> DEFINE R == OpToRel(<, Nat)
<1>1. IsWellFoundedOn(R, Nat)
  BY NatLessThanWellFounded
<1>2. R = {pair \in Nat \X Nat : pair[1] < pair[2]}
  BY DEF OpToRel
<1> HIDE DEF R
<1>3. PICK x \in T : \A y \in T : ~ (<<y, x>> \in R)
  BY <1>1, WFMin
<1>4. ASSUME NEW y \in T PROVE x <= y
  <2>1. x \in Nat /\ y \in Nat
    OBVIOUS
  <2>2. ~ (y < x)
    BY <1>2, <1>3, <2>1
  <2> QED
    BY <2>1, <2>2
<1> QED
  BY <1>4

\* A frame is taken from a lane: if more wait, the lane stays in the turn or goes to its end.
LEMMA PopRenderGood ==
    ASSUME NEW M, NEW s \in Writer(M), Begins(s), s.slot = "none", NEW l \in Lanes,
           s.render[l].items # <<>>, Placed(s), Called(s, Lanes \ {l})
    PROVE  /\ Good(PopRender(s, l), M)
           /\ PopRender(s, l).slot = "none" /\ PopRender(s, l).closed = s.closed
<1> DEFINE queue == s.render[l]
           rest == Tail(queue.items)
           again == rest # <<>> /\ ~queue.ready
           ready == queue.ready \/ again
           q == [queue EXCEPT !.items = rest, !.ready = ready]
           order == IF again THEN Append(s.render_ready, l) ELSE s.render_ready
           front == Head(queue.items)
           render == [s.render EXCEPT ![l] = q]
           new == [s EXCEPT !.current = front, !.lane = l, !.render = render,
                            !.render_ready = order]
<1>1. /\ queue \in Queue(M) /\ queue.items \in Seq(Items(M)) /\ queue.ready \in BOOLEAN
      /\ s.render_ready \in Seq(Lanes) /\ s.render \in [Lanes -> Queue(M)]
  BY WriterParts, QueueParts
<1>2. rest \in Seq(Items(M)) /\ front \in Items(M)
  BY <1>1, HeadTailProperties
<1>3. front \in UnderWay(M) /\ front # NoItem /\ front.left # 0
  BY <1>2, NoItemBegun
<1>4. PopRender(s, l) = new
  BY DEF PopRender, Writer
<1>5. again \in BOOLEAN /\ ready \in BOOLEAN /\ (rest # <<>> => ready)
  <2> DEFINE was == queue.ready
             more == rest # <<>>
  <2>1. was \in BOOLEAN /\ more \in BOOLEAN
    BY <1>1
  <2> HIDE DEF was
  <2> QED
    BY <2>1 DEF was
<1>6. order \in Seq(Lanes)
  BY <1>1, AppendProperties
<1>7. ASSUME s.render[l].open, ~s.closed PROVE PlacedIn(ready, order, l)
  <2>1. PlacedIn(queue.ready, s.render_ready, l)
    BY <1>7 DEF Placed
  <2>2. CASE again
    <3> HIDE DEF queue, rest
    <3>1. ~queue.ready
      BY <2>2
    <3>2. PlacedIn(TRUE, Append(s.render_ready, l), l)
      BY <1>1, <2>1, <3>1, PlacedAppend
    <3>3. PlacedIn(ready, Append(s.render_ready, l), l)
      BY <2>2, <3>2 DEF PlacedIn
    <3> QED
      BY <2>2, <3>3
  <2>3. CASE ~again
    <3>1. PlacedIn(ready, s.render_ready, l)
      BY <2>1, <2>3 DEF PlacedIn
    <3> QED
      BY <2>3, <3>1
  <2> QED
    BY <2>2, <2>3
<1>8. ASSUME NEW k \in Lanes \ {l}, s.render[k].open, ~s.closed
      PROVE  PlacedIn(s.render[k].ready, order, k)
  <2>1. PlacedIn(s.render[k].ready, s.render_ready, k) /\ s.render[k].ready \in BOOLEAN
    BY <1>1, <1>8, QueueParts DEF Placed
  <2>2. PlacedIn(s.render[k].ready, Append(s.render_ready, l), k)
    BY <1>1, <2>1, PlacedAppend
  <2> QED
    BY <2>1, <2>2
<1>9. queue.open = s.render[l].open
  OBVIOUS
<1> HIDE DEF queue, rest, ready, order, front, again
<1>10. q \in Queue(M) /\ q.open = queue.open /\ q.ready = ready /\ q.items = rest
  BY <1>1, <1>2, <1>5 DEF Queue
<1> HIDE DEF q
<1>11. LaneFits(s, l, q, order)
  BY <1>5, <1>7, <1>8, <1>9, <1>10 DEF LaneFits
<1>12. render \in [Lanes -> Queue(M)] /\ render = [s.render EXCEPT ![l] = q]
  BY <1>1, <1>10
<1> HIDE DEF render
<1>13. /\ new \in Writer(M) /\ new.render = render /\ new.render_ready = order
       /\ new.closed = s.closed /\ new.slot = s.slot /\ new.current = front
       /\ new.current_interactive = s.current_interactive
  BY <1>3, <1>6, <1>12 DEF Writer
<1> HIDE DEF new
<1>14. Begins(new)
  BY <1>3, <1>13 DEF Begins
<1>15. LaneBecomes(s, l, q, order, new)
  BY <1>1, <1>11, <1>12, <1>13 DEF LaneBecomes
<1>16. Turns(new)
  BY <1>15, TurnsOfLane
<1> QED
  BY <1>4, <1>13, <1>14, <1>16 DEF Good

\* The writer `u` is s with the first n lanes of its turn passed over.
PassedOver(s, n, u, M) ==
    /\ u \in Writer(M) /\ Placed(u) /\ Begins(u) /\ u.slot = s.slot /\ u.closed = s.closed
    /\ \A l \in Lanes :
          /\ u.render[l].items = s.render[l].items /\ u.render[l].open = s.render[l].open
          /\ u.render[l].ready <=> s.render[l].ready /\ \A i \in 1 .. n : s.render_ready[i] # l

\* Lanes that are passed over leave the turn.
LEMMA UnreadyParts ==
    ASSUME NEW M, NEW s \in Writer(M), Placed(s), Begins(s), NEW n \in 0 .. Len(s.render_ready)
    PROVE  PassedOver(s, n, Unready(s, n), M)
<1> DEFINE order == SubSeq(s.render_ready, n + 1, Len(s.render_ready))
           passed == {s.render_ready[i] : i \in 1 .. n}
           no == FALSE
           old(l) == s.render[l]
           q(l) == IF l \in passed THEN [old(l) EXCEPT !.ready = no] ELSE old(l)
           render == [l \in Lanes |-> q(l)]
           new == [s EXCEPT !.render_ready = order, !.render = render]
<1>1. /\ s.render_ready \in Seq(Lanes) /\ s.render \in [Lanes -> Queue(M)]
      /\ \A l \in Lanes : old(l) \in Queue(M) /\ old(l).ready \in BOOLEAN
  BY WriterParts, QueueParts
<1>2. Unready(s, n) = new
  <2>1. [s EXCEPT !.render_ready = order].render = s.render
    BY DEF Writer
  <2>2. Unready(s, n) = [[s EXCEPT !.render_ready = order] EXCEPT !.render = render]
    BY <2>1 DEF Unready
  <2> HIDE DEF order, render
  <2> QED
    BY <2>2
<1>3. no \in BOOLEAN /\ no = FALSE
  OBVIOUS
<1>4. ASSUME NEW l \in Lanes
      PROVE  PlacedIn(old(l).ready, s.render_ready, l)
                => PlacedIn(old(l).ready /\ l \notin passed, order, l)
  <2> HIDE DEF old
  <2> QED
    BY <1>1, PlacedRest
<1>5. order \in Seq(Lanes)
  <2>1. \A i \in n + 1 .. Len(s.render_ready) : s.render_ready[i] \in Lanes
    BY <1>1, ElementOfSeq, LenProperties
  <2> QED
    BY <1>1, <2>1, SubSeqProperties, LenProperties
<1>6. \A l \in Lanes : l \in passed <=> \E i \in 1 .. n : s.render_ready[i] = l
  OBVIOUS
<1> HIDE DEF order, passed, no, old
<1>7. ASSUME NEW l \in Lanes
      PROVE  /\ q(l) \in Queue(M) /\ q(l).items = old(l).items /\ q(l).open = old(l).open
             /\ q(l).ready = (old(l).ready /\ l \notin passed)
  BY <1>1, <1>3 DEF Queue
<1> HIDE DEF q
<1>8. render \in [Lanes -> Queue(M)] /\ \A l \in Lanes : render[l] = q(l)
  BY <1>7
<1> HIDE DEF render
<1>9. /\ new \in Writer(M) /\ new.render = render /\ new.render_ready = order
      /\ new.closed = s.closed /\ new.slot = s.slot /\ new.current = s.current
      /\ new.current_interactive = s.current_interactive
  BY <1>5, <1>8 DEF Writer
<1> HIDE DEF new
<1>10. Begins(new)
  BY <1>9 DEF Begins
<1>11. Placed(new)
  BY <1>4, <1>7, <1>8, <1>9 DEF Placed, old
<1> QED
  BY <1>2, <1>6, <1>7, <1>8, <1>9, <1>10, <1>11 DEF PassedOver, old

\* The writer task has taken an item, or found none.
Takes(s, new, M) == Good(new, M) /\ new.slot = s.slot /\ new.closed = s.closed

\* The first lane of the turn that has frames is served, and no lane with frames is forgotten.
LEMMA NextRenderGood ==
    ASSUME NEW M, NEW s, Good(s, M), s.slot = "none"
    PROVE  Takes(s, NextRender(s), M)
<1> DEFINE order == s.render_ready
           waiting == {i \in DOMAIN order : Queued(s, order[i])}
<1>1. /\ s \in Writer(M) /\ Placed(s) /\ Begins(s) /\ Called(s, Lanes)
      /\ order \in Seq(Lanes)
  BY WriterParts DEF Good, Turns
<1>2. Len(order) \in Nat /\ DOMAIN order = 1 .. Len(order)
  BY <1>1, LenProperties
<1>3. \A i \in DOMAIN order : order[i] \in Lanes
  BY <1>1, <1>2, ElementOfSeq
<1>4. ASSUME NEW l \in Lanes, s.render[l].open, ~s.closed, s.render[l].items # <<>>
      PROVE  s.render[l].ready /\ \E i \in waiting : order[i] = l
  <2>1. s.render[l].ready
    BY <1>1, <1>4 DEF Called
  <2>2. PICK i \in DOMAIN order : order[i] = l
    BY <1>1, <1>4, <2>1 DEF Placed, PlacedIn
  <2>3. Queued(s, l)
    BY <1>4, WriterAssumption DEF Queued
  <2> QED
    BY <2>1, <2>2, <2>3
<1>5. CASE waiting = {}
  <2> DEFINE n == Len(order)
             u == Unready(s, n)
  <2>1. NextRender(s) = u
    BY <1>5 DEF NextRender
  <2>2. n \in 0 .. Len(s.render_ready)
    BY <1>2
  <2> HIDE DEF n
  <2>3. PassedOver(s, n, u, M)
    BY <1>1, <2>2, UnreadyParts
  <2> HIDE DEF u
  <2>4. Called(u, Lanes)
    BY <1>4, <1>5, <2>3 DEF Called, PassedOver
  <2> QED
    BY <2>1, <2>3, <2>4 DEF Takes, Good, Turns, PassedOver
<1>6. CASE waiting # {}
  <2> DEFINE first(i) == i \in waiting /\ \A j \in waiting : i <= j
             n == CHOOSE i \in waiting : \A j \in waiting : i <= j
             l == order[n]
             u == Unready(s, n)
  <2>1. NextRender(s) = PopRender(u, l)
    BY <1>6 DEF NextRender
  <2>2. n \in waiting /\ \A j \in waiting : n <= j
    <3>1. waiting \subseteq Nat
      BY <1>2
    <3> HIDE DEF waiting
    <3>2. \E i \in waiting : \A j \in waiting : i <= j
      BY <1>6, <3>1, LeastNumber
    <3> QED
      BY <3>2
  <2> HIDE DEF n
  <2>3. n \in 0 .. Len(s.render_ready) /\ n \in 1 .. Len(order)
    BY <1>2, <2>2
  <2>4. PassedOver(s, n, u, M)
    BY <1>1, <2>3, UnreadyParts
  <2> HIDE DEF u
  <2>5. l \in Lanes /\ s.render[l].items # <<>>
    BY <1>3, <2>2 DEF Queued
  <2>6. u.render[l].items # <<>>
    BY <2>4, <2>5 DEF PassedOver
  <2>7. Called(u, Lanes \ {l})
    <3>1. SUFFICES ASSUME NEW k \in Lanes \ {l}, u.render[k].open, ~u.closed,
                          u.render[k].items # <<>>
                   PROVE  u.render[k].ready
      BY DEF Called
    <3>2. s.render[k].open /\ ~s.closed /\ s.render[k].items # <<>>
      BY <2>4, <3>1 DEF PassedOver
    <3>3. s.render[k].ready /\ Queued(s, k)
      BY <1>4, <3>2, WriterAssumption DEF Queued
    <3>4. \A i \in 1 .. n : order[i] # k
      <4>1. SUFFICES ASSUME NEW i \in 1 .. n, order[i] = k PROVE FALSE
        OBVIOUS
      <4>2. i \in waiting
        BY <1>2, <2>3, <3>3, <4>1
      <4>3. n <= i
        BY <2>2, <4>2
      <4>4. i = n
        BY <1>2, <2>3, <4>3
      <4> QED
        BY <4>1, <4>4
    <3> QED
      BY <2>4, <3>3, <3>4 DEF PassedOver
  <2> HIDE DEF l
  <2>8. u \in Writer(M) /\ Begins(u) /\ Placed(u) /\ u.slot = "none" /\ u.closed = s.closed
    BY <2>4 DEF PassedOver
  <2>9. /\ Good(PopRender(u, l), M)
        /\ PopRender(u, l).slot = "none" /\ PopRender(u, l).closed = u.closed
    BY <2>5, <2>6, <2>7, <2>8, PopRenderGood
  <2> QED
    BY <2>1, <2>8, <2>9 DEF Takes
<1> QED
  BY <1>5, <1>6

\* The item that is due is taken: a message, or a frame, of the lane it waits for if it does.
LEMMA NextCurrentGood ==
    ASSUME NEW M, NEW s, Good(s, M), s.slot = "none"
    PROVE  Takes(s, NextCurrent(s), M)
<1>1. s \in Writer(M) /\ Placed(s) /\ Begins(s) /\ Called(s, Lanes) /\ s.reliable \in Seq(Items(M))
  BY WriterParts DEF Good, Turns
<1>2. CASE s.reliable = <<>>
  BY <1>2, NextRenderGood DEF NextCurrent
<1>3. CASE s.reliable # <<>>
  <2> DEFINE front == Head(s.reliable)
             rest == Tail(s.reliable)
             l == front.after_lane
             new == [s EXCEPT !.current = front, !.lane = NoLane, !.reliable = rest]
  <2>1. front \in Items(M) /\ rest \in Seq(Items(M))
    BY <1>1, <1>3, HeadTailProperties
  <2>2. front \in UnderWay(M) /\ front.left # 0 /\ l \in Lanes \cup {NoLane}
    BY <2>1, NoItemBegun DEF Items
  <2>3. NextCurrent(s) = IF Queued(s, l) THEN PopRender(s, l) ELSE new
    <3>1. new = [s EXCEPT !.current = front, !.lane = NoLane, !.reliable = Tail(@)]
      BY <1>1 DEF Writer
    <3> QED
      BY <1>3, <3>1 DEF NextCurrent
  <2> HIDE DEF front, rest
  <2>4. CASE Queued(s, l)
    <3> HIDE DEF l
    <3>1. l \in Lanes /\ s.render[l].items # <<>> /\ Called(s, Lanes \ {l})
      BY <1>1, <2>2, <2>4 DEF Queued, Called
    <3>2. /\ Good(PopRender(s, l), M)
          /\ PopRender(s, l).slot = "none" /\ PopRender(s, l).closed = s.closed
      BY <1>1, <3>1, PopRenderGood
    <3> QED
      BY <2>3, <2>4, <3>2 DEF Takes
  <2>5. CASE ~Queued(s, l)
    <3>1. /\ new \in Writer(M) /\ new.render = s.render /\ new.render_ready = s.render_ready
          /\ new.closed = s.closed /\ new.slot = s.slot /\ new.current = front
          /\ new.current_interactive = s.current_interactive
      BY <1>1, <2>1, <2>2 DEF Writer
    <3>2. NextCurrent(s) = new
      BY <2>3, <2>5
    <3> HIDE DEF new
    <3>3. Begins(new)
      BY <1>1, <2>2, <3>1 DEF Begins
    <3>4. Turns(new)
      BY <3>1, TurnsSame DEF Good
    <3> QED
      BY <3>1, <3>2, <3>3, <3>4 DEF Takes, Good
  <2> QED
    BY <2>4, <2>5
<1> QED
  BY <1>2, <1>3

\* A frame of an item is taken.
LEMMA LeftTaken ==
    ASSUME NEW M, NEW item \in UnderWay(M), item # NoItem, item.left # 0
    PROVE  [item EXCEPT !.left = @ - 1] \in UnderWay(M) \ {NoItem}
<1> DEFINE rest == item.left - 1
           new == [item EXCEPT !.left = rest]
<1>1. item \in Begun(M)
  BY DEF UnderWay
<1>2. rest \in Nat
  <2>1. item.left \in Nat
    BY <1>1 DEF Begun
  <2> QED
    BY <2>1
<1>3. [item EXCEPT !.left = @ - 1] = new
  OBVIOUS
<1> HIDE DEF rest
<1>4. new \in Begun(M) /\ new.kind = "item"
  BY <1>1, <1>2 DEF Begun
<1>5. new # NoItem
  BY <1>4 DEF NoItem
<1> QED
  BY <1>3, <1>4, <1>5 DEF UnderWay

\* select
LEMMA SelectGood ==
    ASSUME NEW M, NEW s, Good(s, M), s.slot = "none"
    PROVE  Good(Select(s), M)
<1> DEFINE mine == "interactive"
           its == "current"
<1>1. /\ s \in Writer(M) /\ Begins(s) /\ s.interactive \in Seq(Items(M))
      /\ s.current_interactive \in UnderWay(M)
  BY WriterParts DEF Good
<1>2. CASE s.current_interactive # NoItem
  <2> DEFINE item == [s.current_interactive EXCEPT !.left = @ - 1]
             new == [s EXCEPT !.current_interactive = item, !.slot = mine]
  <2>1. item \in UnderWay(M) \ {NoItem}
    BY <1>1, <1>2, LeftTaken DEF Begins
  <2>2. Select(s) = new
    BY <1>1, <1>2 DEF Select, Writer
  <2> HIDE DEF item
  <2>3. /\ new \in Writer(M) /\ new.render = s.render /\ new.render_ready = s.render_ready
        /\ new.closed = s.closed /\ new.slot = "interactive" /\ new.current = s.current
        /\ new.current_interactive = item
    BY <1>1, <2>1 DEF Writer
  <2> HIDE DEF new
  <2>4. Begins(new)
    BY <1>1, <2>1, <2>3 DEF Begins
  <2>5. Turns(new)
    BY <2>3, TurnsSame DEF Good
  <2> QED
    BY <2>2, <2>3, <2>4, <2>5 DEF Good
<1>3. CASE s.current_interactive = NoItem /\ s.interactive # <<>>
  <2> DEFINE front == Head(s.interactive)
             item == [front EXCEPT !.left = @ - 1]
             rest == Tail(s.interactive)
             new == [s EXCEPT !.current_interactive = item, !.interactive = rest, !.slot = mine]
  <2>1. front \in Items(M) /\ rest \in Seq(Items(M))
    BY <1>1, <1>3, HeadTailProperties
  <2> HIDE DEF front
  <2>2. front \in UnderWay(M) /\ front # NoItem /\ front.left # 0
    BY <2>1, NoItemBegun
  <2>3. item \in UnderWay(M) \ {NoItem}
    BY <2>2, LeftTaken
  <2>4. Select(s) = new
    BY <1>1, <1>3 DEF Select, Writer, front
  <2> HIDE DEF item, rest
  <2>5. /\ new \in Writer(M) /\ new.render = s.render /\ new.render_ready = s.render_ready
        /\ new.closed = s.closed /\ new.slot = "interactive" /\ new.current = s.current
        /\ new.current_interactive = item
    BY <1>1, <2>1, <2>3 DEF Writer
  <2> HIDE DEF new
  <2>6. Begins(new)
    BY <1>1, <2>3, <2>5 DEF Begins
  <2>7. Turns(new)
    BY <2>5, TurnsSame DEF Good
  <2> QED
    BY <2>4, <2>5, <2>6, <2>7 DEF Good
<1>4. CASE s.current_interactive = NoItem /\ s.interactive = <<>>
  <2> DEFINE chosen == IF s.current = NoItem THEN NextCurrent(s) ELSE s
             item == [chosen.current EXCEPT !.left = @ - 1]
             new == [chosen EXCEPT !.current = item, !.slot = its]
  <2>1. Select(s) = IF chosen.current = NoItem THEN chosen
                    ELSE [chosen EXCEPT !.current.left = @ - 1, !.slot = "current"]
    BY <1>4 DEF Select
  <2>2. Good(chosen, M) /\ chosen.slot = "none"
    BY NextCurrentGood DEF Takes
  <2> HIDE DEF chosen
  <2>3. chosen \in Writer(M) /\ Begins(chosen) /\ chosen.current \in UnderWay(M)
    BY <2>2, WriterParts DEF Good
  <2>4. CASE chosen.current # NoItem
    <3>1. item \in UnderWay(M) \ {NoItem}
      BY <2>2, <2>3, <2>4, LeftTaken DEF Begins
    <3>2. Select(s) = new
      BY <2>1, <2>3, <2>4 DEF Writer
    <3> HIDE DEF item
    <3>3. /\ new \in Writer(M) /\ new.render = chosen.render
          /\ new.render_ready = chosen.render_ready /\ new.closed = chosen.closed
          /\ new.slot = "current" /\ new.current = item
          /\ new.current_interactive = chosen.current_interactive
      BY <2>3, <3>1 DEF Writer
    <3> HIDE DEF new
    <3>4. Begins(new)
      BY <2>2, <2>3, <3>1, <3>3 DEF Begins
    <3>5. Turns(new)
      BY <2>2, <3>3, TurnsSame DEF Good
    <3> QED
      BY <3>2, <3>3, <3>4, <3>5 DEF Good
  <2> QED
    BY <2>1, <2>2, <2>4
<1> QED
  BY <1>2, <1>3, <1>4

\* What leaves the frames of the lanes and their readiness alone leaves their turn alone.
LEMMA TurnsAlike ==
    ASSUME NEW s, NEW new, Turns(s), new.render_ready = s.render_ready, new.closed = s.closed,
           \A l \in Lanes : /\ new.render[l].open = s.render[l].open
                            /\ new.render[l].items = s.render[l].items
                            /\ new.render[l].ready = s.render[l].ready
    PROVE  Turns(new)
BY DEF Turns, Placed, Called

\* The bytes of a frame leave its lane.
LEMMA LaneWritten ==
    ASSUME NEW M, NEW render \in [Lanes -> Queue(M)], NEW l \in Lanes, NEW bytes \in Int
    PROVE  LET new == [render EXCEPT ![l].bytes = bytes] IN
           /\ new \in [Lanes -> Queue(M)]
           /\ \A k \in Lanes : /\ new[k].open = render[k].open
                               /\ new[k].items = render[k].items
                               /\ new[k].ready = render[k].ready
<1> DEFINE queue == render[l]
           q == [queue EXCEPT !.bytes = bytes]
           new == [render EXCEPT ![l] = q]
<1>1. queue \in Queue(M)
  OBVIOUS
<1>2. [render EXCEPT ![l].bytes = bytes] = new
  OBVIOUS
<1> HIDE DEF queue
<1>3. /\ q \in Queue(M) /\ q.open = queue.open /\ q.items = queue.items
      /\ q.ready = queue.ready
  BY <1>1 DEF Queue
<1> HIDE DEF q
<1>4. new \in [Lanes -> Queue(M)]
  BY <1>3
<1>5. \A k \in Lanes : new[k] = IF k = l THEN q ELSE render[k]
  OBVIOUS
<1> HIDE DEF new
<1> QED
  BY <1>2, <1>3, <1>4, <1>5 DEF queue

\* finish
LEMMA FinishGood ==
    ASSUME NEW M, NEW s, Good(s, M), s.slot # "none"
    PROVE  Good(Finish(s), M)
<1> DEFINE item == IF s.slot = "interactive" THEN s.current_interactive ELSE s.current
           none == "none"
           written == [s EXCEPT !.slot = none]
<1>1. /\ s \in Writer(M) /\ Begins(s) /\ s.lane \in Lanes \cup {NoLane}
      /\ s.slot \in {"interactive", "current"} /\ s.reliable_bytes \in Int
      /\ s.render \in [Lanes -> Queue(M)]
      /\ s.current_interactive \in UnderWay(M) /\ s.current \in UnderWay(M)
  BY WriterParts DEF Good
<1>2. item \in UnderWay(M) /\ item # NoItem
  BY <1>1 DEF Begins
<1>3. item.left \in Nat /\ item.bytes \in Int /\ (item.left > 0 \/ item.left = 0)
  BY <1>2, NoItemBegun
<1>4. NoItem \in UnderWay(M)
  BY NoItemBegun
<1>5. /\ written \in Writer(M) /\ written.render = s.render /\ written.closed = s.closed
      /\ written.render_ready = s.render_ready /\ written.slot = "none"
      /\ written.current = s.current /\ written.current_interactive = s.current_interactive
      /\ written.reliable_bytes = s.reliable_bytes
  BY <1>1 DEF Writer
<1>6. Finish(s) =
        CASE item.left > 0 -> written
          [] s.slot = "interactive" /\ item.left = 0 ->
                 [written EXCEPT !.current_interactive = NoItem]
          [] s.slot = "current" /\ item.left = 0 /\ s.lane = NoLane ->
                 [written EXCEPT !.current = NoItem, !.reliable_bytes = @ - item.bytes]
          [] s.slot = "current" /\ item.left = 0 /\ s.lane # NoLane ->
                 [written EXCEPT !.current = NoItem, !.lane = NoLane,
                                 !.render[s.lane].bytes =
                                     IF s.render[s.lane].open THEN @ - item.bytes ELSE @]
  BY DEF Finish
<1>7. /\ s.slot = "interactive" => item = s.current_interactive
      /\ s.slot = "current" => item = s.current
  BY <1>1
<1> HIDE DEF item, written
<1>8. CASE item.left > 0
  <2>1. Finish(s) = written
    BY <1>3, <1>6, <1>8
  <2>2. Begins(written)
    BY <1>1, <1>3, <1>5, <1>7, <1>8 DEF Begins
  <2>3. Turns(written)
    BY <1>5, TurnsSame DEF Good
  <2> QED
    BY <1>5, <2>1, <2>2, <2>3 DEF Good
<1>9. CASE s.slot = "interactive" /\ item.left = 0
  <2> DEFINE new == [written EXCEPT !.current_interactive = NoItem]
  <2>1. Finish(s) = new
    BY <1>3, <1>6, <1>9
  <2>2. /\ new \in Writer(M) /\ new.render = s.render /\ new.closed = s.closed
        /\ new.render_ready = s.render_ready /\ new.slot = "none"
        /\ new.current = s.current /\ new.current_interactive = NoItem
    BY <1>4, <1>5 DEF Writer
  <2> HIDE DEF new
  <2>3. Begins(new)
    BY <1>1, <1>9, <2>2 DEF Begins
  <2>4. Turns(new)
    BY <2>2, TurnsSame DEF Good
  <2> QED
    BY <2>1, <2>2, <2>3, <2>4 DEF Good
<1>10. CASE s.slot = "current" /\ item.left = 0 /\ s.lane = NoLane
  <2> DEFINE bytes == s.reliable_bytes - item.bytes
             new == [written EXCEPT !.current = NoItem, !.reliable_bytes = bytes]
  <2>1. Finish(s) = new
    <3>1. Finish(s) = [written EXCEPT !.current = NoItem, !.reliable_bytes = @ - item.bytes]
      BY <1>3, <1>6, <1>10
    <3> QED
      BY <1>5, <3>1 DEF Writer
  <2>2. bytes \in Int
    BY <1>1, <1>3
  <2> HIDE DEF bytes
  <2>3. /\ new \in Writer(M) /\ new.render = s.render /\ new.closed = s.closed
        /\ new.render_ready = s.render_ready /\ new.slot = "none"
        /\ new.current = NoItem /\ new.current_interactive = s.current_interactive
    BY <1>4, <1>5, <2>2 DEF Writer
  <2> HIDE DEF new
  <2>4. Begins(new)
    BY <1>1, <1>10, <2>3 DEF Begins
  <2>5. Turns(new)
    BY <2>3, TurnsSame DEF Good
  <2> QED
    BY <2>1, <2>3, <2>4, <2>5 DEF Good
<1>11. CASE s.slot = "current" /\ item.left = 0 /\ s.lane # NoLane
  <2> DEFINE l == s.lane
             queue == s.render[l]
             bytes == IF queue.open THEN queue.bytes - item.bytes ELSE queue.bytes
             render == [s.render EXCEPT ![l].bytes = bytes]
             new == [written EXCEPT !.current = NoItem, !.lane = NoLane, !.render = render]
  <2>1. l \in Lanes /\ queue \in Queue(M)
    BY <1>1, <1>11
  <2>2. Finish(s) = new
    <3>1. Finish(s) = [written EXCEPT !.current = NoItem, !.lane = NoLane,
                                      !.render[l].bytes =
                                          IF queue.open THEN @ - item.bytes ELSE @]
      BY <1>3, <1>6, <1>11
    <3> QED
      BY <1>5, <3>1 DEF Writer
  <2>3. bytes \in Int
    <3>1. queue.bytes \in Int
      BY <2>1, QueueParts
    <3> HIDE DEF queue
    <3> QED
      BY <1>3, <3>1
  <2> HIDE DEF bytes, queue, l
  <2>4. /\ render \in [Lanes -> Queue(M)]
        /\ \A k \in Lanes : /\ render[k].open = s.render[k].open
                            /\ render[k].items = s.render[k].items
                            /\ render[k].ready = s.render[k].ready
    BY <1>1, <2>1, <2>3, LaneWritten
  <2> HIDE DEF render
  <2>5. /\ new \in Writer(M) /\ new.render = render /\ new.closed = s.closed
        /\ new.render_ready = s.render_ready /\ new.slot = "none"
        /\ new.current = NoItem /\ new.current_interactive = s.current_interactive
    BY <1>4, <1>5, <2>4 DEF Writer
  <2> HIDE DEF new
  <2>6. Begins(new)
    BY <1>1, <1>11, <2>5 DEF Begins
  <2>7. Turns(new)
    BY <2>4, <2>5, TurnsAlike DEF Good
  <2> QED
    BY <2>2, <2>5, <2>6, <2>7 DEF Good
<1> QED
  BY <1>1, <1>3, <1>8, <1>9, <1>10, <1>11

-----------------------------------------------------------------------------
(* Types.                                                                  *)

Kinds == {"none", "spawn", "attach", "detach", "subscribe"}
Messages == [kind : {"response", "frame", "exit", "other"}, of : Kinds, update : Updates]
Baselines == [sequence : Nat, meta : -1 .. 3, follows_live : BOOLEAN]

TerminalTypes ==
    /\ screen \in [sequence : Nat, meta : 0 .. 3] /\ metadata \in 0 .. 3
    /\ output \in BOOLEAN /\ requested \in BOOLEAN /\ stale \in BOOLEAN /\ exited \in BOOLEAN

\* Metadata that were read are the terminal's, and what was captured is a snapshot or a delta.
CaptureTypes ==
    /\ capture \in [Threads -> CaptureStates]
    /\ \A t \in Threads :
          /\ capture[t].pc \in {"read", "context"} => capture[t].meta \in 0 .. 3
          /\ capture[t].pc = "captured" => capture[t].update.base >= 0

\* The process exits once.
ExitOnce ==
    /\ capture["exit"].pc = "flagged" => exited /\ metadata < Exited
    /\ ~exited => metadata < Exited

CountTypes ==
    /\ subscribers \in BOOLEAN /\ watched \in BOOLEAN
    /\ recount \in [{"viewer", "other"} -> {Same, 0, 1}]

AttachmentTypes == attachment \in [attached : BOOLEAN, visible : BOOLEAN, scrolled : BOOLEAN]

\* What a terminal broadcasts: snapshots, deltas and its exit
Events == {event \in Updates : event.base >= 0 \/ IsExit(event)}

StreamTypes ==
    /\ stream \in [Lanes -> StreamStates]
    /\ \A l \in Lanes : stream[l].events \in Seq(Events) /\ Len(stream[l].events) <= Capacity

ServingTypes == serving \in Lanes \cup {NoLane}

RequestTypes ==
    request \in [pc : {"none", "viewing", "registered"}, kind : Kinds, viewport : Updates]

ClientTypes ==
    client \in [connected : BOOLEAN, known : BOOLEAN, attached : BOOLEAN, mirror : Updates,
                told : Nat, gap : BOOLEAN]

BudgetTypes ==
    left \in [attached : BOOLEAN, prints : Nat, titles : Nat, exits : Nat, views : Nat,
              others : Nat, scrolls : Nat, requests : Nat, early : Nat, messages : Nat,
              drops : Nat]

WriterTypes == Good(writer, Messages)

Types ==
    /\ TerminalTypes /\ CaptureTypes /\ ExitOnce /\ CountTypes /\ AttachmentTypes
    /\ StreamTypes /\ ServingTypes /\ RequestTypes /\ ClientTypes /\ BudgetTypes /\ WriterTypes

\* They are those the run checks.
LEMMA TypesAreOK == Types => TypeOK
<1>1. SUFFICES ASSUME Types PROVE TypeOK
  OBVIOUS
<1>2. /\ screen \in [sequence : Nat, meta : 0 .. 3] /\ metadata \in 0 .. 3
      /\ {output, requested, stale, exited, subscribers, watched} \subseteq BOOLEAN
  BY <1>1 DEF Types, TerminalTypes, CountTypes
<1>3. /\ capture \in [Threads -> CaptureStates]
      /\ recount \in [{"viewer", "other"} -> {Same, 0, 1}]
      /\ attachment \in [attached : BOOLEAN, visible : BOOLEAN, scrolled : BOOLEAN]
  BY <1>1 DEF Types, CaptureTypes, CountTypes, AttachmentTypes
<1>4. /\ stream \in [Lanes -> StreamStates] /\ \A l \in Lanes : Len(stream[l].events) <= Capacity
      /\ serving \in Lanes \cup {NoLane}
  BY <1>1 DEF Types, StreamTypes, ServingTypes
<1>5. /\ request \in [pc : {"none", "viewing", "registered"},
                      kind : {"none", "spawn", "attach", "detach", "subscribe"},
                      viewport : Updates]
      /\ client \in [connected : BOOLEAN, known : BOOLEAN, attached : BOOLEAN, mirror : Updates,
                     told : Nat, gap : BOOLEAN]
  BY <1>1 DEF Types, RequestTypes, ClientTypes, Kinds
<1> QED
  BY <1>2, <1>3, <1>4, <1>5 DEF TypeOK

\* The threads are the terminal's four and one for each lane.
LEMMA ThreadsAre ==
    /\ {"publisher", "titles", "exit", "request"} \subseteq Threads /\ Lanes \subseteq Threads
    /\ \A l \in Lanes : l \notin {"publisher", "titles", "exit", "request"}
BY StreamAssumption DEF Threads

\* Updates
LEMMA UpdatesAre ==
    /\ \A n \in Int : Mark(n) \in Updates
    /\ {Nothing, SnapshotRequired, Gap} \subseteq Updates
    /\ \A n \in Nat : ExitEvent(n) \in Updates
    /\ \A n \in Nat, meta \in -1 .. 3, rows \in Int : Viewport(n, meta, rows) \in Updates
<1>1. \A n \in Int : Mark(n) \in Updates
  BY DEF Mark, Updates, Same
<1>2. {Nothing, SnapshotRequired, Gap} \subseteq Updates
  BY <1>1 DEF Nothing, SnapshotRequired, Gap
<1>3. \A n \in Nat : ExitEvent(n) \in Updates
  BY <1>1 DEF ExitEvent, Updates
<1>4. \A n \in Nat, meta \in -1 .. 3, rows \in Int : Viewport(n, meta, rows) \in Updates
  BY DEF Viewport, Updates
<1> QED
  BY <1>1, <1>2, <1>3, <1>4

\* The parts of an update
LEMMA UpdateParts ==
    ASSUME NEW u \in Updates
    PROVE  /\ u.base \in Int /\ u.sequence \in Nat /\ u.meta \in -1 .. 3 /\ u.rows \in Int
           /\ u = [base |-> u.base, sequence |-> u.sequence, meta |-> u.meta, rows |-> u.rows]
BY DEF Updates

\* What is applied or merged is an update again.
LEMMA ApplyTyped ==
    ASSUME NEW mirror \in Updates, NEW update \in Updates
    PROVE  Apply(mirror, update) \in Updates
<1>1. Gap \in Updates
  BY UpdatesAre
<1> DEFINE meta == IF update.meta = Same THEN mirror.meta ELSE update.meta
           rows == IF update.rows = Same THEN mirror.rows
                   ELSE IF mirror.rows = update.base THEN update.rows ELSE Garbled
           new == [mirror EXCEPT !.sequence = update.sequence, !.meta = meta, !.rows = rows]
<1>2. new \in Updates
  <2>1. meta \in -1 .. 3 /\ rows \in Int /\ update.sequence \in Nat
    BY UpdateParts DEF Garbled
  <2> HIDE DEF meta, rows
  <2> QED
    BY <2>1 DEF Updates
<1>3. Apply(mirror, update) =
         IF IsSnapshot(update) THEN IF update.sequence < mirror.sequence THEN mirror ELSE update
         ELSE IF update.sequence <= mirror.sequence THEN mirror
         ELSE IF update.base # mirror.sequence THEN Gap ELSE new
  BY DEF Apply
<1> HIDE DEF new
<1> QED
  BY <1>1, <1>2, <1>3

\* So is what is merged.
LEMMA MergedTyped ==
    ASSUME NEW current \in Updates, NEW next \in Updates
    PROVE  Merged(current, next) \in Updates
<1>1. SnapshotRequired \in Updates /\ Apply(current, next) \in Updates
  BY UpdatesAre, ApplyTyped
<1>2. Contiguous(current, next) \in Updates
  BY DEF Contiguous, Updates
<1>3. Merged(current, next) \in {SnapshotRequired, Apply(current, next), Contiguous(current, next)}
  BY DEF Merged
<1> QED
  BY <1>1, <1>2, <1>3

\* So is what is pending, and the baseline stays one.
LEMMA PushTyped ==
    ASSUME NEW pending \in Updates, NEW baseline \in Baselines, NEW update \in Updates,
           update.base >= 0
    PROVE  Push(pending, baseline, update) \in Updates
<1>1. Nothing \in Updates /\ SnapshotRequired \in Updates /\ Merged(pending, update) \in Updates
  BY UpdatesAre, MergedTyped
<1>2. IsSnapshot(update) \/ IsDelta(update)
  BY DEF IsSnapshot, IsDelta, Updates
<1>3. StartFrame(baseline, update) \in {Nothing, SnapshotRequired, update}
  BY <1>2 DEF StartFrame, IsSnapshot, IsDelta, Updates, Baselines
<1> QED
  BY <1>1, <1>2, <1>3 DEF Push

\* What does not change keeps its type.
LEMMA Unmoved ==
    /\ TerminalTypes /\ UNCHANGED terminalVars => TerminalTypes'
    /\ CaptureTypes /\ UNCHANGED capture => CaptureTypes'
    /\ ExitOnce /\ UNCHANGED <<capture, metadata, exited>> => ExitOnce'
    /\ CountTypes /\ UNCHANGED countVars => CountTypes'
    /\ AttachmentTypes /\ UNCHANGED attachment => AttachmentTypes'
    /\ StreamTypes /\ UNCHANGED stream => StreamTypes'
    /\ ServingTypes /\ UNCHANGED serving => ServingTypes'
    /\ RequestTypes /\ UNCHANGED request => RequestTypes'
    /\ ClientTypes /\ UNCHANGED client => ClientTypes'
    /\ BudgetTypes /\ UNCHANGED left => BudgetTypes'
    /\ WriterTypes /\ UNCHANGED writer => WriterTypes'
BY DEF TerminalTypes, CaptureTypes, ExitOnce, CountTypes, AttachmentTypes, StreamTypes,
       ServingTypes, RequestTypes, ClientTypes, BudgetTypes, WriterTypes, terminalVars, countVars

\* What happens is within the budget.
LEMMA SpendTyped ==
    ASSUME BudgetTypes, NEW what, Spend(what),
           what \in {"prints", "titles", "exits", "views", "others", "scrolls", "requests",
                     "early", "messages", "drops"}
    PROVE  BudgetTypes'
<1>1. left[what] \in Nat /\ left[what] > 0
  BY DEF BudgetTypes, Spend
<1> DEFINE n == left[what] - 1
<1>2. n \in Nat /\ left' = [left EXCEPT ![what] = n]
  BY <1>1 DEF Spend
<1> HIDE DEF n
<1> QED
  BY <1>2 DEF BudgetTypes

\* A thread that goes on: what it read and captured is as it says.
Proceeds(c) ==
    /\ c \in CaptureStates
    /\ c.pc \in {"read", "context"} => c.meta \in 0 .. 3
    /\ c.pc = "captured" => c.update.base >= 0

\* A thread of the terminal moves.
LEMMA CaptureMoves ==
    ASSUME CaptureTypes, NEW t \in Threads, NEW c, Proceeds(c), capture' = [capture EXCEPT ![t] = c]
    PROVE  CaptureTypes'
BY DEF CaptureTypes, Proceeds

\* Other threads than the one of the exit, and other places, do not let it exit again.
LEMMA ExitStays ==
    ASSUME ExitOnce, UNCHANGED <<metadata, exited>>,
           capture'["exit"] = capture["exit"] \/ capture'["exit"].pc # "flagged"
    PROVE  ExitOnce'
BY DEF ExitOnce

\* Threads that rest, that read and that look go on.
LEMMA RestingProceeds ==
    /\ Proceeds(Resting)
    /\ \A pc \in {"idle", "look", "view", "published", "paced"} : Proceeds([Resting EXCEPT !.pc = pc])
    /\ \A meta \in 0 .. 3, next \in {"idle", "look", "view", "published"} :
          /\ Proceeds([pc |-> "read", meta |-> meta, update |-> Nothing, next |-> next])
          /\ Proceeds([Resting EXCEPT !.pc = "read", !.meta = meta])
          /\ Proceeds([Resting EXCEPT !.pc = "read", !.meta = meta, !.next = next])
<1>1. Resting \in CaptureStates /\ Resting.pc = "idle"
  BY UpdatesAre DEF Resting, CaptureStates, Places, Same
<1>2. \A pc \in {"idle", "look", "view", "published", "paced"} : Proceeds([Resting EXCEPT !.pc = pc])
  BY <1>1 DEF Proceeds, CaptureStates, Places
<1>3. ASSUME NEW meta \in 0 .. 3, NEW next \in {"idle", "look", "view", "published"}
      PROVE  /\ Proceeds([pc |-> "read", meta |-> meta, update |-> Nothing, next |-> next])
             /\ Proceeds([Resting EXCEPT !.pc = "read", !.meta = meta])
             /\ Proceeds([Resting EXCEPT !.pc = "read", !.meta = meta, !.next = next])
  <2>1. meta \in -1 .. 3
    OBVIOUS
  <2>2. Proceeds([pc |-> "read", meta |-> meta, update |-> Nothing, next |-> next])
    BY <2>1, UpdatesAre DEF Proceeds, CaptureStates, Places
  <2>3. Proceeds([Resting EXCEPT !.pc = "read", !.meta = meta])
    BY <1>1, <2>1 DEF Proceeds, CaptureStates, Places
  <2>4. Proceeds([Resting EXCEPT !.pc = "read", !.meta = meta, !.next = next])
    BY <1>1, <2>1 DEF Proceeds, CaptureStates, Places
  <2> QED
    BY <2>2, <2>3, <2>4
<1> QED
  BY <1>1, <1>2, <1>3 DEF Proceeds

\* A stream that goes on
StreamFits(s) ==
    s \in StreamStates /\ s.events \in Seq(Events) /\ Len(s.events) <= Capacity

\* One stream moves.
LEMMA StreamMoves ==
    ASSUME StreamTypes, NEW l \in Lanes, NEW s, StreamFits(s), Becomes(l, s)
    PROVE  StreamTypes'
BY DEF StreamTypes, StreamFits, Becomes

\* A stream is as the types say.
LEMMA StreamIs ==
    ASSUME StreamTypes, NEW l \in Lanes
    PROVE  StreamFits(stream[l])
BY DEF StreamTypes, StreamFits

\* All streams move.
LEMMA StreamsMove ==
    ASSUME NEW streams, streams = [l \in Lanes |-> streams[l]],
           \A l \in Lanes : StreamFits(streams[l]), stream' = streams
    PROVE  StreamTypes'
BY DEF StreamTypes, StreamFits

\* No stream
LEMMA NoStreamFits == StreamFits(NoStream) /\ StreamFits([NoStream EXCEPT !.pc = "starting"])
<1>1. Nothing \in Updates /\ <<>> \in Seq(Events) /\ <<>> \in Seq(Updates) /\ Len(<<>>) = 0
  BY UpdatesAre, EmptySeq
<1>2. Baseline(Viewport(0, Same, Scrolled)) \in Baselines
  BY DEF Baseline, Viewport, Scrolled, Same, Baselines
<1> DEFINE none == <<>>
           zero == 0
           b == Baseline(Viewport(0, Same, Scrolled))
<1>3. none \in Seq(Events) /\ none \in Seq(Updates) /\ Len(none) <= Capacity /\ b \in Baselines
      /\ zero \in Nat
  BY <1>1, <1>2, StreamAssumption
<1>4. NoStream = [pc |-> "none", events |-> none, lagged |-> FALSE, visible |-> TRUE,
             scrolled |-> FALSE, changed |-> FALSE, revised |-> FALSE,
             baseline |-> b, pending |-> Nothing,
             dirty |-> FALSE, detached |-> FALSE, aborted |-> FALSE, newest |-> zero]
  BY DEF NoStream
<1> HIDE DEF none, b, zero
<1> QED
  BY <1>1, <1>3, <1>4 DEF StreamFits, StreamStates, Snapshots, Baselines
-----------------------------------------------------------------------------
(* The terminal keeps the types.                                           *)

\* Output is read.
LEMMA ReadOutputTypes == Types /\ ReadOutput => Types'
<1>1. SUFFICES ASSUME Types, ReadOutput PROVE Types'
  OBVIOUS
<1>2. UNCHANGED <<capture, metadata, exited, countVars, attachment, stream, serving, request,
                  client, writer>>
  BY <1>1 DEF ReadOutput, streamVars, clientSide
<1>3. TerminalTypes'
  BY <1>1 DEF ReadOutput, Types, TerminalTypes
<1>4. BudgetTypes'
  BY <1>1, SpendTyped DEF ReadOutput, Types
<1> QED
  BY <1>1, <1>2, <1>3, <1>4, Unmoved DEF Types

\* The publisher starts, and decides whether to capture.
LEMMA PublisherTypes == Types /\ (PublisherStarts \/ PublisherDecides) => Types'
<1>1. SUFFICES ASSUME Types, PublisherStarts \/ PublisherDecides PROVE Types'
  OBVIOUS
<1>2. UNCHANGED <<metadata, exited, countVars, attachment, stream, serving, request,
                  client, writer, left>>
  BY <1>1 DEF PublisherStarts, PublisherDecides, streamVars, clientSide
<1>3. TerminalTypes'
  BY <1>1 DEF PublisherStarts, PublisherDecides, Types, TerminalTypes, CountTypes
<1>4. "publisher" \in Threads /\ capture["publisher"] \in CaptureStates
  BY <1>1, ThreadsAre DEF Types, CaptureTypes
<1>5. PICK c : Proceeds(c) /\ capture' = [capture EXCEPT !["publisher"] = c]
  <2>1. CASE PublisherStarts
    <3> DEFINE c == [capture["publisher"] EXCEPT !.pc = "paced"]
    <3>1. Proceeds(c)
      BY <1>4 DEF Proceeds, CaptureStates, Places
    <3>2. capture' = [capture EXCEPT !["publisher"] = c]
      BY <2>1 DEF PublisherStarts
    <3> QED
      BY <3>1, <3>2
  <2>2. CASE PublisherDecides
    <3> DEFINE reading == [Resting EXCEPT !.pc = "read", !.meta = metadata]
    <3>1. capture' = [capture EXCEPT !["publisher"] = Resting]
          \/ capture' = [capture EXCEPT !["publisher"] = reading]
      BY <2>2 DEF PublisherDecides
    <3>2. metadata \in 0 .. 3
      BY <1>1 DEF Types, TerminalTypes
    <3>3. Proceeds(reading)
      BY <3>2, RestingProceeds
    <3> HIDE DEF reading
    <3> QED
      BY <3>1, <3>3, RestingProceeds
  <2> QED
    BY <1>1, <2>1, <2>2
<1>6. CaptureTypes'
  BY <1>1, <1>4, <1>5, CaptureMoves DEF Types
<1>7. ExitOnce'
  <2>1. capture'["exit"] = capture["exit"]
    BY <1>1, <1>5, ThreadsAre DEF Types, CaptureTypes
  <2> QED
    BY <1>1, <1>2, <2>1, ExitStays DEF Types
<1> QED
  BY <1>1, <1>2, <1>3, <1>6, <1>7, Unmoved DEF Types

\* A title is set, of a process that runs or of one that exited.
LEMMA SetTitleTypes == Types /\ SetTitle => Types'
<1>1. SUFFICES ASSUME Types, SetTitle PROVE Types'
  OBVIOUS
<1>2. UNCHANGED <<exited, countVars, attachment, stream, serving, request, client, writer>>
  BY <1>1 DEF SetTitle, streamVars, clientSide
<1>3. metadata \in 0 .. 3 /\ metadata' \in 0 .. 3 /\ (metadata < Exited => metadata' < Exited)
  BY <1>1 DEF SetTitle, Types, TerminalTypes, Exited
<1>4. TerminalTypes'
  BY <1>1, <1>3 DEF SetTitle, Types, TerminalTypes
<1> DEFINE c == [Resting EXCEPT !.pc = "read", !.meta = metadata']
<1>5. capture' = [capture EXCEPT !["titles"] = c]
  BY <1>1 DEF SetTitle
<1>7. Proceeds(c)
  BY <1>3, RestingProceeds
<1> HIDE DEF c
<1>8. CaptureTypes'
  BY <1>1, <1>5, <1>7, CaptureMoves, ThreadsAre DEF Types
<1>9. ExitOnce'
  <2>1. capture'["exit"] = capture["exit"]
    BY <1>1, <1>5, ThreadsAre DEF Types, CaptureTypes
  <2> QED
    BY <1>1, <1>2, <1>3, <2>1 DEF Types, ExitOnce
<1>10. BudgetTypes'
  BY <1>1, SpendTyped DEF SetTitle, Types
<1> QED
  BY <1>1, <1>2, <1>4, <1>8, <1>9, <1>10, Unmoved DEF Types

\* The process exits.
LEMMA ExitTypes == Types /\ Exit => Types'
<1>1. SUFFICES ASSUME Types, Exit PROVE Types'
  OBVIOUS
<1>2. UNCHANGED <<metadata, countVars, attachment, stream, serving, request, client, writer>>
  BY <1>1 DEF Exit, streamVars, clientSide
<1>3. TerminalTypes'
  BY <1>1 DEF Exit, Types, TerminalTypes
<1>4. "exit" \in Threads /\ capture["exit"] \in CaptureStates
  BY <1>1, ThreadsAre DEF Types, CaptureTypes
<1> DEFINE c == [capture["exit"] EXCEPT !.pc = "flagged"]
<1>5. capture' = [capture EXCEPT !["exit"] = c]
  BY <1>1 DEF Exit
<1>6. Proceeds(c)
  BY <1>4 DEF Proceeds, CaptureStates, Places
<1> HIDE DEF c
<1>7. CaptureTypes'
  BY <1>1, <1>4, <1>5, <1>6, CaptureMoves DEF Types
<1>8. ExitOnce'
  BY <1>1, <1>2 DEF Exit, Types, ExitOnce
<1>9. BudgetTypes'
  BY <1>1, SpendTyped DEF Exit, Types
<1> QED
  BY <1>1, <1>2, <1>3, <1>7, <1>8, <1>9, Unmoved DEF Types

\* The exit is in the metadata.
LEMMA ExitStateTypes == Types /\ ExitState => Types'
<1>1. SUFFICES ASSUME Types, ExitState PROVE Types'
  OBVIOUS
<1>2. UNCHANGED <<countVars, attachment, stream, serving, request, client, writer, left>>
  BY <1>1 DEF ExitState, streamVars, clientSide
<1>3. metadata < Exited /\ exited /\ metadata' = metadata + Exited /\ exited' = exited
  BY <1>1 DEF ExitState, Types, ExitOnce
<1>4. metadata' \in 0 .. 3 /\ TerminalTypes'
  BY <1>1, <1>3 DEF ExitState, Types, TerminalTypes, Exited
<1> DEFINE c == [pc |-> "read", meta |-> metadata', update |-> Nothing, next |-> "published"]
<1>5. capture' = [capture EXCEPT !["exit"] = c] /\ "exit" \in Threads
  BY <1>1, ThreadsAre DEF ExitState
<1>6. Proceeds(c) /\ c.pc = "read"
  BY <1>4, RestingProceeds
<1> HIDE DEF c
<1>7. CaptureTypes'
  BY <1>1, <1>5, <1>6, CaptureMoves DEF Types
<1>8. ExitOnce'
  <2>1. capture'["exit"].pc = "read"
    BY <1>1, <1>5, <1>6 DEF Types, CaptureTypes
  <2> QED
    BY <1>3, <2>1 DEF ExitOnce
<1> QED
  BY <1>1, <1>2, <1>4, <1>7, <1>8, Unmoved DEF Types

\* The screen is captured.
LEMMA CaptureTyped == \A t \in Threads : Types /\ Capture(t) => Types'
<1>1. SUFFICES ASSUME NEW t \in Threads, Types, Capture(t) PROVE Types'
  OBVIOUS
<1>2. UNCHANGED <<metadata, exited, countVars, attachment, stream, serving, request, client,
                  writer, left>>
  BY <1>1 DEF Capture, streamVars, clientSide
<1>3. /\ capture[t] \in CaptureStates /\ capture[t].meta \in 0 .. 3
      /\ screen \in [sequence : Nat, meta : 0 .. 3]
  BY <1>1 DEF Capture, Types, CaptureTypes, TerminalTypes
<1>4. TerminalTypes'
  <2>1. /\ screen' = [sequence |-> screen.sequence + 1, meta |-> capture[t].meta]
        /\ output' = FALSE /\ UNCHANGED <<metadata, requested, stale, exited>>
    BY <1>1 DEF Capture
  <2>2. screen' \in [sequence : Nat, meta : 0 .. 3]
    BY <1>3, <2>1
  <2> QED
    BY <1>1, <2>1, <2>2 DEF Types, TerminalTypes
<1> DEFINE n == screen.sequence + 1
           m == IF capture[t].meta = screen.meta THEN Same ELSE capture[t].meta
           delta == [base |-> screen.sequence, sequence |-> n, rows |-> n, meta |-> m]
<1>5. n \in Nat /\ m \in -1 .. 3 /\ screen.sequence \in Nat
  BY <1>3 DEF Same
<1>6. delta \in Updates /\ delta.base >= 0
  BY <1>5 DEF Updates
<1>7. Viewport(n, capture[t].meta, n) \in Updates /\ Viewport(n, capture[t].meta, n).base >= 0
  BY <1>3, <1>5, UpdatesAre DEF Viewport
<1>8. PICK update \in {delta, Viewport(n, capture[t].meta, n)} :
         capture' = [capture EXCEPT ![t].pc = "captured", ![t].update = update]
  BY <1>1 DEF Capture
<1> HIDE DEF n, m, delta
<1> DEFINE c == [capture[t] EXCEPT !.pc = "captured", !.update = update]
<1>9. Proceeds(c) /\ c.pc # "flagged"
  BY <1>3, <1>6, <1>7, <1>8 DEF Proceeds, CaptureStates, Places
<1>10. capture' = [capture EXCEPT ![t] = c]
  BY <1>8
<1> HIDE DEF c
<1>11. CaptureTypes'
  BY <1>1, <1>9, <1>10, CaptureMoves DEF Types
<1>12. ExitOnce'
  <2>1. capture'["exit"] = capture["exit"] \/ capture'["exit"].pc # "flagged"
    BY <1>1, <1>9, <1>10, ThreadsAre DEF Types, CaptureTypes
  <2> QED
    BY <1>1, <1>2, <2>1, ExitStays DEF Types
<1> QED
  BY <1>1, <1>2, <1>4, <1>11, <1>12, Unmoved DEF Types

\* An event is broadcast.
LEMMA ReceivesFits ==
    ASSUME NEW s, StreamFits(s), NEW event \in Events
    PROVE  StreamFits(Receives(s, event))
<1>1. s.events \in Seq(Events) /\ s.events \in Seq(Updates) /\ Len(s.events) <= Capacity
      /\ event \in Updates
  BY DEF StreamFits, StreamStates, Events
<1> DEFINE longer == Append(s.events, event)
           shifted == Append(Tail(s.events), event)
<1>2. CASE s.pc = "none"
  BY <1>2 DEF Receives
<1>3. CASE s.pc # "none" /\ Len(s.events) < Capacity
  <2>1. longer \in Seq(Events) /\ longer \in Seq(Updates) /\ Len(longer) <= Capacity
    BY <1>1, <1>3, StreamAssumption, AppendProperties, LenProperties
  <2>2. Receives(s, event) = [s EXCEPT !.events = longer]
    BY <1>3 DEF Receives
  <2> HIDE DEF longer
  <2> QED
    BY <2>1, <2>2 DEF StreamFits, StreamStates
<1>4. CASE s.pc # "none" /\ ~(Len(s.events) < Capacity)
  <2>1. s.events # <<>>
    BY <1>1, <1>4, StreamAssumption
  <2>2. Tail(s.events) \in Seq(Events) /\ Tail(s.events) \in Seq(Updates)
        /\ Len(Tail(s.events)) = Len(s.events) - 1
    BY <1>1, <2>1, HeadTailProperties
  <2>3. shifted \in Seq(Events) /\ shifted \in Seq(Updates) /\ Len(shifted) = Len(s.events)
    BY <1>1, <2>2, AppendProperties, LenProperties
  <2>4. Receives(s, event) = [s EXCEPT !.events = shifted, !.lagged = TRUE]
    BY <1>4 DEF Receives
  <2> HIDE DEF shifted
  <2> QED
    BY <1>1, <2>3, <2>4 DEF StreamFits, StreamStates
<1> QED
  BY <1>2, <1>3, <1>4

\* An event is broadcast to the streams.
LEMMA BroadcastTypes ==
    ASSUME StreamTypes, NEW event \in Events, Broadcast(event)
    PROVE  StreamTypes'
<1> DEFINE streams == [l \in Lanes |-> Receives(stream[l], event)]
<1>1. \A l \in Lanes : StreamFits(streams[l])
  BY StreamIs, ReceivesFits
<1>2. stream' = streams /\ streams = [l \in Lanes |-> streams[l]]
  BY DEF Broadcast
<1> HIDE DEF streams
<1> QED
  BY <1>1, <1>2, StreamsMove

\* What was captured is published.
LEMMA PublishTypes == \A t \in Threads : Types /\ Publish(t) => Types'
<1>1. SUFFICES ASSUME NEW t \in Threads, Types, Publish(t) PROVE Types'
  OBVIOUS
<1>2. UNCHANGED <<terminalVars, metadata, exited, countVars, attachment, serving, request, client,
                  writer, left>>
  BY <1>1 DEF Publish, terminalVars, clientSide
<1>3. capture[t] \in CaptureStates /\ capture[t].update \in Updates /\ capture[t].update.base >= 0
  BY <1>1 DEF Publish, Types, CaptureTypes, CaptureStates
<1>4. StreamTypes'
  <2>1. capture[t].update \in Events /\ Broadcast(capture[t].update)
    BY <1>1, <1>3 DEF Publish, Events
  <2> QED
    BY <1>1, <2>1, BroadcastTypes DEF Types
<1> DEFINE c == IF capture[t].next = "published" THEN [capture[t] EXCEPT !.pc = "published"]
                ELSE [Resting EXCEPT !.pc = capture[t].next]
<1>5. capture' = [capture EXCEPT ![t] = c]
  BY <1>1 DEF Publish
<1>6. Proceeds(c) /\ c.pc # "flagged"
  <2>1. capture[t].next \in {"idle", "look", "view", "published"}
    BY <1>3 DEF CaptureStates
  <2>2. CASE capture[t].next = "published"
    BY <1>3, <2>2 DEF Proceeds, CaptureStates, Places
  <2>3. CASE capture[t].next # "published"
    BY <2>1, <2>3, RestingProceeds DEF Resting
  <2> QED
    BY <2>2, <2>3
<1> HIDE DEF c
<1>7. CaptureTypes'
  BY <1>1, <1>5, <1>6, CaptureMoves DEF Types
<1>8. ExitOnce'
  <2>1. capture'["exit"] = capture["exit"] \/ capture'["exit"].pc # "flagged"
    BY <1>1, <1>5, <1>6, ThreadsAre DEF Types, CaptureTypes
  <2> QED
    BY <1>1, <1>2, <2>1, ExitStays DEF Types
<1> QED
  BY <1>1, <1>2, <1>4, <1>7, <1>8, Unmoved DEF Types

\* The exit is told to the streams.
LEMMA TellExitTypes == Types /\ TellExit => Types'
<1>1. SUFFICES ASSUME Types, TellExit PROVE Types'
  OBVIOUS
<1>2. UNCHANGED <<terminalVars, metadata, exited, countVars, attachment, serving, request, client,
                  writer, left>>
  BY <1>1 DEF TellExit, terminalVars, clientSide
<1>3. "exit" \in Threads /\ capture["exit"] \in CaptureStates
  BY <1>1, ThreadsAre DEF Types, CaptureTypes
<1>4. StreamTypes'
  <2> DEFINE event == ExitEvent(capture["exit"].update.sequence)
  <2>1. capture["exit"].update.sequence \in Nat
    BY <1>3, UpdateParts DEF CaptureStates
  <2>2. event \in Events
    BY <2>1, UpdatesAre DEF Events, IsExit, ExitEvent, Mark
  <2>3. Broadcast(event)
    BY <1>1 DEF TellExit
  <2> HIDE DEF event
  <2> QED
    BY <1>1, <2>2, <2>3, BroadcastTypes DEF Types
<1>5. capture' = [capture EXCEPT !["exit"] = Resting] /\ Proceeds(Resting) /\ Resting.pc = "idle"
  BY <1>1, RestingProceeds DEF TellExit, Resting
<1>6. CaptureTypes'
  BY <1>1, <1>3, <1>5, CaptureMoves DEF Types
<1>7. ExitOnce'
  <2>1. capture'["exit"].pc # "flagged"
    BY <1>1, <1>3, <1>5 DEF Types, CaptureTypes
  <2> QED
    BY <1>1, <1>2, <2>1, ExitStays DEF Types
<1> QED
  BY <1>1, <1>2, <1>4, <1>6, <1>7, Unmoved DEF Types

\* A viewport is asked for.
LEMMA LookTypes ==
    \A t \in Threads \ {"exit"}, scrolled \in BOOLEAN :
        Types /\ (LookAtStale(t) \/ ReadContext(t, scrolled)) => Types'
<1>1. SUFFICES ASSUME NEW t \in Threads \ {"exit"}, NEW scrolled \in BOOLEAN, Types,
                      LookAtStale(t) \/ ReadContext(t, scrolled)
               PROVE  Types'
  OBVIOUS
<1>2. UNCHANGED <<metadata, exited, countVars, attachment, stream, serving, request, client,
                  writer, left>>
  BY <1>1 DEF LookAtStale, ReadContext, terminalVars, streamVars, clientSide
<1>3. TerminalTypes' /\ metadata \in 0 .. 3
  BY <1>1 DEF LookAtStale, ReadContext, terminalVars, Types, TerminalTypes
<1>4. PICK c : Proceeds(c) /\ capture' = [capture EXCEPT ![t] = c]
  <2>1. CASE LookAtStale(t)
    <3> DEFINE reading == [Resting EXCEPT !.pc = "read", !.meta = metadata, !.next = "view"]
               viewing == [Resting EXCEPT !.pc = "view"]
    <3>1. capture' = [capture EXCEPT ![t] = reading] \/ capture' = [capture EXCEPT ![t] = viewing]
      BY <2>1 DEF LookAtStale
    <3>2. Proceeds(reading) /\ Proceeds(viewing)
      BY <1>3, RestingProceeds
    <3> HIDE DEF reading, viewing
    <3> QED
      BY <3>1, <3>2
  <2>2. CASE ReadContext(t, scrolled)
    <3> DEFINE c == [capture[t] EXCEPT !.pc = "context", !.meta = metadata]
    <3>1. capture' = [capture EXCEPT ![t] = c]
      BY <2>2 DEF ReadContext
    <3>2. capture[t] \in CaptureStates
      BY <1>1 DEF Types, CaptureTypes
    <3>3. metadata \in -1 .. 3
      BY <1>3
    <3>4. Proceeds(c)
      BY <1>3, <3>2, <3>3 DEF Proceeds, CaptureStates, Places
    <3> QED
      BY <3>1, <3>4
  <2> QED
    BY <1>1, <2>1, <2>2
<1>5. CaptureTypes'
  BY <1>1, <1>4, CaptureMoves DEF Types
<1>6. ExitOnce'
  <2>1. capture'["exit"] = capture["exit"]
    BY <1>1, <1>4, ThreadsAre DEF Types, CaptureTypes
  <2> QED
    BY <1>1, <1>2, <2>1, ExitStays DEF Types
<1> QED
  BY <1>1, <1>2, <1>3, <1>5, <1>6, Unmoved DEF Types
-----------------------------------------------------------------------------
(* Views, attachments and requests keep the types.                         *)

\* The attachment changes, and wakes the streams.
LEMMA AttachmentMoves ==
    ASSUME StreamTypes, NEW a \in [attached : BOOLEAN, visible : BOOLEAN, scrolled : BOOLEAN],
           Attachment(a), AttachmentTypes
    PROVE  AttachmentTypes' /\ StreamTypes'
<1>1. AttachmentTypes'
  BY DEF Attachment, AttachmentTypes
<1> DEFINE streams == [l \in Lanes |->
                    IF stream[l].pc = "none" THEN stream[l]
                    ELSE [stream[l] EXCEPT !.changed = TRUE,
                                           !.revised = @ \/ a.scrolled # attachment.scrolled,
                                           !.detached = @ \/ ~a.attached]]
<1>2. ASSUME NEW l \in Lanes PROVE StreamFits(streams[l])
  <2> DEFINE s == stream[l]
             revised == s.revised \/ a.scrolled # attachment.scrolled
             detached == s.detached \/ ~a.attached
             new == [s EXCEPT !.changed = TRUE, !.revised = revised, !.detached = detached]
  <2>1. streams[l] = s \/ streams[l] = new
    OBVIOUS
  <2>2. StreamFits(s)
    BY StreamIs
  <2>3. revised \in BOOLEAN /\ detached \in BOOLEAN
    OBVIOUS
  <2> HIDE DEF streams, s, revised, detached
  <2>4. StreamFits(new)
    BY <2>2, <2>3 DEF StreamFits, StreamStates
  <2> QED
    BY <2>1, <2>2, <2>4
<1>3. stream' = streams /\ streams = [l \in Lanes |-> streams[l]]
  BY DEF Attachment
<1> HIDE DEF streams
<1>4. StreamTypes'
  BY <1>2, <1>3, StreamsMove
<1> QED
  BY <1>1, <1>4

\* The viewers are counted.
LEMMA CountMoves ==
    ASSUME NEW who \in {"viewer", "other"}, Count(who), CountTypes
    PROVE  recount' \in [{"viewer", "other"} -> {Same, 0, 1}]
BY DEF Count, CountTypes

\* Views are shown, hidden and scrolled.
LEMMA ViewsTypes == Types /\ (SetVisible \/ OtherWatches \/ ScrollView) => Types'
<1>1. SUFFICES ASSUME Types, SetVisible \/ OtherWatches \/ ScrollView PROVE Types'
  OBVIOUS
<1>2. UNCHANGED <<terminalVars, metadata, exited, capture, serving, request, client, writer>>
  BY <1>1 DEF SetVisible, OtherWatches, ScrollView, terminalVars, hostSide, streamVars
<1>3. BudgetTypes'
  BY <1>1, SpendTyped DEF SetVisible, OtherWatches, ScrollView, Types
<1>4. AttachmentTypes' /\ StreamTypes'
  <2>1. CASE SetVisible
    <3> DEFINE a == [attachment EXCEPT !.visible = ~@]
    <3>1. a \in [attached : BOOLEAN, visible : BOOLEAN, scrolled : BOOLEAN]
      BY <1>1 DEF Types, AttachmentTypes
    <3>2. Attachment(a)
      BY <2>1 DEF SetVisible
    <3> HIDE DEF a
    <3> QED
      BY <1>1, <3>1, <3>2, AttachmentMoves DEF Types
  <2>2. CASE ScrollView
    <3> DEFINE a == [attachment EXCEPT !.scrolled = ~@]
    <3>1. a \in [attached : BOOLEAN, visible : BOOLEAN, scrolled : BOOLEAN]
      BY <1>1 DEF Types, AttachmentTypes
    <3>2. Attachment(a)
      BY <2>2 DEF ScrollView
    <3> HIDE DEF a
    <3> QED
      BY <1>1, <3>1, <3>2, AttachmentMoves DEF Types
  <2>3. CASE OtherWatches
    BY <1>1, <2>3, Unmoved DEF OtherWatches, streamVars, Types
  <2> QED
    BY <1>1, <2>1, <2>2, <2>3
<1>5. CountTypes'
  BY <1>1, CountMoves DEF SetVisible, OtherWatches, ScrollView, Types, CountTypes, countVars
<1> QED
  BY <1>1, <1>2, <1>3, <1>4, <1>5, Unmoved DEF Types

\* The count is stored.
LEMMA StoreCountTypes ==
    \A who \in {"viewer", "other"} : Types /\ StoreCount(who) => Types'
<1>1. SUFFICES ASSUME NEW who \in {"viewer", "other"}, Types, StoreCount(who) PROVE Types'
  OBVIOUS
<1>2. UNCHANGED <<metadata, exited, capture, attachment, stream, serving, request, client,
                  writer, left>>
  BY <1>1 DEF StoreCount, streamVars
<1>3. TerminalTypes'
  BY <1>1 DEF StoreCount, Types, TerminalTypes
<1>4. CountTypes'
  BY <1>1 DEF StoreCount, Types, CountTypes
<1> QED
  BY <1>1, <1>2, <1>3, <1>4, Unmoved DEF Types

\* A viewport is an update.
LEMMA ViewportTyped ==
    ASSUME TerminalTypes, CaptureTypes, NEW t \in Threads, NEW scrolled \in BOOLEAN,
           CanView(t, scrolled)
    PROVE  CurrentViewport(t, scrolled) \in Updates
<1>1. screen.sequence \in Nat /\ screen.meta \in -1 .. 3 /\ capture[t].meta \in -1 .. 3
  BY DEF TerminalTypes, CaptureTypes, CaptureStates
<1>2. /\ Viewport(screen.sequence, capture[t].meta, Scrolled) \in Updates
      /\ Viewport(screen.sequence, screen.meta, screen.sequence) \in Updates
  BY <1>1, UpdatesAre DEF Scrolled
<1> QED
  BY <1>2 DEF CurrentViewport

\* A request registers its attachment.
LEMMA RegisterMoves ==
    ASSUME Types, NEW kind \in Kinds, NEW viewport \in Updates, Register(kind, viewport)
    PROVE  AttachmentTypes' /\ StreamTypes' /\ RequestTypes' /\ watched' = watched
           /\ recount' \in [{"viewer", "other"} -> {Same, 0, 1}]
<1> DEFINE a == [attachment EXCEPT !.attached = TRUE]
<1>1. a \in [attached : BOOLEAN, visible : BOOLEAN, scrolled : BOOLEAN] /\ Attachment(a)
  BY DEF Types, AttachmentTypes, Register
<1> HIDE DEF a
<1>2. AttachmentTypes' /\ StreamTypes'
  BY <1>1, AttachmentMoves DEF Types
<1>3. RequestTypes' /\ watched' = watched
  BY DEF Register, RequestTypes
<1>4. recount' \in [{"viewer", "other"} -> {Same, 0, 1}]
  BY CountMoves DEF Register, Types
<1> QED
  BY <1>2, <1>3, <1>4

\* Requests without a viewport
LEMMA NoRequestTyped ==
    \A pc \in {"none", "viewing", "registered"}, kind \in Kinds :
       /\ [NoRequest EXCEPT !.pc = pc, !.kind = kind]
             \in [pc : {"none", "viewing", "registered"}, kind : Kinds, viewport : Updates]
       /\ NoRequest \in [pc : {"none", "viewing", "registered"}, kind : Kinds, viewport : Updates]
BY UpdatesAre DEF NoRequest, Kinds

\* A terminal was spawned.
LEMMA SpawnedTypes == Types /\ Spawned => Types'
<1>1. SUFFICES ASSUME Types, Spawned PROVE Types'
  OBVIOUS
<1>2. UNCHANGED <<terminalVars, metadata, exited, capture, subscribers, serving, client, writer>>
  BY <1>1 DEF Spawned, hostSide, terminalVars
<1>3. BudgetTypes'
  BY <1>1, SpendTyped DEF Spawned, Types
<1>4. /\ AttachmentTypes' /\ StreamTypes' /\ RequestTypes' /\ watched' = watched
      /\ recount' \in [{"viewer", "other"} -> {Same, 0, 1}]
  <2>1. Register("spawn", Nothing) /\ "spawn" \in Kinds /\ Nothing \in Updates
    BY <1>1, UpdatesAre DEF Spawned, Kinds
  <2> QED
    BY <1>1, <2>1, RegisterMoves
<1>5. CountTypes'
  BY <1>1, <1>2, <1>4 DEF Types, CountTypes
<1> QED
  BY <1>1, <1>2, <1>3, <1>4, <1>5, Unmoved DEF Types

\* A request to attach begins.
LEMMA AttachTypes == Types /\ Attach => Types'
<1>1. SUFFICES ASSUME Types, Attach PROVE Types'
  OBVIOUS
<1>2. UNCHANGED <<terminalVars, metadata, exited, countVars, attachment, stream, serving, client,
                  writer>>
  BY <1>1 DEF Attach, terminalVars, streamVars
<1>3. BudgetTypes'
  BY <1>1, SpendTyped DEF Attach, Types
<1>4. RequestTypes'
  BY <1>1, NoRequestTyped DEF Attach, RequestTypes, Kinds
<1>5. metadata \in 0 .. 3 /\ "request" \in Threads
  BY <1>1, ThreadsAre DEF Types, TerminalTypes
<1>6. PICK first \in {"read", "look"} :
         capture' = [capture EXCEPT !["request"] =
                        [Resting EXCEPT !.pc = first, !.meta = metadata, !.next = "look"]]
  BY <1>1 DEF Attach
<1> DEFINE c == [Resting EXCEPT !.pc = first, !.meta = metadata, !.next = "look"]
<1>7. Proceeds(c)
  <2>1. Resting \in CaptureStates /\ metadata \in -1 .. 3
    BY <1>5, RestingProceeds DEF Proceeds
  <2> QED
    BY <1>5, <1>6, <2>1 DEF Proceeds, CaptureStates, Places
<1> HIDE DEF c
<1>8. CaptureTypes'
  BY <1>1, <1>5, <1>6, <1>7, CaptureMoves DEF Types, c
<1>9. ExitOnce'
  <2>1. capture'["exit"] = capture["exit"]
    BY <1>1, <1>6, ThreadsAre DEF Types, CaptureTypes
  <2> QED
    BY <1>1, <1>2, <2>1, ExitStays DEF Types
<1> QED
  BY <1>1, <1>2, <1>3, <1>4, <1>8, <1>9, Unmoved DEF Types

\* It has its viewport.
LEMMA AttachedTypes == Types /\ Attached => Types'
<1>1. SUFFICES ASSUME Types, Attached PROVE Types'
  OBVIOUS
<1>2. UNCHANGED <<terminalVars, metadata, exited, subscribers, serving, client, writer, left>>
  BY <1>1 DEF Attached, terminalVars
<1>3. "request" \in Threads /\ attachment.scrolled \in BOOLEAN
  BY <1>1, ThreadsAre DEF Types, AttachmentTypes
<1> DEFINE viewport == CurrentViewport("request", attachment.scrolled)
<1>4. viewport \in Updates
  BY <1>1, <1>3, ViewportTyped DEF Attached, Types
<1>5. Register("attach", viewport) /\ "attach" \in Kinds
  BY <1>1 DEF Attached, Kinds
<1> HIDE DEF viewport
<1>6. /\ AttachmentTypes' /\ StreamTypes' /\ RequestTypes' /\ watched' = watched
      /\ recount' \in [{"viewer", "other"} -> {Same, 0, 1}]
  BY <1>1, <1>4, <1>5, RegisterMoves
<1>7. CountTypes'
  BY <1>1, <1>2, <1>6 DEF Types, CountTypes
<1>8. capture' = [capture EXCEPT !["request"] = Resting]
  BY <1>1 DEF Attached
<1>9. CaptureTypes'
  BY <1>1, <1>3, <1>8, CaptureMoves, RestingProceeds DEF Types
<1>10. ExitOnce'
  <2>1. capture'["exit"] = capture["exit"]
    BY <1>1, <1>8, ThreadsAre DEF Types, CaptureTypes
  <2> QED
    BY <1>1, <1>2, <2>1, ExitStays DEF Types
<1> QED
  BY <1>1, <1>2, <1>6, <1>7, <1>9, <1>10, Unmoved DEF Types

\* A request detaches the terminal.
LEMMA DetachTypes == Types /\ Detach => Types'
<1>1. SUFFICES ASSUME Types, Detach PROVE Types'
  OBVIOUS
<1>2. UNCHANGED <<terminalVars, metadata, exited, capture, subscribers, watched, serving, client,
                  writer>>
  BY <1>1 DEF Detach, hostSide, terminalVars
<1>3. BudgetTypes'
  BY <1>1, SpendTyped DEF Detach, Types
<1> DEFINE a == [attachment EXCEPT !.attached = FALSE, !.scrolled = FALSE]
<1>4. a \in [attached : BOOLEAN, visible : BOOLEAN, scrolled : BOOLEAN] /\ Attachment(a)
  BY <1>1 DEF Types, AttachmentTypes, Detach
<1> HIDE DEF a
<1>5. AttachmentTypes' /\ StreamTypes'
  BY <1>1, <1>4, AttachmentMoves DEF Types
<1>6. RequestTypes'
  BY <1>1, NoRequestTyped DEF Detach, RequestTypes, Kinds
<1>7. CountTypes'
  BY <1>1, <1>2, CountMoves DEF Detach, Types, CountTypes
<1> QED
  BY <1>1, <1>2, <1>3, <1>5, <1>6, <1>7, Unmoved DEF Types
-----------------------------------------------------------------------------
(* The streams and their connection keep the types.                        *)

\* Messages are items.
LEMMA ItemTyped ==
    /\ \A msg \in Messages, chunks \in Nat \ {0} : Item(msg, chunks) \in Items(Messages)
    /\ \A item \in Items(Messages), l \in Lanes :
          [item EXCEPT !.after_lane = l] \in Items(Messages)
<1>1. ASSUME NEW msg \in Messages, NEW chunks \in Nat \ {0}
      PROVE  Item(msg, chunks) \in Items(Messages)
  <2> DEFINE no == FALSE
  <2>1. no \in BOOLEAN /\ chunks \in Nat
    OBVIOUS
  <2>2. Item(msg, chunks) = [kind |-> "item", msg |-> msg, left |-> chunks, bytes |-> chunks,
                             after_lane |-> NoLane, latest |-> no]
    BY DEF Item
  <2> HIDE DEF no
  <2> QED
    BY <2>1, <2>2 DEF Items
<1>2. ASSUME NEW item \in Items(Messages), NEW l \in Lanes
      PROVE  [item EXCEPT !.after_lane = l] \in Items(Messages)
  BY DEF Items
<1> QED
  BY <1>1, <1>2

\* Frames are items.
LEMMA FrameTyped == \A update \in Updates : Frame(update) \in Items(Messages)
<1>1. SUFFICES ASSUME NEW update \in Updates PROVE Frame(update) \in Items(Messages)
  OBVIOUS
<1> DEFINE chunks == IF IsSnapshot(update) THEN 2 ELSE 1
           msg == [kind |-> "frame", of |-> "none", update |-> update]
<1>2. chunks \in Nat \ {0} /\ msg \in Messages
  BY DEF Messages, Kinds
<1>3. Frame(update) = Item(msg, chunks)
  BY DEF Frame
<1> HIDE DEF chunks, msg
<1> QED
  BY <1>2, <1>3, ItemTyped

ExitMessage(n) == Item([kind |-> "exit", of |-> "none", update |-> ExitEvent(n)], 1)

\* The event that tells the exit is an item.
LEMMA ExitTyped == \A n \in Nat : ExitMessage(n) \in Items(Messages)
<1>1. SUFFICES ASSUME NEW n \in Nat PROVE ExitMessage(n) \in Items(Messages)
  OBVIOUS
<1> DEFINE msg == [kind |-> "exit", of |-> "none", update |-> ExitEvent(n)]
<1>2. msg \in Messages /\ 1 \in Nat \ {0} /\ ExitMessage(n) = Item(msg, 1)
  BY UpdatesAre DEF Messages, Kinds, ExitMessage
<1> HIDE DEF msg
<1> QED
  BY <1>2, ItemTyped

OtherMessage == [kind |-> "other", of |-> "none", update |-> Nothing]

\* Other messages are items.
LEMMA OtherTyped == Item(OtherMessage, 1) \in Items(Messages) /\ Item(OtherMessage, 2) \in Items(Messages)
<1>1. OtherMessage \in Messages /\ 1 \in Nat \ {0} /\ 2 \in Nat \ {0}
  BY UpdatesAre DEF OtherMessage, Messages, Kinds
<1> QED
  BY <1>1, ItemTyped

\* The response to a request is an item.
LEMMA ResponseTyped ==
    ASSUME RequestTypes
    PROVE  Response(request) \in Messages /\ Item(Response(request), 1) \in Items(Messages)
<1>1. Response(request) \in Messages /\ 1 \in Nat \ {0}
  BY DEF RequestTypes, Response, Messages
<1> QED
  BY <1>1, ItemTyped

\* A stream ends.
LEMMA EndStreamTypes ==
    ASSUME Types, NEW l \in Lanes, EndStream(l), UNCHANGED <<metadata, exited>>
    PROVE  StreamTypes' /\ CaptureTypes' /\ ExitOnce' /\ WriterTypes'
<1>1. StreamTypes'
  BY NoStreamFits, StreamMoves DEF EndStream, Types
<1>2. l \in Threads /\ l # "exit"
  BY ThreadsAre
<1>3. CaptureTypes'
  BY <1>2, CaptureMoves, RestingProceeds DEF EndStream, Types
<1>4. capture'["exit"] = capture["exit"]
  BY <1>2, ThreadsAre DEF EndStream, Types, CaptureTypes
<1>5. ExitOnce'
  BY <1>4, ExitStays DEF Types
<1>6. WriterTypes'
  BY DropLaneGood DEF EndStream, Types, WriterTypes
<1> QED
  BY <1>1, <1>3, <1>5, <1>6

\* The thread of a stream moves, not that of the exit.
LEMMA StreamThreadMoves ==
    ASSUME Types, NEW l \in Lanes, NEW c, Proceeds(c), capture' = [capture EXCEPT ![l] = c],
           UNCHANGED <<metadata, exited>>
    PROVE  CaptureTypes' /\ ExitOnce'
<1>1. l \in Threads /\ l # "exit"
  BY ThreadsAre
<1>2. CaptureTypes'
  BY <1>1, CaptureMoves DEF Types
<1>3. capture'["exit"] = capture["exit"]
  BY <1>1, ThreadsAre DEF Types, CaptureTypes
<1>4. ExitOnce'
  BY <1>3, ExitStays DEF Types
<1> QED
  BY <1>2, <1>4

\* ... to look for its viewport.
LEMMA StreamLooks ==
    ASSUME Types, NEW l \in Lanes, capture' = [capture EXCEPT ![l].pc = "look"],
           UNCHANGED <<metadata, exited>>
    PROVE  CaptureTypes' /\ ExitOnce'
<1> DEFINE c == [capture[l] EXCEPT !.pc = "look"]
<1>1. capture[l] \in CaptureStates
  BY ThreadsAre DEF Types, CaptureTypes
<1>2. Proceeds(c) /\ capture' = [capture EXCEPT ![l] = c]
  BY <1>1 DEF Proceeds, CaptureStates, Places
<1> HIDE DEF c
<1> QED
  BY <1>2, StreamThreadMoves

\* A stream opens.
LEMMA OpenStreamTypes == \A l \in Lanes : Types /\ OpenStream(l) => Types'
<1>1. SUFFICES ASSUME NEW l \in Lanes, Types, OpenStream(l) PROVE Types'
  OBVIOUS
<1>2. UNCHANGED <<terminalVars, metadata, exited, countVars, attachment, serving, request, client,
                  left>>
  BY <1>1 DEF OpenStream, streamRest, terminalVars, countVars
<1>3. StreamTypes' /\ CaptureTypes' /\ ExitOnce' /\ WriterTypes'
  <2>1. CASE stream[l].detached
    BY <1>1, <1>2, <2>1, EndStreamTypes DEF OpenStream
  <2>2. CASE ~stream[l].detached
    <3> DEFINE s == [stream[l] EXCEPT !.pc = "opening", !.revised = FALSE,
                                      !.visible = attachment.visible,
                                      !.scrolled = attachment.scrolled]
    <3>1. /\ attachment.visible \in BOOLEAN /\ attachment.scrolled \in BOOLEAN
          /\ StreamFits(stream[l])
      BY <1>1, StreamIs DEF Types, AttachmentTypes
    <3>2. StreamFits(s)
      BY <3>1 DEF StreamFits, StreamStates, Snapshots
    <3>3. Becomes(l, s) /\ capture' = [capture EXCEPT ![l].pc = "look"] /\ writer' = writer
      BY <1>1, <2>2 DEF OpenStream
    <3> HIDE DEF s
    <3>4. StreamTypes'
      BY <1>1, <3>2, <3>3, StreamMoves DEF Types
    <3> QED
      BY <1>1, <1>2, <3>3, <3>4, StreamLooks, Unmoved DEF Types
  <2> QED
    BY <2>1, <2>2
<1> QED
  BY <1>1, <1>2, <1>3, Unmoved DEF Types

\* Baselines are of their type, and stay so.
LEMMA BaselineTyped ==
    /\ \A u \in Updates : Baseline(u) \in Baselines
    /\ \A b \in Baselines, u \in Updates : Advance(b, u) \in Baselines
<1>1. \A u \in Updates : Baseline(u) \in Baselines
  BY DEF Baseline, Baselines, Updates
<1>2. ASSUME NEW b \in Baselines, NEW u \in Updates PROVE Advance(b, u) \in Baselines
  <2> DEFINE m == IF u.meta = Same THEN b.meta ELSE u.meta
  <2>1. m \in -1 .. 3 /\ u.sequence \in Nat
    BY UpdateParts DEF Baselines
  <2>2. Advance(b, u) = IF IsSnapshot(u) THEN Baseline(u)
                        ELSE [b EXCEPT !.sequence = u.sequence, !.meta = m]
    BY DEF Advance
  <2> HIDE DEF m
  <2> QED
    BY <1>1, <2>1, <2>2 DEF Baselines
<1> QED
  BY <1>1, <1>2

\* What a stream's parts are
LEMMA StreamParts ==
    ASSUME NEW s, StreamFits(s)
    PROVE  /\ s.baseline \in Baselines /\ s.pending \in Updates
           /\ s.visible \in BOOLEAN /\ s.scrolled \in BOOLEAN /\ s.dirty \in BOOLEAN
           /\ s.newest \in Nat /\ s.lagged \in BOOLEAN /\ s.aborted \in BOOLEAN
           /\ s.detached \in BOOLEAN /\ s.changed \in BOOLEAN /\ s.revised \in BOOLEAN
BY DEF StreamFits, StreamStates, Baselines

\* A snapshot is sent.
LEMMA SendSnapshotTypes == \A l \in Lanes : Types /\ SendSnapshot(l) => Types'
<1>1. SUFFICES ASSUME NEW l \in Lanes, Types, SendSnapshot(l) PROVE Types'
  OBVIOUS
<1>2. UNCHANGED <<terminalVars, metadata, exited, countVars, attachment, serving, request, client,
                  left>>
  BY <1>1 DEF SendSnapshot, streamRest, terminalVars, countVars
<1> DEFINE s == stream[l]
           viewport == CurrentViewport(l, s.scrolled)
           sent == Enqueue(writer, l, Frame(viewport))
           exit == [ExitMessage(s.pending.sequence) EXCEPT !.after_lane = l]
           b == Baseline(viewport)
<1>3. StreamFits(s) /\ s.scrolled \in BOOLEAN /\ s.pending.sequence \in Nat
  BY <1>1, StreamIs, StreamParts, UpdateParts DEF Types
<1>4. viewport \in Updates /\ b \in Baselines
  <2>1. CanView(l, s.scrolled) /\ l \in Threads
    BY <1>1, ThreadsAre DEF SendSnapshot
  <2>2. viewport \in Updates
    BY <1>1, <1>3, <2>1, ViewportTyped DEF Types
  <2> QED
    BY <2>2, BaselineTyped
<1>5. Good(sent, Messages)
  BY <1>1, <1>4, FrameTyped, EnqueueGood DEF Types, WriterTypes
<1>6. Good(PushReliable(sent, exit), Messages)
  <2>1. exit \in Items(Messages)
    BY <1>3, ExitTyped, ItemTyped
  <2> QED
    BY <1>5, <2>1, PushReliableGood DEF Sends
<1>7. \/ EndStream(l)
      \/ /\ capture' = [capture EXCEPT ![l] = Resting]
         /\ \/ /\ Becomes(l, [s EXCEPT !.pc = "opened", !.baseline = b])
               /\ writer' = sent
            \/ /\ Becomes(l, [s EXCEPT !.pc = "streaming", !.baseline = b, !.dirty = FALSE])
               /\ writer' = sent
            \/ /\ Becomes(l, [s EXCEPT !.pc = "leaving", !.pending = Nothing])
               /\ writer' = PushReliable(sent, exit)
  BY <1>1 DEF SendSnapshot, ExitMessage
<1>8. /\ StreamFits([s EXCEPT !.pc = "opened", !.baseline = b])
      /\ StreamFits([s EXCEPT !.pc = "streaming", !.baseline = b, !.dirty = FALSE])
      /\ StreamFits([s EXCEPT !.pc = "leaving", !.pending = Nothing])
  <2> HIDE DEF s, b
  <2>1. StreamFits([s EXCEPT !.pc = "opened", !.baseline = b])
    BY <1>3, <1>4 DEF StreamFits, StreamStates, Baselines
  <2>2. StreamFits([s EXCEPT !.pc = "streaming", !.baseline = b, !.dirty = FALSE])
    BY <1>3, <1>4 DEF StreamFits, StreamStates, Baselines
  <2>3. StreamFits([s EXCEPT !.pc = "leaving", !.pending = Nothing])
    BY <1>3, UpdatesAre DEF StreamFits, StreamStates
  <2> QED
    BY <2>1, <2>2, <2>3
<1> HIDE DEF s, viewport, sent, exit, b
<1>9. StreamTypes' /\ CaptureTypes' /\ ExitOnce' /\ WriterTypes'
  <2>1. CASE EndStream(l)
    BY <1>1, <1>2, <2>1, EndStreamTypes
  <2>2. CASE ~EndStream(l)
    <3>1. StreamTypes'
      BY <1>1, <1>7, <1>8, <2>2, StreamMoves DEF Types
    <3>2. CaptureTypes' /\ ExitOnce'
      BY <1>1, <1>2, <1>7, <2>2, RestingProceeds, StreamThreadMoves
    <3>3. WriterTypes'
      BY <1>5, <1>6, <1>7, <2>2 DEF WriterTypes
    <3> QED
      BY <3>1, <3>2, <3>3
  <2> QED
    BY <2>1, <2>2
<1> QED
  BY <1>1, <1>2, <1>9, Unmoved DEF Types

\* A stream that opened looks whether the process has exited.
LEMMA CheckExitedTypes == \A l \in Lanes : Types /\ CheckExited(l) => Types'
<1>1. SUFFICES ASSUME NEW l \in Lanes, Types, CheckExited(l) PROVE Types'
  OBVIOUS
<1>2. UNCHANGED <<terminalVars, metadata, exited, capture, countVars, attachment, serving, request,
                  client, left, writer>>
  BY <1>1 DEF CheckExited, streamRest, terminalVars, countVars
<1> DEFINE pc == IF exited THEN "leaving" ELSE "streaming"
           s == [stream[l] EXCEPT !.pc = pc]
<1>3. StreamFits(stream[l]) /\ pc \in {"leaving", "streaming"}
  BY <1>1, StreamIs DEF Types
<1>4. Becomes(l, s)
  BY <1>1 DEF CheckExited
<1> HIDE DEF pc
<1>5. StreamFits(s)
  BY <1>3 DEF StreamFits, StreamStates
<1> HIDE DEF s
<1>6. StreamTypes'
  BY <1>1, <1>4, <1>5, StreamMoves DEF Types
<1> QED
  BY <1>1, <1>2, <1>6, Unmoved DEF Types

\* A stream receives what is broadcast.
LEMMA ReceiveEventTypes == \A l \in Lanes : Types /\ ReceiveEvent(l) => Types'
<1>1. SUFFICES ASSUME NEW l \in Lanes, Types, ReceiveEvent(l) PROVE Types'
  OBVIOUS
<1>2. UNCHANGED <<terminalVars, metadata, exited, capture, countVars, attachment, serving, request,
                  client, left, writer>>
  BY <1>1 DEF ReceiveEvent, streamRest, terminalVars, countVars
<1> DEFINE s == stream[l]
           event == Head(s.events)
           newest == IF event.sequence > s.newest THEN event.sequence ELSE s.newest
           tail == Tail(s.events)
           rest == [s EXCEPT !.events = tail, !.newest = newest]
<1>3. StreamFits(s)
  BY <1>1, StreamIs DEF Types
<1>4. \/ /\ s.lagged
         /\ \/ Becomes(l, [s EXCEPT !.lagged = FALSE, !.pending = SnapshotRequired])
            \/ Becomes(l, [s EXCEPT !.lagged = FALSE, !.dirty = TRUE])
      \/ /\ s.events # <<>> /\ ~IsExit(event) /\ Becomes(l, AfterUpdate(rest, event))
      \/ /\ s.events # <<>> /\ IsExit(event)
         /\ Becomes(l, [rest EXCEPT !.pc = "draining", !.pending = event])
  BY <1>1 DEF ReceiveEvent
<1> HIDE DEF s
<1>5. CASE s.lagged /\ \/ Becomes(l, [s EXCEPT !.lagged = FALSE, !.pending = SnapshotRequired])
                       \/ Becomes(l, [s EXCEPT !.lagged = FALSE, !.dirty = TRUE])
  <2>1. /\ StreamFits([s EXCEPT !.lagged = FALSE, !.pending = SnapshotRequired])
        /\ StreamFits([s EXCEPT !.lagged = FALSE, !.dirty = TRUE])
    BY <1>3, UpdatesAre DEF StreamFits, StreamStates
  <2> QED
    BY <1>1, <1>2, <1>5, <2>1, StreamMoves, Unmoved DEF Types
<1>6. CASE /\ s.events # <<>>
           /\ \/ ~IsExit(event) /\ Becomes(l, AfterUpdate(rest, event))
              \/ Becomes(l, [rest EXCEPT !.pc = "draining", !.pending = event])
  <2>1. /\ s.events \in Seq(Events) /\ s.events \in Seq(Updates) /\ Len(s.events) <= Capacity
        /\ s.newest \in Nat
    BY <1>3 DEF StreamFits, StreamStates
  <2>2. /\ event \in Events /\ tail \in Seq(Events) /\ tail \in Seq(Updates)
        /\ Len(tail) = Len(s.events) - 1
    BY <1>6, <2>1, HeadTailProperties
  <2>3. Len(tail) <= Capacity
    BY <2>1, <2>2, StreamAssumption, LenProperties
  <2>4. event \in Updates /\ (event.base >= 0 \/ IsExit(event)) /\ newest \in Nat
    BY <2>1, <2>2, UpdateParts DEF Events
  <2> HIDE DEF event, tail, newest
  <2>5. StreamFits(rest)
    BY <1>3, <2>2, <2>3, <2>4 DEF StreamFits, StreamStates
  <2> HIDE DEF rest
  <2>6. StreamFits([rest EXCEPT !.pc = "draining", !.pending = event])
    BY <2>4, <2>5 DEF StreamFits, StreamStates
  <2>7. ASSUME ~IsExit(event) PROVE StreamFits(AfterUpdate(rest, event))
    <3> DEFINE pushed == Push(rest.pending, rest.baseline, event)
               differs == rest.dirty \/ MetadataDiffers(rest.baseline, event)
    <3>1. pushed \in Updates /\ differs \in BOOLEAN
      BY <2>4, <2>5, <2>7, StreamParts, PushTyped DEF MetadataDiffers
    <3>2. AfterUpdate(rest, event) = [rest EXCEPT !.pending = pushed]
          \/ AfterUpdate(rest, event) = [rest EXCEPT !.dirty = differs]
      BY DEF AfterUpdate
    <3> HIDE DEF pushed, differs
    <3> QED
      BY <2>5, <3>1, <3>2 DEF StreamFits, StreamStates
  <2>8. PICK t : StreamFits(t) /\ Becomes(l, t)
    BY <1>6, <2>6, <2>7
  <2>9. StreamTypes'
    BY <1>1, <2>8, StreamMoves DEF Types
  <2> QED
    BY <1>1, <1>2, <2>9, Unmoved DEF Types
<1> QED
  BY <1>4, <1>5, <1>6

\* A stream sees its attachment changed.
LEMMA ReceiveViewTypes == \A l \in Lanes : Types /\ ReceiveView(l) => Types'
<1>1. SUFFICES ASSUME NEW l \in Lanes, Types, ReceiveView(l) PROVE Types'
  OBVIOUS
<1>2. UNCHANGED <<terminalVars, metadata, exited, countVars, attachment, serving, request,
                  client, left>>
  BY <1>1 DEF ReceiveView, streamRest, terminalVars, countVars
<1>3. CASE EndStream(l)
  BY <1>1, <1>2, <1>3, EndStreamTypes, Unmoved DEF Types
<1>4. CASE Becomes(l, ViewChanged(stream[l])) /\ UNCHANGED <<capture, writer>>
  <2> DEFINE s == stream[l]
             pending == IF ~attachment.visible THEN Nothing
                        ELSE IF ~s.visible \/ s.revised THEN SnapshotRequired ELSE s.pending
             new == [s EXCEPT !.changed = FALSE, !.revised = FALSE,
                     !.visible = attachment.visible, !.scrolled = attachment.scrolled,
                     !.pending = pending]
  <2>1. StreamFits(s) /\ attachment.visible \in BOOLEAN /\ attachment.scrolled \in BOOLEAN
    BY <1>1, StreamIs DEF Types, AttachmentTypes
  <2>2. pending \in Updates
    BY <2>1, UpdatesAre, StreamParts
  <2>3. Becomes(l, new)
    BY <1>4 DEF ViewChanged
  <2> HIDE DEF pending, s
  <2>4. StreamFits(new)
    BY <2>1, <2>2 DEF StreamFits, StreamStates
  <2>5. StreamTypes'
    BY <1>1, <2>3, <2>4, StreamMoves DEF Types
  <2> QED
    BY <1>1, <1>2, <1>4, <2>5, Unmoved DEF Types
<1> QED
  BY <1>1, <1>3, <1>4 DEF ReceiveView

\* A delta of the metadata is an update.
LEMMA MetadataDeltaTyped ==
    ASSUME TerminalTypes, NEW b \in Baselines
    PROVE  MetadataDelta(b) \in Updates
<1>1. Nothing \in Updates
  BY UpdatesAre
<1>2. [base |-> b.sequence, sequence |-> screen.sequence, meta |-> screen.meta, rows |-> Same]
         \in Updates
  BY DEF TerminalTypes, Baselines, Updates, Same
<1> QED
  BY <1>1, <1>2 DEF MetadataDelta

\* It is time for a frame.
LEMMA TickTypes == \A l \in Lanes : Types /\ Tick(l) => Types'
<1>1. SUFFICES ASSUME NEW l \in Lanes, Types, Tick(l) PROVE Types'
  OBVIOUS
<1>2. UNCHANGED <<terminalVars, metadata, exited, countVars, attachment, serving, request,
                  client, left>>
  BY <1>1 DEF Tick, streamRest, terminalVars, countVars
<1> DEFINE s == stream[l]
           delta == MetadataDelta(s.baseline)
           b == Advance(s.baseline, s.pending)
           m == [Advance(s.baseline, delta) EXCEPT !.follows_live = FALSE]
<1>3. StreamFits(s)
  BY <1>1, StreamIs DEF Types
<1>4. delta \in Updates /\ s.pending \in Updates /\ b \in Baselines /\ m \in Baselines
  <2>1. s.baseline \in Baselines /\ s.pending \in Updates /\ delta \in Updates
    BY <1>1, <1>3, StreamParts, MetadataDeltaTyped DEF Types
  <2>2. b \in Baselines /\ Advance(s.baseline, delta) \in Baselines
    BY <2>1, BaselineTyped
  <2>3. m \in Baselines
    BY <2>2 DEF Baselines
  <2> QED
    BY <2>1, <2>2, <2>3
<1>5. \/ EndStream(l)
      \/ /\ Becomes(l, [s EXCEPT !.pc = "framing", !.pending = Nothing])
         /\ capture' = [capture EXCEPT ![l].pc = "look"] /\ UNCHANGED writer
      \/ /\ Becomes(l, [s EXCEPT !.baseline = b, !.pending = Nothing, !.dirty = FALSE])
         /\ writer' = Enqueue(writer, l, Frame(s.pending)) /\ UNCHANGED capture
      \/ /\ Becomes(l, [s EXCEPT !.baseline = m, !.dirty = FALSE])
         /\ writer' = Enqueue(writer, l, Frame(delta)) /\ UNCHANGED capture
      \/ Becomes(l, [s EXCEPT !.dirty = FALSE]) /\ UNCHANGED <<capture, writer>>
  BY <1>1 DEF Tick, AfterMetadata
<1> HIDE DEF s, delta, b, m
<1>6. /\ StreamFits([s EXCEPT !.pc = "framing", !.pending = Nothing])
      /\ StreamFits([s EXCEPT !.baseline = b, !.pending = Nothing, !.dirty = FALSE])
      /\ StreamFits([s EXCEPT !.baseline = m, !.dirty = FALSE])
      /\ StreamFits([s EXCEPT !.dirty = FALSE])
  <2>1. StreamFits([s EXCEPT !.pc = "framing", !.pending = Nothing])
    BY <1>3, UpdatesAre DEF StreamFits, StreamStates, Snapshots
  <2>2. StreamFits([s EXCEPT !.baseline = b, !.pending = Nothing, !.dirty = FALSE])
    BY <1>3, <1>4, UpdatesAre DEF StreamFits, StreamStates, Baselines
  <2>3. StreamFits([s EXCEPT !.baseline = m, !.dirty = FALSE])
    BY <1>3, <1>4 DEF StreamFits, StreamStates, Baselines
  <2>4. StreamFits([s EXCEPT !.dirty = FALSE])
    BY <1>3 DEF StreamFits, StreamStates
  <2> QED
    BY <2>1, <2>2, <2>3, <2>4
<1>7. /\ Good(Enqueue(writer, l, Frame(s.pending)), Messages)
      /\ Good(Enqueue(writer, l, Frame(delta)), Messages)
  BY <1>1, <1>4, FrameTyped, EnqueueGood DEF Types, WriterTypes
<1>8. CASE EndStream(l)
  BY <1>1, <1>2, <1>8, EndStreamTypes, Unmoved DEF Types
<1>9. CASE ~EndStream(l)
  <2>1. StreamTypes'
    BY <1>1, <1>5, <1>6, <1>9, StreamMoves DEF Types
  <2>2. CaptureTypes' /\ ExitOnce'
    BY <1>1, <1>2, <1>5, <1>9, StreamLooks, Unmoved DEF Types
  <2>3. WriterTypes'
    BY <1>1, <1>5, <1>7, <1>9, Unmoved DEF Types, WriterTypes
  <2> QED
    BY <1>1, <1>2, <2>1, <2>2, <2>3, Unmoved DEF Types
<1> QED
  BY <1>8, <1>9

\* A stream has drained, or is dropped.
LEMMA StreamEndTypes == \A l \in Lanes : Types /\ (Drained(l) \/ Dropped(l)) => Types'
<1>1. SUFFICES ASSUME NEW l \in Lanes, Types, Drained(l) \/ Dropped(l) PROVE Types'
  OBVIOUS
<1>2. UNCHANGED <<terminalVars, metadata, exited, countVars, attachment, serving, request,
                  client, left>>
  BY <1>1 DEF Drained, Dropped, streamRest, terminalVars, countVars
<1>3. CASE EndStream(l)
  BY <1>1, <1>2, <1>3, EndStreamTypes, Unmoved DEF Types
<1>4. CASE ~EndStream(l)
  <2> DEFINE s == [stream[l] EXCEPT !.pc = "ending"]
  <2>1. Becomes(l, s) /\ capture' = [capture EXCEPT ![l].pc = "look"] /\ UNCHANGED writer
    BY <1>1, <1>4 DEF Drained, Dropped
  <2>2. StreamFits(s)
    BY <1>1, StreamIs DEF Types, StreamFits, StreamStates, Snapshots
  <2> HIDE DEF s
  <2>3. StreamTypes' /\ CaptureTypes' /\ ExitOnce'
    BY <1>1, <1>2, <2>1, <2>2, StreamMoves, StreamLooks DEF Types
  <2> QED
    BY <1>1, <1>2, <2>1, <2>3, Unmoved DEF Types
<1> QED
  BY <1>3, <1>4
-----------------------------------------------------------------------------
(* Requests, the connection and the Client keep the types.                 *)

\* What a stream may be started and stopped on.
LEMMA AbortedFits ==
    ASSUME StreamTypes, NEW k \in Lanes
    PROVE  StreamFits([stream[k] EXCEPT !.aborted = TRUE])
<1>1. StreamFits(stream[k])
  BY StreamIs
<1> QED
  BY <1>1 DEF StreamFits, StreamStates

\* A stream starts.
LEMMA StartTypes ==
    ASSUME Types, NEW l \in Lanes, NEW s, Good(s, Messages), Start(l, s),
           \A i \in DOMAIN s.render_ready : s.render_ready[i] # l
    PROVE  StreamTypes' /\ ServingTypes' /\ WriterTypes'
<1> DEFINE streams == [k \in Lanes |->
                    IF k = l THEN [NoStream EXCEPT !.pc = "starting"]
                    ELSE IF k = serving /\ stream[k].pc # "none"
                    THEN [stream[k] EXCEPT !.aborted = TRUE]
                    ELSE stream[k]]
<1>1. StreamTypes
  BY DEF Types
<1>2. ASSUME NEW k \in Lanes PROVE StreamFits(streams[k])
  <2>1. /\ StreamFits([NoStream EXCEPT !.pc = "starting"])
        /\ StreamFits([stream[k] EXCEPT !.aborted = TRUE]) /\ StreamFits(stream[k])
    BY <1>1, NoStreamFits, AbortedFits, StreamIs
  <2>2. \/ streams[k] = [NoStream EXCEPT !.pc = "starting"]
        \/ streams[k] = [stream[k] EXCEPT !.aborted = TRUE]
        \/ streams[k] = stream[k]
    OBVIOUS
  <2> HIDE DEF streams
  <2> QED
    BY <2>1, <2>2
<1>3. stream' = streams /\ streams = [k \in Lanes |-> streams[k]]
  BY DEF Start
<1> HIDE DEF streams
<1>4. StreamTypes'
  BY <1>2, <1>3, StreamsMove
<1>5. Good(OpenLane(s, l), Messages)
  BY OpenLaneGood
<1> QED
  BY <1>4, <1>5 DEF Start, ServingTypes, WriterTypes

\* The stream stops.
LEMMA StopTypes ==
    ASSUME Types, NEW s, Good(s, Messages), Stop(s)
    PROVE  StreamTypes' /\ ServingTypes' /\ WriterTypes'
<1> DEFINE streams == [k \in Lanes |-> IF k = serving /\ stream[k].pc # "none"
                                  THEN [stream[k] EXCEPT !.aborted = TRUE] ELSE stream[k]]
<1>1. StreamTypes
  BY DEF Types
<1>2. ASSUME NEW k \in Lanes PROVE StreamFits(streams[k])
  BY <1>1, AbortedFits, StreamIs
<1>3. stream' = streams /\ streams = [k \in Lanes |-> streams[k]]
  BY DEF Stop
<1> HIDE DEF streams
<1>4. StreamTypes'
  BY <1>2, <1>3, StreamsMove
<1> QED
  BY <1>4 DEF Stop, ServingTypes, WriterTypes

\* The streams follow the attachment.
LEMMA ReconcileTypes ==
    ASSUME Types, NEW s, Good(s, Messages), NEW restart, Reconcile(restart, s),
           s.render_ready = writer.render_ready
    PROVE  StreamTypes' /\ ServingTypes' /\ WriterTypes'
<1>1. CASE Stop(s)
  BY <1>1, StopTypes
<1>2. ASSUME \E l \in Lanes : Free(l), Start(CHOOSE l \in Lanes : Free(l), s)
      PROVE  StreamTypes' /\ ServingTypes' /\ WriterTypes'
  <2> DEFINE l == CHOOSE k \in Lanes : Free(k)
  <2>1. l \in Lanes /\ Free(l) /\ Start(l, s)
    BY <1>2
  <2> HIDE DEF l
  <2>2. \A i \in DOMAIN s.render_ready : s.render_ready[i] # l
    BY <2>1 DEF Free
  <2> QED
    BY <2>1, <2>2, StartTypes
<1>3. CASE writer' = s /\ UNCHANGED streamVars
  BY <1>3, Unmoved DEF Types, WriterTypes, streamVars
<1> QED
  BY <1>1, <1>2, <1>3 DEF Reconcile

\* No request is one.
LEMMA NoRequestTypes == request' = NoRequest => RequestTypes'
BY NoRequestTyped DEF RequestTypes, Kinds

\* A request is answered.
LEMMA AnswerTypes == Types /\ Answer => Types'
<1>1. SUFFICES ASSUME Types, Answer PROVE Types'
  OBVIOUS
<1> DEFINE answered == PushReliable(writer, Item(Response(request), 1))
<1>2. UNCHANGED <<terminalVars, metadata, exited, capture, countVars, attachment, client, left>>
  BY <1>1 DEF Answer, hostSide, terminalVars
<1>3. RequestTypes'
  BY <1>1, NoRequestTypes DEF Answer
<1>4. Good(answered, Messages) /\ (answered.closed \/ answered.render_ready = writer.render_ready)
  <2>1. Item(Response(request), 1) \in Items(Messages) /\ Good(writer, Messages)
    BY <1>1, ResponseTyped DEF Types, WriterTypes
  <2>2. Sends(writer, answered, Messages)
    BY <2>1, PushReliableGood
  <2> HIDE DEF answered
  <2> QED
    BY <2>2 DEF Sends
<1>5. \/ writer' = answered /\ UNCHANGED streamVars
      \/ ~answered.closed /\ Reconcile(request.kind \in {"spawn", "attach"}, answered)
  BY <1>1 DEF Answer
<1> HIDE DEF answered
<1>6. StreamTypes' /\ ServingTypes' /\ WriterTypes'
  <2>1. CASE writer' = answered /\ UNCHANGED streamVars
    BY <1>1, <1>4, <2>1, Unmoved DEF Types, WriterTypes, streamVars
  <2>2. CASE ~answered.closed /\ Reconcile(request.kind \in {"spawn", "attach"}, answered)
    BY <1>1, <1>4, <2>2, ReconcileTypes
  <2> QED
    BY <1>5, <2>1, <2>2
<1> QED
  BY <1>1, <1>2, <1>3, <1>6, Unmoved DEF Types

\* The reconcile of another request comes first.
LEMMA ReconcileEarlyTypes == Types /\ ReconcileEarly => Types'
<1>1. SUFFICES ASSUME Types, ReconcileEarly PROVE Types'
  OBVIOUS
<1>2. UNCHANGED <<terminalVars, metadata, exited, capture, countVars, attachment, request, client>>
  BY <1>1 DEF ReconcileEarly, hostSide, terminalVars
<1>3. BudgetTypes'
  BY <1>1, SpendTyped DEF ReconcileEarly, Types
<1>4. Good(writer, Messages) /\ Reconcile(FALSE, writer)
  BY <1>1 DEF ReconcileEarly, Types, WriterTypes
<1>5. StreamTypes' /\ ServingTypes' /\ WriterTypes'
  BY <1>1, <1>4, ReconcileTypes
<1> QED
  BY <1>1, <1>2, <1>3, <1>5, Unmoved DEF Types

\* Other messages are sent.
LEMMA SendOtherTypes == Types /\ SendOther => Types'
<1>1. SUFFICES ASSUME Types, SendOther PROVE Types'
  OBVIOUS
<1>2. UNCHANGED <<terminalVars, metadata, exited, capture, countVars, attachment, stream, serving,
                  request, client>>
  BY <1>1 DEF SendOther, hostSide, terminalVars, streamVars
<1>3. BudgetTypes'
  BY <1>1, SpendTyped DEF SendOther, Types
<1>4. WriterTypes'
  <2>1. writer' \in {PushInteractive(writer, Item(OtherMessage, 1)),
                     PushReliable(writer, Item(OtherMessage, 2)),
                     PushLatest(writer, Item(OtherMessage, 1)),
                     PushLatest(writer, Item(OtherMessage, 2))}
    BY <1>1 DEF SendOther, OtherMessage
  <2>2. /\ Good(writer, Messages)
        /\ Item(OtherMessage, 1) \in Items(Messages) /\ Item(OtherMessage, 2) \in Items(Messages)
    BY <1>1, OtherTyped DEF Types, WriterTypes
  <2>3. Sends(writer, writer', Messages)
    BY <2>1, <2>2, PushInteractiveGood, PushReliableGood, PushLatestGood
  <2> QED
    BY <2>3 DEF Sends, WriterTypes
<1> QED
  BY <1>1, <1>2, <1>3, <1>4, Unmoved DEF Types

\* A frame is taken; the connection is lost.
LEMMA WriterTaskTypes == Types /\ (LoseConnection \/ Take) => Types'
<1>1. SUFFICES ASSUME Types, LoseConnection \/ Take PROVE Types'
  OBVIOUS
<1>2. UNCHANGED <<terminalVars, metadata, exited, capture, countVars, attachment, stream, serving,
                  request, client>>
  BY <1>1 DEF LoseConnection, Take, hostSide, terminalVars, streamVars
<1>3. BudgetTypes'
  BY <1>1, SpendTyped, Unmoved DEF LoseConnection, Take, Types
<1>4. WriterTypes'
  <2>1. Good(writer, Messages)
    BY <1>1 DEF Types, WriterTypes
  <2>2. CASE LoseConnection
    BY <2>1, <2>2, ClosedGood DEF LoseConnection, CloseWriter, WriterTypes
  <2>3. CASE Take
    BY <2>1, <2>3, SelectGood DEF Take, TakeFrame, WriterTypes
  <2> QED
    BY <1>1, <2>2, <2>3
<1> QED
  BY <1>1, <1>2, <1>3, <1>4, Unmoved DEF Types

\* What is written is a message.
LEMMA WrittenTyped ==
    ASSUME WriterTypes, writer.slot # "none"
    PROVE  Written.msg \in Messages /\ Written.last \in BOOLEAN
<1> DEFINE item == IF writer.slot = "interactive" THEN writer.current_interactive
                                                  ELSE writer.current
<1>1. writer \in Writer(Messages) /\ Begins(writer)
  BY DEF WriterTypes, Good
<1>2. item \in UnderWay(Messages) /\ item # NoItem
  <2>1. writer.slot \in {"none", "interactive", "current"}
        /\ writer.current_interactive \in UnderWay(Messages)
        /\ writer.current \in UnderWay(Messages)
    BY <1>1, WriterParts
  <2> QED
    BY <1>1, <2>1 DEF Begins
<1>3. Written = [msg |-> item.msg, last |-> item.left = 0]
  BY DEF Written
<1> HIDE DEF item
<1>4. item.msg \in Messages
  BY <1>2 DEF UnderWay, Begun
<1> QED
  BY <1>3, <1>4

\* What a Client makes of it
LEMMA AfterFramesTyped ==
    ASSUME ClientTypes, NEW frame, frame.msg \in Messages, frame.last \in BOOLEAN
    PROVE  AfterFrames(client, frame)
              \in [connected : BOOLEAN, known : BOOLEAN, attached : BOOLEAN, mirror : Updates,
                   told : Nat, gap : BOOLEAN]
<1> DEFINE m == frame.msg
           u == m.update
           c == client
           C == [connected : BOOLEAN, known : BOOLEAN, attached : BOOLEAN, mirror : Updates,
                 told : Nat, gap : BOOLEAN]
<1>1. c \in C /\ u \in Updates /\ m.kind \in {"response", "frame", "exit", "other"}
  BY DEF ClientTypes, Messages
<1>2. AfterResponse(c, m) \in C
  <2> DEFINE mirror == IF c.mirror = Nothing THEN u ELSE c.mirror
  <2>1. mirror \in Updates
    BY <1>1
  <2>2. AfterResponse(c, m) \in {[c EXCEPT !.known = TRUE, !.attached = TRUE],
                                 [c EXCEPT !.known = TRUE, !.attached = TRUE, !.mirror = mirror],
                                 [c EXCEPT !.attached = FALSE], c}
    BY DEF AfterResponse
  <2> HIDE DEF mirror, c
  <2> QED
    BY <1>1, <2>1, <2>2
<1>3. AfterUpdateFrame(c, u) \in C
  <2> DEFINE applied == IF c.mirror # Nothing THEN Apply(c.mirror, u)
                        ELSE IF IsSnapshot(u) THEN u ELSE Gap
  <2>1. applied \in Updates
    BY <1>1, ApplyTyped, UpdatesAre
  <2>2. AfterUpdateFrame(c, u) \in {c, [c EXCEPT !.gap = TRUE], [c EXCEPT !.mirror = applied]}
    BY DEF AfterUpdateFrame
  <2> HIDE DEF applied, c
  <2> QED
    BY <1>1, <2>1, <2>2
<1>4. [c EXCEPT !.told = u.sequence] \in C
  BY <1>1, UpdateParts
<1>5. AfterFrames(c, frame)
         \in {c, AfterResponse(c, m), AfterUpdateFrame(c, u), [c EXCEPT !.told = u.sequence]}
  BY <1>1 DEF AfterFrames
<1> QED
  BY <1>1, <1>2, <1>3, <1>4, <1>5

\* A frame is written, and the Client has what it ends.
LEMMA DeliverTypes == Types /\ Deliver => Types'
<1>1. SUFFICES ASSUME Types, Deliver PROVE Types'
  OBVIOUS
<1>2. UNCHANGED <<terminalVars, metadata, exited, capture, countVars, attachment, stream, serving,
                  request, left>>
  BY <1>1 DEF Deliver, hostSide, terminalVars, streamVars
<1>3. writer.slot # "none" /\ writer' = Finish(writer) /\ client' = AfterFrames(client, Written)
  BY <1>1 DEF Deliver, WriteFrame
<1>4. WriterTypes'
  BY <1>1, <1>3, FinishGood DEF Types, WriterTypes
<1>5. ClientTypes'
  BY <1>1, <1>3, WrittenTyped, AfterFramesTyped DEF Types, ClientTypes
<1> QED
  BY <1>1, <1>2, <1>4, <1>5, Unmoved DEF Types

\* The connection ends.
LEMMA DisconnectTypes == Types /\ Disconnect => Types'
<1>1. SUFFICES ASSUME Types, Disconnect PROVE Types'
  OBVIOUS
<1>2. UNCHANGED <<terminalVars, metadata, exited, capture, subscribers, watched, left>>
  BY <1>1 DEF Disconnect, hostSide, terminalVars
<1>3. CountTypes'
  BY <1>1, <1>2, CountMoves DEF Disconnect, CountTypes, Types
<1>4. AttachmentTypes'
  <2>1. attachment' = [attachment EXCEPT !.attached = FALSE, !.scrolled = FALSE]
    BY <1>1 DEF Disconnect
  <2> QED
    BY <1>1, <2>1 DEF Types, AttachmentTypes
<1>5. StreamTypes'
  <2> DEFINE streams == [l \in Lanes |-> IF stream[l].pc = "none" THEN stream[l]
                                 ELSE [stream[l] EXCEPT !.changed = TRUE, !.detached = TRUE,
                                                        !.aborted = TRUE]]
  <2>1. ASSUME NEW l \in Lanes PROVE StreamFits(streams[l])
    <3>1. StreamFits(stream[l])
      BY <1>1, StreamIs DEF Types
    <3> DEFINE new == [stream[l] EXCEPT !.changed = TRUE, !.detached = TRUE, !.aborted = TRUE]
    <3>2. streams[l] \in {stream[l], new}
      OBVIOUS
    <3>3. StreamFits(new)
      BY <3>1 DEF StreamFits, StreamStates
    <3> HIDE DEF streams, new
    <3> QED
      BY <3>1, <3>2, <3>3
  <2>2. stream' = streams /\ streams = [l \in Lanes |-> streams[l]]
    BY <1>1 DEF Disconnect
  <2> HIDE DEF streams
  <2> QED
    BY <2>1, <2>2, StreamsMove
<1>6. RequestTypes' /\ ServingTypes' /\ ClientTypes'
  <2>1. request' = NoRequest /\ serving' = NoLane
        /\ client' = [client EXCEPT !.connected = FALSE]
    BY <1>1 DEF Disconnect
  <2> QED
    BY <1>1, <2>1, NoRequestTypes DEF Types, ServingTypes, ClientTypes
<1>7. WriterTypes'
  BY <1>1, ClosedGood DEF Disconnect, Types, WriterTypes
<1> QED
  BY <1>1, <1>2, <1>3, <1>4, <1>5, <1>6, <1>7, Unmoved DEF Types

\* The Client connects again.
LEMMA ReconnectTypes == Types /\ Reconnect => Types'
<1>1. SUFFICES ASSUME Types, Reconnect PROVE Types'
  OBVIOUS
<1>2. UNCHANGED <<terminalVars, metadata, exited, capture, subscribers, serving, left>>
  BY <1>1 DEF Reconnect, hostSide, terminalVars
<1>3. ClientTypes' /\ WriterTypes'
  <2>1. client' = [client EXCEPT !.connected = TRUE, !.gap = FALSE] /\ writer' = NewWriter
    BY <1>1 DEF Reconnect
  <2> QED
    BY <1>1, <2>1, NewGood DEF Types, ClientTypes, WriterTypes
<1>4. AttachmentTypes' /\ StreamTypes' /\ RequestTypes' /\ CountTypes'
  <2>1. CASE client.attached
    <3>1. Register("subscribe", Nothing) /\ "subscribe" \in Kinds /\ Nothing \in Updates
      BY <1>1, <2>1, UpdatesAre DEF Reconnect, Kinds
    <3> QED
      BY <1>1, <1>2, <3>1, RegisterMoves DEF Types, CountTypes
  <2>2. CASE ~client.attached
    <3>1. UNCHANGED <<attachment, stream, request, countVars>>
      BY <1>1, <2>2 DEF Reconnect, countVars
    <3> QED
      BY <1>1, <3>1, Unmoved DEF Types
  <2> QED
    BY <2>1, <2>2
<1> QED
  BY <1>1, <1>2, <1>3, <1>4, Unmoved DEF Types
-----------------------------------------------------------------------------
(* Every step keeps the types.                                             *)

\* A run starts with the types.
LEMMA InitTypes == Init => Types
<1>1. SUFFICES ASSUME Init PROVE Types
  OBVIOUS
<1>2. TerminalTypes /\ CountTypes /\ RequestTypes
  <2>1. screen \in [sequence : Nat, meta : 0 .. 3] /\ metadata \in 0 .. 3
    BY <1>1 DEF Init
  <2>2. subscribers \in BOOLEAN /\ watched \in BOOLEAN
        /\ recount = [viewer |-> Same, other |-> Same]
    BY <1>1 DEF Init
  <2>3. recount \in [{"viewer", "other"} -> {Same, 0, 1}]
    BY <2>2
  <2>4. RequestTypes
    BY <1>1, NoRequestTyped DEF Init, RequestTypes, Kinds
  <2>5. output \in BOOLEAN /\ requested \in BOOLEAN /\ stale \in BOOLEAN /\ exited \in BOOLEAN
    BY <1>1 DEF Init
  <2> QED
    BY <2>1, <2>2, <2>3, <2>4, <2>5 DEF TerminalTypes, CountTypes
<1>3. CaptureTypes /\ ExitOnce
  <2>1. capture = [t \in Threads |-> Resting] /\ metadata = 0
    BY <1>1 DEF Init
  <2>2. Proceeds(Resting) /\ Resting.pc = "idle" /\ "exit" \in Threads
    BY RestingProceeds, ThreadsAre DEF Resting
  <2> QED
    BY <2>1, <2>2 DEF CaptureTypes, Proceeds, ExitOnce, Exited
<1>4. BudgetTypes
  BY <1>1, StreamAssumption DEF Init, BudgetTypes
<1> DEFINE l == CHOOSE lane \in Lanes : TRUE
           opening == Viewport(1, 0, 1)
           b == Baseline(opening)
           started == [NoStream EXCEPT !.pc = "streaming", !.baseline = b]
<1>5. l \in Lanes
  BY StreamAssumption
<1>6. opening \in Updates /\ b \in Baselines
  BY UpdatesAre, BaselineTyped
<1>7. StreamFits(started) /\ StreamFits(NoStream)
  <2> HIDE DEF b
  <2>1. StreamFits(NoStream)
    BY NoStreamFits
  <2>2. StreamFits([NoStream EXCEPT !.pc = "streaming", !.baseline = b])
    BY <1>6, <2>1 DEF StreamFits, StreamStates, Baselines
  <2> QED
    BY <2>1, <2>2
<1>8. Good(NewWriter, Messages) /\ Good(OpenLane(NewWriter, l), Messages)
  <2>1. Good(NewWriter, Messages)
    BY NewGood
  <2>2. NewWriter.render_ready = <<>> /\ DOMAIN <<>> = {}
    BY EmptySeq DEF NewWriter
  <2> HIDE DEF l
  <2> QED
    BY <1>5, <2>1, <2>2, OpenLaneGood
<1>9. \/ /\ attachment = Detached
         /\ stream = [k \in Lanes |-> NoStream] /\ serving = NoLane
         /\ writer = NewWriter
         /\ client = [connected |-> TRUE, known |-> FALSE, attached |-> FALSE,
                      mirror |-> Nothing, told |-> 0, gap |-> FALSE]
      \/ /\ attachment = [Detached EXCEPT !.attached = TRUE]
         /\ stream = [k \in Lanes |-> IF k # l THEN NoStream ELSE started]
         /\ serving = l
         /\ writer = OpenLane(NewWriter, l)
         /\ client = [connected |-> TRUE, known |-> TRUE, attached |-> TRUE,
                      mirror |-> opening, told |-> 0, gap |-> FALSE]
  BY <1>1 DEF Init
<1> HIDE DEF l, opening, b, started
<1>10. AttachmentTypes /\ ServingTypes /\ WriterTypes
  <2>1. AttachmentTypes
    <3> DEFINE yes == TRUE
               no == FALSE
    <3>1. /\ attachment = [attached |-> no, visible |-> yes, scrolled |-> no]
             \/ attachment = [attached |-> yes, visible |-> yes, scrolled |-> no]
          /\ yes \in BOOLEAN /\ no \in BOOLEAN
      BY <1>9 DEF Detached
    <3> HIDE DEF yes, no
    <3> QED
      BY <3>1 DEF AttachmentTypes
  <2>2. ServingTypes
    BY <1>5, <1>9 DEF ServingTypes
  <2>3. WriterTypes
    BY <1>8, <1>9 DEF WriterTypes
  <2> QED
    BY <2>1, <2>2, <2>3
<1>11. StreamTypes
  <2>1. stream = [k \in Lanes |-> stream[k]] /\ \A k \in Lanes : stream[k] \in {NoStream, started}
    BY <1>9
  <2> QED
    BY <1>7, <2>1 DEF StreamTypes, StreamFits
<1>12. ClientTypes
  <2> DEFINE zero == 0
             nothing == Nothing
             yes == TRUE
             no == FALSE
  <2>1. zero \in Nat /\ nothing \in Updates /\ yes \in BOOLEAN /\ no \in BOOLEAN
    BY UpdatesAre
  <2>2. \/ client = [connected |-> yes, known |-> no, attached |-> no,
                    mirror |-> nothing, told |-> zero, gap |-> no]
        \/ client = [connected |-> yes, known |-> yes, attached |-> yes,
                    mirror |-> opening, told |-> zero, gap |-> no]
    BY <1>9
  <2> HIDE DEF zero, nothing, yes, no
  <2> QED
    BY <1>6, <2>1, <2>2 DEF ClientTypes
<1> QED
  BY <1>2, <1>3, <1>4, <1>10, <1>11, <1>12 DEF Types

\* No step breaks them.
LEMMA StepTypes == Types /\ [Next]_vars => Types'
<1>1. SUFFICES ASSUME Types, [Next]_vars PROVE Types'
  OBVIOUS
<1>2. CASE Happens
  BY <1>1, <1>2, ReadOutputTypes, SetTitleTypes, ExitTypes, ViewsTypes, SpawnedTypes, AttachTypes,
     DetachTypes, ReconcileEarlyTypes, SendOtherTypes, WriterTaskTypes DEF Happens
<1>3. CASE Terminal
  BY <1>1, <1>3, PublisherTypes, CaptureTyped, PublishTypes, ExitStateTypes, TellExitTypes,
     ThreadsAre DEF Terminal, Captures
<1>4. CASE Requests
  <2>1. attachment.scrolled \in BOOLEAN /\ "request" \in Threads \ {"exit"}
    BY <1>1, ThreadsAre DEF Types, AttachmentTypes
  <2> QED
    BY <1>1, <1>4, <2>1, LookTypes, CaptureTyped, PublishTypes, AttachedTypes, AnswerTypes
       DEF Requests, Captures
<1>5. CASE Session
  BY <1>1, <1>5, WriterTaskTypes, DeliverTypes, DisconnectTypes, ReconnectTypes DEF Session
<1>6. CASE \E who \in {"viewer", "other"} : StoreCount(who)
  BY <1>1, <1>6, StoreCountTypes
<1>7. ASSUME NEW l \in Lanes, StreamStep(l) PROVE Types'
  <2>1. l \in Threads \ {"exit"} /\ stream[l].scrolled \in BOOLEAN
    BY <1>1, ThreadsAre, StreamIs, StreamParts DEF Types
  <2>2. CASE OpenStream(l) \/ SendSnapshot(l) \/ CheckExited(l) \/ Drained(l) \/ Dropped(l)
    BY <1>1, <2>2, OpenStreamTypes, SendSnapshotTypes, CheckExitedTypes, StreamEndTypes
  <2>3. CASE LookAtStale(l) \/ ReadContext(l, stream[l].scrolled) \/ Capture(l) \/ Publish(l)
    BY <1>1, <2>1, <2>3, LookTypes, CaptureTyped, PublishTypes
  <2>4. CASE ReceiveEvent(l) \/ ReceiveView(l) \/ Tick(l)
    BY <1>1, <2>4, ReceiveEventTypes, ReceiveViewTypes, TickTypes
  <2> QED
    BY <1>7, <2>2, <2>3, <2>4 DEF StreamStep, StreamSends
<1>8. CASE UNCHANGED vars
  <2>1. UNCHANGED <<terminalVars, metadata, exited, capture, countVars, attachment, stream, serving,
                    request, client, left, writer>>
    BY <1>8 DEF vars, terminalVars, streamVars
  <2> QED
    BY <1>1, <2>1, Unmoved DEF Types
<1> QED
  BY <1>1, <1>2, <1>3, <1>4, <1>5, <1>6, <1>7, <1>8 DEF Next

\* They hold in every run.
LEMMA TypesHold == Spec => []Types
<1>1. Init => Types
  BY InitTypes
<1>2. Types /\ [Next]_vars => Types'
  BY StepTypes
<1> QED
  BY <1>1, <1>2, PTL DEF Spec

\* Every state of the terminal, its streams, the writer and the Client is of the types the run
\* checks.
THEOREM TypeOKAlways == Spec => []TypeOK
BY TypesHold, TypesAreOK, PTL
-----------------------------------------------------------------------------
(* The lanes' turn.                                                        *)

\* A good writer's lanes take turns.
LEMMA GoodTakesTurns ==
    ASSUME NEW M, Good(writer, M)
    PROVE  LanesTakeTurns
<1>1. ASSUME NEW l \in Lanes, writer.render[l].open, ~writer.closed
      PROVE  LET turns == {i \in DOMAIN writer.render_ready : writer.render_ready[i] = l} IN
             /\ writer.render[l].ready <=> turns # {}
             /\ \A i, j \in turns : i = j
             /\ writer.render[l].items # <<>> => writer.render[l].ready
  <2>1. PlacedIn(writer.render[l].ready, writer.render_ready, l)
    BY <1>1 DEF Good, Turns, Placed
  <2>2. writer.render[l].items # <<>> => writer.render[l].ready
    BY <1>1 DEF Good, Turns, Called
  <2> QED
    BY <2>1, <2>2 DEF PlacedIn
<1> QED
  BY <1>1 DEF LanesTakeTurns

\* No lane starves, however many streams share a connection: in every run of TerminalStream a
\* lane with frames is in the writer's turn exactly once, whatever frames a message that waits
\* for a lane took out of turn, and whatever lanes were dropped and opened again.
THEOREM LanesTakeTurnsAlways == Spec => []LanesTakeTurns
<1>1. Types => LanesTakeTurns
  BY GoodTakesTurns DEF Types, WriterTypes
<1> QED
  BY <1>1, TypesHold, PTL

-----------------------------------------------------------------------------
(* The bytes of a queue.  BytesOf is recursive: what it is follows by      *)
(* induction, over sets of numbers instead of formulas.                    *)

\* The numbers from 0 on are all in a set that has 0 and each one's successor.
LEMMA Induction ==
    ASSUME NEW S, 0 \in S, \A n \in Nat : n \in S => n + 1 \in S
    PROVE  Nat \subseteq S
<1>1. SUFFICES ASSUME Nat \ S # {} PROVE FALSE
  OBVIOUS
<1>2. PICK n \in Nat \ S : \A m \in Nat \ S : n <= m
  BY <1>1, LeastNumber
<1>3. n # 0 /\ n - 1 \in Nat
  BY <1>2
<1>4. n - 1 \in S
  BY <1>2, <1>3
<1>5. (n - 1) + 1 \in S
  BY <1>3, <1>4
<1> QED
  BY <1>2, <1>3, <1>5

\* The sums of the bytes of the first items
Counts(items, sum, k) ==
    /\ sum \in [0 .. k -> Int]
    /\ sum[0] = 0
    /\ \A n \in 1 .. k : sum[n] = sum[n - 1] + items[n].bytes

\* There are such sums, for any queue.
LEMMA SumsExist ==
    ASSUME NEW R, \A x \in R : x.bytes \in Int, NEW items \in Seq(R)
    PROVE  \E sum : Counts(items, sum, Len(items))
<1> DEFINE N == Len(items)
           S == {k \in Nat : k <= N => \E sum : Counts(items, sum, k)}
<1>1. 0 \in S
  <2>1. Counts(items, [n \in 0 .. 0 |-> 0], 0)
    BY DEF Counts
  <2> QED
    BY <2>1
<1>2. ASSUME NEW k \in Nat, k \in S PROVE k + 1 \in S
  <2>1. SUFFICES ASSUME k + 1 <= N PROVE \E sum : Counts(items, sum, k + 1)
    OBVIOUS
  <2>2. k <= N /\ k + 1 \in 1 .. N
    BY <2>1
  <2>3. items[k + 1].bytes \in Int
    BY <2>2
  <2>4. PICK sum : Counts(items, sum, k)
    BY <1>2, <2>2
  <2> DEFINE more == [n \in 0 .. k + 1 |-> IF n = k + 1 THEN sum[k] + items[k + 1].bytes ELSE sum[n]]
  <2>5. sum[k] \in Int /\ \A n \in 0 .. k : sum[n] \in Int
    BY <2>4 DEF Counts
  <2>6. more \in [0 .. k + 1 -> Int]
    BY <2>3, <2>5
  <2>7. more[0] = 0
    BY <2>4 DEF Counts
  <2>8. ASSUME NEW n \in 1 .. k + 1 PROVE more[n] = more[n - 1] + items[n].bytes
    BY <2>4 DEF Counts
  <2> HIDE DEF more
  <2>9. Counts(items, more, k + 1)
    BY <2>6, <2>7, <2>8 DEF Counts
  <2> QED
    BY <2>9
<1> HIDE DEF S
<1>3. Nat \subseteq S
  BY <1>1, <1>2, Induction
<1>4. N \in Nat
  OBVIOUS
<1> QED
  BY <1>3, <1>4 DEF S

\* The bytes of a queue are the sum at its end.
LEMMA BytesAreSum ==
    ASSUME NEW R, \A x \in R : x.bytes \in Int, NEW items \in Seq(R)
    PROVE  \E sum : Counts(items, sum, Len(items)) /\ BytesOf(items) = sum[Len(items)]
<1> DEFINE N == Len(items)
           Step(f) == [n \in 0 .. N |-> IF n = 0 THEN 0 ELSE f[n - 1] + items[n].bytes]
           chosen == CHOOSE f : f = Step(f)
<1>1. BytesOf(items) = chosen[N]
  BY DEF BytesOf
<1>2. PICK sum : Counts(items, sum, N)
  BY SumsExist
<1>3. sum = Step(sum)
  BY <1>2 DEF Counts
<1>4. chosen = Step(chosen)
  BY <1>3
<1> HIDE DEF chosen
<1>9. N \in Nat
  OBVIOUS
<1>5. chosen[0] = 0
  BY <1>4, <1>9
<1>6. \A n \in 1 .. N : chosen[n] = chosen[n - 1] + items[n].bytes
  <2>1. ASSUME NEW n \in 1 .. N PROVE chosen[n] = chosen[n - 1] + items[n].bytes
    <3>1. n \in 0 .. N /\ n # 0
      BY <1>9
    <3>2. chosen[n] = Step(chosen)[n]
      BY <1>4
    <3> QED
      BY <3>1, <3>2
  <2> QED
    BY <2>1
<1>7. \A n \in 0 .. N : chosen[n] = sum[n]
  <2> DEFINE S == {n \in Nat : n <= N => chosen[n] = sum[n]}
  <2>1. 0 \in S
    BY <1>2, <1>5 DEF Counts
  <2>2. ASSUME NEW n \in Nat, n \in S PROVE n + 1 \in S
    <3>1. SUFFICES ASSUME n + 1 <= N PROVE chosen[n + 1] = sum[n + 1]
      OBVIOUS
    <3>2. n + 1 \in 1 .. N /\ (n + 1) - 1 = n /\ chosen[n] = sum[n]
      BY <2>2, <3>1
    <3>3. chosen[n + 1] = chosen[n] + items[n + 1].bytes
      BY <1>6, <3>2
    <3>4. sum[n + 1] = sum[n] + items[n + 1].bytes
      BY <1>2, <3>2 DEF Counts
    <3> QED
      BY <3>2, <3>3, <3>4
  <2> HIDE DEF S
  <2>3. Nat \subseteq S
    BY <2>1, <2>2, Induction
  <2> QED
    BY <2>3 DEF S
<1>8. N \in 0 .. N
  OBVIOUS
<1> QED
  BY <1>1, <1>2, <1>7, <1>8

\* Two sums that grow alike are the same.
LEMMA SumsAlike ==
    ASSUME NEW N \in Nat, NEW f \in [0 .. N -> Int], NEW g \in [0 .. N -> Int], f[0] = g[0],
           \A n \in 1 .. N : f[n] - f[n - 1] = g[n] - g[n - 1]
    PROVE  f[N] = g[N]
<1> DEFINE S == {n \in Nat : n <= N => f[n] = g[n]}
<1>1. 0 \in S
  OBVIOUS
<1>2. ASSUME NEW n \in Nat, n \in S PROVE n + 1 \in S
  <2>1. SUFFICES ASSUME n + 1 <= N PROVE f[n + 1] = g[n + 1]
    OBVIOUS
  <2>2. /\ n + 1 \in 1 .. N /\ (n + 1) - 1 = n /\ f[n] = g[n]
        /\ f[n] \in Int /\ g[n] \in Int /\ f[n + 1] \in Int /\ g[n + 1] \in Int
    BY <1>2, <2>1
  <2>3. f[n + 1] - f[n] = g[n + 1] - g[n]
    BY <2>2
  <2> QED
    BY <2>2, <2>3
<1> HIDE DEF S
<1>3. Nat \subseteq S
  BY <1>1, <1>2, Induction
<1> QED
  BY <1>3 DEF S

\* An empty queue has no bytes.
LEMMA BytesOfNone == BytesOf(<<>>) = 0
<1>1. <<>> \in Seq({}) /\ Len(<<>>) = 0
  OBVIOUS
<1>2. PICK sum : Counts(<<>>, sum, Len(<<>>)) /\ BytesOf(<<>>) = sum[Len(<<>>)]
  BY <1>1, BytesAreSum
<1> QED
  BY <1>1, <1>2 DEF Counts

\* The bytes of a queue are a number.
LEMMA BytesAreInt ==
    ASSUME NEW R, \A x \in R : x.bytes \in Int, NEW items \in Seq(R)
    PROVE  BytesOf(items) \in Int
<1>1. PICK sum : Counts(items, sum, Len(items)) /\ BytesOf(items) = sum[Len(items)]
  BY BytesAreSum
<1> QED
  BY <1>1 DEF Counts

\* An item that is added
LEMMA BytesOfAppend ==
    ASSUME NEW R, \A x \in R : x.bytes \in Int, NEW items \in Seq(R), NEW x \in R
    PROVE  BytesOf(Append(items, x)) = BytesOf(items) + x.bytes
<1> DEFINE N == Len(items)
           more == Append(items, x)
<1>1. /\ more \in Seq(R) /\ Len(more) = N + 1 /\ more[N + 1] = x
      /\ \A n \in 1 .. N : more[n] = items[n]
  OBVIOUS
<1> HIDE DEF more
<1>2. PICK f : Counts(items, f, N) /\ BytesOf(items) = f[N]
  BY BytesAreSum
<1>3. PICK g : Counts(more, g, N + 1) /\ BytesOf(more) = g[N + 1]
  BY <1>1, BytesAreSum
<1>8. N \in Nat
  OBVIOUS
<1> HIDE DEF N
<1> DEFINE h == [n \in 0 .. N |-> g[n]]
<1>4. h \in [0 .. N -> Int] /\ h[0] = f[0] /\ h[N] = g[N]
  BY <1>2, <1>3, <1>8 DEF Counts
<1>5. ASSUME NEW n \in 1 .. N PROVE h[n] - h[n - 1] = f[n] - f[n - 1]
  <2>1. n - 1 \in 0 .. N /\ n \in 0 .. N /\ n \in 1 .. N + 1 /\ n - 1 \in 0 .. N + 1
    BY <1>8
  <2>2. h[n] = g[n] /\ h[n - 1] = g[n - 1]
    BY <2>1
  <2> HIDE DEF h
  <2>3. /\ f[n] = f[n - 1] + items[n].bytes /\ g[n] = g[n - 1] + items[n].bytes
        /\ f[n - 1] \in Int /\ g[n - 1] \in Int
    BY <1>1, <1>2, <1>3, <2>1 DEF Counts
  <2>4. items[n].bytes \in Int
    BY DEF N
  <2> QED
    BY <2>2, <2>3, <2>4
<1> HIDE DEF h
<1>6. h[N] = f[N]
  BY <1>2, <1>4, <1>5, <1>8, SumsAlike DEF Counts
<1>7. g[N + 1] = g[N] + x.bytes
  <2>1. N + 1 \in 1 .. N + 1 /\ (N + 1) - 1 = N
    BY <1>8
  <2> QED
    BY <1>1, <1>3, <2>1 DEF Counts
<1> QED
  BY <1>2, <1>3, <1>4, <1>6, <1>7 DEF more

\* The first item that is taken
LEMMA BytesOfTail ==
    ASSUME NEW R, \A x \in R : x.bytes \in Int, NEW items \in Seq(R), items # <<>>
    PROVE  BytesOf(Tail(items)) = BytesOf(items) - Head(items).bytes
<1> DEFINE N == Len(items) - 1
           rest == Tail(items)
           b == Head(items).bytes
<1>1. /\ N \in Nat /\ rest \in Seq(R) /\ Len(rest) = N /\ items[1].bytes = b /\ b \in Int
      /\ \A n \in 1 .. N : rest[n] = items[n + 1]
  OBVIOUS
<1>2. Len(items) = N + 1
  OBVIOUS
<1> HIDE DEF rest, b, N
<1>3. PICK f : Counts(items, f, N + 1) /\ BytesOf(items) = f[N + 1]
  BY <1>2, BytesAreSum
<1>4. PICK g : Counts(rest, g, N) /\ BytesOf(rest) = g[N]
  BY <1>1, BytesAreSum
<1> DEFINE h == [n \in 0 .. N |-> f[n + 1] - b]
<1>5. f \in [0 .. N + 1 -> Int] /\ f[1] = b
  <2>1. 1 \in 1 .. N + 1 /\ 1 - 1 = 0
    BY <1>1
  <2> QED
    BY <1>1, <1>3, <2>1 DEF Counts
<1>6. \A n \in 0 .. N : n + 1 \in 0 .. N + 1
  BY <1>1
<1>7. h \in [0 .. N -> Int] /\ h[0] = g[0]
  BY <1>1, <1>4, <1>5, <1>6 DEF Counts
<1>8. ASSUME NEW n \in 1 .. N PROVE h[n] - h[n - 1] = g[n] - g[n - 1]
  <2>1. g[n] = g[n - 1] + rest[n].bytes /\ rest[n] = items[n + 1] /\ g[n - 1] \in Int
    BY <1>1, <1>4 DEF Counts
  <2>2. n + 1 \in 1 .. N + 1 /\ (n + 1) - 1 = n /\ (n - 1) + 1 = n /\ n - 1 \in 0 .. N /\ n \in 0 .. N
    BY <1>1
  <2>3. f[n + 1] = f[n] + items[n + 1].bytes
    BY <1>3, <2>2 DEF Counts
  <2>4. h[n] = f[n + 1] - b /\ h[n - 1] = f[n] - b
    BY <2>2
  <2>5. items[n + 1].bytes \in Int /\ f[n] \in Int
    BY <1>2, <1>5, <2>2
  <2> HIDE DEF h
  <2> QED
    BY <1>1, <2>1, <2>3, <2>4, <2>5
<1>9. h[N] = f[N + 1] - b
  BY <1>1
<1> HIDE DEF h
<1>10. h[N] = g[N]
  BY <1>1, <1>4, <1>7, <1>8, SumsAlike DEF Counts
<1>11. BytesOf(rest) = BytesOf(items) - b
  BY <1>3, <1>4, <1>9, <1>10
<1> QED
  BY <1>11 DEF rest, b

\* An item that is replaced
LEMMA BytesOfReplaced ==
    ASSUME NEW R, \A x \in R : x.bytes \in Int, NEW items \in Seq(R), NEW i \in DOMAIN items, NEW x \in R
    PROVE  BytesOf(ReplaceAt(items, i, x)) = BytesOf(items) - items[i].bytes + x.bytes
<1> DEFINE N == Len(items)
           new == ReplaceAt(items, i, x)
           d == x.bytes - items[i].bytes
<1>1. /\ N \in Nat /\ i \in 1 .. N /\ new \in Seq(R) /\ Len(new) = N /\ new[i] = x
      /\ \A n \in 1 .. N : n # i => new[n] = items[n]
  BY DEF ReplaceAt
<1>2. d \in Int /\ x.bytes \in Int /\ items[i].bytes \in Int /\ x.bytes = items[i].bytes + d
  OBVIOUS
<1> HIDE DEF new, d, N
<1>3. PICK f : Counts(items, f, N) /\ BytesOf(items) = f[N]
  BY BytesAreSum DEF N
<1>4. PICK g : Counts(new, g, N) /\ BytesOf(new) = g[N]
  BY <1>1, BytesAreSum
<1> DEFINE h == [n \in 0 .. N |-> IF n < i THEN f[n] ELSE f[n] + d]
<1>5. h \in [0 .. N -> Int] /\ h[0] = g[0]
  <2>1. f \in [0 .. N -> Int] /\ f[0] = 0 /\ g[0] = 0
    BY <1>3, <1>4 DEF Counts
  <2>2. 0 \in 0 .. N /\ 0 < i
    BY <1>1
  <2>3. \A n \in 0 .. N : f[n] + d \in Int /\ f[n] \in Int
    BY <1>2, <2>1
  <2> QED
    BY <2>1, <2>2, <2>3
<1>6. ASSUME NEW n \in 1 .. N PROVE h[n] - h[n - 1] = g[n] - g[n - 1]
  <2>1. n - 1 \in 0 .. N /\ n \in 0 .. N
    BY <1>1
  <2>2. /\ h[n] = IF n < i THEN f[n] ELSE f[n] + d
        /\ h[n - 1] = IF n - 1 < i THEN f[n - 1] ELSE f[n - 1] + d
    BY <2>1
  <2> HIDE DEF h
  <2>3. /\ g[n] = g[n - 1] + new[n].bytes /\ f[n] = f[n - 1] + items[n].bytes
        /\ f[n - 1] \in Int /\ g[n - 1] \in Int
    BY <1>3, <1>4, <2>1 DEF Counts
  <2>4. items[n].bytes \in Int
    BY DEF N
  <2>5. n \in Int /\ i \in Int
    BY <1>1
  <2>6. CASE n = i
    BY <1>1, <1>2, <2>2, <2>3, <2>4, <2>5, <2>6
  <2>7. CASE n # i
    <3>1. new[n] = items[n]
      BY <1>1, <2>7
    <3>2. n < i <=> n - 1 < i
      BY <2>5, <2>7
    <3> QED
      BY <1>2, <2>2, <2>3, <2>4, <3>1, <3>2
  <2> QED
    BY <2>6, <2>7
<1>7. h[N] = f[N] + d
  BY <1>1
<1> HIDE DEF h
<1>8. h[N] = g[N]
  BY <1>1, <1>4, <1>5, <1>6, SumsAlike DEF Counts
<1>9. BytesOf(new) = BytesOf(items) + d /\ BytesOf(items) \in Int
  BY <1>3, <1>4, <1>7, <1>8, <1>1 DEF Counts
<1> QED
  BY <1>2, <1>9 DEF new, d

-----------------------------------------------------------------------------
(* The bytes that are counted.                                             *)

\* Of any writer; BytesCounted says it of the one there is.
Counted(s) ==
    /\ s.reliable_bytes = BytesOf(s.reliable) + Writing(s, NoLane)
    /\ \A l \in Lanes : s.render[l].open
                           => s.render[l].bytes = BytesOf(s.render[l].items) + Writing(s, l)

\* Items have bytes, and so have queues of them.
LEMMA ItemBytes ==
    ASSUME NEW M
    PROVE  /\ \A x \in Items(M) : x.bytes \in Int
           /\ \A items \in Seq(Items(M)) : BytesOf(items) \in Int
<1>1. \A x \in Items(M) : x.bytes \in Int
  BY DEF Items
<1> QED
  BY <1>1, BytesAreInt

\* What is being written counts.
LEMMA WritingBytes ==
    ASSUME NEW M, NEW s \in Writer(M), NEW l
    PROVE  Writing(s, l) \in Int
<1>1. s.current # NoItem => s.current.bytes \in Int
  BY WriterParts, NoItemBegun
<1> QED
  BY <1>1 DEF Writing

\* What changes neither queues nor the bytes of what is being written
LEMMA CountedSame ==
    ASSUME NEW s, NEW t, Counted(s), t.reliable = s.reliable, t.reliable_bytes = s.reliable_bytes,
           t.current = NoItem <=> s.current = NoItem,
           s.current # NoItem => t.current.bytes = s.current.bytes, t.lane = s.lane,
           \A l \in Lanes : /\ t.render[l].open = s.render[l].open
                            /\ t.render[l].items = s.render[l].items
                            /\ t.render[l].bytes = s.render[l].bytes
    PROVE  Counted(t)
<1>1. \A l : Writing(t, l) = Writing(s, l)
  BY DEF Writing
<1> QED
  BY <1>1 DEF Counted

\* The parts of an empty lane
LEMMA NoQueueBytes == NoQueue.items = <<>> /\ NoQueue.bytes = 0 /\ ~NoQueue.open
BY DEF NoQueue

\* A writer that has nothing
LEMMA CountedNothing ==
    ASSUME NEW s, s.reliable = <<>>, s.reliable_bytes = 0, s.current = NoItem,
           \A l \in Lanes : s.render[l].items = <<>> /\ s.render[l].bytes = 0
    PROVE  Counted(s)
<1>1. \A l : Writing(s, l) = 0
  BY DEF Writing
<1> QED
  BY <1>1, BytesOfNone DEF Counted

\* A new connection
LEMMA CountedNew == Counted(NewWriter)
<1>1. /\ NewWriter.reliable = <<>> /\ NewWriter.reliable_bytes = 0 /\ NewWriter.current = NoItem
      /\ NewWriter.render = [l \in Lanes |-> NoQueue]
  BY DEF NewWriter
<1> QED
  BY <1>1, NoQueueBytes, CountedNothing

\* Shared::close drops what it counted.
LEMMA CountedClosed ==
    ASSUME NEW M, NEW s, Good(s, M)
    PROVE  Counted(ClosedWriter(s))
<1> DEFINE none == <<>>
           zero == 0
           lane(l) == [s.render[l] EXCEPT !.items = none, !.bytes = zero]
           render == [l \in Lanes |-> lane(l)]
           t == ClosedWriter(s)
<1>1. t = [NewWriter EXCEPT !.closed = TRUE, !.render = render]
  BY DEF ClosedWriter
<1>2. NewWriter \in Writer(M)
  BY NewGood DEF Good
<1>3. /\ NewWriter.reliable = <<>> /\ NewWriter.reliable_bytes = 0 /\ NewWriter.current = NoItem
  BY DEF NewWriter
<1>4. ASSUME NEW l \in Lanes PROVE lane(l).items = none /\ lane(l).bytes = zero
  <2>1. s.render[l] \in Queue(M)
    BY WriterParts DEF Good
  <2> HIDE DEF none, zero
  <2> QED
    BY <2>1 DEF Queue
<1>5. none = <<>> /\ zero = 0
  OBVIOUS
<1> HIDE DEF lane, none, zero
<1>6. \A l \in Lanes : render[l] = lane(l)
  OBVIOUS
<1> HIDE DEF render
<1>7. t.reliable = <<>> /\ t.reliable_bytes = 0 /\ t.current = NoItem /\ t.render = render
  BY <1>1, <1>2, <1>3 DEF Writer
<1> HIDE DEF t
<1>8. Counted(t)
  BY <1>4, <1>5, <1>6, <1>7, CountedNothing
<1> QED
  BY <1>8 DEF t

\* A message in the queue of interactive messages counts for itself.
LEMMA PushInteractiveCounted ==
    ASSUME NEW M, NEW s, Good(s, M), Counted(s), NEW item \in Items(M)
    PROVE  Counted(PushInteractive(s, item))
<1> DEFINE more == Append(s.interactive, item)
           t == [s EXCEPT !.interactive = more]
<1>1. t = [s EXCEPT !.interactive = Append(@, item)]
  OBVIOUS
<1> HIDE DEF more
<1>2. s \in Writer(M)
  BY DEF Good
<1>3. /\ t.reliable = s.reliable /\ t.reliable_bytes = s.reliable_bytes /\ t.current = s.current
      /\ t.lane = s.lane /\ t.render = s.render
  BY <1>2 DEF Writer
<1> HIDE DEF t
<1>4. Counted(t)
  BY <1>3, CountedSame
<1>5. Counted(ClosedWriter(s))
  BY CountedClosed
<1> QED
  BY <1>1, <1>4, <1>5 DEF PushInteractive

\* The reliable queue changes with its count.
LEMMA QueueCounted ==
    ASSUME NEW M, NEW s, Good(s, M), Counted(s), NEW items \in Seq(Items(M)), NEW bytes,
           NEW t, t = [s EXCEPT !.reliable = items, !.reliable_bytes = bytes],
           bytes = s.reliable_bytes - BytesOf(s.reliable) + BytesOf(items)
    PROVE  Counted(t)
<1>1. s \in Writer(M) /\ s.reliable \in Seq(Items(M))
  BY WriterParts DEF Good
<1>2. /\ t.reliable = items /\ t.reliable_bytes = bytes /\ t.current = s.current
      /\ t.lane = s.lane /\ t.render = s.render
  BY <1>1 DEF Writer
<1>3. \A l : Writing(t, l) = Writing(s, l)
  BY <1>2 DEF Writing
<1>4. BytesOf(items) \in Int /\ BytesOf(s.reliable) \in Int /\ Writing(s, NoLane) \in Int
  BY <1>1, ItemBytes, WritingBytes
<1>5. bytes = BytesOf(items) + Writing(s, NoLane)
  BY <1>4 DEF Counted
<1> QED
  BY <1>2, <1>3, <1>5 DEF Counted

\* A message that is queued
LEMMA PushReliableCounted ==
    ASSUME NEW M, NEW s, Good(s, M), Counted(s), NEW item \in Items(M)
    PROVE  Counted(PushReliable(s, item))
<1> DEFINE more == Append(s.reliable, item)
           bytes == s.reliable_bytes + item.bytes
           t == [s EXCEPT !.reliable = more, !.reliable_bytes = bytes]
<1>1. /\ s.reliable \in Seq(Items(M)) /\ s.reliable_bytes \in Int /\ item.bytes \in Int
      /\ BytesOf(s.reliable) \in Int
  BY WriterParts, ItemBytes DEF Good
<1>2. more \in Seq(Items(M)) /\ BytesOf(more) = BytesOf(s.reliable) + item.bytes
  BY <1>1, ItemBytes, BytesOfAppend, AppendProperties
<1>3. t = [s EXCEPT !.reliable = Append(@, item), !.reliable_bytes = @ + item.bytes]
  OBVIOUS
<1> HIDE DEF more
<1>4. bytes = s.reliable_bytes - BytesOf(s.reliable) + BytesOf(more)
  BY <1>1, <1>2
<1> HIDE DEF bytes
<1>5. Counted(t)
  BY <1>2, <1>4, QueueCounted
<1> HIDE DEF t
<1>6. Counted(ClosedWriter(s))
  BY CountedClosed
<1> QED
  BY <1>3, <1>5, <1>6 DEF PushReliable

\* A message that replaces one that waits: its bytes are no longer counted.
LEMMA PushLatestCounted ==
    ASSUME NEW M, NEW s, Good(s, M), Counted(s), NEW item \in Items(M)
    PROVE  Counted(PushLatest(s, item))
<1> DEFINE newer == [item EXCEPT !.latest = TRUE]
           i == CHOOSE i \in WaitingLatest(s) : TRUE
<1>1. newer \in Items(M)
  BY DEF Items
<1>2. PushLatest(s, item) = IF s.closed \/ WaitingLatest(s) = {} THEN PushReliable(s, newer)
                            ELSE ReplaceLatest(s, i, newer)
  BY DEF PushLatest
<1>3. WaitingLatest(s) # {} => i \in DOMAIN s.reliable
  BY DEF WaitingLatest
<1> HIDE DEF newer, i
<1>4. CASE s.closed \/ WaitingLatest(s) = {}
  BY <1>1, <1>2, <1>4, PushReliableCounted
<1>5. CASE ~(s.closed \/ WaitingLatest(s) = {})
  <2> DEFINE new == ReplaceAt(s.reliable, i, newer)
             others == s.reliable_bytes - s.reliable[i].bytes
             bytes == others + newer.bytes
             t == [s EXCEPT !.reliable = new, !.reliable_bytes = bytes]
  <2>1. ReplaceLatest(s, i, newer) \in {t, ClosedWriter(s)}
    BY DEF ReplaceLatest
  <2>2. /\ s.reliable \in Seq(Items(M)) /\ s.reliable_bytes \in Int
        /\ BytesOf(s.reliable) \in Int /\ newer.bytes \in Int
    BY <1>1, WriterParts, ItemBytes DEF Good
  <2>3. i \in DOMAIN s.reliable /\ s.reliable[i].bytes \in Int
    <3>1. s.reliable[i] \in Items(M)
      BY <1>3, <1>5, <2>2, ElementOfSeq, LenProperties
    <3> QED
      BY <1>3, <1>5, <3>1, ItemBytes
  <2>4. new \in Seq(Items(M))
    BY <1>1, <2>2, <2>3, ExceptSeq DEF ReplaceAt
  <2>5. BytesOf(new) = BytesOf(s.reliable) - s.reliable[i].bytes + newer.bytes
    BY <1>1, <2>2, <2>3, ItemBytes, BytesOfReplaced
  <2> HIDE DEF new
  <2>6. bytes = s.reliable_bytes - BytesOf(s.reliable) + BytesOf(new)
    BY <2>2, <2>3, <2>5
  <2> HIDE DEF bytes
  <2>7. Counted(t)
    BY <2>4, <2>6, QueueCounted
  <2> HIDE DEF t
  <2> QED
    BY <1>2, <1>5, <2>1, <2>7, CountedClosed
<1> QED
  BY <1>4, <1>5

\* One lane changes.
LEMMA LaneCounted ==
    ASSUME NEW M, NEW s, Good(s, M), Counted(s), NEW l \in Lanes, NEW q,
           NEW t, t.reliable = s.reliable, t.reliable_bytes = s.reliable_bytes,
           t.current = s.current, t.lane = s.lane, t.render = [s.render EXCEPT ![l] = q],
           q.open => q.bytes = BytesOf(q.items) + Writing(s, l)
    PROVE  Counted(t)
<1>1. s.render \in [Lanes -> Queue(M)]
  BY WriterParts DEF Good
<1>2. t.render[l] = q /\ \A k \in Lanes : k # l => t.render[k] = s.render[k]
  BY <1>1
<1>3. \A k : Writing(t, k) = Writing(s, k)
  BY DEF Writing
<1> QED
  BY <1>2, <1>3 DEF Counted

\* A lane that opens has nothing, and nothing of it is being written.
LEMMA OpenLaneCounted ==
    ASSUME NEW M, NEW s, Good(s, M), Counted(s), NEW l \in Lanes, s.lane # l
    PROVE  Counted(OpenLane(s, l))
<1> DEFINE yes == TRUE
           q == [NoQueue EXCEPT !.open = yes]
           t == [s EXCEPT !.render = [s.render EXCEPT ![l] = q]]
<1>1. t = OpenLane(s, l)
  BY DEF OpenLane
<1>2. q.bytes = 0 /\ q.items = <<>>
  <2> HIDE DEF yes
  <2> QED
    BY DEF NoQueue
<1>3. Writing(s, l) = 0
  BY DEF Writing
<1> DEFINE render == [s.render EXCEPT ![l] = q]
<1>4. t = [s EXCEPT !.render = render] /\ render = [s.render EXCEPT ![l] = q]
  OBVIOUS
<1> HIDE DEF q, render
<1>5. /\ t.reliable = s.reliable /\ t.reliable_bytes = s.reliable_bytes /\ t.current = s.current
      /\ t.lane = s.lane /\ t.render = render
  BY <1>4 DEF Good, Writer
<1>6. t.render = [s.render EXCEPT ![l] = q]
  BY <1>4, <1>5
<1> HIDE DEF t
<1>7. q.open => q.bytes = BytesOf(q.items) + Writing(s, l)
  BY <1>2, <1>3, BytesOfNone
<1>8. Counted(t)
  BY <1>5, <1>6, <1>7, LaneCounted
<1> QED
  BY <1>1, <1>8

\* A lane that closes counts no more.
LEMMA DropLaneCounted ==
    ASSUME NEW M, NEW s, Good(s, M), Counted(s), NEW l \in Lanes
    PROVE  Counted(DropLane(s, l))
<1> DEFINE render == [s.render EXCEPT ![l] = NoQueue]
           t == [s EXCEPT !.render = render]
<1>1. t = DropLane(s, l)
  BY DEF DropLane
<1>2. render = [s.render EXCEPT ![l] = NoQueue]
  OBVIOUS
<1> HIDE DEF render
<1>3. /\ t.reliable = s.reliable /\ t.reliable_bytes = s.reliable_bytes /\ t.current = s.current
      /\ t.lane = s.lane /\ t.render = render
  BY DEF Good, Writer
<1> HIDE DEF t
<1>4. Counted(t)
  BY <1>2, <1>3, NoQueueBytes, LaneCounted
<1> QED
  BY <1>1, <1>4

\* A frame that is queued
LEMMA EnqueueCounted ==
    ASSUME NEW M, NEW s, Good(s, M), Counted(s), NEW l \in Lanes, NEW item \in Items(M)
    PROVE  Counted(Enqueue(s, l, item))
<1> DEFINE queue == s.render[l]
           items == Append(queue.items, item)
           bytes == queue.bytes + item.bytes
           yes == TRUE
           q == [queue EXCEPT !.items = items, !.bytes = bytes, !.ready = yes]
           order == IF queue.ready THEN s.render_ready ELSE Append(s.render_ready, l)
           render == [s.render EXCEPT ![l] = q]
           t == [s EXCEPT !.render = render, !.render_ready = order]
<1>1. t = Enqueue(s, l, item)
  BY DEF Enqueue
<1>2. queue \in Queue(M)
  BY WriterParts DEF Good
<1>3. queue.items \in Seq(Items(M)) /\ queue.bytes \in Int /\ item.bytes \in Int
      /\ BytesOf(queue.items) \in Int /\ Writing(s, l) \in Int
  BY <1>2, QueueParts, ItemBytes, WritingBytes DEF Good
<1>4. BytesOf(items) = BytesOf(queue.items) + item.bytes
  BY <1>3, ItemBytes, BytesOfAppend
<1>5. queue.open => queue.bytes = BytesOf(queue.items) + Writing(s, l)
  BY DEF Counted
<1> HIDE DEF items, yes, order, queue
<1>6. queue.open => bytes = BytesOf(items) + Writing(s, l)
  BY <1>3, <1>4, <1>5
<1> HIDE DEF bytes
<1>7. q.open = queue.open /\ q.bytes = bytes /\ q.items = items
  BY <1>2 DEF Queue
<1> HIDE DEF q
<1>8. render = [s.render EXCEPT ![l] = q]
  OBVIOUS
<1> HIDE DEF render
<1>9. /\ t.reliable = s.reliable /\ t.reliable_bytes = s.reliable_bytes /\ t.current = s.current
      /\ t.lane = s.lane /\ t.render = render
  BY DEF Good, Writer
<1> HIDE DEF t
<1>10. Counted(t)
  BY <1>6, <1>7, <1>8, <1>9, LaneCounted
<1> QED
  BY <1>1, <1>10

-----------------------------------------------------------------------------
(* The bytes that are counted, and the writer task.                        *)

\* The lanes that are passed over keep their frames.
LEMMA UnreadyCounted ==
    ASSUME NEW M, NEW s, Good(s, M), Counted(s), NEW n \in 0 .. Len(s.render_ready)
    PROVE  /\ Counted(Unready(s, n))
           /\ Unready(s, n) \in Writer(M) /\ Unready(s, n).current = s.current
<1> DEFINE order == SubSeq(s.render_ready, n + 1, Len(s.render_ready))
           passed == {s.render_ready[i] : i \in 1 .. n}
           no == FALSE
           old(l) == s.render[l]
           q(l) == IF l \in passed THEN [old(l) EXCEPT !.ready = no] ELSE old(l)
           render == [l \in Lanes |-> q(l)]
           t == [s EXCEPT !.render_ready = order, !.render = render]
<1>1. s \in Writer(M) /\ \A l \in Lanes : old(l) \in Queue(M)
  BY WriterParts DEF Good
<1>2. Unready(s, n) = t
  <2>1. [s EXCEPT !.render_ready = order].render = s.render
    BY <1>1 DEF Writer
  <2>2. Unready(s, n) = [[s EXCEPT !.render_ready = order] EXCEPT !.render = render]
    BY <2>1 DEF Unready
  <2> HIDE DEF order, render
  <2> QED
    BY <2>2
<1> HIDE DEF order, passed, no
<1>3. \A l \in Lanes : q(l).open = old(l).open /\ q(l).items = old(l).items /\ q(l).bytes = old(l).bytes
  BY <1>1 DEF Queue
<1> HIDE DEF q
<1>4. \A l \in Lanes : render[l] = q(l)
  OBVIOUS
<1> HIDE DEF render
<1>5. /\ t.reliable = s.reliable /\ t.reliable_bytes = s.reliable_bytes /\ t.current = s.current
      /\ t.lane = s.lane /\ t.render = render
  BY <1>1 DEF Writer
<1> HIDE DEF t
<1>6. Counted(t)
  BY <1>3, <1>4, <1>5, CountedSame
<1>7. t \in Writer(M)
  BY <1>2, UnreadyParts DEF Good, Turns, PassedOver
<1> QED
  BY <1>2, <1>5, <1>6, <1>7

\* A frame leaves its lane's queue to be written, and counts until it is.
LEMMA PopRenderCounted ==
    ASSUME NEW M, NEW s \in Writer(M), Counted(s), s.current = NoItem, NEW l \in Lanes,
           s.render[l].items # <<>>
    PROVE  Counted(PopRender(s, l))
<1> DEFINE queue == s.render[l]
           rest == Tail(queue.items)
           again == rest # <<>> /\ ~queue.ready
           ready == queue.ready \/ again
           q == [queue EXCEPT !.items = rest, !.ready = ready]
           order == IF again THEN Append(s.render_ready, l) ELSE s.render_ready
           front == Head(queue.items)
           render == [s.render EXCEPT ![l] = q]
           t == [s EXCEPT !.current = front, !.lane = l, !.render = render,
                          !.render_ready = order]
<1>1. queue \in Queue(M) /\ queue.items \in Seq(Items(M)) /\ s.render \in [Lanes -> Queue(M)]
  BY WriterParts, QueueParts
<1>2. /\ rest \in Seq(Items(M)) /\ front \in Items(M) /\ front # NoItem
      /\ BytesOf(rest) = BytesOf(queue.items) - front.bytes
  BY <1>1, HeadTailProperties, NoItemBegun, ItemBytes, BytesOfTail
<1>3. PopRender(s, l) = t
  BY DEF PopRender
<1>4. BytesOf(queue.items) \in Int /\ front.bytes \in Int
  BY <1>1, <1>2, ItemBytes
<1> HIDE DEF ready, order, rest, front
<1>5. q.items = rest /\ q.open = queue.open /\ q.bytes = queue.bytes
  BY <1>1 DEF Queue
<1>6. queue.open => queue.bytes = BytesOf(queue.items)
  <2>1. queue.open => queue.bytes = BytesOf(queue.items) + Writing(s, l)
    BY DEF Counted
  <2>2. Writing(s, l) = 0
    BY DEF Writing
  <2> QED
    BY <1>4, <2>1, <2>2
<1> HIDE DEF q
<1>7. render[l] = q /\ \A k \in Lanes : k # l => render[k] = s.render[k]
  BY <1>1
<1> HIDE DEF render
<1>8. /\ t.reliable = s.reliable /\ t.reliable_bytes = s.reliable_bytes /\ t.current = front
      /\ t.lane = l /\ t.render = render
  BY DEF Writer
<1> HIDE DEF t
<1>9. Writing(t, l) = front.bytes /\ \A k : k # l => Writing(t, k) = Writing(s, k)
  BY <1>2, <1>8 DEF Writing
<1>10. q.open => q.bytes = BytesOf(q.items) + Writing(t, l)
  BY <1>2, <1>4, <1>5, <1>6, <1>9
<1>11. l # NoLane
  BY WriterAssumption
<1>12. Counted(t)
  BY <1>7, <1>8, <1>9, <1>10, <1>11 DEF Counted
<1> QED
  BY <1>3, <1>12

\* The lane whose turn it is
LEMMA NextRenderCounted ==
    ASSUME NEW M, NEW s, Good(s, M), Counted(s), s.current = NoItem
    PROVE  Counted(NextRender(s))
<1> DEFINE order == s.render_ready
           waiting == {i \in DOMAIN order : Queued(s, order[i])}
<1>1. s \in Writer(M) /\ order \in Seq(Lanes)
  BY WriterParts DEF Good
<1>2. Len(order) \in Nat /\ DOMAIN order = 1 .. Len(order)
  BY <1>1, LenProperties
<1>3. CASE waiting = {}
  <2>1. NextRender(s) = Unready(s, Len(order))
    BY <1>3 DEF NextRender
  <2> QED
    BY <1>2, <2>1, UnreadyCounted
<1>4. CASE waiting # {}
  <2> DEFINE n == CHOOSE i \in waiting : \A j \in waiting : i <= j
             l == order[n]
             u == Unready(s, n)
  <2>1. NextRender(s) = PopRender(u, l)
    BY <1>4 DEF NextRender
  <2>2. n \in waiting
    <3>1. waiting \subseteq Nat
      BY <1>2
    <3> HIDE DEF waiting
    <3>2. \E i \in waiting : \A j \in waiting : i <= j
      BY <1>4, <3>1, LeastNumber
    <3> QED
      BY <3>2
  <2> HIDE DEF n
  <2>3. n \in 0 .. Len(s.render_ready) /\ n \in DOMAIN order
    BY <1>2, <2>2
  <2>4. PassedOver(s, n, u, M) /\ Counted(u) /\ u \in Writer(M) /\ u.current = s.current
    BY <2>3, UnreadyParts, UnreadyCounted DEF Good, Turns
  <2> HIDE DEF u
  <2>5. l \in Lanes /\ s.render[l].items # <<>>
    BY <1>1, <1>2, <2>2, ElementOfSeq DEF Queued
  <2> HIDE DEF l
  <2>6. u.render[l].items # <<>>
    BY <2>4, <2>5 DEF PassedOver
  <2> QED
    BY <2>1, <2>4, <2>5, <2>6, PopRenderCounted
<1> QED
  BY <1>3, <1>4

\* The item that is due
LEMMA NextCurrentCounted ==
    ASSUME NEW M, NEW s, Good(s, M), Counted(s), s.current = NoItem
    PROVE  Counted(NextCurrent(s))
<1>1. s \in Writer(M) /\ s.reliable \in Seq(Items(M))
  BY WriterParts DEF Good
<1>2. CASE s.reliable = <<>>
  BY <1>2, NextRenderCounted DEF NextCurrent
<1>3. CASE s.reliable # <<>>
  <2> DEFINE front == Head(s.reliable)
             rest == Tail(s.reliable)
             l == front.after_lane
             t == [s EXCEPT !.current = front, !.lane = NoLane, !.reliable = rest]
  <2>1. /\ front \in Items(M) /\ front # NoItem
        /\ BytesOf(rest) = BytesOf(s.reliable) - front.bytes
    BY <1>1, <1>3, HeadTailProperties, NoItemBegun, ItemBytes, BytesOfTail
  <2>2. BytesOf(s.reliable) \in Int /\ front.bytes \in Int
    BY <1>1, <2>1, ItemBytes
  <2>3. l \in Lanes \cup {NoLane}
    BY <2>1 DEF Items
  <2>4. NextCurrent(s) = IF Queued(s, l) THEN PopRender(s, l) ELSE t
    <3>1. t = [s EXCEPT !.current = front, !.lane = NoLane, !.reliable = Tail(@)]
      BY <1>1 DEF Writer
    <3> QED
      BY <1>3, <3>1 DEF NextCurrent
  <2> HIDE DEF front, rest
  <2>5. CASE Queued(s, l)
    <3>1. l \in Lanes /\ s.render[l].items # <<>>
      BY <2>3, <2>5 DEF Queued
    <3> QED
      BY <1>1, <2>4, <2>5, <3>1, PopRenderCounted
  <2>6. CASE ~Queued(s, l)
    <3>1. /\ t.reliable = rest /\ t.reliable_bytes = s.reliable_bytes /\ t.current = front
          /\ t.lane = NoLane /\ t.render = s.render
      BY <1>1 DEF Writer
    <3>2. NextCurrent(s) = t
      BY <2>4, <2>6
    <3> HIDE DEF t
    <3>3. /\ Writing(t, NoLane) = front.bytes /\ Writing(s, NoLane) = 0
          /\ \A k \in Lanes : Writing(t, k) = 0 /\ Writing(s, k) = 0
      BY <2>1, <3>1, WriterAssumption DEF Writing
    <3>4. Counted(t)
      BY <2>1, <2>2, <3>1, <3>3 DEF Counted
    <3> QED
      BY <3>2, <3>4
  <2> QED
    BY <2>5, <2>6
<1> QED
  BY <1>2, <1>3

\* select
LEMMA SelectCounted ==
    ASSUME NEW M, NEW s, Good(s, M), Counted(s), s.slot = "none"
    PROVE  Counted(Select(s))
<1> DEFINE mine == "interactive"
           its == "current"
<1>1. s \in Writer(M)
  BY DEF Good
<1>2. CASE s.current_interactive # NoItem \/ s.interactive # <<>>
  <2> DEFINE item == IF s.current_interactive # NoItem
                     THEN [s.current_interactive EXCEPT !.left = @ - 1]
                     ELSE [Head(s.interactive) EXCEPT !.left = @ - 1]
             rest == IF s.current_interactive # NoItem THEN s.interactive ELSE Tail(s.interactive)
             t == [s EXCEPT !.current_interactive = item, !.interactive = rest, !.slot = mine]
  <2>1. Select(s) = t
    BY <1>1, <1>2 DEF Select, Writer
  <2> HIDE DEF item, rest, mine
  <2>2. /\ t.reliable = s.reliable /\ t.reliable_bytes = s.reliable_bytes
        /\ t.current = s.current /\ t.lane = s.lane /\ t.render = s.render
    BY <1>1 DEF Writer
  <2> HIDE DEF t
  <2> QED
    BY <2>1, <2>2, CountedSame
<1>3. CASE s.current_interactive = NoItem /\ s.interactive = <<>>
  <2> DEFINE chosen == IF s.current = NoItem THEN NextCurrent(s) ELSE s
             fewer == chosen.current.left - 1
             item == [chosen.current EXCEPT !.left = fewer]
             t == [chosen EXCEPT !.current = item, !.slot = its]
  <2>1. Select(s) = IF chosen.current = NoItem THEN chosen
                    ELSE [chosen EXCEPT !.current.left = @ - 1, !.slot = "current"]
    BY <1>3 DEF Select
  <2>2. Good(chosen, M) /\ Counted(chosen) /\ chosen.slot = "none"
    BY NextCurrentGood, NextCurrentCounted DEF Takes
  <2> HIDE DEF chosen
  <2>3. chosen \in Writer(M) /\ chosen.current \in UnderWay(M)
    BY <2>2, WriterParts DEF Good
  <2>4. CASE chosen.current # NoItem
    <3>1. Select(s) = t
      BY <2>1, <2>3, <2>4 DEF Writer
    <3>2. chosen.current \in Begun(M)
      BY <2>3, <2>4 DEF UnderWay
    <3>3. [chosen.current EXCEPT !.left = @ - 1] = item
      OBVIOUS
    <3>4. [chosen.current EXCEPT !.left = @ - 1] # NoItem
      <4>1. chosen.current.left # 0
        BY <2>2, <2>4, <1>3 DEF Good, Begins
      <4> QED
        BY <2>3, <2>4, <4>1, LeftTaken
    <3> HIDE DEF fewer
    <3>5. item.bytes = chosen.current.bytes
      BY <3>2 DEF Begun
    <3>6. item # NoItem
      BY <3>3, <3>4
    <3> HIDE DEF item, its
    <3>7. /\ t.reliable = chosen.reliable /\ t.reliable_bytes = chosen.reliable_bytes
          /\ t.current = item /\ t.lane = chosen.lane /\ t.render = chosen.render
      BY <2>3 DEF Writer
    <3> HIDE DEF t
    <3>8. Counted(t)
      BY <2>2, <2>4, <3>5, <3>6, <3>7, CountedSame
    <3> QED
      BY <3>1, <3>8
  <2> QED
    BY <2>1, <2>2, <2>4
<1> QED
  BY <1>2, <1>3

\* finish: what was written counts no more, once all its frames are.
LEMMA FinishCounted ==
    ASSUME NEW M, NEW s, Good(s, M), Counted(s), s.slot # "none"
    PROVE  Counted(Finish(s))
<1> DEFINE item == IF s.slot = "interactive" THEN s.current_interactive ELSE s.current
           none == "none"
           written == [s EXCEPT !.slot = none]
<1>1. /\ s \in Writer(M) /\ Begins(s) /\ s.lane \in Lanes \cup {NoLane}
      /\ s.slot \in {"interactive", "current"} /\ s.reliable_bytes \in Int
      /\ s.render \in [Lanes -> Queue(M)] /\ s.reliable \in Seq(Items(M))
      /\ s.current_interactive \in UnderWay(M) /\ s.current \in UnderWay(M)
  BY WriterParts DEF Good
<1>2. item \in UnderWay(M) /\ item # NoItem
  BY <1>1 DEF Begins
<1>3. item.left \in Nat /\ item.bytes \in Int /\ (item.left > 0 \/ item.left = 0)
  BY <1>2, NoItemBegun
<1>4. /\ written \in Writer(M) /\ written.render = s.render /\ written.current = s.current
      /\ written.reliable_bytes = s.reliable_bytes /\ written.reliable = s.reliable
      /\ written.lane = s.lane
  BY <1>1 DEF Writer
<1>5. Finish(s) =
        CASE item.left > 0 -> written
          [] s.slot = "interactive" /\ item.left = 0 ->
                 [written EXCEPT !.current_interactive = NoItem]
          [] s.slot = "current" /\ item.left = 0 /\ s.lane = NoLane ->
                 [written EXCEPT !.current = NoItem, !.reliable_bytes = @ - item.bytes]
          [] s.slot = "current" /\ item.left = 0 /\ s.lane # NoLane ->
                 [written EXCEPT !.current = NoItem, !.lane = NoLane,
                                 !.render[s.lane].bytes =
                                     IF s.render[s.lane].open THEN @ - item.bytes ELSE @]
  BY DEF Finish
<1>6. s.slot = "current" => item = s.current
  BY <1>1
<1> HIDE DEF item, written
<1>7. CASE item.left > 0
  <2>1. Finish(s) = written
    BY <1>3, <1>5, <1>7
  <2> QED
    BY <1>4, <2>1, CountedSame
<1>8. CASE s.slot = "interactive" /\ item.left = 0
  <2> DEFINE t == [written EXCEPT !.current_interactive = NoItem]
  <2>1. Finish(s) = t
    BY <1>3, <1>5, <1>8
  <2>2. /\ t.reliable = s.reliable /\ t.reliable_bytes = s.reliable_bytes
        /\ t.current = s.current /\ t.lane = s.lane /\ t.render = s.render
    BY <1>4 DEF Writer
  <2> HIDE DEF t
  <2> QED
    BY <2>1, <2>2, CountedSame
<1>9. CASE s.slot = "current" /\ item.left = 0 /\ s.lane = NoLane
  <2> DEFINE bytes == s.reliable_bytes - item.bytes
             t == [written EXCEPT !.current = NoItem, !.reliable_bytes = bytes]
  <2>1. Finish(s) = t
    <3>1. Finish(s) = [written EXCEPT !.current = NoItem, !.reliable_bytes = @ - item.bytes]
      BY <1>3, <1>5, <1>9
    <3> QED
      BY <1>4, <3>1 DEF Writer
  <2>2. BytesOf(s.reliable) \in Int
    BY <1>1, ItemBytes
  <2>3. /\ Writing(s, NoLane) = item.bytes
        /\ \A k \in Lanes : Writing(s, k) = 0
    BY <1>2, <1>6, <1>9, WriterAssumption DEF Writing
  <2>4. bytes = BytesOf(s.reliable)
    BY <1>3, <2>2, <2>3 DEF Counted
  <2> HIDE DEF bytes
  <2>5. /\ t.reliable = s.reliable /\ t.reliable_bytes = bytes
        /\ t.current = NoItem /\ t.render = s.render
    BY <1>4 DEF Writer
  <2> HIDE DEF t
  <2>6. \A k : Writing(t, k) = 0
    BY <2>5 DEF Writing
  <2>7. Counted(t)
    BY <2>2, <2>3, <2>4, <2>5, <2>6 DEF Counted
  <2> QED
    BY <2>1, <2>7
<1>10. CASE s.slot = "current" /\ item.left = 0 /\ s.lane # NoLane
  <2> DEFINE l == s.lane
             queue == s.render[l]
             bytes == IF queue.open THEN queue.bytes - item.bytes ELSE queue.bytes
             q == [queue EXCEPT !.bytes = bytes]
             render == [s.render EXCEPT ![l] = q]
             t == [written EXCEPT !.current = NoItem, !.lane = NoLane, !.render = render]
  <2>1. l \in Lanes /\ queue \in Queue(M) /\ l # NoLane
    BY <1>1, <1>10
  <2>2. Finish(s) = t
    <3>1. Finish(s) = [written EXCEPT !.current = NoItem, !.lane = NoLane,
                                      !.render[l].bytes =
                                          IF queue.open THEN @ - item.bytes ELSE @]
      BY <1>3, <1>5, <1>10
    <3> QED
      BY <1>4, <3>1 DEF Writer
  <2>3. /\ Writing(s, l) = item.bytes /\ Writing(s, NoLane) = 0
        /\ \A k \in Lanes : k # l => Writing(s, k) = 0
    BY <1>2, <1>6, <1>10 DEF Writing
  <2>4. /\ BytesOf(queue.items) \in Int /\ BytesOf(s.reliable) \in Int
        /\ s.reliable_bytes = BytesOf(s.reliable)
        /\ queue.open => queue.bytes = BytesOf(queue.items) + item.bytes
    <3>1. BytesOf(queue.items) \in Int /\ BytesOf(s.reliable) \in Int
      BY <1>1, <2>1, QueueParts, ItemBytes
    <3>2. s.reliable_bytes = BytesOf(s.reliable) + Writing(s, NoLane)
      BY DEF Counted
    <3>3. queue.open => queue.bytes = BytesOf(queue.items) + Writing(s, l)
      BY <2>1 DEF Counted
    <3> HIDE DEF queue, l
    <3> QED
      BY <2>3, <3>1, <3>2, <3>3
  <2>5. \A k \in Lanes : k # l => (s.render[k].open => s.render[k].bytes = BytesOf(s.render[k].items) + 0)
    BY <2>3 DEF Counted
  <2> HIDE DEF queue
  <2>6. queue.open => bytes = BytesOf(queue.items)
    BY <1>3, <2>4
  <2> HIDE DEF bytes
  <2>7. q.open = queue.open /\ q.items = queue.items /\ q.bytes = bytes
    BY <2>1 DEF Queue
  <2> HIDE DEF q
  <2>8. render[l] = q /\ \A k \in Lanes : k # l => render[k] = s.render[k]
    BY <1>1, <2>1
  <2> HIDE DEF render
  <2>9. /\ t.reliable = s.reliable /\ t.reliable_bytes = s.reliable_bytes
        /\ t.current = NoItem /\ t.render = render
    BY <1>4 DEF Writer
  <2> HIDE DEF t, l
  <2>10. \A k : Writing(t, k) = 0
    BY <2>9 DEF Writing
  <2>11. t.reliable_bytes = BytesOf(t.reliable) + Writing(t, NoLane)
    BY <2>4, <2>9, <2>10
  <2>12. ASSUME NEW k \in Lanes, t.render[k].open
         PROVE  t.render[k].bytes = BytesOf(t.render[k].items) + Writing(t, k)
    <3>1. CASE k = l
      BY <2>4, <2>6, <2>7, <2>8, <2>9, <2>10, <2>12, <3>1
    <3>2. CASE k # l
      BY <2>5, <2>8, <2>9, <2>10, <2>12, <3>2
    <3> QED
      BY <3>1, <3>2
  <2>13. Counted(t)
    BY <2>11, <2>12 DEF Counted
  <2> QED
    BY <2>2, <2>13
<1> QED
  BY <1>1, <1>3, <1>7, <1>8, <1>9, <1>10

\* A message that is queued leaves the lane that is served alone.
LEMMA PushReliableLane ==
    ASSUME NEW M, NEW s, Good(s, M), NEW item
    PROVE  PushReliable(s, item).closed \/ PushReliable(s, item).lane = s.lane
<1> DEFINE more == Append(s.reliable, item)
           bytes == s.reliable_bytes + item.bytes
           t == [s EXCEPT !.reliable = more, !.reliable_bytes = bytes]
<1>1. PushReliable(s, item) \in {s, t, ClosedWriter(s)}
  BY DEF PushReliable
<1> HIDE DEF more, bytes
<1>2. t.lane = s.lane
  BY DEF Good, Writer
<1> QED
  BY <1>1, <1>2, ClosedGood

-----------------------------------------------------------------------------
(* Every step counts the bytes.                                            *)

Exact == Counted(writer)

\* Streams, as they start, stop and end, open and drop lanes.
LEMMA ReconcileCounted ==
    ASSUME NEW s, Good(s, Messages), Counted(s), s.lane = writer.lane,
           NEW restart, Reconcile(restart, s)
    PROVE  Exact'
<1>1. CASE writer' = s
  BY <1>1 DEF Exact
<1>2. CASE writer' # s
  <2> DEFINE l == CHOOSE k \in Lanes : Free(k)
  <2>1. l \in Lanes /\ Free(l) /\ Start(l, s)
    BY <1>2 DEF Reconcile, Stop
  <2> HIDE DEF l
  <2>2. writer' = OpenLane(s, l) /\ s.lane # l
    BY <2>1 DEF Free, Start
  <2> QED
    BY <2>1, <2>2, OpenLaneCounted DEF Exact
<1> QED
  BY <1>1, <1>2

\* A stream that ends drops its lane.
LEMMA EndStreamCounted ==
    ASSUME Types, Exact, NEW l \in Lanes, EndStream(l)
    PROVE  Exact'
BY DropLaneCounted DEF EndStream, Exact, Types, WriterTypes

\* A response is queued before its stream starts.
LEMMA AnswerCounted == Types /\ Exact /\ (Answer \/ ReconcileEarly) => Exact'
<1>1. SUFFICES ASSUME Types, Exact, Answer \/ ReconcileEarly PROVE Exact'
  OBVIOUS
<1>2. Good(writer, Messages) /\ Counted(writer)
  BY <1>1 DEF Types, WriterTypes, Exact
<1>3. CASE Answer
  <2> DEFINE answered == PushReliable(writer, Item(Response(request), 1))
  <2>1. Item(Response(request), 1) \in Items(Messages)
    BY <1>1, ResponseTyped DEF Types
  <2>2. /\ Good(answered, Messages) /\ Counted(answered)
        /\ answered.closed \/ answered.lane = writer.lane
    BY <1>2, <2>1, PushReliableGood, PushReliableCounted, PushReliableLane DEF Sends
  <2>3. \/ writer' = answered
        \/ ~answered.closed /\ Reconcile(request.kind \in {"spawn", "attach"}, answered)
    BY <1>3 DEF Answer
  <2> HIDE DEF answered
  <2> QED
    BY <2>2, <2>3, ReconcileCounted DEF Exact
<1>4. CASE ReconcileEarly
  BY <1>2, <1>4, ReconcileCounted DEF ReconcileEarly
<1> QED
  BY <1>1, <1>3, <1>4

\* Other messages, the writer task, and the ends of a connection
LEMMA WriterCounted ==
    Types /\ Exact /\ (SendOther \/ LoseConnection \/ Take \/ Deliver \/ Disconnect \/ Reconnect)
        => Exact'
<1>1. SUFFICES ASSUME Types, Exact,
                      SendOther \/ LoseConnection \/ Take \/ Deliver \/ Disconnect \/ Reconnect
               PROVE  Exact'
  OBVIOUS
<1>2. Good(writer, Messages) /\ Counted(writer)
  BY <1>1 DEF Types, WriterTypes, Exact
<1>3. CASE SendOther
  <2>1. writer' \in {PushInteractive(writer, Item(OtherMessage, 1)),
                     PushReliable(writer, Item(OtherMessage, 2)),
                     PushLatest(writer, Item(OtherMessage, 1)),
                     PushLatest(writer, Item(OtherMessage, 2))}
    BY <1>3 DEF SendOther, OtherMessage
  <2> QED
    BY <1>2, <2>1, OtherTyped, PushInteractiveCounted, PushReliableCounted, PushLatestCounted
       DEF Exact
<1>4. CASE LoseConnection \/ Disconnect
  <2>1. writer' = ClosedWriter(writer)
    BY <1>4 DEF LoseConnection, CloseWriter, Disconnect
  <2> QED
    BY <1>2, <2>1, CountedClosed DEF Exact
<1>5. CASE Take
  BY <1>2, <1>5, SelectCounted DEF Take, TakeFrame, Exact
<1>6. CASE Deliver
  BY <1>2, <1>6, FinishCounted DEF Deliver, WriteFrame, Exact
<1>7. CASE Reconnect
  BY <1>7, CountedNew DEF Reconnect, Exact
<1> QED
  BY <1>1, <1>3, <1>4, <1>5, <1>6, <1>7

\* A stream queues snapshots, deltas and its exit.
LEMMA StreamCounted ==
    \A l \in Lanes : Types /\ Exact /\ StreamStep(l) => Exact'
<1>1. SUFFICES ASSUME NEW l \in Lanes, Types, Exact, StreamStep(l) PROVE Exact'
  OBVIOUS
<1>2. Good(writer, Messages) /\ Counted(writer)
  BY <1>1 DEF Types, WriterTypes, Exact
<1>3. ASSUME NEW update \in Updates
      PROVE  /\ Good(Enqueue(writer, l, Frame(update)), Messages)
             /\ Counted(Enqueue(writer, l, Frame(update)))
  BY <1>2, FrameTyped, EnqueueGood, EnqueueCounted
<1>4. CASE EndStream(l)
  BY <1>1, <1>4, EndStreamCounted
<1>5. CASE UNCHANGED writer
  BY <1>1, <1>5 DEF Exact
<1>6. CASE SendSnapshot(l) /\ ~EndStream(l)
  <2> DEFINE s == stream[l]
             viewport == CurrentViewport(l, s.scrolled)
             sent == Enqueue(writer, l, Frame(viewport))
             exit == [ExitMessage(s.pending.sequence) EXCEPT !.after_lane = l]
  <2>1. viewport \in Updates /\ s.pending.sequence \in Nat
    <3>1. StreamFits(s) /\ s.scrolled \in BOOLEAN /\ s.pending.sequence \in Nat
      BY <1>1, StreamIs, StreamParts, UpdateParts DEF Types
    <3>2. CanView(l, s.scrolled) /\ l \in Threads
      BY <1>6, ThreadsAre DEF SendSnapshot
    <3> QED
      BY <1>1, <3>1, <3>2, ViewportTyped DEF Types
  <2>2. exit \in Items(Messages)
    BY <2>1, ExitTyped, ItemTyped
  <2>3. writer' \in {sent, PushReliable(sent, exit)}
    BY <1>6 DEF SendSnapshot, ExitMessage
  <2>4. Good(sent, Messages) /\ Counted(sent)
    BY <1>3, <2>1
  <2> HIDE DEF sent, exit
  <2> QED
    BY <2>2, <2>3, <2>4, PushReliableCounted DEF Exact
<1>7. CASE Tick(l) /\ ~EndStream(l)
  <2>1. stream[l].pending \in Updates /\ MetadataDelta(stream[l].baseline) \in Updates
    <3>1. StreamFits(stream[l])
      BY <1>1, StreamIs DEF Types
    <3> QED
      BY <1>1, <3>1, StreamParts, MetadataDeltaTyped DEF Types
  <2>2. \/ UNCHANGED writer
        \/ writer' = Enqueue(writer, l, Frame(stream[l].pending))
        \/ writer' = Enqueue(writer, l, Frame(MetadataDelta(stream[l].baseline)))
    BY <1>7 DEF Tick
  <2> QED
    BY <1>3, <1>5, <2>1, <2>2 DEF Exact
<1>8. StreamStep(l) => \/ EndStream(l) \/ UNCHANGED writer \/ SendSnapshot(l) \/ Tick(l)
  BY DEF StreamStep, StreamSends, OpenStream, LookAtStale, ReadContext, Capture, Publish, CheckExited,
         Drained, Dropped, ReceiveEvent, ReceiveView, clientSide
<1> QED
  BY <1>1, <1>4, <1>5, <1>6, <1>7, <1>8

\* A run starts with a writer that counts.
LEMMA InitCounted == Init => Exact
<1>1. SUFFICES ASSUME Init PROVE Exact
  OBVIOUS
<1>2. Counted(NewWriter) /\ Good(NewWriter, {}) /\ NewWriter.lane = NoLane
  BY CountedNew, NewGood DEF NewWriter
<1> DEFINE l == CHOOSE lane \in Lanes : TRUE
<1>3. writer = NewWriter \/ writer = OpenLane(NewWriter, l)
  BY <1>1 DEF Init
<1>4. l \in Lanes /\ l # NoLane
  BY StreamAssumption, WriterAssumption
<1> HIDE DEF l
<1>5. Counted(OpenLane(NewWriter, l))
  BY <1>2, <1>4, OpenLaneCounted
<1> QED
  BY <1>2, <1>3, <1>5 DEF Exact

\* Every step keeps the counts exact.
LEMMA StepCounted == Types /\ Exact /\ [Next]_vars => Exact'
<1>1. SUFFICES ASSUME Types, Exact, [Next]_vars PROVE Exact'
  OBVIOUS
<1>2. CASE UNCHANGED writer
  BY <1>1, <1>2 DEF Exact
<1>3. CASE Happens
  BY <1>1, <1>2, <1>3, AnswerCounted, WriterCounted
     DEF Happens, ReadOutput, SetTitle, Exit, SetVisible, OtherWatches, ScrollView, Spawned, Attach,
         Detach, clientSide
<1>4. CASE Terminal
  BY <1>2, <1>4
     DEF Terminal, Captures, PublisherStarts, PublisherDecides, Capture, Publish, ExitState, TellExit,
         clientSide
<1>5. CASE Requests
  BY <1>1, <1>2, <1>5, AnswerCounted
     DEF Requests, Captures, LookAtStale, ReadContext, Capture, Publish, Attached, clientSide
<1>6. CASE Session
  BY <1>1, <1>6, WriterCounted DEF Session
<1>7. CASE \E who \in {"viewer", "other"} : StoreCount(who)
  BY <1>2, <1>7 DEF StoreCount
<1>8. CASE \E l \in Lanes : StreamStep(l)
  BY <1>1, <1>8, StreamCounted
<1>9. CASE UNCHANGED vars
  BY <1>2, <1>9 DEF vars
<1> QED
  BY <1>1, <1>3, <1>4, <1>5, <1>6, <1>7, <1>8, <1>9 DEF Next

\* What admits and refuses messages is exact, in every run of TerminalStream: what is counted
\* for the reliable queue and for each lane is the sum of the items that wait there or are
\* being written, whatever was replaced, dropped, passed over or closed (session.rs).
THEOREM BytesCountedAlways == Spec => []BytesCounted
<1>1. Exact => BytesCounted
  BY DEF Exact, Counted, BytesCounted
<1>2. Init => Exact
  BY InitCounted
<1>3. Types /\ Exact /\ [Next]_vars => Exact'
  BY StepCounted
<1> QED
  BY <1>1, <1>2, <1>3, TypesHold, PTL DEF Spec

-----------------------------------------------------------------------------
(* What is on its way to the Client.                                       *)

\* The frame of a lane waits there, or is being written.
Sending(s, l) == s.lane = l \/ s.render[l].items # <<>>
Sent(s, l) == IF s.lane = l THEN s.current.msg.update ELSE s.render[l].items[1].msg.update

\* The frame of lane k goes before that of lane l.
InTurn(order, k, l) == \E i, j \in DOMAIN order : i < j /\ order[i] = k /\ order[j] = l
Before(s, k, l) == s.lane = k \/ (s.lane # l /\ InTurn(s.render_ready, k, l))

\* The lanes that messages wait for, and the messages on their way that are not frames
Awaited(s) == {s.reliable[i].after_lane : i \in DOMAIN s.reliable}
Current(s) == IF s.lane = NoLane /\ s.current # NoItem THEN {s.current.msg} ELSE {}
Told(s) == {s.reliable[i].msg : i \in DOMAIN s.reliable} \cup Current(s)

\* A response by which the Client knows of the terminal goes before any frame.
Introduces(msg) == msg.kind = "response" /\ msg.of \in {"spawn", "attach"}
Promised(reliable) ==
    \E i \in DOMAIN reliable : /\ Introduces(reliable[i].msg)
                               /\ \A j \in 1 .. i : reliable[j].after_lane = NoLane
Introducing(s) ==
    /\ s.lane = NoLane
    /\ (s.current # NoItem /\ Introduces(s.current.msg)) \/ Promised(s.reliable)

\* A lane has one frame at a time, and its bytes are that frame's.
Weight(s, l) == IF s.lane = l THEN s.current.bytes
                ELSE IF s.render[l].items # <<>> THEN s.render[l].items[1].bytes ELSE 0
Loaded(s, l) ==
    LET q == s.render[l] IN
    /\ q.items # <<>> => /\ Len(q.items) = 1 /\ s.lane # l /\ q.open
                         /\ q.items[1].msg.kind = "frame"
    /\ q.open => q.bytes = Weight(s, l)

\* Lanes have frames, and nothing else is one.
Plain(item) ==
    /\ item.msg.kind # "frame"
    /\ item.latest => item.msg.kind = "other" /\ item.after_lane = NoLane
Fleet(s) ==
    /\ \A l \in Lanes : Loaded(s, l)
    /\ s.lane # NoLane => s.current # NoItem /\ s.current.msg.kind = "frame"
    /\ s.lane = NoLane /\ s.current # NoItem => s.current.msg.kind # "frame"
    /\ \A i \in DOMAIN s.reliable : Plain(s.reliable[i])
    /\ \A i \in DOMAIN s.interactive : s.interactive[i].msg.kind = "other"
    /\ s.current_interactive # NoItem => s.current_interactive.msg.kind = "other"

\* Frames that messages wait for come first.
Waits(s) ==
    \A l, k \in Lanes : l # k /\ l \in Awaited(s) /\ Sending(s, l) /\ Sending(s, k)
                            => Before(s, l, k)

\* The frames on their way stay what they are, and in their order.
SameFrames(s, t) ==
    /\ \A l \in Lanes : /\ Sending(t, l) <=> Sending(s, l)
                        /\ Sending(s, l) => Sent(t, l) = Sent(s, l)
                        /\ t.render[l].open = s.render[l].open
                        /\ t.render[l].ready => s.render[l].ready
    /\ Waits(s) => \A k, l \in Lanes : k # l /\ Sending(s, k) /\ Sending(s, l)
                                          /\ Before(s, k, l) => Before(t, k, l)

\* The writer t has the frames of s, and what introduces the terminal.
Keeps(s, t) == Fleet(t) /\ t.closed = s.closed /\ SameFrames(s, t)
               /\ (Introducing(s) => Introducing(t))

\* The same item is being written, and the lanes are the same.
SameCurrent(s, t) ==
    /\ t.current = NoItem <=> s.current = NoItem
    /\ s.current # NoItem => t.current.msg = s.current.msg /\ t.current.bytes = s.current.bytes
SameLanes(s, t) ==
    t.render = s.render /\ t.render_ready = s.render_ready /\ t.lane = s.lane /\ SameCurrent(s, t)

\* Lanes that stay as they were send what they sent, in the same order.
LEMMA SameLanesFrames ==
    ASSUME NEW s, NEW t, Fleet(s), SameLanes(s, t)
    PROVE  SameFrames(s, t) /\ \A l \in Lanes : Loaded(t, l)
<1>1. ASSUME NEW l \in Lanes, s.lane = l
      PROVE  t.current.msg = s.current.msg /\ t.current.bytes = s.current.bytes
  BY <1>1, WriterAssumption DEF SameLanes, SameCurrent, Fleet
<1>2. ASSUME NEW l \in Lanes
      PROVE  /\ Sending(t, l) <=> Sending(s, l)
             /\ Sending(s, l) => Sent(t, l) = Sent(s, l)
             /\ t.render[l] = s.render[l]
             /\ Loaded(t, l)
  BY <1>1 DEF SameLanes, Sending, Sent, Loaded, Weight, Fleet
<1>3. \A k, l \in Lanes : Before(s, k, l) => Before(t, k, l)
  BY DEF Before, SameLanes
<1> QED
  BY <1>2, <1>3 DEF SameFrames

\* An interactive message is not on the frames' way.
LEMMA PushInteractiveKeeps ==
    ASSUME NEW s, Good(s, Messages), ~s.closed, Fleet(s), NEW item \in Items(Messages),
           item.msg.kind = "other", NEW t, t = PushInteractive(s, item), ~t.closed
    PROVE  Keeps(s, t) /\ Told(t) = Told(s) /\ Awaited(t) = Awaited(s)
<1> DEFINE more == Append(s.interactive, item)
<1>1. s \in Writer(Messages) /\ s.interactive \in Seq(Items(Messages))
  BY WriterParts DEF Good
<1>2. /\ t.render = s.render /\ t.render_ready = s.render_ready /\ t.lane = s.lane
      /\ t.current = s.current /\ t.reliable = s.reliable /\ t.closed = s.closed
      /\ t.current_interactive = s.current_interactive /\ t.interactive = more
  <2>1. t = [s EXCEPT !.interactive = more]
    BY ClosedGood DEF PushInteractive
  <2> HIDE DEF more
  <2> QED
    BY <1>1, <2>1 DEF Writer
<1>3. SameLanes(s, t)
  BY <1>2 DEF SameLanes, SameCurrent
<1>4. SameFrames(s, t) /\ \A l \in Lanes : Loaded(t, l)
  BY <1>3, SameLanesFrames
<1>5. \A i \in DOMAIN more : more[i] = item \/ (i \in DOMAIN s.interactive /\ more[i] = s.interactive[i])
  BY <1>1, AppendProperties, LenProperties
<1>6. Fleet(t)
  BY <1>2, <1>4, <1>5 DEF Fleet
<1>7. Told(t) = Told(s) /\ Awaited(t) = Awaited(s) /\ (Introducing(s) => Introducing(t))
  BY <1>2 DEF Told, Awaited, Introducing, Current
<1> QED
  BY <1>2, <1>4, <1>6, <1>7 DEF Keeps

\* The last item of a queue is new.
LEMMA AppendedItems ==
    ASSUME NEW M, NEW queue \in Seq(M), NEW item \in M
    PROVE  LET more == Append(queue, item) IN
           /\ more \in Seq(M) /\ DOMAIN queue = 1 .. Len(queue) /\ Len(queue) \in Nat
           /\ DOMAIN more = 1 .. Len(queue) + 1 /\ more[Len(queue) + 1] = item
           /\ \A i \in 1 .. Len(queue) : more[i] = queue[i]
           /\ \A i \in DOMAIN more : more[i] = item \/ (i \in DOMAIN queue /\ more[i] = queue[i])
BY AppendProperties, LenProperties

\* A message is queued behind the others.
LEMMA PushReliableKeeps ==
    ASSUME NEW s, Good(s, Messages), ~s.closed, Fleet(s), NEW item \in Items(Messages),
           Plain(item), NEW t, t = PushReliable(s, item), ~t.closed
    PROVE  /\ Keeps(s, t) /\ Told(t) = Told(s) \cup {item.msg}
           /\ Awaited(t) = Awaited(s) \cup {item.after_lane}
           /\ s.lane = NoLane /\ Introduces(item.msg) /\ item.after_lane = NoLane
              /\ (\A l \in Lanes : l \notin Awaited(s)) => Introducing(t)
<1> DEFINE more == Append(s.reliable, item)
           n == Len(s.reliable) + 1
<1>1. s \in Writer(Messages) /\ s.reliable \in Seq(Items(Messages))
  BY WriterParts DEF Good
<1>2. /\ t.render = s.render /\ t.render_ready = s.render_ready /\ t.lane = s.lane
      /\ t.current = s.current /\ t.reliable = more /\ t.closed = s.closed
      /\ t.current_interactive = s.current_interactive /\ t.interactive = s.interactive
  <2> DEFINE bytes == s.reliable_bytes + item.bytes
  <2>1. t = [s EXCEPT !.reliable = more, !.reliable_bytes = bytes]
    BY ClosedGood DEF PushReliable
  <2> HIDE DEF more, bytes
  <2> QED
    BY <1>1, <2>1 DEF Writer
<1>3. SameLanes(s, t)
  BY <1>2 DEF SameLanes, SameCurrent
<1>4. SameFrames(s, t) /\ \A l \in Lanes : Loaded(t, l)
  BY <1>3, SameLanesFrames
<1>5. /\ DOMAIN s.reliable = 1 .. Len(s.reliable) /\ Len(s.reliable) \in Nat
      /\ DOMAIN more = 1 .. n /\ more[n] = item /\ n \in Nat /\ n \in DOMAIN more
      /\ \A i \in DOMAIN s.reliable : i \in DOMAIN more /\ more[i] = s.reliable[i]
      /\ \A i \in DOMAIN more : more[i] = item \/ (i \in DOMAIN s.reliable /\ more[i] = s.reliable[i])
  BY <1>1, AppendedItems
<1> HIDE DEF more, n
<1>6. Fleet(t)
  BY <1>2, <1>4, <1>5 DEF Fleet
<1>7. {more[i].msg : i \in DOMAIN more} = {s.reliable[i].msg : i \in DOMAIN s.reliable} \cup {item.msg}
  <2>1. n \in DOMAIN more /\ more[n] = item
    BY <1>5
  <2>2. \A i \in DOMAIN more : more[i].msg \in {s.reliable[k].msg : k \in DOMAIN s.reliable} \cup {item.msg}
    BY <1>5
  <2>3. \A k \in DOMAIN s.reliable : s.reliable[k].msg \in {more[i].msg : i \in DOMAIN more}
    BY <1>5
  <2>4. item.msg \in {more[i].msg : i \in DOMAIN more}
    BY <2>1
  <2> QED
    BY <2>2, <2>3, <2>4
<1>8. Awaited(t) = Awaited(s) \cup {item.after_lane}
  <2>1. n \in DOMAIN more /\ more[n] = item
    BY <1>5
  <2>2. \A i \in DOMAIN more : more[i].after_lane
            \in {s.reliable[k].after_lane : k \in DOMAIN s.reliable} \cup {item.after_lane}
    BY <1>5
  <2>3. \A k \in DOMAIN s.reliable :
            s.reliable[k].after_lane \in {more[i].after_lane : i \in DOMAIN more}
    BY <1>5
  <2>4. item.after_lane \in {more[i].after_lane : i \in DOMAIN more}
    BY <2>1
  <2> QED
    BY <1>2, <2>2, <2>3, <2>4 DEF Awaited
<1>9. Told(t) = Told(s) \cup {item.msg}
  BY <1>2, <1>7 DEF Told, Current
<1>10. ASSUME Promised(s.reliable) PROVE Promised(t.reliable)
  <2>1. PICK i \in DOMAIN s.reliable : /\ Introduces(s.reliable[i].msg)
                                       /\ \A j \in 1 .. i : s.reliable[j].after_lane = NoLane
    BY <1>10 DEF Promised
  <2>2. \A j \in 1 .. i : j \in DOMAIN s.reliable
    BY <1>5
  <2> QED
    BY <1>2, <1>5, <2>1, <2>2 DEF Promised
<1>11. ASSUME Introduces(item.msg), item.after_lane = NoLane, \A l \in Lanes : l \notin Awaited(s)
       PROVE  Promised(t.reliable)
  <2>1. \A j \in DOMAIN s.reliable : s.reliable[j].after_lane = NoLane
    <3>1. \A j \in DOMAIN s.reliable : s.reliable[j] \in Items(Messages)
      BY <1>1, <1>5, ElementOfSeq
    <3>2. \A j \in DOMAIN s.reliable : s.reliable[j].after_lane \in Lanes \cup {NoLane}
      BY <3>1 DEF Items
    <3> QED
      BY <1>11, <3>2 DEF Awaited
  <2>2. \A j \in 1 .. n : more[j].after_lane = NoLane
    BY <1>5, <1>11, <2>1
  <2> QED
    BY <1>2, <1>5, <1>11, <2>2 DEF Promised
<1> QED
  BY <1>2, <1>4, <1>6, <1>8, <1>9, <1>10, <1>11 DEF Keeps, Introducing

\* So is one that may replace an older one of its kind.
LEMMA PushLatestKeeps ==
    ASSUME NEW s, Good(s, Messages), ~s.closed, Fleet(s), NEW item \in Items(Messages),
           item.msg.kind = "other", item.after_lane = NoLane, NEW t, t = PushLatest(s, item), ~t.closed
    PROVE  /\ Keeps(s, t) /\ Told(t) \subseteq Told(s) \cup {item.msg}
           /\ Awaited(t) \subseteq Awaited(s) \cup {NoLane}
<1> DEFINE newer == [item EXCEPT !.latest = TRUE]
<1>1. newer \in Items(Messages) /\ newer.msg = item.msg /\ newer.after_lane = NoLane /\ Plain(newer)
  BY DEF Items, Plain
<1> HIDE DEF newer
<1>2. CASE t = PushReliable(s, newer)
  BY <1>1, <1>2, PushReliableKeeps
<1>3. CASE t # PushReliable(s, newer)
  <2> DEFINE i == CHOOSE k \in WaitingLatest(s) : TRUE
             more == ReplaceAt(s.reliable, i, newer)
             bytes == s.reliable_bytes - s.reliable[i].bytes + newer.bytes
  <2>1. i \in WaitingLatest(s) /\ t = ReplaceLatest(s, i, newer)
    BY <1>3 DEF PushLatest, newer
  <2> HIDE DEF i
  <2>2. s \in Writer(Messages) /\ s.reliable \in Seq(Items(Messages))
    BY WriterParts DEF Good
  <2>3. i \in DOMAIN s.reliable /\ s.reliable[i].latest
    BY <2>1 DEF WaitingLatest
  <2>4. t = [s EXCEPT !.reliable = more, !.reliable_bytes = bytes]
    BY <2>1, ClosedGood DEF ReplaceLatest
  <2>5. more = [s.reliable EXCEPT ![i] = newer] /\ DOMAIN more = DOMAIN s.reliable
    BY <2>2, <2>3, ExceptSeq DEF ReplaceAt
  <2> HIDE DEF more, bytes
  <2>6. /\ t.render = s.render /\ t.render_ready = s.render_ready /\ t.lane = s.lane
        /\ t.current = s.current /\ t.reliable = more /\ t.closed = s.closed
        /\ t.current_interactive = s.current_interactive /\ t.interactive = s.interactive
    BY <2>2, <2>4 DEF Writer
  <2>7. \A k \in DOMAIN more : more[k] = IF k = i THEN newer ELSE s.reliable[k]
    BY <2>2, <2>3, <2>5
  <2>8. SameLanes(s, t)
    BY <2>6 DEF SameLanes, SameCurrent
  <2>9. SameFrames(s, t) /\ \A l \in Lanes : Loaded(t, l)
    BY <2>8, SameLanesFrames
  <2>10. Fleet(t)
    BY <1>1, <2>5, <2>6, <2>7, <2>9 DEF Fleet
  <2>11. Told(t) \subseteq Told(s) \cup {item.msg} /\ Awaited(t) \subseteq Awaited(s) \cup {NoLane}
    BY <1>1, <2>5, <2>6, <2>7 DEF Told, Current, Awaited
  <2>12. ASSUME Promised(s.reliable) PROVE Promised(t.reliable)
    <3>1. PICK k \in DOMAIN s.reliable : /\ Introduces(s.reliable[k].msg)
                                         /\ \A j \in 1 .. k : s.reliable[j].after_lane = NoLane
      BY <2>12 DEF Promised
    <3>2. k # i
      BY <2>3, <3>1 DEF Introduces, Fleet, Plain
    <3>3. \A j \in 1 .. k : j \in DOMAIN s.reliable
      BY <2>2, <3>1, LenProperties
    <3> QED
      BY <1>1, <2>5, <2>6, <2>7, <3>1, <3>2, <3>3 DEF Promised
  <2> QED
    BY <2>6, <2>9, <2>10, <2>11, <2>12 DEF Keeps, Introducing
<1> QED
  BY <1>2, <1>3

\* What changes lane l leaves what else is on its way.
OneLane(s, t, l) ==
    /\ t.closed = s.closed
    /\ \A k \in Lanes \ {l} : /\ t.render[k] = s.render[k]
                              /\ Sending(t, k) <=> Sending(s, k)
                              /\ Sent(t, k) = Sent(s, k)
    /\ Told(t) = Told(s) /\ Awaited(t) = Awaited(s)
    /\ Introducing(t) <=> Introducing(s)

\* The lane l may be q.
Bears(s, l, q) ==
    /\ q.items # <<>> => /\ Len(q.items) = 1 /\ s.lane # l /\ q.open
                         /\ q.items[1].msg.kind = "frame"
    /\ q.open => q.bytes = IF s.lane = l THEN s.current.bytes
                           ELSE IF q.items # <<>> THEN q.items[1].bytes ELSE 0

\* The writer t is s but for the lane l, which is q, and the turn.
WithLane(s, l, q, order, t) ==
    t = [s EXCEPT !.render = [s.render EXCEPT ![l] = q], !.render_ready = order]

\* A lane of the fleet becomes q.
LEMMA LaneOfFleet ==
    ASSUME NEW s, Good(s, Messages), Fleet(s), NEW l \in Lanes, NEW q, NEW order,
           NEW t, WithLane(s, l, q, order, t), Bears(s, l, q)
    PROVE  /\ Fleet(t) /\ OneLane(s, t, l) /\ t.render[l] = q /\ t.lane = s.lane
           /\ t.current = s.current /\ t.render_ready = order
<1> DEFINE render == [s.render EXCEPT ![l] = q]
<1>1. s \in Writer(Messages) /\ s.render \in [Lanes -> Queue(Messages)]
  BY WriterParts DEF Good
<1>2. render[l] = q /\ \A k \in Lanes \ {l} : render[k] = s.render[k]
  BY <1>1
<1>3. t = [s EXCEPT !.render = render, !.render_ready = order]
  BY DEF WithLane
<1> HIDE DEF render
<1>4. /\ t.render = render /\ t.render_ready = order /\ t.lane = s.lane
      /\ t.current = s.current /\ t.reliable = s.reliable /\ t.closed = s.closed
      /\ t.current_interactive = s.current_interactive /\ t.interactive = s.interactive
  BY <1>1, <1>3 DEF Writer
<1>5. ASSUME NEW k \in Lanes \ {l}
      PROVE  /\ t.render[k] = s.render[k]
             /\ Sending(t, k) <=> Sending(s, k)
             /\ Sent(t, k) = Sent(s, k)
             /\ Loaded(t, k)
  BY <1>2, <1>4 DEF Sending, Sent, Loaded, Weight, Fleet
<1>6. Loaded(t, l)
  BY <1>2, <1>4 DEF Loaded, Weight, Bears
<1>7. Fleet(t)
  BY <1>4, <1>5, <1>6 DEF Fleet
<1>8. Told(t) = Told(s) /\ Awaited(t) = Awaited(s) /\ (Introducing(t) <=> Introducing(s))
  BY <1>4 DEF Told, Awaited, Introducing, Current
<1> QED
  BY <1>2, <1>4, <1>5, <1>7, <1>8 DEF OneLane

\* A new lane has nothing to send.
LEMMA OpenLaneKeeps ==
    ASSUME NEW s, Good(s, Messages), Fleet(s), NEW l \in Lanes, s.lane # l,
           ~s.render[l].open, NEW t, t = OpenLane(s, l)
    PROVE  /\ Fleet(t) /\ OneLane(s, t, l) /\ ~Sending(s, l) /\ ~Sending(t, l)
           /\ t.render[l].open /\ ~t.render[l].ready
           /\ \A j, k \in Lanes : Before(t, j, k) <=> Before(s, j, k)
<1> DEFINE q == [NoQueue EXCEPT !.open = TRUE]
<1>1. /\ q.open /\ ~q.ready /\ q.items = <<>> /\ q.bytes = 0
  BY DEF NoQueue
<1>2. WithLane(s, l, q, s.render_ready, t)
  <2>1. t = [s EXCEPT !.render = [s.render EXCEPT ![l] = q]]
    BY DEF OpenLane
  <2> HIDE DEF q
  <2> QED
    BY <2>1 DEF Good, Writer, WithLane
<1> HIDE DEF q
<1> Bears(s, l, q)
  BY <1>1 DEF Bears, Fleet, Loaded
<1>3. /\ Fleet(t) /\ OneLane(s, t, l) /\ t.render[l] = q /\ t.lane = s.lane
      /\ t.current = s.current /\ t.render_ready = s.render_ready
  BY <1>1, <1>2, LaneOfFleet
<1>4. ~Sending(s, l) /\ ~Sending(t, l)
  BY <1>1, <1>3 DEF Sending, Fleet, Loaded
<1>5. \A j, k \in Lanes : Before(t, j, k) <=> Before(s, j, k)
  BY <1>3 DEF Before
<1> QED
  BY <1>1, <1>3, <1>4, <1>5

\* The frames of a lane that is dropped are lost, but for the one that is being written.
LEMMA DropLaneKeeps ==
    ASSUME NEW s, Good(s, Messages), Fleet(s), NEW l \in Lanes, NEW t, t = DropLane(s, l)
    PROVE  /\ Fleet(t) /\ OneLane(s, t, l) /\ ~t.render[l].open /\ ~t.render[l].ready
           /\ Sending(t, l) => Sending(s, l) /\ Sent(t, l) = Sent(s, l)
           /\ \A j, k \in Lanes : Before(t, j, k) <=> Before(s, j, k)
<1> DEFINE q == NoQueue
<1>1. ~q.open /\ ~q.ready /\ q.items = <<>>
  BY DEF NoQueue
<1>2. WithLane(s, l, q, s.render_ready, t)
  <2>1. t = [s EXCEPT !.render = [s.render EXCEPT ![l] = q]]
    BY DEF DropLane
  <2> HIDE DEF q
  <2> QED
    BY <2>1 DEF Good, Writer, WithLane
<1> HIDE DEF q
<1> Bears(s, l, q)
  BY <1>1 DEF Bears, Fleet, Loaded
<1>3. /\ Fleet(t) /\ OneLane(s, t, l) /\ t.render[l] = q /\ t.lane = s.lane
      /\ t.current = s.current /\ t.render_ready = s.render_ready
  BY <1>1, <1>2, LaneOfFleet
<1>4. Sending(t, l) => Sending(s, l) /\ Sent(t, l) = Sent(s, l)
  BY <1>1, <1>3 DEF Sending, Sent
<1>5. \A j, k \in Lanes : Before(t, j, k) <=> Before(s, j, k)
  BY <1>3 DEF Before
<1> QED
  BY <1>1, <1>3, <1>4, <1>5

\* A lane that goes to the end of the turn comes after those in it.
LEMMA InTurnAppend ==
    ASSUME NEW order \in Seq(Lanes), NEW l \in Lanes
    PROVE  /\ \A j, k : InTurn(order, j, k) => InTurn(Append(order, l), j, k)
           /\ \A k : (\E i \in DOMAIN order : order[i] = k) => InTurn(Append(order, l), k, l)
<1> DEFINE longer == Append(order, l)
<1>1. /\ DOMAIN order = 1 .. Len(order) /\ Len(order) \in Nat
      /\ DOMAIN longer = 1 .. Len(order) + 1 /\ longer[Len(order) + 1] = l
      /\ \A i \in 1 .. Len(order) : longer[i] = order[i]
  BY AppendedItems
<1> HIDE DEF longer
<1>2. ASSUME NEW j, NEW k, InTurn(order, j, k) PROVE InTurn(longer, j, k)
  <2>1. PICK a, b \in DOMAIN order : a < b /\ order[a] = j /\ order[b] = k
    BY <1>2 DEF InTurn
  <2>2. a \in DOMAIN longer /\ b \in DOMAIN longer
    BY <1>1
  <2> QED
    BY <1>1, <2>1, <2>2 DEF InTurn
<1>3. ASSUME NEW k, NEW i \in DOMAIN order, order[i] = k PROVE InTurn(longer, k, l)
  <2>1. i \in DOMAIN longer /\ Len(order) + 1 \in DOMAIN longer /\ i < Len(order) + 1
    BY <1>1
  <2> QED
    BY <1>1, <1>3, <2>1 DEF InTurn
<1> QED
  BY <1>2, <1>3 DEF longer

\* A frame comes after those that are on their way.
LEMMA EnqueueKeeps ==
    ASSUME NEW s, Good(s, Messages), ~s.closed, Fleet(s), NEW l \in Lanes,
           s.render[l].open, ~Sending(s, l), NEW item \in Items(Messages),
           item.msg.kind = "frame", NEW t, t = Enqueue(s, l, item)
    PROVE  /\ Fleet(t) /\ OneLane(s, t, l) /\ Sending(t, l) /\ Sent(t, l) = item.msg.update
           /\ t.render[l].open
           /\ \A j, k \in Lanes : Before(s, j, k) => Before(t, j, k)
           /\ ~s.render[l].ready => \A k \in Lanes \ {l} : Sending(s, k) => Before(t, k, l)
<1> DEFINE queue == s.render[l]
           items == Append(queue.items, item)
           bytes == queue.bytes + item.bytes
           q == [queue EXCEPT !.items = items, !.bytes = bytes, !.ready = TRUE]
           order == IF queue.ready THEN s.render_ready ELSE Append(s.render_ready, l)
<1>1. queue \in Queue(Messages) /\ s.render_ready \in Seq(Lanes) /\ queue.ready \in BOOLEAN
  BY OthersPlaced, QueueParts
<1>2. WithLane(s, l, q, order, t)
  BY DEF Enqueue, WithLane
<1>3. queue.items = <<>> /\ s.lane # l /\ queue.bytes = 0 /\ queue.open
  BY DEF Sending, Fleet, Loaded, Weight
<1>4. items = <<item>>
  BY <1>3
<1>5. bytes = item.bytes
  BY <1>3 DEF Items
<1> HIDE DEF items, bytes
<1>6. q.items = items /\ q.bytes = bytes /\ q.ready = TRUE /\ q.open = queue.open
  BY <1>1 DEF Queue
<1> HIDE DEF q
<1>7. q.items # <<>> /\ Len(q.items) = 1 /\ q.items[1] = item
  BY <1>4, <1>6
<1>8. /\ Fleet(t) /\ OneLane(s, t, l) /\ t.render[l] = q /\ t.lane = s.lane
      /\ t.current = s.current /\ t.render_ready = order
  <2> HIDE DEF queue, order
  <2>1. Bears(s, l, q)
    BY <1>3, <1>5, <1>6, <1>7 DEF Bears
  <2> QED
    BY <1>2, <2>1, LaneOfFleet
<1>9. Sending(t, l) /\ Sent(t, l) = item.msg.update /\ t.render[l].open
  BY <1>3, <1>6, <1>7, <1>8 DEF Sending, Sent
<1>10. ASSUME NEW j \in Lanes, NEW k \in Lanes, Before(s, j, k) PROVE Before(t, j, k)
  <2>1. InTurn(s.render_ready, j, k) => InTurn(order, j, k)
    BY <1>1, InTurnAppend
  <2> QED
    BY <1>8, <1>10, <2>1 DEF Before
<1>11. ASSUME ~queue.ready, NEW k \in Lanes \ {l}, Sending(s, k) PROVE Before(t, k, l)
  <2>1. CASE s.lane = k
    BY <1>8, <2>1 DEF Before
  <2>2. CASE s.lane # k
    <3>1. s.render[k].items # <<>> /\ s.render[k].open
      BY <1>11, <2>2 DEF Sending, Fleet, Loaded
    <3>2. PlacedIn(s.render[k].ready, s.render_ready, k) /\ s.render[k].ready
      BY <3>1, OthersPlaced
    <3>3. \E i \in DOMAIN s.render_ready : s.render_ready[i] = k
      BY <3>2 DEF PlacedIn
    <3>4. InTurn(Append(s.render_ready, l), k, l)
      BY <1>1, <3>3, InTurnAppend
    <3> QED
      BY <1>3, <1>8, <1>11, <3>4 DEF Before
  <2> QED
    BY <2>1, <2>2
<1> QED
  BY <1>8, <1>9, <1>10, <1>11 DEF queue

-----------------------------------------------------------------------------
(* What is on its way when the writer task finishes a frame.               *)

\* The item whose frame is being written
Taken(s) == IF s.slot = "interactive" THEN s.current_interactive ELSE s.current

\* The frame that is being written belongs to an item.
LEMMA TakenParts ==
    ASSUME NEW s, Good(s, Messages), s.slot # "none"
    PROVE  /\ s \in Writer(Messages) /\ s.slot \in {"interactive", "current"}
           /\ Taken(s) \in Begun(Messages) /\ Taken(s) # NoItem
           /\ Taken(s).left \in Nat /\ Taken(s).bytes \in Nat
<1>1. s \in Writer(Messages) /\ Begins(s) /\ s.slot \in {"interactive", "current"}
      /\ s.current_interactive \in UnderWay(Messages) /\ s.current \in UnderWay(Messages)
  BY WriterParts DEF Good
<1>2. Taken(s) \in UnderWay(Messages) /\ Taken(s) # NoItem
  BY <1>1 DEF Begins, Taken
<1>3. Taken(s) \in Begun(Messages) /\ Taken(s).left \in Nat /\ Taken(s).bytes \in Nat
  BY <1>2, NoItemBegun DEF UnderWay
<1> QED
  BY <1>1, <1>2, <1>3

\* More frames follow, or it was an interactive message.
LEMMA FinishKeeps ==
    ASSUME NEW s, Good(s, Messages), Fleet(s), s.slot # "none",
           s.slot = "current" => s.current.left # 0, NEW t, t = Finish(s)
    PROVE  /\ Keeps(s, t) /\ Told(t) = Told(s) /\ Awaited(t) = Awaited(s)
           /\ s.slot = "interactive" => s.current_interactive.msg.kind = "other"
           /\ s.slot = "current" => s.current.left # 0
           /\ t.slot = "none"
<1> DEFINE none == "none"
           written == [s EXCEPT !.slot = none]
           after == IF Taken(s).left > 0 THEN s.current_interactive ELSE NoItem
<1>1. /\ s \in Writer(Messages) /\ s.slot \in {"interactive", "current"}
      /\ Taken(s) # NoItem /\ Taken(s).left \in Nat
  BY TakenParts
<1>2. t = IF Taken(s).left > 0 THEN written ELSE [written EXCEPT !.current_interactive = NoItem]
  BY <1>1 DEF Finish, Taken
<1>3. /\ t.render = s.render /\ t.render_ready = s.render_ready /\ t.lane = s.lane
      /\ t.current = s.current /\ t.reliable = s.reliable /\ t.closed = s.closed
      /\ t.current_interactive = after /\ t.interactive = s.interactive /\ t.slot = none
  BY <1>1, <1>2 DEF Writer
<1>4. SameLanes(s, t)
  BY <1>3 DEF SameLanes, SameCurrent
<1>5. SameFrames(s, t) /\ \A l \in Lanes : Loaded(t, l)
  BY <1>4, SameLanesFrames
<1>6. Fleet(t)
  BY <1>3, <1>5 DEF Fleet
<1>7. Told(t) = Told(s) /\ Awaited(t) = Awaited(s) /\ (Introducing(s) => Introducing(t))
  BY <1>3 DEF Told, Awaited, Introducing, Current
<1>8. s.slot = "interactive" => s.current_interactive.msg.kind = "other"
  BY <1>1 DEF Fleet, Taken
<1> QED
  BY <1>3, <1>5, <1>6, <1>7, <1>8 DEF Keeps

\* A message is delivered that is not a frame.
LEMMA FinishMessage ==
    ASSUME NEW s, Good(s, Messages), Fleet(s), s.slot = "current", s.current.left = 0,
           s.lane = NoLane, NEW t, t = Finish(s)
    PROVE  /\ Fleet(t) /\ t.closed = s.closed /\ SameFrames(s, t) /\ t.slot = "none"
           /\ s.current.msg \in Told(s) /\ s.current.msg.kind # "frame"
           /\ Told(t) \subseteq Told(s) /\ Awaited(t) = Awaited(s)
           /\ Introducing(s) => Introduces(s.current.msg) \/ Introducing(t)
<1> DEFINE none == "none"
           bytes == s.reliable_bytes - s.current.bytes
           new == [s EXCEPT !.slot = none, !.current = NoItem, !.reliable_bytes = bytes]
<1>1. /\ s \in Writer(Messages) /\ Taken(s) = s.current /\ s.current # NoItem
  BY TakenParts DEF Taken
<1>2. t = new
  BY <1>1 DEF Finish, Writer
<1> HIDE DEF bytes
<1>3. /\ t.render = s.render /\ t.render_ready = s.render_ready /\ t.lane = s.lane
      /\ t.current = NoItem /\ t.reliable = s.reliable /\ t.closed = s.closed
      /\ t.current_interactive = s.current_interactive /\ t.interactive = s.interactive
      /\ t.slot = none
  BY <1>1, <1>2 DEF Writer
<1>4. \A l \in Lanes : l # NoLane
  BY WriterAssumption
<1>5. ASSUME NEW l \in Lanes
      PROVE  /\ Sending(t, l) <=> Sending(s, l)
             /\ Sent(t, l) = Sent(s, l)
             /\ t.render[l] = s.render[l]
             /\ Loaded(t, l)
  BY <1>3, <1>4 DEF Sending, Sent, Loaded, Weight, Fleet
<1>6. \A k, l \in Lanes : Before(s, k, l) => Before(t, k, l)
  BY <1>3 DEF Before
<1>7. SameFrames(s, t)
  BY <1>5, <1>6 DEF SameFrames
<1>8. Fleet(t)
  BY <1>3, <1>5 DEF Fleet
<1>9. s.current.msg \in Told(s) /\ s.current.msg.kind # "frame"
  BY <1>1 DEF Told, Current, Fleet
<1>10. Told(t) \subseteq Told(s) /\ Awaited(t) = Awaited(s)
  BY <1>3 DEF Told, Current, Awaited
<1>11. Introducing(s) => Introduces(s.current.msg) \/ Introducing(t)
  BY <1>3 DEF Introducing
<1> QED
  BY <1>3, <1>7, <1>8, <1>9, <1>10, <1>11

\* The frame of a lane is delivered.
LEMMA FinishFrame ==
    ASSUME NEW s, Good(s, Messages), Fleet(s), s.slot = "current", s.current.left = 0,
           s.lane \in Lanes, NEW t, t = Finish(s)
    PROVE  /\ Fleet(t) /\ t.closed = s.closed /\ t.slot = "none"
           /\ Sending(s, s.lane) /\ Sent(s, s.lane) = s.current.msg.update
           /\ s.current.msg.kind = "frame" /\ ~Sending(t, s.lane) /\ ~Introducing(s)
           /\ \A l \in Lanes \ {s.lane} : /\ Sending(t, l) <=> Sending(s, l)
                                          /\ Sent(t, l) = Sent(s, l)
                                          /\ t.render[l] = s.render[l]
           /\ \A l \in Lanes : t.render[l].open = s.render[l].open
                               /\ t.render[l].ready = s.render[l].ready
           /\ \A j, k \in Lanes : j # s.lane /\ Before(s, j, k) => Before(t, j, k)
           /\ Told(t) = Told(s) /\ Awaited(t) = Awaited(s)
<1> DEFINE none == "none"
           l == s.lane
           queue == s.render[l]
           bytes == IF queue.open THEN queue.bytes - s.current.bytes ELSE queue.bytes
           q == [queue EXCEPT !.bytes = bytes]
           render == [s.render EXCEPT ![l] = q]
           new == [s EXCEPT !.slot = none, !.current = NoItem, !.lane = NoLane, !.render = render]
<1>1. /\ s \in Writer(Messages) /\ Taken(s) = s.current /\ s.current # NoItem
      /\ s.current.bytes \in Nat
  BY TakenParts DEF Taken
<1>2. s.render \in [Lanes -> Queue(Messages)] /\ queue \in Queue(Messages)
  BY <1>1, WriterParts
<1>3. l # NoLane /\ \A k \in Lanes : k # NoLane
  BY WriterAssumption
<1>4. queue.items = <<>> /\ (queue.open => queue.bytes = s.current.bytes)
  BY DEF Fleet, Loaded, Weight
<1>5. t = new
  <2>1. t = [[s EXCEPT !.slot = none] EXCEPT !.current = NoItem, !.lane = NoLane,
                     !.render[l].bytes = IF queue.open THEN @ - s.current.bytes ELSE @]
    BY <1>1, <1>3 DEF Finish, Writer
  <2>2. t = [[s EXCEPT !.slot = none] EXCEPT !.current = NoItem, !.lane = NoLane,
                                             !.render = render]
    BY <1>1, <2>1 DEF Writer
  <2> QED
    BY <2>2
<1>6. bytes = IF queue.open THEN 0 ELSE queue.bytes
  BY <1>1, <1>4
<1> HIDE DEF bytes
<1>7. q.items = queue.items /\ q.open = queue.open /\ q.ready = queue.ready /\ q.bytes = bytes
  BY <1>2 DEF Queue
<1> HIDE DEF q
<1>8. render[l] = q /\ \A k \in Lanes \ {l} : render[k] = s.render[k]
  BY <1>2
<1> HIDE DEF render
<1>9. /\ t.render = render /\ t.render_ready = s.render_ready /\ t.lane = NoLane
      /\ t.current = NoItem /\ t.reliable = s.reliable /\ t.closed = s.closed
      /\ t.current_interactive = s.current_interactive /\ t.interactive = s.interactive
      /\ t.slot = none
  BY <1>1, <1>5 DEF Writer
<1>10. ASSUME NEW k \in Lanes \ {l}
       PROVE  /\ Sending(t, k) <=> Sending(s, k)
              /\ Sent(t, k) = Sent(s, k)
              /\ t.render[k] = s.render[k]
              /\ Loaded(t, k)
  BY <1>3, <1>8, <1>9 DEF Sending, Sent, Loaded, Weight, Fleet
<1>11. ~Sending(t, l) /\ Loaded(t, l)
  BY <1>3, <1>4, <1>6, <1>7, <1>8, <1>9 DEF Sending, Loaded, Weight
<1>12. Fleet(t)
  BY <1>9, <1>10, <1>11 DEF Fleet
<1>13. \A j, k \in Lanes : j # l /\ Before(s, j, k) => Before(t, j, k)
  BY <1>3, <1>9 DEF Before
<1>14. Told(t) = Told(s) /\ Awaited(t) = Awaited(s) /\ ~Introducing(s)
  BY <1>3, <1>9 DEF Told, Current, Awaited, Introducing
<1>15. s.current.msg.kind = "frame" /\ Sending(s, l) /\ Sent(s, l) = s.current.msg.update
  BY <1>3 DEF Fleet, Sending, Sent
<1>16. \A k \in Lanes : t.render[k].open = s.render[k].open /\ t.render[k].ready = s.render[k].ready
  BY <1>7, <1>8, <1>9
<1> QED
  BY <1>9, <1>10, <1>11, <1>12, <1>13, <1>14, <1>15, <1>16

-----------------------------------------------------------------------------
(* What is on its way when the writer task takes a frame.                  *)

\* The writer u is s but for its turn and who is ready.
Alike(s, u) ==
    /\ u \in Writer(Messages)
    /\ u.lane = s.lane /\ u.current = s.current /\ u.reliable = s.reliable
    /\ u.closed = s.closed /\ u.current_interactive = s.current_interactive
    /\ u.interactive = s.interactive
    /\ \A l \in Lanes : /\ u.render[l].items = s.render[l].items
                        /\ u.render[l].open = s.render[l].open
                        /\ u.render[l].bytes = s.render[l].bytes
                        /\ u.render[l].ready => s.render[l].ready

\* Passing over lanes moves nothing but their turns.
LEMMA UnreadyAlike ==
    ASSUME NEW s, Good(s, Messages), NEW n \in 0 .. Len(s.render_ready), NEW u, u = Unready(s, n)
    PROVE  Alike(s, u) /\ u.render_ready = SubSeq(s.render_ready, n + 1, Len(s.render_ready))
<1> DEFINE order == SubSeq(s.render_ready, n + 1, Len(s.render_ready))
           passed == {s.render_ready[i] : i \in 1 .. n}
           q(l) == IF l \in passed THEN [s.render[l] EXCEPT !.ready = FALSE] ELSE s.render[l]
           render == [l \in Lanes |-> q(l)]
<1>1. s \in Writer(Messages) /\ s.render \in [Lanes -> Queue(Messages)]
  BY WriterParts DEF Good
<1>2. u \in Writer(Messages)
  BY UnreadyParts DEF Good, Turns, PassedOver
<1>3. u = [s EXCEPT !.render_ready = order, !.render = render]
  <2>1. [s EXCEPT !.render_ready = order].render = s.render
    BY <1>1 DEF Writer
  <2>2. u = [[s EXCEPT !.render_ready = order] EXCEPT !.render = render]
    BY <2>1 DEF Unready
  <2> HIDE DEF order, render
  <2> QED
    BY <2>2
<1>4. ASSUME NEW l \in Lanes
      PROVE  /\ q(l).items = s.render[l].items /\ q(l).open = s.render[l].open
             /\ q(l).bytes = s.render[l].bytes /\ (q(l).ready => s.render[l].ready)
  <2>1. s.render[l] \in Queue(Messages)
    BY <1>1
  <2> HIDE DEF passed
  <2> QED
    BY <2>1 DEF Queue
<1>5. \A l \in Lanes : render[l] = q(l)
  OBVIOUS
<1> HIDE DEF q
<1> HIDE DEF order, render
<1>6. /\ u.render = render /\ u.render_ready = order /\ u.lane = s.lane
      /\ u.current = s.current /\ u.reliable = s.reliable /\ u.closed = s.closed
      /\ u.current_interactive = s.current_interactive /\ u.interactive = s.interactive
  BY <1>1, <1>3 DEF Writer
<1> QED
  BY <1>2, <1>4, <1>5, <1>6 DEF Alike, order

\* The one frame of lane l is taken.
LEMMA PopLane ==
    ASSUME NEW u \in Writer(Messages), NEW l \in Lanes, u.render[l].items # <<>>,
           Len(u.render[l].items) = 1, NEW t, t = PopRender(u, l)
    PROVE  /\ t.current = u.render[l].items[1] /\ t.lane = l /\ t.render_ready = u.render_ready
           /\ t.reliable = u.reliable /\ t.closed = u.closed
           /\ t.current_interactive = u.current_interactive /\ t.interactive = u.interactive
           /\ t.render[l].items = <<>>
           /\ \A k \in Lanes : /\ k # l => t.render[k].items = u.render[k].items
                               /\ t.render[k].open = u.render[k].open
                               /\ t.render[k].bytes = u.render[k].bytes
                               /\ t.render[k].ready = u.render[k].ready
<1> DEFINE queue == u.render[l]
           none == <<>>
           front == Head(queue.items)
           q == [queue EXCEPT !.items = none]
           render == [u.render EXCEPT ![l] = q]
<1>1. u.render \in [Lanes -> Queue(Messages)] /\ queue \in Queue(Messages)
      /\ queue.items \in Seq(Items(Messages)) /\ queue.ready \in BOOLEAN
  BY WriterParts, QueueParts
<1>2. Tail(queue.items) = <<>> /\ front = queue.items[1]
  <2>1. Tail(queue.items) \in Seq(Items(Messages)) /\ Len(Tail(queue.items)) = 0
    BY <1>1, HeadTailProperties
  <2>2. Tail(queue.items) = <<>>
    BY <2>1, EmptySeq
  <2> QED
    BY <2>2, <1>1, HeadTailProperties
<1>3. [queue EXCEPT !.items = Tail(queue.items), !.ready = @ \/ FALSE] = q
  <2> DEFINE was == queue.ready
  <2>1. was \in BOOLEAN
    BY <1>1
  <2> HIDE DEF was
  <2>2. (was \/ FALSE) = was
    BY <2>1
  <2>3. [queue EXCEPT !.items = Tail(queue.items), !.ready = queue.ready \/ FALSE]
            = [queue EXCEPT !.items = none, !.ready = queue.ready]
    BY <1>2, <2>2 DEF was
  <2> HIDE DEF queue
  <2>4. [queue EXCEPT !.items = none, !.ready = queue.ready] = [queue EXCEPT !.items = none]
    BY <1>1 DEF Queue
  <2> QED
    BY <2>3, <2>4
<1>4. t = [u EXCEPT !.current = front, !.lane = l, !.render = render,
                    !.render_ready = u.render_ready]
  BY <1>2, <1>3 DEF PopRender, Writer
<1> HIDE DEF queue, none, front
<1>5. /\ q.items = none /\ q.open = queue.open /\ q.ready = queue.ready /\ q.bytes = queue.bytes
  BY <1>1 DEF Queue
<1> HIDE DEF q
<1>6. render[l] = q /\ \A k \in Lanes \ {l} : render[k] = u.render[k]
  BY <1>1
<1> HIDE DEF render
<1>7. /\ t.current = front /\ t.lane = l /\ t.render_ready = u.render_ready
      /\ t.reliable = u.reliable /\ t.closed = u.closed /\ t.render = render
      /\ t.current_interactive = u.current_interactive /\ t.interactive = u.interactive
  BY <1>4 DEF Writer
<1> QED
  BY <1>2, <1>5, <1>6, <1>7 DEF queue, none

\* Lanes behind the front of the turn keep their order.
LEMMA InTurnRest ==
    ASSUME NEW order \in Seq(Lanes), NEW n \in 1 .. Len(order), NEW a \in DOMAIN order,
           NEW b \in DOMAIN order, n < a, a < b
    PROVE  InTurn(SubSeq(order, n + 1, Len(order)), order[a], order[b])
<1> DEFINE first == n + 1
           last == Len(order)
           rest == SubSeq(order, first, last)
<1>1. Len(order) \in Nat /\ DOMAIN order = 1 .. Len(order)
  BY LenProperties
<1>2. first \in Int /\ last \in Int /\ \A i \in first .. last : order[i] \in Lanes
  BY <1>1, ElementOfSeq
<1>3. first <= last
  BY <1>1
<1>4. a - n \in 1 .. last - first + 1 /\ b - n \in 1 .. last - first + 1 /\ a - n < b - n
      /\ first + (a - n) - 1 = a /\ first + (b - n) - 1 = b
  <2>1. last \in Nat /\ n \in 1 .. last /\ a \in 1 .. last /\ b \in 1 .. last
    BY <1>1
  <2> HIDE DEF last
  <2>2. /\ n \in Int /\ a \in Int /\ b \in Int /\ last \in Int
        /\ n < a /\ a < b /\ a <= last /\ b <= last
    BY <2>1
  <2>3. last - first + 1 = last - n
    BY <2>2
  <2>4. a - n \in 1 .. last - n /\ b - n \in 1 .. last - n /\ a - n < b - n
    BY <2>2
  <2>5. first + (a - n) - 1 = a /\ first + (b - n) - 1 = b
    BY <2>2
  <2> QED
    BY <2>3, <2>4, <2>5
<1> HIDE DEF first, last
<1>5. /\ rest \in Seq(Lanes) /\ Len(rest) = last - first + 1
      /\ \A i \in 1 .. last - first + 1 : rest[i] = order[first + i - 1]
  <2> HIDE DEF rest
  <2>1. /\ SubSeq(order, first, last) \in Seq(Lanes)
        /\ Len(SubSeq(order, first, last)) = IF first <= last THEN last - first + 1 ELSE 0
        /\ \A i \in 1 .. last - first + 1 : SubSeq(order, first, last)[i] = order[first + i - 1]
    BY <1>2, SubSeqProperties
  <2> QED
    BY <1>3, <2>1 DEF rest
<1>6. DOMAIN rest = 1 .. last - first + 1
  BY <1>5, LenProperties
<1> HIDE DEF rest
<1>7. rest[a - n] = order[a] /\ rest[b - n] = order[b]
  <2> DEFINE i == a - n
             j == b - n
  <2>1. /\ i \in 1 .. last - first + 1 /\ j \in 1 .. last - first + 1
        /\ first + i - 1 = a /\ first + j - 1 = b
    BY <1>4
  <2> HIDE DEF i, j
  <2>2. rest[i] = order[first + i - 1] /\ rest[j] = order[first + j - 1]
    BY <1>5, <2>1
  <2>3. rest[i] = order[a] /\ rest[j] = order[b]
    BY <2>1, <2>2
  <2> QED
    BY <2>3 DEF i, j
<1>8. InTurn(rest, order[a], order[b])
  BY <1>4, <1>6, <1>7 DEF InTurn
<1> QED
  BY <1>8 DEF rest, first, last

\* What was on its way still is, and no frame overtakes another.
Carries(s, t) ==
    /\ Keeps(s, t)
    /\ Told(t) \subseteq Told(s) /\ Awaited(t) \subseteq Awaited(s)

\* Frames that must come first do.
Stays(s, order, l) ==
    Waits(s) => \A j, k \in Lanes :
        j # k /\ j # l /\ Sending(s, j) /\ Sending(s, k) /\ Before(s, j, k)
            => k # l /\ InTurn(order, j, k)

\* A frame of lane l is taken when no other has to be before it.
LEMMA PopKeeps ==
    ASSUME NEW s, Good(s, Messages), Fleet(s), s.current = NoItem, ~Promised(s.reliable),
           NEW u, Alike(s, u), NEW l \in Lanes, s.render[l].items # <<>>,
           Stays(s, u.render_ready, l), NEW t, t = PopRender(u, l)
    PROVE  Carries(s, t)
<1>1. Len(s.render[l].items) = 1 /\ s.lane = NoLane /\ s.render[l].open
      /\ s.render[l].items[1].msg.kind = "frame"
  BY WriterParts DEF Fleet, Loaded, Good
<1>2. /\ t.current = s.render[l].items[1] /\ t.lane = l /\ t.render_ready = u.render_ready
      /\ t.reliable = s.reliable /\ t.closed = s.closed
      /\ t.current_interactive = s.current_interactive /\ t.interactive = s.interactive
      /\ t.render[l].items = <<>>
      /\ \A k \in Lanes : /\ k # l => t.render[k].items = s.render[k].items
                          /\ t.render[k].open = s.render[k].open
                          /\ t.render[k].bytes = s.render[k].bytes
                          /\ t.render[k].ready => s.render[k].ready
  <2>1. u \in Writer(Messages) /\ u.render[l].items = s.render[l].items
    BY DEF Alike
  <2>2. Len(u.render[l].items) = 1 /\ u.render[l].items # <<>>
    BY <1>1, <2>1
  <2>3. /\ t.current = u.render[l].items[1] /\ t.lane = l /\ t.render_ready = u.render_ready
        /\ t.reliable = u.reliable /\ t.closed = u.closed
        /\ t.current_interactive = u.current_interactive /\ t.interactive = u.interactive
        /\ t.render[l].items = <<>>
        /\ \A k \in Lanes : /\ k # l => t.render[k].items = u.render[k].items
                            /\ t.render[k].open = u.render[k].open
                            /\ t.render[k].bytes = u.render[k].bytes
                            /\ t.render[k].ready = u.render[k].ready
    BY <2>1, <2>2, PopLane
  <2> QED
    BY <2>3 DEF Alike
<1>3. \A k \in Lanes : k # NoLane
  BY WriterAssumption
<1>4. t.current # NoItem
  <2>1. s.render[l].items \in Seq(Items(Messages))
    BY WriterParts, QueueParts DEF Good
  <2>2. s.render[l].items[1] \in Items(Messages)
    BY <1>1, <2>1, ElementOfSeq
  <2> QED
    BY <1>2, <2>2, NoItemBegun
<1>5. ASSUME NEW k \in Lanes
      PROVE  /\ Sending(t, k) <=> Sending(s, k)
             /\ Sending(s, k) => Sent(t, k) = Sent(s, k)
             /\ Loaded(t, k)
  <2>1. CASE k = l
    BY <1>1, <1>2, <1>3, <2>1 DEF Sending, Sent, Loaded, Weight, Fleet
  <2>2. CASE k # l
    BY <1>1, <1>2, <1>3, <2>2 DEF Sending, Sent, Loaded, Weight, Fleet
  <2> QED
    BY <2>1, <2>2
<1>6. Fleet(t)
  BY <1>1, <1>2, <1>3, <1>4, <1>5 DEF Fleet
<1>7. ASSUME Waits(s), NEW j \in Lanes, NEW k \in Lanes, j # k, Sending(s, j), Sending(s, k), Before(s, j, k)
      PROVE  Before(t, j, k)
  BY <1>2, <1>7 DEF Before, Stays
<1>8. SameFrames(s, t)
  BY <1>2, <1>5, <1>7 DEF SameFrames
<1>9. ~Introducing(s)
  BY DEF Introducing
<1>10. Told(t) \subseteq Told(s) /\ Awaited(t) = Awaited(s)
  BY <1>2, <1>3 DEF Told, Current, Awaited
<1> QED
  BY <1>2, <1>6, <1>8, <1>9, <1>10 DEF Keeps, Carries

\* Nothing is on its way but who is ready.
LEMMA AlikeKeeps ==
    ASSUME NEW s, Good(s, Messages), Fleet(s), NEW u, Alike(s, u),
           s.current = NoItem, \A l \in Lanes : s.render[l].items = <<>>
    PROVE  Carries(s, u)
<1>1. s.lane = NoLane /\ \A l \in Lanes : l # NoLane
  BY WriterAssumption DEF Fleet
<1>2. \A l \in Lanes : ~Sending(s, l) /\ ~Sending(u, l) /\ Loaded(u, l)
  BY <1>1 DEF Alike, Sending, Loaded, Weight, Fleet
<1>3. Fleet(u)
  BY <1>2 DEF Fleet, Alike
<1>4. SameFrames(s, u)
  BY <1>2 DEF SameFrames, Alike
<1>5. /\ Told(u) = Told(s) /\ Awaited(u) = Awaited(s)
      /\ Introducing(s) => Introducing(u)
  BY DEF Told, Current, Awaited, Introducing, Alike
<1> QED
  BY <1>3, <1>4, <1>5 DEF Keeps, Carries, Alike

\* A lane that has a frame is in the turn.
LEMMA SendersPlaced ==
    ASSUME NEW s, Good(s, Messages), ~s.closed, Fleet(s), NEW l \in Lanes, s.render[l].items # <<>>
    PROVE  /\ PlacedIn(TRUE, s.render_ready, l)
           /\ s.render[l].open /\ s.render[l].ready
<1>1. s.render[l].open
  BY DEF Fleet, Loaded
<1>2. PlacedIn(s.render[l].ready, s.render_ready, l) /\ s.render[l].ready
  BY <1>1, OthersPlaced
<1> QED
  BY <1>1, <1>2 DEF PlacedIn

\* The turn is kept.
LEMMA NextRenderKeeps ==
    ASSUME NEW s, Good(s, Messages), ~s.closed, Fleet(s), s.current = NoItem,
           s.slot = "none", ~Promised(s.reliable), NEW t, t = NextRender(s)
    PROVE  Carries(s, t)
<1> DEFINE order == s.render_ready
           waiting == {i \in DOMAIN order : Queued(s, order[i])}
<1>1. order \in Seq(Lanes) /\ Len(order) \in Nat /\ DOMAIN order = 1 .. Len(order)
  BY WriterParts, LenProperties DEF Good
<1>2. \A i \in DOMAIN order : order[i] \in Lanes
  BY <1>1, ElementOfSeq
<1>3. s.lane = NoLane /\ \A l \in Lanes : l # NoLane
  BY WriterAssumption DEF Fleet
<1>4. ASSUME NEW l \in Lanes, s.render[l].items # <<>>
      PROVE  \E i \in waiting : order[i] = l
  <2>1. PICK i \in DOMAIN order : order[i] = l
    BY <1>4, SendersPlaced DEF PlacedIn
  <2> QED
    BY <1>3, <1>4, <2>1 DEF Queued
<1>5. CASE waiting = {}
  <2>1. Alike(s, t)
    <3> DEFINE n == Len(order)
    <3>1. n \in 0 .. Len(s.render_ready) /\ t = Unready(s, n)
      BY <1>1, <1>5 DEF NextRender
    <3> HIDE DEF n
    <3> QED
      BY <3>1, UnreadyAlike
  <2>2. \A l \in Lanes : s.render[l].items = <<>>
    BY <1>4, <1>5
  <2> QED
    BY <2>1, <2>2, AlikeKeeps
<1>6. CASE waiting # {}
  <2> DEFINE n == CHOOSE i \in waiting : \A j \in waiting : i <= j
             l == order[n]
             u == Unready(s, n)
  <2>1. t = PopRender(u, l)
    BY <1>6 DEF NextRender
  <2>2. n \in waiting /\ \A j \in waiting : n <= j
    <3>1. waiting \subseteq Nat
      BY <1>1
    <3> HIDE DEF waiting
    <3>2. \E i \in waiting : \A j \in waiting : i <= j
      BY <1>6, <3>1, LeastNumber
    <3> QED
      BY <3>2
  <2> HIDE DEF n
  <2>3. n \in 0 .. Len(s.render_ready) /\ n \in DOMAIN order
    BY <1>1, <2>2
  <2>4. Alike(s, u) /\ u.render_ready = SubSeq(order, n + 1, Len(order))
    BY <2>3, UnreadyAlike
  <2> HIDE DEF u
  <2>5. l \in Lanes /\ s.render[l].items # <<>>
    BY <1>2, <2>2 DEF Queued
  <2>6. Stays(s, u.render_ready, l)
    <3>1. SUFFICES ASSUME NEW j \in Lanes, NEW k \in Lanes, j # k, j # l, Sending(s, j),
                          Sending(s, k), Before(s, j, k)
                   PROVE  k # l /\ InTurn(u.render_ready, j, k)
      BY DEF Stays
    <3>2. s.render[j].items # <<>> /\ InTurn(order, j, k)
      BY <1>3, <3>1 DEF Sending, Before
    <3>3. PICK a, b \in DOMAIN order : a < b /\ order[a] = j /\ order[b] = k
      BY <3>2 DEF InTurn
    <3>4. a \in waiting
      BY <1>3, <3>2, <3>3 DEF Queued
    <3>5. n < a
      <4>1. n <= a /\ n # a
        BY <2>2, <3>1, <3>3, <3>4
      <4> QED
        BY <1>1, <2>3, <4>1
    <3>6. k # l
      <4>1. PlacedIn(TRUE, order, l)
        BY <2>5, SendersPlaced
      <4>2. b # n
        BY <1>1, <2>3, <3>3, <3>5
      <4> QED
        BY <2>3, <3>3, <4>1, <4>2 DEF PlacedIn
    <3>7. InTurn(SubSeq(order, n + 1, Len(order)), j, k)
      BY <1>1, <2>3, <3>3, <3>5, InTurnRest
    <3> QED
      BY <2>4, <3>6, <3>7
  <2> HIDE DEF l
  <2> QED
    BY <2>1, <2>4, <2>5, <2>6, PopKeeps
<1> QED
  BY <1>5, <1>6

\* The front of the reliable queue, and what is behind it
LEMMA FrontAndRest ==
    ASSUME NEW M, NEW queue \in Seq(M), queue # <<>>
    PROVE  /\ queue[1] \in M /\ Head(queue) = queue[1] /\ 1 \in DOMAIN queue
           /\ Tail(queue) \in Seq(M)
           /\ \A i \in DOMAIN Tail(queue) : i + 1 \in DOMAIN queue /\ Tail(queue)[i] = queue[i + 1]
           /\ \A i \in DOMAIN queue : i # 1 => i - 1 \in DOMAIN Tail(queue)
<1> DEFINE len == Len(queue)
           rest == Tail(queue)
<1>1. /\ len \in Nat /\ len > 0 /\ DOMAIN queue = 1 .. len
      /\ Head(queue) \in M /\ rest \in Seq(M) /\ Len(rest) = len - 1
      /\ \A i \in 1 .. len - 1 : rest[i] = queue[i + 1]
  <2>1. len \in Nat /\ DOMAIN queue = 1 .. len
    BY LenProperties
  <2>2. len # 0
    BY EmptySeq
  <2>3. Head(queue) \in M /\ rest \in Seq(M) /\ Len(rest) = len - 1
    BY HeadTailProperties
  <2>4. \A i \in 1 .. Len(rest) : rest[i] = queue[i + 1]
    BY HeadTailProperties
  <2> HIDE DEF len
  <2> QED
    BY <2>1, <2>2, <2>3, <2>4
<1>2. Head(queue) = queue[1]
  OBVIOUS
<1>3. DOMAIN rest = 1 .. len - 1
  BY <1>1, LenProperties
<1> HIDE DEF len, rest
<1>4. 1 \in DOMAIN queue
  BY <1>1
<1>5. \A i \in DOMAIN rest : i + 1 \in DOMAIN queue /\ rest[i] = queue[i + 1]
  BY <1>1, <1>3
<1>6. \A i \in DOMAIN queue : i # 1 => i - 1 \in DOMAIN rest
  BY <1>1, <1>3
<1> QED
  BY <1>1, <1>2, <1>4, <1>5, <1>6 DEF rest

\* A message leaves the queue when its lane has no frame left.
LEMMA MessageTaken ==
    ASSUME NEW s, Good(s, Messages), Fleet(s), s.current = NoItem, s.reliable # <<>>,
           NEW t, t = [s EXCEPT !.current = Head(s.reliable), !.lane = NoLane,
                                !.reliable = Tail(@)]
    PROVE  Carries(s, t)
<1> DEFINE front == s.reliable[1]
           rest == Tail(s.reliable)
<1>1. s \in Writer(Messages) /\ s.reliable \in Seq(Items(Messages)) /\ s.lane = NoLane
  BY WriterParts DEF Good, Fleet
<1>2. /\ front \in Items(Messages) /\ Head(s.reliable) = front /\ 1 \in DOMAIN s.reliable
      /\ rest \in Seq(Items(Messages))
      /\ \A i \in DOMAIN rest : i + 1 \in DOMAIN s.reliable /\ rest[i] = s.reliable[i + 1]
      /\ \A i \in DOMAIN s.reliable : i # 1 => i - 1 \in DOMAIN rest
  BY <1>1, FrontAndRest
<1>3. t = [s EXCEPT !.current = front, !.lane = NoLane, !.reliable = rest]
  BY <1>1, <1>2 DEF Writer
<1>4. front.msg.kind # "frame" /\ front # NoItem
  BY <1>2, NoItemBegun DEF Fleet, Plain
<1>5. front = s.reliable[1]
  OBVIOUS
<1> HIDE DEF front, rest
<1>6. /\ t.render = s.render /\ t.render_ready = s.render_ready /\ t.lane = NoLane
      /\ t.current = front /\ t.reliable = rest /\ t.closed = s.closed
      /\ t.current_interactive = s.current_interactive /\ t.interactive = s.interactive
  BY <1>1, <1>3 DEF Writer
<1>7. ASSUME NEW l \in Lanes
      PROVE  /\ Sending(t, l) <=> Sending(s, l)
             /\ Sent(t, l) = Sent(s, l)
             /\ t.render[l] = s.render[l]
             /\ Loaded(t, l)
  <2>1. l # NoLane
    BY WriterAssumption
  <2> QED
    BY <1>1, <1>6, <2>1 DEF Sending, Sent, Loaded, Weight, Fleet
<1>8. \A k, l \in Lanes : Before(s, k, l) => Before(t, k, l)
  BY <1>1, <1>6 DEF Before
<1>9. SameFrames(s, t)
  BY <1>7, <1>8 DEF SameFrames
<1>10. \A i \in DOMAIN rest : Plain(rest[i])
  BY <1>2 DEF Fleet
<1>11. Fleet(t)
  BY <1>4, <1>6, <1>7, <1>10 DEF Fleet
<1>12. Told(t) \subseteq Told(s)
  <2>1. Current(t) \subseteq {front.msg}
    BY <1>6 DEF Current
  <2>2. front.msg \in {s.reliable[i].msg : i \in DOMAIN s.reliable}
    BY <1>2, <1>5
  <2>3. \A i \in DOMAIN rest : rest[i].msg \in {s.reliable[k].msg : k \in DOMAIN s.reliable}
    BY <1>2
  <2> QED
    BY <1>6, <2>1, <2>2, <2>3 DEF Told
<1>13. Awaited(t) \subseteq Awaited(s)
  <2>1. \A i \in DOMAIN rest : rest[i].after_lane \in Awaited(s)
    BY <1>2 DEF Awaited
  <2> QED
    BY <1>6, <2>1 DEF Awaited
<1>14. ASSUME Promised(s.reliable) PROVE Introducing(t)
  <2>1. PICK i \in DOMAIN s.reliable : /\ Introduces(s.reliable[i].msg)
                                       /\ \A j \in 1 .. i : s.reliable[j].after_lane = NoLane
    BY <1>14 DEF Promised
  <2>2. CASE i = 1
    BY <1>4, <1>5, <1>6, <2>1, <2>2 DEF Introducing
  <2>3. CASE i # 1
    <3> DEFINE k == i - 1
    <3>1. i \in Nat /\ k \in DOMAIN rest /\ k + 1 = i
      BY <1>1, <1>2, <2>3, LenProperties
    <3>2. Introduces(rest[k].msg)
      BY <1>2, <2>1, <3>1
    <3>3. ASSUME NEW j \in 1 .. k PROVE rest[j].after_lane = NoLane
      <4> HIDE DEF k
      <4>1. j \in DOMAIN rest
        BY <1>2, <3>1, LenProperties
      <4>2. j + 1 \in 1 .. i
        BY <3>1
      <4> QED
        BY <1>2, <2>1, <4>1, <4>2
    <3> HIDE DEF k
    <3>4. Promised(rest)
      BY <3>1, <3>2, <3>3 DEF Promised
    <3> QED
      BY <1>6, <3>4 DEF Introducing
  <2> QED
    BY <2>2, <2>3
<1>15. Introducing(s) => Introducing(t)
  BY <1>14 DEF Introducing
<1> QED
  BY <1>6, <1>9, <1>11, <1>12, <1>13, <1>15 DEF Keeps, Carries

\* The item that is due is taken.
LEMMA NextCurrentKeeps ==
    ASSUME NEW s, Good(s, Messages), ~s.closed, Fleet(s), s.current = NoItem,
           s.slot = "none", NEW t, t = NextCurrent(s)
    PROVE  Carries(s, t)
<1>1. s \in Writer(Messages) /\ s.reliable \in Seq(Items(Messages)) /\ s.lane = NoLane
  BY WriterParts DEF Good, Fleet
<1>2. CASE s.reliable = <<>>
  <2>1. ~Promised(s.reliable)
    BY <1>2 DEF Promised
  <2> QED
    BY <1>2, <2>1, NextRenderKeeps DEF NextCurrent
<1>3. CASE s.reliable # <<>>
  <2> DEFINE l == s.reliable[1].after_lane
  <2>1. Head(s.reliable) = s.reliable[1] /\ 1 \in DOMAIN s.reliable /\ s.reliable[1] \in Items(Messages)
    BY <1>1, <1>3, FrontAndRest
  <2>2. CASE ~Queued(s, l)
    BY <1>3, <2>1, <2>2, MessageTaken DEF NextCurrent
  <2>3. CASE Queued(s, l)
    <3>1. t = PopRender(s, l)
      BY <1>3, <2>1, <2>3 DEF NextCurrent
    <3>2. l \in Lanes /\ s.render[l].items # <<>> /\ l \in Awaited(s)
      BY <2>1, <2>3 DEF Queued, Items, Awaited
    <3>3. ~Promised(s.reliable)
      <4>1. \A i \in DOMAIN s.reliable : 1 \in 1 .. i
        BY <1>1, LenProperties
      <4> QED
        BY <2>3, <4>1 DEF Promised, Queued
    <3> HIDE DEF l
    <3>4. Alike(s, s)
      BY <1>1 DEF Alike
    <3>5. Stays(s, s.render_ready, l)
      <4>1. SUFFICES ASSUME Waits(s), NEW j \in Lanes, NEW k \in Lanes, j # k, j # l, Sending(s, j),
                            Sending(s, k), Before(s, j, k)
                     PROVE  k # l /\ InTurn(s.render_ready, j, k)
        BY DEF Stays
      <4>2. s.lane # j /\ s.lane # l /\ s.render[j].items # <<>>
        BY <1>1, <3>2, <4>1, WriterAssumption DEF Sending
      <4>3. InTurn(s.render_ready, j, k)
        BY <4>1, <4>2 DEF Before
      <4>4. ASSUME k = l PROVE FALSE
        <5>1. InTurn(s.render_ready, l, j)
          BY <3>2, <4>1, <4>2, <4>4 DEF Before, Waits
        <5>2. PlacedIn(TRUE, s.render_ready, j) /\ PlacedIn(TRUE, s.render_ready, l)
          BY <3>2, <4>2, SendersPlaced
        <5>3. PICK a, b \in DOMAIN s.render_ready :
                  a < b /\ s.render_ready[a] = j /\ s.render_ready[b] = l
          BY <4>3, <4>4 DEF InTurn
        <5>4. PICK c, d \in DOMAIN s.render_ready :
                  c < d /\ s.render_ready[c] = l /\ s.render_ready[d] = j
          BY <5>1 DEF InTurn
        <5>5. b = c /\ a = d
          BY <5>2, <5>3, <5>4 DEF PlacedIn
        <5>6. a \in Nat /\ b \in Nat
          BY <1>1, WriterParts, LenProperties
        <5> QED
          BY <5>3, <5>4, <5>5, <5>6
      <4> QED
        BY <4>3, <4>4
    <3> QED
      BY <3>1, <3>2, <3>3, <3>4, <3>5, PopKeeps
  <2> QED
    BY <2>2, <2>3
<1> QED
  BY <1>2, <1>3

\* What only looks at the item under way carries the frames on.
LEMMA SameLanesCarries ==
    ASSUME NEW s, NEW t, Fleet(s), SameLanes(s, t), t.reliable = s.reliable,
           t.closed = s.closed,
           \A i \in DOMAIN t.interactive : t.interactive[i].msg.kind = "other",
           t.current_interactive # NoItem => t.current_interactive.msg.kind = "other"
    PROVE  Carries(s, t)
<1>1. SameFrames(s, t) /\ \A l \in Lanes : Loaded(t, l)
  BY SameLanesFrames
<1>2. /\ t.lane = s.lane /\ (t.current = NoItem <=> s.current = NoItem)
      /\ s.current # NoItem => t.current.msg = s.current.msg
  BY DEF SameLanes, SameCurrent
<1>3. Fleet(t)
  BY <1>1, <1>2 DEF Fleet
<1>4. Told(t) = Told(s) /\ Awaited(t) = Awaited(s) /\ (Introducing(s) => Introducing(t))
  BY <1>2 DEF Told, Awaited, Introducing, Current
<1> QED
  BY <1>1, <1>3, <1>4 DEF Keeps, Carries

\* What is carried on by one step and the next is carried on by both.
LEMMA CarriesOn ==
    ASSUME NEW s, NEW t, NEW u, Carries(s, t), Carries(t, u)
    PROVE  Carries(s, u)
<1>1. SameFrames(s, t) /\ SameFrames(t, u)
  BY DEF Carries, Keeps
<1>2. \A l \in Lanes : /\ Sending(u, l) <=> Sending(s, l)
                       /\ Sending(s, l) => Sent(u, l) = Sent(s, l)
                       /\ u.render[l].open = s.render[l].open
                       /\ u.render[l].ready => s.render[l].ready
  BY <1>1 DEF SameFrames
<1>3. ASSUME Waits(s)
      PROVE  \A k, l \in Lanes : k # l /\ Sending(s, k) /\ Sending(s, l) /\ Before(s, k, l)
                                     => Before(u, k, l)
  <2>1. Waits(t)
    BY <1>1, <1>3 DEF SameFrames, Waits, Carries
  <2> QED
    BY <1>1, <1>3, <2>1 DEF SameFrames
<1>4. SameFrames(s, u)
  BY <1>2, <1>3 DEF SameFrames
<1> QED
  BY <1>4 DEF Carries, Keeps

\* The writer task takes a frame.
LEMMA SelectKeeps ==
    ASSUME NEW s, Good(s, Messages), ~s.closed, Fleet(s), s.slot = "none",
           NEW t, t = Select(s)
    PROVE  Carries(s, t)
<1> DEFINE mine == "interactive"
           its == "current"
<1>1. /\ s \in Writer(Messages) /\ s.interactive \in Seq(Items(Messages))
      /\ s.current_interactive \in UnderWay(Messages)
  BY WriterParts DEF Good
<1>2. CASE s.current_interactive # NoItem
  <2> DEFINE item == [s.current_interactive EXCEPT !.left = @ - 1]
  <2>1. t = [s EXCEPT !.current_interactive = item, !.slot = mine]
    BY <1>1, <1>2 DEF Select, Writer
  <2>2. item.msg = s.current_interactive.msg
    BY <1>1, <1>2 DEF UnderWay, Begun
  <2> HIDE DEF item
  <2>3. /\ t.render = s.render /\ t.render_ready = s.render_ready /\ t.lane = s.lane
        /\ t.current = s.current /\ t.reliable = s.reliable /\ t.closed = s.closed
        /\ t.current_interactive = item /\ t.interactive = s.interactive
    BY <1>1, <2>1 DEF Writer
  <2>4. SameLanes(s, t)
    BY <2>3 DEF SameLanes, SameCurrent
  <2>5. /\ \A i \in DOMAIN t.interactive : t.interactive[i].msg.kind = "other"
        /\ t.current_interactive.msg.kind = "other"
    BY <1>2, <2>2, <2>3 DEF Fleet
  <2> QED
    BY <2>3, <2>4, <2>5, SameLanesCarries
<1>3. CASE s.current_interactive = NoItem /\ s.interactive # <<>>
  <2> DEFINE front == s.interactive[1]
             item == [front EXCEPT !.left = @ - 1]
             rest == Tail(s.interactive)
  <2>1. /\ front \in Items(Messages) /\ Head(s.interactive) = front /\ 1 \in DOMAIN s.interactive
        /\ \A i \in DOMAIN rest : i + 1 \in DOMAIN s.interactive /\ rest[i] = s.interactive[i + 1]
    BY <1>1, <1>3, FrontAndRest
  <2>2. t = [s EXCEPT !.current_interactive = item, !.interactive = rest, !.slot = mine]
    BY <1>1, <1>3, <2>1 DEF Select, Writer
  <2>3. item.msg = front.msg /\ front.msg.kind = "other"
    BY <2>1 DEF Items, Fleet
  <2>4. \A i \in DOMAIN rest : rest[i].msg.kind = "other"
    BY <2>1 DEF Fleet
  <2> HIDE DEF front, item, rest
  <2>5. /\ t.render = s.render /\ t.render_ready = s.render_ready /\ t.lane = s.lane
        /\ t.current = s.current /\ t.reliable = s.reliable /\ t.closed = s.closed
        /\ t.current_interactive = item /\ t.interactive = rest
    BY <1>1, <2>2 DEF Writer
  <2>6. SameLanes(s, t)
    BY <2>5 DEF SameLanes, SameCurrent
  <2> QED
    BY <2>3, <2>4, <2>5, <2>6, SameLanesCarries
<1>4. CASE s.current_interactive = NoItem /\ s.interactive = <<>>
  <2> DEFINE chosen == IF s.current = NoItem THEN NextCurrent(s) ELSE s
             item == [chosen.current EXCEPT !.left = @ - 1]
  <2>1. t = IF chosen.current = NoItem THEN chosen
            ELSE [chosen EXCEPT !.current.left = @ - 1, !.slot = "current"]
    BY <1>4 DEF Select
  <2>2. Carries(s, chosen)
    <3>1. CASE s.current = NoItem
      BY <3>1, NextCurrentKeeps
    <3>2. CASE s.current # NoItem
      <4>1. SameLanes(s, s)
        BY DEF SameLanes, SameCurrent
      <4>2. Carries(s, s)
        BY <4>1, SameLanesCarries DEF Fleet
      <4> QED
        BY <3>2, <4>2
    <3> QED
      BY <3>1, <3>2
  <2>3. Good(chosen, Messages)
    BY NextCurrentGood DEF Takes
  <2> HIDE DEF chosen
  <2>4. chosen \in Writer(Messages) /\ Begins(chosen) /\ chosen.current \in UnderWay(Messages)
        /\ Fleet(chosen)
    BY <2>2, <2>3, WriterParts DEF Good, Carries, Keeps
  <2>5. CASE chosen.current # NoItem
    <3>1. item.msg = chosen.current.msg /\ item.bytes = chosen.current.bytes /\ item # NoItem
      <4>1. item.msg = chosen.current.msg /\ item.bytes = chosen.current.bytes
            /\ item.kind = "item"
        BY <2>4, <2>5 DEF UnderWay, Begun
      <4> QED
        BY <4>1 DEF NoItem
    <3>2. t = [chosen EXCEPT !.current = item, !.slot = its]
      BY <2>1, <2>4, <2>5 DEF Writer
    <3> HIDE DEF item
    <3>3. /\ t.render = chosen.render /\ t.render_ready = chosen.render_ready
          /\ t.lane = chosen.lane /\ t.current = item /\ t.reliable = chosen.reliable
          /\ t.closed = chosen.closed /\ t.interactive = chosen.interactive
          /\ t.current_interactive = chosen.current_interactive
      BY <2>4, <3>2 DEF Writer
    <3>4. SameLanes(chosen, t)
      BY <2>5, <3>1, <3>3 DEF SameLanes, SameCurrent
    <3>5. Carries(chosen, t)
      BY <2>4, <3>3, <3>4, SameLanesCarries DEF Fleet
    <3> QED
      BY <2>2, <3>5, CarriesOn
  <2>6. CASE chosen.current = NoItem
    BY <2>1, <2>2, <2>6
  <2> QED
    BY <2>5, <2>6
<1> QED
  BY <1>2, <1>3, <1>4

-----------------------------------------------------------------------------
(* The streams and what they have on its way.                              *)

\* A stream whose snapshot was sent
Opened == {"opened", "streaming", "framing", "draining", "ending"}

\* Snapshots and deltas of the first n captures
IsView(u, n) == u.base = 0 /\ 1 <= u.sequence /\ u.sequence <= n
IsUpdate(u, n) == IsView(u, n) \/ (0 < u.base /\ u.base < u.sequence /\ u.sequence <= n)

\* What the lane l of the stream at `pc` has on its way
Stationed(w, srv, pc, l) ==
    LET q == w.render[l] IN
    /\ srv = l /\ pc # "none" => q.open
    /\ q.open /\ pc \in {"starting", "opening"} => ~Sending(w, l) /\ ~q.ready
    /\ q.open /\ pc \in {"framing", "ending"} => ~Sending(w, l)
    /\ l \in Awaited(w) => pc \in {"leaving", "none"}

\* Only the stream that serves is not aborted.
Alone(streams, srv) ==
    \A l \in Lanes : streams[l].pc # "none" /\ ~streams[l].aborted => srv = l

\* What is sent is an update, and so is what an attached Client is told.
Attaches(m) == m.kind = "response" /\ m.of = "attach"
WriterNumbers(w, n) ==
    /\ \A l \in Lanes : Sending(w, l) => IsUpdate(Sent(w, l), n)
    /\ \A m \in Told(w) : Attaches(m) => IsView(m.update, n)

\* A delta, and a frame that a message waits for, come before the frames of other lanes; the
\* frame of the stream that serves comes after them, and is the last to be sent.
Ordered(w, streams, srv) ==
    \A l, k \in Lanes : l # k =>
        /\ Sending(w, l) /\ Sending(w, k)
              => /\ IsDelta(Sent(w, l)) \/ l \in Awaited(w) => Before(w, l, k)
                 /\ srv = l /\ streams[l].pc \in Opened => Before(w, k, l)
        /\ srv = l /\ streams[l].pc \in Opened /\ ~Sending(w, l) => ~Sending(w, k)

\* The Client knows of the terminal before a frame of it can reach it.
Introduced(w, known) ==
    \/ known
    \/ Introducing(w)
    \/ \A l \in Lanes : ~Sending(w, l) /\ ~w.render[l].open /\ l \notin Awaited(w)

\* A delta is based on what the mirror holds, and what the stream that serves has sent, and no
\* more, is what the mirror holds or gets last.
Agrees(w, s, srv, sequence, l) ==
    /\ Sending(w, l) /\ IsDelta(Sent(w, l)) => Sent(w, l).base = sequence
    /\ srv = l /\ s.pc \in Opened =>
          /\ ~Sending(w, l) => sequence = s.baseline.sequence
          /\ Sending(w, l) =>
                /\ Sent(w, l).sequence = s.baseline.sequence
                /\ sequence <= s.baseline.sequence
                /\ \A k \in Lanes : Sending(w, k) => Sent(w, k).sequence <= s.baseline.sequence
                /\ sequence = 0 => \A m \in Told(w) : Attaches(m) =>
                                        m.update.sequence <= s.baseline.sequence

Faultless(faults) == faults \cap {"early", "overlap", "older"} = {}

\* All of it, of the writer w, the streams, the one that serves, whether the Client knows of the
\* terminal, the sequence of its mirror, the number of captures and the mishaps
Flow(w, streams, srv, known, sequence, n, faults) ==
    /\ w.closed => w.slot = "none"
    /\ Alone(streams, srv)
    /\ ~w.closed =>
          /\ Fleet(w)
          /\ \A l \in Lanes : Stationed(w, srv, streams[l].pc, l)
          /\ WriterNumbers(w, n)
          /\ "overlap" \notin faults => Ordered(w, streams, srv)
          /\ "early" \notin faults => Introduced(w, known)
          /\ Faultless(faults) => \A l \in Lanes : Agrees(w, streams[l], srv, sequence, l)

\* A closed writer has nothing on its way.
LEMMA FlowClosed ==
    ASSUME NEW w, w.closed, w.slot = "none", NEW streams, NEW srv, Alone(streams, srv),
           NEW known, NEW sequence, NEW n, NEW faults
    PROVE  Flow(w, streams, srv, known, sequence, n, faults)
BY DEF Flow

\* What is on its way is what was sent.
LEMMA OnTheWay ==
    ASSUME NEW s, Good(s, Messages), Fleet(s)
    PROVE  /\ \A l \in Lanes : Sending(s, l) => Sent(s, l) \in Updates
           /\ \A m \in Told(s) : m \in Messages /\ m.update \in Updates
<1>1. /\ s.reliable \in Seq(Items(Messages)) /\ s.current \in UnderWay(Messages)
      /\ \A l \in Lanes : s.render[l].items \in Seq(Items(Messages))
  BY WriterParts, QueueParts DEF Good
<1>2. \A item \in Items(Messages) : item.msg \in Messages
  BY DEF Items
<1>3. \A m \in Messages : m.update \in Updates
  BY DEF Messages
<1>4. s.current # NoItem => s.current.msg \in Messages
  BY <1>1 DEF UnderWay, Begun
<1>5. ASSUME NEW l \in Lanes, Sending(s, l) PROVE Sent(s, l) \in Updates
  <2>1. CASE s.lane = l
    <3>1. s.current # NoItem
      BY <2>1, WriterAssumption DEF Fleet
    <3> QED
      BY <1>3, <1>4, <2>1, <3>1 DEF Sent
  <2>2. CASE s.lane # l
    <3>1. s.render[l].items # <<>> /\ Len(s.render[l].items) = 1
      BY <1>5, <2>2 DEF Sending, Fleet, Loaded
    <3>2. s.render[l].items[1] \in Items(Messages)
      BY <1>1, <3>1, FrontAndRest
    <3> QED
      BY <1>2, <1>3, <2>2, <3>2 DEF Sent
  <2> QED
    BY <2>1, <2>2
<1>6. ASSUME NEW m \in Told(s) PROVE m \in Messages
  <2>1. \A i \in DOMAIN s.reliable : s.reliable[i] \in Items(Messages)
    BY <1>1, ElementOfSeq, LenProperties
  <2> QED
    BY <1>2, <1>4, <1>6, <2>1 DEF Told, Current
<1> QED
  BY <1>3, <1>5, <1>6

\* More captures and more mishaps do not matter.
LEMMA FlowGrows ==
    ASSUME NEW w, NEW streams, NEW srv, NEW known, NEW sequence, NEW n \in Nat, NEW faults,
           Flow(w, streams, srv, known, sequence, n, faults), Good(w, Messages),
           NEW later \in Nat, n <= later, NEW more, faults \subseteq more,
           NEW others, \A l \in Lanes : /\ others[l].pc = streams[l].pc
                                        /\ others[l].aborted = streams[l].aborted
                                        /\ others[l].baseline = streams[l].baseline
    PROVE  Flow(w, others, srv, known, sequence, later, more)
<1>1. ASSUME ~w.closed, WriterNumbers(w, n) PROVE WriterNumbers(w, later)
  <2>1. \A u \in Updates : IsView(u, n) => IsView(u, later)
    BY DEF IsView, Updates
  <2>2. \A u \in Updates : IsUpdate(u, n) => IsUpdate(u, later)
    BY DEF IsView, IsUpdate, Updates
  <2>3. Fleet(w)
    BY <1>1 DEF Flow
  <2> QED
    BY <1>1, <2>1, <2>2, <2>3, OnTheWay DEF WriterNumbers
<1>2. Alone(others, srv)
  BY DEF Flow, Alone
<1>3. Ordered(w, streams, srv) => Ordered(w, others, srv)
  BY DEF Ordered
<1>4. \A l \in Lanes : Agrees(w, streams[l], srv, sequence, l) => Agrees(w, others[l], srv, sequence, l)
  BY DEF Agrees
<1>5. Faultless(more) => Faultless(faults)
  BY DEF Faultless
<1> QED
  BY <1>1, <1>2, <1>3, <1>4, <1>5 DEF Flow

\* The writer takes, finishes or gets messages.
LEMMA FlowCarried ==
    ASSUME NEW w, ~w.closed, NEW streams, NEW srv, NEW known, NEW sequence, NEW n, NEW faults,
           Flow(w, streams, srv, known, sequence, n, faults), NEW v, Keeps(w, v),
           \A m \in Told(v) : \/ m \in Told(w)
                              \/ Attaches(m) => IsView(m.update, n) /\ srv \notin Lanes,
           \A l \in Lanes : l \in Awaited(v) => l \in Awaited(w)
    PROVE  Flow(v, streams, srv, known, sequence, n, faults)
<1>1. ~v.closed /\ Fleet(v) /\ SameFrames(w, v) /\ (Introducing(w) => Introducing(v))
  BY DEF Keeps
<1>2. \A l \in Lanes : /\ Sending(v, l) <=> Sending(w, l)
                       /\ Sending(w, l) => Sent(v, l) = Sent(w, l)
                       /\ v.render[l].open = w.render[l].open
                       /\ v.render[l].ready => w.render[l].ready
  BY <1>1 DEF SameFrames
<1>3. Alone(streams, srv)
  BY DEF Flow
<1>4. \A l \in Lanes : Stationed(v, srv, streams[l].pc, l)
  <2>1. \A l \in Lanes : Stationed(w, srv, streams[l].pc, l)
    BY DEF Flow
  <2> QED
    BY <1>2, <2>1 DEF Stationed
<1>5. WriterNumbers(v, n)
  <2>1. WriterNumbers(w, n)
    BY DEF Flow
  <2> QED
    BY <1>2, <2>1 DEF WriterNumbers
<1>6. ASSUME Ordered(w, streams, srv) PROVE Ordered(v, streams, srv)
  <2>1. Waits(w)
    BY <1>6 DEF Ordered, Waits
  <2>2. \A k, l \in Lanes : k # l /\ Sending(w, k) /\ Sending(w, l) /\ Before(w, k, l)
                                => Before(v, k, l)
    BY <1>1, <2>1 DEF SameFrames
  <2> QED
    BY <1>2, <1>6, <2>2 DEF Ordered
<1>7. Introduced(w, known) => Introduced(v, known)
  BY <1>1, <1>2 DEF Introduced
<1>8. ASSUME NEW l \in Lanes, Agrees(w, streams[l], srv, sequence, l)
      PROVE  Agrees(v, streams[l], srv, sequence, l)
  BY <1>2, <1>8 DEF Agrees
<1> QED
  BY <1>1, <1>3, <1>4, <1>5, <1>6, <1>7, <1>8 DEF Flow

\* The stream that serves is aborted.
LEMMA FlowStops ==
    ASSUME NEW w, NEW streams, NEW srv, NEW known, NEW sequence, NEW n, NEW faults,
           Flow(w, streams, srv, known, sequence, n, faults),
           NEW others, \A l \in Lanes : /\ others[l].pc = streams[l].pc
                                        /\ streams[l].aborted => others[l].aborted
                                        /\ srv = l /\ streams[l].pc # "none" => others[l].aborted
    PROVE  Flow(w, others, NoLane, known, sequence, n, faults)
<1>1. \A l \in Lanes : l # NoLane
  BY WriterAssumption
<1>2. Alone(others, NoLane)
  BY DEF Flow, Alone
<1>3. \A l \in Lanes : Stationed(w, srv, streams[l].pc, l) => Stationed(w, NoLane, others[l].pc, l)
  BY <1>1 DEF Stationed
<1>4. Ordered(w, streams, srv) => Ordered(w, others, NoLane)
  BY <1>1 DEF Ordered
<1>5. \A l \in Lanes : Agrees(w, streams[l], srv, sequence, l) => Agrees(w, others[l], NoLane, sequence, l)
  BY <1>1 DEF Agrees
<1> QED
  BY <1>2, <1>3, <1>4, <1>5 DEF Flow

\* A stream starts, with a lane of its own.
LEMMA FlowStarts ==
    ASSUME NEW w, Good(w, Messages), ~w.closed, NEW streams, NEW known, NEW sequence, NEW n, NEW faults,
           Flow(w, streams, NoLane, known, sequence, n, faults), NEW l \in Lanes,
           ~w.render[l].open, w.lane # l, l \notin Awaited(w),
           "early" \notin faults => known \/ Introducing(w),
           NEW others, others[l].pc = "starting",
           \A k \in Lanes \ {l} : others[k].pc = streams[k].pc /\ others[k].aborted = streams[k].aborted,
           NEW v, v = OpenLane(w, l)
    PROVE  Flow(v, others, l, known, sequence, n, faults)
<1>1. \A k \in Lanes : k # NoLane
  BY WriterAssumption
<1>2. /\ Fleet(v) /\ OneLane(w, v, l) /\ ~Sending(w, l) /\ ~Sending(v, l)
      /\ v.render[l].open /\ ~v.render[l].ready
      /\ \A j, k \in Lanes : Before(v, j, k) <=> Before(w, j, k)
  BY OpenLaneKeeps DEF Flow
<1>3. /\ ~v.closed /\ Told(v) = Told(w) /\ Awaited(v) = Awaited(w)
      /\ Introducing(v) <=> Introducing(w)
      /\ \A k \in Lanes : /\ Sending(v, k) <=> Sending(w, k)
                          /\ Sending(w, k) => Sent(v, k) = Sent(w, k)
                          /\ k # l => v.render[k] = w.render[k]
  BY <1>2 DEF OneLane
<1>4. Alone(others, l)
  BY <1>1 DEF Flow, Alone
<1>5. ASSUME NEW k \in Lanes PROVE Stationed(v, l, others[k].pc, k)
  <2>1. CASE k = l
    BY <1>2, <1>3, <2>1 DEF Stationed
  <2>2. CASE k # l
    <3>1. Stationed(w, NoLane, streams[k].pc, k)
      BY DEF Flow
    <3> QED
      BY <1>3, <2>2, <3>1 DEF Stationed
  <2> QED
    BY <2>1, <2>2
<1>6. WriterNumbers(v, n)
  BY <1>3 DEF Flow, WriterNumbers
<1>7. ASSUME Ordered(w, streams, NoLane) PROVE Ordered(v, others, l)
  BY <1>2, <1>3, <1>7 DEF Ordered, Opened
<1>8. "early" \notin faults => Introduced(v, known)
  BY <1>3 DEF Introduced
<1>9. ASSUME NEW k \in Lanes, Agrees(w, streams[k], NoLane, sequence, k)
      PROVE  Agrees(v, others[k], l, sequence, k)
  BY <1>3, <1>9 DEF Agrees, Opened
<1> QED
  BY <1>2, <1>3, <1>4, <1>5, <1>6, <1>7, <1>8, <1>9 DEF Flow

\* A stream ends, and its lane is closed.
LEMMA FlowEnds ==
    ASSUME NEW w, Good(w, Messages), NEW streams, NEW srv, NEW known, NEW sequence, NEW n, NEW faults,
           Flow(w, streams, srv, known, sequence, n, faults), NEW l \in Lanes,
           NEW others, others[l].pc = "none",
           \A k \in Lanes \ {l} : others[k] = streams[k],
           NEW v, v = DropLane(w, l)
    PROVE  Flow(v, others, srv, known, sequence, n, faults)
<1>1. Alone(others, srv)
  BY DEF Flow, Alone
<1>2. CASE w.closed
  <2>1. v.closed = w.closed /\ v.slot = w.slot
    <3>1. w \in Writer(Messages)
      BY DEF Good
    <3> QED
      BY <3>1 DEF DropLane, Writer
  <2>2. w.slot = "none"
    BY <1>2 DEF Flow
  <2> QED
    BY <1>1, <1>2, <2>1, <2>2, FlowClosed
<1>3. CASE ~w.closed
  <2>1. /\ Fleet(v) /\ OneLane(w, v, l) /\ ~v.render[l].open /\ ~v.render[l].ready
        /\ Sending(v, l) => Sending(w, l) /\ Sent(v, l) = Sent(w, l)
        /\ \A j, k \in Lanes : Before(v, j, k) <=> Before(w, j, k)
    BY <1>3, DropLaneKeeps DEF Flow
  <2>2. /\ ~v.closed /\ Told(v) = Told(w) /\ Awaited(v) = Awaited(w)
        /\ Introducing(v) <=> Introducing(w)
        /\ \A k \in Lanes : /\ Sending(v, k) => Sending(w, k) /\ Sent(v, k) = Sent(w, k)
                            /\ k # l /\ Sending(w, k) => Sending(v, k)
                            /\ k # l => v.render[k] = w.render[k]
    BY <1>3, <2>1 DEF OneLane
  <2>3. ASSUME NEW k \in Lanes PROVE Stationed(v, srv, others[k].pc, k)
    <3>1. CASE k = l
      BY <2>1, <3>1 DEF Stationed
    <3>2. CASE k # l
      <4>1. Stationed(w, srv, streams[k].pc, k)
        BY <1>3 DEF Flow
      <4> QED
        BY <2>2, <3>2, <4>1 DEF Stationed
    <3> QED
      BY <3>1, <3>2
  <2>4. WriterNumbers(v, n)
    BY <1>3, <2>2 DEF Flow, WriterNumbers
  <2>5. ASSUME Ordered(w, streams, srv) PROVE Ordered(v, others, srv)
    BY <2>1, <2>2, <2>5 DEF Ordered, Opened
  <2>6. Introduced(w, known) => Introduced(v, known)
    BY <2>1, <2>2 DEF Introduced
  <2>7. ASSUME NEW k \in Lanes, Agrees(w, streams[k], srv, sequence, k)
        PROVE  Agrees(v, others[k], srv, sequence, k)
    <3>1. CASE k = l
      BY <2>2, <2>7, <3>1 DEF Agrees, Opened
    <3>2. CASE k # l
      BY <2>2, <2>7, <3>2 DEF Agrees
    <3> QED
      BY <3>1, <3>2
  <2> QED
    BY <1>1, <1>3, <2>1, <2>2, <2>3, <2>4, <2>5, <2>6, <2>7 DEF Flow
<1> QED
  BY <1>2, <1>3

\* A stream that has not ended, and waits for nothing, moves without a frame.
LEMMA FlowMoves ==
    ASSUME NEW w, NEW streams, NEW srv, NEW known, NEW sequence, NEW n, NEW faults,
           Flow(w, streams, srv, known, sequence, n, faults), NEW l \in Lanes,
           NEW others, \A k \in Lanes \ {l} : others[k] = streams[k],
           others[l].aborted = streams[l].aborted, others[l].baseline = streams[l].baseline,
           streams[l].pc \notin {"none", "leaving"},
           others[l].pc \in {"starting", "opening"} => streams[l].pc \in {"starting", "opening"},
           others[l].pc \in Opened => streams[l].pc \in Opened,
           others[l].pc \in {"framing", "ending"} /\ w.render[l].open /\ ~w.closed => ~Sending(w, l)
    PROVE  Flow(w, others, srv, known, sequence, n, faults)
<1>1. Alone(others, srv)
  BY DEF Flow, Alone
<1>2. ASSUME NEW k \in Lanes, ~w.closed PROVE Stationed(w, srv, others[k].pc, k)
  <2>1. Stationed(w, srv, streams[k].pc, k)
    BY <1>2 DEF Flow
  <2> QED
    BY <1>2, <2>1 DEF Stationed
<1>3. Ordered(w, streams, srv) => Ordered(w, others, srv)
  BY DEF Ordered
<1>4. ASSUME NEW k \in Lanes, Agrees(w, streams[k], srv, sequence, k)
      PROVE  Agrees(w, others[k], srv, sequence, k)
  BY <1>4 DEF Agrees
<1> QED
  BY <1>1, <1>2, <1>3, <1>4 DEF Flow

\* A stream whose snapshot was sent has a baseline.
Based(streams) ==
    \A l \in Lanes : /\ streams[l].baseline.sequence \in Nat
                     /\ streams[l].pc \in Opened => 1 <= streams[l].baseline.sequence

\* A stream sends a frame and goes on: its first, or one that continues its baseline.
LEMMA FlowSends ==
    ASSUME NEW w, Good(w, Messages), ~w.closed, NEW streams, Based(streams), NEW srv, NEW known,
           NEW sequence \in Nat, NEW n \in Nat, sequence <= n, NEW faults,
           Flow(w, streams, srv, known, sequence, n, faults), NEW l \in Lanes,
           w.render[l].open, ~Sending(w, l), streams[l].pc \in Opened \cup {"opening"},
           "overlap" \notin faults => srv = l,
           NEW item \in Items(Messages), item.msg.kind = "frame", IsUpdate(item.msg.update, n),
           IsDelta(item.msg.update) => streams[l].pc \in Opened,
           Faultless(faults) =>
              /\ IsDelta(item.msg.update) => item.msg.update.base = streams[l].baseline.sequence
              /\ \/ item.msg.update.sequence = n
                 \/ streams[l].pc \in Opened
                    /\ streams[l].baseline.sequence <= item.msg.update.sequence,
           NEW others, \A k \in Lanes \ {l} : others[k] = streams[k],
           others[l].aborted = streams[l].aborted,
           others[l].pc \in {"opened", "streaming", "leaving"},
           others[l].pc \in Opened => others[l].baseline.sequence = item.msg.update.sequence,
           NEW v, v = Enqueue(w, l, item)
    PROVE  /\ Flow(v, others, srv, known, sequence, n, faults)
           /\ Ordered(w, streams, srv) /\ srv = l /\ streams[l].pc \in Opened
                 => \A k \in Lanes : Sending(v, k) => k = l
           /\ Sending(v, l)
<1> DEFINE u == item.msg.update
<1>1. /\ Fleet(w) /\ WriterNumbers(w, n) /\ Alone(streams, srv)
      /\ \A k \in Lanes : Stationed(w, srv, streams[k].pc, k)
  BY DEF Flow
<1>2. l \notin Awaited(w) /\ (streams[l].pc = "opening" => ~w.render[l].ready)
  BY <1>1 DEF Stationed, Opened
<1>3. /\ Fleet(v) /\ OneLane(w, v, l) /\ Sending(v, l) /\ Sent(v, l) = u
      /\ v.render[l].open
      /\ \A j, k \in Lanes : Before(w, j, k) => Before(v, j, k)
      /\ ~w.render[l].ready => \A k \in Lanes \ {l} : Sending(w, k) => Before(v, k, l)
  BY <1>1, EnqueueKeeps
<1>4. /\ ~v.closed /\ Told(v) = Told(w) /\ Awaited(v) = Awaited(w)
      /\ Introducing(v) <=> Introducing(w)
      /\ \A k \in Lanes : k # l => /\ Sending(v, k) <=> Sending(w, k)
                                   /\ Sent(v, k) = Sent(w, k)
                                   /\ v.render[k] = w.render[k]
  BY <1>3 DEF OneLane
<1>5. Alone(others, srv)
  BY <1>1 DEF Alone, Opened
<1>6. ASSUME NEW k \in Lanes PROVE Stationed(v, srv, others[k].pc, k)
  <2>1. CASE k = l
    BY <1>2, <1>3, <1>4, <2>1 DEF Stationed
  <2>2. CASE k # l
    BY <1>1, <1>4, <2>2 DEF Stationed
  <2> QED
    BY <2>1, <2>2
<1>7. WriterNumbers(v, n)
  BY <1>1, <1>3, <1>4 DEF WriterNumbers
<1>8. ASSUME Ordered(w, streams, srv), srv = l, streams[l].pc \in Opened, NEW k \in Lanes, k # l
      PROVE  ~Sending(w, k) /\ ~Sending(v, k)
  BY <1>4, <1>8 DEF Ordered
<1>9. ASSUME "overlap" \notin faults PROVE Ordered(v, others, srv)
  <2>1. Ordered(w, streams, srv) /\ srv = l
    BY <1>9 DEF Flow
  <2>2. CASE streams[l].pc \in Opened
    BY <1>3, <1>8, <2>1, <2>2 DEF Ordered
  <2>3. CASE streams[l].pc = "opening"
    <3>1. ~IsDelta(u)
      BY <2>3 DEF Opened
    <3>2. \A k \in Lanes \ {l} : Sending(w, k) => Before(v, k, l)
      BY <1>2, <1>3, <2>3
    <3> HIDE DEF u
    <3> QED
      BY <1>2, <1>3, <1>4, <2>1, <3>1, <3>2 DEF Ordered
  <2> QED
    BY <2>2, <2>3
<1>10. Introduced(w, known) => Introduced(v, known)
  BY <1>4 DEF Introduced
<1>11. ASSUME Faultless(faults), NEW k \in Lanes PROVE Agrees(v, others[k], srv, sequence, k)
  <2>1. Ordered(w, streams, srv) /\ srv = l /\ Agrees(w, streams[k], srv, sequence, k)
        /\ Agrees(w, streams[l], srv, sequence, l)
    BY <1>11 DEF Flow, Faultless
  <2>2. CASE k # l
    BY <1>4, <2>1, <2>2 DEF Agrees
  <2>3. CASE k = l
    <3>1. streams[l].pc \in Opened => sequence = streams[l].baseline.sequence
      BY <2>1 DEF Agrees
    <3>2. IsDelta(u) => u.base = sequence
      BY <1>11, <3>1
    <3>3. u.sequence \in Nat /\ u.sequence <= n
      <4>1. u \in Updates
        BY DEF Items, Messages
      <4> QED
        BY <4>1 DEF Updates, IsUpdate, IsView
    <3>4. sequence <= u.sequence
      BY <1>11, <3>1
    <3>5. ASSUME NEW j \in Lanes, Sending(v, j) PROVE Sent(v, j).sequence <= u.sequence
      <4>1. CASE j = l
        BY <1>3, <3>3, <4>1
      <4>2. CASE j # l
        <5>1. Sending(w, j) /\ Sent(v, j) = Sent(w, j) /\ streams[l].pc \notin Opened
          BY <1>4, <1>8, <2>1, <3>5, <4>2
        <5>2. u.sequence = n
          BY <1>11, <5>1
        <5>3. Sent(w, j).sequence <= n
          BY <1>1, <5>1 DEF WriterNumbers, IsUpdate, IsView
        <5> QED
          BY <5>1, <5>2, <5>3
      <4> QED
        BY <4>1, <4>2
    <3>6. ASSUME sequence = 0, NEW m \in Told(v), Attaches(m) PROVE m.update.sequence <= u.sequence
      <4>1. u.sequence = n
        <5>1. streams[l].pc \notin Opened
          BY <3>1, <3>6 DEF Based
        <5> QED
          BY <1>11, <5>1
      <4>2. m.update.sequence <= n
        BY <1>1, <1>4, <3>6 DEF WriterNumbers, IsView
      <4> QED
        BY <4>1, <4>2
    <3> HIDE DEF u
    <3>7. others[l].pc \in Opened => others[l].baseline.sequence = u.sequence
      BY DEF u
    <3> QED
      BY <1>3, <2>3, <3>2, <3>4, <3>5, <3>6, <3>7 DEF Agrees
  <2> QED
    BY <2>2, <2>3
<1>12. Flow(v, others, srv, known, sequence, n, faults)
  BY <1>3, <1>4, <1>5, <1>6, <1>7, <1>9, <1>10, <1>11 DEF Flow
<1> QED
  BY <1>3, <1>8, <1>12

\* A frame of lane l reaches the Client.
LEMMA FlowDelivers ==
    ASSUME NEW w, Good(w, Messages), ~w.closed, NEW streams, Based(streams), NEW srv, NEW known,
           NEW sequence \in Nat, NEW n \in Nat, NEW faults,
           Flow(w, streams, srv, known, sequence, n, faults),
           w.slot = "current", w.current.left = 0, w.lane \in Lanes,
           NEW reached,
           Faultless(faults) => LET u == w.current.msg.update IN
                                reached = IF u.sequence > sequence THEN u.sequence ELSE sequence,
           NEW v, v = Finish(w)
    PROVE  Flow(v, streams, srv, known, reached, n, faults)
<1> DEFINE l == w.lane
           u == w.current.msg.update
<1>1. /\ Fleet(w) /\ WriterNumbers(w, n) /\ Alone(streams, srv)
      /\ \A k \in Lanes : Stationed(w, srv, streams[k].pc, k)
  BY DEF Flow
<1>2. /\ Fleet(v) /\ ~v.closed /\ Sending(w, l) /\ Sent(w, l) = u /\ ~Sending(v, l)
      /\ ~Introducing(w)
      /\ \A k \in Lanes : k # l => /\ Sending(v, k) <=> Sending(w, k)
                                   /\ Sent(v, k) = Sent(w, k)
                                   /\ v.render[k] = w.render[k]
      /\ \A k \in Lanes : v.render[k].open = w.render[k].open /\ v.render[k].ready = w.render[k].ready
      /\ \A j, k \in Lanes : j # l /\ Before(w, j, k) => Before(v, j, k)
      /\ Told(v) = Told(w) /\ Awaited(v) = Awaited(w)
  BY <1>1, FinishFrame
<1>3. \A k \in Lanes : Before(w, k, l) => k = l
  BY DEF Before
<1>4. ASSUME NEW k \in Lanes PROVE Stationed(v, srv, streams[k].pc, k)
  <2>1. Stationed(w, srv, streams[k].pc, k)
    BY <1>1
  <2>2. Sending(v, k) => Sending(w, k)
    BY <1>2
  <2>3. v.render[k].open = w.render[k].open /\ v.render[k].ready = w.render[k].ready
        /\ Awaited(v) = Awaited(w)
    BY <1>2
  <2> QED
    BY <2>1, <2>2, <2>3 DEF Stationed
<1>5. WriterNumbers(v, n)
  BY <1>1, <1>2 DEF WriterNumbers
<1> HIDE DEF l, u
<1>6. l \in Lanes
  BY DEF l
<1>7. ASSUME Ordered(w, streams, srv) PROVE Ordered(v, streams, srv)
  <2>1. SUFFICES ASSUME NEW a \in Lanes, NEW b \in Lanes, a # b
        PROVE  /\ Sending(v, a) /\ Sending(v, b)
                     => /\ IsDelta(Sent(v, a)) \/ a \in Awaited(v) => Before(v, a, b)
                        /\ srv = a /\ streams[a].pc \in Opened => Before(v, b, a)
               /\ srv = a /\ streams[a].pc \in Opened /\ ~Sending(v, a) => ~Sending(v, b)
    BY DEF Ordered
  <2>2. /\ Sending(w, a) /\ Sending(w, b)
              => /\ IsDelta(Sent(w, a)) \/ a \in Awaited(w) => Before(w, a, b)
                 /\ srv = a /\ streams[a].pc \in Opened => Before(w, b, a)
        /\ srv = a /\ streams[a].pc \in Opened /\ ~Sending(w, a) => ~Sending(w, b)
    BY <1>7, <2>1 DEF Ordered
  <2>3. CASE a # l /\ b # l
    BY <1>2, <2>2, <2>3
  <2>4. CASE a = l
    BY <1>2, <1>3, <2>1, <2>2, <2>4
  <2>5. CASE b = l
    BY <1>2, <2>5
  <2> QED
    BY <2>3, <2>4, <2>5
<1>8. "early" \notin faults => Introduced(v, known)
  <2>1. "early" \notin faults => Introduced(w, known)
    BY DEF Flow
  <2> QED
    BY <1>2, <1>6, <2>1 DEF Introduced
<1>9. ASSUME Faultless(faults), NEW k \in Lanes PROVE Agrees(v, streams[k], srv, reached, k)
  <2>1. /\ Ordered(w, streams, srv) /\ Agrees(w, streams[k], srv, sequence, k)
        /\ reached = IF u.sequence > sequence THEN u.sequence ELSE sequence
    BY <1>9 DEF Flow, Faultless, u
  <2>2. u \in Updates /\ u.sequence \in Nat
    <3>1. u \in Updates
      BY <1>1, <1>2, <1>6, OnTheWay
    <3> QED
      BY <3>1 DEF Updates
  <2>3. ASSUME Sending(v, k), IsDelta(Sent(v, k)) PROVE FALSE
    BY <1>2, <1>3, <1>6, <2>1, <2>3 DEF Ordered
  <2>4. ASSUME srv = k, streams[k].pc \in Opened
        PROVE  /\ ~Sending(v, k) => reached = streams[k].baseline.sequence
               /\ Sending(v, k) =>
                     /\ Sent(v, k).sequence = streams[k].baseline.sequence
                     /\ reached <= streams[k].baseline.sequence
                     /\ \A j \in Lanes : Sending(v, j) => Sent(v, j).sequence <= streams[k].baseline.sequence
                     /\ reached = 0 => \A m \in Told(v) : Attaches(m) =>
                                             m.update.sequence <= streams[k].baseline.sequence
    <3> DEFINE base == streams[k].baseline.sequence
    <3>1. base \in Nat
      BY DEF Based
    <3>2. Sending(w, k)
      BY <1>2, <1>6, <2>1, <2>4 DEF Ordered
    <3>3. /\ Sent(w, k).sequence = base /\ sequence <= base
          /\ \A j \in Lanes : Sending(w, j) => Sent(w, j).sequence <= base
          /\ sequence = 0 => \A m \in Told(w) : Attaches(m) => m.update.sequence <= base
      BY <2>1, <2>4, <3>2 DEF Agrees
    <3>4. u.sequence <= base
      BY <1>2, <1>6, <3>3
    <3> HIDE DEF base
    <3>5. reached <= base
      BY <2>1, <3>3, <3>4
    <3>6. reached = 0 => sequence = 0
      BY <2>1, <2>2
    <3>7. CASE k = l
      <4>1. u.sequence = base
        BY <1>2, <3>3, <3>7
      <4>2. reached = base
        BY <2>1, <2>2, <3>1, <3>3, <4>1
      <4> QED
        BY <1>2, <3>7, <4>2 DEF base
    <3>8. CASE k # l
      <4>1. Sending(v, k) /\ Sent(v, k).sequence = base
        BY <1>2, <3>2, <3>3, <3>8
      <4>2. \A j \in Lanes : Sending(v, j) => Sent(v, j).sequence <= base
        BY <1>2, <3>3
      <4>3. reached = 0 => \A m \in Told(v) : Attaches(m) => m.update.sequence <= base
        BY <1>2, <3>3, <3>6
      <4> QED
        BY <3>5, <4>1, <4>2, <4>3 DEF base
    <3> QED
      BY <3>7, <3>8
  <2> QED
    BY <2>3, <2>4 DEF Agrees
<1> QED
  BY <1>1, <1>2, <1>4, <1>5, <1>7, <1>8, <1>9 DEF Flow

\* A message that is not a frame reaches the Client.
LEMMA FlowTells ==
    ASSUME NEW w, Good(w, Messages), ~w.closed, NEW streams, Based(streams), NEW srv, NEW known,
           NEW sequence \in Nat, NEW n \in Nat, NEW faults,
           Flow(w, streams, srv, known, sequence, n, faults),
           w.slot = "current", w.current.left = 0, w.lane = NoLane,
           NEW knows, known \/ Introduces(w.current.msg) => knows,
           NEW reached,
           \/ reached = sequence
           \/ /\ sequence = 0 /\ Attaches(w.current.msg)
              /\ reached = w.current.msg.update.sequence,
           NEW v, v = Finish(w)
    PROVE  Flow(v, streams, srv, knows, reached, n, faults)
<1>1. /\ Fleet(w) /\ WriterNumbers(w, n) /\ Alone(streams, srv)
      /\ \A k \in Lanes : Stationed(w, srv, streams[k].pc, k)
  BY DEF Flow
<1>2. /\ Fleet(v) /\ ~v.closed /\ SameFrames(w, v) /\ w.current.msg \in Told(w)
      /\ Told(v) \subseteq Told(w) /\ Awaited(v) = Awaited(w)
      /\ Introducing(w) => Introduces(w.current.msg) \/ Introducing(v)
  BY <1>1, FinishMessage
<1>3. \A l \in Lanes : /\ Sending(v, l) <=> Sending(w, l)
                       /\ Sending(w, l) => Sent(v, l) = Sent(w, l)
                       /\ v.render[l].open = w.render[l].open
                       /\ v.render[l].ready => w.render[l].ready
  BY <1>2 DEF SameFrames
<1>4. \A l \in Lanes : Stationed(v, srv, streams[l].pc, l)
  BY <1>1, <1>2, <1>3 DEF Stationed
<1>5. WriterNumbers(v, n)
  BY <1>1, <1>2, <1>3 DEF WriterNumbers
<1>6. ASSUME Ordered(w, streams, srv) PROVE Ordered(v, streams, srv)
  <2>1. Waits(w)
    BY <1>6 DEF Ordered, Waits
  <2>2. \A k, l \in Lanes : k # l /\ Sending(w, k) /\ Sending(w, l) /\ Before(w, k, l)
                                => Before(v, k, l)
    BY <1>2, <2>1 DEF SameFrames
  <2> QED
    BY <1>2, <1>3, <1>6, <2>2 DEF Ordered
<1>7. Introduced(w, known) => Introduced(v, knows)
  BY <1>2, <1>3 DEF Introduced
<1>8. ASSUME NEW l \in Lanes, Agrees(w, streams[l], srv, sequence, l)
      PROVE  Agrees(v, streams[l], srv, reached, l)
  <2>1. CASE reached = sequence
    BY <1>2, <1>3, <1>8, <2>1 DEF Agrees
  <2>2. CASE sequence = 0 /\ Attaches(w.current.msg) /\ reached = w.current.msg.update.sequence
    <3>1. w.current.msg.update \in Updates /\ IsView(w.current.msg.update, n)
      BY <1>1, <1>2, <2>2, OnTheWay DEF WriterNumbers
    <3>2. reached \in Nat /\ reached # 0
      BY <2>2, <3>1 DEF IsView, Updates
    <3>3. Sending(w, l) => ~IsDelta(Sent(w, l))
      <4>1. ASSUME Sending(w, l), IsDelta(Sent(w, l)) PROVE FALSE
        <5>1. Sent(w, l).base > 0 /\ Sent(w, l).base = 0
          BY <1>8, <2>2, <4>1 DEF Agrees, IsDelta
        <5> QED
          BY <5>1
      <4> QED
        BY <4>1
    <3>4. srv = l /\ streams[l].pc \in Opened =>
             /\ Sending(w, l) /\ Sent(w, l).sequence = streams[l].baseline.sequence
             /\ \A k \in Lanes : Sending(w, k) => Sent(w, k).sequence <= streams[l].baseline.sequence
             /\ reached <= streams[l].baseline.sequence
      <4>1. SUFFICES ASSUME srv = l, streams[l].pc \in Opened
            PROVE  /\ Sending(w, l) /\ Sent(w, l).sequence = streams[l].baseline.sequence
                   /\ \A k \in Lanes : Sending(w, k) => Sent(w, k).sequence <= streams[l].baseline.sequence
                   /\ reached <= streams[l].baseline.sequence
        OBVIOUS
      <4>2. Sending(w, l)
        <5>1. 1 <= streams[l].baseline.sequence
          BY <4>1 DEF Based
        <5>2. ~Sending(w, l) => 0 = streams[l].baseline.sequence
          BY <1>8, <2>2, <4>1 DEF Agrees
        <5> QED
          BY <5>1, <5>2
      <4> QED
        BY <1>2, <1>8, <2>2, <4>1, <4>2 DEF Agrees
    <3> QED
      BY <1>2, <1>3, <3>2, <3>3, <3>4 DEF Agrees
  <2> QED
    BY <2>1, <2>2
<1> QED
  BY <1>1, <1>2, <1>4, <1>5, <1>6, <1>7, <1>8 DEF Flow

-----------------------------------------------------------------------------
(* The invariant.                                                          *)

Flows == Flow(writer, stream, serving, client.known, client.mirror.sequence, screen.sequence,
              mishaps)

\* The Client knows of what it attached to.
Acquainted ==
    /\ ~client.connected => writer.closed /\ serving = NoLane
    /\ client.attached => client.known
    /\ request.pc = "registered" /\ request.kind \notin {"spawn", "attach"} => client.known

\* Whatever is an update is one of the captures so far.
IsEvent(event, n) == IsExit(event) \/ IsUpdate(event, n)
StreamNumbers(s, n) ==
    /\ \A i \in DOMAIN s.events : IsEvent(s.events[i], n)
    /\ s.pc = "streaming" => s.pending \in {Nothing, SnapshotRequired} \/ IsUpdate(s.pending, n)
    /\ s.pc \in {"starting", "opening", "opened", "framing", "leaving"} => s.pending = Nothing
    /\ s.baseline.sequence <= n
    /\ s.pc \in Opened => 1 <= s.baseline.sequence
CaptureNumbers ==
    \A t \in Threads : capture[t].pc = "captured" => IsUpdate(capture[t].update, screen.sequence)
RequestNumbers ==
    request.pc = "registered" /\ request.kind = "attach" => IsView(request.viewport, screen.sequence)
MirrorNumbers == client.mirror = Nothing \/ IsView(client.mirror, screen.sequence)
Numbers ==
    /\ 1 <= screen.sequence
    /\ CaptureNumbers
    /\ \A l \in Lanes : StreamNumbers(stream[l], screen.sequence)
    /\ RequestNumbers
    /\ MirrorNumbers

\* What is pending continues the baseline.
Follows(baseline, pending) ==
    /\ IsSnapshot(pending) => baseline.sequence <= pending.sequence
    /\ IsDelta(pending) => pending.base = baseline.sequence
Continues(s) == s.pc = "streaming" => Follows(s.baseline, s.pending)
PendingFits == "older" \notin mishaps => \A l \in Lanes : Continues(stream[l])

Sound == Flows /\ Acquainted /\ Numbers /\ PendingFits /\ NoGap

\* Updates stay updates.
LEMMA NumbersGrow ==
    ASSUME NEW n \in Nat, NEW later \in Nat, n <= later
    PROVE  /\ \A u \in Updates : IsView(u, n) => IsView(u, later)
           /\ \A u \in Updates : IsUpdate(u, n) => IsUpdate(u, later)
           /\ \A u \in Updates : IsEvent(u, n) => IsEvent(u, later)
BY DEF IsView, IsUpdate, IsEvent, Updates

\* Streams that go on as they were, but for what they are told of
Undisturbed(s, t, n) ==
    /\ t.pc = s.pc /\ t.aborted = s.aborted /\ t.baseline = s.baseline /\ t.pending = s.pending
    /\ \A i \in DOMAIN t.events : IsEvent(t.events[i], n)

\* What touches neither the connection nor the Client.
LEMMA QuietSound ==
    ASSUME Types, Types', Sound, UNCHANGED <<writer, serving, client>>,
           screen.sequence <= screen'.sequence, mishaps \subseteq mishaps',
           \A l \in Lanes : Undisturbed(stream[l], stream'[l], screen'.sequence),
           CaptureNumbers', RequestNumbers',
           request'.pc = "registered" /\ request'.kind \notin {"spawn", "attach"} => client.known
    PROVE  Sound'
<1> DEFINE n == screen.sequence
           later == screen'.sequence
<1>1. n \in Nat /\ later \in Nat /\ n <= later
  BY DEF Types, TerminalTypes
<1>2. Flow(writer, stream', serving, client.known, client.mirror.sequence, later, mishaps')
  <2>1. Flow(writer, stream, serving, client.known, client.mirror.sequence, n, mishaps)
    BY DEF Sound, Flows
  <2>2. Good(writer, Messages)
    BY DEF Types, WriterTypes
  <2>3. \A l \in Lanes : /\ stream'[l].pc = stream[l].pc /\ stream'[l].aborted = stream[l].aborted
                         /\ stream'[l].baseline = stream[l].baseline
    BY DEF Undisturbed
  <2> HIDE DEF n, later
  <2> QED
    BY <1>1, <2>1, <2>2, <2>3, FlowGrows
<1>3. Flows'
  BY <1>2 DEF Flows
<1>4. Acquainted'
  BY DEF Acquainted, Sound
<1>5. ASSUME NEW l \in Lanes PROVE StreamNumbers(stream'[l], later)
  <2>1. StreamNumbers(stream[l], n) /\ Undisturbed(stream[l], stream'[l], later)
    BY DEF Sound, Numbers
  <2>2. stream[l].pending \in Updates /\ stream[l].baseline.sequence \in Nat
    BY DEF Types, StreamTypes, StreamStates
  <2> HIDE DEF n, later
  <2> QED
    BY <1>1, <2>1, <2>2, NumbersGrow DEF StreamNumbers, Undisturbed
<1>6. MirrorNumbers' /\ 1 <= later
  <2>1. client.mirror \in Updates
    BY DEF Types, ClientTypes
  <2> QED
    BY <1>1, <2>1, NumbersGrow DEF MirrorNumbers, Sound, Numbers
<1>7. Numbers'
  BY <1>5, <1>6 DEF Numbers
<1>8. PendingFits'
  <2>1. \A l \in Lanes : Continues(stream[l]) => Continues(stream'[l])
    BY DEF Undisturbed, Continues
  <2> QED
    BY <2>1 DEF Sound, PendingFits
<1>9. NoGap'
  BY DEF Sound, NoGap
<1> QED
  BY <1>3, <1>4, <1>7, <1>8, <1>9 DEF Sound

\* Streams that do not move
LEMMA StillUndisturbed ==
    ASSUME Types, Sound, screen'.sequence \in Nat, screen.sequence <= screen'.sequence, UNCHANGED stream
    PROVE  \A l \in Lanes : Undisturbed(stream[l], stream'[l], screen'.sequence)
<1> DEFINE n == screen.sequence
           later == screen'.sequence
<1>1. n \in Nat /\ later \in Nat /\ n <= later
  BY DEF Types, TerminalTypes
<1>2. SUFFICES ASSUME NEW l \in Lanes, NEW i \in DOMAIN stream[l].events
               PROVE  IsEvent(stream[l].events[i], later)
  BY DEF Undisturbed
<1>3. stream[l].events \in Seq(Events)
  BY DEF Types, StreamTypes
<1>4. stream[l].events[i] \in Updates
  BY <1>3, ElementOfSeq, LenProperties DEF Events
<1>5. IsEvent(stream[l].events[i], n)
  BY DEF Sound, Numbers, StreamNumbers
<1> HIDE DEF n, later
<1> QED
  BY <1>1, <1>4, <1>5, NumbersGrow

\* The number of captures and what was captured stay.
LEMMA StillCaptures ==
    ASSUME CaptureNumbers, UNCHANGED screen,
           \A t \in Threads : capture'[t].pc = "captured" => capture'[t] = capture[t]
    PROVE  CaptureNumbers'
BY DEF CaptureNumbers

-----------------------------------------------------------------------------
(* The terminal and the views.                                             *)

\* What moves no stream, captures nothing and asks for nothing.
LEMMA StillSound ==
    ASSUME Types, Types', Sound, UNCHANGED <<writer, serving, client, stream, screen, request, mishaps>>,
           \A t \in Threads : capture'[t].pc = "captured" => capture'[t] = capture[t]
    PROVE  Sound'
<1>1. screen'.sequence \in Nat /\ screen.sequence <= screen'.sequence
  BY DEF Types, TerminalTypes
<1>2. \A l \in Lanes : Undisturbed(stream[l], stream'[l], screen'.sequence)
  BY <1>1, StillUndisturbed
<1>3. CaptureNumbers'
  BY StillCaptures DEF Sound, Numbers
<1>4. RequestNumbers'
  BY DEF Sound, Numbers, RequestNumbers
<1>5. request'.pc = "registered" /\ request'.kind \notin {"spawn", "attach"} => client.known
  BY DEF Sound, Acquainted
<1> QED
  BY <1>1, <1>2, <1>3, <1>4, <1>5, QuietSound

\* Steps of the threads that capture nothing
LEMMA ThreadsSound ==
    Types /\ Types' /\ Sound
    /\ (ReadOutput \/ PublisherStarts \/ PublisherDecides \/ SetTitle \/ Exit \/ ExitState) => Sound'
<1>1. SUFFICES ASSUME Types, Types', Sound,
                      ReadOutput \/ PublisherStarts \/ PublisherDecides \/ SetTitle \/ Exit \/ ExitState
               PROVE  Sound'
  OBVIOUS
<1>2. UNCHANGED <<writer, serving, client, stream, screen, request, mishaps>>
  BY <1>1 DEF ReadOutput, PublisherStarts, PublisherDecides, SetTitle, Exit, ExitState, streamVars, clientSide
<1>3. capture \in [Threads -> CaptureStates]
  BY <1>1 DEF Types, CaptureTypes
<1>4. \A t \in Threads : capture'[t].pc = "captured" => capture'[t] = capture[t]
  <2>1. CASE ReadOutput
    BY <2>1 DEF ReadOutput
  <2>2. CASE PublisherStarts
    BY <1>3, <2>2 DEF PublisherStarts, CaptureStates
  <2>3. CASE PublisherDecides
    BY <1>3, <2>3 DEF PublisherDecides, Resting
  <2>4. CASE SetTitle
    BY <1>3, <2>4 DEF SetTitle, Resting
  <2>5. CASE Exit
    BY <1>3, <2>5 DEF Exit, CaptureStates
  <2>6. CASE ExitState
    BY <1>3, <2>6 DEF ExitState
  <2> QED
    BY <1>1, <2>1, <2>2, <2>3, <2>4, <2>5, <2>6
<1> QED
  BY <1>1, <1>2, <1>4, StillSound

\* Viewports are looked for, and counts are stored.
LEMMA LooksSound ==
    \A t \in Threads, scrolled \in BOOLEAN, who \in {"viewer", "other"} :
        /\ Types /\ Types' /\ Sound /\ LookAtStale(t) => Sound'
        /\ Types /\ Types' /\ Sound /\ ReadContext(t, scrolled) => Sound'
        /\ Types /\ Types' /\ Sound /\ StoreCount(who) => Sound'
        /\ Types /\ Types' /\ Sound /\ OtherWatches => Sound'
<1>1. SUFFICES ASSUME NEW t \in Threads, NEW scrolled \in BOOLEAN, NEW who \in {"viewer", "other"},
                      Types, Types', Sound,
                      LookAtStale(t) \/ ReadContext(t, scrolled) \/ StoreCount(who) \/ OtherWatches
               PROVE  Sound'
  OBVIOUS
<1>2. UNCHANGED <<writer, serving, client, stream, screen, request, mishaps>>
  BY <1>1 DEF LookAtStale, ReadContext, StoreCount, OtherWatches, streamVars, clientSide,
              terminalVars, hostSide
<1>3. capture \in [Threads -> CaptureStates]
  BY <1>1 DEF Types, CaptureTypes
<1>4. \A k \in Threads : capture'[k].pc = "captured" => capture'[k] = capture[k]
  <2>1. CASE LookAtStale(t)
    BY <1>3, <2>1 DEF LookAtStale, Resting
  <2>2. CASE ReadContext(t, scrolled)
    BY <1>3, <2>2 DEF ReadContext, CaptureStates
  <2>3. CASE StoreCount(who) \/ OtherWatches
    BY <2>3 DEF StoreCount, OtherWatches, hostSide
  <2> QED
    BY <1>1, <2>1, <2>2, <2>3
<1> QED
  BY <1>1, <1>2, <1>4, StillSound

\* A screen is captured.
LEMMA CaptureSound == \A t \in Threads : Types /\ Types' /\ Sound /\ Capture(t) => Sound'
<1>1. SUFFICES ASSUME NEW t \in Threads, Types, Types', Sound, Capture(t) PROVE Sound'
  OBVIOUS
<1>2. UNCHANGED <<writer, serving, client, stream, request>> /\ mishaps \subseteq mishaps'
  BY <1>1 DEF Capture, streamVars, clientSide, Mishap
<1>3. screen.sequence \in Nat /\ screen'.sequence = screen.sequence + 1
  <2>1. screen' = [sequence |-> screen.sequence + 1, meta |-> capture[t].meta]
    BY <1>1 DEF Capture
  <2> QED
    BY <1>1, <2>1 DEF Types, TerminalTypes
<1>4. 1 <= screen.sequence /\ screen.sequence <= screen'.sequence /\ screen'.sequence \in Nat
  BY <1>1, <1>3 DEF Sound, Numbers
<1>5. \A l \in Lanes : Undisturbed(stream[l], stream'[l], screen'.sequence)
  BY <1>1, <1>2, <1>4, StillUndisturbed
<1>6. CaptureNumbers'
  <2> DEFINE n == screen.sequence + 1
             m == IF capture[t].meta = screen.meta THEN Same ELSE capture[t].meta
             delta == [base |-> screen.sequence, sequence |-> n, rows |-> n, meta |-> m]
  <2>1. n \in Nat /\ screen.sequence < n /\ 0 < screen.sequence /\ n = screen'.sequence
    BY <1>3, <1>4
  <2>2. PICK update \in {delta, Viewport(n, capture[t].meta, n)} :
           capture' = [capture EXCEPT ![t].pc = "captured", ![t].update = update]
    BY <1>1 DEF Capture
  <2> HIDE DEF n, m
  <2>3. IsUpdate(update, n)
    BY <1>3, <2>1, <2>2 DEF IsUpdate, IsView, Viewport
  <2>4. capture \in [Threads -> CaptureStates]
    BY <1>1 DEF Types, CaptureTypes
  <2>5. capture'[t].update = update /\ \A k \in Threads \ {t} : capture'[k] = capture[k]
    <3> HIDE DEF delta
    <3> QED
      BY <2>2, <2>4 DEF CaptureStates
  <2>6. ASSUME NEW k \in Threads, capture'[k].pc = "captured"
        PROVE  IsUpdate(capture'[k].update, n)
    <3>1. CASE k = t
      BY <2>3, <2>5, <3>1
    <3>2. CASE k # t
      <4>1. IsUpdate(capture[k].update, screen.sequence) /\ capture'[k] = capture[k]
        BY <1>1, <2>5, <2>6, <3>2 DEF Sound, Numbers, CaptureNumbers
      <4>2. capture[k].update \in Updates
        BY <2>4 DEF CaptureStates
      <4> QED
        BY <1>3, <2>1, <4>1, <4>2, NumbersGrow
    <3> QED
      BY <3>1, <3>2
  <2> QED
    BY <2>1, <2>6 DEF CaptureNumbers
<1>7. RequestNumbers'
  <2>1. request.viewport \in Updates
    BY <1>1 DEF Types, RequestTypes
  <2>2. RequestNumbers
    BY <1>1 DEF Sound, Numbers
  <2> QED
    BY <1>2, <1>3, <1>4, <2>1, <2>2, NumbersGrow DEF RequestNumbers
<1>8. request'.pc = "registered" /\ request'.kind \notin {"spawn", "attach"} => client.known
  BY <1>1, <1>2 DEF Sound, Acquainted
<1> QED
  BY <1>1, <1>2, <1>4, <1>5, <1>6, <1>7, <1>8, QuietSound

\* An event is broadcast: the streams have it, and nothing else changes.
LEMMA BroadcastUndisturbs ==
    ASSUME Types, Sound, UNCHANGED screen, NEW event \in Events, IsEvent(event, screen.sequence),
           Broadcast(event)
    PROVE  \A l \in Lanes : Undisturbed(stream[l], stream'[l], screen'.sequence)
<1> DEFINE n == screen.sequence
<1>1. SUFFICES ASSUME NEW l \in Lanes, NEW s, s = stream[l]
               PROVE  Undisturbed(s, Receives(s, event), n)
  BY DEF Broadcast
<1> DEFINE longer == Append(s.events, event)
           shifted == Append(Tail(s.events), event)
<1>2. s.events \in Seq(Events) /\ \A i \in DOMAIN s.events : IsEvent(s.events[i], n)
  BY <1>1 DEF Types, StreamTypes, Sound, Numbers, StreamNumbers
<1>3. s \in StreamStates
  BY <1>1 DEF Types, StreamTypes
<1>4. IsEvent(event, n)
  OBVIOUS
<1> HIDE DEF n
<1>5. \A i \in DOMAIN longer : IsEvent(longer[i], n)
  <2>1. \A i \in DOMAIN longer : longer[i] = event \/ (i \in DOMAIN s.events /\ longer[i] = s.events[i])
    BY <1>2, AppendedItems
  <2> QED
    BY <1>2, <1>4, <2>1
<1>6. CASE s.pc = "none"
  BY <1>2, <1>6 DEF Undisturbed, Receives
<1>7. CASE s.pc # "none" /\ Len(s.events) < Capacity
  <2>1. Receives(s, event) = [s EXCEPT !.events = longer]
    BY <1>7 DEF Receives
  <2> HIDE DEF longer
  <2> QED
    BY <1>3, <1>5, <2>1 DEF Undisturbed, StreamStates
<1>8. CASE s.pc # "none" /\ ~(Len(s.events) < Capacity)
  <2>1. s.events # <<>>
    BY <1>2, <1>8, StreamAssumption
  <2>2. /\ Tail(s.events) \in Seq(Events)
        /\ \A i \in DOMAIN Tail(s.events) : IsEvent(Tail(s.events)[i], n)
    BY <1>2, <2>1, FrontAndRest
  <2>3. \A i \in DOMAIN shifted : shifted[i] = event
                                  \/ (i \in DOMAIN Tail(s.events) /\ shifted[i] = Tail(s.events)[i])
    BY <2>2, AppendedItems
  <2>4. \A i \in DOMAIN shifted : IsEvent(shifted[i], n)
    BY <1>4, <2>2, <2>3
  <2>5. Receives(s, event) = [s EXCEPT !.events = shifted, !.lagged = TRUE]
    BY <1>8 DEF Receives
  <2> HIDE DEF shifted
  <2> QED
    BY <1>3, <2>4, <2>5 DEF Undisturbed, StreamStates
<1> QED
  BY <1>6, <1>7, <1>8

\* Captures and the exit are told to the streams.
LEMMA PublishSound ==
    \A t \in Threads : Types /\ Types' /\ Sound /\ (Publish(t) \/ TellExit) => Sound'
<1>1. SUFFICES ASSUME NEW t \in Threads, Types, Types', Sound, Publish(t) \/ TellExit PROVE Sound'
  OBVIOUS
<1>2. UNCHANGED <<writer, serving, client, screen, request>> /\ mishaps \subseteq mishaps'
  BY <1>1 DEF Publish, TellExit, Broadcast, terminalVars, clientSide, Mishap
<1>3. screen.sequence <= screen'.sequence
  BY <1>1, <1>2 DEF Types, TerminalTypes
<1>4. capture \in [Threads -> CaptureStates] /\ "exit" \in Threads
  BY <1>1, ThreadsAre DEF Types, CaptureTypes
<1>5. \A l \in Lanes : Undisturbed(stream[l], stream'[l], screen'.sequence)
  <2>1. CASE Publish(t)
    <3>1. capture[t].update \in Events /\ IsEvent(capture[t].update, screen.sequence)
      BY <1>1, <1>4, <2>1 DEF Publish, Types, CaptureTypes, CaptureStates, Events, Sound, Numbers,
                              CaptureNumbers, IsEvent
    <3> QED
      BY <1>1, <1>2, <2>1, <3>1, BroadcastUndisturbs DEF Publish
  <2>2. CASE TellExit
    <3> DEFINE event == ExitEvent(capture["exit"].update.sequence)
    <3>1. capture["exit"].update.sequence \in Nat
      BY <1>4, UpdateParts DEF CaptureStates
    <3>2. event \in Events /\ IsEvent(event, screen.sequence)
      BY <3>1, UpdatesAre DEF Events, IsEvent, IsExit, ExitEvent, Mark
    <3>3. Broadcast(event)
      BY <2>2 DEF TellExit
    <3> HIDE DEF event
    <3> QED
      BY <1>1, <1>2, <3>2, <3>3, BroadcastUndisturbs
  <2> QED
    BY <1>1, <2>1, <2>2
<1>6. \A k \in Threads : capture'[k].pc = "captured" => capture'[k] = capture[k]
  <2>1. CASE Publish(t)
    <3> DEFINE c == IF capture[t].next = "published" THEN [capture[t] EXCEPT !.pc = "published"]
                    ELSE [Resting EXCEPT !.pc = capture[t].next]
    <3>1. capture' = [capture EXCEPT ![t] = c]
      BY <2>1 DEF Publish
    <3>2. c.pc # "captured"
      BY <1>4 DEF CaptureStates, Resting
    <3> HIDE DEF c
    <3> QED
      BY <1>4, <3>1, <3>2
  <2>2. CASE TellExit
    BY <1>4, <2>2 DEF TellExit, Resting
  <2> QED
    BY <1>1, <2>1, <2>2
<1>7. CaptureNumbers' /\ RequestNumbers'
  BY <1>1, <1>2, <1>6, StillCaptures DEF Sound, Numbers, RequestNumbers
<1>8. request'.pc = "registered" /\ request'.kind \notin {"spawn", "attach"} => client.known
  BY <1>1, <1>2 DEF Sound, Acquainted
<1> QED
  BY <1>1, <1>2, <1>3, <1>5, <1>7, <1>8, QuietSound

\* A viewport is the last capture, with its live rows or those of the history.
LEMMA ViewportIs ==
    ASSUME Types, Sound, NEW t, NEW scrolled
    PROVE  /\ IsView(CurrentViewport(t, scrolled), screen.sequence)
           /\ CurrentViewport(t, scrolled).sequence = screen.sequence
BY DEF CurrentViewport, Viewport, IsView, Sound, Numbers, Types, TerminalTypes

\* An attachment wakes the streams, and moves none.
LEMMA AttachmentUndisturbs ==
    ASSUME Types, Sound, UNCHANGED screen, NEW a, Attachment(a)
    PROVE  \A l \in Lanes : Undisturbed(stream[l], stream'[l], screen'.sequence)
<1>1. screen'.sequence \in Nat /\ screen.sequence <= screen'.sequence
  BY DEF Types, TerminalTypes
<1>2. SUFFICES ASSUME NEW l \in Lanes
               PROVE  Undisturbed(stream[l], stream'[l], screen.sequence)
  OBVIOUS
<1> DEFINE s == stream[l]
           revised == s.revised \/ a.scrolled # attachment.scrolled
           detached == s.detached \/ ~a.attached
<1>3. stream'[l] = s \/ stream'[l] = [s EXCEPT !.changed = TRUE, !.revised = revised, !.detached = detached]
  BY DEF Attachment
<1>4. s \in StreamStates /\ \A i \in DOMAIN s.events : IsEvent(s.events[i], screen.sequence)
  BY DEF Types, StreamTypes, Sound, Numbers, StreamNumbers
<1> HIDE DEF s, revised, detached
<1>5. Undisturbed(s, stream'[l], screen.sequence)
  BY <1>3, <1>4 DEF Undisturbed, StreamStates
<1> QED
  BY <1>5 DEF s

\* What changes the attachment, and asks with it
LEMMA AttachedSound ==
    ASSUME Types, Types', Sound, UNCHANGED <<writer, serving, client, screen, mishaps>>,
           NEW a, Attachment(a),
           \A t \in Threads : capture'[t].pc = "captured" => capture'[t] = capture[t],
           \/ UNCHANGED request
           \/ request'.kind = "spawn"
           \/ request'.kind = "attach" /\ IsView(request'.viewport, screen.sequence)
           \/ request'.kind \in {"detach", "subscribe"} /\ client.known
    PROVE  Sound'
<1>1. screen'.sequence \in Nat /\ screen.sequence <= screen'.sequence
  BY DEF Types, TerminalTypes
<1>2. \A l \in Lanes : Undisturbed(stream[l], stream'[l], screen'.sequence)
  BY AttachmentUndisturbs
<1>3. CaptureNumbers'
  BY StillCaptures DEF Sound, Numbers
<1>4. RequestNumbers'
  BY DEF Sound, Numbers, RequestNumbers
<1>5. request'.pc = "registered" /\ request'.kind \notin {"spawn", "attach"} => client.known
  BY DEF Sound, Acquainted
<1> QED
  BY <1>1, <1>2, <1>3, <1>4, <1>5, QuietSound

\* Views are shown, hidden and scrolled.
LEMMA ViewsSound == Types /\ Types' /\ Sound /\ (SetVisible \/ ScrollView) => Sound'
<1>1. SUFFICES ASSUME Types, Types', Sound, SetVisible \/ ScrollView PROVE Sound'
  OBVIOUS
<1>2. UNCHANGED <<writer, serving, client, screen, mishaps, request, capture>>
  BY <1>1 DEF SetVisible, ScrollView, hostSide, terminalVars
<1>3. \E a : Attachment(a)
  BY <1>1 DEF SetVisible, ScrollView
<1> QED
  BY <1>1, <1>2, <1>3, AttachedSound

\* Requests begin and register.
LEMMA RequestsSound == Types /\ Types' /\ Sound /\ (Spawned \/ Detach \/ Attached) => Sound'
<1>1. SUFFICES ASSUME Types, Types', Sound, Spawned \/ Detach \/ Attached PROVE Sound'
  OBVIOUS
<1>2. UNCHANGED <<writer, serving, client, screen, mishaps>>
  BY <1>1 DEF Spawned, Detach, Attached, hostSide, terminalVars
<1>3. \E a : Attachment(a)
  BY <1>1 DEF Spawned, Detach, Attached, Register
<1>4. \A t \in Threads : capture'[t].pc = "captured" => capture'[t] = capture[t]
  <2>1. CASE Spawned \/ Detach
    BY <2>1 DEF Spawned, Detach, hostSide
  <2>2. CASE Attached
    <3>1. capture \in [Threads -> CaptureStates] /\ capture' = [capture EXCEPT !["request"] = Resting]
      BY <1>1, <2>2 DEF Attached, Types, CaptureTypes
    <3> QED
      BY <3>1 DEF Resting
  <2> QED
    BY <1>1, <2>1, <2>2
<1>5. \/ request'.kind = "spawn"
      \/ request'.kind = "attach" /\ IsView(request'.viewport, screen.sequence)
      \/ request'.kind \in {"detach", "subscribe"} /\ client.known
  <2>1. CASE Spawned
    BY <2>1 DEF Spawned, Register
  <2>2. CASE Detach
    <3>1. request' = [NoRequest EXCEPT !.pc = "registered", !.kind = "detach"] /\ client.known
      BY <1>1, <2>2 DEF Detach, Sound, Acquainted
    <3> QED
      BY <3>1 DEF NoRequest
  <2>3. CASE Attached
    <3> DEFINE viewport == CurrentViewport("request", attachment.scrolled)
    <3>1. request' = [pc |-> "registered", kind |-> "attach", viewport |-> viewport]
      BY <2>3 DEF Attached, Register
    <3>2. IsView(viewport, screen.sequence)
      BY <1>1, ViewportIs
    <3> HIDE DEF viewport
    <3> QED
      BY <3>1, <3>2
  <2> QED
    BY <1>1, <2>1, <2>2, <2>3
<1> QED
  BY <1>1, <1>2, <1>3, <1>4, <1>5, AttachedSound

\* A request to attach begins.
LEMMA AttachSound == Types /\ Types' /\ Sound /\ Attach => Sound'
<1>1. SUFFICES ASSUME Types, Types', Sound, Attach PROVE Sound'
  OBVIOUS
<1>2. UNCHANGED <<writer, serving, client, screen, mishaps, stream>>
  BY <1>1 DEF Attach, streamVars, terminalVars
<1>3. screen'.sequence \in Nat /\ screen.sequence <= screen'.sequence
  BY <1>1, <1>2 DEF Types, TerminalTypes
<1>4. \A l \in Lanes : Undisturbed(stream[l], stream'[l], screen'.sequence)
  BY <1>1, <1>2, <1>3, StillUndisturbed
<1>5. PICK first \in {"read", "look"} :
         capture' = [capture EXCEPT !["request"] =
                        [Resting EXCEPT !.pc = first, !.meta = metadata, !.next = "look"]]
  BY <1>1 DEF Attach
<1>6. \A t \in Threads : capture'[t].pc = "captured" => capture'[t] = capture[t]
  <2>1. capture \in [Threads -> CaptureStates]
    BY <1>1 DEF Types, CaptureTypes
  <2> QED
    BY <1>5, <2>1 DEF Resting
<1>7. CaptureNumbers'
  BY <1>1, <1>2, <1>6, StillCaptures DEF Sound, Numbers
<1>8. request'.pc = "viewing"
  BY <1>1 DEF Attach, NoRequest
<1>9. RequestNumbers'
  BY <1>8 DEF RequestNumbers
<1> QED
  BY <1>1, <1>2, <1>3, <1>4, <1>7, <1>8, <1>9, QuietSound

-----------------------------------------------------------------------------
(* The steps of a stream.                                                  *)

\* More mishaps do not matter.
LEMMA MoreMishaps ==
    ASSUME NEW w, NEW streams, NEW srv, NEW known, NEW sequence, NEW n \in Nat, NEW faults,
           Flow(w, streams, srv, known, sequence, n, faults), Good(w, Messages),
           NEW more, faults \subseteq more
    PROVE  Flow(w, streams, srv, known, sequence, n, more)
<1>1. n <= n
  OBVIOUS
<1> QED
  BY <1>1, FlowGrows

\* A stream moves, and what is on its way is as it says.
LEMMA StreamSound ==
    ASSUME Types, Types', Sound, NEW l \in Lanes, NEW s, Becomes(l, s),
           UNCHANGED <<serving, client, request, screen>>, mishaps \subseteq mishaps',
           \A t \in Threads : capture'[t].pc = "captured" => capture'[t] = capture[t],
           writer.closed => writer'.closed,
           Flow(writer', stream', serving, client.known, client.mirror.sequence, screen.sequence,
                mishaps'),
           StreamNumbers(s, screen.sequence), "older" \notin mishaps' => Continues(s)
    PROVE  Sound'
<1>1. stream'[l] = s /\ \A k \in Lanes \ {l} : stream'[k] = stream[k]
  BY DEF Types, StreamTypes, Becomes
<1>2. Flows'
  BY DEF Flows
<1>3. Acquainted'
  BY DEF Acquainted, Sound
<1>4. Numbers'
  <2>1. CaptureNumbers'
    BY StillCaptures DEF Sound, Numbers
  <2>2. \A k \in Lanes : StreamNumbers(stream'[k], screen.sequence)
    BY <1>1 DEF Sound, Numbers
  <2>3. RequestNumbers' /\ MirrorNumbers' /\ 1 <= screen'.sequence
    BY DEF Sound, Numbers, RequestNumbers, MirrorNumbers
  <2> QED
    BY <2>1, <2>2, <2>3 DEF Numbers
<1>5. PendingFits'
  BY <1>1 DEF Sound, PendingFits
<1>6. NoGap'
  BY DEF Sound, NoGap
<1> QED
  BY <1>2, <1>3, <1>4, <1>5, <1>6 DEF Sound

\* What a state gives: numbers are numbers, and streams have baselines.
LEMMA SoundParts ==
    ASSUME Types, Sound
    PROVE  /\ screen.sequence \in Nat /\ 1 <= screen.sequence
           /\ client.mirror \in Updates /\ client.mirror.sequence \in Nat
           /\ client.mirror.sequence <= screen.sequence
           /\ Good(writer, Messages) /\ Based(stream)
           /\ Flow(writer, stream, serving, client.known, client.mirror.sequence, screen.sequence,
                   mishaps)
<1>1. screen.sequence \in Nat /\ 1 <= screen.sequence
  BY DEF Types, TerminalTypes, Sound, Numbers
<1>2. client.mirror \in Updates /\ client.mirror.sequence \in Nat
  BY UpdateParts DEF Types, ClientTypes
<1>3. client.mirror.sequence <= screen.sequence
  BY <1>1, <1>2 DEF Sound, Numbers, MirrorNumbers, IsView, Nothing, Mark
<1>4. Based(stream)
  BY DEF Types, StreamTypes, StreamStates, Based, Sound, Numbers, StreamNumbers
<1> QED
  BY <1>1, <1>2, <1>3, <1>4 DEF Types, WriterTypes, Sound, Flows

\* A stream that ended, or starts, has nothing pending.
LEMMA NoStreamSound ==
    ASSUME NEW n \in Nat
    PROVE  /\ StreamNumbers(NoStream, n) /\ Continues(NoStream) /\ NoStream.pc = "none"
           /\ LET starting == [NoStream EXCEPT !.pc = "starting"] IN
              StreamNumbers(starting, n) /\ Continues(starting) /\ starting.pc = "starting"
              /\ ~starting.aborted
BY DEF StreamNumbers, Continues, NoStream, Baseline, Viewport, Opened

\* A stream ends.
LEMMA EndSound ==
    ASSUME Types, Types', Sound, NEW l \in Lanes, EndStream(l), mishaps \subseteq mishaps',
           UNCHANGED <<serving, client, request, screen>>
    PROVE  Sound'
<1>1. stream'[l] = NoStream /\ \A k \in Lanes \ {l} : stream'[k] = stream[k]
  BY DEF EndStream, Becomes, Types, StreamTypes
<1>2. writer' = DropLane(writer, l)
  BY DEF EndStream
<1>3. writer.closed => writer'.closed
  <2>1. writer \in Writer(Messages)
    BY DEF Types, WriterTypes, Good
  <2> QED
    BY <1>2, <2>1 DEF DropLane, Writer
<1>4. Flow(writer', stream', serving, client.known, client.mirror.sequence, screen.sequence, mishaps)
  <2>1. stream'[l].pc = "none"
    BY <1>1, SoundParts, NoStreamSound
  <2> QED
    BY <1>1, <1>2, <2>1, SoundParts, FlowEnds
<1>5. Flow(writer', stream', serving, client.known, client.mirror.sequence, screen.sequence, mishaps')
  <2>1. Good(writer', Messages)
    BY DEF Types, WriterTypes
  <2> QED
    BY <1>4, <2>1, SoundParts, MoreMishaps
<1>6. \A t \in Threads : capture'[t].pc = "captured" => capture'[t] = capture[t]
  BY DEF EndStream, Types, CaptureTypes, Resting
<1>7. StreamNumbers(NoStream, screen.sequence) /\ Continues(NoStream)
  BY SoundParts, NoStreamSound
<1> QED
  BY <1>3, <1>5, <1>6, <1>7, StreamSound DEF EndStream

\* A stream goes on without a frame: what it has pending continues its baseline.
LEMMA MoveSound ==
    ASSUME Types, Types', Sound, NEW l \in Lanes, NEW s, Becomes(l, s),
           UNCHANGED <<serving, client, request, screen, writer>>, mishaps \subseteq mishaps',
           \A t \in Threads : capture'[t].pc = "captured" => capture'[t] = capture[t],
           s.aborted = stream[l].aborted, s.baseline = stream[l].baseline,
           stream[l].pc \notin {"none", "leaving"},
           s.pc \in {"starting", "opening"} => stream[l].pc \in {"starting", "opening"},
           s.pc \in Opened => stream[l].pc \in Opened,
           s.pc \in {"framing", "ending"} /\ writer.render[l].open /\ ~writer.closed => ~Sending(writer, l),
           StreamNumbers(s, screen.sequence), "older" \notin mishaps' => Continues(s)
    PROVE  Sound'
<1>1. stream'[l] = s /\ \A k \in Lanes \ {l} : stream'[k] = stream[k]
  BY DEF Types, StreamTypes, Becomes
<1>2. Flow(writer, stream', serving, client.known, client.mirror.sequence, screen.sequence, mishaps)
  BY <1>1, SoundParts, FlowMoves
<1>3. Flow(writer, stream', serving, client.known, client.mirror.sequence, screen.sequence, mishaps')
  BY <1>2, SoundParts, MoreMishaps
<1> QED
  BY <1>3, StreamSound

\* Merging keeps updates, and what continues the baseline.
LEMMA MergedNumbers ==
    ASSUME NEW n \in Nat, NEW current \in Updates, NEW next \in Updates,
           current \in {Nothing, SnapshotRequired} \/ IsUpdate(current, n),
           IsUpdate(next, n), IsDelta(next), NEW b \in Baselines, NEW p, p = Merged(current, next)
    PROVE  /\ p = SnapshotRequired \/ IsUpdate(p, n)
           /\ Follows(b, current) => Follows(b, p)
<1>1. /\ current.sequence \in Nat /\ current.base \in Int /\ next.sequence \in Nat
      /\ next.base \in Int /\ b.sequence \in Nat
  BY UpdateParts DEF Baselines
<1>2. Follows(b, SnapshotRequired)
  BY DEF Follows, SnapshotRequired, Mark, IsSnapshot, IsDelta
<1>3. CASE IsSnapshot(current) /\ Apply(current, next) # Gap
  <2> DEFINE meta == IF next.meta = Same THEN current.meta ELSE next.meta
             rows == IF next.rows = Same THEN current.rows
                     ELSE IF current.rows = next.base THEN next.rows ELSE Garbled
             new == [current EXCEPT !.sequence = next.sequence, !.meta = meta, !.rows = rows]
  <2>1. p = current \/ (p = new /\ ~(next.sequence <= current.sequence))
    BY <1>3 DEF Merged, Apply, IsSnapshot, IsDelta
  <2>2. p = current \/ (p = new /\ next.sequence > current.sequence)
    <3> HIDE DEF new
    <3> QED
      BY <1>1, <2>1
  <2> HIDE DEF meta, rows
  <2>3. new.base = current.base /\ new.sequence = next.sequence
    BY DEF Updates
  <2> HIDE DEF new
  <2>4. IsUpdate(current, n) /\ IsView(current, n)
    BY <1>3 DEF IsUpdate, IsView, Nothing, SnapshotRequired, Mark, IsSnapshot
  <2> QED
    BY <1>1, <1>3, <2>2, <2>3, <2>4 DEF IsUpdate, IsView, Follows, IsSnapshot, IsDelta
<1>4. CASE IsDelta(current) /\ next.base = current.sequence
  <2> DEFINE meta == IF next.meta = Same THEN current.meta ELSE next.meta
             new == [current EXCEPT !.sequence = next.sequence, !.rows = next.rows, !.meta = meta]
  <2>1. p = new
    BY <1>4 DEF Merged, Contiguous, IsSnapshot, IsDelta
  <2> HIDE DEF meta
  <2>2. new.base = current.base /\ new.sequence = next.sequence
    BY DEF Updates
  <2> HIDE DEF new
  <2>3. 0 < current.base /\ current.base < current.sequence /\ current.sequence < next.sequence
        /\ next.sequence <= n
    BY <1>1, <1>4 DEF IsUpdate, IsView, Nothing, SnapshotRequired, Mark, IsDelta
  <2> QED
    BY <1>1, <1>4, <2>1, <2>2, <2>3 DEF IsUpdate, IsView, Follows, IsSnapshot, IsDelta
<1>5. CASE /\ ~(IsSnapshot(current) /\ Apply(current, next) # Gap)
           /\ ~(IsDelta(current) /\ next.base = current.sequence)
  <2>1. p = SnapshotRequired
    BY <1>5 DEF Merged
  <2> QED
    BY <1>2, <2>1
<1> QED
  BY <1>3, <1>4, <1>5

\* So does what is pushed, but for a snapshot that is older than the baseline.
LEMMA PushNumbers ==
    ASSUME NEW n \in Nat, NEW pending \in Updates, NEW update \in Updates,
           pending \in {Nothing, SnapshotRequired} \/ IsUpdate(pending, n),
           IsUpdate(update, n), NEW b \in Baselines, NEW p, p = Push(pending, b, update)
    PROVE  /\ p \in {Nothing, SnapshotRequired} \/ IsUpdate(p, n)
           /\ Follows(b, pending)
              /\ (pending # Nothing /\ IsSnapshot(update) => b.sequence <= update.sequence)
                 => Follows(b, p)
<1>1. update.sequence \in Nat /\ update.base \in Int /\ b.sequence \in Nat
  BY UpdateParts DEF Baselines
<1>2. Follows(b, SnapshotRequired) /\ Follows(b, Nothing)
  BY DEF Follows, SnapshotRequired, Nothing, Mark, IsSnapshot, IsDelta
<1>3. IsSnapshot(update) \/ IsDelta(update)
  BY DEF IsUpdate, IsView, IsSnapshot, IsDelta
<1>4. CASE pending = Nothing
  <2>1. p = StartFrame(b, update)
    BY <1>4 DEF Push
  <2>2. p \in {Nothing, SnapshotRequired, update}
    BY <1>1, <1>3, <2>1 DEF StartFrame, IsSnapshot, IsDelta
  <2>3. p \in {Nothing, SnapshotRequired} \/ (p = update /\ Follows(b, update))
    BY <1>1, <1>3, <2>1 DEF StartFrame, IsSnapshot, IsDelta, Follows
  <2> QED
    BY <1>2, <2>2, <2>3
<1>5. CASE pending # Nothing /\ IsSnapshot(update)
  <2>1. ~IsDelta(update)
    BY <1>5 DEF IsSnapshot, IsDelta
  <2>2. p = update
    BY <1>5, <2>1 DEF Push
  <2> QED
    BY <1>5, <2>1, <2>2 DEF Follows
<1>6. CASE pending # Nothing /\ IsDelta(update)
  <2>1. p = Merged(pending, update)
    BY <1>6 DEF Push, IsSnapshot, IsDelta
  <2> QED
    BY <1>6, <2>1, MergedNumbers
<1> QED
  BY <1>3, <1>4, <1>5, <1>6

\* A lane that is open and idle has nothing on its way.
LEMMA IdleSendsNothing ==
    ASSUME NEW w, Good(w, Messages), Fleet(w), NEW l \in Lanes, w.render[l].open, LaneIdle(w, l)
    PROVE  ~Sending(w, l)
<1>1. w.render[l].bytes = 0 /\ Loaded(w, l) /\ w.render[l].items \in Seq(Items(Messages))
      /\ w.current \in UnderWay(Messages)
  BY WriterParts, QueueParts DEF Good, Fleet, LaneIdle
<1>2. CASE w.lane = l
  <2>1. w.current # NoItem
    BY <1>2, WriterAssumption DEF Fleet
  <2>2. w.current.bytes \in Nat \ {0}
    BY <1>1, <2>1 DEF UnderWay, Begun
  <2> QED
    BY <1>1, <1>2, <2>2 DEF Loaded, Weight
<1>3. CASE w.lane # l /\ w.render[l].items # <<>>
  <2>1. w.render[l].items[1] \in Items(Messages)
    BY <1>1, <1>3, FrontAndRest
  <2>2. w.render[l].items[1].bytes \in Nat \ {0}
    BY <2>1 DEF Items
  <2> QED
    BY <1>1, <1>3, <2>2 DEF Loaded, Weight
<1> QED
  BY <1>2, <1>3 DEF Sending

\* The lane of a stream that is not lost, and is idle
LEMMA DrainedSendsNothing ==
    ASSUME Types, Sound, NEW l \in Lanes, LaneIdle(writer, l)
    PROVE  writer.render[l].open /\ ~writer.closed => ~Sending(writer, l)
BY SoundParts, IdleSendsNothing DEF Flow

\* The parts of a stream
LEMMA StreamHas ==
    ASSUME Types, Sound, NEW l \in Lanes
    PROVE  /\ StreamFits(stream[l]) /\ stream[l] \in StreamStates
           /\ stream[l].baseline \in Baselines /\ stream[l].baseline.sequence \in Nat
           /\ stream[l].pending \in Updates /\ stream[l].events \in Seq(Events)
           /\ StreamNumbers(stream[l], screen.sequence)
           /\ "older" \notin mishaps => Continues(stream[l])
BY StreamParts, StreamIs DEF Types, StreamTypes, StreamFits, StreamStates, Baselines, Sound,
                             Numbers, PendingFits

\* A stream opens.
LEMMA OpenStreamSound == \A l \in Lanes : Types /\ Types' /\ Sound /\ OpenStream(l) => Sound'
<1>1. SUFFICES ASSUME NEW l \in Lanes, Types, Types', Sound, OpenStream(l) PROVE Sound'
  OBVIOUS
<1>2. UNCHANGED <<serving, client, request, screen, mishaps>>
  BY <1>1 DEF OpenStream, streamRest, terminalVars
<1>3. CASE stream[l].detached
  BY <1>1, <1>2, <1>3, EndSound DEF OpenStream
<1>4. CASE ~stream[l].detached
  <2> DEFINE s == [stream[l] EXCEPT !.pc = "opening", !.revised = FALSE,
                                    !.visible = attachment.visible,
                                    !.scrolled = attachment.scrolled]
  <2>1. Becomes(l, s) /\ capture' = [capture EXCEPT ![l].pc = "look"] /\ writer' = writer
        /\ stream[l].pc = "starting"
    BY <1>1, <1>4 DEF OpenStream
  <2>2. /\ s.pc = "opening" /\ s.aborted = stream[l].aborted /\ s.baseline = stream[l].baseline
        /\ s.pending = stream[l].pending /\ s.events = stream[l].events
    BY <1>1, StreamHas DEF StreamStates
  <2> HIDE DEF s
  <2>3. StreamNumbers(s, screen.sequence) /\ Continues(s)
    BY <1>1, <2>1, <2>2, StreamHas DEF StreamNumbers, Continues, Opened
  <2>4. \A t \in Threads : capture'[t].pc = "captured" => capture'[t] = capture[t]
    BY <1>1, <2>1 DEF Types, CaptureTypes, CaptureStates
  <2> QED
    BY <1>1, <1>2, <2>1, <2>2, <2>3, <2>4, MoveSound DEF Opened
<1> QED
  BY <1>3, <1>4

\* It looks whether the process has exited.
LEMMA CheckExitedSound == \A l \in Lanes : Types /\ Types' /\ Sound /\ CheckExited(l) => Sound'
<1>1. SUFFICES ASSUME NEW l \in Lanes, Types, Types', Sound, CheckExited(l) PROVE Sound'
  OBVIOUS
<1>2. UNCHANGED <<serving, client, request, screen, writer, capture>> /\ mishaps \subseteq mishaps'
  BY <1>1 DEF CheckExited, streamRest, terminalVars, Mishap
<1> DEFINE pc == IF exited THEN "leaving" ELSE "streaming"
           s == [stream[l] EXCEPT !.pc = pc]
<1>3. Becomes(l, s) /\ stream[l].pc = "opened"
  BY <1>1 DEF CheckExited
<1>4. pc \in {"leaving", "streaming"}
  OBVIOUS
<1> HIDE DEF pc
<1>5. /\ s.pc = pc /\ s.aborted = stream[l].aborted /\ s.baseline = stream[l].baseline
      /\ s.pending = stream[l].pending /\ s.events = stream[l].events
  BY <1>1, StreamHas DEF StreamStates
<1> HIDE DEF s
<1>6. stream[l].pending = Nothing /\ Follows(s.baseline, Nothing)
  BY <1>1, <1>3, StreamHas DEF StreamNumbers, Follows, Nothing, Mark, IsSnapshot, IsDelta
<1>7. StreamNumbers(s, screen.sequence) /\ Continues(s)
  BY <1>1, <1>3, <1>4, <1>5, <1>6, StreamHas DEF StreamNumbers, Continues, Opened
<1> QED
  BY <1>1, <1>2, <1>3, <1>4, <1>5, <1>7, MoveSound DEF Opened

\* Its attachment has changed.
LEMMA ReceiveViewSound == \A l \in Lanes : Types /\ Types' /\ Sound /\ ReceiveView(l) => Sound'
<1>1. SUFFICES ASSUME NEW l \in Lanes, Types, Types', Sound, ReceiveView(l) PROVE Sound'
  OBVIOUS
<1>2. UNCHANGED <<serving, client, request, screen>> /\ mishaps \subseteq mishaps'
  BY <1>1 DEF ReceiveView, streamRest, terminalVars, Mishap
<1>3. CASE EndStream(l)
  BY <1>1, <1>2, <1>3, EndSound
<1>4. CASE Becomes(l, ViewChanged(stream[l])) /\ UNCHANGED <<capture, writer>>
  <2> DEFINE pending == IF ~attachment.visible THEN Nothing
                        ELSE IF ~stream[l].visible \/ stream[l].revised THEN SnapshotRequired
                        ELSE stream[l].pending
             s == [stream[l] EXCEPT !.changed = FALSE, !.revised = FALSE,
                     !.visible = attachment.visible, !.scrolled = attachment.scrolled,
                     !.pending = pending]
  <2>1. Becomes(l, s) /\ stream[l].pc = "streaming"
    BY <1>1, <1>4 DEF ReceiveView, ViewChanged
  <2>2. pending \in {Nothing, SnapshotRequired, stream[l].pending}
    OBVIOUS
  <2> HIDE DEF pending
  <2>3. /\ s.pc = "streaming" /\ s.aborted = stream[l].aborted /\ s.baseline = stream[l].baseline
        /\ s.pending = pending /\ s.events = stream[l].events
    BY <1>1, <2>1, StreamHas DEF StreamStates
  <2> HIDE DEF s
  <2>4. Follows(s.baseline, Nothing) /\ Follows(s.baseline, SnapshotRequired)
    BY DEF Follows, SnapshotRequired, Nothing, Mark, IsSnapshot, IsDelta
  <2>5. StreamNumbers(s, screen.sequence)
    BY <1>1, <2>1, <2>2, <2>3, StreamHas DEF StreamNumbers, Opened
  <2>6. Continues(stream[l]) => Continues(s)
    BY <2>1, <2>2, <2>3, <2>4 DEF Continues
  <2>7. "older" \notin mishaps' => Continues(s)
    BY <1>1, <1>2, <2>6, StreamHas
  <2> QED
    BY <1>1, <1>2, <1>4, <2>1, <2>3, <2>5, <2>7, MoveSound
<1> QED
  BY <1>1, <1>3, <1>4 DEF ReceiveView

\* It has drained, or is dropped.
LEMMA StreamEndSound ==
    \A l \in Lanes : Types /\ Types' /\ Sound /\ (Drained(l) \/ Dropped(l)) => Sound'
<1>1. SUFFICES ASSUME NEW l \in Lanes, Types, Types', Sound, Drained(l) \/ Dropped(l) PROVE Sound'
  OBVIOUS
<1>2. UNCHANGED <<serving, client, request, screen>> /\ mishaps \subseteq mishaps'
  BY <1>1 DEF Drained, Dropped, streamRest, terminalVars, Mishap
<1>3. CASE EndStream(l)
  BY <1>1, <1>2, <1>3, EndSound
<1>4. CASE ~EndStream(l)
  <2> DEFINE s == [stream[l] EXCEPT !.pc = "ending"]
  <2>1. Becomes(l, s) /\ capture' = [capture EXCEPT ![l].pc = "look"] /\ UNCHANGED writer
        /\ stream[l].pc = "draining" /\ LaneIdle(writer, l)
    BY <1>1, <1>4 DEF Drained, Dropped
  <2>2. /\ s.pc = "ending" /\ s.aborted = stream[l].aborted /\ s.baseline = stream[l].baseline
        /\ s.events = stream[l].events
    BY <1>1, StreamHas DEF StreamStates
  <2> HIDE DEF s
  <2>3. StreamNumbers(s, screen.sequence) /\ Continues(s)
    BY <1>1, <2>1, <2>2, StreamHas DEF StreamNumbers, Continues, Opened
  <2>4. \A t \in Threads : capture'[t].pc = "captured" => capture'[t] = capture[t]
    BY <1>1, <2>1 DEF Types, CaptureTypes, CaptureStates
  <2>5. writer.render[l].open /\ ~writer.closed => ~Sending(writer, l)
    BY <1>1, <2>1, DrainedSendsNothing
  <2> QED
    BY <1>1, <1>2, <2>1, <2>2, <2>3, <2>4, <2>5, MoveSound DEF Opened
<1> QED
  BY <1>3, <1>4

\* A stream receives what is broadcast.
LEMMA ReceiveEventSound == \A l \in Lanes : Types /\ Types' /\ Sound /\ ReceiveEvent(l) => Sound'
<1>1. SUFFICES ASSUME NEW l \in Lanes, Types, Types', Sound, ReceiveEvent(l) PROVE Sound'
  OBVIOUS
<1>2. UNCHANGED <<serving, client, request, screen, capture, writer>> /\ mishaps \subseteq mishaps'
  BY <1>1 DEF ReceiveEvent, streamRest, terminalVars, Mishap
<1> DEFINE n == screen.sequence
           s == stream[l]
           event == Head(s.events)
           newest == IF event.sequence > s.newest THEN event.sequence ELSE s.newest
           tail == Tail(s.events)
           rest == [s EXCEPT !.events = tail, !.newest = newest]
<1>3. /\ s \in StreamStates /\ s.baseline \in Baselines /\ s.baseline.sequence \in Nat
      /\ s.pending \in Updates /\ s.events \in Seq(Events) /\ StreamNumbers(s, n) /\ n \in Nat
      /\ "older" \notin mishaps => Continues(s)
  BY <1>1, StreamHas, SoundParts
<1>4. /\ s.pc = "streaming"
      /\ \/ \/ Becomes(l, [s EXCEPT !.lagged = FALSE, !.pending = SnapshotRequired])
            \/ Becomes(l, [s EXCEPT !.lagged = FALSE, !.dirty = TRUE])
         \/ /\ s.events # <<>> /\ ~IsExit(event) /\ Becomes(l, AfterUpdate(rest, event))
            /\ "older" \notin mishaps' /\ s.pending # Nothing /\ IsSnapshot(event)
                  => ~(event.sequence < s.baseline.sequence)
         \/ /\ s.events # <<>> /\ IsExit(event)
            /\ Becomes(l, [rest EXCEPT !.pc = "draining", !.pending = event])
  BY <1>1 DEF ReceiveEvent, Mishap
<1> HIDE DEF s, n
\* What it becomes keeps its station, and what is pending continues the baseline.
<1> DEFINE Goes(t) == /\ Becomes(l, t) /\ t.aborted = s.aborted /\ t.baseline = s.baseline
                      /\ t.pc \in {"streaming", "draining"}
                      /\ StreamNumbers(t, n) /\ ("older" \notin mishaps' => Continues(t))
<1>5. ASSUME NEW t, Goes(t) PROVE Sound'
  <2>1. stream[l] = s /\ screen.sequence = n
    BY DEF s, n
  <2>2. stream[l].pc = "streaming" /\ t.aborted = stream[l].aborted /\ t.baseline = stream[l].baseline
    BY <1>4, <1>5, <2>1
  <2>3. StreamNumbers(t, screen.sequence)
    BY <1>5, <2>1
  <2> QED
    BY <1>1, <1>2, <1>5, <2>2, <2>3, MoveSound DEF Opened
<1>6. \A b \in Baselines : Follows(b, SnapshotRequired)
  BY DEF Follows, SnapshotRequired, Mark, IsSnapshot, IsDelta
<1>7. CASE \/ Becomes(l, [s EXCEPT !.lagged = FALSE, !.pending = SnapshotRequired])
           \/ Becomes(l, [s EXCEPT !.lagged = FALSE, !.dirty = TRUE])
  <2> DEFINE no == FALSE
             yes == TRUE
             behind == [s EXCEPT !.lagged = no, !.pending = SnapshotRequired]
             hidden == [s EXCEPT !.lagged = no, !.dirty = yes]
  <2> HIDE DEF no, yes
  <2>1. /\ behind.pc = "streaming" /\ behind.aborted = s.aborted /\ behind.baseline = s.baseline
        /\ behind.events = s.events /\ behind.pending = SnapshotRequired
    BY <1>3, <1>4 DEF StreamStates
  <2>2. /\ hidden.pc = "streaming" /\ hidden.aborted = s.aborted /\ hidden.baseline = s.baseline
        /\ hidden.events = s.events /\ hidden.pending = s.pending
    BY <1>3, <1>4 DEF StreamStates
  <2>3. Becomes(l, behind) \/ Becomes(l, hidden)
    BY <1>7 DEF no, yes
  <2> HIDE DEF behind, hidden
  <2>4. StreamNumbers(behind, n) /\ Continues(behind)
    BY <1>3, <1>4, <1>6, <2>1 DEF StreamNumbers, Continues, Opened
  <2>5. StreamNumbers(hidden, n)
    BY <1>3, <1>4, <2>2 DEF StreamNumbers, Opened
  <2>6. Continues(s) => Continues(hidden)
    BY <1>4, <2>2 DEF Continues
  <2>7. "older" \notin mishaps' => Continues(hidden)
    BY <1>2, <1>3, <2>6
  <2>8. Goes(behind) \/ Goes(hidden)
    BY <2>1, <2>2, <2>3, <2>4, <2>5, <2>7
  <2> QED
    BY <1>5, <2>8
<1>8. CASE s.events # <<>>
  <2>1. /\ event \in Events /\ IsEvent(event, n)
        /\ \A i \in DOMAIN tail : IsEvent(tail[i], n)
    <3>1. \A i \in DOMAIN s.events : IsEvent(s.events[i], n)
      BY <1>3 DEF StreamNumbers
    <3> QED
      BY <1>3, <1>8, <3>1, FrontAndRest
  <2>2. event \in Updates /\ event.sequence \in Nat
    BY <2>1, UpdateParts DEF Events
  <2> HIDE DEF event, tail, newest
  <2>3. /\ rest.pc = "streaming" /\ rest.aborted = s.aborted /\ rest.baseline = s.baseline
        /\ rest.events = tail /\ rest.pending = s.pending /\ DOMAIN rest = DOMAIN s
    BY <1>3, <1>4 DEF StreamStates
  <2>4. CASE IsExit(event) /\ Becomes(l, [rest EXCEPT !.pc = "draining", !.pending = event])
    <3> DEFINE t == [rest EXCEPT !.pc = "draining", !.pending = event]
    <3>1. /\ t.pc = "draining" /\ t.aborted = s.aborted /\ t.baseline = s.baseline
          /\ t.events = tail
      BY <1>3, <2>3 DEF StreamStates
    <3>2. Becomes(l, t)
      BY <2>4
    <3> HIDE DEF t
    <3>3. StreamNumbers(t, n) /\ Continues(t)
      BY <1>3, <1>4, <2>1, <3>1 DEF StreamNumbers, Continues, Opened
    <3> QED
      BY <1>5, <3>1, <3>2, <3>3
  <2>5. CASE /\ ~IsExit(event) /\ Becomes(l, AfterUpdate(rest, event))
             /\ "older" \notin mishaps' /\ s.pending # Nothing /\ IsSnapshot(event)
                   => ~(event.sequence < s.baseline.sequence)
    <3> DEFINE pushed == Push(s.pending, s.baseline, event)
               differs == rest.dirty \/ MetadataDiffers(s.baseline, event)
    <3>1. IsUpdate(event, n)
      BY <2>1, <2>5 DEF IsEvent
    <3>2. /\ s.pending \in {Nothing, SnapshotRequired} \/ IsUpdate(s.pending, n)
          /\ "older" \notin mishaps => Follows(s.baseline, s.pending)
      BY <1>3, <1>4 DEF StreamNumbers, Continues
    <3>3. /\ pushed \in {Nothing, SnapshotRequired} \/ IsUpdate(pushed, n)
          /\ Follows(s.baseline, s.pending)
             /\ (s.pending # Nothing /\ IsSnapshot(event) => s.baseline.sequence <= event.sequence)
                => Follows(s.baseline, pushed)
      BY <1>3, <2>2, <3>1, <3>2, PushNumbers
    <3>4. "older" \notin mishaps' /\ s.pending # Nothing /\ IsSnapshot(event)
             => s.baseline.sequence <= event.sequence
      BY <1>3, <2>2, <2>5
    <3>5. "older" \notin mishaps' => Follows(s.baseline, pushed) /\ Follows(s.baseline, s.pending)
      BY <1>2, <3>2, <3>3, <3>4
    <3>6. AfterUpdate(rest, event) \in {[rest EXCEPT !.pending = pushed], [rest EXCEPT !.dirty = differs]}
      BY <2>3 DEF AfterUpdate
    <3> HIDE DEF pushed, differs, rest
    <3>7. PICK t \in {[rest EXCEPT !.pending = pushed], [rest EXCEPT !.dirty = differs]} : Becomes(l, t)
      BY <2>5, <3>6
    <3>8. /\ t.pc = "streaming" /\ t.aborted = s.aborted /\ t.baseline = s.baseline
          /\ t.events = tail /\ t.pending \in {pushed, s.pending}
      BY <1>3, <2>3, <3>7 DEF StreamStates
    <3> HIDE DEF Goes
    <3>9. StreamNumbers(t, n)
      BY <1>3, <1>4, <2>1, <3>2, <3>3, <3>8 DEF StreamNumbers, Opened
    <3>10. "older" \notin mishaps' => Continues(t)
      BY <3>5, <3>8 DEF Continues
    <3>11. Goes(t)
      BY <3>7, <3>8, <3>9, <3>10 DEF Goes
    <3> QED
      BY <1>5, <3>11
  <2> QED
    BY <1>4, <1>7, <2>4, <2>5
<1> QED
  BY <1>4, <1>7, <1>8

\* A message waits for the only lane that sends.
LEMMA FlowAwaits ==
    ASSUME NEW w, ~w.closed, NEW streams, NEW srv, NEW known, NEW sequence, NEW n, NEW faults,
           Flow(w, streams, srv, known, sequence, n, faults), NEW l \in Lanes,
           streams[l].pc = "leaving", Sending(w, l),
           "overlap" \notin faults => \A k \in Lanes : Sending(w, k) => k = l,
           NEW v, Keeps(w, v), NEW msg, ~Attaches(msg), Told(v) = Told(w) \cup {msg},
           Awaited(v) = Awaited(w) \cup {l}
    PROVE  Flow(v, streams, srv, known, sequence, n, faults)
<1>1. ~v.closed /\ Fleet(v) /\ SameFrames(w, v) /\ (Introducing(w) => Introducing(v))
  BY DEF Keeps
<1>2. \A k \in Lanes : /\ Sending(v, k) <=> Sending(w, k)
                       /\ Sending(w, k) => Sent(v, k) = Sent(w, k)
                       /\ v.render[k].open = w.render[k].open
                       /\ v.render[k].ready => w.render[k].ready
  BY <1>1 DEF SameFrames
<1>3. Alone(streams, srv)
  BY DEF Flow
<1>4. \A k \in Lanes : Stationed(v, srv, streams[k].pc, k)
  <2>1. \A k \in Lanes : Stationed(w, srv, streams[k].pc, k)
    BY DEF Flow
  <2> QED
    BY <1>2, <2>1 DEF Stationed
<1>5. WriterNumbers(v, n)
  <2>1. WriterNumbers(w, n)
    BY DEF Flow
  <2> QED
    BY <1>2, <2>1 DEF WriterNumbers
<1>6. ASSUME "overlap" \notin faults PROVE Ordered(v, streams, srv)
  <2>1. Ordered(w, streams, srv)
    BY <1>6 DEF Flow
  <2>2. \A j, k \in Lanes : Sending(v, j) /\ Sending(v, k) => j = k
    BY <1>2, <1>6
  <2> QED
    BY <1>2, <2>1, <2>2 DEF Ordered
<1>7. Introduced(w, known) => Introduced(v, known)
  BY <1>1 DEF Introduced
<1>8. ASSUME NEW k \in Lanes, Agrees(w, streams[k], srv, sequence, k)
      PROVE  Agrees(v, streams[k], srv, sequence, k)
  BY <1>2, <1>8 DEF Agrees
<1> QED
  BY <1>1, <1>3, <1>4, <1>5, <1>6, <1>7, <1>8 DEF Flow

\* A frame is an item of its update.
LEMMA FrameIs ==
    ASSUME NEW u \in Updates
    PROVE  Frame(u) \in Items(Messages) /\ Frame(u).msg.kind = "frame" /\ Frame(u).msg.update = u
BY FrameTyped DEF Frame, Item

\* A stream sends a frame: what is then on its way.
LEMMA SendFlow ==
    ASSUME Types, Sound, NEW l \in Lanes, NEW u \in Updates, IsUpdate(u, screen.sequence),
           LaneTakes(writer, l, Frame(u)), ~Sending(writer, l),
           mishaps \subseteq mishaps', "overlap" \notin mishaps' => ~stream[l].aborted,
           stream[l].pc \in Opened \cup {"opening"},
           IsDelta(u) => stream[l].pc \in Opened,
           Faultless(mishaps') =>
              /\ IsDelta(u) => u.base = stream[l].baseline.sequence
              /\ \/ u.sequence = screen.sequence
                 \/ stream[l].pc \in Opened /\ stream[l].baseline.sequence <= u.sequence,
           NEW others, \A k \in Lanes \ {l} : others[k] = stream[k],
           others[l].aborted = stream[l].aborted,
           others[l].pc \in {"opened", "streaming", "leaving"},
           others[l].pc \in Opened => others[l].baseline.sequence = u.sequence,
           NEW v, v = Enqueue(writer, l, Frame(u))
    PROVE  /\ Flow(v, others, serving, client.known, client.mirror.sequence, screen.sequence, mishaps')
           /\ "overlap" \notin mishaps' /\ stream[l].pc \in Opened
                 => \A k \in Lanes : Sending(v, k) => k = l
           /\ Sending(v, l) /\ Good(v, Messages) /\ ~v.closed /\ Fleet(v)
<1>1. /\ screen.sequence \in Nat /\ client.mirror.sequence \in Nat
      /\ client.mirror.sequence <= screen.sequence
      /\ Good(writer, Messages) /\ Based(stream)
      /\ Flow(writer, stream, serving, client.known, client.mirror.sequence, screen.sequence, mishaps)
  BY SoundParts
<1>2. Flow(writer, stream, serving, client.known, client.mirror.sequence, screen.sequence, mishaps')
  BY <1>1, MoreMishaps
<1>3. ~writer.closed /\ writer.render[l].open
  BY DEF LaneTakes
<1>4. stream[l].pc # "none"
  BY DEF Opened
<1>5. "overlap" \notin mishaps' => serving = l
  BY <1>2, <1>4 DEF Flow, Alone
<1>6. Frame(u) \in Items(Messages) /\ Frame(u).msg.kind = "frame" /\ Frame(u).msg.update = u
  BY FrameIs
<1> DEFINE item == Frame(u)
<1> HIDE DEF item
<1>7. item \in Items(Messages) /\ item.msg.kind = "frame" /\ item.msg.update = u
      /\ v = Enqueue(writer, l, item)
  BY <1>6 DEF item
<1>8. /\ Flow(v, others, serving, client.known, client.mirror.sequence, screen.sequence, mishaps')
      /\ Ordered(writer, stream, serving) /\ serving = l /\ stream[l].pc \in Opened
             => \A k \in Lanes : Sending(v, k) => k = l
      /\ Sending(v, l)
  BY <1>1, <1>2, <1>3, <1>5, <1>7, FlowSends
<1>9. "overlap" \notin mishaps' => Ordered(writer, stream, serving)
  BY <1>2, <1>3 DEF Flow
<1>10. Good(v, Messages)
  BY <1>1, <1>7, EnqueueGood
<1>11. ~v.closed
  <2>1. writer \in Writer(Messages)
    BY <1>1 DEF Good
  <2> QED
    BY <1>3, <2>1 DEF Enqueue, Writer
<1> QED
  BY <1>5, <1>8, <1>9, <1>10, <1>11 DEF Flow

\* A stream sends a frame and goes on.
LEMMA SendsSound ==
    ASSUME Types, Types', Sound, NEW l \in Lanes, NEW u \in Updates, IsUpdate(u, screen.sequence),
           LaneTakes(writer, l, Frame(u)), ~Sending(writer, l),
           mishaps \subseteq mishaps', "overlap" \notin mishaps' => ~stream[l].aborted,
           stream[l].pc \in Opened \cup {"opening"},
           IsDelta(u) => stream[l].pc \in Opened,
           Faultless(mishaps') =>
              /\ IsDelta(u) => u.base = stream[l].baseline.sequence
              /\ \/ u.sequence = screen.sequence
                 \/ stream[l].pc \in Opened /\ stream[l].baseline.sequence <= u.sequence,
           NEW s, Becomes(l, s), s.aborted = stream[l].aborted, s.pc \in {"opened", "streaming"},
           s.baseline.sequence = u.sequence, s.pending = Nothing, s.events = stream[l].events,
           writer' = Enqueue(writer, l, Frame(u)),
           UNCHANGED <<serving, client, request, screen>>,
           \A t \in Threads : capture'[t].pc = "captured" => capture'[t] = capture[t]
    PROVE  Sound'
<1>1. stream'[l] = s /\ \A k \in Lanes \ {l} : stream'[k] = stream[k]
  BY DEF Types, StreamTypes, Becomes
<1>2. /\ Flow(writer', stream', serving, client.known, client.mirror.sequence, screen.sequence, mishaps')
  BY <1>1, SendFlow
<1>3. StreamNumbers(s, screen.sequence)
  <2>1. u.base \in Int /\ u.sequence \in Nat /\ u.sequence <= screen.sequence /\ 1 <= u.sequence
    BY UpdateParts, SoundParts DEF IsUpdate, IsView
  <2> QED
    BY <2>1, StreamHas DEF StreamNumbers
<1>4. Continues(s)
  BY DEF Continues, Follows, Nothing, Mark, IsSnapshot, IsDelta
<1>5. ~writer.closed
  BY DEF LaneTakes
<1> QED
  BY <1>2, <1>3, <1>4, <1>5, StreamSound

\* A delta of the metadata is the last capture, based on what was sent.
LEMMA MetadataDeltaIs ==
    ASSUME Types, Sound, NEW b \in Baselines, 1 <= b.sequence, MetadataDelta(b) # Nothing
    PROVE  LET delta == MetadataDelta(b) IN
           /\ delta \in Updates /\ IsUpdate(delta, screen.sequence) /\ IsDelta(delta)
           /\ delta.base = b.sequence /\ delta.sequence = screen.sequence
<1>1. MetadataDelta(b) \in Updates
  BY MetadataDeltaTyped DEF Types
<1>2. screen.sequence \in Nat /\ b.sequence \in Nat
  BY SoundParts DEF Baselines
<1> DEFINE delta == [base |-> b.sequence, sequence |-> screen.sequence, meta |-> screen.meta, rows |-> Same]
<1>3. MetadataDelta(b) = delta /\ ~(screen.sequence <= b.sequence)
  BY DEF MetadataDelta
<1>4. delta.base = b.sequence /\ delta.sequence = screen.sequence
  OBVIOUS
<1> HIDE DEF delta
<1> QED
  BY <1>1, <1>2, <1>3, <1>4 DEF IsUpdate, IsView, IsDelta

\* Advancing a baseline gives it the sequence of what was sent.
LEMMA AdvanceIs ==
    ASSUME NEW b \in Baselines, NEW u \in Updates
    PROVE  /\ Advance(b, u).sequence = u.sequence
           /\ [Advance(b, u) EXCEPT !.follows_live = FALSE].sequence = u.sequence
           /\ Baseline(u).sequence = u.sequence
<1> DEFINE m == IF u.meta = Same THEN b.meta ELSE u.meta
           no == FALSE
<1>1. Advance(b, u) = IF IsSnapshot(u) THEN Baseline(u)
                      ELSE [b EXCEPT !.sequence = u.sequence, !.meta = m]
  BY DEF Advance
<1>2. Baseline(u).sequence = u.sequence
  BY DEF Baseline
<1> HIDE DEF m, no
<1>3. Advance(b, u).sequence = u.sequence
  BY <1>1, <1>2 DEF Baselines
<1>4. Advance(b, u) \in Baselines
  BY BaselineTyped
<1>5. [Advance(b, u) EXCEPT !.follows_live = no].sequence = Advance(b, u).sequence
  BY <1>4 DEF Baselines
<1> QED
  BY <1>2, <1>3, <1>5 DEF no

\* It is time for a frame.
LEMMA TickSound == \A l \in Lanes : Types /\ Types' /\ Sound /\ Tick(l) => Sound'
<1>1. SUFFICES ASSUME NEW l \in Lanes, Types, Types', Sound, Tick(l) PROVE Sound'
  OBVIOUS
<1>2. UNCHANGED <<serving, client, request, screen>> /\ mishaps \subseteq mishaps'
  BY <1>1 DEF Tick, streamRest, terminalVars, Mishap
<1> DEFINE n == screen.sequence
           s == stream[l]
           delta == MetadataDelta(s.baseline)
           b == Advance(s.baseline, s.pending)
           m == [Advance(s.baseline, delta) EXCEPT !.follows_live = FALSE]
<1>3. /\ s \in StreamStates /\ s.baseline \in Baselines /\ s.baseline.sequence \in Nat
      /\ s.pending \in Updates /\ StreamNumbers(s, n) /\ n \in Nat
      /\ "older" \notin mishaps => Continues(s)
  BY <1>1, StreamHas, SoundParts
<1>4. s.pc = "streaming" /\ LaneIdle(writer, l)
  BY <1>1 DEF Tick
<1>5. /\ 1 <= s.baseline.sequence
      /\ s.pending \in {Nothing, SnapshotRequired} \/ IsUpdate(s.pending, n)
      /\ "older" \notin mishaps => Follows(s.baseline, s.pending)
  BY <1>3, <1>4 DEF StreamNumbers, Opened, Continues
<1>6. LaneTakes(writer, l, Frame(s.pending)) \/ LaneTakes(writer, l, Frame(delta)) => ~Sending(writer, l)
  BY <1>1, <1>4, DrainedSendsNothing DEF LaneTakes
<1>7. \/ EndStream(l)
      \/ /\ Becomes(l, [s EXCEPT !.pc = "framing", !.pending = Nothing])
         /\ capture' = [capture EXCEPT ![l].pc = "look"] /\ UNCHANGED writer
      \/ /\ s.pending \notin {Nothing, SnapshotRequired}
         /\ "overlap" \notin mishaps' => ~s.aborted \/ Lost(l)
         /\ LaneTakes(writer, l, Frame(s.pending))
         /\ Becomes(l, [s EXCEPT !.baseline = b, !.pending = Nothing, !.dirty = FALSE])
         /\ writer' = Enqueue(writer, l, Frame(s.pending)) /\ UNCHANGED capture
      \/ /\ s.pending = Nothing /\ delta # Nothing
         /\ "overlap" \notin mishaps' => ~s.aborted \/ Lost(l)
         /\ LaneTakes(writer, l, Frame(delta))
         /\ Becomes(l, [s EXCEPT !.baseline = m, !.dirty = FALSE])
         /\ writer' = Enqueue(writer, l, Frame(delta)) /\ UNCHANGED capture
      \/ s.pending = Nothing /\ Becomes(l, [s EXCEPT !.dirty = FALSE]) /\ UNCHANGED <<capture, writer>>
  <2>1. SnapshotRequired # Nothing
    BY DEF SnapshotRequired, Nothing, Mark
  <2>2. "overlap" \notin mishaps' /\ s.pending # SnapshotRequired /\ (s.pending # Nothing \/ delta # Nothing)
           => ~s.aborted \/ Lost(l)
    BY <1>1 DEF Tick, Mishap
  <2> QED
    BY <1>1, <2>1, <2>2 DEF Tick, AfterMetadata
<1>8. CASE EndStream(l)
  BY <1>1, <1>2, <1>8, EndSound
<1>9. CASE /\ Becomes(l, [s EXCEPT !.pc = "framing", !.pending = Nothing])
           /\ capture' = [capture EXCEPT ![l].pc = "look"] /\ UNCHANGED writer
  <2> DEFINE t == [s EXCEPT !.pc = "framing", !.pending = Nothing]
  <2>1. /\ t.pc = "framing" /\ t.aborted = s.aborted /\ t.baseline = s.baseline
        /\ t.events = s.events /\ t.pending = Nothing
    BY <1>3 DEF StreamStates
  <2>2. Becomes(l, t) /\ UNCHANGED writer
    BY <1>9
  <2>3. \A k \in Threads : capture'[k].pc = "captured" => capture'[k] = capture[k]
    BY <1>1, <1>9 DEF Types, CaptureTypes, CaptureStates
  <2> HIDE DEF t, b, m, delta
  <2>4. StreamNumbers(t, n) /\ Continues(t)
    BY <1>3, <1>4, <2>1 DEF StreamNumbers, Continues, Opened
  <2>5. writer.render[l].open /\ ~writer.closed => ~Sending(writer, l)
    BY <1>1, <1>4, DrainedSendsNothing
  <2> QED
    BY <1>1, <1>2, <1>4, <2>1, <2>2, <2>3, <2>4, <2>5, MoveSound DEF Opened
<1>10. CASE /\ s.pending \notin {Nothing, SnapshotRequired}
            /\ "overlap" \notin mishaps' => ~s.aborted \/ Lost(l)
            /\ LaneTakes(writer, l, Frame(s.pending))
            /\ Becomes(l, [s EXCEPT !.baseline = b, !.pending = Nothing, !.dirty = FALSE])
            /\ writer' = Enqueue(writer, l, Frame(s.pending)) /\ UNCHANGED capture
  <2> DEFINE u == s.pending
             no == FALSE
             t == [s EXCEPT !.baseline = b, !.pending = Nothing, !.dirty = no]
  <2>1. b.sequence = u.sequence
    BY <1>3, AdvanceIs
  <2>2. u \in Updates /\ IsUpdate(u, n) /\ ~Sending(writer, l) /\ ~Lost(l)
    BY <1>3, <1>5, <1>6, <1>10 DEF LaneTakes, Lost
  <2>3. "overlap" \notin mishaps' => ~s.aborted
    BY <1>10, <2>2
  <2>4. Faultless(mishaps') => /\ IsDelta(u) => u.base = s.baseline.sequence
                               /\ s.baseline.sequence <= u.sequence
    <3>1. Faultless(mishaps') => "older" \notin mishaps
      BY <1>2 DEF Faultless
    <3>2. u.sequence \in Nat /\ u.base \in Int
      BY <1>3, UpdateParts
    <3>3. Faultless(mishaps') => Follows(s.baseline, u)
      BY <1>5, <3>1
    <3> QED
      BY <1>3, <2>2, <3>2, <3>3 DEF Follows, IsUpdate, IsView, IsSnapshot, IsDelta
  <2> HIDE DEF b, m, delta, no
  <2>5. /\ t.pc = "streaming" /\ t.aborted = s.aborted /\ t.baseline = b
        /\ t.events = s.events /\ t.pending = Nothing
    BY <1>3, <1>4 DEF StreamStates
  <2>6. Becomes(l, t)
    BY <1>10 DEF no
  <2> HIDE DEF t
  <2>7. t.baseline.sequence = u.sequence /\ s.pc \in Opened
    BY <1>4, <2>1, <2>5 DEF Opened
  <2>8. \A k \in Threads : capture'[k].pc = "captured" => capture'[k] = capture[k]
    BY <1>10
  <2> QED
    BY <1>1, <1>2, <1>10, <2>2, <2>3, <2>4, <2>5, <2>6, <2>7, <2>8, SendsSound
<1>11. CASE /\ s.pending = Nothing /\ delta # Nothing
            /\ "overlap" \notin mishaps' => ~s.aborted \/ Lost(l)
            /\ LaneTakes(writer, l, Frame(delta))
            /\ Becomes(l, [s EXCEPT !.baseline = m, !.dirty = FALSE])
            /\ writer' = Enqueue(writer, l, Frame(delta)) /\ UNCHANGED capture
  <2> DEFINE no == FALSE
             t == [s EXCEPT !.baseline = m, !.dirty = no]
  <2>1. /\ delta \in Updates /\ IsUpdate(delta, n) /\ delta.base = s.baseline.sequence
        /\ delta.sequence = n
    BY <1>1, <1>3, <1>5, <1>11, MetadataDeltaIs
  <2>2. ~Sending(writer, l) /\ ~Lost(l)
    BY <1>6, <1>11 DEF LaneTakes, Lost
  <2>3. "overlap" \notin mishaps' => ~s.aborted
    BY <1>11, <2>2
  <2>4. m.sequence = delta.sequence
    BY <1>3, <2>1, AdvanceIs
  <2> HIDE DEF b, m, delta, no
  <2>5. /\ t.pc = "streaming" /\ t.aborted = s.aborted /\ t.baseline = m
        /\ t.events = s.events /\ t.pending = Nothing
    BY <1>3, <1>4, <1>11 DEF StreamStates
  <2>6. Becomes(l, t)
    BY <1>11 DEF no
  <2> HIDE DEF t
  <2>7. t.baseline.sequence = delta.sequence /\ s.pc \in Opened
    BY <1>4, <2>4, <2>5 DEF Opened
  <2>8. \A k \in Threads : capture'[k].pc = "captured" => capture'[k] = capture[k]
    BY <1>11
  <2> QED
    BY <1>1, <1>2, <1>11, <2>1, <2>2, <2>3, <2>5, <2>6, <2>7, <2>8, SendsSound
<1>12. CASE s.pending = Nothing /\ Becomes(l, [s EXCEPT !.dirty = FALSE]) /\ UNCHANGED <<capture, writer>>
  <2> DEFINE no == FALSE
             t == [s EXCEPT !.dirty = no]
  <2> HIDE DEF no, b, m, delta
  <2>1. /\ t.pc = "streaming" /\ t.aborted = s.aborted /\ t.baseline = s.baseline
        /\ t.events = s.events /\ t.pending = Nothing
    BY <1>3, <1>4, <1>12 DEF StreamStates
  <2>2. Becomes(l, t)
    BY <1>12 DEF no
  <2> HIDE DEF t
  <2>3. StreamNumbers(t, n)
    BY <1>3, <1>4, <1>12, <2>1 DEF StreamNumbers, Opened
  <2>4. Continues(t)
    BY <2>1 DEF Continues, Follows, Nothing, Mark, IsSnapshot, IsDelta
  <2> QED
    BY <1>1, <1>2, <1>4, <1>12, <2>1, <2>2, <2>3, <2>4, MoveSound DEF Opened
<1> QED
  BY <1>7, <1>8, <1>9, <1>10, <1>11, <1>12

\* A message that is not a response attaches nothing.
LEMMA ExitIs ==
    ASSUME NEW sequence \in Nat, NEW l \in Lanes, NEW exit,
           exit = [ExitMessage(sequence) EXCEPT !.after_lane = l]
    PROVE  /\ exit \in Items(Messages) /\ Plain(exit) /\ exit.after_lane = l
           /\ ~Attaches(exit.msg)
<1>1. exit \in Items(Messages)
  BY ExitTyped, ItemTyped
<1> DEFINE msg == [kind |-> "exit", of |-> "none", update |-> ExitEvent(sequence)]
           no == FALSE
<1>2. exit = [kind |-> "item", msg |-> msg, left |-> 1, bytes |-> 1, after_lane |-> l, latest |-> no]
  BY DEF ExitMessage, Item
<1>3. msg.kind = "exit"
  OBVIOUS
<1> HIDE DEF msg
<1>4. exit.msg = msg /\ exit.after_lane = l /\ exit.latest = no
  BY <1>2
<1> QED
  BY <1>1, <1>3, <1>4 DEF Plain, Attaches, no

\* A writer that was closed has nothing in its slot.
LEMMA ReliableSlot ==
    ASSUME NEW s, NEW item, ~s.closed, NEW t, t = PushReliable(s, item), t.closed,
           s \in Writer(Messages)
    PROVE  t.slot = "none"
<1>1. t # s /\ (Len(s.reliable) < ReliableItems /\ Fits(item.bytes, s.reliable_bytes, ReliableBytes)
                => t.closed = s.closed)
  BY DEF PushReliable, Writer
<1>2. t = ClosedWriter(s)
  BY <1>1 DEF PushReliable
<1> QED
  BY <1>2 DEF ClosedWriter, NewWriter

\* The streams that are not aborted, before and after
LEMMA AloneFlow ==
    ASSUME NEW w, NEW streams, NEW srv, NEW known, NEW sequence, NEW n, NEW faults,
           Flow(w, streams, srv, known, sequence, n, faults)
    PROVE  Alone(streams, srv)
BY DEF Flow

\* A snapshot is sent: the one a stream opens with, one that is required, the final one.
LEMMA SendSnapshotSound == \A l \in Lanes : Types /\ Types' /\ Sound /\ SendSnapshot(l) => Sound'
<1>1. SUFFICES ASSUME NEW l \in Lanes, Types, Types', Sound, SendSnapshot(l) PROVE Sound'
  OBVIOUS
<1>2. UNCHANGED <<serving, client, request, screen>> /\ mishaps \subseteq mishaps'
  BY <1>1 DEF SendSnapshot, streamRest, terminalVars
<1> DEFINE n == screen.sequence
           s == stream[l]
           viewport == CurrentViewport(l, s.scrolled)
           sent == Enqueue(writer, l, Frame(viewport))
           exit == [ExitMessage(s.pending.sequence) EXCEPT !.after_lane = l]
           b == Baseline(viewport)
           no == FALSE
<1>3. /\ s \in StreamStates /\ StreamNumbers(s, n) /\ n \in Nat /\ s.pending.sequence \in Nat
      /\ s.scrolled \in BOOLEAN
  BY <1>1, StreamHas, SoundParts, StreamParts, UpdateParts
<1>4. /\ viewport \in Updates /\ IsView(viewport, n) /\ viewport.sequence = n
      /\ b.sequence = n
  <2>1. CanView(l, s.scrolled) /\ l \in Threads
    BY <1>1, ThreadsAre DEF SendSnapshot
  <2>2. viewport \in Updates
    BY <1>1, <1>3, <2>1, ViewportTyped DEF Types
  <2>3. IsView(viewport, n) /\ viewport.sequence = n
    BY <1>1, ViewportIs
  <2> QED
    BY <2>2, <2>3 DEF Baseline
<1>5. s.pc \in {"opening", "framing", "ending"}
  BY <1>1 DEF SendSnapshot, Snapshots
<1>6. \/ EndStream(l)
      \/ /\ LaneTakes(writer, l, Frame(viewport))
         /\ capture' = [capture EXCEPT ![l] = Resting]
         /\ \/ /\ s.pc = "opening"
               /\ Becomes(l, [s EXCEPT !.pc = "opened", !.baseline = b])
               /\ writer' = sent
            \/ /\ s.pc = "framing"
               /\ Becomes(l, [s EXCEPT !.pc = "streaming", !.baseline = b, !.dirty = no])
               /\ writer' = sent
            \/ /\ s.pc = "ending"
               /\ Becomes(l, [s EXCEPT !.pc = "leaving", !.pending = Nothing])
               /\ writer' = PushReliable(sent, exit)
  BY <1>1 DEF SendSnapshot, ExitMessage
<1>7. "overlap" \notin mishaps' => ~s.aborted \/ Lost(l)
  BY <1>1 DEF SendSnapshot
<1>8. CASE EndStream(l)
  BY <1>1, <1>2, <1>8, EndSound
<1>9. CASE ~EndStream(l)
  <2>1. LaneTakes(writer, l, Frame(viewport)) /\ ~Lost(l) /\ writer.render[l].open /\ ~writer.closed
    BY <1>6, <1>9 DEF LaneTakes, Lost
  <2>2. ~Sending(writer, l)
    <3>1. Stationed(writer, serving, s.pc, l)
      BY <1>1, <2>1, SoundParts DEF Flow
    <3> QED
      BY <1>5, <2>1, <3>1 DEF Stationed
  <2>3. "overlap" \notin mishaps' => ~s.aborted
    BY <1>7, <2>1
  <2>4. \A k \in Threads : capture'[k].pc = "captured" => capture'[k] = capture[k]
    BY <1>1, <1>6, <1>9 DEF Types, CaptureTypes, Resting
  <2>5. ~IsDelta(viewport) /\ IsUpdate(viewport, n)
    BY <1>4 DEF IsDelta, IsView, IsUpdate
  <2>6. s.pc \in Opened \cup {"opening"}
    BY <1>5 DEF Opened
  <2> HIDE DEF viewport, b, exit, no
  <2>7. ASSUME NEW t, Becomes(l, t), t.aborted = s.aborted, t.pc \in {"opened", "streaming"},
               t.baseline = b, t.pending = Nothing, t.events = s.events, writer' = sent
        PROVE  Sound'
    BY <1>1, <1>2, <1>4, <2>1, <2>2, <2>3, <2>4, <2>5, <2>6, <2>7, SendsSound
  <2>8. CASE s.pc = "opening"
    <3> DEFINE t == [s EXCEPT !.pc = "opened", !.baseline = b]
    <3>1. /\ t.pc = "opened" /\ t.aborted = s.aborted /\ t.baseline = b /\ t.events = s.events
          /\ t.pending = s.pending
      BY <1>3 DEF StreamStates
    <3>2. Becomes(l, t) /\ writer' = sent
      BY <1>6, <1>9, <2>8
    <3>3. s.pending = Nothing
      BY <1>3, <2>8 DEF StreamNumbers
    <3> HIDE DEF t, s, sent
    <3> QED
      BY <2>7, <3>1, <3>2, <3>3
  <2>9. CASE s.pc = "framing"
    <3> DEFINE t == [s EXCEPT !.pc = "streaming", !.baseline = b, !.dirty = no]
    <3>1. /\ t.pc = "streaming" /\ t.aborted = s.aborted /\ t.baseline = b /\ t.events = s.events
          /\ t.pending = s.pending
      BY <1>3 DEF StreamStates
    <3>2. Becomes(l, t) /\ writer' = sent
      BY <1>6, <1>9, <2>9
    <3>3. s.pending = Nothing
      BY <1>3, <2>9 DEF StreamNumbers
    <3> HIDE DEF t, s, sent
    <3> QED
      BY <2>7, <3>1, <3>2, <3>3
  <2>10. CASE s.pc = "ending"
    <3> DEFINE t == [s EXCEPT !.pc = "leaving", !.pending = Nothing]
    <3>1. /\ t.pc = "leaving" /\ t.aborted = s.aborted /\ t.baseline = s.baseline
          /\ t.events = s.events /\ t.pending = Nothing
      BY <1>3 DEF StreamStates
    <3>2. Becomes(l, t) /\ writer' = PushReliable(sent, exit)
      BY <1>6, <1>9, <2>10
    <3> HIDE DEF t
    <3>3. stream'[l] = t /\ \A k \in Lanes \ {l} : stream'[k] = stream[k]
      BY <1>1, <3>2 DEF Types, StreamTypes, Becomes
    <3>4. t.pc \notin Opened
      BY <3>1 DEF Opened
    <3>5. /\ Flow(sent, stream', serving, client.known, client.mirror.sequence, n, mishaps')
          /\ "overlap" \notin mishaps' => \A k \in Lanes : Sending(sent, k) => k = l
          /\ Sending(sent, l) /\ Good(sent, Messages) /\ ~sent.closed /\ Fleet(sent)
      <4>1. s.pc \in Opened
        BY <2>10 DEF Opened
      <4> QED
        BY <1>1, <1>2, <1>4, <2>1, <2>2, <2>3, <2>5, <2>6, <3>1, <3>3, <3>4, <4>1, SendFlow
    <3>6. exit \in Items(Messages) /\ Plain(exit) /\ exit.after_lane = l /\ ~Attaches(exit.msg)
      <4> DEFINE told == s.pending.sequence
      <4>1. told \in Nat /\ exit = [ExitMessage(told) EXCEPT !.after_lane = l]
        BY <1>3 DEF exit
      <4> HIDE DEF told
      <4> QED
        BY <4>1, ExitIs
    <3> HIDE DEF sent
    <3>7. Flow(writer', stream', serving, client.known, client.mirror.sequence, n, mishaps')
      <4>1. CASE writer'.closed
        <5>1. writer'.slot = "none"
          BY <3>2, <3>5, <4>1, ReliableSlot DEF Good
        <5>2. Alone(stream', serving)
          BY <3>5, AloneFlow
        <5> QED
          BY <4>1, <5>1, <5>2, FlowClosed
      <4>2. CASE ~writer'.closed
        <5>1. /\ Keeps(sent, writer') /\ Told(writer') = Told(sent) \cup {exit.msg}
              /\ Awaited(writer') = Awaited(sent) \cup {l}
          BY <3>2, <3>5, <3>6, <4>2, PushReliableKeeps
        <5> QED
          BY <3>1, <3>3, <3>5, <3>6, <5>1, FlowAwaits
      <4> QED
        BY <4>1, <4>2
    <3>8. StreamNumbers(t, n) /\ Continues(t)
      BY <1>3, <3>1, <3>4 DEF StreamNumbers, Continues
    <3> QED
      BY <1>1, <1>2, <2>1, <2>4, <3>2, <3>7, <3>8, StreamSound
  <2> QED
    BY <1>5, <2>8, <2>9, <2>10
<1> QED
  BY <1>8, <1>9

-----------------------------------------------------------------------------
(* Requests, and the streams they start.                                   *)

\* The streams, once the one that serves is aborted
Halted == [k \in Lanes |-> IF k = serving /\ stream[k].pc # "none"
                           THEN [stream[k] EXCEPT !.aborted = TRUE] ELSE stream[k]]

\* They are what they were, and none serves.
LEMMA HaltFlow ==
    ASSUME Types, Sound
    PROVE  /\ Flow(writer, Halted, NoLane, client.known, client.mirror.sequence, screen.sequence, mishaps)
           /\ \A k \in Lanes : /\ Halted[k].pc = stream[k].pc
                               /\ StreamNumbers(Halted[k], screen.sequence)
                               /\ Continues(stream[k]) => Continues(Halted[k])
<1>1. ASSUME NEW k \in Lanes
      PROVE  /\ Halted[k].pc = stream[k].pc /\ Halted[k].events = stream[k].events
             /\ Halted[k].baseline = stream[k].baseline /\ Halted[k].pending = stream[k].pending
             /\ stream[k].aborted => Halted[k].aborted
             /\ serving = k /\ stream[k].pc # "none" => Halted[k].aborted
  <2> DEFINE yes == TRUE
             s == stream[k]
             t == [s EXCEPT !.aborted = yes]
  <2>1. s \in StreamStates
    BY StreamHas
  <2>2. Halted[k] = IF k = serving /\ s.pc # "none" THEN t ELSE s
    BY DEF Halted
  <2>3. yes
    OBVIOUS
  <2> HIDE DEF yes, s
  <2>4. /\ t.pc = s.pc /\ t.events = s.events /\ t.baseline = s.baseline /\ t.pending = s.pending
        /\ t.aborted = yes
    BY <2>1 DEF StreamStates
  <2> HIDE DEF t
  <2>5. /\ Halted[k].pc = s.pc /\ Halted[k].events = s.events
        /\ Halted[k].baseline = s.baseline /\ Halted[k].pending = s.pending
        /\ s.aborted => Halted[k].aborted
        /\ serving = k /\ s.pc # "none" => Halted[k].aborted
    BY <2>2, <2>3, <2>4
  <2> QED
    BY <2>5 DEF s
<1>2. Flow(writer, Halted, NoLane, client.known, client.mirror.sequence, screen.sequence, mishaps)
  BY <1>1, SoundParts, FlowStops
<1>3. ASSUME NEW k \in Lanes
      PROVE  /\ StreamNumbers(Halted[k], screen.sequence)
             /\ Continues(stream[k]) => Continues(Halted[k])
  BY <1>1, StreamHas DEF StreamNumbers, Continues
<1> QED
  BY <1>1, <1>2, <1>3

\* The streams that a request stops and starts
LEMMA ReconciledSound ==
    ASSUME Types, Types', Sound, UNCHANGED <<screen, capture, client>>, mishaps \subseteq mishaps',
           ~writer.closed, request' = NoRequest \/ UNCHANGED request,
           \A k \in Lanes : \/ stream'[k] \in {stream[k], Halted[k]}
                            \/ stream'[k] = [NoStream EXCEPT !.pc = "starting"],
           Flow(writer', stream', serving', client.known, client.mirror.sequence, screen.sequence,
                mishaps')
    PROVE  Sound'
<1>1. ASSUME NEW k \in Lanes
      PROVE  /\ StreamNumbers(stream'[k], screen.sequence)
             /\ "older" \notin mishaps => Continues(stream'[k])
  <2>1. CASE stream'[k] = [NoStream EXCEPT !.pc = "starting"]
    BY <2>1, SoundParts, NoStreamSound
  <2>2. CASE stream'[k] \in {stream[k], Halted[k]}
    BY <2>2, HaltFlow, StreamHas
  <2> QED
    BY <2>1, <2>2
<1>2. Flows'
  BY DEF Flows
<1>3. request'.pc = "registered" => UNCHANGED request
  BY DEF NoRequest
<1>4. Acquainted'
  BY <1>3 DEF Acquainted, Sound
<1>5. Numbers'
  <2>1. CaptureNumbers'
    BY DEF Sound, Numbers, CaptureNumbers
  <2>2. RequestNumbers' /\ MirrorNumbers' /\ 1 <= screen'.sequence
    BY <1>3 DEF Sound, Numbers, RequestNumbers, MirrorNumbers
  <2> QED
    BY <1>1, <2>1, <2>2 DEF Numbers
<1>6. PendingFits'
  BY <1>1 DEF PendingFits
<1>7. NoGap'
  BY DEF Sound, NoGap
<1> QED
  BY <1>2, <1>4, <1>5, <1>6, <1>7 DEF Sound

\* A stream starts on a lane that is free.
LEMMA StartFlow ==
    ASSUME Types, NEW w, Good(w, Messages), ~w.closed, NEW known, NEW sequence, NEW n, NEW faults,
           Flow(w, Halted, NoLane, known, sequence, n, faults), NEW l \in Lanes, Start(l, w),
           ~w.render[l].open, w.lane # l, l \notin Awaited(w),
           "early" \notin faults => known \/ Introducing(w)
    PROVE  /\ Flow(writer', stream', serving', known, sequence, n, faults)
           /\ \A k \in Lanes : \/ stream'[k] = Halted[k]
                               \/ stream'[k] = [NoStream EXCEPT !.pc = "starting"]
<1>1. writer' = OpenLane(w, l) /\ serving' = l
  BY DEF Start
<1>2. /\ stream'[l] = [NoStream EXCEPT !.pc = "starting"]
      /\ \A k \in Lanes \ {l} : stream'[k] = Halted[k]
  <2> DEFINE starting == [NoStream EXCEPT !.pc = "starting"]
             aborted(k) == [stream[k] EXCEPT !.aborted = TRUE]
  <2>1. stream' = [k \in Lanes |-> IF k = l THEN starting
                                   ELSE IF k = serving /\ stream[k].pc # "none" THEN aborted(k)
                                   ELSE stream[k]]
    BY DEF Start
  <2>2. Halted = [k \in Lanes |-> IF k = serving /\ stream[k].pc # "none" THEN aborted(k) ELSE stream[k]]
    BY DEF Halted
  <2> HIDE DEF starting, aborted
  <2>3. stream'[l] = starting /\ \A k \in Lanes \ {l} : stream'[k] = Halted[k]
    BY <2>1, <2>2
  <2> QED
    BY <2>3 DEF starting
<1>3. stream'[l].pc = "starting"
  BY <1>2 DEF NoStream
<1>4. Flow(writer', stream', l, known, sequence, n, faults)
  <2> DEFINE streams == Halted
             others == stream'
             v == writer'
  <2>1. Flow(w, streams, NoLane, known, sequence, n, faults) /\ v = OpenLane(w, l)
    BY <1>1
  <2>2. \A k \in Lanes \ {l} : others[k].pc = streams[k].pc /\ others[k].aborted = streams[k].aborted
    BY <1>2
  <2>3. others[l].pc = "starting"
    BY <1>3
  <2> HIDE DEF streams, others, v
  <2>4. Flow(v, others, l, known, sequence, n, faults)
    BY <2>1, <2>2, <2>3, FlowStarts
  <2> QED
    BY <2>4 DEF v, others
<1> QED
  BY <1>1, <1>2, <1>4

\* A lane that is free is not awaited, and has nothing on its way.
LEMMA FreeLane ==
    ASSUME Types, Fleet(writer), NEW l \in Lanes, Free(l)
    PROVE  ~writer.render[l].open /\ ~Sending(writer, l) /\ writer.lane # l /\ l \notin Awaited(writer)
<1>1. ~writer.render[l].open /\ writer.lane # l /\ l \notin Awaited(writer)
  BY DEF Free, Awaited
<1>2. writer.render[l].items = <<>>
  BY <1>1 DEF Fleet, Loaded
<1> QED
  BY <1>1, <1>2 DEF Sending

\* The reconcile of another request comes first.
LEMMA ReconcileEarlySound == Types /\ Types' /\ Sound /\ ReconcileEarly => Sound'
<1>1. SUFFICES ASSUME Types, Types', Sound, ReconcileEarly PROVE Sound'
  OBVIOUS
<1>2. UNCHANGED <<screen, capture, client, request>> /\ mishaps \subseteq mishaps' /\ ~writer.closed
  BY <1>1 DEF ReconcileEarly, hostSide, terminalVars, Mishap
<1>3. "early" \notin mishaps' => client.known
  BY <1>1 DEF ReconcileEarly, Mishap
<1> DEFINE l == CHOOSE k \in Lanes : Free(k)
<1>4. l \in Lanes /\ Free(l) /\ Start(l, writer)
  BY <1>1 DEF ReconcileEarly, Reconcile
<1> HIDE DEF l
<1>5. Good(writer, Messages) /\ Fleet(writer)
  BY <1>1, <1>2, SoundParts DEF Flow
<1>6. Flow(writer, Halted, NoLane, client.known, client.mirror.sequence, screen.sequence, mishaps')
  BY <1>1, <1>2, SoundParts, HaltFlow, MoreMishaps
<1>7. ~writer.render[l].open /\ writer.lane # l /\ l \notin Awaited(writer)
  BY <1>1, <1>4, <1>5, FreeLane
<1>8. /\ Flow(writer', stream', serving', client.known, client.mirror.sequence, screen.sequence, mishaps')
      /\ \A k \in Lanes : \/ stream'[k] = Halted[k]
                          \/ stream'[k] = [NoStream EXCEPT !.pc = "starting"]
  BY <1>1, <1>2, <1>3, <1>4, <1>5, <1>6, <1>7, StartFlow
<1> QED
  BY <1>1, <1>2, <1>8, ReconciledSound

\* A response is an item that waits for nothing.
LEMMA ResponseIs ==
    ASSUME Types, NEW item, item = Item(Response(request), 1)
    PROVE  /\ item \in Items(Messages) /\ Plain(item) /\ item.after_lane = NoLane
           /\ item.msg.kind = "response" /\ item.msg.of = request.kind
           /\ item.msg.update = request.viewport
<1> DEFINE msg == Response(request)
           no == FALSE
<1>1. item \in Items(Messages)
  BY ResponseTyped DEF Types
<1>2. msg.kind = "response" /\ msg.of = request.kind /\ msg.update = request.viewport
  BY DEF Response
<1>3. item = [kind |-> "item", msg |-> msg, left |-> 1, bytes |-> 1, after_lane |-> NoLane,
              latest |-> no] /\ ~no
  BY DEF Item
<1> HIDE DEF msg, no
<1>4. item.msg = msg /\ item.after_lane = NoLane /\ item.latest = no
  BY <1>3
<1> QED
  BY <1>1, <1>2, <1>3, <1>4 DEF Plain

\* The response is queued: what it says is a view, and who is told to attach is acquainted.
LEMMA AnsweredFlow ==
    ASSUME Types, Sound, request.pc = "registered", ~writer.closed,
           NEW w, w = PushReliable(writer, Item(Response(request), 1)), ~w.closed
    PROVE  /\ Good(w, Messages)
           /\ Flow(w, Halted, NoLane, client.known, client.mirror.sequence, screen.sequence, mishaps)
           /\ request.kind \notin {"spawn", "attach"} =>
                 Flow(w, stream, serving, client.known, client.mirror.sequence, screen.sequence,
                      mishaps)
           /\ \A l \in Lanes : Free(l) => ~w.render[l].open /\ w.lane # l /\ l \notin Awaited(w)
           /\ "early" \notin mishaps => client.known \/ Introducing(w)
<1> DEFINE item == Item(Response(request), 1)
           known == client.known
           sequence == client.mirror.sequence
           n == screen.sequence
<1>1. /\ item \in Items(Messages) /\ Plain(item) /\ item.after_lane = NoLane
      /\ item.msg.kind = "response" /\ item.msg.of = request.kind
      /\ item.msg.update = request.viewport
  BY ResponseIs
<1>2. /\ Good(writer, Messages) /\ Fleet(writer)
      /\ Flow(writer, stream, serving, known, sequence, n, mishaps)
      /\ "early" \notin mishaps => Introduced(writer, known)
  BY SoundParts DEF Flow
<1>3. Flow(writer, Halted, NoLane, known, sequence, n, mishaps)
  BY HaltFlow
<1>4. w = PushReliable(writer, item)
  OBVIOUS
<1>5. Attaches(item.msg) => IsView(item.msg.update, n) /\ request.kind = "attach"
  BY <1>1 DEF Attaches, Sound, Numbers, RequestNumbers
<1>6. Introduces(item.msg) <=> request.kind \in {"spawn", "attach"}
  BY <1>1 DEF Introduces
<1>7. request.kind \notin {"spawn", "attach"} => known
  BY DEF Sound, Acquainted
<1> HIDE DEF item, known, sequence, n
<1>8. Good(w, Messages)
  BY <1>1, <1>2, <1>4, PushReliableGood DEF Sends
<1>9. /\ Keeps(writer, w) /\ Told(w) = Told(writer) \cup {item.msg}
      /\ Awaited(w) = Awaited(writer) \cup {NoLane}
      /\ writer.lane = NoLane /\ Introduces(item.msg)
         /\ (\A l \in Lanes : l \notin Awaited(writer)) => Introducing(w)
  BY <1>1, <1>2, <1>4, PushReliableKeeps
<1>10. \A l \in Lanes : l \in Awaited(w) => l \in Awaited(writer)
  BY <1>9, WriterAssumption
<1>11. Flow(w, Halted, NoLane, known, sequence, n, mishaps)
  <2>1. \A m \in Told(w) : \/ m \in Told(writer)
                           \/ Attaches(m) => IsView(m.update, n) /\ NoLane \notin Lanes
    BY <1>5, <1>9, WriterAssumption
  <2> QED
    BY <1>3, <1>9, <1>10, <2>1, FlowCarried
<1>12. request.kind \notin {"spawn", "attach"} => Flow(w, stream, serving, known, sequence, n, mishaps)
  <2>1. request.kind # "attach" =>
           \A m \in Told(w) : \/ m \in Told(writer)
                              \/ Attaches(m) => IsView(m.update, n) /\ serving \notin Lanes
    BY <1>5, <1>9
  <2>2. CASE request.kind \notin {"spawn", "attach"}
    BY <1>2, <1>9, <1>10, <2>1, <2>2, FlowCarried
  <2> QED
    BY <2>2
<1>13. ASSUME NEW l \in Lanes, Free(l)
       PROVE  ~w.render[l].open /\ w.lane # l /\ l \notin Awaited(w)
  <2>1. ~writer.render[l].open /\ ~Sending(writer, l) /\ l \notin Awaited(writer)
    BY <1>2, <1>13, FreeLane
  <2>2. ~w.render[l].open /\ ~Sending(w, l)
    BY <1>9, <2>1 DEF Keeps, SameFrames
  <2> QED
    BY <1>10, <2>1, <2>2 DEF Sending
<1>14. ASSUME "early" \notin mishaps PROVE known \/ Introducing(w)
  <2>1. CASE known
    BY <2>1
  <2>2. CASE Introducing(writer)
    BY <1>9, <2>2 DEF Keeps
  <2>3. CASE ~known /\ \A l \in Lanes : /\ ~Sending(writer, l) /\ ~writer.render[l].open
                                        /\ l \notin Awaited(writer)
    <3>1. writer.lane \in Lanes \cup {NoLane}
      BY <1>2, WriterParts DEF Good
    <3>2. writer.lane = NoLane
      BY <2>3, <3>1 DEF Sending
    <3> QED
      BY <1>6, <1>7, <1>9, <2>3, <3>2
  <2> QED
    BY <1>2, <1>14, <2>1, <2>2, <2>3 DEF Introduced
<1> QED
  BY <1>8, <1>11, <1>12, <1>13, <1>14 DEF known, sequence, n

\* A request is answered: its response, then its stream.
LEMMA AnswerSound == Types /\ Types' /\ Sound /\ Answer => Sound'
<1>1. SUFFICES ASSUME Types, Types', Sound, Answer PROVE Sound'
  OBVIOUS
<1> DEFINE w == PushReliable(writer, Item(Response(request), 1))
           restart == request.kind \in {"spawn", "attach"}
<1>2. /\ UNCHANGED <<screen, capture, client, mishaps, attachment>> /\ request' = NoRequest
      /\ request.pc = "registered" /\ ~writer.closed
      /\ w = PushReliable(writer, Item(Response(request), 1))
  BY <1>1 DEF Answer, hostSide, terminalVars
<1>3. \/ w.closed /\ writer' = w /\ UNCHANGED streamVars
      \/ ~w.closed /\ Reconcile(restart, w)
  BY <1>1 DEF Answer
<1> HIDE DEF w
<1>4. SUFFICES /\ \A k \in Lanes : \/ stream'[k] \in {stream[k], Halted[k]}
                                   \/ stream'[k] = [NoStream EXCEPT !.pc = "starting"]
               /\ Flow(writer', stream', serving', client.known, client.mirror.sequence,
                       screen.sequence, mishaps')
  BY <1>1, <1>2, ReconciledSound
<1>5. CASE w.closed /\ writer' = w /\ UNCHANGED streamVars
  <2>1. w.slot = "none"
    BY <1>1, <1>2, <1>5, SoundParts, ReliableSlot DEF Good
  <2>2. Alone(stream', serving') /\ UNCHANGED <<stream, serving>>
    BY <1>1, <1>5, SoundParts, AloneFlow DEF streamVars
  <2> QED
    BY <1>5, <2>1, <2>2, FlowClosed
<1>6. CASE ~w.closed /\ Reconcile(restart, w)
  <2>1. /\ Good(w, Messages)
        /\ Flow(w, Halted, NoLane, client.known, client.mirror.sequence, screen.sequence, mishaps)
        /\ ~restart =>
              Flow(w, stream, serving, client.known, client.mirror.sequence, screen.sequence,
                   mishaps)
        /\ \A l \in Lanes : Free(l) => ~w.render[l].open /\ w.lane # l /\ l \notin Awaited(w)
        /\ "early" \notin mishaps => client.known \/ Introducing(w)
    BY <1>1, <1>2, <1>6, AnsweredFlow
  <2>2. CASE Stop(w)
    <3>1. writer' = w /\ stream' = Halted /\ serving' = NoLane
      BY <2>2 DEF Stop, Halted
    <3> QED
      BY <1>2, <2>1, <3>1
  <2>3. ASSUME \E l \in Lanes : Free(l), Start(CHOOSE l \in Lanes : Free(l), w)
        PROVE  /\ \A k \in Lanes : \/ stream'[k] \in {stream[k], Halted[k]}
                                   \/ stream'[k] = [NoStream EXCEPT !.pc = "starting"]
               /\ Flow(writer', stream', serving', client.known, client.mirror.sequence,
                       screen.sequence, mishaps')
    <3> DEFINE l == CHOOSE k \in Lanes : Free(k)
    <3>1. l \in Lanes /\ Free(l) /\ Start(l, w)
      BY <2>3
    <3> HIDE DEF l
    <3>2. /\ Flow(writer', stream', serving', client.known, client.mirror.sequence,
                  screen.sequence, mishaps)
          /\ \A k \in Lanes : \/ stream'[k] = Halted[k]
                              \/ stream'[k] = [NoStream EXCEPT !.pc = "starting"]
      BY <1>1, <1>6, <2>1, <3>1, StartFlow
    <3> QED
      BY <1>2, <3>2
  <2>4. CASE ~restart /\ writer' = w /\ UNCHANGED streamVars
    <3>1. UNCHANGED <<stream, serving>>
      BY <2>4 DEF streamVars
    <3> QED
      BY <1>2, <2>1, <2>4, <3>1
  <2> QED
    BY <1>6, <2>2, <2>3, <2>4 DEF Reconcile
<1> QED
  BY <1>3, <1>5, <1>6

\* What closes the connection leaves nothing to write.
LEMMA OtherSlot ==
    ASSUME NEW s, NEW item, ~s.closed, s \in Writer(Messages),
           NEW t, t \in {PushInteractive(s, item), PushReliable(s, item), PushLatest(s, item)}, t.closed
    PROVE  t.slot = "none"
<1>1. ClosedWriter(s).slot = "none"
  BY DEF ClosedWriter, NewWriter
<1>2. CASE t = PushInteractive(s, item)
  <2> DEFINE more == Append(s.interactive, item)
  <2>1. t = [s EXCEPT !.interactive = more] \/ t = ClosedWriter(s)
    BY <1>2 DEF PushInteractive
  <2> HIDE DEF more
  <2>2. [s EXCEPT !.interactive = more].closed = s.closed
    BY DEF Writer
  <2> QED
    BY <1>1, <2>1, <2>2
<1>3. CASE t = PushReliable(s, item)
  BY <1>3, ReliableSlot
<1>4. CASE t = PushLatest(s, item)
  <2> DEFINE newer == [item EXCEPT !.latest = TRUE]
             i == CHOOSE i \in WaitingLatest(s) : TRUE
             items == ReplaceAt(s.reliable, i, newer)
             bytes == s.reliable_bytes - s.reliable[i].bytes + newer.bytes
  <2>1. \/ t = PushReliable(s, newer)
        \/ t = [s EXCEPT !.reliable = items, !.reliable_bytes = bytes]
        \/ t = ClosedWriter(s)
    BY <1>4 DEF PushLatest, ReplaceLatest
  <2> HIDE DEF newer, items, bytes
  <2>2. [s EXCEPT !.reliable = items, !.reliable_bytes = bytes].closed = s.closed
    BY DEF Writer
  <2> QED
    BY <1>1, <2>1, <2>2, ReliableSlot
<1> QED
  BY <1>2, <1>3, <1>4

\* Only the connection moves.
LEMMA WriterSound ==
    ASSUME Types, Types', Sound,
           UNCHANGED <<screen, capture, client, mishaps, request, stream, serving>>,
           Flow(writer', stream, serving, client.known, client.mirror.sequence, screen.sequence,
                mishaps),
           writer.closed => writer'.closed
    PROVE  Sound'
<1>1. Flows'
  BY DEF Flows
<1>2. Acquainted'
  BY DEF Sound, Acquainted
<1>3. Numbers' /\ PendingFits'
  <2>1. CaptureNumbers' /\ RequestNumbers' /\ MirrorNumbers'
    BY DEF Sound, Numbers, CaptureNumbers, RequestNumbers, MirrorNumbers
  <2> QED
    BY <2>1 DEF Sound, Numbers, PendingFits
<1>4. NoGap'
  BY DEF Sound, NoGap
<1> QED
  BY <1>1, <1>2, <1>3, <1>4 DEF Sound

\* Other messages are items that wait for nothing.
LEMMA OtherIs ==
    ASSUME NEW chunks \in {1, 2}
    PROVE  LET item == Item(OtherMessage, chunks) IN
           /\ item \in Items(Messages) /\ Plain(item) /\ item.after_lane = NoLane
           /\ item.msg = OtherMessage /\ OtherMessage.kind = "other" /\ ~Attaches(OtherMessage)
<1> DEFINE item == Item(OtherMessage, chunks)
           no == FALSE
<1>1. item \in Items(Messages)
  BY OtherTyped
<1>2. item = [kind |-> "item", msg |-> OtherMessage, left |-> chunks, bytes |-> chunks,
              after_lane |-> NoLane, latest |-> no] /\ ~no
  BY DEF Item
<1>3. OtherMessage.kind = "other"
  BY DEF OtherMessage
<1> HIDE DEF no
<1>4. item.msg = OtherMessage /\ item.after_lane = NoLane /\ item.latest = no
  BY <1>2
<1> QED
  BY <1>1, <1>2, <1>3, <1>4 DEF Plain, Attaches

\* Other messages are sent.
LEMMA SendOtherSound == Types /\ Types' /\ Sound /\ SendOther => Sound'
<1>1. SUFFICES ASSUME Types, Types', Sound, SendOther PROVE Sound'
  OBVIOUS
<1>2. UNCHANGED <<screen, capture, client, mishaps, request, stream, serving>>
  BY <1>1 DEF SendOther, hostSide, terminalVars, streamVars
<1> DEFINE known == client.known
           sequence == client.mirror.sequence
           n == screen.sequence
<1>3. Good(writer, Messages) /\ Flow(writer, stream, serving, known, sequence, n, mishaps)
  BY <1>1, SoundParts
<1>4. PICK chunks \in {1, 2} : writer' \in {PushInteractive(writer, Item(OtherMessage, chunks)),
                                            PushReliable(writer, Item(OtherMessage, chunks)),
                                            PushLatest(writer, Item(OtherMessage, chunks))}
  BY <1>1 DEF SendOther, OtherMessage
<1> DEFINE item == Item(OtherMessage, chunks)
<1>5. /\ item \in Items(Messages) /\ Plain(item) /\ item.after_lane = NoLane
      /\ item.msg = OtherMessage /\ item.msg.kind = "other" /\ ~Attaches(item.msg)
  BY OtherIs
<1>6. writer' \in {PushInteractive(writer, item), PushReliable(writer, item), PushLatest(writer, item)}
  BY <1>4
<1> HIDE DEF item, known, sequence, n
<1>7. CASE writer.closed
  <2>1. writer' = writer
    BY <1>6, <1>7 DEF PushInteractive, PushReliable, PushLatest
  <2> QED
    BY <1>1, <1>2, <1>3, <2>1, WriterSound DEF known, sequence, n
<1>8. CASE ~writer.closed /\ writer'.closed
  <2>1. writer'.slot = "none"
    BY <1>3, <1>6, <1>8, OtherSlot DEF Good
  <2>2. Flow(writer', stream, serving, known, sequence, n, mishaps)
    BY <1>3, <1>8, <2>1, AloneFlow, FlowClosed
  <2> QED
    BY <1>1, <1>2, <1>8, <2>2, WriterSound DEF known, sequence, n
<1>9. CASE ~writer.closed /\ ~writer'.closed
  <2>1. Fleet(writer)
    BY <1>3, <1>9 DEF Flow
  <2>2. /\ Keeps(writer, writer') /\ Told(writer') \subseteq Told(writer) \cup {item.msg}
        /\ Awaited(writer') \subseteq Awaited(writer) \cup {NoLane}
    BY <1>3, <1>5, <1>6, <1>9, <2>1, PushInteractiveKeeps, PushReliableKeeps, PushLatestKeeps
  <2>3. /\ \A l \in Lanes : l \in Awaited(writer') => l \in Awaited(writer)
        /\ \A m \in Told(writer') : \/ m \in Told(writer)
                                    \/ Attaches(m) => IsView(m.update, n) /\ serving \notin Lanes
    BY <1>5, <2>2, WriterAssumption
  <2>4. Flow(writer', stream, serving, known, sequence, n, mishaps)
    BY <1>3, <1>9, <2>2, <2>3, FlowCarried
  <2> QED
    BY <1>1, <1>2, <1>9, <2>4, WriterSound DEF known, sequence, n
<1> QED
  BY <1>7, <1>8, <1>9

\* A frame is taken; the connection is lost.
LEMMA WriterTaskSound == Types /\ Types' /\ Sound /\ (LoseConnection \/ Take) => Sound'
<1>1. SUFFICES ASSUME Types, Types', Sound, LoseConnection \/ Take PROVE Sound'
  OBVIOUS
<1>2. UNCHANGED <<screen, capture, client, mishaps, request, stream, serving>> /\ ~writer.closed
  BY <1>1 DEF LoseConnection, Take, TakeFrame, CloseWriter, hostSide, terminalVars, streamVars
<1> DEFINE known == client.known
           sequence == client.mirror.sequence
           n == screen.sequence
<1>3. Good(writer, Messages) /\ Flow(writer, stream, serving, known, sequence, n, mishaps)
  BY <1>1, SoundParts
<1> SUFFICES Flow(writer', stream, serving, known, sequence, n, mishaps)
  BY <1>1, <1>2, WriterSound
<1> HIDE DEF known, sequence, n
<1>4. CASE LoseConnection
  <2>1. writer' = ClosedWriter(writer)
    BY <1>4 DEF LoseConnection, CloseWriter
  <2>2. writer'.closed /\ writer'.slot = "none"
    BY <2>1 DEF ClosedWriter, NewWriter
  <2> QED
    BY <1>3, <2>2, AloneFlow, FlowClosed
<1>5. CASE Take
  <2>1. writer' = Select(writer) /\ writer.slot = "none" /\ Fleet(writer)
    BY <1>2, <1>3, <1>5 DEF Take, TakeFrame, Flow
  <2>2. Carries(writer, writer')
    BY <1>2, <1>3, <2>1, SelectKeeps
  <2>3. /\ Keeps(writer, writer')
        /\ \A l \in Lanes : l \in Awaited(writer') => l \in Awaited(writer)
        /\ \A m \in Told(writer') : \/ m \in Told(writer)
                                    \/ Attaches(m) => IsView(m.update, n) /\ serving \notin Lanes
    BY <2>2 DEF Carries
  <2> QED
    BY <1>2, <1>3, <2>3, FlowCarried
<1> QED
  BY <1>1, <1>4, <1>5

\* Clients
Clients == [connected : BOOLEAN, known : BOOLEAN, attached : BOOLEAN, mirror : Updates,
            told : Nat, gap : BOOLEAN]
Mirrors(mirror, n) == mirror = Nothing \/ IsView(mirror, n)

\* Marks differ from views, and no update has no number.
LEMMA MarksAre ==
    /\ Nothing.base = -1 /\ Nothing.sequence = 0 /\ Gap.base = -3
    /\ \A u, n : IsView(u, n) => u # Nothing /\ u # Gap
BY DEF Nothing, Gap, Mark, IsView

\* What an update makes of the mirror: a view again, and no gap if the update is based on it.
LEMMA AppliedIs ==
    ASSUME NEW n \in Nat, NEW mirror \in Updates, Mirrors(mirror, n),
           NEW u \in Updates, IsUpdate(u, n),
           NEW applied, applied = IF mirror # Nothing THEN Apply(mirror, u)
                                  ELSE IF IsSnapshot(u) THEN u ELSE Gap
    PROVE  /\ applied = Gap \/ IsView(applied, n)
           /\ (IsDelta(u) => u.base = mirror.sequence) =>
                 /\ applied # Gap
                 /\ applied.sequence = IF u.sequence > mirror.sequence THEN u.sequence
                                       ELSE mirror.sequence
<1>1. u.sequence \in Nat /\ mirror.sequence \in Nat /\ u.base \in Int
  BY UpdateParts
<1>2. (IsView(u, n) /\ IsSnapshot(u)) \/ (IsDelta(u) /\ ~IsSnapshot(u) /\ u.sequence <= n)
  BY <1>1 DEF IsUpdate, IsView, IsSnapshot, IsDelta
<1>3. CASE mirror = Nothing
  <2>1. mirror.sequence = 0
    BY <1>3, MarksAre
  <2>2. CASE IsSnapshot(u)
    <3>1. applied = u /\ IsView(u, n) /\ ~IsDelta(u)
      BY <1>2, <1>3, <2>2 DEF IsSnapshot, IsDelta
    <3>2. applied # Gap /\ u.sequence > 0
      BY <3>1, <1>1, MarksAre DEF IsView
    <3> QED
      BY <1>1, <2>1, <3>1, <3>2
  <2>3. CASE ~IsSnapshot(u)
    <3>1. applied = Gap /\ IsDelta(u) /\ u.base # mirror.sequence
      BY <1>1, <1>2, <1>3, <2>1, <2>3 DEF IsDelta
    <3> QED
      BY <3>1
  <2> QED
    BY <2>2, <2>3
<1>4. CASE mirror # Nothing
  <2> DEFINE meta == IF u.meta = Same THEN mirror.meta ELSE u.meta
             rows == IF u.rows = Same THEN mirror.rows
                     ELSE IF mirror.rows = u.base THEN u.rows ELSE Garbled
             new == [mirror EXCEPT !.sequence = u.sequence, !.meta = meta, !.rows = rows]
  <2>1. applied = IF IsSnapshot(u) THEN IF u.sequence < mirror.sequence THEN mirror ELSE u
                  ELSE IF u.sequence <= mirror.sequence THEN mirror
                  ELSE IF u.base # mirror.sequence THEN Gap ELSE new
    BY <1>4 DEF Apply
  <2> HIDE DEF meta, rows
  <2>2. new.sequence = u.sequence /\ new.base = mirror.base
    BY DEF Updates
  <2> HIDE DEF new
  <2>3. IsView(mirror, n)
    BY <1>4 DEF Mirrors
  <2>4. u.sequence <= n /\ (u.sequence > mirror.sequence => IsView(new, n))
    BY <1>1, <1>2, <2>2, <2>3 DEF IsView
  <2>5. applied = Gap \/ IsView(applied, n)
    BY <1>1, <1>2, <2>1, <2>3, <2>4
  <2>6. ASSUME IsDelta(u) => u.base = mirror.sequence
        PROVE  /\ applied \in {mirror, u, new} /\ IsView(applied, n)
               /\ applied.sequence = IF u.sequence > mirror.sequence THEN u.sequence
                                     ELSE mirror.sequence
    BY <1>1, <1>2, <2>1, <2>2, <2>3, <2>4, <2>6
  <2> QED
    BY <2>5, <2>6, MarksAre
<1> QED
  BY <1>3, <1>4

\* What a Client makes of a frame
LEMMA FrameApplied ==
    ASSUME NEW n \in Nat, NEW c \in Clients, Mirrors(c.mirror, n), NEW u \in Updates,
           IsUpdate(u, n), NEW d, d = AfterUpdateFrame(c, u)
    PROVE  /\ d.connected = c.connected /\ d.known = c.known /\ d.attached = c.attached
           /\ Mirrors(d.mirror, n)
           /\ c.known /\ (IsDelta(u) => u.base = c.mirror.sequence) =>
                 /\ d.gap = c.gap
                 /\ d.mirror.sequence = IF u.sequence > c.mirror.sequence THEN u.sequence
                                        ELSE c.mirror.sequence
<1> DEFINE applied == IF c.mirror # Nothing THEN Apply(c.mirror, u)
                      ELSE IF IsSnapshot(u) THEN u ELSE Gap
           yes == TRUE
           gone == [c EXCEPT !.gap = yes]
           new == [c EXCEPT !.mirror = applied]
<1>1. c.mirror \in Updates
  BY DEF Clients
<1>2. /\ applied = Gap \/ IsView(applied, n)
      /\ (IsDelta(u) => u.base = c.mirror.sequence) =>
            /\ applied # Gap
            /\ applied.sequence = IF u.sequence > c.mirror.sequence THEN u.sequence
                                  ELSE c.mirror.sequence
  BY <1>1, AppliedIs
<1>3. d = IF ~c.known /\ c.mirror = Nothing THEN c ELSE IF applied = Gap THEN gone ELSE new
  BY DEF AfterUpdateFrame
<1> HIDE DEF applied, yes
<1>4. /\ gone.connected = c.connected /\ gone.known = c.known /\ gone.attached = c.attached
      /\ gone.mirror = c.mirror
      /\ new.connected = c.connected /\ new.known = c.known /\ new.attached = c.attached
      /\ new.mirror = applied /\ new.gap = c.gap
  BY DEF Clients
<1> HIDE DEF gone, new
<1>5. Mirrors(d.mirror, n)
  BY <1>2, <1>3, <1>4 DEF Mirrors
<1> QED
  BY <1>2, <1>3, <1>4, <1>5

\* What a Client makes of a message
LEMMA MessageApplied ==
    ASSUME NEW n \in Nat, NEW c \in Clients, Mirrors(c.mirror, n), NEW m \in Messages,
           m.kind # "frame", Attaches(m) => IsView(m.update, n),
           c.attached => c.known, NEW d, d = AfterFrames(c, [msg |-> m, last |-> TRUE])
    PROVE  /\ d.connected = c.connected /\ d.gap = c.gap /\ (d.attached => d.known)
           /\ c.known \/ Introduces(m) => d.known
           /\ Mirrors(d.mirror, n)
           /\ \/ d.mirror.sequence = c.mirror.sequence
              \/ /\ c.mirror.sequence = 0 /\ Attaches(m)
                 /\ d.mirror.sequence = m.update.sequence
<1> DEFINE yes == TRUE
           no == FALSE
           mirror == IF c.mirror = Nothing THEN m.update ELSE c.mirror
           spawned == [c EXCEPT !.known = yes, !.attached = yes]
           attached == [c EXCEPT !.known = yes, !.attached = yes, !.mirror = mirror]
           detached == [c EXCEPT !.attached = no]
           told == [c EXCEPT !.told = m.update.sequence]
<1>1. yes = TRUE /\ no = FALSE /\ m.kind \in {"response", "exit", "other"}
  BY DEF Messages
<1>2. /\ Attaches(m) => d = attached
      /\ Introduces(m) /\ ~Attaches(m) => d = spawned
      /\ ~Introduces(m) => d \in {c, detached, told}
  BY <1>1 DEF AfterFrames, AfterResponse, Attaches, Introduces
<1>3. Attaches(m) => Introduces(m)
  BY DEF Attaches, Introduces
<1>4. Attaches(m) => /\ Mirrors(mirror, n)
                     /\ \/ mirror.sequence = c.mirror.sequence
                        \/ c.mirror.sequence = 0 /\ mirror.sequence = m.update.sequence
  BY MarksAre DEF Mirrors
<1> HIDE DEF yes, no, mirror
<1>5. /\ spawned.connected = c.connected /\ spawned.gap = c.gap /\ spawned.known = yes
      /\ spawned.mirror = c.mirror
      /\ attached.connected = c.connected /\ attached.gap = c.gap /\ attached.known = yes
      /\ attached.mirror = mirror
  BY DEF Clients
<1>6. /\ detached.connected = c.connected /\ detached.gap = c.gap /\ detached.known = c.known
      /\ detached.mirror = c.mirror /\ detached.attached = no
      /\ told.connected = c.connected /\ told.gap = c.gap /\ told.known = c.known
      /\ told.mirror = c.mirror /\ told.attached = c.attached
  BY DEF Clients
<1> HIDE DEF spawned, attached, detached, told
<1>7. CASE Attaches(m)
  BY <1>1, <1>2, <1>3, <1>4, <1>5, <1>7
<1>8. CASE Introduces(m) /\ ~Attaches(m)
  BY <1>1, <1>2, <1>5, <1>8
<1>9. CASE ~Introduces(m)
  BY <1>1, <1>2, <1>3, <1>6, <1>9
<1> QED
  BY <1>3, <1>7, <1>8, <1>9

\* A frame is written, and the Client has what it ends.
LEMMA DeliverSound == Types /\ Types' /\ Sound /\ Deliver => Sound'
<1>1. SUFFICES ASSUME Types, Types', Sound, Deliver PROVE Sound'
  OBVIOUS
<1>2. /\ UNCHANGED <<screen, capture, mishaps, request, stream, serving>>
      /\ writer.slot # "none" /\ writer' = Finish(writer) /\ client' = AfterFrames(client, Written)
      /\ ~client.gap
  BY <1>1 DEF Deliver, WriteFrame, hostSide, terminalVars, streamVars
<1> DEFINE n == screen.sequence
           sequence == client.mirror.sequence
           w == writer
           m == Written.msg
<1>3. /\ Good(w, Messages) /\ n \in Nat /\ sequence \in Nat /\ Based(stream)
      /\ Flow(w, stream, serving, client.known, sequence, n, mishaps)
  BY <1>1, SoundParts
<1>4. ~w.closed /\ Fleet(w) /\ WriterNumbers(w, n)
      /\ ("early" \notin mishaps => Introduced(w, client.known))
      /\ (Faultless(mishaps) => \A l \in Lanes : Agrees(w, stream[l], serving, sequence, l))
  BY <1>2, <1>3 DEF Flow
<1>5. /\ client \in Clients /\ Mirrors(client.mirror, n) /\ (client.attached => client.known)
      /\ m \in Messages /\ Written.last \in BOOLEAN
      /\ ~client.connected => w.closed /\ serving = NoLane
  BY <1>1, <1>2, WrittenTyped
     DEF Types, ClientTypes, Clients, Sound, Numbers, MirrorNumbers, Mirrors, Acquainted
<1>6. Written = [msg |-> m, last |-> Written.last]
  BY DEF Written
<1>7. SUFFICES /\ client'.connected = client.connected /\ (client'.attached => client'.known)
               /\ client.known => client'.known
               /\ Mirrors(client'.mirror, n)
               /\ client'.gap => mishaps \cap {"early", "overlap", "older"} # {}
               /\ Flow(writer', stream, serving, client'.known, client'.mirror.sequence, n, mishaps)
  <2>1. Flows'
    BY <1>2, <1>7 DEF Flows
  <2>2. Acquainted'
    BY <1>1, <1>2, <1>4, <1>5, <1>7 DEF Acquainted, Sound
  <2>3. Numbers' /\ PendingFits'
    <3>1. CaptureNumbers' /\ RequestNumbers' /\ MirrorNumbers'
      BY <1>1, <1>2, <1>7 DEF Sound, Numbers, CaptureNumbers, RequestNumbers, MirrorNumbers, Mirrors
    <3> QED
      BY <1>1, <1>2, <3>1 DEF Sound, Numbers, PendingFits
  <2>4. NoGap'
    BY <1>2, <1>7 DEF NoGap
  <2> QED
    BY <2>1, <2>2, <2>3, <2>4 DEF Sound
<1>8. w.slot \in {"interactive", "current"} /\ Taken(w).left \in Nat /\ w.lane \in Lanes \cup {NoLane}
  BY <1>2, <1>3, TakenParts, WriterParts DEF Good
<1>9. CASE w.slot = "interactive" \/ w.current.left # 0
  <2>1. /\ Keeps(w, writer') /\ Told(writer') = Told(w) /\ Awaited(writer') = Awaited(w)
        /\ w.slot = "interactive" => w.current_interactive.msg.kind = "other"
    BY <1>2, <1>3, <1>4, <1>8, <1>9, FinishKeeps
  <2>2. ~Written.last \/ m.kind = "other"
    BY <1>8, <1>9, <2>1 DEF Written
  <2>3. client' = client
    BY <1>2, <2>2 DEF AfterFrames
  <2>4. Flow(writer', stream, serving, client.known, sequence, n, mishaps)
    BY <1>3, <1>4, <2>1, FlowCarried
  <2> QED
    BY <1>2, <1>5, <2>3, <2>4
<1>10. CASE w.slot = "current" /\ w.current.left = 0
  <2>1. m = w.current.msg /\ Written.last = TRUE
    BY <1>10 DEF Written
  <2>2. client' = AfterFrames(client, [msg |-> m, last |-> TRUE])
    BY <1>2, <1>6, <2>1
  <2>3. CASE w.lane = NoLane
    <3>1. m \in Told(w) /\ m.kind # "frame"
      BY <1>2, <1>3, <1>4, <1>10, <2>1, <2>3, FinishMessage
    <3>2. Attaches(m) => IsView(m.update, n)
      BY <1>4, <3>1 DEF WriterNumbers
    <3> HIDE DEF m, n
    <3>3. /\ client'.connected = client.connected /\ client'.gap = client.gap
          /\ (client'.attached => client'.known)
          /\ client.known \/ Introduces(m) => client'.known
          /\ Mirrors(client'.mirror, n)
          /\ \/ client'.mirror.sequence = client.mirror.sequence
             \/ /\ client.mirror.sequence = 0 /\ Attaches(m)
                /\ client'.mirror.sequence = m.update.sequence
      BY <1>3, <1>5, <2>2, <3>1, <3>2, MessageApplied
    <3>4. Flow(writer', stream, serving, client'.known, client'.mirror.sequence, n, mishaps)
      BY <1>2, <1>3, <1>4, <1>10, <2>1, <2>3, <3>3, FlowTells
    <3> QED
      BY <1>2, <3>3, <3>4
  <2>4. CASE w.lane \in Lanes
    <3> DEFINE u == m.update
    <3>1. /\ Sending(w, w.lane) /\ Sent(w, w.lane) = u /\ m.kind = "frame" /\ ~Introducing(w)
      BY <1>2, <1>3, <1>4, <1>10, <2>1, <2>4, FinishFrame
    <3>2. u \in Updates /\ IsUpdate(u, n)
      BY <1>3, <1>4, <2>4, <3>1, OnTheWay DEF WriterNumbers
    <3>3. client' = AfterUpdateFrame(client, u)
      BY <2>2, <3>1 DEF AfterFrames
    <3>4. Faultless(mishaps) => client.known /\ (IsDelta(u) => u.base = sequence)
      BY <1>4, <2>4, <3>1 DEF Faultless, Introduced, Agrees
    <3> HIDE DEF u, n
    <3>5. /\ client'.connected = client.connected /\ client'.known = client.known
          /\ client'.attached = client.attached /\ Mirrors(client'.mirror, n)
          /\ client.known /\ (IsDelta(u) => u.base = sequence) =>
                 /\ client'.gap = client.gap
                 /\ client'.mirror.sequence = IF u.sequence > sequence THEN u.sequence ELSE sequence
      BY <1>3, <1>5, <3>2, <3>3, FrameApplied
    <3>6. Flow(writer', stream, serving, client.known, client'.mirror.sequence, n, mishaps)
      <4>1. u = w.current.msg.update
        BY <2>1 DEF u
      <4>2. Faultless(mishaps) => client'.mirror.sequence = IF u.sequence > sequence
                                                           THEN u.sequence ELSE sequence
        BY <3>4, <3>5
      <4> QED
        BY <1>2, <1>3, <1>4, <1>10, <2>4, <4>1, <4>2, FlowDelivers
    <3>7. client'.gap => mishaps \cap {"early", "overlap", "older"} # {}
      BY <1>2, <3>4, <3>5 DEF Faultless
    <3> QED
      BY <1>5, <3>5, <3>6, <3>7
  <2> QED
    BY <1>8, <2>3, <2>4
<1> QED
  BY <1>8, <1>9, <1>10

-----------------------------------------------------------------------------
(* The end of the connection, the next one, and the beginning.             *)

\* A new writer has nothing on its way.
LEMMA NewFlow ==
    ASSUME NEW streams, Alone(streams, NoLane), NEW known, NEW sequence, NEW n, NEW faults
    PROVE  /\ Flow(NewWriter, streams, NoLane, known, sequence, n, faults)
           /\ Fleet(NewWriter) /\ Told(NewWriter) = {} /\ Awaited(NewWriter) = {}
           /\ \A l \in Lanes : ~Sending(NewWriter, l) /\ ~NewWriter.render[l].open
<1> DEFINE w == NewWriter
<1>1. /\ w.closed = FALSE /\ w.lane = NoLane /\ w.current = NoItem /\ w.reliable = <<>>
      /\ w.interactive = <<>> /\ w.current_interactive = NoItem
      /\ \A l \in Lanes : w.render[l].open = FALSE /\ w.render[l].items = <<>>
      /\ DOMAIN <<>> = {}
  BY EmptySeq DEF NewWriter, NoQueue
<1> HIDE DEF w
<1>2. Fleet(w)
  BY <1>1 DEF Fleet, Loaded
<1>3. Told(w) = {} /\ Awaited(w) = {}
  BY <1>1 DEF Told, Current, Awaited
<1>4. \A l \in Lanes : ~Sending(w, l) /\ ~w.render[l].open
  BY <1>1, WriterAssumption DEF Sending
<1>5. Flow(w, streams, NoLane, known, sequence, n, faults)
  <2>1. \A l \in Lanes : Stationed(w, NoLane, streams[l].pc, l)
    BY <1>3, <1>4, WriterAssumption DEF Stationed
  <2>2. WriterNumbers(w, n) /\ Ordered(w, streams, NoLane) /\ Introduced(w, known)
    BY <1>3, <1>4, WriterAssumption DEF WriterNumbers, Ordered, Introduced
  <2>3. \A l \in Lanes : Agrees(w, streams[l], NoLane, sequence, l)
    BY <1>4, WriterAssumption DEF Agrees
  <2> QED
    BY <1>1, <1>2, <2>1, <2>2, <2>3 DEF Flow
<1> QED
  BY <1>2, <1>3, <1>4, <1>5 DEF w

\* The connection changes, and not what the Client knows.
LEMMA ConnectionSound ==
    ASSUME Types, Types', Sound, UNCHANGED <<screen, capture, mishaps>>,
           client'.known = client.known, client'.attached = client.attached,
           client'.mirror = client.mirror, client'.gap => client.gap,
           Flow(writer', stream', serving', client.known, client.mirror.sequence, screen.sequence,
                mishaps),
           \A l \in Lanes : /\ StreamNumbers(stream'[l], screen.sequence)
                            /\ Continues(stream[l]) => Continues(stream'[l]),
           ~client'.connected => writer'.closed /\ serving' = NoLane,
           request'.pc = "registered" =>
              UNCHANGED request \/ (request'.kind = "subscribe" /\ client.known)
    PROVE  Sound'
<1>1. Flows'
  BY DEF Flows
<1>2. Acquainted'
  BY DEF Sound, Acquainted
<1>3. Numbers' /\ PendingFits'
  <2>1. CaptureNumbers' /\ RequestNumbers' /\ MirrorNumbers'
    BY DEF Sound, Numbers, CaptureNumbers, RequestNumbers, MirrorNumbers
  <2> QED
    BY <2>1 DEF Sound, Numbers, PendingFits
<1>4. NoGap'
  BY DEF Sound, NoGap
<1> QED
  BY <1>1, <1>2, <1>3, <1>4 DEF Sound

\* The connection ends.
LEMMA DisconnectSound == Types /\ Types' /\ Sound /\ Disconnect => Sound'
<1>1. SUFFICES ASSUME Types, Types', Sound, Disconnect PROVE Sound'
  OBVIOUS
<1>2. /\ UNCHANGED <<screen, capture, mishaps>> /\ serving' = NoLane /\ request' = NoRequest
      /\ writer' = ClosedWriter(writer)
  BY <1>1 DEF Disconnect, hostSide, terminalVars
<1>3. /\ client'.known = client.known /\ client'.attached = client.attached
      /\ client'.mirror = client.mirror /\ client'.gap = client.gap
  BY <1>1 DEF Disconnect, Types, ClientTypes
<1>4. writer'.closed /\ writer'.slot = "none"
  BY <1>2 DEF ClosedWriter, NewWriter
<1>5. ASSUME NEW l \in Lanes
      PROVE  /\ stream'[l].pc = stream[l].pc /\ stream'[l].events = stream[l].events
             /\ stream'[l].baseline = stream[l].baseline /\ stream'[l].pending = stream[l].pending
             /\ stream'[l].pc # "none" => stream'[l].aborted
  <2> DEFINE yes == TRUE
             s == stream[l]
             t == [s EXCEPT !.changed = yes, !.detached = yes, !.aborted = yes]
  <2>1. s \in StreamStates /\ yes
    BY <1>1, StreamHas
  <2>2. stream'[l] = IF s.pc = "none" THEN s ELSE t
    BY <1>1 DEF Disconnect
  <2> HIDE DEF yes, s
  <2>3. /\ t.pc = s.pc /\ t.events = s.events /\ t.baseline = s.baseline /\ t.pending = s.pending
        /\ t.aborted = yes
    BY <2>1 DEF StreamStates
  <2> HIDE DEF t
  <2>4. /\ stream'[l].pc = s.pc /\ stream'[l].events = s.events
        /\ stream'[l].baseline = s.baseline /\ stream'[l].pending = s.pending
        /\ stream'[l].pc # "none" => stream'[l].aborted
    BY <2>1, <2>2, <2>3
  <2> QED
    BY <2>4 DEF s
<1>6. Flow(writer', stream', serving', client.known, client.mirror.sequence, screen.sequence, mishaps)
  <2>1. Alone(stream', serving')
    BY <1>5 DEF Alone
  <2> QED
    BY <1>4, <2>1, FlowClosed
<1>7. \A l \in Lanes : /\ StreamNumbers(stream'[l], screen.sequence)
                       /\ Continues(stream[l]) => Continues(stream'[l])
  BY <1>1, <1>5, StreamHas DEF StreamNumbers, Continues
<1>8. request'.pc # "registered"
  BY <1>2 DEF NoRequest
<1> QED
  BY <1>1, <1>2, <1>3, <1>4, <1>6, <1>7, <1>8, ConnectionSound

\* The Client connects again.
LEMMA ReconnectSound == Types /\ Types' /\ Sound /\ Reconnect => Sound'
<1>1. SUFFICES ASSUME Types, Types', Sound, Reconnect PROVE Sound'
  OBVIOUS
<1>2. /\ UNCHANGED <<screen, capture, mishaps, serving>> /\ writer' = NewWriter
      /\ ~client.connected
  BY <1>1 DEF Reconnect, hostSide, terminalVars
<1>3. /\ client'.known = client.known /\ client'.attached = client.attached
      /\ client'.mirror = client.mirror /\ client'.gap = FALSE /\ client'.connected = TRUE
  <2> DEFINE yes == TRUE
             no == FALSE
             t == [client EXCEPT !.connected = yes, !.gap = no]
  <2>1. client' = t /\ yes = TRUE /\ no = FALSE
    BY <1>1 DEF Reconnect
  <2> HIDE DEF yes, no
  <2>2. /\ t.known = client.known /\ t.attached = client.attached
        /\ t.mirror = client.mirror /\ t.gap = no /\ t.connected = yes
    BY <1>1 DEF Types, ClientTypes
  <2> HIDE DEF t
  <2> QED
    BY <2>1, <2>2
<1>4. serving = NoLane /\ (client.attached => client.known)
  BY <1>1, <1>2 DEF Sound, Acquainted
<1>5. \/ client.attached /\ Register("subscribe", Nothing)
      \/ UNCHANGED <<stream, request>>
  BY <1>1 DEF Reconnect
<1>6. \A l \in Lanes : Undisturbed(stream[l], stream'[l], screen'.sequence)
  <2>1. CASE client.attached /\ Register("subscribe", Nothing)
    BY <1>1, <1>2, <2>1, AttachmentUndisturbs DEF Register
  <2>2. CASE UNCHANGED <<stream, request>>
    BY <1>1, <1>2, <2>2, SoundParts, StillUndisturbed
  <2> QED
    BY <1>5, <2>1, <2>2
<1>7. request'.pc = "registered" => UNCHANGED request \/ (request'.kind = "subscribe" /\ client.known)
  BY <1>4, <1>5 DEF Register
<1>8. \A l \in Lanes : /\ StreamNumbers(stream'[l], screen.sequence)
                       /\ Continues(stream[l]) => Continues(stream'[l])
  BY <1>1, <1>2, <1>6, StreamHas DEF StreamNumbers, Continues, Undisturbed
<1>9. Flow(writer', stream', serving', client.known, client.mirror.sequence, screen.sequence, mishaps)
  <2>1. Alone(stream, serving)
    BY <1>1, SoundParts, AloneFlow
  <2>2. Alone(stream', NoLane)
    BY <1>4, <1>6, <2>1 DEF Alone, Undisturbed
  <2> QED
    BY <1>2, <1>4, <2>2, NewFlow
<1> QED
  BY <1>1, <1>2, <1>3, <1>7, <1>8, <1>9, ConnectionSound

\* The stream of a Client that is attached has sent what the mirror holds.
LEMMA OpeningFlow ==
    ASSUME NEW l \in Lanes, NEW w, w = OpenLane(NewWriter, l),
           NEW streams, streams[l].pc = "streaming", streams[l].baseline.sequence = 1,
           \A k \in Lanes \ {l} : streams[k].pc = "none", NEW faults
    PROVE  Flow(w, streams, l, TRUE, 1, 1, faults)
<1> DEFINE others == [k \in Lanes |-> NoStream]
<1>1. Alone(others, NoLane)
  BY DEF Alone, NoStream
<1> HIDE DEF others
<1>2. /\ Fleet(NewWriter) /\ Told(NewWriter) = {} /\ Awaited(NewWriter) = {}
      /\ \A k \in Lanes : ~Sending(NewWriter, k) /\ ~NewWriter.render[k].open
      /\ NewWriter.lane = NoLane /\ ~NewWriter.closed
  BY <1>1, NewFlow DEF NewWriter
<1>3. Good(NewWriter, Messages)
  BY NewGood
<1>4. /\ Fleet(w) /\ OneLane(NewWriter, w, l) /\ ~Sending(w, l) /\ w.render[l].open
  BY <1>2, <1>3, WriterAssumption, OpenLaneKeeps
<1>5. /\ ~w.closed /\ Told(w) = {} /\ Awaited(w) = {}
      /\ \A k \in Lanes : ~Sending(w, k) /\ (k # l => ~w.render[k].open)
  BY <1>2, <1>4 DEF OneLane
<1>6. \A k \in Lanes : Stationed(w, l, streams[k].pc, k)
  BY <1>4, <1>5 DEF Stationed
<1>7. WriterNumbers(w, 1) /\ Ordered(w, streams, l) /\ Introduced(w, TRUE) /\ Alone(streams, l)
  BY <1>5 DEF WriterNumbers, Ordered, Introduced, Alone
<1>8. \A k \in Lanes : Agrees(w, streams[k], l, 1, k)
  BY <1>5 DEF Agrees
<1> QED
  BY <1>4, <1>5, <1>6, <1>7, <1>8 DEF Flow

\* A run starts sound.
LEMMA InitSound == Init => Sound
<1>1. SUFFICES ASSUME Init PROVE Sound
  OBVIOUS
<1>2. Types
  BY <1>1, InitTypes
<1> DEFINE l == CHOOSE lane \in Lanes : TRUE
           opening == Viewport(1, 0, 1)
           b == Baseline(opening)
           started == [NoStream EXCEPT !.pc = "streaming", !.baseline = b]
<1>3. /\ screen.sequence = 1 /\ capture = [t \in Threads |-> Resting] /\ request = NoRequest
      /\ mishaps = {}
  BY <1>1 DEF Init
<1>4. \/ /\ stream = [k \in Lanes |-> NoStream] /\ serving = NoLane
         /\ writer = NewWriter
         /\ client = [connected |-> TRUE, known |-> FALSE, attached |-> FALSE,
                      mirror |-> Nothing, told |-> 0, gap |-> FALSE]
      \/ /\ stream = [k \in Lanes |-> IF k # l THEN NoStream ELSE started]
         /\ serving = l
         /\ writer = OpenLane(NewWriter, l)
         /\ client = [connected |-> TRUE, known |-> TRUE, attached |-> TRUE,
                      mirror |-> opening, told |-> 0, gap |-> FALSE]
  BY <1>1 DEF Init
<1>5. l \in Lanes
  BY StreamAssumption
<1>6. b \in Baselines /\ b.sequence = 1 /\ IsView(opening, 1) /\ opening.sequence = 1
  <2>1. opening \in Updates
    BY UpdatesAre
  <2>2. IsView(opening, 1) /\ opening.sequence = 1
    BY DEF Viewport, IsView
  <2> HIDE DEF opening
  <2> QED
    BY <2>1, <2>2, BaselineTyped DEF Baseline
<1>7. /\ started.pc = "streaming" /\ started.baseline = b /\ started.pending = Nothing
      /\ started.events = <<>> /\ NoStream.pc = "none" /\ ~NoStream.aborted
  BY DEF NoStream
<1>8. StreamNumbers(NoStream, 1) /\ Continues(NoStream)
  BY NoStreamSound
<1>9. StreamNumbers(started, 1) /\ Continues(started)
  <2>1. DOMAIN <<>> = {} /\ ~IsSnapshot(Nothing) /\ ~IsDelta(Nothing)
    BY EmptySeq DEF Nothing, Mark, IsSnapshot, IsDelta
  <2> HIDE DEF started, b
  <2> QED
    BY <1>6, <1>7, <2>1 DEF StreamNumbers, Continues, Follows
<1> HIDE DEF l, opening, b, started
<1>10. Flows
  <2>1. CASE serving = l /\ client.known
    <3>1. /\ writer = OpenLane(NewWriter, l) /\ client.known = TRUE /\ client.mirror.sequence = 1
          /\ stream[l] = started /\ \A k \in Lanes \ {l} : stream[k].pc = "none"
      BY <1>4, <1>5, <1>6, <1>7, <2>1
    <3>2. Flow(writer, stream, l, TRUE, 1, 1, mishaps)
      BY <1>5, <1>6, <1>7, <3>1, OpeningFlow
    <3> QED
      BY <1>3, <2>1, <3>1, <3>2 DEF Flows
  <2>2. CASE serving = NoLane /\ ~client.known
    <3>1. writer = NewWriter /\ \A k \in Lanes : stream[k].pc = "none"
      BY <1>4, <1>7, <2>2
    <3>2. Alone(stream, NoLane)
      BY <3>1 DEF Alone
    <3> QED
      BY <2>2, <3>1, <3>2, NewFlow DEF Flows
  <2> QED
    BY <1>4, <2>1, <2>2
<1>11. Acquainted
  BY <1>3, <1>4 DEF Acquainted, NoRequest
<1>12. \A k \in Lanes : stream[k] \in {NoStream, started}
  BY <1>4
<1>13. Numbers /\ PendingFits
  <2>1. CaptureNumbers
    BY <1>3 DEF CaptureNumbers, Resting
  <2>2. RequestNumbers
    BY <1>3 DEF RequestNumbers, NoRequest
  <2>3. MirrorNumbers
    BY <1>3, <1>4, <1>6 DEF MirrorNumbers
  <2>4. \A k \in Lanes : StreamNumbers(stream[k], screen.sequence) /\ Continues(stream[k])
    BY <1>3, <1>8, <1>9, <1>12
  <2> QED
    BY <1>3, <2>1, <2>2, <2>3, <2>4 DEF Numbers, PendingFits
<1>14. NoGap
  BY <1>4 DEF NoGap
<1> QED
  BY <1>10, <1>11, <1>13, <1>14 DEF Sound

\* No step breaks it.
LEMMA StepSound == Types /\ Sound /\ [Next]_vars => Sound'
<1>1. SUFFICES ASSUME Types, Sound, [Next]_vars PROVE Sound'
  OBVIOUS
<1>2. Types'
  BY <1>1, StepTypes
<1>3. CASE Happens
  <2>1. CASE ReadOutput \/ SetTitle \/ Exit
    BY <1>1, <1>2, <2>1, ThreadsSound
  <2>2. CASE SetVisible \/ ScrollView
    BY <1>1, <1>2, <2>2, ViewsSound
  <2>3. CASE OtherWatches
    <3>1. "exit" \in Threads
      BY ThreadsAre
    <3> QED
      BY <1>1, <1>2, <2>3, <3>1, LooksSound
  <2>4. CASE Spawned \/ Detach
    BY <1>1, <1>2, <2>4, RequestsSound
  <2>5. CASE Attach
    BY <1>1, <1>2, <2>5, AttachSound
  <2>6. CASE ReconcileEarly \/ SendOther \/ LoseConnection
    BY <1>1, <1>2, <2>6, ReconcileEarlySound, SendOtherSound, WriterTaskSound
  <2> QED
    BY <1>3, <2>1, <2>2, <2>3, <2>4, <2>5, <2>6 DEF Happens
<1>4. CASE Terminal
  BY <1>1, <1>2, <1>4, ThreadsSound, CaptureSound, PublishSound, ThreadsAre DEF Terminal, Captures
<1>5. CASE Requests
  <2>1. attachment.scrolled \in BOOLEAN /\ "request" \in Threads
    BY <1>1, ThreadsAre DEF Types, AttachmentTypes
  <2>2. CASE LookAtStale("request") \/ ReadContext("request", attachment.scrolled)
    BY <1>1, <1>2, <2>1, <2>2, LooksSound
  <2>3. CASE Captures("request")
    BY <1>1, <1>2, <2>1, <2>3, CaptureSound, PublishSound DEF Captures
  <2>4. CASE Attached \/ Answer
    BY <1>1, <1>2, <2>4, RequestsSound, AnswerSound
  <2> QED
    BY <1>5, <2>2, <2>3, <2>4 DEF Requests
<1>6. CASE Session
  BY <1>1, <1>2, <1>6, WriterTaskSound, DeliverSound, DisconnectSound, ReconnectSound DEF Session
<1>7. ASSUME NEW who \in {"viewer", "other"}, StoreCount(who) PROVE Sound'
  <2>1. "exit" \in Threads
    BY ThreadsAre
  <2> QED
    BY <1>1, <1>2, <1>7, <2>1, LooksSound
<1>8. ASSUME NEW l \in Lanes, StreamStep(l) PROVE Sound'
  <2>1. l \in Threads /\ stream[l].scrolled \in BOOLEAN
    BY <1>1, ThreadsAre, StreamIs, StreamParts DEF Types
  <2>2. CASE OpenStream(l) \/ SendSnapshot(l) \/ CheckExited(l) \/ Drained(l) \/ Dropped(l)
    BY <1>1, <1>2, <2>2, OpenStreamSound, SendSnapshotSound, CheckExitedSound, StreamEndSound
  <2>3. CASE LookAtStale(l) \/ ReadContext(l, stream[l].scrolled)
    BY <1>1, <1>2, <2>1, <2>3, LooksSound
  <2>4. CASE Capture(l) \/ Publish(l)
    BY <1>1, <1>2, <2>1, <2>4, CaptureSound, PublishSound
  <2>5. CASE ReceiveEvent(l) \/ ReceiveView(l) \/ Tick(l)
    BY <1>1, <1>2, <2>5, ReceiveEventSound, ReceiveViewSound, TickSound
  <2> QED
    BY <1>8, <2>2, <2>3, <2>4, <2>5 DEF StreamStep, StreamSends
<1>9. CASE UNCHANGED vars
  <2>1. UNCHANGED <<writer, serving, client, stream, screen, request, mishaps, capture>>
    BY <1>9 DEF vars, terminalVars, streamVars
  <2> QED
    BY <1>1, <1>2, <2>1, StillSound
<1> QED
  BY <1>1, <1>3, <1>4, <1>5, <1>6, <1>7, <1>8, <1>9 DEF Next

\* A Client's mirror finds no gap in what its stream sends, unless a stream started before the
\* Client knew of the terminal, an aborted one sent beside its successor, or an older snapshot
\* replaced a pending frame.
THEOREM NoGapAlways == Spec => []NoGap
<1>1. Init => Sound
  BY InitSound
<1>2. Types /\ Sound /\ [Next]_vars => Sound'
  BY StepSound
<1>3. Sound => NoGap
  BY DEF Sound
<1> QED
  BY <1>1, <1>2, <1>3, TypesHold, PTL DEF Spec

=============================================================================
