--------------------------- MODULE PaneControlProofs ---------------------------
(***************************************************************************)
(* Theorems about PaneControl, for every instance of its constants.        *)
(*                                                                         *)
(* IInv follows the lease from the Host to the attachment, and PaneInv     *)
(* from there to the pane, along answers and events.  GeometryInv follows  *)
(* the resizes of the pane to the terminal, and their answers back.        *)
(***************************************************************************)
EXTENDS PaneControl, SequenceTheorems, FiniteSetTheorems, TLAPS

-----------------------------------------------------------------------------
(* Types.                                                                  *)

Control == [controller : Clients \cup {Nobody}, asked : BOOLEAN, present : BOOLEAN,
            holder : Clients \cup {Nobody}, lease_epoch : Nat, next_lease_epoch : Nat,
            turn : Nat]
Screen == [size : Sizes, geometry_epoch : Nat]
Attachments == [attached : BOOLEAN, mode : {"observer", "interactive"}, lease_epoch : Nat]
ControlEvent == [type : Type, lease_epoch : Nat, at : Nat]
Resize == [lease_epoch : Nat, stale : BOOLEAN, bound : BOOLEAN, geometry_epoch : Nat,
           size : Sizes]
PaneCall == [op : {"attach", "reclaim", "grant", "take"}, checkpoint : Part, lease : Part,
             size : Sizes, geometry_epoch : Nat, lease_epoch : Nat, at : Nat, stale : BOOLEAN]
Resized == [ok : BOOLEAN, size : Sizes, geometry_epoch : Nat]
Pane == [life : {"lost", "attaching", "running"}, lease_epoch : Nat, pending_grant : Nat,
         geometry_epoch : Nat, host_geometry_epoch : Nat, next_geometry_epoch : Nat,
         pending_geometry : SUBSET Sizes, local_geometry : Sizes]
Budget == [turns : Nat, resizes : Nat, drops : Nat, lags : Nat]
Race == {"unheard", "silent", "untold", "unready", "crossed", "misjudged", "unsized",
         "shadowed"}

HostTypes ==
    /\ control \in Control /\ control.lease_epoch < control.next_lease_epoch
    /\ leaving \in [Clients -> {"no", "expired", "yielded"}]
    /\ screen \in Screen
    /\ left \in Budget

LinkTypes ==
    /\ attachment \in Attachments
    /\ link \in {"down", "serving", "subscribed"}
    /\ resubscribe \in BOOLEAN
    /\ broadcast \in Seq(ControlEvent)

\* At most one size of the view is pending.
PaneTypes(p) == p \in Pane /\ \A s, u \in p.pending_geometry : s = u

ClientTypes ==
    /\ inbox \in Seq(ControlEvent)
    /\ lane \in Seq(Resize)
    /\ calls \in Seq(PaneCall)
    /\ resized \subseteq Resized
    /\ PaneTypes(pane)

HistoryTypes == seen \in Nat /\ races \subseteq Race

Types == HostTypes /\ LinkTypes /\ ClientTypes /\ HistoryTypes

-----------------------------------------------------------------------------
(* The inductive invariant.                                                *)

\* A lease that is held has an epoch, and Me does not hold it while Rival is in control.
Holding(ctl) ==
    /\ ctl.holder # Nobody => ctl.lease_epoch # 0
    /\ ctl.holder = Me => ctl.controller # Rival

\* Only a forwarder that subscribed has events to read, and only a connection an attachment.
Linked ==
    /\ link # "subscribed" => broadcast = <<>>
    /\ link = "down" => ~attachment.attached

Agrees ==
    /\ (attachment.mode = "interactive") <=> (control.holder = Me)
    /\ attachment.mode = "interactive" /\ "untold" \notin races
          => attachment.lease_epoch = control.lease_epoch

\* The last event that was not read tells what was decided last.
LastFits(e) ==
    /\ e.type = "granted" => control.holder = Me /\ e.lease_epoch = control.lease_epoch
    /\ e.type \in {"revoked", "ready"} => control.holder # Me

Told ==
    /\ broadcast = <<>> /\ attachment.attached => Agrees
    /\ broadcast # <<>> => LastFits(broadcast[Len(broadcast)])

Spared == races \cap {"unheard", "silent"} = {}

Follows == Spared => Told

IInv == Types /\ Holding(control) /\ Linked /\ Follows

-----------------------------------------------------------------------------
(* What a decision does to the lease.                                      *)

\* A decision that the events tell: a lease that Me gets has an epoch of its own.
Moves(new) ==
    /\ new \in Control /\ new.lease_epoch < new.next_lease_epoch
    /\ Holding(new)
    /\ new.holder = Me /\ control.holder # Me => new.lease_epoch # control.lease_epoch

\* Granted, field by field
LEMMA GrantedParts ==
    ASSUME NEW ctl \in Control, NEW c \in Clients
    PROVE  /\ Granted(ctl, c) \in Control
           /\ Granted(ctl, c).holder = c
           /\ Granted(ctl, c).controller = ctl.controller
           /\ Granted(ctl, c).asked = ctl.asked
           /\ Granted(ctl, c).lease_epoch = ctl.next_lease_epoch
           /\ Granted(ctl, c).next_lease_epoch = ctl.next_lease_epoch + 1
<1>1. ctl.next_lease_epoch \in Nat /\ ctl.turn \in Nat
  BY DEF Control
<1>2. ctl.next_lease_epoch + 1 \in Nat /\ ctl.turn + 1 \in Nat
  BY <1>1
<1> DEFINE epoch == ctl.next_lease_epoch + 1
           turn == ctl.turn + 1
<1>3. Granted(ctl, c) = [ctl EXCEPT !.holder = c, !.lease_epoch = ctl.next_lease_epoch,
                                    !.next_lease_epoch = epoch, !.turn = turn]
  BY DEF Granted
<1>4. epoch \in Nat /\ turn \in Nat
  BY <1>2
<1> HIDE DEF epoch, turn
<1>5. /\ Granted(ctl, c) \in Control
      /\ Granted(ctl, c).holder = c
      /\ Granted(ctl, c).controller = ctl.controller
      /\ Granted(ctl, c).asked = ctl.asked
      /\ Granted(ctl, c).lease_epoch = ctl.next_lease_epoch
      /\ Granted(ctl, c).next_lease_epoch = epoch
  BY <1>1, <1>3, <1>4 DEF Control
<1> QED
  BY <1>5 DEF epoch

\* A hand-over gives the new controller the lease, if it has not got it.
LEMMA HandedParts ==
    ASSUME NEW ctl \in Control, ctl.lease_epoch < ctl.next_lease_epoch, Holding(ctl),
           NEW c \in Clients
    PROVE  LET new == Handed(ctl, c) IN
           /\ new \in Control
           /\ new.lease_epoch < new.next_lease_epoch
           /\ Holding(new)
           /\ new.controller = c
           /\ new.asked = ctl.asked
           /\ \/ new.holder = ctl.holder /\ new.lease_epoch = ctl.lease_epoch
              \/ new.holder = c /\ new.lease_epoch = ctl.next_lease_epoch
           /\ ctl.controller # c => new.holder = c
<1> DEFINE led == [ctl EXCEPT !.controller = c]
<1>1. /\ led \in Control /\ led.controller = c /\ led.asked = ctl.asked
      /\ led.holder = ctl.holder /\ led.lease_epoch = ctl.lease_epoch
      /\ led.next_lease_epoch = ctl.next_lease_epoch
  BY DEF Control
<1>2. ctl.lease_epoch \in Nat /\ ctl.next_lease_epoch \in Nat
  BY DEF Control
<1>3. Nobody \notin Clients /\ Me # Rival
  BY PaneAssumption DEF Clients
<1>4. CASE ctl.controller = c
  <2>1. Handed(ctl, c) = ctl
    BY <1>4 DEF Handed
  <2> QED
    BY <2>1, <1>4
<1>5. CASE ctl.controller # c /\ ctl.holder = c
  <2>1. Handed(ctl, c) = led
    BY <1>5 DEF Handed
  <2>2. Holding(led)
    BY <1>1, <1>3, <1>5 DEF Holding
  <2> HIDE DEF led
  <2> QED
    BY <2>1, <2>2, <1>1, <1>5
<1>6. CASE ctl.controller # c /\ ctl.holder # c
  <2>1. Handed(ctl, c) = Granted(led, c)
    BY <1>6 DEF Handed
  <2> HIDE DEF led
  <2>2. /\ Granted(led, c) \in Control /\ Granted(led, c).holder = c
        /\ Granted(led, c).controller = c /\ Granted(led, c).asked = ctl.asked
        /\ Granted(led, c).lease_epoch = ctl.next_lease_epoch
        /\ Granted(led, c).next_lease_epoch = ctl.next_lease_epoch + 1
    BY <1>1, GrantedParts
  <2>3. Holding(Granted(led, c))
    BY <2>2, <1>2, <1>3 DEF Holding
  <2> QED
    BY <2>1, <2>2, <2>3, <1>2
<1> QED
  BY <1>4, <1>5, <1>6

\* So does yield_lease_locked, which only ends a lease.
LEMMA YieldedMoves ==
    ASSUME NEW ctl \in Control, ctl.lease_epoch < ctl.next_lease_epoch, Holding(ctl),
           ctl.holder = control.holder, ctl.lease_epoch = control.lease_epoch, NEW c \in Clients
    PROVE  Moves(Yielded(ctl, c))
<1>1. CASE ctl.holder = c
  <2> DEFINE turn == ctl.turn + 1
             new == [ctl EXCEPT !.holder = Nobody, !.turn = turn]
  <2>0. turn \in Nat
    BY DEF Control
  <2> HIDE DEF turn
  <2>1. /\ new \in Control /\ new.holder = Nobody /\ new.lease_epoch = ctl.lease_epoch
        /\ new.next_lease_epoch = ctl.next_lease_epoch
    BY <2>0 DEF Control
  <2>2. Yielded(ctl, c) = new
    BY <1>1 DEF Yielded, turn
  <2> HIDE DEF new
  <2> QED
    BY <2>1, <2>2, PaneAssumption DEF Moves, Holding
<1>2. CASE ctl.holder # c
  BY <1>2 DEF Yielded, Moves
<1> QED
  BY <1>1, <1>2

\* ... and a hand-over.
LEMMA HandedMoves ==
    ASSUME control \in Control, control.lease_epoch < control.next_lease_epoch, Holding(control),
           NEW c \in Clients
    PROVE  Moves(Handed(control, c))
<1>1. control.lease_epoch \in Nat /\ control.next_lease_epoch \in Nat
  BY DEF Control
<1> QED
  BY <1>1, HandedParts DEF Moves

\* acquire_lease grants the lease to the controller, and to whoever may become it.
LEMMA AcquiredParts ==
    ASSUME control \in Control, control.lease_epoch < control.next_lease_epoch, Holding(control)
    PROVE  LET new == Acquired(control) IN
           /\ Moves(new)
           /\ MayClaim(control) => new.holder = Me /\ new.controller = Me
           /\ ~MayClaim(control) => new = control /\ control.controller = Rival
           /\ control.holder = Me => new.holder = Me /\ new.lease_epoch = control.lease_epoch
<1>0. /\ control.lease_epoch \in Nat /\ control.next_lease_epoch \in Nat
      /\ control.controller \in Clients \cup {Nobody}
      /\ Me \in Clients /\ Rival \in Clients /\ Me # Rival /\ Nobody \notin Clients
  BY PaneAssumption DEF Control, Clients
<1>1. CASE ~MayClaim(control)
  <2>1. Acquired(control) = control
    BY <1>1 DEF Acquired, Claimed
  <2>2. control.controller = Rival
    BY <1>0, <1>1 DEF MayClaim, Clients
  <2>3. control.holder # Me
    BY <2>2 DEF Holding
  <2> QED
    BY <2>1, <2>2, <2>3, <1>1 DEF Moves
<1>2. CASE MayClaim(control)
  <2> DEFINE handed == Handed(control, Me)
             claimed == [handed EXCEPT !.asked = control.asked \/ control.controller # Me]
  <2>1. /\ handed \in Control /\ handed.lease_epoch < handed.next_lease_epoch
        /\ Holding(handed) /\ handed.controller = Me
        /\ \/ handed.holder = control.holder /\ handed.lease_epoch = control.lease_epoch
           \/ handed.holder = Me /\ handed.lease_epoch = control.next_lease_epoch
        /\ control.controller # Me => handed.holder = Me
    BY <1>0, HandedParts
  <2>2. control.holder = Me => handed.holder = Me /\ handed.lease_epoch = control.lease_epoch
    BY <1>0 DEF Handed, Control
  <2>3. Claimed(control) = claimed
    BY <1>2 DEF Claimed
  <2> HIDE DEF handed
  <2>4. (control.asked \/ control.controller # Me) \in BOOLEAN
    BY DEF Control
  <2>5. /\ claimed \in Control /\ claimed.controller = handed.controller
        /\ claimed.holder = handed.holder /\ claimed.lease_epoch = handed.lease_epoch
        /\ claimed.next_lease_epoch = handed.next_lease_epoch
    BY <2>1, <2>4 DEF Control
  <2> HIDE DEF claimed
  <2>6. Holding(claimed)
    BY <2>1, <2>5 DEF Holding
  <2>7. handed.next_lease_epoch \in Nat /\ handed.lease_epoch \in Nat
    BY <2>1 DEF Control
  <2>8. CASE claimed.holder = Me
    <3>1. Acquired(control) = claimed
      BY <2>3, <2>8 DEF Acquired
    <3> QED
      BY <3>1, <2>1, <2>2, <2>5, <2>6, <2>8, <1>0, <1>2 DEF Moves
  <2>9. CASE claimed.holder # Me
    <3>1. Acquired(control) = Granted(claimed, Me)
      BY <2>3, <2>9, <1>2 DEF Acquired
    <3>0. /\ Granted(claimed, Me) \in Control /\ Granted(claimed, Me).holder = Me
          /\ Granted(claimed, Me).controller = claimed.controller
          /\ Granted(claimed, Me).lease_epoch = claimed.next_lease_epoch
          /\ Granted(claimed, Me).next_lease_epoch = claimed.next_lease_epoch + 1
      BY <2>5, <1>0, GrantedParts
    <3>2. /\ Granted(claimed, Me) \in Control /\ Granted(claimed, Me).holder = Me
          /\ Granted(claimed, Me).controller = Me
          /\ Granted(claimed, Me).lease_epoch = handed.next_lease_epoch
          /\ Granted(claimed, Me).next_lease_epoch = handed.next_lease_epoch + 1
      BY <3>0, <2>1, <2>5
    <3>3. handed.lease_epoch = control.lease_epoch /\ control.holder # Me
      BY <2>1, <2>2, <2>5, <2>9
    <3>4. Holding(Granted(claimed, Me))
      BY <3>2, <2>1, <2>7, <1>0 DEF Holding
    <3> QED
      BY <3>1, <3>2, <3>3, <3>4, <2>1, <2>7, <1>0, <1>2 DEF Moves
  <2> QED
    BY <2>8, <2>9
<1> QED
  BY <1>1, <1>2

-----------------------------------------------------------------------------
(* What events tell.                                                       *)

\* The events of a decision: one, if Me loses or gets the lease, and none otherwise.
LEMMA EventsTell ==
    ASSUME control \in Control, NEW new, Moves(new)
    PROVE  /\ Events(new) \in Seq(ControlEvent)
           /\ \/ /\ Events(new) = <<>>
                 /\ (new.holder = Me) <=> (control.holder = Me)
                 /\ new.holder = Me => new.lease_epoch = control.lease_epoch
              \/ \E e \in ControlEvent :
                    /\ Events(new) = <<e>>
                    /\ e.type = "granted" => new.holder = Me /\ e.lease_epoch = new.lease_epoch
                    /\ e.type \in {"revoked", "ready"} => new.holder # Me
<1> DEFINE revoked == [type |-> "revoked", lease_epoch |-> 0, at |-> new.turn]
           granted == [type |-> "granted", lease_epoch |-> new.lease_epoch, at |-> new.turn]
<1>1. new.turn \in Nat /\ new.lease_epoch \in Nat
  BY DEF Moves, Control
<1>2. revoked \in ControlEvent /\ granted \in ControlEvent
  BY <1>1 DEF ControlEvent, Type
<1>3. /\ revoked.type = "revoked"
      /\ granted.type = "granted" /\ granted.lease_epoch = new.lease_epoch
  OBVIOUS
<1>4. CASE control.holder = Me /\ new.holder # Me
  <2>1. Events(new) = <<revoked>>
    BY <1>4 DEF Events
  <2> HIDE DEF revoked, granted
  <2> QED
    BY <2>1, <1>2, <1>3, <1>4
<1>5. CASE ~(control.holder = Me /\ new.holder # Me)
           /\ new.holder = Me /\ new.lease_epoch # control.lease_epoch
  <2>1. Events(new) = <<granted>>
    BY <1>5 DEF Events
  <2> HIDE DEF revoked, granted
  <2> QED
    BY <2>1, <1>2, <1>3, <1>5
<1>6. CASE /\ ~(control.holder = Me /\ new.holder # Me)
           /\ ~(new.holder = Me /\ new.lease_epoch # control.lease_epoch)
  <2>1. Events(new) = <<>>
    BY <1>6 DEF Events
  <2> QED
    BY <2>1, <1>6 DEF Moves
<1> QED
  BY <1>4, <1>5, <1>6

\* The last event of a broadcast to which events were added
LEMMA LastOfConcat ==
    ASSUME NEW S, NEW s \in Seq(S), NEW e \in S
    PROVE  /\ s \o <<e>> \in Seq(S) /\ s \o <<e>> # <<>>
           /\ (s \o <<e>>)[Len(s \o <<e>>)] = e
<1>1. <<e>> \in Seq(S) /\ Len(<<e>>) = 1 /\ <<e>>[1] = e
  OBVIOUS
<1>2. /\ s \o <<e>> \in Seq(S) /\ Len(s \o <<e>>) = Len(s) + 1
      /\ (s \o <<e>>)[Len(s) + 1] = e
  BY <1>1, ConcatProperties, LenProperties
<1> QED
  BY <1>2, LenProperties

\* ... from which the first one was read
LEMMA LastOfTail ==
    ASSUME NEW S, NEW s \in Seq(S), s # <<>>
    PROVE  /\ Head(s) \in S /\ Tail(s) \in Seq(S)
           /\ Tail(s) = <<>> => Head(s) = s[Len(s)]
           /\ Tail(s) # <<>> => Tail(s)[Len(Tail(s))] = s[Len(s)]
<1>1. /\ Head(s) \in S /\ Tail(s) \in Seq(S) /\ Len(Tail(s)) = Len(s) - 1
      /\ \A i \in 1 .. Len(Tail(s)) : Tail(s)[i] = s[i + 1]
  BY HeadTailProperties
<1>0. Head(s) = s[1]
  OBVIOUS
<1>2. Len(s) \in Nat \ {0}
  BY EmptySeq, LenProperties
<1>3. CASE Tail(s) = <<>>
  <2>0. Len(<<>>) = 0
    OBVIOUS
  <2>1. Len(Tail(s)) = 0
    BY <1>3, <2>0, Zenon
  <2> DEFINE n == Len(s)
             k == Len(Tail(s))
  <2>2. n \in Nat /\ k = n - 1 /\ k = 0
    BY <1>1, <1>2, <2>1
  <2> HIDE DEF n, k
  <2>3. n = 1
    BY <2>2
  <2> QED
    BY <1>0, <1>3, <2>3 DEF n
<1>4. CASE Tail(s) # <<>>
  <2>1. Len(Tail(s)) \in 1 .. Len(Tail(s))
    BY <1>1, <1>4, EmptySeq, LenProperties
  <2> QED
    BY <1>1, <1>2, <1>4, <2>1
<1> QED
  BY <1>1, <1>3, <1>4

\* ... or from which the oldest ones were lost.
LEMMA LastOfLagged ==
    ASSUME NEW S, NEW s \in Seq(S), NEW e \in S, NEW n \in DOMAIN s
    PROVE  LET lost == <<e>> \o SubSeq(s, n + 1, Len(s)) IN
           /\ lost \in Seq(S) /\ lost # <<>>
           /\ lost[Len(lost)] \in {e, s[Len(s)]}
<1>1. DOMAIN s = 1 .. Len(s) /\ Len(s) \in Nat
  BY LenProperties
<1> DEFINE kept == SubSeq(s, n + 1, Len(s))
<1>2. kept \in Seq(S) /\ Len(kept) = Len(s) - n
      /\ \A i \in 1 .. Len(kept) : kept[i] = s[n + i]
  <2>1. n + 1 \in 1 .. Len(s) + 1 /\ Len(s) \in n .. Len(s)
    BY <1>1
  <2>2. /\ kept \in Seq(S)
        /\ Len(kept) = IF n + 1 <= Len(s) THEN Len(s) - (n + 1) + 1 ELSE 0
        /\ \A i \in 1 .. Len(kept) : kept[i] = s[n + 1 + i - 1]
    <3>1. \A i \in n + 1 .. Len(s) : s[i] \in S
      BY <1>1, ElementOfSeq
    <3> QED
      BY <1>1, <3>1, SubSeqProperties
  <2>3. Len(kept) = Len(s) - n
    BY <1>1, <2>2
  <2> HIDE DEF kept
  <2>4. ASSUME NEW i \in 1 .. Len(kept) PROVE kept[i] = s[n + i]
    <3>1. n + 1 + i - 1 = n + i
      BY <1>1
    <3> QED
      BY <2>2, <3>1
  <2> QED
    BY <2>2, <2>3, <2>4
<1> HIDE DEF kept
<1>3. <<e>> \in Seq(S) /\ Len(<<e>>) = 1 /\ <<e>>[1] = e
  OBVIOUS
<1>4. /\ <<e>> \o kept \in Seq(S) /\ Len(<<e>> \o kept) = 1 + Len(kept)
      /\ \A i \in 1 .. 1 + Len(kept) :
            (<<e>> \o kept)[i] = IF i <= 1 THEN <<e>>[i] ELSE kept[i - 1]
  BY <1>2, <1>3, ConcatProperties
<1>5. Len(kept) \in Nat
  BY <1>2, LenProperties
<1>6. <<e>> \o kept # <<>>
  BY <1>4, <1>5, EmptySeq
<1>7. CASE Len(kept) = 0
  <2>1. (<<e>> \o kept)[1] = e
    BY <1>3, <1>4, <1>7
  <2> QED
    BY <1>4, <1>6, <1>7, <2>1 DEF kept
<1>8. CASE Len(kept) # 0
  <2>1. (<<e>> \o kept)[1 + Len(kept)] = kept[Len(kept)]
    BY <1>4, <1>5, <1>8
  <2>2. kept[Len(kept)] = s[Len(s)]
    <3>1. Len(kept) \in 1 .. Len(kept)
      BY <1>5, <1>8
    <3>2. n + Len(kept) = Len(s)
      BY <1>1, <1>2
    <3> QED
      BY <1>2, <3>1, <3>2
  <2> QED
    BY <1>4, <1>6, <2>1, <2>2 DEF kept
<1> QED
  BY <1>7, <1>8

-----------------------------------------------------------------------------
(* What keeps the attachment in step with the lease.                       *)

Lease == Holding(control) /\ Linked /\ Follows

\* The kinds of what the link holds
LEMMA LinkKinds ==
    ASSUME IInv
    PROVE  /\ broadcast \in Seq(ControlEvent) /\ races \subseteq Race
           /\ link \in {"down", "serving", "subscribed"}
           /\ control \in Control /\ control.lease_epoch < control.next_lease_epoch
           /\ control.lease_epoch \in Nat /\ control.next_lease_epoch \in Nat
           /\ control.turn \in Nat /\ control.present \in BOOLEAN
           /\ Holding(control) /\ Linked
           /\ attachment \in Attachments
BY DEF IInv, Types, HostTypes, LinkTypes, HistoryTypes, Control

\* A decision that events tell, if there is anyone to hear them
LEMMA Decided ==
    ASSUME IInv, NEW new, Moves(new), Decide(new, Events(new)), UNCHANGED <<attachment, link>>
    PROVE  /\ control' \in Control /\ control'.lease_epoch < control'.next_lease_epoch
           /\ broadcast' \in Seq(ControlEvent)
           /\ races' \subseteq Race
           /\ Lease'
<1>0. /\ broadcast \in Seq(ControlEvent) /\ races \subseteq Race
      /\ link \in {"down", "serving", "subscribed"} /\ control \in Control /\ Linked
  BY LinkKinds
<1>1. /\ control' = new
      /\ broadcast' = IF link = "subscribed" THEN broadcast \o Events(new) ELSE broadcast
      /\ races' = races \cup Unheard(Events(new))
      /\ attachment' = attachment /\ link' = link
  BY DEF Decide
<1>2. /\ control' \in Control /\ control'.lease_epoch < control'.next_lease_epoch
      /\ Holding(control)'
  BY <1>1 DEF Moves, Holding
<1>3. races' \subseteq Race
  BY <1>0, <1>1 DEF Unheard, Race
<1>4. CASE /\ Events(new) = <<>>
           /\ (new.holder = Me) <=> (control.holder = Me)
           /\ new.holder = Me => new.lease_epoch = control.lease_epoch
  <2>1. broadcast \o <<>> = broadcast
    BY <1>0, ConcatEmptySeq
  <2>2. broadcast' = broadcast
    BY <1>1, <1>4, <2>1
  <2>3. races' = races
    BY <1>1, <1>4 DEF Unheard
  <2>4. Linked'
    BY <1>0, <1>1, <2>2 DEF Linked
  <2>5. ASSUME Told PROVE Told'
    <3>1. Agrees => Agrees'
      BY <1>1, <1>4, <2>3 DEF Agrees
    <3>2. \A e : LastFits(e) => LastFits(e)'
      BY <1>1, <1>4 DEF LastFits
    <3> QED
      BY <1>1, <2>2, <2>5, <3>1, <3>2 DEF Told
  <2>6. Follows'
    BY <2>3, <2>5 DEF Follows, Spared, IInv
  <2> QED
    BY <1>0, <1>2, <1>3, <2>2, <2>4, <2>6 DEF Lease
<1>5. ASSUME NEW e \in ControlEvent, Events(new) = <<e>>,
             e.type = "granted" => new.holder = Me /\ e.lease_epoch = new.lease_epoch,
             e.type \in {"revoked", "ready"} => new.holder # Me
      PROVE  broadcast' \in Seq(ControlEvent) /\ Lease'
  <2>1. CASE link = "subscribed"
    <3>1. /\ broadcast' \in Seq(ControlEvent) /\ broadcast' # <<>>
          /\ broadcast'[Len(broadcast')] = e
      BY <1>0, <1>1, <1>5, <2>1, LastOfConcat
    <3>2. LastFits(e)'
      BY <1>1, <1>5 DEF LastFits
    <3>3. Told'
      BY <3>1, <3>2 DEF Told
    <3>4. Linked'
      BY <1>1, <2>1 DEF Linked
    <3> QED
      BY <1>2, <3>1, <3>3, <3>4 DEF Lease, Follows
  <2>2. CASE link = "serving"
    <3>1. "unheard" \in races'
      <4>1. <<e>> # <<>>
        OBVIOUS
      <4> QED
        BY <1>1, <1>5, <2>2, <4>1 DEF Unheard
    <3>2. broadcast' = broadcast
      BY <1>1, <2>2
    <3> QED
      BY <1>0, <1>1, <1>2, <3>1, <3>2 DEF Lease, Follows, Spared, Linked
  <2>3. CASE link = "down"
    <3>1. broadcast' = <<>> /\ ~attachment'.attached
      BY <1>0, <1>1, <2>3 DEF Linked
    <3> QED
      BY <1>0, <1>1, <1>2, <2>3, <3>1 DEF Lease, Follows, Told, Linked
  <2> QED
    BY <1>0, <2>1, <2>2, <2>3
<1> QED
  BY <1>0, <1>2, <1>3, <1>4, <1>5, EventsTell

\* What concerns neither the lease nor the link
LEMMA Unrelated ==
    ASSUME IInv, UNCHANGED <<control, attachment, link, broadcast>>,
           races' \cap {"unheard", "silent", "untold"} = races \cap {"unheard", "silent", "untold"}
    PROVE  Lease'
<1>1. Spared' <=> Spared
  BY DEF Spared
<1>2. "untold" \in races' <=> "untold" \in races
  OBVIOUS
<1>3. Holding(control)' /\ Linked'
  BY DEF IInv, Holding, Linked
<1>4. Agrees => Agrees'
  BY <1>2 DEF Agrees
<1>5. \A e : LastFits(e) => LastFits(e)'
  BY DEF LastFits
<1>6. Told => Told'
  BY <1>4, <1>5 DEF Told
<1> QED
  BY <1>1, <1>3, <1>6 DEF Lease, Follows, IInv

\* An attachment that is made anew shows who holds the lease.
LEMMA Shows ==
    ASSUME Holding(control), control \in Control,
           NEW a, a = Attached(IF control.holder = Me THEN control.lease_epoch ELSE 0)
    PROVE  /\ a \in Attachments /\ a.attached
           /\ (a.mode = "interactive") <=> (control.holder = Me)
           /\ a.mode = "interactive" => a.lease_epoch = control.lease_epoch
<1>1. control.lease_epoch \in Nat /\ Me # Nobody
  BY PaneAssumption DEF Control
<1>2. CASE control.holder = Me
  <2>1. control.lease_epoch # 0
    BY <1>1, <1>2 DEF Holding
  <2> QED
    BY <1>1, <1>2, <2>1 DEF Attached, Attachments
<1>3. CASE control.holder # Me
  BY <1>1, <1>3 DEF Attached, Attachments
<1> QED
  BY <1>2, <1>3

\* A new attachment, or the one there is, of an answer that leaves the lease alone
LEMMA Reattached ==
    ASSUME IInv, UNCHANGED <<control, link, broadcast>>, link # "down",
           races' \cap {"unheard", "silent", "untold"} = races \cap {"unheard", "silent", "untold"},
           attachment' = attachment
             \/ attachment' = Attached(IF control.holder = Me THEN control.lease_epoch ELSE 0)
    PROVE  attachment' \in Attachments /\ Lease'
<1>0. control \in Control /\ Holding(control) /\ Linked /\ attachment \in Attachments
  BY LinkKinds
<1>1. CASE attachment' = attachment
  BY <1>0, <1>1, Unrelated
<1>2. CASE attachment' = Attached(IF control.holder = Me THEN control.lease_epoch ELSE 0)
  <2>1. /\ attachment' \in Attachments
        /\ (attachment'.mode = "interactive") <=> (control.holder = Me)
        /\ attachment'.mode = "interactive" => attachment'.lease_epoch = control.lease_epoch
    BY <1>0, <1>2, Shows
  <2>2. Agrees'
    BY <2>1 DEF Agrees
  <2>3. Holding(control)' /\ Linked'
    BY <1>0 DEF Holding, Linked
  <2>4. \A e : LastFits(e) => LastFits(e)'
    BY DEF LastFits
  <2>5. Told => Told'
    BY <2>2, <2>4 DEF Told
  <2>6. Spared' = Spared
    BY DEF Spared
  <2> QED
    BY <2>1, <2>3, <2>5, <2>6 DEF Lease, Follows, IInv
<1> QED
  BY <1>1, <1>2

\* An answer without a lease leaves the attachment, or makes it what the lease says.
LEMMA RegisteredIs ==
    \/ Registered = attachment
    \/ Registered = Attached(IF control.holder = Me THEN control.lease_epoch ELSE 0)
BY DEF Registered

\* An answered request for the lease: the attachment gets what was granted, and events that are
\* on their way agree with it, or the race was noted.
LEMMA AcquireKeeps ==
    ASSUME IInv, Acquire, UNCHANGED link, link # "down",
           races' \cap {"unheard", "silent", "untold"}
               = (races \cup AcquireRaces) \cap {"unheard", "silent", "untold"},
           IF Answered = 0 THEN attachment' \in {attachment, Attached(0)}
                           ELSE attachment' = Attached(Answered)
    PROVE  /\ control' \in Control /\ control'.lease_epoch < control'.next_lease_epoch
           /\ broadcast' \in Seq(ControlEvent)
           /\ attachment' \in Attachments
           /\ Lease'
<1> DEFINE new == Acquired(control)
           silent == control.controller = Me
           events == IF silent THEN <<>> ELSE Events(new)
<1>0. /\ broadcast \in Seq(ControlEvent) /\ link \in {"down", "serving", "subscribed"}
      /\ control \in Control /\ control.lease_epoch < control.next_lease_epoch
      /\ Holding(control) /\ Linked /\ attachment \in Attachments
  BY LinkKinds
<1>1. /\ Moves(new)
      /\ MayClaim(control) => new.holder = Me /\ new.controller = Me
      /\ ~MayClaim(control) => new = control /\ control.controller = Rival
      /\ control.holder = Me => new.holder = Me /\ new.lease_epoch = control.lease_epoch
  BY <1>0, AcquiredParts
<1>2. /\ control' = new
      /\ broadcast' = IF link = "subscribed" THEN broadcast \o events ELSE broadcast
  BY DEF Acquire
<1>3. /\ Events(new) \in Seq(ControlEvent)
      /\ \/ /\ Events(new) = <<>>
            /\ (new.holder = Me) <=> (control.holder = Me)
            /\ new.holder = Me => new.lease_epoch = control.lease_epoch
         \/ \E e \in ControlEvent :
               /\ Events(new) = <<e>>
               /\ e.type = "granted" => new.holder = Me /\ e.lease_epoch = new.lease_epoch
               /\ e.type \in {"revoked", "ready"} => new.holder # Me
  BY <1>0, <1>1, EventsTell
<1>4. AcquireRaces = IF ~silent THEN Unheard(Events(new))
                     ELSE IF control.holder # Me /\ broadcast # <<>> THEN {"silent"} ELSE {}
  BY DEF AcquireRaces
<1>5. Answered = IF MayClaim(control) THEN new.lease_epoch ELSE 0
  BY DEF Answered
<1>6. new.lease_epoch \in Nat /\ Me # Nobody /\ Me # Rival
  BY <1>1, PaneAssumption DEF Moves, Control
<1> HIDE DEF new
<1>7. broadcast \o <<>> = broadcast
  BY <1>0, ConcatEmptySeq
<1>8. /\ control' \in Control /\ control'.lease_epoch < control'.next_lease_epoch
      /\ Holding(control)'
  BY <1>1, <1>2 DEF Moves, Holding
<1>9. CASE ~MayClaim(control)
  <2>1. new = control /\ ~silent /\ control.holder # Me /\ Answered = 0
    BY <1>0, <1>1, <1>5, <1>6, <1>9 DEF Holding
  <2>2. Events(new) = <<>>
    BY <2>1 DEF Events
  <2>3. UNCHANGED <<control, link, broadcast>>
    BY <1>2, <1>7, <2>1, <2>2
  <2>4. AcquireRaces = {}
    BY <1>4, <2>1, <2>2 DEF Unheard
  <2>5. races' \cap {"unheard", "silent", "untold"} = races \cap {"unheard", "silent", "untold"}
    BY <2>4
  <2>6. attachment' = attachment
          \/ attachment' = Attached(IF control.holder = Me THEN control.lease_epoch ELSE 0)
    BY <2>1
  <2>7. attachment' \in Attachments /\ Lease'
    BY <2>3, <2>5, <2>6, Reattached
  <2> QED
    BY <1>0, <1>8, <2>3, <2>7
<1>10. CASE MayClaim(control)
  <2>1. new.holder = Me /\ new.lease_epoch # 0
    BY <1>1, <1>6, <1>10 DEF Moves, Holding
  <2>2. attachment' = Attached(new.lease_epoch)
    BY <1>5, <1>10, <2>1
  <2>3. /\ attachment' \in Attachments /\ attachment'.mode = "interactive"
        /\ attachment'.lease_epoch = control'.lease_epoch
    BY <1>2, <1>6, <2>1, <2>2 DEF Attached, Attachments
  <2>4. Agrees'
    BY <1>2, <2>1, <2>3 DEF Agrees
  <2>5. Spared' => Spared /\ "unheard" \notin AcquireRaces /\ "silent" \notin AcquireRaces
    BY DEF Spared
  <2>6. CASE events = <<>>
    <3>1. broadcast' = broadcast
      BY <1>2, <1>7, <2>6
    <3>2. ASSUME Spared', broadcast # <<>> PROVE control.holder = Me
      <4>1. CASE silent
        BY <1>4, <2>5, <3>2, <4>1
      <4>2. CASE ~silent
        <5>1. Events(new) = <<>>
          BY <2>6, <4>2
        <5>2. \A e : <<e>> # <<>>
          OBVIOUS
        <5> QED
          BY <1>3, <2>1, <5>1, <5>2
      <4> QED
        BY <4>1, <4>2
    <3>3. ASSUME Spared', broadcast # <<>> PROVE Told'
      <4>1. /\ control'.holder = control.holder
            /\ control'.lease_epoch = control.lease_epoch
        BY <1>1, <1>2, <2>1, <3>2, <3>3
      <4>2. LastFits(broadcast[Len(broadcast)])
        BY <2>5, <3>3 DEF IInv, Follows, Told
      <4>3. LastFits(broadcast[Len(broadcast)])'
        BY <3>1, <4>1, <4>2 DEF LastFits
      <4> QED
        BY <2>4, <3>1, <3>3, <4>3 DEF Told
    <3>4. Spared' => Told'
      BY <2>4, <3>1, <3>3 DEF Told
    <3>5. Linked'
      BY <1>0, <3>1 DEF Linked
    <3> QED
      BY <1>0, <1>8, <2>3, <3>1, <3>4, <3>5 DEF Lease, Follows
  <2>7. CASE events # <<>>
    <3>1. ~silent /\ Events(new) # <<>>
      BY <2>7
    <3>2. PICK e \in ControlEvent :
             /\ Events(new) = <<e>>
             /\ e.type = "granted" => new.holder = Me /\ e.lease_epoch = new.lease_epoch
             /\ e.type \in {"revoked", "ready"} => new.holder # Me
      BY <1>3, <3>1
    <3>3. CASE link = "subscribed"
      <4>1. broadcast' = broadcast \o <<e>>
        BY <1>2, <3>1, <3>2, <3>3
      <4>2. /\ broadcast' \in Seq(ControlEvent) /\ broadcast' # <<>>
            /\ broadcast'[Len(broadcast')] = e
        BY <1>0, <4>1, LastOfConcat
      <4>3. LastFits(e)'
        BY <1>2, <3>2 DEF LastFits
      <4>4. Told'
        BY <4>2, <4>3 DEF Told
      <4>5. Linked'
        BY <3>3 DEF Linked
      <4> QED
        BY <1>8, <2>3, <4>2, <4>4, <4>5 DEF Lease, Follows
    <3>4. CASE link = "serving"
      <4>1. "unheard" \in races'
        BY <1>4, <3>1, <3>4 DEF Unheard
      <4>2. broadcast' = broadcast /\ Linked'
        BY <1>0, <1>2, <3>4 DEF Linked
      <4> QED
        BY <1>0, <1>8, <2>3, <4>1, <4>2 DEF Lease, Follows, Spared
    <3> QED
      BY <1>0, <3>3, <3>4
  <2> QED
    BY <2>6, <2>7
<1> QED
  BY <1>9, <1>10

-----------------------------------------------------------------------------
(* Types of what steps change.                                             *)

\* A function on 1 .. n is a sequence.
LEMMA Numbered ==
    ASSUME NEW S, NEW n \in Nat, NEW f \in [1 .. n -> S]
    PROVE  f \in Seq(S) /\ Len(f) = n
OBVIOUS

\* An element is removed.
LEMMA Removed ==
    ASSUME NEW S, NEW s \in Seq(S), NEW i \in DOMAIN s
    PROVE  RemoveAt(s, i) \in Seq(S) /\ Len(RemoveAt(s, i)) = Len(s) - 1
<1>1. Len(s) \in Nat /\ DOMAIN s = 1 .. Len(s)
  BY LenProperties
<1> DEFINE before == SubSeq(s, 1, i - 1)
           after == SubSeq(s, i + 1, Len(s))
<1>2. \A k \in 1 .. Len(s) : s[k] \in S
  BY ElementOfSeq
<1>3. before \in Seq(S) /\ Len(before) = i - 1
  <2>1. i - 1 \in Int /\ \A k \in 1 .. i - 1 : s[k] \in S
    BY <1>1, <1>2
  <2>2. before \in Seq(S) /\ Len(before) = IF 1 <= i - 1 THEN (i - 1) - 1 + 1 ELSE 0
    BY <2>1, SubSeqProperties
  <2> HIDE DEF before
  <2> QED
    BY <1>1, <2>2
<1>4. after \in Seq(S) /\ Len(after) = Len(s) - i
  <2>1. i + 1 \in Int /\ \A k \in i + 1 .. Len(s) : s[k] \in S
    BY <1>1, <1>2
  <2>2. after \in Seq(S) /\ Len(after) = IF i + 1 <= Len(s) THEN Len(s) - (i + 1) + 1 ELSE 0
    BY <1>1, <2>1, SubSeqProperties
  <2> HIDE DEF after
  <2> QED
    BY <1>1, <2>2
<1> HIDE DEF before, after
<1>5. before \o after \in Seq(S) /\ Len(before \o after) = (i - 1) + (Len(s) - i)
  BY <1>3, <1>4, ConcatProperties
<1>6. (i - 1) + (Len(s) - i) = Len(s) - 1
  BY <1>1
<1> QED
  BY <1>5, <1>6 DEF RemoveAt, before, after

\* A sequence of one element made from a set
LEMMA OfSingle ==
    ASSUME NEW S, NEW e \in S
    PROVE  SetToSeq({e}) \in Seq(S)
<1>1. Cardinality({e}) = 1
  BY FS_Singleton
<1> DEFINE f == [i \in 1 .. 1 |-> e]
<1>2. f \in [1 .. 1 -> {e}] /\ IsInjective(f)
  BY DEF IsInjective
<1>3. SetToSeq({e}) \in [1 .. 1 -> {e}]
  BY <1>1, <1>2 DEF SetToSeq
<1>4. SetToSeq({e}) \in [1 .. 1 -> S]
  BY <1>3
<1> QED
  BY <1>4, Numbered

\* The pending size is sent, if there is one and the connection is up.
LEMMA Submitted ==
    ASSUME lane \in Seq(Resize), NEW p, PaneTypes(p), Submit(p)
    PROVE  lane' \in Seq(Resize) /\ PaneTypes(pane')
<1> DEFINE epoch == p.next_geometry_epoch + 1
<1>0. /\ p \in Pane /\ p.next_geometry_epoch \in Nat /\ p.pending_geometry \subseteq Sizes
      /\ p.lease_epoch \in Nat /\ \A s, u \in p.pending_geometry : s = u
  BY DEF PaneTypes, Pane
<1>1. epoch \in Nat
  BY <1>0
<1>2. \A q : q = [p EXCEPT !.pending_geometry = {}] => PaneTypes(q)
  BY <1>0 DEF PaneTypes, Pane
<1>3. CASE link = "down" \/ p.pending_geometry = {}
  BY <1>2, <1>3 DEF Submit
<1>4. CASE ~(link = "down" \/ p.pending_geometry = {})
  <2> DEFINE message(size) == [lease_epoch |-> p.lease_epoch, stale |-> FALSE,
                               bound |-> p.life = "running", geometry_epoch |-> epoch,
                               size |-> size]
  <2>1. /\ pane' = [p EXCEPT !.next_geometry_epoch = epoch, !.geometry_epoch = epoch,
                             !.pending_geometry = {}]
        /\ lane' = lane \o SetToSeq({message(size) : size \in p.pending_geometry})
    BY <1>4 DEF Submit
  <2> HIDE DEF epoch
  <2>2. PaneTypes(pane')
    BY <1>0, <1>1, <2>1 DEF PaneTypes, Pane
  <2>3. PICK size \in Sizes : p.pending_geometry = {size}
    BY <1>0, <1>4
  <2>4. message(size) \in Resize
    BY <1>0, <1>1 DEF Resize
  <2>5. {message(s) : s \in p.pending_geometry} = {message(size)}
    BY <2>3
  <2> HIDE DEF message
  <2>6. lane' = lane \o SetToSeq({message(size)})
    BY <2>1, <2>5
  <2>7. SetToSeq({message(size)}) \in Seq(Resize)
    BY <2>4, OfSingle
  <2> QED
    BY <2>2, <2>6, <2>7, ConcatProperties
<1> QED
  BY <1>3, <1>4

\* A pane that gets another lease
LEMMA LeasedPane ==
    ASSUME NEW p, PaneTypes(p), NEW epoch \in Nat
    PROVE  PaneTypes(WithLease(p, epoch))
BY DEF PaneTypes, Pane, WithLease

\* The parts of a request
LEMMA CallParts ==
    ASSUME IInv, NEW i \in DOMAIN calls
    PROVE  /\ calls \in Seq(PaneCall) /\ calls[i] \in PaneCall /\ i \in 1 .. Len(calls)
           /\ calls[i].geometry_epoch \in Nat /\ calls[i].lease_epoch \in Nat
           /\ calls[i].at \in Nat /\ calls[i].size \in Sizes
<1>1. calls \in Seq(PaneCall)
  BY DEF IInv, Types, ClientTypes
<1>2. i \in 1 .. Len(calls)
  BY <1>1, LenProperties
<1>3. calls[i] \in PaneCall
  BY <1>1, <1>2, ElementOfSeq
<1> QED
  BY <1>1, <1>2, <1>3 DEF PaneCall

\* A pane that adopts the checkpoint of an answer, and what it then has pending
LEMMA AdoptingPane ==
    ASSUME NEW p, PaneTypes(p), NEW call \in PaneCall
    PROVE  PaneTypes(Adopting(p, call)) /\ PaneTypes(Reclaiming(p, call))
<1>1. /\ p \in Pane /\ p.local_geometry \in Sizes /\ p.next_geometry_epoch \in Nat
      /\ call.geometry_epoch \in Nat
  BY DEF PaneTypes, Pane, PaneCall
<1>2. PaneTypes(Adopting(p, call))
  <2> DEFINE next == IF call.geometry_epoch > p.next_geometry_epoch
                     THEN call.geometry_epoch ELSE p.next_geometry_epoch
  <2>1. next \in Nat
    BY <1>1
  <2>2. Adopting(p, call) = IF ~Shown(call) THEN p
             ELSE [p EXCEPT !.host_geometry_epoch = call.geometry_epoch,
                            !.geometry_epoch = call.geometry_epoch,
                            !.next_geometry_epoch = next]
    BY DEF Adopting
  <2> HIDE DEF next
  <2> QED
    BY <1>1, <2>1, <2>2 DEF PaneTypes, Pane
<1>3. PaneTypes(Reclaiming(p, call))
  BY <1>1 DEF Reclaiming, PaneTypes, Pane
<1> QED
  BY <1>2, <1>3

\* A request that the pane makes
LEMMA Asked ==
    ASSUME IInv, NEW call \in PaneCall, Ask(call)
    PROVE  calls' \in Seq(PaneCall)
<1>1. calls \in Seq(PaneCall)
  BY DEF IInv, Types, ClientTypes
<1>2. [call EXCEPT !.checkpoint = "failed"] \in PaneCall
  BY DEF PaneCall, Part
<1> QED
  BY <1>1, <1>2, AppendProperties DEF Ask

\* What the pane asks is a request.
LEMMA NewCalls ==
    \A op \in {"attach", "reclaim", "grant", "take"}, c \in Part, l \in Part :
        Call(op, c, l) \in PaneCall
BY PaneAssumption DEF Call, PaneCall

\* The budget goes down.
LEMMA Spending ==
    ASSUME IInv, NEW what \in {"turns", "resizes", "drops", "lags"}, Spend(what)
    PROVE  left' \in Budget
<1>1. left \in Budget /\ left[what] \in Nat /\ left[what] > 0
  BY DEF IInv, Types, HostTypes, Budget, Spend
<1> DEFINE less == left[what] - 1
<1>2. less \in Nat
  BY <1>1
<1>3. left' = [left EXCEPT ![what] = less]
  BY DEF Spend
<1> HIDE DEF less
<1> QED
  BY <1>1, <1>2, <1>3 DEF Budget

-----------------------------------------------------------------------------
(* Steps that leave lease and link alone.                                  *)

\* Races that say nothing of the attachment are noted or taken back.
Harmless(r) ==
    /\ r \subseteq Race
    /\ r \cap {"unheard", "silent", "untold"} = races \cap {"unheard", "silent", "untold"}

\* The races that steps of the pane note are not those of the attachment.
LEMMA HarmlessRaces ==
    ASSUME IInv
    PROVE  /\ Harmless(races)
           /\ \A at : Harmless(Crossing(at))
           /\ \A r : Harmless(r) => \A call : Harmless(Judged(r, call))
           /\ \A s \in {"unready", "shadowed", "unsized"} : Harmless(races \cup {s})
<1>1. races \subseteq Race
  BY LinkKinds
<1>2. Harmless(races)
  BY <1>1 DEF Harmless
<1>3. \A at : Harmless(Crossing(at))
  BY <1>1 DEF Harmless, Crossing, Race
<1>4. \A r, call : Judged(r, call) \in {r, r \ {"misjudged"}, r \cup {"misjudged"}}
  BY DEF Judged
<1>5. \A r : Harmless(r) => Harmless(r \ {"misjudged"}) /\ Harmless(r \cup {"misjudged"})
  BY DEF Harmless, Race
<1>6. \A s \in {"unready", "shadowed", "unsized"} : Harmless(races \cup {s})
  BY <1>1 DEF Harmless, Race
<1> QED
  BY <1>2, <1>3, <1>4, <1>5, <1>6

\* A step of the pane, or one of the Host that changes no lease
LEMMA AloneKeeps ==
    ASSUME IInv, UNCHANGED <<control, attachment, link, broadcast>>,
           leaving' \in [Clients -> {"no", "expired", "yielded"}], screen' \in Screen,
           left' \in Budget, resubscribe' \in BOOLEAN, ClientTypes', seen' \in Nat,
           Harmless(races')
    PROVE  IInv'
<1>1. HostTypes' /\ LinkTypes' /\ HistoryTypes'
  BY DEF IInv, Types, HostTypes, LinkTypes, HistoryTypes, Harmless
<1>2. Lease'
  BY Unrelated DEF Harmless
<1> QED
  BY <1>1, <1>2 DEF IInv, Types, Lease

\* ... of the pane
LEMMA PaneKeeps ==
    ASSUME IInv, UNCHANGED <<hostVars, linkVars>>, left' \in Budget, ClientTypes',
           seen' \in Nat, Harmless(races')
    PROVE  IInv'
<1>1. /\ leaving' \in [Clients -> {"no", "expired", "yielded"}] /\ screen' \in Screen
      /\ resubscribe' \in BOOLEAN /\ UNCHANGED <<control, attachment, link, broadcast>>
  BY DEF IInv, Types, HostTypes, LinkTypes, hostVars, linkVars
<1> QED
  BY <1>1, AloneKeeps

\* The kinds of what the Client holds
LEMMA ClientKinds ==
    ASSUME IInv
    PROVE  /\ inbox \in Seq(ControlEvent) /\ lane \in Seq(Resize) /\ calls \in Seq(PaneCall)
           /\ resized \subseteq Resized /\ PaneTypes(pane) /\ pane \in Pane
           /\ left \in Budget /\ seen \in Nat /\ screen \in Screen
           /\ screen.size \in Sizes /\ screen.geometry_epoch \in Nat
           /\ leaving \in [Clients -> {"no", "expired", "yielded"}]
           /\ resubscribe \in BOOLEAN
BY DEF IInv, Types, HostTypes, LinkTypes, ClientTypes, HistoryTypes, PaneTypes, Screen

\* What the pane heard
LEMMA Heard ==
    ASSUME IInv, NEW at \in Nat
    PROVE  (IF at > seen THEN at ELSE seen) \in Nat
BY ClientKinds

-----------------------------------------------------------------------------
(* The pane's steps.                                                       *)

\* What the pane hears of is a turn.
LEMMA Hearing ==
    ASSUME IInv, NEW at \in Nat, Hears(at)
    PROVE  seen' \in Nat /\ Harmless(races')
BY Heard, HarmlessRaces DEF Hears

\* The pane asks to attach.
LEMMA AttachKeeps ==
    ASSUME IInv, Attach
    PROVE  IInv'
<1>1. PICK listed \in 1 .. screen.geometry_epoch :
         /\ pane' = [NoPane EXCEPT !.life = "attaching", !.geometry_epoch = listed + 1,
                                   !.next_geometry_epoch = listed + 1,
                                   !.host_geometry_epoch = listed]
         /\ calls' = Append(calls, [Call("attach", "unasked", "sent") EXCEPT
                                       !.geometry_epoch = listed + 1])
  BY DEF Attach
<1>2. listed \in Nat /\ listed + 1 \in Nat
  BY ClientKinds
<1>3. NoPane \in Pane /\ NoPane.pending_geometry = {}
  BY PaneAssumption DEF NoPane, Pane
<1> DEFINE epoch == listed + 1
<1>4. /\ epoch \in Nat
      /\ pane' = [NoPane EXCEPT !.life = "attaching", !.geometry_epoch = epoch,
                                !.next_geometry_epoch = epoch, !.host_geometry_epoch = listed]
      /\ calls' = Append(calls, [Call("attach", "unasked", "sent") EXCEPT
                                    !.geometry_epoch = epoch])
  BY <1>1, <1>2
<1> HIDE DEF epoch
<1>5. PaneTypes(pane')
  BY <1>2, <1>3, <1>4 DEF PaneTypes, Pane
<1>6. Call("attach", "unasked", "sent") \in PaneCall
  BY NewCalls DEF Part
<1>7. [Call("attach", "unasked", "sent") EXCEPT !.geometry_epoch = epoch] \in PaneCall
  BY <1>4, <1>6 DEF PaneCall
<1>8. calls' \in Seq(PaneCall)
  BY <1>4, <1>7, ClientKinds, AppendProperties
<1>9. UNCHANGED <<hostVars, linkVars, lane, inbox, resized, left, seen, races>>
  BY DEF Attach, historyVars
<1>10. ClientTypes'
  BY <1>5, <1>8, <1>9, ClientKinds DEF ClientTypes
<1> QED
  BY <1>9, <1>10, ClientKinds, HarmlessRaces, PaneKeeps

\* The answer to an attachment
LEMMA FinishAttachKeeps ==
    ASSUME IInv, NEW i \in DOMAIN calls, FinishAttach(i)
    PROVE  IInv'
<1>0. /\ calls[i] \in PaneCall /\ calls[i].lease_epoch \in Nat /\ calls[i].at \in Nat
      /\ i \in 1 .. Len(calls)
  BY CallParts
<1>1. UNCHANGED <<hostVars, linkVars, inbox, left>>
  BY DEF FinishAttach
<1>2. RemoveAt(calls, i) \in Seq(PaneCall) /\ Len(RemoveAt(calls, i)) = Len(calls) - 1
  BY ClientKinds, Removed
<1>3. CASE calls[i].lease = "answered"
  <2> DEFINE q == [pane EXCEPT !.life = "running", !.lease_epoch = calls[i].lease_epoch]
  <2>1. /\ Submit(Adopting(q, calls[i])) /\ calls' = RemoveAt(calls, i)
        /\ Hears(calls[i].at) /\ resized' = resized
    BY <1>3 DEF FinishAttach
  <2>2. PaneTypes(q)
    BY <1>0, ClientKinds DEF PaneTypes, Pane
  <2> HIDE DEF q
  <2>3. lane' \in Seq(Resize) /\ PaneTypes(pane')
    BY <1>0, <2>1, <2>2, AdoptingPane, Submitted, ClientKinds
  <2>4. ClientTypes'
    BY <1>1, <1>2, <2>1, <2>3, ClientKinds DEF ClientTypes
  <2> QED
    BY <1>0, <1>1, <2>1, <2>4, Hearing, ClientKinds, PaneKeeps
<1>4. CASE calls[i].lease # "answered"
  <2>1. /\ pane' = NoPane
        /\ calls' = [k \in 1 .. Len(calls) - 1 |->
                        [RemoveAt(calls, i)[k] EXCEPT !.stale = TRUE]]
        /\ lane' = [k \in DOMAIN lane |-> [lane[k] EXCEPT !.stale = TRUE]]
        /\ resized' = {} /\ UNCHANGED <<seen, races>>
    BY <1>4 DEF FinishAttach, historyVars
  <2>2. NoPane \in Pane /\ NoPane.pending_geometry = {}
    BY PaneAssumption DEF NoPane, Pane
  <2>3. PaneTypes(pane')
    BY <2>1, <2>2 DEF PaneTypes
  <2>4. calls' \in Seq(PaneCall)
    <3> DEFINE others == RemoveAt(calls, i)
               n == Len(calls) - 1
    <3>1. others \in Seq(PaneCall) /\ Len(others) = n /\ n \in Nat
      <4>1. Len(others) \in Nat
        BY <1>2, LenProperties
      <4> QED
        BY <1>2, <4>1
    <3>2. calls' = [k \in 1 .. n |-> [others[k] EXCEPT !.stale = TRUE]]
      BY <2>1
    <3> HIDE DEF others, n
    <3>3. ASSUME NEW k \in 1 .. n PROVE [others[k] EXCEPT !.stale = TRUE] \in PaneCall
      <4>1. others[k] \in PaneCall
        BY <3>1, ElementOfSeq
      <4> QED
        BY <4>1 DEF PaneCall
    <3>4. calls' \in [1 .. n -> PaneCall]
      BY <3>2, <3>3
    <3> QED
      BY <3>1, <3>4, Numbered
  <2>5. lane' \in Seq(Resize)
    <3>1. DOMAIN lane = 1 .. Len(lane) /\ Len(lane) \in Nat
      BY ClientKinds, LenProperties
    <3>2. ASSUME NEW k \in 1 .. Len(lane) PROVE [lane[k] EXCEPT !.stale = TRUE] \in Resize
      <4>1. lane[k] \in Resize
        BY ClientKinds, ElementOfSeq
      <4> QED
        BY <4>1 DEF Resize
    <3>3. lane' \in [1 .. Len(lane) -> Resize]
      BY <2>1, <3>1, <3>2
    <3> QED
      BY <3>1, <3>3, Numbered
  <2>6. ClientTypes'
    BY <1>1, <2>1, <2>3, <2>4, <2>5, ClientKinds DEF ClientTypes
  <2> QED
    BY <1>1, <2>1, <2>6, ClientKinds, HarmlessRaces, PaneKeeps
<1> QED
  BY <1>3, <1>4

\* The answer to a reclaimed lease, or to the verification of a grant
LEMMA FinishReclaimKeeps ==
    ASSUME IInv, NEW i \in DOMAIN calls, FinishReclaim(i) \/ FinishGrant(i)
    PROVE  IInv'
<1> DEFINE p == WithLease(Adopting(pane, calls[i]), calls[i].lease_epoch)
           q == Reclaiming(p, calls[i])
<1>0. /\ calls[i] \in PaneCall /\ calls[i].lease_epoch \in Nat /\ calls[i].at \in Nat
  BY CallParts
<1>1. UNCHANGED <<hostVars, linkVars, inbox, resized, left>> /\ calls' = RemoveAt(calls, i)
  BY DEF FinishReclaim, FinishGrant
<1>2. RemoveAt(calls, i) \in Seq(PaneCall)
  BY ClientKinds, Removed
<1>3. PaneTypes(p) /\ PaneTypes(q)
  BY <1>0, ClientKinds, AdoptingPane, LeasedPane
<1>4. Submit(q) \/ (pane' = p /\ lane' = lane)
  BY DEF FinishReclaim, FinishGrant
<1>5. lane' \in Seq(Resize) /\ PaneTypes(pane')
  BY <1>3, <1>4, Submitted, ClientKinds
<1>6. ClientTypes'
  BY <1>1, <1>2, <1>5, ClientKinds DEF ClientTypes
<1>7. seen' \in Nat
  BY <1>0, Heard, ClientKinds DEF FinishReclaim, FinishGrant
<1>8. Harmless(races')
  <2>1. races' \in {Judged(Crossing(calls[i].at), calls[i]), Judged(races, calls[i])}
    BY DEF FinishReclaim, FinishGrant
  <2> QED
    BY <2>1, HarmlessRaces
<1> QED
  BY <1>1, <1>6, <1>7, <1>8, ClientKinds, PaneKeeps

\* An answer nobody waits for
LEMMA DiscardKeeps ==
    ASSUME IInv, NEW i \in DOMAIN calls, Discard(i)
    PROVE  IInv'
<1>1. UNCHANGED <<hostVars, linkVars, lane, inbox, resized, pane, left, seen, races>>
      /\ calls' = RemoveAt(calls, i)
  BY DEF Discard, historyVars
<1>2. calls' \in Seq(PaneCall)
  BY <1>1, ClientKinds, Removed
<1>3. ClientTypes'
  BY <1>1, <1>2, ClientKinds DEF ClientTypes
<1> QED
  BY <1>1, <1>3, ClientKinds, HarmlessRaces, PaneKeeps

\* The next event for the pane
LEMMA FirstEvent ==
    ASSUME IInv, inbox # <<>>
    PROVE  /\ Head(inbox).at \in Nat /\ Head(inbox).lease_epoch \in Nat
           /\ Tail(inbox) \in Seq(ControlEvent)
<1>1. Head(inbox) \in ControlEvent /\ Tail(inbox) \in Seq(ControlEvent)
  BY ClientKinds, HeadTailProperties
<1> QED
  BY <1>1 DEF ControlEvent

\* A grant: it is verified, or taken as it is by a pane that attaches.
LEMMA HearGrantKeeps ==
    ASSUME IInv, HearGrant
    PROVE  IInv'
<1> DEFINE e == Head(inbox)
<1>0. e.at \in Nat /\ e.lease_epoch \in Nat /\ Tail(inbox) \in Seq(ControlEvent)
  BY FirstEvent DEF HearGrant
<1>1. UNCHANGED <<hostVars, linkVars, lane, resized, left>> /\ inbox' = Tail(inbox)
      /\ Hears(e.at)
  BY DEF HearGrant
<1>2. calls' \in Seq(PaneCall) /\ PaneTypes(pane')
  <2>1. CASE /\ pane' = [pane EXCEPT !.pending_grant = e.lease_epoch]
             /\ Ask([Call("grant", "sent", "unasked") EXCEPT !.lease_epoch = e.lease_epoch])
    <3>1. PaneTypes(pane')
      BY <1>0, <2>1, ClientKinds DEF PaneTypes, Pane
    <3>2. Call("grant", "sent", "unasked") \in PaneCall
      BY NewCalls DEF Part
    <3>3. [Call("grant", "sent", "unasked") EXCEPT !.lease_epoch = e.lease_epoch] \in PaneCall
      BY <1>0, <3>2 DEF PaneCall
    <3> QED
      BY <2>1, <3>1, <3>3, Asked
  <2>2. CASE pane' = WithLease(pane, e.lease_epoch) /\ calls' = calls
    BY <1>0, <2>2, LeasedPane, ClientKinds
  <2>3. CASE pane' = pane /\ calls' = calls
    BY <2>3, ClientKinds
  <2> QED
    BY <2>1, <2>2, <2>3 DEF HearGrant
<1>3. ClientTypes'
  BY <1>0, <1>1, <1>2, ClientKinds DEF ClientTypes
<1> QED
  BY <1>0, <1>1, <1>3, Hearing, ClientKinds, PaneKeeps

\* The lease is gone.
LEMMA HearRevocationKeeps ==
    ASSUME IInv, HearRevocation
    PROVE  IInv'
<1>0. Head(inbox).at \in Nat /\ Tail(inbox) \in Seq(ControlEvent)
  BY FirstEvent DEF HearRevocation
<1>1. /\ UNCHANGED <<hostVars, linkVars, lane, calls, resized, left>>
      /\ inbox' = Tail(inbox) /\ pane' = WithLease(pane, 0) /\ Hears(Head(inbox).at)
  BY DEF HearRevocation
<1>2. ClientTypes'
  BY <1>0, <1>1, LeasedPane, ClientKinds DEF ClientTypes
<1> QED
  BY <1>0, <1>1, <1>2, Hearing, ClientKinds, PaneKeeps

\* The connection is there again.
LEMMA HearReadyKeeps ==
    ASSUME IInv, HearReady
    PROVE  IInv'
<1>0. Head(inbox).at \in Nat /\ Tail(inbox) \in Seq(ControlEvent)
  BY FirstEvent DEF HearReady
<1>1. /\ UNCHANGED <<hostVars, linkVars, lane, resized, pane, left>>
      /\ inbox' = Tail(inbox)
      /\ calls' = calls \/ Ask(Call("reclaim", "sent", "sent"))
      /\ seen' = IF Head(inbox).at > seen THEN Head(inbox).at ELSE seen
      /\ races' = IF pane.life = "attaching" THEN races \cup {"unready"} ELSE races
  BY DEF HearReady
<1>2. Call("reclaim", "sent", "sent") \in PaneCall
  BY NewCalls DEF Part
<1>3. calls' \in Seq(PaneCall)
  BY <1>1, <1>2, Asked, ClientKinds
<1>4. ClientTypes'
  BY <1>0, <1>1, <1>3, ClientKinds DEF ClientTypes
<1>5. seen' \in Nat /\ Harmless(races')
  BY <1>0, <1>1, Heard, HarmlessRaces
<1> QED
  BY <1>1, <1>4, <1>5, ClientKinds, PaneKeeps

\* Events for the pane are lost.
LEMMA LosePaneEventsKeeps ==
    ASSUME IInv, LosePaneEvents
    PROVE  IInv'
<1>1. PICK n \in DOMAIN inbox :
         inbox' = <<Event("ready", 0)>> \o SubSeq(inbox, n + 1, Len(inbox))
  BY DEF LosePaneEvents
<1>2. /\ UNCHANGED <<hostVars, linkVars, lane, calls, resized, pane, seen, races>>
      /\ left' \in Budget
  BY Spending DEF LosePaneEvents, historyVars
<1>3. Event("ready", 0) \in ControlEvent
  BY LinkKinds DEF Event, ControlEvent, Type
<1>4. inbox' \in Seq(ControlEvent)
  BY <1>1, <1>3, ClientKinds, LastOfLagged
<1>5. ClientTypes'
  BY <1>2, <1>4, ClientKinds DEF ClientTypes
<1> QED
  BY <1>2, <1>5, ClientKinds, HarmlessRaces, PaneKeeps

\* The view gets another size, which is pending or sent.
LEMMA ResizeViewKeeps ==
    ASSUME IInv, ResizeView
    PROVE  IInv'
<1>1. PICK size \in Sizes :
         LET p == [pane EXCEPT !.local_geometry = size]
             q == [p EXCEPT !.pending_geometry = {size}]
         IN  \/ pane' \in {p, q} /\ lane' = lane
             \/ Submit(q)
  BY DEF ResizeView
<1> DEFINE p == [pane EXCEPT !.local_geometry = size]
           q == [p EXCEPT !.pending_geometry = {size}]
<1>2. /\ UNCHANGED <<hostVars, linkVars, inbox, calls, resized, seen>>
      /\ left' \in Budget /\ races' \in {races, races \cup {"shadowed"}}
  BY Spending DEF ResizeView
<1>3. PaneTypes(p)
  BY ClientKinds DEF PaneTypes, Pane
<1>4. PaneTypes(q)
  BY <1>3 DEF PaneTypes, Pane
<1>5. (pane' \in {p, q} /\ lane' = lane) \/ Submit(q)
  BY <1>1
<1> HIDE DEF p, q
<1>6. lane' \in Seq(Resize) /\ PaneTypes(pane')
  BY <1>3, <1>4, <1>5, Submitted, ClientKinds
<1>7. ClientTypes'
  BY <1>2, <1>6, ClientKinds DEF ClientTypes
<1> QED
  BY <1>2, <1>7, ClientKinds, HarmlessRaces, PaneKeeps

\* The answer to a resize
LEMMA HearResizedKeeps ==
    ASSUME IInv, HearResized
    PROVE  IInv'
<1>1. PICK r \in resized :
         /\ resized' = resized \ {r}
         /\ pane' = IF r.ok
                    THEN [pane EXCEPT !.host_geometry_epoch =
                                         IF r.geometry_epoch > @ THEN r.geometry_epoch ELSE @]
                    ELSE [pane EXCEPT
                            !.geometry_epoch = IF @ = r.geometry_epoch
                                               THEN pane.host_geometry_epoch ELSE @,
                            !.pending_geometry = IF @ = {} THEN {r.size} ELSE @]
         /\ races' = races \/ races' = races \cup {"shadowed"}
  BY DEF HearResized
<1>2. UNCHANGED <<hostVars, linkVars, lane, inbox, calls, left, seen>>
  BY DEF HearResized
<1>3. r.geometry_epoch \in Nat /\ r.size \in Sizes
  BY ClientKinds DEF Resized
<1>4. PaneTypes(pane')
  <2>1. CASE r.ok
    BY <1>1, <1>3, <2>1, ClientKinds DEF PaneTypes, Pane
  <2>2. CASE ~r.ok
    BY <1>1, <1>3, <2>2, ClientKinds DEF PaneTypes, Pane
  <2> QED
    BY <2>1, <2>2
<1>5. ClientTypes'
  BY <1>1, <1>2, <1>4, ClientKinds DEF ClientTypes
<1> QED
  BY <1>1, <1>2, <1>5, ClientKinds, HarmlessRaces, PaneKeeps

\* The person takes control.
LEMMA TakeControlKeeps ==
    ASSUME IInv, TakeControl
    PROVE  IInv'
<1>1. /\ UNCHANGED <<hostVars, linkVars, lane, inbox, resized, pane, seen, races>>
      /\ left' \in Budget
  BY Spending DEF TakeControl, historyVars
<1>2. Call("take", "unasked", "sent") \in PaneCall
  BY NewCalls DEF Part
<1>3. calls' \in Seq(PaneCall)
  BY <1>2, Asked DEF TakeControl
<1>4. ClientTypes'
  BY <1>1, <1>3, ClientKinds DEF ClientTypes
<1> QED
  BY <1>1, <1>4, ClientKinds, HarmlessRaces, PaneKeeps

-----------------------------------------------------------------------------
(* The Host's steps.                                                       *)

\* A decision that changes nothing but lease and events
LEMMA DecisionKeeps ==
    ASSUME IInv, NEW new, Moves(new), Decide(new, Events(new)),
           UNCHANGED <<screen, attachment, link, resubscribe, seen>>, ClientTypes',
           leaving' \in [Clients -> {"no", "expired", "yielded"}], left' \in Budget
    PROVE  IInv'
<1>1. /\ control' \in Control /\ control'.lease_epoch < control'.next_lease_epoch
      /\ broadcast' \in Seq(ControlEvent) /\ races' \subseteq Race /\ Lease'
  BY Decided
<1>2. HostTypes' /\ LinkTypes' /\ HistoryTypes'
  BY <1>1, ClientKinds, LinkKinds DEF HostTypes, LinkTypes, HistoryTypes
<1> QED
  BY <1>1, <1>2 DEF IInv, Types, Lease

\* The Client is as it was.
LEMMA ClientSame ==
    ASSUME IInv, UNCHANGED <<inbox, lane, calls, resized, pane>>
    PROVE  ClientTypes'
BY ClientKinds DEF ClientTypes

\* Another Client takes control.
LEMMA RivalTakesKeeps ==
    ASSUME IInv, RivalTakes
    PROVE  IInv'
<1>1. Moves(Handed(control, Rival))
  BY HandedMoves, LinkKinds DEF Clients
<1>2. /\ Decide(Handed(control, Rival), Events(Handed(control, Rival)))
      /\ UNCHANGED <<leaving, screen, attachment, link, resubscribe, lane, seen>>
      /\ UNCHANGED <<inbox, calls, resized, pane>>
      /\ left' \in Budget
  BY Spending DEF RivalTakes, clientVars
<1>3. ClientTypes'
  BY <1>2, ClientSame
<1> QED
  BY <1>1, <1>2, <1>3, ClientKinds, DecisionKeeps

\* Another Client resizes the terminal.
LEMMA RivalResizesKeeps ==
    ASSUME IInv, RivalResizes
    PROVE  IInv'
<1>1. PICK size \in Sizes :
         screen' = [size |-> size, geometry_epoch |-> screen.geometry_epoch + 1]
  BY DEF RivalResizes
<1>2. screen.geometry_epoch + 1 \in Nat
  BY ClientKinds
<1>3. screen' \in Screen
  BY <1>1, <1>2 DEF Screen
<1>4. /\ UNCHANGED <<control, leaving, lane, attachment, link, resubscribe, broadcast>>
      /\ UNCHANGED <<inbox, calls, resized, pane, seen, races>>
      /\ left' \in Budget
  BY Spending DEF RivalResizes, linkVars, clientVars, historyVars
<1>5. ClientTypes'
  BY <1>4, ClientSame
<1> QED
  BY <1>3, <1>4, <1>5, ClientKinds, HarmlessRaces, AloneKeeps

\* The grace timer of a connection ends.
LEMMA LeaveKeeps ==
    ASSUME IInv, NEW c \in Clients, Leave(c)
    PROVE  IInv'
<1>1. /\ UNCHANGED <<control, screen, lane, attachment, link, resubscribe, broadcast>>
      /\ UNCHANGED <<inbox, calls, resized, pane, seen, races>>
      /\ left' \in Budget
      /\ leaving' = [leaving EXCEPT ![c] = "expired"]
  BY Spending DEF Leave, linkVars, clientVars, historyVars
<1>2. leaving' \in [Clients -> {"no", "expired", "yielded"}]
  BY <1>1, ClientKinds
<1>3. ClientTypes'
  BY <1>1, ClientSame
<1> QED
  BY <1>1, <1>2, <1>3, ClientKinds, HarmlessRaces, AloneKeeps

\* release_client gives up the leases.
LEMMA YieldLeasesKeeps ==
    ASSUME IInv, NEW c \in Clients, YieldLeases(c)
    PROVE  IInv'
<1> DEFINE here == control.present /\ c # Me
           ctl == [control EXCEPT !.present = here]
           new == Yielded(ctl, c)
<1>1. here \in BOOLEAN
  OBVIOUS
<1>2. new = Yielded([control EXCEPT !.present = @ /\ c # Me], c)
  OBVIOUS
<1>3. /\ Decide(new, Events(new))
      /\ UNCHANGED <<screen, attachment, link, resubscribe, lane, left, seen>>
      /\ UNCHANGED <<inbox, calls, resized, pane>>
      /\ leaving' = [leaving EXCEPT ![c] = "yielded"]
  BY <1>2 DEF YieldLeases, clientVars
<1> HIDE DEF here
<1>4. /\ ctl \in Control /\ ctl.holder = control.holder /\ ctl.controller = control.controller
      /\ ctl.lease_epoch = control.lease_epoch
      /\ ctl.next_lease_epoch = control.next_lease_epoch
  BY <1>1, LinkKinds DEF Control
<1> HIDE DEF ctl
<1>5. ctl.lease_epoch < ctl.next_lease_epoch /\ Holding(ctl)
  BY <1>4, LinkKinds DEF Holding
<1>6. Moves(new)
  BY <1>4, <1>5, YieldedMoves
<1> HIDE DEF new
<1>7. leaving' \in [Clients -> {"no", "expired", "yielded"}]
  BY <1>3, ClientKinds
<1>8. ClientTypes'
  BY <1>3, ClientSame
<1> QED
  BY <1>3, <1>6, <1>7, <1>8, ClientKinds, DecisionKeeps

\* release_client hands the control to a viewer, or to no one.
LEMMA HandOverKeeps ==
    ASSUME IInv, NEW c \in Clients, HandOver(c)
    PROVE  IInv'
<1>1. PICK viewers \in Viewers(c) :
         LET new == IF control.controller # c THEN control
                    ELSE IF viewers = {} THEN [control EXCEPT !.controller = Nobody]
                    ELSE Handed(control, CHOOSE v \in viewers : TRUE)
         IN  Decide(new, Events(new))
  BY DEF HandOver
<1> DEFINE new == IF control.controller # c THEN control
                  ELSE IF viewers = {} THEN [control EXCEPT !.controller = Nobody]
                  ELSE Handed(control, CHOOSE v \in viewers : TRUE)
<1>2. Decide(new, Events(new))
  BY <1>1
<1>3. viewers \subseteq Clients
  BY DEF Viewers, Clients
<1>4. Moves(new)
  <2>1. CASE control.controller # c
    BY <2>1, LinkKinds DEF Moves
  <2>2. CASE control.controller = c /\ viewers = {}
    <3>1. new = [control EXCEPT !.controller = Nobody]
      BY <2>2
    <3> HIDE DEF new
    <3>2. /\ new \in Control /\ new.holder = control.holder /\ new.controller = Nobody
          /\ new.lease_epoch = control.lease_epoch
          /\ new.next_lease_epoch = control.next_lease_epoch
      BY <3>1, LinkKinds DEF Control
    <3> QED
      BY <3>2, LinkKinds, PaneAssumption DEF Moves, Holding
  <2>3. CASE control.controller = c /\ viewers # {}
    <3>1. (CHOOSE v \in viewers : TRUE) \in Clients
      BY <1>3, <2>3
    <3>2. Moves(Handed(control, CHOOSE v \in viewers : TRUE))
      BY <3>1, HandedMoves, LinkKinds
    <3> QED
      BY <2>3, <3>2
  <2> QED
    BY <2>1, <2>2, <2>3
<1> HIDE DEF new
<1>5. /\ UNCHANGED <<screen, attachment, link, resubscribe, lane, left, seen>>
      /\ UNCHANGED <<inbox, calls, resized, pane>>
      /\ leaving' = [leaving EXCEPT ![c] = "no"]
  BY DEF HandOver, clientVars
<1>6. leaving' \in [Clients -> {"no", "expired", "yielded"}]
  BY <1>5, ClientKinds
<1>7. ClientTypes'
  BY <1>5, ClientSame
<1> QED
  BY <1>2, <1>4, <1>5, <1>6, <1>7, ClientKinds, DecisionKeeps

-----------------------------------------------------------------------------
(* The connection's steps.                                                 *)

\* A request is answered.
LEMMA AnsweredCall ==
    ASSUME IInv, NEW i \in DOMAIN calls, NEW call \in PaneCall,
           calls' = [calls EXCEPT ![i] = call], UNCHANGED <<inbox, lane, resized, pane>>
    PROVE  ClientTypes'
<1>1. calls' \in Seq(PaneCall)
  BY CallParts, ExceptSeq
<1> QED
  BY <1>1, ClientKinds DEF ClientTypes

\* The attachment is made by an answer that leaves the lease alone.
LEMMA RegisteredKeeps ==
    ASSUME IInv, link # "down", attachment' = Registered,
           UNCHANGED <<hostVars, link, broadcast, left, seen, races>>,
           resubscribe' \in BOOLEAN, ClientTypes'
    PROVE  IInv'
<1>1. UNCHANGED <<control, leaving, screen>>
  BY DEF hostVars
<1>2. attachment' \in Attachments /\ Lease'
  BY <1>1, RegisteredIs, Reattached
<1>3. HostTypes' /\ LinkTypes' /\ HistoryTypes'
  BY <1>1, <1>2, ClientKinds, LinkKinds DEF HostTypes, LinkTypes, HistoryTypes
<1> QED
  BY <1>2, <1>3 DEF IInv, Types, Lease

\* RequestCheckpoint is answered.
LEMMA HandleCheckpointKeeps ==
    ASSUME IInv, NEW i \in DOMAIN calls, HandleCheckpoint(i)
    PROVE  IInv'
<1> DEFINE call == [calls[i] EXCEPT !.checkpoint = "answered", !.size = screen.size,
                                    !.geometry_epoch = screen.geometry_epoch]
<1>1. /\ calls' = [calls EXCEPT ![i] = call] /\ attachment' = Registered /\ link # "down"
      /\ UNCHANGED <<hostVars, link, resubscribe, broadcast, lane, inbox, resized, pane, left,
                     seen, races>>
  BY CallParts, LenProperties DEF HandleCheckpoint, historyVars, PaneCall
<1>2. call \in PaneCall
  BY CallParts, ClientKinds DEF PaneCall, Part
<1> HIDE DEF call
<1>3. ClientTypes'
  BY <1>1, <1>2, AnsweredCall
<1> QED
  BY <1>1, <1>3, ClientKinds, RegisteredKeeps

\* The Client core has asked for the stream again.
LEMMA HandleResubscribeKeeps ==
    ASSUME IInv, HandleResubscribe
    PROVE  IInv'
<1>1. /\ attachment' = Registered /\ link # "down" /\ resubscribe' = FALSE
      /\ UNCHANGED <<hostVars, link, broadcast, left, seen, races>>
      /\ UNCHANGED <<inbox, lane, calls, resized, pane>>
  BY DEF HandleResubscribe, historyVars, clientVars
<1>2. ClientTypes'
  BY <1>1, ClientSame
<1> QED
  BY <1>1, <1>2, RegisteredKeeps

\* What a request for the lease changes but lease, attachment and events
LEMMA AcquiredKeeps ==
    ASSUME IInv, Acquire, UNCHANGED <<link, leaving, resubscribe, left, seen>>, link # "down",
           races' \cap {"unheard", "silent", "untold"}
               = (races \cup AcquireRaces) \cap {"unheard", "silent", "untold"},
           races' \subseteq Race,
           IF Answered = 0 THEN attachment' \in {attachment, Attached(0)}
                           ELSE attachment' = Attached(Answered),
           screen' \in Screen, ClientTypes'
    PROVE  IInv'
<1>1. /\ control' \in Control /\ control'.lease_epoch < control'.next_lease_epoch
      /\ broadcast' \in Seq(ControlEvent) /\ attachment' \in Attachments /\ Lease'
  BY AcquireKeeps
<1>2. HostTypes' /\ LinkTypes' /\ HistoryTypes'
  BY <1>1, ClientKinds, LinkKinds DEF HostTypes, LinkTypes, HistoryTypes
<1> QED
  BY <1>1, <1>2 DEF IInv, Types, Lease

\* The epoch and the turn of an answer
LEMMA AnsweredKinds ==
    ASSUME IInv, Acquire
    PROVE  Answered \in Nat /\ control'.turn \in Nat
<1>1. Moves(Acquired(control)) /\ control' = Acquired(control)
  BY AcquiredParts, LinkKinds DEF Acquire
<1>2. Acquired(control).turn \in Nat /\ Acquired(control).lease_epoch \in Nat
  BY <1>1 DEF Moves, Control
<1> QED
  BY <1>1, <1>2 DEF Answered

\* The races of a request for the lease
LEMMA AcquireRaceKinds == AcquireRaces \subseteq {"unheard", "silent"}
BY DEF AcquireRaces, Unheard

\* AcquireTerminalLease is answered.
LEMMA HandleAcquireKeeps ==
    ASSUME IInv, NEW i \in DOMAIN calls, HandleAcquire(i)
    PROVE  IInv'
<1> DEFINE call == [calls[i] EXCEPT !.lease = "answered", !.lease_epoch = Answered,
                                    !.at = control'.turn]
<1>1. /\ Acquire /\ link # "down" /\ calls' = [calls EXCEPT ![i] = call]
      /\ attachment' = IF Answered = 0 THEN attachment ELSE Attached(Answered)
      /\ races' = races \cup AcquireRaces
      /\ UNCHANGED <<leaving, screen, link, resubscribe, lane, inbox, resized, pane, left, seen>>
  BY CallParts, LenProperties DEF HandleAcquire, IsNext, PaneCall
<1>2. Answered \in Nat /\ control'.turn \in Nat
  BY <1>1, AnsweredKinds
<1>3. call \in PaneCall
  BY <1>2, CallParts DEF PaneCall, Part
<1> HIDE DEF call
<1>4. ClientTypes'
  BY <1>1, <1>3, AnsweredCall
<1>5. races' \subseteq Race
  BY <1>1, AcquireRaceKinds, LinkKinds DEF Race
<1> QED
  BY <1>1, <1>4, <1>5, ClientKinds, AcquiredKeeps

\* AttachTerminal is answered.
LEMMA HandleAttachKeeps ==
    ASSUME IInv, NEW i \in DOMAIN calls, HandleAttach(i)
    PROVE  IInv'
<1> DEFINE shown == IF Answered # 0 /\ calls[i].geometry_epoch > screen.geometry_epoch
                    THEN [size |-> calls[i].size, geometry_epoch |-> calls[i].geometry_epoch]
                    ELSE screen
           call == [calls[i] EXCEPT !.lease = "answered", !.checkpoint = "answered",
                                    !.lease_epoch = Answered, !.at = control'.turn,
                                    !.size = shown.size,
                                    !.geometry_epoch = shown.geometry_epoch]
           unsized == IF Answered # 0 /\ shown.size # calls[i].size THEN {"unsized"} ELSE {}
<1>1. /\ Acquire /\ link # "down" /\ calls' = [calls EXCEPT ![i] = call]
      /\ attachment' = Attached(Answered) /\ screen' = shown
      /\ races' = races \cup AcquireRaces \cup unsized
      /\ UNCHANGED <<leaving, link, resubscribe, lane, inbox, resized, pane, left, seen>>
  BY DEF HandleAttach, IsNext
<1>2. Answered \in Nat /\ control'.turn \in Nat
  BY <1>1, AnsweredKinds
<1>3. shown \in Screen /\ shown.size \in Sizes /\ shown.geometry_epoch \in Nat
  BY CallParts, ClientKinds DEF Screen
<1>4. unsized \subseteq {"unsized"}
  OBVIOUS
<1> HIDE DEF shown, unsized
<1>5. call \in PaneCall
  BY <1>2, <1>3, CallParts DEF PaneCall, Part
<1> HIDE DEF call
<1>6. ClientTypes'
  BY <1>1, <1>5, AnsweredCall
<1>7. /\ races' \subseteq Race
      /\ races' \cap {"unheard", "silent", "untold"}
            = (races \cup AcquireRaces) \cap {"unheard", "silent", "untold"}
  BY <1>1, <1>4, AcquireRaceKinds, LinkKinds DEF Race
<1>8. IF Answered = 0 THEN attachment' \in {attachment, Attached(0)}
                      ELSE attachment' = Attached(Answered)
  BY <1>1
<1> QED
  BY <1>1, <1>3, <1>6, <1>7, <1>8, AcquiredKeeps

\* TakeTerminalController is answered.
LEMMA HandleTakeKeeps ==
    ASSUME IInv, NEW i \in DOMAIN calls, HandleTake(i)
    PROVE  IInv'
<1> DEFINE handed == Handed(control, Me)
           new == [handed EXCEPT !.asked = TRUE]
<1>1. Moves(handed) /\ handed \in Control
  BY HandedMoves, LinkKinds DEF Clients, Moves
<1>2. /\ Decide(new, Events(new)) /\ calls' = RemoveAt(calls, i)
      /\ UNCHANGED <<leaving, screen, attachment, link, resubscribe, lane, inbox, resized, pane,
                     left, seen>>
  BY DEF HandleTake
<1> HIDE DEF handed
<1>3. /\ new \in Control /\ new.holder = handed.holder /\ new.controller = handed.controller
      /\ new.lease_epoch = handed.lease_epoch /\ new.next_lease_epoch = handed.next_lease_epoch
  BY <1>1 DEF Control
<1> HIDE DEF new
<1>4. Moves(new)
  BY <1>1, <1>3 DEF Moves, Holding
<1>5. calls' \in Seq(PaneCall)
  BY <1>2, ClientKinds, Removed
<1>6. ClientTypes'
  BY <1>2, <1>5, ClientKinds DEF ClientTypes
<1> QED
  BY <1>2, <1>4, <1>6, ClientKinds, DecisionKeeps

\* ResizeTerminal is answered.
LEMMA HandleResizeKeeps ==
    ASSUME IInv, HandleResize
    PROVE  IInv'
<1> DEFINE r == Head(lane)
<1>1. r \in Resize /\ Tail(lane) \in Seq(Resize)
  BY ClientKinds, HeadTailProperties DEF HandleResize
<1>2. r.geometry_epoch \in Nat /\ r.size \in Sizes
  BY <1>1 DEF Resize
<1>3. PICK ok \in BOOLEAN :
         /\ screen' = IF ok THEN [size |-> r.size, geometry_epoch |-> r.geometry_epoch]
                            ELSE screen
         /\ resized' = IF r.stale THEN resized
                       ELSE resized \cup {[ok |-> ok, size |-> r.size,
                                           geometry_epoch |-> r.geometry_epoch]}
  <2> DEFINE ok == r.bound /\ Accepts(r.lease_epoch) /\ r.geometry_epoch > screen.geometry_epoch
  <2>1. ok \in BOOLEAN
    OBVIOUS
  <2>2. /\ screen' = IF ok THEN [size |-> r.size, geometry_epoch |-> r.geometry_epoch]
                           ELSE screen
        /\ resized' = IF r.stale THEN resized
                      ELSE resized \cup {[ok |-> ok, size |-> r.size,
                                          geometry_epoch |-> r.geometry_epoch]}
    BY DEF HandleResize
  <2> HIDE DEF ok
  <2> QED
    BY <2>1, <2>2
<1>4. /\ UNCHANGED <<control, leaving, attachment, link, resubscribe, broadcast>>
      /\ UNCHANGED <<inbox, calls, pane, left, seen, races>> /\ lane' = Tail(lane)
  BY DEF HandleResize, linkVars, historyVars
<1> HIDE DEF r
<1>5. screen' \in Screen
  BY <1>2, <1>3, ClientKinds DEF Screen
<1>6. resized' \subseteq Resized
  BY <1>2, <1>3, ClientKinds DEF Resized
<1>7. ClientTypes'
  BY <1>1, <1>4, <1>6, ClientKinds DEF ClientTypes
<1> QED
  BY <1>4, <1>5, <1>7, ClientKinds, HarmlessRaces, AloneKeeps

\* The forwarder subscribes: it has nothing to read yet.
LEMMA SubscribeKeeps ==
    ASSUME IInv, Subscribe
    PROVE  IInv'
<1>1. /\ link = "serving" /\ link' = "subscribed"
      /\ UNCHANGED <<control, leaving, screen, attachment, resubscribe, broadcast, left, seen, races>>
      /\ UNCHANGED <<inbox, lane, calls, resized, pane>>
  BY DEF Subscribe, hostVars, clientVars, historyVars
<1>2. ClientTypes'
  BY <1>1, ClientSame
<1>3. HostTypes' /\ LinkTypes' /\ HistoryTypes' /\ Holding(control)'
  BY <1>1, ClientKinds, LinkKinds DEF HostTypes, LinkTypes, HistoryTypes, Holding
<1>4. Linked'
  BY <1>1, LinkKinds DEF Linked
<1>5. Follows'
  <2>1. Agrees => Agrees'
    BY <1>1 DEF Agrees
  <2>2. \A e : LastFits(e) => LastFits(e)'
    BY <1>1 DEF LastFits
  <2>3. Told => Told'
    BY <1>1, <2>1, <2>2 DEF Told
  <2> QED
    BY <1>1, <2>3 DEF IInv, Follows, Spared
<1> QED
  BY <1>2, <1>3, <1>4, <1>5 DEF IInv, Types

\* The forwarder reads the oldest event: what it makes of the attachment, and what it sends to
\* the pane, is right if it was the last one.
LEMMA ReadKeeps ==
    ASSUME IInv, broadcast # <<>>, broadcast' = Tail(broadcast),
           attachment' \in Attachments, inbox' \in Seq(ControlEvent),
           attachment'.attached => attachment.attached,
           LastFits(Head(broadcast)) /\ attachment.attached => Agrees',
           races' \in {races, races \cup {"untold"}},
           UNCHANGED <<hostVars, link, resubscribe, lane, calls, resized, pane, left, seen>>
    PROVE  IInv'
<1>1. UNCHANGED <<control, leaving, screen>>
  BY DEF hostVars
<1>2. /\ Tail(broadcast) \in Seq(ControlEvent)
      /\ Tail(broadcast) = <<>> => Head(broadcast) = broadcast[Len(broadcast)]
      /\ Tail(broadcast) # <<>> => Tail(broadcast)[Len(Tail(broadcast))] = broadcast[Len(broadcast)]
  BY LinkKinds, LastOfTail
<1>3. ClientTypes'
  BY ClientKinds DEF ClientTypes
<1>4. races' \subseteq Race
  BY LinkKinds DEF Race
<1>5. HostTypes' /\ LinkTypes' /\ HistoryTypes' /\ Holding(control)'
  BY <1>1, <1>2, <1>4, ClientKinds, LinkKinds DEF HostTypes, LinkTypes, HistoryTypes, Holding
<1>6. Linked'
  BY LinkKinds DEF Linked
<1>7. Follows'
  <2>1. SUFFICES ASSUME Spared' PROVE Told'
    BY DEF Follows
  <2>2. Told
    BY <2>1 DEF IInv, Follows, Spared
  <2>3. LastFits(broadcast[Len(broadcast)])
    BY <2>2 DEF Told
  <2> DEFINE rest == Tail(broadcast)
  <2>5. CASE rest = <<>>
    <3>1. LastFits(Head(broadcast))
      BY <1>2, <2>3, <2>5
    <3> QED
      BY <2>5, <3>1 DEF Told
  <2>6. CASE rest # <<>>
    <3>1. broadcast' = rest /\ rest # <<>> /\ rest[Len(rest)] = broadcast[Len(broadcast)]
      BY <1>2, <2>6
    <3> HIDE DEF rest
    <3>2. broadcast'[Len(broadcast')] = broadcast[Len(broadcast)]
      BY <3>1
    <3>3. LastFits(broadcast[Len(broadcast)])'
      BY <1>1, <2>3, <3>2 DEF LastFits
    <3> QED
      BY <3>1, <3>3 DEF Told
  <2> QED
    BY <2>5, <2>6
<1> QED
  BY <1>3, <1>5, <1>6, <1>7 DEF IInv, Types

\* An event is read: the attachment becomes what it tells.
LEMMA ForwardEventKeeps ==
    ASSUME IInv, ForwardEvent
    PROVE  IInv'
<1> DEFINE e == Head(broadcast)
<1>1. /\ broadcast # <<>> /\ e.type # "lagged" /\ broadcast' = Tail(broadcast)
      /\ attachment' = IF ~attachment.attached THEN attachment
                       ELSE IF e.type = "granted" THEN Attached(e.lease_epoch)
                       ELSE [attachment EXCEPT !.mode = "observer"]
      /\ inbox' = Append(inbox, e)
      /\ UNCHANGED <<hostVars, link, resubscribe, lane, calls, resized, pane, left, seen, races>>
      /\ UNCHANGED control
  BY DEF ForwardEvent, hostVars, historyVars
<1>2. e \in ControlEvent
  BY <1>1, LinkKinds, LastOfTail
<1> HIDE DEF e
<1>3. e.type \in Type /\ e.lease_epoch \in Nat
  BY <1>2 DEF ControlEvent
<1>4. inbox' \in Seq(ControlEvent)
  BY <1>1, <1>2, ClientKinds, AppendProperties
<1>5. CASE ~attachment.attached
  BY <1>1, <1>4, <1>5, LinkKinds, ReadKeeps DEF e
<1>6. CASE attachment.attached /\ e.type = "granted"
  <2>1. attachment' = Attached(e.lease_epoch)
    BY <1>1, <1>6
  <2>2. /\ attachment' \in Attachments
        /\ attachment'.mode = IF e.lease_epoch = 0 THEN "observer" ELSE "interactive"
        /\ attachment'.lease_epoch = e.lease_epoch
    BY <1>3, <2>1 DEF Attached, Attachments
  <2>3. LastFits(e) => Agrees'
    <3>1. SUFFICES ASSUME LastFits(e) PROVE Agrees'
      OBVIOUS
    <3>2. control.holder = Me /\ e.lease_epoch = control.lease_epoch /\ e.lease_epoch # 0
      BY <1>6, <3>1, LinkKinds, PaneAssumption DEF LastFits, Holding
    <3> QED
      BY <1>1, <2>2, <3>2 DEF Agrees
  <2> QED
    BY <1>1, <1>4, <1>6, <2>2, <2>3, ReadKeeps DEF e
<1>7. CASE attachment.attached /\ e.type # "granted"
  <2>1. attachment' = [attachment EXCEPT !.mode = "observer"]
    BY <1>1, <1>7
  <2>2. attachment' \in Attachments /\ attachment'.mode = "observer"
    BY <2>1, LinkKinds DEF Attachments
  <2>3. LastFits(e) => Agrees'
    BY <1>1, <1>3, <1>7, <2>2 DEF LastFits, Agrees, Type
  <2> QED
    BY <1>1, <1>4, <1>7, <2>2, <2>3, ReadKeeps DEF e
<1> QED
  BY <1>5, <1>6, <1>7

\* Events were lost: the attachment's mode is made to agree, or does already.
LEMMA ResyncLeasesKeeps ==
    ASSUME IInv, ResyncLeases
    PROVE  IInv'
<1> DEFINE holds == control.holder = Me
<1>1. /\ broadcast # <<>> /\ broadcast' = Tail(broadcast)
      /\ UNCHANGED <<hostVars, link, resubscribe, lane, calls, resized, pane, left, seen>>
      /\ UNCHANGED control
  BY DEF ResyncLeases, hostVars
<1>2. \A type \in Type, epoch \in Nat : Event(type, epoch) \in ControlEvent
  BY LinkKinds DEF Event, ControlEvent
<1>3. CASE attachment.attached /\ (attachment.mode = "interactive") # holds
  <2>1. /\ attachment' = IF holds THEN Attached(control.lease_epoch)
                         ELSE [attachment EXCEPT !.mode = "observer"]
        /\ inbox' = Append(inbox, IF holds THEN Event("granted", control.lease_epoch)
                                           ELSE Event("revoked", 0))
        /\ races' = races
    BY <1>3 DEF ResyncLeases
  <2>2. inbox' \in Seq(ControlEvent)
    <3>1. (IF holds THEN Event("granted", control.lease_epoch) ELSE Event("revoked", 0))
             \in ControlEvent
      BY <1>2, LinkKinds DEF Type
    <3> QED
      BY <2>1, <3>1, ClientKinds, AppendProperties
  <2>3. CASE holds
    <3>1. attachment' = Attached(control.lease_epoch)
      BY <2>1, <2>3
    <3>2. control.lease_epoch # 0
      BY <2>3, LinkKinds, PaneAssumption DEF Holding
    <3>3. /\ attachment' \in Attachments /\ attachment'.mode = "interactive"
          /\ attachment'.lease_epoch = control.lease_epoch
      BY <3>1, <3>2, LinkKinds DEF Attached, Attachments
    <3>4. Agrees'
      BY <1>1, <2>3, <3>3 DEF Agrees
    <3> QED
      BY <1>1, <1>3, <2>1, <2>2, <3>3, <3>4, ReadKeeps
  <2>4. CASE ~holds
    <3>1. attachment' = [attachment EXCEPT !.mode = "observer"]
      BY <2>1, <2>4
    <3>2. attachment' \in Attachments /\ attachment'.mode = "observer"
      BY <3>1, LinkKinds DEF Attachments
    <3>3. Agrees'
      BY <1>1, <2>4, <3>2 DEF Agrees
    <3> QED
      BY <1>1, <1>3, <2>1, <2>2, <3>2, <3>3, ReadKeeps
  <2> QED
    BY <2>3, <2>4
<1>4. CASE ~(attachment.attached /\ (attachment.mode = "interactive") # holds)
  <2>1. races' = races \cup {"untold"} /\ UNCHANGED <<attachment, inbox>>
    BY <1>4 DEF ResyncLeases
  <2>2. attachment.attached => Agrees'
    BY <1>1, <1>4, <2>1 DEF Agrees
  <2> QED
    BY <1>1, <2>1, <2>2, ClientKinds, LinkKinds, ReadKeeps
<1> QED
  BY <1>3, <1>4

\* Events are overwritten: what is left ends with the last one, or tells that some were lost.
LEMMA LoseEventsKeeps ==
    ASSUME IInv, LoseEvents
    PROVE  IInv'
<1> DEFINE lagged == Event("lagged", 0)
<1>1. PICK n \in DOMAIN broadcast :
         broadcast' = <<lagged>> \o SubSeq(broadcast, n + 1, Len(broadcast))
  BY DEF LoseEvents
<1>2. /\ UNCHANGED <<control, leaving, screen, attachment, link, resubscribe, seen, races>>
      /\ UNCHANGED <<inbox, lane, calls, resized, pane>>
      /\ left' \in Budget
  BY Spending DEF LoseEvents, hostVars, clientVars, historyVars
<1>3. lagged \in ControlEvent /\ lagged.type = "lagged"
  BY LinkKinds DEF Event, ControlEvent, Type
<1> HIDE DEF lagged
<1>4. /\ broadcast' \in Seq(ControlEvent) /\ broadcast' # <<>>
      /\ broadcast'[Len(broadcast')] \in {lagged, broadcast[Len(broadcast)]}
  <2> DEFINE lost == <<lagged>> \o SubSeq(broadcast, n + 1, Len(broadcast))
  <2>1. broadcast \in Seq(ControlEvent)
    BY LinkKinds
  <2>2. /\ lost \in Seq(ControlEvent) /\ lost # <<>>
        /\ lost[Len(lost)] \in {lagged, broadcast[Len(broadcast)]}
    BY <1>3, <2>1, LastOfLagged
  <2>3. broadcast' = lost
    BY <1>1
  <2> HIDE DEF lost
  <2> QED
    BY <2>2, <2>3
<1>5. broadcast # <<>>
  <2>1. n \in 1 .. Len(broadcast)
    BY <1>1, LinkKinds, LenProperties
  <2>2. Len(<<>>) = 0
    OBVIOUS
  <2> QED
    BY <2>1, <2>2
<1>6. ClientTypes'
  BY <1>2, ClientSame
<1>7. HostTypes' /\ LinkTypes' /\ HistoryTypes' /\ Holding(control)'
  BY <1>2, <1>4, ClientKinds, LinkKinds DEF HostTypes, LinkTypes, HistoryTypes, Holding
<1>8. Linked'
  BY <1>2, <1>5, LinkKinds DEF Linked
<1>9. Follows'
  <2>1. SUFFICES ASSUME Spared' PROVE Told'
    BY DEF Follows
  <2>2. LastFits(broadcast[Len(broadcast)])
    BY <1>2, <1>5, <2>1 DEF IInv, Follows, Spared, Told
  <2>3. LastFits(broadcast[Len(broadcast)])'
    BY <1>2, <1>3, <1>4, <2>2 DEF LastFits
  <2> QED
    BY <1>4, <2>3 DEF Told
<1> QED
  BY <1>6, <1>7, <1>8, <1>9 DEF IInv, Types

\* The connection ends: there is no attachment left to be wrong.
LEMMA DisconnectKeeps ==
    ASSUME IInv, Disconnect
    PROVE  IInv'
<1>1. /\ link' = "down" /\ control' = [control EXCEPT !.present = FALSE]
      /\ attachment' = Detached /\ resubscribe' = FALSE /\ broadcast' = <<>> /\ lane' = <<>>
      /\ UNCHANGED <<leaving, screen, pane, seen, races>>
      /\ left' \in Budget
  BY Spending DEF Disconnect, historyVars
<1>2. /\ control' \in Control /\ control'.holder = control.holder
      /\ control'.controller = control.controller
      /\ control'.lease_epoch = control.lease_epoch
      /\ control'.next_lease_epoch = control.next_lease_epoch
  BY <1>1, LinkKinds DEF Control
<1>3. attachment' \in Attachments /\ ~attachment'.attached
  BY <1>1 DEF Detached, Attachments
<1>4. broadcast' \in Seq(ControlEvent) /\ lane' \in Seq(Resize)
  BY <1>1
<1>5. inbox' \in Seq(ControlEvent)
  <2>1. PICK n \in 0 .. Len(inbox) : inbox' = SubSeq(inbox, 1, n)
    BY DEF Disconnect
  <2>2. Len(inbox) \in Nat /\ DOMAIN inbox = 1 .. Len(inbox)
    BY ClientKinds, LenProperties
  <2>3. \A k \in 1 .. n : inbox[k] \in ControlEvent
    BY <2>2, ClientKinds, ElementOfSeq
  <2> QED
    BY <2>1, <2>2, <2>3, SubSeqProperties
<1>6. resized' \subseteq Resized
  BY ClientKinds DEF Disconnect
<1>7. calls' \in Seq(PaneCall)
  <2>1. PICK lost \in SUBSET DOMAIN calls :
           LET Fails(i, part) == part = "sent" \/ (part = "answered" /\ i \in lost)
           IN  calls' = [i \in DOMAIN calls |->
                 [calls[i] EXCEPT
                    !.checkpoint = IF Fails(i, @) THEN "failed" ELSE @,
                    !.lease = IF Fails(i, @) THEN "failed" ELSE @,
                    !.lease_epoch = IF Fails(i, calls[i].lease) THEN 0 ELSE @,
                    !.at = IF Fails(i, calls[i].lease) THEN control.turn ELSE @]]
    BY DEF Disconnect
  <2> DEFINE Fails(i, part) == part = "sent" \/ (part = "answered" /\ i \in lost)
             call(i) == [calls[i] EXCEPT
                           !.checkpoint = IF Fails(i, @) THEN "failed" ELSE @,
                           !.lease = IF Fails(i, @) THEN "failed" ELSE @,
                           !.lease_epoch = IF Fails(i, calls[i].lease) THEN 0 ELSE @,
                           !.at = IF Fails(i, calls[i].lease) THEN control.turn ELSE @]
  <2>2. calls' = [i \in DOMAIN calls |-> call(i)]
    BY <2>1
  <2>3. ASSUME NEW i \in DOMAIN calls PROVE call(i) \in PaneCall
    <3>1. calls[i] \in PaneCall /\ control.turn \in Nat
      BY CallParts, LinkKinds
    <3> HIDE DEF Fails
    <3> QED
      BY <3>1 DEF PaneCall, Part
  <2> HIDE DEF call
  <2>4. Len(calls) \in Nat /\ DOMAIN calls = 1 .. Len(calls)
    BY ClientKinds, LenProperties
  <2>5. [i \in DOMAIN calls |-> call(i)] \in [1 .. Len(calls) -> PaneCall]
    BY <2>3, <2>4
  <2> QED
    BY <2>2, <2>4, <2>5, Numbered
<1>8. ClientTypes'
  BY <1>1, <1>4, <1>5, <1>6, <1>7, ClientKinds DEF ClientTypes
<1>9. HostTypes' /\ LinkTypes' /\ HistoryTypes'
  BY <1>1, <1>2, <1>3, <1>4, ClientKinds, LinkKinds DEF HostTypes, LinkTypes, HistoryTypes
<1>10. Holding(control)' /\ Linked' /\ Follows'
  BY <1>1, <1>2, <1>3, LinkKinds DEF Holding, Linked, Follows, Told
<1> QED
  BY <1>8, <1>9, <1>10 DEF IInv, Types

\* The next connection begins without an attachment: what the one before missed is forgotten.
LEMMA ReconnectKeeps ==
    ASSUME IInv, Reconnect
    PROVE  IInv'
<1> DEFINE turn == control.turn + 1
           ready == [Event("ready", 0) EXCEPT !.at = @ + 1]
<1>1. /\ link = "down" /\ link' = "serving" /\ resubscribe' \in BOOLEAN
      /\ control' = [control EXCEPT !.present = TRUE, !.turn = turn]
      /\ inbox' = Append(inbox, ready)
      /\ races' = races \ {"unheard", "untold"}
      /\ UNCHANGED <<leaving, screen, attachment, broadcast, lane, calls, resized, pane, left, seen>>
  BY DEF Reconnect
<1>2. turn \in Nat
  BY LinkKinds
<1>3. ready \in ControlEvent
  BY <1>2, LinkKinds DEF Event, ControlEvent, Type
<1> HIDE DEF turn, ready
<1>4. /\ control' \in Control /\ control'.holder = control.holder
      /\ control'.controller = control.controller
      /\ control'.lease_epoch = control.lease_epoch
      /\ control'.next_lease_epoch = control.next_lease_epoch
  BY <1>1, <1>2, LinkKinds DEF Control
<1>5. inbox' \in Seq(ControlEvent)
  BY <1>1, <1>3, ClientKinds, AppendProperties
<1>6. broadcast = <<>> /\ ~attachment.attached
  BY <1>1, LinkKinds DEF Linked
<1>7. ClientTypes'
  BY <1>1, <1>5, ClientKinds DEF ClientTypes
<1>8. HostTypes' /\ LinkTypes' /\ HistoryTypes'
  BY <1>1, <1>4, ClientKinds, LinkKinds DEF HostTypes, LinkTypes, HistoryTypes
<1>9. Holding(control)' /\ Linked' /\ Follows'
  BY <1>1, <1>4, <1>6, LinkKinds DEF Holding, Linked, Follows, Told
<1> QED
  BY <1>7, <1>8, <1>9 DEF IInv, Types

-----------------------------------------------------------------------------
(* The theorems.                                                           *)

\* Nothing happened yet: no lease, no attachment, no event.
LEMMA InitOK == Init => IInv
<1> SUFFICES ASSUME Init PROVE IInv
  OBVIOUS
<1>1. /\ Nobody \notin Clients /\ DefaultSize \in Sizes
      /\ Budgets \subseteq Budget
  BY PaneAssumption DEF Clients, Budget
<1>2. HostTypes
  BY <1>1 DEF Init, HostTypes, Control, Screen
<1>3. LinkTypes
  <2>1. Detached \in Attachments
    BY DEF Attachments, Detached
  <2>2. broadcast \in Seq(ControlEvent)
    BY EmptySeq DEF Init
  <2> QED
    BY <2>1, <2>2 DEF Init, LinkTypes
<1>4. PaneTypes(pane)
  BY <1>1 DEF Init, PaneTypes, Pane, NoPane
<1>5. ClientTypes
  BY <1>4 DEF Init, ClientTypes
<1>6. HistoryTypes
  BY DEF Init, HistoryTypes
<1>7. Holding(control) /\ Linked /\ Follows
  BY PaneAssumption DEF Init, Holding, Linked, Follows, Told, Detached
<1> QED
  BY <1>2, <1>3, <1>5, <1>6, <1>7 DEF IInv, Types

\* A step that changes nothing
LEMMA StutterOK == IInv /\ UNCHANGED vars => IInv'
<1> SUFFICES ASSUME IInv, UNCHANGED vars PROVE IInv'
  OBVIOUS
<1>1. /\ UNCHANGED <<control, leaving, screen, attachment, link, resubscribe, broadcast>>
      /\ UNCHANGED <<inbox, lane, calls, resized, pane, left, seen, races>>
  BY DEF vars, hostVars, linkVars, clientVars, historyVars
<1>2. ClientTypes'
  BY <1>1, ClientSame
<1> QED
  BY <1>1, <1>2, ClientKinds, HarmlessRaces, AloneKeeps

\* Every step keeps the invariant.
LEMMA StepOK == IInv /\ Next => IInv'
<1> SUFFICES ASSUME IInv, Next PROVE IInv'
  OBVIOUS
<1>1. CASE HostStep
  BY <1>1, RivalTakesKeeps, RivalResizesKeeps, LeaveKeeps, YieldLeasesKeeps, HandOverKeeps
     DEF HostStep
<1>2. CASE ConnectionStep
  BY <1>2, HandleResubscribeKeeps, HandleResizeKeeps, SubscribeKeeps, ForwardEventKeeps,
     ResyncLeasesKeeps, LoseEventsKeeps, DisconnectKeeps, ReconnectKeeps, HandleCheckpointKeeps,
     HandleAcquireKeeps, HandleAttachKeeps, HandleTakeKeeps
     DEF ConnectionStep
<1>3. CASE PaneStep
  BY <1>3, AttachKeeps, HearGrantKeeps, HearRevocationKeeps, HearReadyKeeps, LosePaneEventsKeeps,
     ResizeViewKeeps, HearResizedKeeps, TakeControlKeeps, FinishAttachKeeps, FinishReclaimKeeps,
     DiscardKeeps
     DEF PaneStep
<1> QED
  BY <1>1, <1>2, <1>3 DEF Next

\* The invariant holds in every state that can be reached.
THEOREM Inductive == Spec => []IInv
<1>1. IInv /\ [Next]_vars => IInv'
  BY StepOK, StutterOK
<1> QED
  BY <1>1, InitOK, PTL DEF Spec

\* The types of the state of the Host, the connection and the pane, and the lease's epoch below
\* the next one
THEOREM TypeCorrect == Spec => []TypeOK
<1>1. IInv => TypeOK
  <2> SUFFICES ASSUME IInv PROVE TypeOK
    OBVIOUS
  <2>1. HostTypes /\ LinkTypes /\ ClientTypes /\ HistoryTypes
    BY DEF IInv, Types
  <2>2. /\ control \in [controller : Clients \cup {Nobody}, asked : BOOLEAN, present : BOOLEAN,
                       holder : Clients \cup {Nobody}, lease_epoch : Nat,
                       next_lease_epoch : Nat, turn : Nat]
        /\ control.lease_epoch < control.next_lease_epoch
        /\ leaving \in [Clients -> {"no", "expired", "yielded"}]
        /\ screen \in [size : Sizes, geometry_epoch : Nat]
        /\ left \in [turns : Nat, resizes : Nat, drops : Nat, lags : Nat]
    BY <2>1 DEF HostTypes, Control, Screen, Budget
  <2>3. /\ attachment \in [attached : BOOLEAN, mode : {"observer", "interactive"},
                          lease_epoch : Nat]
        /\ link \in {"down", "serving", "subscribed"}
        /\ resubscribe \in BOOLEAN
    BY <2>1 DEF LinkTypes, Attachments
  <2>4. {broadcast, inbox} \subseteq Seq([type : Type, lease_epoch : Nat, at : Nat])
    BY <2>1 DEF LinkTypes, ClientTypes, ControlEvent
  <2>5. /\ lane \in Seq([lease_epoch : Nat, stale : BOOLEAN, bound : BOOLEAN,
                        geometry_epoch : Nat, size : Sizes])
        /\ resized \subseteq [ok : BOOLEAN, size : Sizes, geometry_epoch : Nat]
    BY <2>1 DEF ClientTypes, Resize, Resized
  <2>6. calls \in Seq([op : {"attach", "reclaim", "grant", "take"}, checkpoint : Part,
                      lease : Part, size : Sizes, geometry_epoch : Nat, lease_epoch : Nat,
                      at : Nat, stale : BOOLEAN])
    BY <2>1 DEF ClientTypes, PaneCall
  <2>7. pane \in [life : {"lost", "attaching", "running"}, lease_epoch : Nat,
                 pending_grant : Nat, geometry_epoch : Nat, host_geometry_epoch : Nat,
                 next_geometry_epoch : Nat, pending_geometry : SUBSET Sizes,
                 local_geometry : Sizes]
    BY <2>1 DEF ClientTypes, PaneTypes, Pane
  <2>8. seen \in Nat
    BY <2>1 DEF HistoryTypes
  <2> QED
    BY <2>2, <2>3, <2>4, <2>5, <2>6, <2>7, <2>8, <2>1 DEF TypeOK, HistoryTypes, Race
<1> QED
  BY <1>1, Inductive, PTL

\* Once the forwarder has read every event, the attachment has the mode and the epoch of the
\* lease, in whatever order answers (register_attachment) and events (control_event,
\* resync_leases) made it.
THEOREM AttachmentFollowsLeaseAlways == Spec => []AttachmentFollowsLease
<1>1. IInv => AttachmentFollowsLease
  BY DEF IInv, Follows, Spared, Told, Agrees, AttachmentFollowsLease
<1> QED
  BY <1>1, Inductive, PTL

-----------------------------------------------------------------------------
(* What is in a sequence.                                                  *)

\* An element is added at the end.
LEMMA InAppend ==
    ASSUME NEW S, NEW s \in Seq(S), NEW e \in S
    PROVE  Range(Append(s, e)) = Range(s) \cup {e}
<1>1. Len(s) \in Nat
  BY LenProperties
<1> DEFINE t == Append(s, e)
<1>2. /\ t \in Seq(S) /\ Len(t) = Len(s) + 1 /\ t[Len(s) + 1] = e
      /\ \A i \in 1 .. Len(s) : t[i] = s[i]
  BY AppendProperties
<1> HIDE DEF t
<1>3. /\ Range(s) = {s[i] : i \in 1 .. Len(s)}
      /\ Range(t) = {t[i] : i \in 1 .. Len(t)}
  BY <1>2, RangeEquality
<1>4. 1 .. Len(t) = 1 .. Len(s) \cup {Len(s) + 1}
  BY <1>1, <1>2
<1> QED
  BY <1>2, <1>3, <1>4 DEF t

\* The first element is taken out.
LEMMA InTail ==
    ASSUME NEW S, NEW s \in Seq(S), s # <<>>
    PROVE  Range(s) = Range(Tail(s)) \cup {Head(s)}
<1>1. Len(s) \in Nat \ {0} /\ Head(s) = s[1]
  BY EmptySeq
<1> DEFINE t == Tail(s)
<1>2. /\ t \in Seq(S) /\ Len(t) = Len(s) - 1
      /\ \A i \in 1 .. Len(t) : t[i] = s[i + 1]
  BY HeadTailProperties
<1> HIDE DEF t
<1>3. /\ Range(s) = {s[i] : i \in 1 .. Len(s)}
      /\ Range(t) = {t[i] : i \in 1 .. Len(t)}
  BY <1>2, RangeEquality
<1>4. ASSUME NEW i \in 1 .. Len(s) PROVE s[i] \in Range(t) \cup {s[1]}
  <2>1. CASE i = 1
    BY <2>1
  <2>2. CASE i # 1
    <3>1. i - 1 \in 1 .. Len(t) /\ (i - 1) + 1 = i
      BY <1>1, <1>2, <2>2
    <3> QED
      BY <1>2, <1>3, <3>1
  <2> QED
    BY <2>1, <2>2
<1>5. ASSUME NEW i \in 1 .. Len(t) PROVE t[i] \in Range(s)
  <2>1. i + 1 \in 1 .. Len(s)
    BY <1>1, <1>2
  <2> QED
    BY <1>2, <1>3, <2>1
<1>6. s[1] \in Range(s)
  BY <1>1, <1>3
<1> QED
  BY <1>1, <1>3, <1>4, <1>5, <1>6 DEF t

\* A part of it is taken.
LEMMA InSubSeq ==
    ASSUME NEW S, NEW s \in Seq(S), NEW m \in Nat \ {0}, NEW n \in Nat, n <= Len(s)
    PROVE  /\ SubSeq(s, m, n) \in Seq(S)
           /\ Range(SubSeq(s, m, n)) \subseteq Range(s)
<1>1. Len(s) \in Nat
  BY LenProperties
<1>2. \A i \in m .. n : s[i] \in S
  BY <1>1, ElementOfSeq
<1> DEFINE t == SubSeq(s, m, n)
<1>3. /\ t \in Seq(S) /\ Len(t) = IF m <= n THEN n - m + 1 ELSE 0
      /\ \A i \in 1 .. n - m + 1 : t[i] = s[m + i - 1]
  BY <1>2, SubSeqProperties
<1> HIDE DEF t
<1>4. /\ Range(s) = {s[i] : i \in 1 .. Len(s)}
      /\ Range(t) = {t[i] : i \in 1 .. Len(t)}
  BY <1>3, RangeEquality
<1>5. ASSUME NEW i \in 1 .. Len(t) PROVE t[i] \in Range(s)
  <2>1. i \in 1 .. n - m + 1 /\ m + i - 1 \in 1 .. Len(s)
    BY <1>1, <1>3
  <2> QED
    BY <1>3, <1>4, <2>1
<1> QED
  BY <1>3, <1>4, <1>5 DEF t

\* Its beginning is overwritten by one element.
LEMMA InOverwritten ==
    ASSUME NEW S, NEW s \in Seq(S), NEW e \in S, NEW n \in DOMAIN s
    PROVE  LET t == <<e>> \o SubSeq(s, n + 1, Len(s)) IN
           e \in Range(t) /\ Range(t) \subseteq Range(s) \cup {e}
<1>1. Len(s) \in Nat /\ n \in 1 .. Len(s)
  BY LenProperties
<1> DEFINE u == SubSeq(s, n + 1, Len(s))
<1>2. u \in Seq(S) /\ Range(u) \subseteq Range(s)
  BY <1>1, InSubSeq
<1> HIDE DEF u
<1> DEFINE one == <<e>>
<1>3. one \in Seq(S) /\ Len(one) = 1 /\ one[1] = e
  OBVIOUS
<1> HIDE DEF one
<1>4. Range(one) = {e}
  <2>1. Range(one) = {one[i] : i \in 1 .. 1}
    BY <1>3, RangeEquality
  <2> QED
    BY <1>3, <2>1
<1>5. Range(one \o u) = Range(one) \cup Range(u)
  BY <1>2, <1>3, RangeConcatenation
<1> QED
  BY <1>2, <1>4, <1>5 DEF u, one

\* One element is removed.
LEMMA InRemoved ==
    ASSUME NEW S, NEW s \in Seq(S), NEW i \in DOMAIN s
    PROVE  /\ Range(RemoveAt(s, i)) \subseteq Range(s)
           /\ Range(s) \subseteq Range(RemoveAt(s, i)) \cup {s[i]}
<1>1. Len(s) \in Nat /\ i \in 1 .. Len(s) /\ DOMAIN s = 1 .. Len(s)
  BY LenProperties
<1> DEFINE before == SubSeq(s, 1, i - 1)
           after == SubSeq(s, i + 1, Len(s))
<1>2. \A k \in 1 .. Len(s) : s[k] \in S
  BY ElementOfSeq
<1>3. /\ before \in Seq(S) /\ Range(before) \subseteq Range(s)
      /\ after \in Seq(S) /\ Range(after) \subseteq Range(s)
  <2>1. /\ 1 \in Nat \ {0} /\ i - 1 \in Nat /\ i - 1 <= Len(s)
        /\ i + 1 \in Nat \ {0} /\ Len(s) <= Len(s)
    BY <1>1
  <2> QED
    BY <1>1, <2>1, InSubSeq
<1>4. /\ Len(before) = i - 1
      /\ \A k \in 1 .. i - 1 : before[k] = s[k]
  <2>1. i - 1 \in Int /\ \A k \in 1 .. i - 1 : s[k] \in S
    BY <1>1, <1>2
  <2>2. /\ Len(before) = IF 1 <= i - 1 THEN (i - 1) - 1 + 1 ELSE 0
        /\ \A k \in 1 .. (i - 1) - 1 + 1 : before[k] = s[1 + k - 1]
    BY <2>1, SubSeqProperties
  <2> HIDE DEF before
  <2> QED
    BY <1>1, <2>2
<1>5. /\ Len(after) = Len(s) - i
      /\ \A k \in 1 .. Len(s) - i : after[k] = s[i + k]
  <2>1. i + 1 \in Int /\ \A k \in i + 1 .. Len(s) : s[k] \in S
    BY <1>1, <1>2
  <2>2. /\ Len(after) = IF i + 1 <= Len(s) THEN Len(s) - (i + 1) + 1 ELSE 0
        /\ \A k \in 1 .. Len(s) - (i + 1) + 1 : after[k] = s[(i + 1) + k - 1]
    BY <1>1, <2>1, SubSeqProperties
  <2> HIDE DEF after
  <2>3. Len(s) - (i + 1) + 1 = Len(s) - i /\ \A k \in Int : (i + 1) + k - 1 = i + k
    BY <1>1
  <2>4. Len(after) = Len(s) - i
    BY <1>1, <2>2
  <2>5. ASSUME NEW k \in 1 .. Len(s) - i PROVE after[k] = s[i + k]
    <3>1. after[k] = s[(i + 1) + k - 1] /\ (i + 1) + k - 1 = i + k
      BY <2>2, <2>3
    <3> QED
      BY <3>1
  <2> QED
    BY <2>4, <2>5
<1>6. RemoveAt(s, i) = before \o after
  BY DEF RemoveAt
<1> HIDE DEF before, after
<1>7. Range(before \o after) = Range(before) \cup Range(after)
  BY <1>3, RangeConcatenation
<1>8. /\ Range(s) = {s[k] : k \in 1 .. Len(s)}
      /\ Range(before) = {before[k] : k \in 1 .. Len(before)}
      /\ Range(after) = {after[k] : k \in 1 .. Len(after)}
  BY <1>3, RangeEquality
<1>9. ASSUME NEW k \in 1 .. Len(s), k # i PROVE s[k] \in Range(before) \cup Range(after)
  <2>1. CASE k < i
    <3>1. k \in 1 .. Len(before) /\ before[k] = s[k]
      BY <1>1, <1>4, <2>1
    <3> QED
      BY <1>8, <3>1
  <2>2. CASE k > i
    <3>1. /\ k - i \in 1 .. Len(after) /\ k - i \in 1 .. Len(s) - i /\ i + (k - i) = k
      BY <1>1, <1>5, <2>2
    <3> QED
      BY <1>5, <1>8, <3>1
  <2> QED
    BY <1>1, <1>9, <2>1, <2>2, SMT
<1> QED
  BY <1>3, <1>6, <1>7, <1>8, <1>9

\* One element is replaced.
LEMMA InReplaced ==
    ASSUME NEW S, NEW s \in Seq(S), NEW i \in DOMAIN s, NEW e \in S
    PROVE  LET t == [s EXCEPT ![i] = e] IN
           /\ e \in Range(t)
           /\ Range(t) \subseteq Range(s) \cup {e}
           /\ Range(s) \subseteq Range(t) \cup {s[i]}
<1> DEFINE t == [s EXCEPT ![i] = e]
<1>1. DOMAIN t = DOMAIN s /\ t[i] = e /\ \A k \in DOMAIN s : k # i => t[k] = s[k]
  BY LenProperties
<1> HIDE DEF t
<1>2. Range(t) = {t[k] : k \in DOMAIN s} /\ Range(s) = {s[k] : k \in DOMAIN s}
  BY <1>1 DEF Range
<1> QED
  BY <1>1, <1>2 DEF t

-----------------------------------------------------------------------------
(* What the pane should hold, and what tells it.                           *)

\* The lease as Me has it
Due(ctl) == IF ctl.holder = Me THEN ctl.lease_epoch ELSE 0

\* Events, and answers to requests for the lease, tell the pane of a lease, and of none by 0.
Tells(e) == e.type \in {"granted", "revoked"}
Answers(c) == c.op \in {"attach", "reclaim"} /\ c.lease \in {"answered", "failed"}
Tidings == {e \in Range(broadcast) \cup Range(inbox) : Tells(e)}
             \cup {c \in Range(calls) : Answers(c)}

\* More tidings will come: of an answer, of a connection, or of events that were lost.
Awaited == \/ \E e \in Range(inbox) : e.type = "ready"
           \/ \E e \in Range(broadcast) : e.type = "lagged"
           \/ \E c \in Range(calls) : c.op \in {"attach", "reclaim"} /\ c.lease = "sent"

\* The pane holds what is due, or a grant of it that it verifies.
PaneTells == IF pane.pending_grant # 0 THEN pane.pending_grant = Due(control)
                                       ELSE pane.lease_epoch = Due(control)

\* What was decided since turn t is what is due ...
Truthful(t) == \A m \in Tidings : m.at >= t => m.lease_epoch = Due(control)

\* ... and the pane hears of it, or heard of it and of nothing older after it.
Covered(t) == \/ pane.life = "lost"
              \/ Awaited
              \/ \E m \in Tidings : m.at >= t
              \/ seen >= t /\ ("crossed" \in races \/ PaneTells)

Unraced == races \cap {"unheard", "silent", "untold", "unready"} = {}

Reaches == link # "down" /\ Unraced => \E t \in 0 .. control.turn : Truthful(t) /\ Covered(t)

\* No turn is told of before it comes, and a grant has an epoch.
Stated(e) == /\ e.type = "granted" => e.lease_epoch # 0
             /\ e.type = "revoked" => e.lease_epoch = 0

Counted == /\ seen <= control.turn
           /\ \A e \in Range(broadcast) \cup Range(inbox) : e.at <= control.turn /\ Stated(e)
           /\ \A c \in Range(calls) : c.at <= control.turn

\* A pane attaches with one request, and asks for no more until it is answered.
Fits(c) == /\ ~c.stale
           /\ c.lease = "unasked" <=> c.op = "grant"
           /\ c.op = "grant" => c.lease_epoch # 0
           /\ c.op = "attach" <=> pane.life = "attaching"

Verifies(c) == c.op = "grant" /\ c.lease_epoch = pane.pending_grant

Asking == /\ \A c \in Range(calls) : Fits(c)
          /\ pane.life = "lost" => calls = <<>>
          /\ pane.life = "attaching" => Len(calls) = 1
          /\ pane.pending_grant # 0 => /\ pane.life = "running"
                                       /\ \E c \in Range(calls) : Verifies(c)

\* A pane that is attached has an attachment, or asks for one with the stream.
Bound == link # "down" /\ ~resubscribe
           /\ (\/ pane.life = "running"
               \/ \E c \in Range(calls) : c.op = "attach" /\ c.lease = "answered")
         => attachment.attached

PaneInv == Counted /\ Asking /\ Bound /\ Reaches

-----------------------------------------------------------------------------
(* Turns.                                                                  *)

\* Who holds the lease changes only with the turn, and a lease gets an epoch that none had.
Turned(ctl, new) ==
    /\ ctl.turn \in Nat /\ new.turn \in Nat /\ new.turn >= ctl.turn
    /\ new.turn = ctl.turn => new.holder = ctl.holder /\ new.lease_epoch = ctl.lease_epoch
    /\ new.next_lease_epoch >= ctl.next_lease_epoch
    /\ new.lease_epoch = ctl.lease_epoch \/ new.lease_epoch >= ctl.next_lease_epoch

LEMMA GrantedTurned ==
    ASSUME NEW ctl \in Control, NEW c
    PROVE  Turned(ctl, Granted(ctl, c))
<1> DEFINE epoch == ctl.next_lease_epoch + 1
           turn == ctl.turn + 1
<1>1. /\ ctl.turn \in Nat /\ turn \in Nat /\ turn > ctl.turn
      /\ ctl.next_lease_epoch \in Nat /\ epoch \in Nat /\ epoch >= ctl.next_lease_epoch
  BY DEF Control
<1>2. Granted(ctl, c) = [ctl EXCEPT !.holder = c, !.lease_epoch = ctl.next_lease_epoch,
                                    !.next_lease_epoch = epoch, !.turn = turn]
  BY DEF Granted
<1> HIDE DEF epoch, turn
<1>3. /\ Granted(ctl, c).turn = turn /\ Granted(ctl, c).lease_epoch = ctl.next_lease_epoch
      /\ Granted(ctl, c).next_lease_epoch = epoch
  BY <1>2 DEF Control
<1> QED
  BY <1>1, <1>3 DEF Turned

LEMMA HandedTurned ==
    ASSUME NEW ctl \in Control, NEW c \in Clients
    PROVE  Turned(ctl, Handed(ctl, c))
<1> DEFINE led == [ctl EXCEPT !.controller = c]
<1>1. /\ led \in Control /\ led.turn = ctl.turn /\ led.holder = ctl.holder
      /\ led.lease_epoch = ctl.lease_epoch /\ led.next_lease_epoch = ctl.next_lease_epoch
  BY DEF Control
<1>2. ctl.turn \in Nat /\ ctl.next_lease_epoch \in Nat
  BY DEF Control
<1>3. Handed(ctl, c) \in {ctl, led, Granted(led, c)}
  BY DEF Handed
<1> HIDE DEF led
<1>4. Turned(led, Granted(led, c))
  BY <1>1, GrantedTurned
<1> QED
  BY <1>1, <1>2, <1>3, <1>4 DEF Turned

LEMMA YieldedTurned ==
    ASSUME NEW ctl \in Control, NEW c
    PROVE  Turned(ctl, Yielded(ctl, c))
<1> DEFINE turn == ctl.turn + 1
           new == [ctl EXCEPT !.holder = Nobody, !.turn = turn]
<1>1. /\ ctl.turn \in Nat /\ turn \in Nat /\ turn > ctl.turn
      /\ ctl.next_lease_epoch \in Nat
  BY DEF Control
<1> HIDE DEF turn
<1>2. /\ new.turn = turn /\ new.lease_epoch = ctl.lease_epoch
      /\ new.next_lease_epoch = ctl.next_lease_epoch
  BY DEF Control
<1>3. Yielded(ctl, c) \in {ctl, new}
  BY DEF Yielded, turn
<1> HIDE DEF new
<1> QED
  BY <1>1, <1>2, <1>3 DEF Turned

LEMMA AcquiredTurned ==
    ASSUME control \in Control, control.lease_epoch < control.next_lease_epoch, Holding(control)
    PROVE  Turned(control, Acquired(control))
<1> DEFINE handed == Handed(control, Me)
           claimed == [handed EXCEPT !.asked = control.asked \/ control.controller # Me]
<1>1. /\ control.turn \in Nat /\ Me \in Clients /\ control.next_lease_epoch \in Nat
      /\ control.lease_epoch \in Nat
  BY DEF Control, Clients
<1>2. handed \in Control /\ Turned(control, handed)
  BY <1>1, HandedParts, HandedTurned
<1> HIDE DEF handed
<1>3. (control.asked \/ control.controller # Me) \in BOOLEAN
  BY DEF Control
<1>4. /\ claimed \in Control /\ claimed.turn = handed.turn /\ claimed.holder = handed.holder
      /\ claimed.lease_epoch = handed.lease_epoch
      /\ claimed.next_lease_epoch = handed.next_lease_epoch
      /\ handed.next_lease_epoch \in Nat
  BY <1>2, <1>3 DEF Control
<1>5. Acquired(control) \in {control, claimed, Granted(claimed, Me)}
  BY DEF Acquired, Claimed, handed
<1> HIDE DEF claimed
<1>6. Turned(claimed, Granted(claimed, Me)) /\ Granted(claimed, Me) \in Control
  BY <1>1, <1>4, GrantedTurned, GrantedParts
<1>7. Turned(control, control) /\ Turned(control, claimed)
  BY <1>1, <1>2, <1>4 DEF Turned
<1>8. /\ claimed.next_lease_epoch \in Nat /\ Granted(claimed, Me).lease_epoch \in Nat
      /\ Granted(claimed, Me).next_lease_epoch \in Nat /\ claimed.lease_epoch \in Nat
  BY <1>4, <1>6 DEF Control
<1>9. Turned(control, Granted(claimed, Me))
  BY <1>1, <1>6, <1>7, <1>8 DEF Turned
<1> QED
  BY <1>5, <1>7, <1>9

\* A decision that changes what is due tells it, with its turn.
LEMMA EventsReach ==
    ASSUME control \in Control, NEW new, Moves(new), Turned(control, new)
    PROVE  \/ Events(new) = <<>> /\ Due(new) = Due(control)
           \/ \E e \in ControlEvent :
                 /\ Events(new) = <<e>> /\ Tells(e) /\ Stated(e)
                 /\ e.at = new.turn /\ e.lease_epoch = Due(new)
                 /\ new.turn > control.turn
<1> DEFINE revoked == [type |-> "revoked", lease_epoch |-> 0, at |-> new.turn]
           granted == [type |-> "granted", lease_epoch |-> new.lease_epoch, at |-> new.turn]
<1>1. /\ new.turn \in Nat /\ new.lease_epoch \in Nat /\ Me # Nobody
      /\ new.holder # Nobody => new.lease_epoch # 0
  BY PaneAssumption DEF Moves, Control, Holding
<1>2. revoked \in ControlEvent /\ granted \in ControlEvent
  BY <1>1 DEF ControlEvent, Type
<1>3. /\ revoked.type = "revoked" /\ revoked.at = new.turn /\ revoked.lease_epoch = 0
      /\ granted.type = "granted" /\ granted.lease_epoch = new.lease_epoch
      /\ granted.at = new.turn
  OBVIOUS
<1>4. CASE control.holder = Me /\ new.holder # Me
  <2>1. Events(new) = <<revoked>>
    BY <1>4 DEF Events
  <2>2. new.turn > control.turn
    BY <1>4 DEF Turned
  <2> HIDE DEF revoked, granted
  <2> QED
    BY <2>1, <2>2, <1>2, <1>3, <1>4 DEF Tells, Stated, Due
<1>5. CASE ~(control.holder = Me /\ new.holder # Me)
           /\ new.holder = Me /\ new.lease_epoch # control.lease_epoch
  <2>1. Events(new) = <<granted>>
    BY <1>5 DEF Events
  <2>2. new.turn > control.turn
    BY <1>5 DEF Turned
  <2> HIDE DEF revoked, granted
  <2> QED
    BY <2>1, <2>2, <1>1, <1>2, <1>3, <1>5 DEF Tells, Stated, Due
<1>6. CASE /\ ~(control.holder = Me /\ new.holder # Me)
           /\ ~(new.holder = Me /\ new.lease_epoch # control.lease_epoch)
  <2>1. Events(new) = <<>>
    BY <1>6 DEF Events
  <2> QED
    BY <2>1, <1>6 DEF Moves, Due
<1> QED
  BY <1>4, <1>5, <1>6

-----------------------------------------------------------------------------
(* How tidings carry over.                                                 *)

\* The kinds of what is told
LEMMA ToldKinds ==
    ASSUME IInv
    PROVE  /\ \A e \in Range(broadcast) \cup Range(inbox) :
                 e \in ControlEvent /\ e.at \in Nat /\ e.lease_epoch \in Nat /\ e.type \in Type
           /\ \A c \in Range(calls) :
                 c \in PaneCall /\ c.at \in Nat /\ c.lease_epoch \in Nat /\ c.lease \in Part
           /\ \A m \in Tidings : m.at \in Nat /\ m.lease_epoch \in Nat
<1>1. Range(broadcast) \subseteq ControlEvent /\ Range(inbox) \subseteq ControlEvent
  BY LinkKinds, ClientKinds, RangeOfSeq
<1>2. Range(calls) \subseteq PaneCall
  BY ClientKinds, RangeOfSeq
<1>3. \A e \in ControlEvent : e.at \in Nat /\ e.lease_epoch \in Nat /\ e.type \in Type
  BY DEF ControlEvent
<1>4. \A c \in PaneCall : c.at \in Nat /\ c.lease_epoch \in Nat /\ c.lease \in Part
  BY DEF PaneCall
<1> QED
  BY <1>1, <1>2, <1>3, <1>4 DEF Tidings

\* A request in the sequence is in its range.
LEMMA CallIn ==
    ASSUME IInv, NEW i \in DOMAIN calls
    PROVE  calls[i] \in Range(calls)
BY DEF Range

\* Tidings are no later than the turn.
LEMMA TidingsCounted ==
    ASSUME Counted
    PROVE  \A m \in Tidings : m.at <= control.turn
BY DEF Counted, Tidings

\* Nothing that is due changes, nor what tells it, and whoever was to hear of it will.
LEMMA Carried ==
    ASSUME IInv, Reaches, link' # "down" /\ Unraced' => link # "down" /\ Unraced,
           Due(control)' = Due(control), control'.turn \in Nat, control'.turn >= control.turn,
           \A m \in Tidings' : \/ m.lease_epoch = Due(control)
                               \/ \E n \in Tidings : n.at = m.at /\ n.lease_epoch = m.lease_epoch,
           \A t \in Nat : Truthful(t) /\ Covered(t) => Covered(t)'
    PROVE  Reaches'
<1>1. SUFFICES ASSUME link' # "down" /\ Unraced'
               PROVE  \E t \in 0 .. control'.turn : Truthful(t)' /\ Covered(t)'
  BY DEF Reaches
<1>2. PICK t \in 0 .. control.turn : Truthful(t) /\ Covered(t)
  BY <1>1 DEF Reaches
<1>3. control.turn \in Nat
  BY LinkKinds
<1>4. t \in Nat /\ t \in 0 .. control'.turn
  BY <1>3
<1>5. Truthful(t)'
  BY <1>2 DEF Truthful
<1>6. Covered(t)'
  BY <1>2, <1>4
<1> QED
  BY <1>4, <1>5, <1>6

\* A turn begins, and its tidings are on their way.
LEMMA Renewed ==
    ASSUME control'.turn \in Nat,
           link' # "down" /\ Unraced' =>
              /\ \A m \in Tidings' : m.at >= control'.turn => m.lease_epoch = Due(control)'
              /\ Awaited' \/ \E m \in Tidings' : m.at >= control'.turn
    PROVE  Reaches'
<1>1. SUFFICES ASSUME link' # "down" /\ Unraced'
               PROVE  \E t \in 0 .. control'.turn : Truthful(t)' /\ Covered(t)'
  BY DEF Reaches
<1>2. PICK t \in 0 .. control'.turn : t = control'.turn
  OBVIOUS
<1>3. Truthful(t)' /\ Covered(t)'
  BY <1>1, <1>2 DEF Truthful, Covered
<1> QED
  BY <1>3

\* The pane hears m: it then holds what is due, or heard of something later before.
LEMMA TidingHeard ==
    ASSUME IInv, NEW m \in Tidings, NEW t \in Nat, Truthful(t),
           seen' = IF m.at > seen THEN m.at ELSE seen,
           m.at < seen => "crossed" \in races',
           m.lease_epoch = Due(control) => PaneTells',
           m.at >= t \/ seen >= t
    PROVE  seen' >= t /\ ("crossed" \in races' \/ PaneTells')
<1>1. m.at \in Nat /\ seen \in Nat
  BY ToldKinds, ClientKinds
<1>2. CASE m.at < seen
  BY <1>1, <1>2
<1>3. CASE m.at >= seen
  <2>1. m.at >= t
    BY <1>1, <1>3
  <2>2. m.lease_epoch = Due(control)
    BY <2>1 DEF Truthful
  <2> QED
    BY <1>1, <1>3, <2>1, <2>2
<1> QED
  BY <1>1, <1>2, <1>3

\* What concerns a pane of its lease
Core(p) == <<p.life, p.lease_epoch, p.pending_grant>>

\* Requests that tell the same
Like(c, d) == /\ c.op = d.op /\ c.lease = d.lease /\ c.lease_epoch = d.lease_epoch
              /\ c.at = d.at /\ c.stale = d.stale

\* What a step leaves alone that concerns neither events nor answers
Aside == /\ Due(control)' = Due(control) /\ control'.turn = control.turn
         /\ UNCHANGED <<broadcast, inbox, seen>>
         /\ link' # "down" => link # "down"
         /\ Core(pane') = Core(pane)
         /\ Unraced' => Unraced
         /\ "crossed" \in races => "crossed" \in races'

\* ... and the requests for the lease
LEMMA AsideReaches ==
    ASSUME IInv, Reaches, Aside,
           \A c \in Range(calls') : \/ c.op \in {"take", "grant"}
                                    \/ \E d \in Range(calls) : Like(c, d),
           \A d \in Range(calls) : \/ d.op \in {"take", "grant"}
                                   \/ \E c \in Range(calls') : Like(c, d)
    PROVE  Reaches'
<1>1. control.turn \in Nat
  BY LinkKinds
<1>2. ASSUME NEW m \in Tidings'
      PROVE  \E n \in Tidings : n.at = m.at /\ n.lease_epoch = m.lease_epoch
  <2>1. CASE m \in {e \in Range(broadcast) \cup Range(inbox) : Tells(e)}
    BY <2>1 DEF Tidings
  <2>2. CASE m \in {c \in Range(calls') : Answers(c)}
    <3>1. PICK d \in Range(calls) : Like(m, d)
      BY <2>2 DEF Answers
    <3> QED
      BY <2>2, <3>1 DEF Like, Answers, Tidings
  <2> QED
    BY <1>2, <2>1, <2>2 DEF Tidings, Aside, Tells, Answers
<1>3. ASSUME NEW m \in Tidings
      PROVE  \E n \in Tidings' : n.at = m.at /\ n.lease_epoch = m.lease_epoch
  <2>1. CASE m \in {e \in Range(broadcast) \cup Range(inbox) : Tells(e)}
    BY <2>1 DEF Tidings, Aside, Tells
  <2>2. CASE m \in {c \in Range(calls) : Answers(c)}
    <3>1. PICK c \in Range(calls') : Like(c, m)
      BY <2>2 DEF Answers
    <3> QED
      BY <2>2, <3>1 DEF Like, Answers, Tidings
  <2> QED
    BY <2>1, <2>2 DEF Tidings
<1>4. Awaited => Awaited'
  BY DEF Awaited, Aside, Like
<1>5. /\ pane'.life = pane.life
      /\ PaneTells => PaneTells'
  <2>1. /\ pane'.life = pane.life /\ pane'.lease_epoch = pane.lease_epoch
        /\ pane'.pending_grant = pane.pending_grant
    BY DEF Aside, Core
  <2> QED
    BY <2>1 DEF Aside, PaneTells
<1>6. \A t \in Nat : Truthful(t) /\ Covered(t) => Covered(t)'
  BY <1>3, <1>4, <1>5 DEF Aside, Covered
<1> QED
  BY <1>1, <1>2, <1>6, Carried DEF Aside

\* ... and all requests
LEMMA AsideKeeps ==
    ASSUME IInv, PaneInv, Aside, UNCHANGED calls, resubscribe' = resubscribe \/ attachment'.attached,
           attachment.attached /\ link' # "down" => attachment'.attached
    PROVE  PaneInv'
<1>1. Core(pane') = Core(pane)
  BY DEF Aside
<1>2. /\ pane'.life = pane.life /\ pane'.lease_epoch = pane.lease_epoch
      /\ pane'.pending_grant = pane.pending_grant
  BY <1>1 DEF Core
<1>3. Counted'
  BY DEF PaneInv, Counted, Aside, Stated
<1>4. Asking'
  BY <1>2 DEF PaneInv, Asking, Fits, Verifies
<1>5. Bound'
  BY <1>2 DEF PaneInv, Bound, Aside
<1>6. Reaches'
  BY AsideReaches DEF PaneInv, Like
<1> QED
  BY <1>3, <1>4, <1>5, <1>6 DEF PaneInv

-----------------------------------------------------------------------------
(* Steps that tell the pane nothing of its lease.                          *)

\* The size is sent, or not: the pane's lease stays.
LEMMA SubmittedCore ==
    ASSUME NEW p, p \in Pane, Submit(p)
    PROVE  Core(pane') = Core(p)
BY DEF Submit, Core, Pane

\* Nor do the other parts of an answer change it.
LEMMA AdoptedCore ==
    ASSUME NEW p, p \in Pane, NEW call
    PROVE  Core(Adopting(p, call)) = Core(p) /\ Core(Reclaiming(p, call)) = Core(p)
BY DEF Adopting, Reclaiming, Core, Pane

LEMMA RivalResizesReaches ==
    ASSUME IInv, PaneInv, RivalResizes
    PROVE  PaneInv'
<1>1. /\ UNCHANGED <<control, attachment, link, resubscribe, broadcast, inbox, calls, pane>>
      /\ UNCHANGED <<seen, races>>
  BY DEF RivalResizes, linkVars, clientVars, historyVars
<1>2. Aside
  BY <1>1 DEF Aside, Due, Core, Unraced
<1> QED
  BY <1>1, <1>2, AsideKeeps

LEMMA LeaveReaches ==
    ASSUME IInv, PaneInv, NEW c \in Clients, Leave(c)
    PROVE  PaneInv'
<1>1. /\ UNCHANGED <<control, attachment, link, resubscribe, broadcast, inbox, calls, pane>>
      /\ UNCHANGED <<seen, races>>
  BY DEF Leave, linkVars, clientVars, historyVars
<1>2. Aside
  BY <1>1 DEF Aside, Due, Core, Unraced
<1> QED
  BY <1>1, <1>2, AsideKeeps

LEMMA HandleResizeReaches ==
    ASSUME IInv, PaneInv, HandleResize
    PROVE  PaneInv'
<1>1. /\ UNCHANGED <<control, attachment, link, resubscribe, broadcast, inbox, calls, pane>>
      /\ UNCHANGED <<seen, races>>
  BY DEF HandleResize, linkVars, historyVars
<1>2. Aside
  BY <1>1 DEF Aside, Due, Core, Unraced
<1> QED
  BY <1>1, <1>2, AsideKeeps

LEMMA HandleResubscribeReaches ==
    ASSUME IInv, PaneInv, HandleResubscribe
    PROVE  PaneInv'
<1>1. /\ UNCHANGED <<control, link, broadcast, inbox, calls, pane, seen, races>>
      /\ attachment' = Registered
  BY DEF HandleResubscribe, hostVars, clientVars, historyVars
<1>2. attachment'.attached
  BY <1>1 DEF Registered, Attached
<1>3. Aside
  BY <1>1 DEF Aside, Due, Core, Unraced
<1> QED
  BY <1>1, <1>2, <1>3, AsideKeeps

LEMMA SubscribeReaches ==
    ASSUME IInv, PaneInv, Subscribe
    PROVE  PaneInv'
<1>1. /\ UNCHANGED <<control, attachment, resubscribe, broadcast, inbox, calls, pane>>
      /\ UNCHANGED <<seen, races>> /\ link = "serving"
  BY DEF Subscribe, hostVars, clientVars, historyVars
<1>2. Aside
  BY <1>1 DEF Aside, Due, Core, Unraced
<1> QED
  BY <1>1, <1>2, AsideKeeps

LEMMA ResizeViewReaches ==
    ASSUME IInv, PaneInv, ResizeView
    PROVE  PaneInv'
<1>1. PICK size \in Sizes :
         LET p == [pane EXCEPT !.local_geometry = size]
             q == [p EXCEPT !.pending_geometry = {size}]
         IN  pane' \in {p, q} \/ Submit(q)
  BY DEF ResizeView
<1> DEFINE p == [pane EXCEPT !.local_geometry = size]
           q == [p EXCEPT !.pending_geometry = {size}]
<1>2. p \in Pane /\ Core(p) = Core(pane)
  BY ClientKinds DEF Pane, Core
<1>3. pane' \in {p, q} \/ Submit(q)
  BY <1>1
<1> HIDE DEF p
<1>4. q \in Pane /\ Core(q) = Core(p)
  BY <1>2 DEF Pane, Core
<1> HIDE DEF q
<1>5. Core(pane') = Core(pane)
  BY <1>2, <1>3, <1>4, SubmittedCore
<1>6. /\ UNCHANGED <<control, attachment, link, resubscribe, broadcast, inbox, calls, seen>>
      /\ races' \in {races, races \cup {"shadowed"}}
  BY DEF ResizeView, hostVars, linkVars
<1>7. Aside
  BY <1>5, <1>6 DEF Aside, Due, Unraced
<1> QED
  BY <1>6, <1>7, AsideKeeps

LEMMA HearResizedReaches ==
    ASSUME IInv, PaneInv, HearResized
    PROVE  PaneInv'
<1>1. PICK r \in resized :
         /\ pane' = IF r.ok
                    THEN [pane EXCEPT !.host_geometry_epoch =
                                         IF r.geometry_epoch > @ THEN r.geometry_epoch ELSE @]
                    ELSE [pane EXCEPT
                            !.geometry_epoch = IF @ = r.geometry_epoch
                                               THEN pane.host_geometry_epoch ELSE @,
                            !.pending_geometry = IF @ = {} THEN {r.size} ELSE @]
         /\ races' = races \/ races' = races \cup {"shadowed"}
  BY DEF HearResized
<1>2. UNCHANGED <<control, attachment, link, resubscribe, broadcast, inbox, calls, seen>>
  BY DEF HearResized, hostVars, linkVars
<1>3. Core(pane') = Core(pane)
  <2>1. CASE r.ok
    BY <1>1, <2>1, ClientKinds DEF Pane, Core
  <2>2. CASE ~r.ok
    BY <1>1, <2>2, ClientKinds DEF Pane, Core
  <2> QED
    BY <2>1, <2>2
<1>4. Aside
  BY <1>1, <1>2, <1>3 DEF Aside, Due, Unraced
<1> QED
  BY <1>2, <1>4, AsideKeeps

\* The person asks for control: that is no request for the lease.
LEMMA TakeControlReaches ==
    ASSUME IInv, PaneInv, TakeControl
    PROVE  PaneInv'
<1> DEFINE call == Call("take", "unasked", "sent")
<1>1. /\ UNCHANGED <<control, attachment, link, resubscribe, broadcast, inbox, pane>>
      /\ UNCHANGED <<seen, races>> /\ link # "down" /\ pane.life = "running"
      /\ calls' = Append(calls, call)
  BY DEF TakeControl, Ask, hostVars, linkVars, historyVars
<1>2. /\ call \in PaneCall /\ call.op = "take" /\ call.lease = "sent" /\ call.at = 0
      /\ ~call.stale
  BY NewCalls DEF Part, Call
<1> HIDE DEF call
<1>3. Range(calls') = Range(calls) \cup {call}
  BY <1>1, <1>2, ClientKinds, InAppend
<1>4. Aside
  BY <1>1 DEF Aside, Due, Core, Unraced
<1>5. Reaches'
  BY <1>2, <1>3, <1>4, AsideReaches DEF PaneInv, Like
<1>6. Counted'
  BY <1>1, <1>2, <1>3, LinkKinds DEF PaneInv, Counted, Stated
<1>7. Asking'
  BY <1>1, <1>2, <1>3 DEF PaneInv, Asking, Fits, Verifies
<1>8. Bound'
  BY <1>1, <1>2, <1>3 DEF PaneInv, Bound
<1> QED
  BY <1>5, <1>6, <1>7, <1>8 DEF PaneInv

\* A checkpoint comes before the answer for the lease.
LEMMA HandleCheckpointReaches ==
    ASSUME IInv, PaneInv, NEW i \in DOMAIN calls, HandleCheckpoint(i)
    PROVE  PaneInv'
<1> DEFINE call == [calls[i] EXCEPT !.checkpoint = "answered", !.size = screen.size,
                                    !.geometry_epoch = screen.geometry_epoch]
<1>1. /\ UNCHANGED <<control, link, resubscribe, broadcast, inbox, pane, seen, races>>
      /\ attachment' = Registered /\ calls' = [calls EXCEPT ![i] = call]
  BY DEF HandleCheckpoint, hostVars, historyVars
<1>2. attachment'.attached
  BY <1>1 DEF Registered, Attached
<1>3. calls[i] \in PaneCall /\ calls[i] \in Range(calls)
  BY CallParts, CallIn
<1>4. call \in PaneCall /\ Like(call, calls[i])
  BY <1>3, ClientKinds DEF PaneCall, Like, Part
<1> HIDE DEF call
<1>5. /\ Range(calls') \subseteq Range(calls) \cup {call}
      /\ Range(calls) \subseteq Range(calls') \cup {calls[i]} /\ call \in Range(calls')
  BY <1>1, <1>4, ClientKinds, InReplaced
<1>6. Len(calls') = Len(calls) /\ (calls = <<>> => calls' = <<>>)
  BY <1>1, <1>4, ClientKinds, LenProperties, EmptySeq
<1>7. Aside
  BY <1>1 DEF Aside, Due, Core, Unraced
<1>8. Reaches'
  BY <1>3, <1>4, <1>5, <1>7, AsideReaches DEF PaneInv, Like
<1>9. Counted'
  BY <1>1, <1>3, <1>4, <1>5 DEF PaneInv, Counted, Stated, Like
<1>10. Asking'
  <2>1. \A c \in Range(calls) : Fits(c)
    BY DEF PaneInv, Asking
  <2>2. Fits(call)
    BY <1>3, <1>4, <2>1 DEF Fits, Like
  <2>3. Verifies(calls[i]) => Verifies(call)
    BY <1>4 DEF Verifies, Like
  <2>4. \A c \in Range(calls') : Fits(c)'
    BY <1>1, <1>5, <2>1, <2>2 DEF Fits
  <2>5. pane.pending_grant # 0 => \E c \in Range(calls') : Verifies(c)'
    BY <1>1, <1>5, <2>3 DEF PaneInv, Asking, Verifies
  <2> QED
    BY <1>1, <1>6, <2>4, <2>5 DEF PaneInv, Asking
<1>11. Bound'
  BY <1>2 DEF Bound
<1> QED
  BY <1>8, <1>9, <1>10, <1>11 DEF PaneInv

\* An answer nobody waits for is no answer for the lease.
LEMMA DiscardReaches ==
    ASSUME IInv, PaneInv, NEW i \in DOMAIN calls, Discard(i)
    PROVE  PaneInv'
<1>1. /\ UNCHANGED <<control, attachment, link, resubscribe, broadcast, inbox, pane>>
      /\ UNCHANGED <<seen, races>> /\ calls' = RemoveAt(calls, i)
  BY DEF Discard, hostVars, linkVars, historyVars
<1>2. calls[i] \in Range(calls)
  BY CallIn
<1>3. Fits(calls[i])
  BY <1>2 DEF PaneInv, Asking
<1>4. /\ calls[i].op \in {"grant", "take"} /\ ~Verifies(calls[i])
  BY <1>3 DEF Discard, Fits, Verifies
<1>5. /\ Range(calls') \subseteq Range(calls)
      /\ Range(calls) \subseteq Range(calls') \cup {calls[i]}
  BY <1>1, ClientKinds, InRemoved
<1>6. Aside
  BY <1>1 DEF Aside, Due, Core, Unraced
<1>7. Reaches'
  BY <1>4, <1>5, <1>6, AsideReaches DEF PaneInv, Like
<1>8. Counted'
  BY <1>1, <1>5 DEF PaneInv, Counted, Stated
<1>9. pane.life = "running"
  <2>1. pane.life # "attaching"
    BY <1>3, <1>4 DEF Fits
  <2>2. calls # <<>>
    BY <1>2 DEF Range
  <2>3. pane.life \in {"lost", "attaching", "running"}
    BY ClientKinds DEF Pane
  <2> QED
    BY <2>1, <2>2, <2>3 DEF PaneInv, Asking
<1>10. Asking'
  BY <1>1, <1>4, <1>5, <1>9 DEF PaneInv, Asking, Fits, Verifies
<1>11. Bound'
  BY <1>1, <1>5 DEF PaneInv, Bound
<1> QED
  BY <1>7, <1>8, <1>10, <1>11 DEF PaneInv

-----------------------------------------------------------------------------
(* Decisions of the Host.                                                  *)

\* One event is broadcast.
LEMMA InBroadcast ==
    ASSUME NEW S, NEW s \in Seq(S), NEW e \in S
    PROVE  Range(s \o <<e>>) = Range(s) \cup {e}
<1> DEFINE one == <<e>>
<1>1. one \in Seq(S) /\ Len(one) = 1 /\ one[1] = e
  OBVIOUS
<1> HIDE DEF one
<1>2. Range(one) = {e}
  <2>1. Range(one) = {one[i] : i \in 1 .. 1}
    BY <1>1, RangeEquality
  <2> QED
    BY <1>1, <2>1
<1>3. Range(s \o one) = Range(s) \cup Range(one)
  BY <1>1, RangeConcatenation
<1> QED
  BY <1>2, <1>3 DEF one

\* What is new is of no later turn either.
LEMMA CountedAfter ==
    ASSUME IInv, PaneInv, control'.turn \in Nat, control'.turn >= control.turn,
           seen' = seen \/ seen' <= control'.turn,
           \A e \in Range(broadcast') \cup Range(inbox') :
              \/ e \in Range(broadcast) \cup Range(inbox)
              \/ e.at <= control'.turn /\ Stated(e),
           \A c \in Range(calls') : c \in Range(calls) \/ c.at <= control'.turn
    PROVE  Counted'
<1>1. control.turn \in Nat /\ Counted
  BY LinkKinds DEF PaneInv
<1>2. seen' <= control'.turn
  BY <1>1, ClientKinds DEF Counted
<1>3. ASSUME NEW d \in Range(broadcast) \cup Range(inbox)
      PROVE  d.at <= control'.turn /\ Stated(d)
  BY <1>1, ToldKinds DEF Counted
<1>4. ASSUME NEW c \in Range(calls) PROVE c.at <= control'.turn
  BY <1>1, ToldKinds DEF Counted
<1>5. \A e \in Range(broadcast') \cup Range(inbox') : e.at <= control'.turn /\ Stated(e)
  BY <1>3
<1> QED
  BY <1>2, <1>4, <1>5 DEF Counted, Stated

\* What was told before a decision is of an earlier turn, or still due.
LEMMA OldTidings ==
    ASSUME IInv, PaneInv, Turned(control, control'), link # "down" /\ Unraced,
           NEW m \in Tidings, m.at >= control'.turn
    PROVE  m.lease_epoch = Due(control)'
<1>1. PICK t \in 0 .. control.turn : Truthful(t)
  BY DEF PaneInv, Reaches
<1>2. /\ m.at <= control.turn /\ m.at \in Nat /\ control.turn \in Nat /\ control'.turn \in Nat
      /\ control'.turn >= control.turn
  BY TidingsCounted, ToldKinds DEF PaneInv, Turned
<1>3. control'.turn = control.turn /\ m.at >= t
  BY <1>2
<1> QED
  BY <1>1, <1>3 DEF Truthful, Turned, Due

\* A decision is told, or nobody listens; requests that are not for control stay.
LEMMA DecisionReaches ==
    ASSUME IInv, PaneInv, NEW new, Moves(new), Turned(control, new), Decide(new, Events(new)),
           UNCHANGED <<inbox, pane, seen, link, attachment, resubscribe>>,
           Range(calls') \subseteq Range(calls),
           \A c \in Range(calls) : c \in Range(calls') \/ c.op = "take",
           Asking'
    PROVE  PaneInv'
<1>1. /\ control' = new
      /\ broadcast' = IF link = "subscribed" THEN broadcast \o Events(new) ELSE broadcast
      /\ races' = races \cup Unheard(Events(new))
  BY DEF Decide
<1>2. /\ broadcast \in Seq(ControlEvent) /\ control \in Control /\ Linked
      /\ control.turn \in Nat /\ control'.turn \in Nat /\ control'.turn >= control.turn
      /\ link \in {"down", "serving", "subscribed"}
  BY <1>1, LinkKinds DEF Turned
<1>3. Turned(control, control')
  BY <1>1
<1>4. Bound'
  BY DEF PaneInv, Bound
<1>6. CASE Events(new) = <<>> /\ Due(new) = Due(control)
  <2>1. broadcast' = broadcast /\ races' = races
    BY <1>1, <1>2, <1>6, ConcatEmptySeq DEF Unheard
  <2>2. Counted'
    BY <1>2, <2>1, CountedAfter
  <2>3. Tidings' \subseteq Tidings /\ Tidings \subseteq Tidings'
    BY <2>1 DEF Tidings, Tells, Answers
  <2>4. (Awaited => Awaited') /\ (PaneTells => PaneTells')
    BY <1>1, <1>6, <2>1 DEF Awaited, PaneTells, Due
  <2>5. Due(control)' = Due(control)
    BY <1>1, <1>6 DEF Due
  <2>6. \A t \in Nat : Truthful(t) /\ Covered(t) => Covered(t)'
    BY <2>1, <2>3, <2>4 DEF Covered
  <2>7. Reaches'
    BY <1>2, <2>1, <2>3, <2>5, <2>6, Carried DEF PaneInv, Unraced
  <2> QED
    BY <1>4, <2>2, <2>7 DEF PaneInv
<1>7. ASSUME NEW e \in ControlEvent, Events(new) = <<e>>, Tells(e), Stated(e),
             e.at = new.turn, e.lease_epoch = Due(new)
      PROVE  Counted' /\ Reaches'
  <2>1. /\ Range(broadcast') \subseteq Range(broadcast) \cup {e}
        /\ link = "subscribed" => e \in Range(broadcast')
    BY <1>1, <1>2, <1>7, InBroadcast
  <2>2. Counted'
    <3>1. e.at <= control'.turn
      BY <1>1, <1>2, <1>7
    <3>2. \A d \in Range(broadcast') \cup Range(inbox') :
             \/ d \in Range(broadcast) \cup Range(inbox)
             \/ d.at <= control'.turn /\ Stated(d)
      BY <1>7, <2>1, <3>1
    <3> QED
      BY <1>2, <3>2, CountedAfter
  <2>3. SUFFICES ASSUME link' # "down" /\ Unraced'
                 PROVE  /\ \A m \in Tidings' :
                              m.at >= control'.turn => m.lease_epoch = Due(control)'
                        /\ \E m \in Tidings' : m.at >= control'.turn
    BY <1>2, <2>2, Renewed
  <2>4. link = "subscribed" /\ Unraced
    <3>1. <<e>> # <<>>
      OBVIOUS
    <3> QED
      BY <1>1, <1>2, <1>7, <2>3, <3>1 DEF Unraced, Unheard
  <2>5. e \in Tidings' /\ e.at = control'.turn
    BY <1>1, <1>7, <2>1, <2>4 DEF Tidings, Tells
  <2>6. Tidings' \subseteq Tidings \cup {e}
    BY <2>1 DEF Tidings, Tells, Answers
  <2>7. \A m \in Tidings' : m.at >= control'.turn => m.lease_epoch = Due(control)'
    BY <1>1, <1>3, <1>7, <2>4, <2>6, OldTidings DEF Due
  <2> QED
    BY <1>2, <2>5, <2>7
<1>8. \/ Counted' /\ Reaches'
      \/ Events(new) = <<>> /\ Due(new) = Due(control)
  BY <1>2, <1>7, EventsReach
<1> QED
  BY <1>4, <1>6, <1>8 DEF PaneInv

\* ... and if requests stay as they are
LEMMA DecisionAlone ==
    ASSUME IInv, PaneInv, NEW new, Moves(new), Turned(control, new), Decide(new, Events(new)),
           UNCHANGED <<inbox, pane, seen, link, attachment, resubscribe, calls>>
    PROVE  PaneInv'
<1>1. Asking'
  BY DEF PaneInv, Asking, Fits, Verifies
<1> QED
  BY <1>1, DecisionReaches

LEMMA RivalTakesReaches ==
    ASSUME IInv, PaneInv, RivalTakes
    PROVE  PaneInv'
<1> DEFINE new == Handed(control, Rival)
<1>1. Rival \in Clients
  BY DEF Clients
<1>2. Moves(new) /\ Turned(control, new)
  BY <1>1, HandedMoves, HandedTurned, LinkKinds
<1>3. /\ Decide(new, Events(new))
      /\ UNCHANGED <<inbox, pane, seen, link, attachment, resubscribe, calls>>
  BY DEF RivalTakes, clientVars
<1> HIDE DEF new
<1> QED
  BY <1>2, <1>3, DecisionAlone

LEMMA YieldLeasesReaches ==
    ASSUME IInv, PaneInv, NEW c \in Clients, YieldLeases(c)
    PROVE  PaneInv'
<1> DEFINE here == control.present /\ c # Me
           ctl == [control EXCEPT !.present = here]
           new == Yielded(ctl, c)
<1>1. here \in BOOLEAN
  OBVIOUS
<1>2. new = Yielded([control EXCEPT !.present = @ /\ c # Me], c)
  OBVIOUS
<1>3. /\ Decide(new, Events(new))
      /\ UNCHANGED <<inbox, pane, seen, link, attachment, resubscribe, calls>>
  BY <1>2 DEF YieldLeases, clientVars
<1> HIDE DEF here
<1>4. /\ ctl \in Control /\ ctl.holder = control.holder /\ ctl.controller = control.controller
      /\ ctl.lease_epoch = control.lease_epoch /\ ctl.turn = control.turn
      /\ ctl.next_lease_epoch = control.next_lease_epoch
  BY <1>1, LinkKinds DEF Control
<1> HIDE DEF ctl
<1>5. ctl.lease_epoch < ctl.next_lease_epoch /\ Holding(ctl)
  BY <1>4, LinkKinds DEF Holding
<1>6. Moves(new)
  BY <1>4, <1>5, YieldedMoves
<1>7. Turned(ctl, new)
  BY <1>4, YieldedTurned
<1>8. Turned(control, new)
  BY <1>4, <1>7 DEF Turned
<1> HIDE DEF new
<1> QED
  BY <1>3, <1>6, <1>8, DecisionAlone

\* A hand-over is a decision, whoever views the terminal.
LEMMA HandedOver ==
    ASSUME IInv, NEW c \in Clients, HandOver(c)
    PROVE  \E new : Moves(new) /\ Turned(control, new) /\ Decide(new, Events(new))
<1>1. PICK viewers \in Viewers(c) :
         LET new == IF control.controller # c THEN control
                    ELSE IF viewers = {} THEN [control EXCEPT !.controller = Nobody]
                    ELSE Handed(control, CHOOSE v \in viewers : TRUE)
         IN  Decide(new, Events(new))
  BY DEF HandOver
<1> DEFINE new == IF control.controller # c THEN control
                  ELSE IF viewers = {} THEN [control EXCEPT !.controller = Nobody]
                  ELSE Handed(control, CHOOSE v \in viewers : TRUE)
<1>2. Decide(new, Events(new))
  BY <1>1
<1>3. viewers \subseteq Clients
  BY DEF Viewers, Clients
<1>4. Moves(new) /\ Turned(control, new)
  <2>1. CASE control.controller # c
    BY <2>1, LinkKinds DEF Moves, Turned
  <2>2. CASE control.controller = c /\ viewers = {}
    <3>1. new = [control EXCEPT !.controller = Nobody]
      BY <2>2
    <3> HIDE DEF new
    <3>2. /\ new \in Control /\ new.holder = control.holder /\ new.controller = Nobody
          /\ new.lease_epoch = control.lease_epoch /\ new.turn = control.turn
          /\ new.next_lease_epoch = control.next_lease_epoch
      BY <3>1, LinkKinds DEF Control
    <3> QED
      BY <3>2, LinkKinds, PaneAssumption DEF Moves, Holding, Turned
  <2>3. CASE control.controller = c /\ viewers # {}
    <3>1. (CHOOSE v \in viewers : TRUE) \in Clients
      BY <1>3, <2>3
    <3>2. /\ Moves(Handed(control, CHOOSE v \in viewers : TRUE))
          /\ Turned(control, Handed(control, CHOOSE v \in viewers : TRUE))
      BY <3>1, HandedMoves, HandedTurned, LinkKinds
    <3> QED
      BY <2>3, <3>2
  <2> QED
    BY <2>1, <2>2, <2>3
<1> HIDE DEF new
<1> QED
  BY <1>2, <1>4

LEMMA HandOverReaches ==
    ASSUME IInv, PaneInv, NEW c \in Clients, HandOver(c)
    PROVE  PaneInv'
<1>1. PICK new : Moves(new) /\ Turned(control, new) /\ Decide(new, Events(new))
  BY HandedOver
<1>2. UNCHANGED <<inbox, pane, seen, link, attachment, resubscribe, calls>>
  BY DEF HandOver, clientVars
<1> QED
  BY <1>1, <1>2, DecisionAlone

\* The request for control is no request for the lease.
LEMMA HandleTakeReaches ==
    ASSUME IInv, PaneInv, NEW i \in DOMAIN calls, HandleTake(i)
    PROVE  PaneInv'
<1> DEFINE handed == Handed(control, Me)
           new == [handed EXCEPT !.asked = TRUE]
<1>1. Moves(handed) /\ handed \in Control /\ Turned(control, handed)
  BY HandedMoves, HandedTurned, LinkKinds DEF Clients, Moves
<1>2. /\ Decide(new, Events(new)) /\ calls' = RemoveAt(calls, i) /\ calls[i].op = "take"
      /\ UNCHANGED <<inbox, pane, seen, link, attachment, resubscribe>>
  BY DEF HandleTake, IsNext
<1> HIDE DEF handed
<1>3. /\ new \in Control /\ new.holder = handed.holder /\ new.controller = handed.controller
      /\ new.lease_epoch = handed.lease_epoch /\ new.next_lease_epoch = handed.next_lease_epoch
      /\ new.turn = handed.turn
  BY <1>1 DEF Control
<1> HIDE DEF new
<1>4. Moves(new) /\ Turned(control, new)
  BY <1>1, <1>3 DEF Moves, Holding, Turned
<1>5. /\ Range(calls') \subseteq Range(calls)
      /\ Range(calls) \subseteq Range(calls') \cup {calls[i]}
  BY <1>2, ClientKinds, InRemoved
<1>6. pane.life = "running"
  <2>1. Fits(calls[i]) /\ calls # <<>>
    BY CallIn DEF PaneInv, Asking, Range
  <2>2. pane.life \in {"lost", "attaching", "running"}
    BY ClientKinds DEF Pane
  <2> QED
    BY <1>2, <2>1, <2>2 DEF PaneInv, Asking, Fits
<1>7. Asking'
  BY <1>2, <1>5, <1>6 DEF PaneInv, Asking, Fits, Verifies
<1> QED
  BY <1>2, <1>4, <1>5, <1>7, DecisionReaches

-----------------------------------------------------------------------------
(* Answers to requests for the lease.                                      *)

\* The answer is what is due.
LEMMA AnsweredDue ==
    ASSUME IInv, Acquire
    PROVE  Answered = Due(control)' /\ Turned(control, control')
<1>1. control' = Acquired(control)
  BY DEF Acquire
<1>2. /\ control \in Control /\ control.lease_epoch < control.next_lease_epoch
      /\ Holding(control)
  BY LinkKinds
<1>3. /\ Moves(control')
      /\ MayClaim(control) => control'.holder = Me
      /\ ~MayClaim(control) => control' = control /\ control.controller = Rival
      /\ Turned(control, control')
  BY <1>1, <1>2, AcquiredParts, AcquiredTurned
<1>4. Answered = IF MayClaim(control) THEN control'.lease_epoch ELSE 0
  BY <1>1 DEF Answered
<1> QED
  BY <1>2, <1>3, <1>4 DEF Due, Holding

\* The request is answered: the answer tells what is due, whoever had the lease before.
LEMMA AnswerReaches ==
    ASSUME IInv, PaneInv, Acquire, link # "down", NEW i \in DOMAIN calls, NEW call \in PaneCall,
           UNCHANGED <<inbox, pane, seen, link, resubscribe>>,
           calls' = [calls EXCEPT ![i] = call],
           calls[i].op \in {"attach", "reclaim"}, calls[i].lease = "sent",
           call.op = calls[i].op, call.stale = calls[i].stale, call.lease = "answered",
           call.lease_epoch = Answered, call.at = control'.turn,
           races \subseteq races',
           attachment'.attached \/ (call.op = "reclaim" /\ attachment' = attachment)
    PROVE  PaneInv'
<1>1. /\ control \in Control /\ control.lease_epoch < control.next_lease_epoch
      /\ Holding(control) /\ broadcast \in Seq(ControlEvent)
      /\ control.turn \in Nat /\ control' = Acquired(control)
  BY LinkKinds DEF Acquire
<1>2. /\ Turned(control, control') /\ Answered = Due(control)'
      /\ control'.turn \in Nat /\ control'.turn >= control.turn
  BY AnsweredDue DEF Turned
<1>3. Moves(control')
  BY <1>1, AcquiredParts
<1>4. /\ Range(calls') \subseteq Range(calls) \cup {call}
      /\ Range(calls) \subseteq Range(calls') \cup {calls[i]} /\ call \in Range(calls')
      /\ Len(calls') = Len(calls) /\ calls[i] \in Range(calls)
      /\ calls # <<>>
  <2>1. /\ Range(calls') \subseteq Range(calls) \cup {call}
        /\ Range(calls) \subseteq Range(calls') \cup {calls[i]} /\ call \in Range(calls')
    BY ClientKinds, InReplaced
  <2>2. Len(calls') = Len(calls) /\ calls # <<>>
    BY ClientKinds, LenProperties, EmptySeq
  <2> QED
    BY <2>1, <2>2, CallIn
<1>5. ASSUME NEW d \in Range(broadcast')
      PROVE  \/ d \in Range(broadcast)
             \/ Stated(d) /\ d.at = control'.turn /\ d.lease_epoch = Due(control)'
  <2>1. broadcast' \in {broadcast, broadcast \o <<>>, broadcast \o Events(control')}
    BY <1>1 DEF Acquire
  <2>2. broadcast \o <<>> = broadcast
    BY <1>1, ConcatEmptySeq
  <2>3. CASE Events(control') = <<>>
    BY <1>5, <2>1, <2>2, <2>3
  <2>4. ASSUME NEW e \in ControlEvent, Events(control') = <<e>>, Stated(e),
               e.at = control'.turn, e.lease_epoch = Due(control')
        PROVE  \/ d \in Range(broadcast)
               \/ Stated(d) /\ d.at = control'.turn /\ d.lease_epoch = Due(control)'
    <3>1. Range(broadcast \o <<e>>) = Range(broadcast) \cup {e}
      BY <1>1, InBroadcast
    <3>2. d \in Range(broadcast) \cup {e}
      BY <1>5, <2>1, <2>2, <2>4, <3>1
    <3> QED
      BY <2>4, <3>2 DEF Due
  <2>5. \/ Events(control') = <<>>
        \/ \E e \in ControlEvent : /\ Events(control') = <<e>> /\ Stated(e)
                                   /\ e.at = control'.turn /\ e.lease_epoch = Due(control')
    <3> DEFINE new == Acquired(control)
    <3>1. Moves(new) /\ Turned(control, new)
      BY <1>1, <1>2, <1>3
    <3> HIDE DEF new
    <3>2. \/ Events(new) = <<>>
          \/ \E e \in ControlEvent : /\ Events(new) = <<e>> /\ Stated(e)
                                     /\ e.at = new.turn /\ e.lease_epoch = Due(new)
      BY <1>1, <3>1, EventsReach
    <3> QED
      BY <1>1, <3>2 DEF new
  <2> QED
    BY <2>3, <2>4, <2>5
<1>6. Counted'
  <2>1. call.at <= control'.turn
    BY <1>2
  <2>2. \A e \in Range(broadcast') \cup Range(inbox') :
           \/ e \in Range(broadcast) \cup Range(inbox)
           \/ e.at <= control'.turn /\ Stated(e)
    BY <1>2, <1>5
  <2> QED
    BY <1>2, <1>4, <2>1, <2>2, CountedAfter
<1>7. Asking'
  BY <1>4 DEF PaneInv, Asking, Fits, Verifies
<1>8. Bound'
  BY <1>4 DEF PaneInv, Bound
<1>9. Reaches'
  <2>1. SUFFICES ASSUME link' # "down" /\ Unraced'
                 PROVE  /\ \A m \in Tidings' :
                              m.at >= control'.turn => m.lease_epoch = Due(control)'
                        /\ \E m \in Tidings' : m.at >= control'.turn
    BY <1>2, Renewed
  <2>2. call \in Tidings'
    BY <1>4 DEF Tidings, Answers
  <2>3. ASSUME NEW m \in Tidings', m.at >= control'.turn PROVE m.lease_epoch = Due(control)'
    <3>1. \/ m \in Tidings \/ m = call \/ m.lease_epoch = Due(control)'
      BY <1>4, <1>5, <2>3 DEF Tidings, Tells, Answers
    <3>2. Unraced
      BY <2>1 DEF Unraced
    <3> QED
      BY <1>2, <2>3, <3>1, <3>2, OldTidings
  <2> QED
    BY <1>2, <2>2, <2>3
<1> QED
  BY <1>6, <1>7, <1>8, <1>9 DEF PaneInv

LEMMA HandleAcquireReaches ==
    ASSUME IInv, PaneInv, NEW i \in DOMAIN calls, HandleAcquire(i)
    PROVE  PaneInv'
<1> DEFINE call == [calls[i] EXCEPT !.lease = "answered", !.lease_epoch = Answered,
                                    !.at = control'.turn]
<1>1. /\ Acquire /\ link # "down" /\ calls' = [calls EXCEPT ![i] = call]
      /\ attachment' = IF Answered = 0 THEN attachment ELSE Attached(Answered)
      /\ races' = races \cup AcquireRaces
      /\ calls[i].op = "reclaim" /\ calls[i].lease = "sent"
      /\ UNCHANGED <<inbox, pane, seen, link, resubscribe>>
  BY DEF HandleAcquire, IsNext
<1>2. Answered \in Nat /\ control'.turn \in Nat
  BY <1>1, AnsweredKinds
<1>3. /\ call \in PaneCall /\ call.op = calls[i].op /\ call.stale = calls[i].stale
      /\ call.lease = "answered" /\ call.lease_epoch = Answered /\ call.at = control'.turn
  BY <1>2, CallParts DEF PaneCall, Part
<1> HIDE DEF call
<1>4. attachment'.attached \/ attachment' = attachment
  BY <1>1 DEF Attached
<1> QED
  BY <1>1, <1>3, <1>4, AnswerReaches

LEMMA HandleAttachReaches ==
    ASSUME IInv, PaneInv, NEW i \in DOMAIN calls, HandleAttach(i)
    PROVE  PaneInv'
<1> DEFINE shown == IF Answered # 0 /\ calls[i].geometry_epoch > screen.geometry_epoch
                    THEN [size |-> calls[i].size, geometry_epoch |-> calls[i].geometry_epoch]
                    ELSE screen
           call == [calls[i] EXCEPT !.lease = "answered", !.checkpoint = "answered",
                                    !.lease_epoch = Answered, !.at = control'.turn,
                                    !.size = shown.size,
                                    !.geometry_epoch = shown.geometry_epoch]
<1>1. /\ Acquire /\ link # "down" /\ calls' = [calls EXCEPT ![i] = call]
      /\ attachment' = Attached(Answered) /\ races \subseteq races'
      /\ calls[i].op = "attach" /\ calls[i].lease = "sent"
      /\ UNCHANGED <<inbox, pane, seen, link, resubscribe>>
  BY DEF HandleAttach, IsNext
<1>2. Answered \in Nat /\ control'.turn \in Nat
  BY <1>1, AnsweredKinds
<1>3. shown.size \in Sizes /\ shown.geometry_epoch \in Nat
  BY CallParts, ClientKinds DEF Screen
<1> HIDE DEF shown
<1>4. /\ call \in PaneCall /\ call.op = calls[i].op /\ call.stale = calls[i].stale
      /\ call.lease = "answered" /\ call.lease_epoch = Answered /\ call.at = control'.turn
  BY <1>2, <1>3, CallParts DEF PaneCall, Part
<1> HIDE DEF call
<1>5. attachment'.attached
  BY <1>1 DEF Attached
<1> QED
  BY <1>1, <1>4, <1>5, AnswerReaches

-----------------------------------------------------------------------------
(* Events on their way, and the connection.                                *)

\* The forwarder passes an event on.
LEMMA ForwardEventReaches ==
    ASSUME IInv, PaneInv, ForwardEvent
    PROVE  PaneInv'
<1> DEFINE e == Head(broadcast)
<1>1. /\ broadcast # <<>> /\ e.type # "lagged" /\ inbox' = Append(inbox, e)
      /\ broadcast' = Tail(broadcast)
      /\ UNCHANGED <<control, link, resubscribe, calls, pane, seen, races>>
  BY DEF ForwardEvent, hostVars, historyVars
<1>2. attachment.attached => attachment'.attached
  <2>1. attachment' \in {attachment, Attached(e.lease_epoch), [attachment EXCEPT !.mode = "observer"]}
        /\ (~attachment.attached => attachment' = attachment)
    BY DEF ForwardEvent
  <2> QED
    BY <2>1, LinkKinds DEF Attached, Attachments
<1>3. e \in ControlEvent /\ Range(broadcast) = Range(broadcast') \cup {e}
  BY <1>1, LinkKinds, HeadTailProperties, InTail
<1> HIDE DEF e
<1>4. Range(inbox') = Range(inbox) \cup {e}
  BY <1>1, <1>3, ClientKinds, InAppend
<1>5. Range(broadcast') \cup Range(inbox') = Range(broadcast) \cup Range(inbox)
  BY <1>3, <1>4
<1>6. Counted'
  BY <1>1, <1>5, LinkKinds, CountedAfter
<1>7. Asking' /\ Bound'
  BY <1>1, <1>2 DEF PaneInv, Asking, Fits, Verifies, Bound
<1>8. Tidings' \subseteq Tidings /\ Tidings \subseteq Tidings'
  BY <1>1, <1>5 DEF Tidings, Tells, Answers
<1>9. (Awaited => Awaited') /\ (PaneTells => PaneTells')
  BY <1>1, <1>3, <1>4 DEF Awaited, PaneTells, Due
<1>10. Reaches'
  <2>1. \A t \in Nat : Truthful(t) /\ Covered(t) => Covered(t)'
    BY <1>1, <1>8, <1>9 DEF Covered
  <2>2. Due(control)' = Due(control) /\ (link' # "down" /\ Unraced' => link # "down" /\ Unraced)
    BY <1>1 DEF Due, Unraced
  <2> QED
    BY <1>1, <1>8, <2>1, <2>2, LinkKinds, Carried DEF PaneInv
<1> QED
  BY <1>6, <1>7, <1>10 DEF PaneInv

\* The forwarder finds that it missed events: it tells what is due, or the pane is untold.
LEMMA ResyncLeasesReaches ==
    ASSUME IInv, PaneInv, ResyncLeases
    PROVE  PaneInv'
<1>0. /\ broadcast # <<>> /\ broadcast' = Tail(broadcast)
      /\ UNCHANGED <<control, link, resubscribe, calls, pane, seen>>
  BY DEF ResyncLeases, hostVars
<1>1. Range(broadcast') \subseteq Range(broadcast)
  BY <1>0, LinkKinds, InTail
<1>2. Asking'
  BY <1>0 DEF PaneInv, Asking, Fits, Verifies
<1>3. /\ control.turn \in Nat /\ control.turn >= control.turn /\ control' = control
      /\ Turned(control, control')
  BY <1>0, LinkKinds DEF Turned
<1>4. CASE UNCHANGED <<attachment, inbox>> /\ races' = races \cup {"untold"}
  <2>1. Counted'
    BY <1>0, <1>1, <1>3, <1>4, CountedAfter
  <2>2. Bound'
    BY <1>0, <1>4 DEF PaneInv, Bound
  <2>3. Reaches'
    BY <1>4 DEF Reaches, Unraced
  <2> QED
    BY <1>2, <2>1, <2>2, <2>3 DEF PaneInv
<1>5. ASSUME NEW e \in ControlEvent, Tells(e), Stated(e), e.at = control.turn,
             e.lease_epoch = Due(control), inbox' = Append(inbox, e), races' = races,
             attachment'.attached
      PROVE  PaneInv'
  <2>1. Range(inbox') = Range(inbox) \cup {e}
    BY <1>5, ClientKinds, InAppend
  <2>2. Counted'
    <3>1. e.at <= control'.turn
      BY <1>3, <1>5
    <3> QED
      BY <1>0, <1>1, <1>3, <1>5, <2>1, <3>1, CountedAfter
  <2>3. Bound'
    BY <1>5 DEF Bound
  <2>4. Reaches'
    <3>1. e \in Tidings' /\ e.at >= control'.turn
      BY <1>3, <1>5, <2>1 DEF Tidings, Tells
    <3>2. Tidings' \subseteq Tidings \cup {e}
      BY <1>0, <1>1, <2>1 DEF Tidings, Tells, Answers
    <3>3. link' # "down" /\ Unraced' => link # "down" /\ Unraced
      BY <1>0, <1>5 DEF Unraced
    <3>4. e.lease_epoch = Due(control)'
      BY <1>3, <1>5 DEF Due
    <3> QED
      BY <1>3, <3>1, <3>2, <3>3, <3>4, OldTidings, Renewed
  <2> QED
    BY <1>2, <2>2, <2>3, <2>4 DEF PaneInv
<1>6. CASE ~(UNCHANGED <<attachment, inbox>> /\ races' = races \cup {"untold"})
  <2> DEFINE granted == Event("granted", control.lease_epoch)
             revoked == Event("revoked", 0)
  <2>1. /\ races' = races /\ attachment.attached
        /\ attachment' = IF control.holder = Me THEN Attached(control.lease_epoch)
                         ELSE [attachment EXCEPT !.mode = "observer"]
        /\ inbox' = Append(inbox, IF control.holder = Me THEN granted ELSE revoked)
    BY <1>6 DEF ResyncLeases
  <2>2. attachment'.attached
    BY <2>1, LinkKinds DEF Attached, Attachments
  <2>3. /\ control.lease_epoch \in Nat /\ Me # Nobody /\ control.turn \in Nat
        /\ control.holder # Nobody => control.lease_epoch # 0
    BY LinkKinds, PaneAssumption DEF Holding
  <2>4. /\ granted \in ControlEvent /\ granted.type = "granted" /\ granted.at = control.turn
        /\ granted.lease_epoch = control.lease_epoch
        /\ revoked \in ControlEvent /\ revoked.type = "revoked" /\ revoked.at = control.turn
        /\ revoked.lease_epoch = 0
    BY <2>3 DEF Event, ControlEvent, Type
  <2> HIDE DEF granted, revoked
  <2>5. CASE control.holder = Me
    <3>1. Tells(granted) /\ Stated(granted) /\ granted.lease_epoch = Due(control)
      BY <2>3, <2>4, <2>5 DEF Tells, Stated, Due
    <3> QED
      BY <1>5, <2>1, <2>2, <2>4, <2>5, <3>1
  <2>6. CASE control.holder # Me
    <3>1. Tells(revoked) /\ Stated(revoked) /\ revoked.lease_epoch = Due(control)
      BY <2>3, <2>4, <2>6 DEF Tells, Stated, Due
    <3> QED
      BY <1>5, <2>1, <2>2, <2>4, <2>6, <3>1
  <2> QED
    BY <2>5, <2>6
<1> QED
  BY <1>4, <1>6

\* Events are lost, and what takes their place tells so.
LEMMA LossReaches ==
    ASSUME IInv, PaneInv,
           UNCHANGED <<control, attachment, link, resubscribe, calls, pane, seen, races>>,
           Awaited',
           \A e \in Range(broadcast') \cup Range(inbox') :
              \/ e \in Range(broadcast) \cup Range(inbox)
              \/ e.at <= control.turn /\ Stated(e) /\ ~Tells(e)
    PROVE  PaneInv'
<1>1. Counted'
  BY LinkKinds, CountedAfter
<1>2. Asking' /\ Bound'
  BY DEF PaneInv, Asking, Fits, Verifies, Bound
<1>3. Tidings' \subseteq Tidings
  BY DEF Tidings, Tells, Answers
<1>4. Reaches'
  <2>1. \A t \in Nat : Truthful(t) /\ Covered(t) => Covered(t)'
    BY DEF Covered
  <2>2. Due(control)' = Due(control) /\ (link' # "down" /\ Unraced' => link # "down" /\ Unraced)
    BY DEF Due, Unraced
  <2> QED
    BY <1>3, <2>1, <2>2, LinkKinds, Carried DEF PaneInv
<1> QED
  BY <1>1, <1>2, <1>4 DEF PaneInv

LEMMA LoseEventsReaches ==
    ASSUME IInv, PaneInv, LoseEvents
    PROVE  PaneInv'
<1> DEFINE lagged == Event("lagged", 0)
<1>1. PICK n \in DOMAIN broadcast :
         broadcast' = <<lagged>> \o SubSeq(broadcast, n + 1, Len(broadcast))
  BY DEF LoseEvents
<1>2. UNCHANGED <<control, attachment, link, resubscribe, calls, inbox, pane, seen, races>>
  BY DEF LoseEvents, hostVars, clientVars, historyVars
<1>3. lagged \in ControlEvent /\ lagged.type = "lagged" /\ lagged.at = control.turn
  BY LinkKinds DEF Event, ControlEvent, Type
<1> HIDE DEF lagged
<1>4. /\ lagged \in Range(broadcast')
      /\ Range(broadcast') \subseteq Range(broadcast) \cup {lagged}
  BY <1>1, <1>3, LinkKinds, InOverwritten
<1>5. lagged.at <= control.turn /\ Stated(lagged) /\ ~Tells(lagged)
  BY <1>3, LinkKinds DEF Stated, Tells
<1>6. Awaited'
  BY <1>3, <1>4 DEF Awaited
<1> QED
  BY <1>2, <1>4, <1>5, <1>6, LossReaches

LEMMA LosePaneEventsReaches ==
    ASSUME IInv, PaneInv, LosePaneEvents
    PROVE  PaneInv'
<1> DEFINE ready == Event("ready", 0)
<1>1. PICK n \in DOMAIN inbox : inbox' = <<ready>> \o SubSeq(inbox, n + 1, Len(inbox))
  BY DEF LosePaneEvents
<1>2. UNCHANGED <<control, attachment, link, resubscribe, calls, broadcast, pane, seen, races>>
  BY DEF LosePaneEvents, hostVars, linkVars, historyVars
<1>3. ready \in ControlEvent /\ ready.type = "ready" /\ ready.at = control.turn
  BY LinkKinds DEF Event, ControlEvent, Type
<1> HIDE DEF ready
<1>4. ready \in Range(inbox') /\ Range(inbox') \subseteq Range(inbox) \cup {ready}
  BY <1>1, <1>3, ClientKinds, InOverwritten
<1>5. ready.at <= control.turn /\ Stated(ready) /\ ~Tells(ready)
  BY <1>3, LinkKinds DEF Stated, Tells
<1>6. Awaited'
  BY <1>3, <1>4 DEF Awaited
<1> QED
  BY <1>2, <1>4, <1>5, <1>6, LossReaches

\* The connection ends: what the pane is to hear, the next one will tell.
LEMMA DisconnectReaches ==
    ASSUME IInv, PaneInv, Disconnect
    PROVE  PaneInv'
<1>1. /\ link' = "down" /\ control' = [control EXCEPT !.present = FALSE]
      /\ broadcast' = <<>> /\ UNCHANGED <<pane, seen, races>>
  BY DEF Disconnect, historyVars
<1>2. control'.turn = control.turn /\ control.turn \in Nat
  BY <1>1, LinkKinds DEF Control
<1>3. Range(inbox') \subseteq Range(inbox) /\ Range(broadcast') = {}
  <2>1. PICK n \in 0 .. Len(inbox) : inbox' = SubSeq(inbox, 1, n)
    BY DEF Disconnect
  <2>2. n \in Nat /\ n <= Len(inbox) /\ 1 \in Nat \ {0}
    BY <2>1, ClientKinds, LenProperties
  <2>3. Range(inbox') \subseteq Range(inbox)
    BY <2>1, <2>2, ClientKinds, InSubSeq
  <2>4. Range(broadcast') = {}
    BY <1>1 DEF Range
  <2> QED
    BY <2>3, <2>4
<1>4. PICK lost \in SUBSET DOMAIN calls :
         LET Fails(i, part) == part = "sent" \/ (part = "answered" /\ i \in lost)
         IN  calls' = [i \in DOMAIN calls |->
               [calls[i] EXCEPT
                  !.checkpoint = IF Fails(i, @) THEN "failed" ELSE @,
                  !.lease = IF Fails(i, @) THEN "failed" ELSE @,
                  !.lease_epoch = IF Fails(i, calls[i].lease) THEN 0 ELSE @,
                  !.at = IF Fails(i, calls[i].lease) THEN control.turn ELSE @]]
  BY DEF Disconnect
<1> DEFINE Fails(i, part) == part = "sent" \/ (part = "answered" /\ i \in lost)
           call(i) == [calls[i] EXCEPT
                         !.checkpoint = IF Fails(i, @) THEN "failed" ELSE @,
                         !.lease = IF Fails(i, @) THEN "failed" ELSE @,
                         !.lease_epoch = IF Fails(i, calls[i].lease) THEN 0 ELSE @,
                         !.at = IF Fails(i, calls[i].lease) THEN control.turn ELSE @]
<1>5. calls' = [i \in DOMAIN calls |-> call(i)]
  BY <1>4
<1>6. ASSUME NEW i \in DOMAIN calls
      PROVE  /\ call(i).op = calls[i].op /\ call(i).stale = calls[i].stale
             /\ call(i).at \in {calls[i].at, control.turn}
             /\ (call(i).lease = "unasked") <=> (calls[i].lease = "unasked")
             /\ calls[i].lease = "unasked" => call(i).lease_epoch = calls[i].lease_epoch
  <2>1. calls[i] \in PaneCall
    BY CallParts
  <2>2. ~Fails(i, "unasked")
    OBVIOUS
  <2> HIDE DEF Fails
  <2> QED
    BY <2>1, <2>2 DEF PaneCall
<1> HIDE DEF call
<1>7. /\ Range(calls') = {call(i) : i \in DOMAIN calls}
      /\ Range(calls) = {calls[i] : i \in DOMAIN calls}
  BY <1>5 DEF Range
<1>8. Len(calls') = Len(calls) /\ (calls = <<>> => calls' = <<>>)
  <2>1. calls' \in Seq(PaneCall)
    BY DisconnectKeeps, ClientKinds DEF IInv, Types, ClientTypes
  <2>2. /\ DOMAIN calls = 1 .. Len(calls) /\ Len(calls) \in Nat
        /\ DOMAIN calls' = 1 .. Len(calls') /\ Len(calls') \in Nat
    BY <2>1, ClientKinds, LenProperties
  <2>3. DOMAIN calls' = DOMAIN calls
    BY <1>5
  <2>4. Len(calls') = Len(calls)
    <3>1. calls' \in [1 .. Len(calls) -> PaneCall]
      BY <2>1, <2>2, <2>3, LenProperties
    <3> QED
      BY <2>2, <3>1, Numbered
  <2> QED
    BY <2>1, <2>4, ClientKinds, EmptySeq
<1>9. Counted'
  <2>1. \A c \in Range(calls') : c.at <= control'.turn
    BY <1>2, <1>6, <1>7 DEF PaneInv, Counted
  <2>2. control'.turn \in Nat /\ control'.turn >= control.turn /\ seen' = seen
    BY <1>1, <1>2
  <2> QED
    BY <1>3, <2>1, <2>2, CountedAfter
<1>10. Asking'
  <2>1. ASSUME NEW c \in Range(calls') PROVE Fits(c)'
    <3>1. PICK i \in DOMAIN calls : c = call(i)
      BY <1>7
    <3>2. Fits(calls[i])
      BY <1>7 DEF PaneInv, Asking
    <3> QED
      BY <1>1, <1>6, <3>1, <3>2 DEF Fits
  <2>2. ASSUME pane.pending_grant # 0 PROVE \E c \in Range(calls') : Verifies(c)'
    <3>1. PICK i \in DOMAIN calls : Verifies(calls[i])
      BY <1>7, <2>2 DEF PaneInv, Asking
    <3>2. Fits(calls[i])
      BY <1>7 DEF PaneInv, Asking
    <3>3. call(i) \in Range(calls')
      BY <1>7
    <3>4. PICK c \in Range(calls') : c = call(i)
      BY <3>3
    <3>5. c.op = "grant" /\ c.lease_epoch = pane'.pending_grant
      BY <1>1, <1>6, <3>1, <3>2, <3>4 DEF Fits, Verifies
    <3> QED
      BY <3>5 DEF Verifies
  <2> QED
    BY <1>1, <1>8, <2>1, <2>2 DEF PaneInv, Asking, Fits, Verifies
<1>11. Bound' /\ Reaches'
  BY <1>1 DEF Bound, Reaches
<1> QED
  BY <1>9, <1>10, <1>11 DEF PaneInv

\* The next connection begins with a Ready, in a turn of its own.
LEMMA ReconnectReaches ==
    ASSUME IInv, PaneInv, Reconnect
    PROVE  PaneInv'
<1> DEFINE turn == control.turn + 1
           ready == [Event("ready", 0) EXCEPT !.at = @ + 1]
<1>1. /\ link = "down" /\ broadcast' = broadcast /\ inbox' = Append(inbox, ready)
      /\ control' = [control EXCEPT !.present = TRUE, !.turn = turn]
      /\ resubscribe' = \/ pane.life = "running"
                        \/ \E i \in DOMAIN calls : calls[i].op = "attach"
                                                    /\ calls[i].lease = "answered"
      /\ UNCHANGED <<attachment, calls, pane, seen>>
  BY DEF Reconnect
<1>2. turn \in Nat /\ control.turn \in Nat /\ control.turn < turn
  BY LinkKinds
<1>3. ready \in ControlEvent /\ ready.type = "ready" /\ ready.at = turn
  BY <1>2, LinkKinds DEF Event, ControlEvent, Type
<1> HIDE DEF turn, ready
<1>4. control'.turn = turn
  BY <1>1, LinkKinds DEF Control
<1>5. Range(inbox') = Range(inbox) \cup {ready}
  BY <1>1, <1>3, ClientKinds, InAppend
<1>6. Counted'
  <2>1. ready.at <= control'.turn /\ Stated(ready)
    BY <1>2, <1>3, <1>4 DEF Stated
  <2>2. control'.turn \in Nat /\ control'.turn >= control.turn
    BY <1>2, <1>4
  <2> QED
    BY <1>1, <1>5, <2>1, <2>2, CountedAfter
<1>7. Asking'
  BY <1>1 DEF PaneInv, Asking, Fits, Verifies
<1>8. Bound'
  <2>1. (\E c \in Range(calls) : c.op = "attach" /\ c.lease = "answered")
           <=> (\E i \in DOMAIN calls : calls[i].op = "attach" /\ calls[i].lease = "answered")
    BY DEF Range
  <2> QED
    BY <1>1, <2>1 DEF Bound
<1>9. Reaches'
  <2>1. Awaited'
    BY <1>3, <1>5 DEF Awaited
  <2>2. Tidings' \subseteq Tidings
    BY <1>1, <1>3, <1>5 DEF Tidings, Tells, Answers
  <2>3. \A m \in Tidings' : ~(m.at >= control'.turn)
    BY <1>2, <1>4, <2>2, TidingsCounted, ToldKinds DEF PaneInv
  <2> QED
    BY <1>2, <1>4, <2>1, <2>3, Renewed
<1> QED
  BY <1>6, <1>7, <1>8, <1>9 DEF PaneInv

-----------------------------------------------------------------------------
(* The pane hears.                                                         *)

\* It hears m, and all else is on its way as before.
LEMMA HearingReaches ==
    ASSUME IInv, PaneInv, UNCHANGED <<control, link>>, NEW m \in Tidings,
           seen' = IF m.at > seen THEN m.at ELSE seen,
           m.at < seen => "crossed" \in races',
           pane'.life = "lost" \/ (m.lease_epoch = Due(control) => PaneTells'),
           Tidings' \subseteq Tidings, Tidings \subseteq Tidings' \cup {m},
           Awaited => Awaited', pane.life = "lost" => pane'.life = "lost",
           Unraced' => Unraced
    PROVE  Reaches'
<1>1. ASSUME NEW t \in Nat, Truthful(t), Covered(t) PROVE Covered(t)'
  <2>1. CASE pane.life = "lost" \/ pane'.life = "lost" \/ Awaited
    BY <2>1 DEF Covered
  <2>2. CASE \E n \in Tidings' : n.at >= t
    BY <2>2 DEF Covered
  <2>3. CASE pane'.life # "lost" /\ (m.at >= t \/ seen >= t)
    BY <1>1, <2>3, TidingHeard DEF Covered
  <2> QED
    BY <1>1, <2>1, <2>2, <2>3 DEF Covered
<1>2. Due(control)' = Due(control)
  BY DEF Due
<1> QED
  BY <1>1, <1>2, LinkKinds, Carried DEF PaneInv

\* What the pane hears crossed is a matter of turns alone.
LEMMA CrossingUnraced ==
    \A at : /\ at < seen => "crossed" \in Crossing(at)
            /\ Crossing(at) \ {"crossed"} = races \ {"crossed"}
BY DEF Crossing

\* The race about geometry is judged apart.
LEMMA JudgedUnraced ==
    \A rs, call : Judged(rs, call) \ {"misjudged"} = rs \ {"misjudged"}
BY DEF Judged

\* The next event for the pane is taken.
LEMMA EventTaken ==
    ASSUME IInv, PaneInv, inbox # <<>>, inbox' = Tail(inbox), UNCHANGED broadcast
    PROVE  LET e == Head(inbox) IN
           /\ e \in ControlEvent /\ e \in Range(inbox) /\ e.at <= control.turn /\ Stated(e)
           /\ e.at \in Nat
           /\ Range(inbox) = Range(inbox') \cup {e}
<1>1. Head(inbox) \in ControlEvent /\ Range(inbox) = Range(inbox') \cup {Head(inbox)}
  BY ClientKinds, HeadTailProperties, InTail
<1> QED
  BY <1>1, ToldKinds DEF PaneInv, Counted

\* What the pane hears of is no later than the turn.
LEMMA SeenCounted ==
    ASSUME IInv, PaneInv, NEW at \in Nat, at <= control.turn,
           seen' = IF at > seen THEN at ELSE seen, UNCHANGED control
    PROVE  seen' = seen \/ seen' <= control'.turn
OBVIOUS

LEMMA HearGrantReaches ==
    ASSUME IInv, PaneInv, HearGrant
    PROVE  PaneInv'
<1> DEFINE e == Head(inbox)
           call == [Call("grant", "sent", "unasked") EXCEPT !.lease_epoch = e.lease_epoch]
<1>1. /\ inbox # <<>> /\ e.type = "granted" /\ inbox' = Tail(inbox)
      /\ seen' = IF e.at > seen THEN e.at ELSE seen
      /\ races' = Crossing(e.at)
      /\ UNCHANGED <<control, attachment, link, resubscribe, broadcast>>
  BY DEF HearGrant, Hears, hostVars, linkVars
<1>2. \/ /\ pane.life = "running" /\ pane' = [pane EXCEPT !.pending_grant = e.lease_epoch]
         /\ calls' = Append(calls, IF link # "down" THEN call
                                   ELSE [call EXCEPT !.checkpoint = "failed"])
      \/ pane.life = "attaching" /\ pane' = WithLease(pane, e.lease_epoch) /\ calls' = calls
      \/ pane.life = "lost" /\ pane' = pane /\ calls' = calls
  BY DEF HearGrant, Ask
<1>3. /\ e \in ControlEvent /\ e \in Range(inbox) /\ e.at <= control.turn /\ Stated(e)
      /\ e.at \in Nat /\ Range(inbox) = Range(inbox') \cup {e}
  BY <1>1, EventTaken
<1>4. e.lease_epoch \in Nat /\ e.lease_epoch # 0
  BY <1>1, <1>3 DEF ControlEvent, Stated
<1> HIDE DEF e
<1>5. PICK asked : /\ asked \in PaneCall /\ asked.op = "grant" /\ asked.lease = "unasked"
                   /\ asked.at = 0 /\ ~asked.stale /\ asked.lease_epoch = e.lease_epoch
                   /\ asked = IF link # "down" THEN call
                              ELSE [call EXCEPT !.checkpoint = "failed"]
  <2> DEFINE grant == Call("grant", "sent", "unasked")
  <2>1. /\ grant \in PaneCall /\ grant.op = "grant" /\ grant.lease = "unasked"
        /\ grant.at = 0 /\ ~grant.stale
    BY NewCalls DEF Part, Call
  <2>2. call = [grant EXCEPT !.lease_epoch = e.lease_epoch]
    OBVIOUS
  <2> HIDE DEF grant
  <2>3. /\ call \in PaneCall /\ call.op = "grant" /\ call.lease = "unasked"
        /\ call.at = 0 /\ ~call.stale /\ call.lease_epoch = e.lease_epoch
    BY <1>4, <2>1, <2>2 DEF PaneCall
  <2> HIDE DEF call
  <2>4. LET failed == [call EXCEPT !.checkpoint = "failed"] IN
        /\ failed \in PaneCall /\ failed.op = "grant" /\ failed.lease = "unasked"
        /\ failed.at = 0 /\ ~failed.stale /\ failed.lease_epoch = e.lease_epoch
    BY <2>3 DEF PaneCall, Part
  <2> QED
    BY <2>3, <2>4
<1> HIDE DEF call
<1>6. \/ pane.life # "running" /\ calls' = calls
      \/ pane.life = "running" /\ Range(calls') = Range(calls) \cup {asked}
  <2>1. Range(Append(calls, asked)) = Range(calls) \cup {asked}
    <3>1. calls \in Seq(PaneCall) /\ asked \in PaneCall
      BY <1>5, ClientKinds
    <3> QED
      BY <3>1, InAppend
  <2>2. CASE link # "down"
    BY <1>2, <1>5, <2>1, <2>2
  <2>3. CASE link = "down"
    BY <1>2, <1>5, <2>1, <2>3
  <2> QED
    BY <2>2, <2>3
<1>7. Range(calls) \subseteq Range(calls') /\ Range(calls') \subseteq Range(calls) \cup {asked}
  BY <1>6
<1>8. Counted'
  <2>1. asked.at <= control'.turn
    BY <1>1, <1>5, LinkKinds
  <2> QED
    BY <1>1, <1>3, <1>7, <2>1, LinkKinds, SeenCounted, CountedAfter
<1>9. /\ pane'.life = pane.life
      /\ pane.life = "running" => pane'.pending_grant = e.lease_epoch
      /\ pane.life = "attaching" => pane'.pending_grant = 0 /\ pane'.lease_epoch = e.lease_epoch
      /\ pane.life = "lost" => pane' = pane
  BY <1>2, <1>4, ClientKinds DEF Pane, WithLease
<1>10. Asking'
  <2>1. \A c \in Range(calls') : Fits(c)'
    <3>1. \A c \in Range(calls) : Fits(c) /\ Fits(c)'
      BY <1>9 DEF PaneInv, Asking, Fits
    <3>2. pane.life = "running" => Fits(asked)'
      BY <1>4, <1>5, <1>9 DEF Fits
    <3> QED
      BY <1>6, <3>1, <3>2
  <2>2. pane.life # "running" => calls' = calls
    BY <1>6
  <2>3. CASE pane.life = "running"
    <3>1. asked \in Range(calls')
      BY <1>6, <2>3
    <3>2. Verifies(asked)'
      BY <1>5, <1>9, <2>3 DEF Verifies
    <3> QED
      BY <1>9, <2>1, <2>3, <3>1, <3>2 DEF Asking
  <2>4. CASE pane.life # "running"
    BY <1>9, <2>1, <2>2, <2>4, ClientKinds DEF PaneInv, Asking, Pane
  <2> QED
    BY <2>3, <2>4
<1>11. Bound'
  BY <1>1, <1>5, <1>7, <1>9 DEF PaneInv, Bound
<1>12. Reaches'
  <2>1. e \in Tidings
    BY <1>1, <1>3 DEF Tidings, Tells
  <2>2. Tidings' \subseteq Tidings /\ Tidings \subseteq Tidings' \cup {e}
    BY <1>1, <1>3, <1>5, <1>7 DEF Tidings, Tells, Answers
  <2>3. Awaited => Awaited'
    BY <1>1, <1>3, <1>7 DEF Awaited
  <2>4. pane'.life = "lost" \/ (e.lease_epoch = Due(control) => PaneTells')
    <3>1. Due(control)' = Due(control)
      BY <1>1 DEF Due
    <3>2. pane.life \in {"lost", "attaching", "running"}
      BY ClientKinds DEF Pane
    <3> QED
      BY <1>4, <1>9, <3>1, <3>2 DEF PaneTells
  <2>5. (e.at < seen => "crossed" \in races') /\ (Unraced' => Unraced)
    BY <1>1, CrossingUnraced DEF Unraced
  <2> QED
    BY <1>1, <1>9, <2>1, <2>2, <2>3, <2>4, <2>5, HearingReaches
<1> QED
  BY <1>8, <1>10, <1>11, <1>12 DEF PaneInv

LEMMA HearRevocationReaches ==
    ASSUME IInv, PaneInv, HearRevocation
    PROVE  PaneInv'
<1> DEFINE e == Head(inbox)
<1>1. /\ inbox # <<>> /\ e.type = "revoked" /\ inbox' = Tail(inbox)
      /\ seen' = IF e.at > seen THEN e.at ELSE seen
      /\ races' = Crossing(e.at) /\ pane' = WithLease(pane, 0)
      /\ UNCHANGED <<control, attachment, link, resubscribe, broadcast, calls>>
  BY DEF HearRevocation, Hears, hostVars, linkVars
<1>2. /\ e \in ControlEvent /\ e \in Range(inbox) /\ e.at <= control.turn /\ Stated(e)
      /\ e.at \in Nat /\ Range(inbox) = Range(inbox') \cup {e}
  BY <1>1, EventTaken
<1> HIDE DEF e
<1>3. pane'.life = pane.life /\ pane'.lease_epoch = 0 /\ pane'.pending_grant = 0
  BY <1>1, ClientKinds DEF Pane, WithLease
<1>4. Counted'
  BY <1>1, <1>2, LinkKinds, SeenCounted, CountedAfter
<1>5. Asking'
  BY <1>1, <1>3 DEF PaneInv, Asking, Fits
<1>6. Bound'
  BY <1>1, <1>3 DEF PaneInv, Bound
<1>7. Reaches'
  <2>1. e \in Tidings /\ e.lease_epoch = 0
    BY <1>1, <1>2 DEF Tidings, Tells, Stated
  <2>2. Tidings' \subseteq Tidings /\ Tidings \subseteq Tidings' \cup {e}
    BY <1>1, <1>2 DEF Tidings, Tells, Answers
  <2>3. Awaited => Awaited'
    BY <1>1, <1>2 DEF Awaited
  <2>4. e.lease_epoch = Due(control) => PaneTells'
    BY <1>1, <1>3, <2>1 DEF PaneTells, Due
  <2>5. (e.at < seen => "crossed" \in races') /\ (Unraced' => Unraced)
    BY <1>1, CrossingUnraced DEF Unraced
  <2> QED
    BY <1>1, <1>3, <2>1, <2>2, <2>3, <2>4, <2>5, HearingReaches
<1> QED
  BY <1>4, <1>5, <1>6, <1>7 DEF PaneInv

\* Ready: the pane asks for the lease, if it does not attach.
LEMMA HearReadyReaches ==
    ASSUME IInv, PaneInv, HearReady
    PROVE  PaneInv'
<1> DEFINE e == Head(inbox)
           call == Call("reclaim", "sent", "sent")
<1>1. /\ inbox # <<>> /\ e.type = "ready" /\ inbox' = Tail(inbox)
      /\ seen' = IF e.at > seen THEN e.at ELSE seen
      /\ races' = IF pane.life = "attaching" THEN races \cup {"unready"} ELSE races
      /\ IF pane.life = "running" /\ link # "down" THEN calls' = Append(calls, call)
                                                   ELSE calls' = calls
      /\ UNCHANGED <<control, attachment, link, resubscribe, broadcast, pane>>
  BY DEF HearReady, Ask, hostVars, linkVars
<1>2. /\ e \in ControlEvent /\ e \in Range(inbox) /\ e.at <= control.turn /\ Stated(e)
      /\ e.at \in Nat /\ Range(inbox) = Range(inbox') \cup {e}
  BY <1>1, EventTaken
<1>3. /\ call \in PaneCall /\ call.op = "reclaim" /\ call.lease = "sent" /\ call.at = 0
      /\ ~call.stale
  BY NewCalls DEF Part, Call
<1> HIDE DEF e, call
<1>4. /\ Range(calls) \subseteq Range(calls') /\ Range(calls') \subseteq Range(calls) \cup {call}
      /\ pane.life = "running" /\ link # "down" => call \in Range(calls')
      /\ pane.life # "running" => calls' = calls
  <2>1. Range(Append(calls, call)) = Range(calls) \cup {call}
    BY <1>3, ClientKinds, InAppend
  <2> QED
    BY <1>1, <2>1
<1>5. Counted'
  <2>1. call.at <= control'.turn
    BY <1>1, <1>3, LinkKinds
  <2> QED
    BY <1>1, <1>2, <1>4, <2>1, LinkKinds, SeenCounted, CountedAfter
<1>6. Asking'
  <2>1. pane.life \in {"lost", "attaching", "running"}
    BY ClientKinds DEF Pane
  <2>2. CASE pane.life = "running"
    BY <1>1, <1>3, <1>4, <2>2 DEF PaneInv, Asking, Fits, Verifies
  <2>3. CASE pane.life # "running"
    BY <1>1, <1>4, <2>3 DEF PaneInv, Asking, Fits, Verifies
  <2> QED
    BY <2>2, <2>3
<1>7. Bound'
  BY <1>1, <1>3, <1>4 DEF PaneInv, Bound
<1>8. Reaches'
  <2>1. SUFFICES ASSUME link' # "down" /\ Unraced' PROVE Reaches'
    BY DEF Reaches
  <2>2. Unraced /\ pane.life # "attaching" /\ link # "down"
    BY <1>1, <2>1 DEF Unraced
  <2>3. pane'.life = "lost" \/ Awaited'
    <3>1. pane.life \in {"lost", "attaching", "running"}
      BY ClientKinds DEF Pane
    <3> QED
      BY <1>1, <1>3, <1>4, <2>2, <3>1 DEF Awaited
  <2>4. Tidings' \subseteq Tidings
    BY <1>1, <1>2, <1>3, <1>4 DEF Tidings, Tells, Answers
  <2>5. \A t \in Nat : Truthful(t) /\ Covered(t) => Covered(t)'
    BY <2>3 DEF Covered
  <2>6. Due(control)' = Due(control)
    BY <1>1 DEF Due
  <2> QED
    BY <1>1, <2>2, <2>4, <2>5, <2>6, LinkKinds, Carried DEF PaneInv
<1> QED
  BY <1>5, <1>6, <1>7, <1>8 DEF PaneInv

-----------------------------------------------------------------------------
(* The pane's requests.                                                    *)

\* The pane asks to attach: the answer will tell.
LEMMA AttachReaches ==
    ASSUME IInv, PaneInv, Attach
    PROVE  PaneInv'
<1>1. PICK listed \in 1 .. screen.geometry_epoch :
         /\ pane' = [NoPane EXCEPT !.life = "attaching", !.geometry_epoch = listed + 1,
                                   !.next_geometry_epoch = listed + 1,
                                   !.host_geometry_epoch = listed]
         /\ calls' = Append(calls, [Call("attach", "unasked", "sent") EXCEPT
                                       !.geometry_epoch = listed + 1])
  BY DEF Attach
<1>2. listed + 1 \in Nat
  BY ClientKinds
<1>3. pane'.life = "attaching" /\ pane'.pending_grant = 0
  BY <1>1 DEF NoPane
<1> DEFINE epoch == listed + 1
           asked == Call("attach", "unasked", "sent")
           call == [asked EXCEPT !.geometry_epoch = epoch]
<1>4. calls' = Append(calls, call) /\ epoch \in Nat
  BY <1>1, <1>2
<1> HIDE DEF epoch
<1>5. /\ asked \in PaneCall /\ asked.op = "attach" /\ asked.lease = "sent" /\ asked.at = 0
      /\ ~asked.stale
  BY NewCalls DEF Part, Call
<1> HIDE DEF asked
<1>6. /\ call \in PaneCall /\ call.op = "attach" /\ call.lease = "sent" /\ call.at = 0
      /\ ~call.stale
  BY <1>4, <1>5 DEF PaneCall
<1> HIDE DEF call
<1>7. pane.life = "lost" /\ calls = <<>>
      /\ UNCHANGED <<control, attachment, link, resubscribe, broadcast, inbox, seen, races>>
  BY DEF Attach, PaneInv, Asking, hostVars, linkVars, historyVars
<1>8. Range(calls') = {call} /\ Range(calls) = {} /\ Len(calls') = 1
  <2>1. Range(calls') = Range(calls) \cup {call} /\ Len(calls') = Len(calls) + 1
    BY <1>4, <1>6, ClientKinds, InAppend, AppendProperties
  <2>2. Range(<<>>) = {} /\ Len(<<>>) = 0
    BY DEF Range
  <2> QED
    BY <1>7, <2>1, <2>2
<1>9. Counted'
  <2>1. call.at <= control'.turn
    BY <1>6, <1>7, LinkKinds
  <2> QED
    BY <1>7, <1>8, <2>1, LinkKinds, CountedAfter
<1>10. Asking'
  BY <1>3, <1>6, <1>8 DEF Asking, Fits
<1>11. Bound'
  BY <1>3, <1>6, <1>8 DEF Bound
<1>12. Reaches'
  <2>1. Awaited'
    BY <1>6, <1>8 DEF Awaited
  <2>2. Tidings' \subseteq Tidings
    BY <1>6, <1>7, <1>8 DEF Tidings, Tells, Answers
  <2>3. \A t \in Nat : Truthful(t) /\ Covered(t) => Covered(t)'
    BY <2>1 DEF Covered
  <2>4. Due(control)' = Due(control) /\ (Unraced' => Unraced)
    BY <1>7 DEF Due, Unraced
  <2> QED
    BY <1>7, <2>2, <2>3, <2>4, LinkKinds, Carried DEF PaneInv
<1> QED
  BY <1>9, <1>10, <1>11, <1>12 DEF PaneInv

\* A request whose answer the pane takes
LEMMA AnswerTaken ==
    ASSUME IInv, PaneInv, NEW i \in DOMAIN calls, calls' = RemoveAt(calls, i)
    PROVE  /\ calls[i] \in PaneCall /\ calls[i] \in Range(calls) /\ Fits(calls[i])
           /\ calls[i].at \in Nat /\ calls[i].at <= control.turn
           /\ calls[i].lease_epoch \in Nat /\ calls[i].lease \in Part
           /\ Range(calls') \subseteq Range(calls)
           /\ Range(calls) \subseteq Range(calls') \cup {calls[i]}
<1>1. calls[i] \in Range(calls)
  BY CallIn
<1>2. /\ Range(calls') \subseteq Range(calls)
      /\ Range(calls) \subseteq Range(calls') \cup {calls[i]}
  BY ClientKinds, InRemoved
<1>3. calls[i].at <= control.turn /\ Fits(calls[i])
  BY <1>1 DEF PaneInv, Counted, Asking
<1> QED
  BY <1>1, <1>2, <1>3, CallParts, ToldKinds

\* It was no request to attach, so the pane runs.
LEMMA RunningAsks ==
    ASSUME IInv, PaneInv, NEW i \in DOMAIN calls, calls[i].op # "attach"
    PROVE  pane.life = "running"
<1>1. Fits(calls[i]) /\ calls # <<>>
  BY CallIn DEF PaneInv, Asking, Range
<1>2. pane.life \in {"lost", "attaching", "running"}
  BY ClientKinds DEF Pane
<1> QED
  BY <1>1, <1>2 DEF PaneInv, Asking, Fits

\* The answer to a reclaimed lease
LEMMA FinishReclaimReaches ==
    ASSUME IInv, PaneInv, NEW i \in DOMAIN calls, FinishReclaim(i)
    PROVE  PaneInv'
<1> DEFINE a == Adopting(pane, calls[i])
           p == WithLease(a, calls[i].lease_epoch)
           q == Reclaiming(p, calls[i])
<1>1. /\ calls[i].op = "reclaim" /\ calls[i].lease # "sent" /\ calls' = RemoveAt(calls, i)
      /\ Submit(q) \/ pane' = p
      /\ races' = Judged(Crossing(calls[i].at), calls[i])
      /\ seen' = IF calls[i].at > seen THEN calls[i].at ELSE seen
      /\ UNCHANGED <<control, attachment, link, resubscribe, broadcast, inbox>>
  BY DEF FinishReclaim, Done, hostVars, linkVars
<1>2. /\ calls[i] \in PaneCall /\ calls[i] \in Range(calls) /\ Fits(calls[i])
      /\ calls[i].at \in Nat /\ calls[i].at <= control.turn
      /\ calls[i].lease_epoch \in Nat /\ calls[i].lease \in Part
      /\ Range(calls') \subseteq Range(calls)
      /\ Range(calls) \subseteq Range(calls') \cup {calls[i]}
  BY <1>1, AnswerTaken
<1>3. pane.life = "running"
  BY <1>1, RunningAsks
<1>4. pane'.life = "running" /\ pane'.lease_epoch = calls[i].lease_epoch
      /\ pane'.pending_grant = 0
  <2>1. PaneTypes(a) /\ PaneTypes(p) /\ PaneTypes(q)
    BY <1>2, ClientKinds, AdoptingPane, LeasedPane
  <2>2. a \in Pane /\ p \in Pane /\ q \in Pane
    BY <2>1 DEF PaneTypes
  <2>3. Core(a) = Core(pane)
    BY ClientKinds, AdoptedCore
  <2> HIDE DEF a
  <2>4. Core(p) = <<a.life, calls[i].lease_epoch, 0>>
    BY <2>2 DEF Core, WithLease, Pane
  <2> HIDE DEF p
  <2>5. Core(q) = Core(p)
    BY <2>2, AdoptedCore
  <2> HIDE DEF q
  <2>6. Core(pane') = Core(p)
    BY <1>1, <2>2, <2>5, SubmittedCore
  <2> QED
    BY <1>3, <2>3, <2>4, <2>6 DEF Core
<1> HIDE DEF a, p, q
<1>5. Counted'
  BY <1>1, <1>2, LinkKinds, SeenCounted, CountedAfter
<1>6. Asking'
  BY <1>2, <1>3, <1>4 DEF PaneInv, Asking, Fits
<1>7. Bound'
  BY <1>1, <1>2, <1>3 DEF PaneInv, Bound
<1>8. Reaches'
  <2>1. calls[i] \in Tidings
    BY <1>1, <1>2 DEF Tidings, Answers, Fits, Part
  <2>2. Tidings' \subseteq Tidings /\ Tidings \subseteq Tidings' \cup {calls[i]}
    BY <1>1, <1>2 DEF Tidings, Tells, Answers
  <2>3. Awaited => Awaited'
    BY <1>1, <1>2 DEF Awaited
  <2>4. calls[i].lease_epoch = Due(control) => PaneTells'
    BY <1>1, <1>4 DEF PaneTells, Due
  <2>5. (calls[i].at < seen => "crossed" \in races') /\ (Unraced' => Unraced)
    BY <1>1, CrossingUnraced, JudgedUnraced DEF Unraced
  <2> QED
    BY <1>1, <1>2, <1>3, <2>1, <2>2, <2>3, <2>4, <2>5, HearingReaches
<1> QED
  BY <1>5, <1>6, <1>7, <1>8 DEF PaneInv

\* A grant that was verified: the pane holds what it was told before.
LEMMA FinishGrantReaches ==
    ASSUME IInv, PaneInv, NEW i \in DOMAIN calls, FinishGrant(i)
    PROVE  PaneInv'
<1> DEFINE a == Adopting(pane, calls[i])
           p == WithLease(a, calls[i].lease_epoch)
           q == Reclaiming(p, calls[i])
<1>1. /\ calls[i].op = "grant" /\ calls' = RemoveAt(calls, i)
      /\ pane.pending_grant = calls[i].lease_epoch
      /\ Submit(q) \/ pane' = p
      /\ races' = Judged(races, calls[i])
      /\ UNCHANGED <<control, attachment, link, resubscribe, broadcast, inbox, seen>>
  BY DEF FinishGrant, hostVars, linkVars
<1>2. /\ calls[i] \in PaneCall /\ calls[i] \in Range(calls) /\ Fits(calls[i])
      /\ calls[i].lease_epoch \in Nat
      /\ Range(calls') \subseteq Range(calls)
      /\ Range(calls) \subseteq Range(calls') \cup {calls[i]}
  BY <1>1, AnswerTaken
<1>3. pane.life = "running" /\ pane.pending_grant # 0
  BY <1>1, <1>2, RunningAsks DEF Fits
<1>4. pane'.life = "running" /\ pane'.lease_epoch = pane.pending_grant
      /\ pane'.pending_grant = 0
  <2>1. PaneTypes(a) /\ PaneTypes(p) /\ PaneTypes(q)
    BY <1>2, ClientKinds, AdoptingPane, LeasedPane
  <2>2. a \in Pane /\ p \in Pane /\ q \in Pane
    BY <2>1 DEF PaneTypes
  <2>3. Core(a) = Core(pane)
    BY ClientKinds, AdoptedCore
  <2> HIDE DEF a
  <2>4. Core(p) = <<a.life, calls[i].lease_epoch, 0>>
    BY <2>2 DEF Core, WithLease, Pane
  <2> HIDE DEF p
  <2>5. Core(q) = Core(p)
    BY <2>2, AdoptedCore
  <2> HIDE DEF q
  <2>6. Core(pane') = Core(p)
    BY <1>1, <2>2, <2>5, SubmittedCore
  <2> QED
    BY <1>1, <1>3, <2>3, <2>4, <2>6 DEF Core
<1> HIDE DEF a, p, q
<1>5. Counted'
  BY <1>1, <1>2, LinkKinds, CountedAfter
<1>6. Asking'
  BY <1>2, <1>3, <1>4 DEF PaneInv, Asking, Fits
<1>7. Bound'
  BY <1>1, <1>2, <1>3 DEF PaneInv, Bound
<1>8. Reaches'
  <2>1. Tidings' \subseteq Tidings /\ Tidings \subseteq Tidings'
    BY <1>1, <1>2 DEF Tidings, Tells, Answers
  <2>2. (Awaited => Awaited') /\ (PaneTells => PaneTells')
    BY <1>1, <1>2, <1>3, <1>4 DEF Awaited, PaneTells, Due
  <2>3. \A t \in Nat : Truthful(t) /\ Covered(t) => Covered(t)'
    BY <1>1, <1>3, <2>1, <2>2, JudgedUnraced DEF Covered
  <2>4. Due(control)' = Due(control) /\ (Unraced' => Unraced)
        /\ ("crossed" \in races => "crossed" \in races')
    BY <1>1, JudgedUnraced DEF Due, Unraced
  <2> QED
    BY <1>1, <2>1, <2>3, <2>4, LinkKinds, Carried DEF PaneInv
<1> QED
  BY <1>5, <1>6, <1>7, <1>8 DEF PaneInv

\* The answer to an attachment: the pane runs with the lease it tells, or is lost.
LEMMA FinishAttachReaches ==
    ASSUME IInv, PaneInv, NEW i \in DOMAIN calls, FinishAttach(i)
    PROVE  PaneInv'
<1>1. /\ calls[i].op = "attach"
      /\ UNCHANGED <<control, attachment, link, resubscribe, broadcast, inbox>>
  BY DEF FinishAttach, hostVars, linkVars
<1>2. /\ calls[i] \in Range(calls) /\ Fits(calls[i]) /\ calls[i] \in PaneCall
      /\ calls[i].at \in Nat /\ calls[i].at <= control.turn /\ calls[i].lease_epoch \in Nat
  BY CallIn, CallParts DEF PaneInv, Asking, Counted
<1>3. pane.life = "attaching" /\ Len(calls) = 1 /\ pane.pending_grant = 0
  BY <1>1, <1>2, ClientKinds DEF PaneInv, Asking, Fits, Pane
<1>4. i = 1 /\ DOMAIN calls = {1}
  <2>1. DOMAIN calls = 1 .. Len(calls)
    BY ClientKinds, LenProperties
  <2> QED
    BY <1>3, <2>1
<1>5. Range(calls) = {calls[i]}
  BY <1>4 DEF Range
<1>6. CASE calls[i].lease = "answered"
  <2> DEFINE p == [pane EXCEPT !.life = "running", !.lease_epoch = calls[i].lease_epoch]
             q == Adopting(p, calls[i])
  <2>1. /\ Submit(q) /\ calls' = RemoveAt(calls, i)
        /\ seen' = IF calls[i].at > seen THEN calls[i].at ELSE seen
        /\ races' = Crossing(calls[i].at)
    BY <1>6 DEF FinishAttach, Hears
  <2>2. calls' = <<>> /\ Range(calls') = {}
    <3>1. calls' \in Seq(PaneCall) /\ Len(calls') = Len(calls) - 1
      BY <2>1, ClientKinds, Removed
    <3>2. calls' = <<>>
      BY <1>3, <3>1, EmptySeq
    <3> QED
      BY <3>2 DEF Range
  <2>3. pane'.life = "running" /\ pane'.lease_epoch = calls[i].lease_epoch
        /\ pane'.pending_grant = 0
    <3>1. PaneTypes(p) /\ p \in Pane /\ Core(p) = <<"running", calls[i].lease_epoch, 0>>
      BY <1>2, <1>3, ClientKinds DEF PaneTypes, Pane, Core
    <3> HIDE DEF p
    <3>2. PaneTypes(q) /\ Core(q) = Core(p)
      BY <1>2, <3>1, AdoptingPane, AdoptedCore
    <3>3. q \in Pane
      BY <3>2 DEF PaneTypes
    <3> HIDE DEF q
    <3>4. Core(pane') = Core(q)
      BY <2>1, <3>3, SubmittedCore
    <3> QED
      BY <3>1, <3>2, <3>4 DEF Core
  <2> HIDE DEF p, q
  <2>4. Counted'
    BY <1>1, <1>2, <2>1, <2>2, LinkKinds, SeenCounted, CountedAfter
  <2>5. Asking'
    BY <2>2, <2>3 DEF Asking
  <2>6. Bound'
    BY <1>1, <1>2, <1>6 DEF PaneInv, Bound
  <2>7. Reaches'
    <3>1. calls[i] \in Tidings
      BY <1>1, <1>2, <1>6 DEF Tidings, Answers
    <3>2. Tidings' \subseteq Tidings /\ Tidings \subseteq Tidings' \cup {calls[i]}
      BY <1>1, <1>5, <2>2 DEF Tidings, Tells, Answers
    <3>3. Awaited => Awaited'
      BY <1>1, <1>5, <1>6 DEF Awaited
    <3>4. calls[i].lease_epoch = Due(control) => PaneTells'
      BY <1>1, <2>3 DEF PaneTells, Due
    <3>5. (calls[i].at < seen => "crossed" \in races') /\ (Unraced' => Unraced)
      BY <2>1, CrossingUnraced DEF Unraced
    <3> QED
      BY <1>1, <1>3, <2>1, <3>1, <3>2, <3>3, <3>4, <3>5, HearingReaches
  <2> QED
    BY <2>4, <2>5, <2>6, <2>7 DEF PaneInv
<1>7. CASE calls[i].lease # "answered"
  <2>1. /\ pane' = NoPane /\ UNCHANGED <<seen, races>>
        /\ calls' = [k \in 1 .. Len(calls) - 1 |->
                        [RemoveAt(calls, i)[k] EXCEPT !.stale = TRUE]]
    BY <1>7 DEF FinishAttach, historyVars
  <2>2. pane'.life = "lost" /\ pane'.pending_grant = 0
    BY <2>1 DEF NoPane
  <2>3. calls' = <<>> /\ Range(calls') = {}
    <3>1. 1 .. Len(calls) - 1 = {}
      BY <1>3
    <3>2. DOMAIN calls' = {}
      BY <2>1, <3>1
    <3>3. calls' \in Seq(PaneCall)
      BY FinishAttachKeeps, ClientKinds DEF IInv, Types, ClientTypes
    <3>4. Len(calls') \in Nat /\ DOMAIN calls' = 1 .. Len(calls')
      BY <3>3, LenProperties
    <3>5. Len(calls') = 0
      BY <3>2, <3>4
    <3> QED
      BY <3>2, <3>3, <3>5, EmptySeq DEF Range
  <2>4. Counted'
    BY <1>1, <2>1, <2>3, LinkKinds, CountedAfter
  <2>5. Asking' /\ Bound'
    BY <2>2, <2>3 DEF Asking, Bound
  <2>6. Reaches'
    <3>1. Tidings' \subseteq Tidings
      BY <1>1, <2>3 DEF Tidings, Tells, Answers
    <3>2. \A t \in Nat : Truthful(t) /\ Covered(t) => Covered(t)'
      BY <2>2 DEF Covered
    <3>3. Due(control)' = Due(control) /\ (Unraced' => Unraced)
      BY <1>1, <2>1 DEF Due, Unraced
    <3> QED
      BY <1>1, <3>1, <3>2, <3>3, LinkKinds, Carried DEF PaneInv
  <2> QED
    BY <2>4, <2>5, <2>6 DEF PaneInv
<1> QED
  BY <1>6, <1>7

-----------------------------------------------------------------------------
(* A pane at rest holds what is due.                                       *)

\* Nothing happened yet, and there is no pane.
LEMMA PaneInit == Init => PaneInv
<1> SUFFICES ASSUME Init PROVE PaneInv
  OBVIOUS
<1>1. /\ broadcast = <<>> /\ inbox = <<>> /\ calls = <<>> /\ control.turn = 0 /\ seen = 0
      /\ pane.life = "lost" /\ pane.pending_grant = 0
  BY DEF Init, NoPane
<1>2. Range(broadcast) = {} /\ Range(inbox) = {} /\ Range(calls) = {}
  BY <1>1 DEF Range
<1>3. Counted
  BY <1>1, <1>2 DEF Counted
<1>4. Asking
  BY <1>1, <1>2 DEF Asking
<1>5. Bound
  BY <1>1, <1>2 DEF Bound
<1>6. Truthful(0) /\ Covered(0) /\ 0 \in 0 .. control.turn
  BY <1>1, <1>2 DEF Truthful, Covered, Tidings
<1>7. Reaches
  BY <1>6 DEF Reaches
<1> QED
  BY <1>3, <1>4, <1>5, <1>7 DEF PaneInv

\* A step that changes nothing
LEMMA PaneStutter == IInv /\ PaneInv /\ UNCHANGED vars => PaneInv'
<1> SUFFICES ASSUME IInv, PaneInv, UNCHANGED vars PROVE PaneInv'
  OBVIOUS
<1>1. /\ UNCHANGED <<control, attachment, link, resubscribe, broadcast, inbox, calls, pane>>
      /\ UNCHANGED <<seen, races>>
  BY DEF vars, hostVars, linkVars, clientVars, historyVars
<1>2. Aside
  BY <1>1 DEF Aside, Due, Core, Unraced
<1>3. resubscribe' = resubscribe \/ attachment'.attached
  BY <1>1
<1> QED
  BY <1>1, <1>2, <1>3, AsideKeeps

\* Every step keeps the invariant.
LEMMA PaneStepOK == IInv /\ PaneInv /\ Next => PaneInv'
<1> SUFFICES ASSUME IInv, PaneInv, Next PROVE PaneInv'
  OBVIOUS
<1>1. CASE HostStep
  BY <1>1, RivalTakesReaches, RivalResizesReaches, LeaveReaches, YieldLeasesReaches,
     HandOverReaches DEF HostStep
<1>2. CASE ConnectionStep
  BY <1>2, HandleResubscribeReaches, HandleResizeReaches, SubscribeReaches, ForwardEventReaches,
     ResyncLeasesReaches, LoseEventsReaches, DisconnectReaches, ReconnectReaches,
     HandleCheckpointReaches, HandleAcquireReaches, HandleAttachReaches, HandleTakeReaches
     DEF ConnectionStep
<1>3. CASE PaneStep
  BY <1>3, AttachReaches, HearGrantReaches, HearRevocationReaches, HearReadyReaches,
     LosePaneEventsReaches, ResizeViewReaches, HearResizedReaches, TakeControlReaches,
     FinishAttachReaches, FinishReclaimReaches, FinishGrantReaches, DiscardReaches
     DEF PaneStep
<1> QED
  BY <1>1, <1>2, <1>3 DEF Next

\* The invariant of the pane holds in every state that can be reached.
THEOREM PaneInductive == Spec => []PaneInv
<1>1. IInv /\ PaneInv /\ [Next]_vars => PaneInv'
  BY PaneStepOK, PaneStutter
<1> QED
  BY <1>1, PaneInit, Inductive, PTL DEF Spec

\* When nothing is under way and no race was lost, the pane is writable just if its Client
\* holds the lease, by the epoch that validate_lease accepts: however answers
\* (reclaim_host_lease, attach_host_terminal, accept_control_grant) and events crossed, were
\* lost with a connection, or were overwritten.
THEOREM QuietPaneHoldsLeaseAlways == Spec => []QuietPaneHoldsLease
<1>1. IInv /\ PaneInv => QuietPaneHoldsLease
  <2> SUFFICES ASSUME IInv, PaneInv, Quiet,
                      races \cap {"unheard", "silent", "untold", "unready", "crossed"} = {}
               PROVE  /\ (pane.lease_epoch # 0) <=> (control.holder = Me)
                      /\ pane.lease_epoch # 0 => Accepts(pane.lease_epoch)
    BY DEF QuietPaneHoldsLease
  <2>1. /\ link = "subscribed" /\ ~resubscribe /\ broadcast = <<>> /\ inbox = <<>> /\ calls = <<>>
        /\ pane.life = "running"
    BY DEF Quiet
  <2>2. Range(broadcast) = {} /\ Range(inbox) = {} /\ Range(calls) = {}
    BY <2>1 DEF Range
  <2>3. ~Awaited /\ Tidings = {}
    BY <2>2 DEF Awaited, Tidings
  <2>4. Unraced /\ Spared /\ "crossed" \notin races /\ "untold" \notin races
    BY DEF Unraced, Spared
  <2>5. \E t \in 0 .. control.turn : Covered(t)
    BY <2>1, <2>4 DEF PaneInv, Reaches
  <2>6. PaneTells
    BY <2>1, <2>3, <2>4, <2>5 DEF Covered
  <2>7. pane.pending_grant = 0
    BY <2>2 DEF PaneInv, Asking
  <2>8. pane.lease_epoch = Due(control)
    BY <2>6, <2>7 DEF PaneTells
  <2>9. Me # Nobody
    BY PaneAssumption
  <2>10. control.holder = Me => control.lease_epoch # 0
    BY <2>9 DEF IInv, Holding
  <2>11. attachment.attached
    BY <2>1 DEF PaneInv, Bound
  <2>12. Agrees
    BY <2>1, <2>4, <2>11 DEF IInv, Follows, Told
  <2> QED
    BY <2>4, <2>8, <2>10, <2>11, <2>12 DEF Due, Agrees, Accepts
<1> QED
  BY <1>1, Inductive, PaneInductive, PTL

-----------------------------------------------------------------------------
(* The geometry: what the pane remembers, awaits and has sent leads the     *)
(* terminal to the size of its view.                                        *)

\* A checkpoint is no newer than the terminal's geometry, and has its size if it is as new.
Fresh(c) == Shown(c) =>
    /\ c.geometry_epoch <= screen.geometry_epoch
    /\ c.geometry_epoch = screen.geometry_epoch => c.size = screen.size

\* The pane knows of no epoch that the terminal has not come to.
Known == /\ pane.host_geometry_epoch <= screen.geometry_epoch
         /\ \A r \in resized : r.ok => r.geometry_epoch <= screen.geometry_epoch
         /\ \A c \in Range(calls) : Fresh(c)

\* The pane numbers its resizes: those without an answer are later than those with one.  Of a
\* pane that is lost, all are stale; only a pane that runs has any that are bound.
Issued(s) == /\ s.stale => ~s.bound
             /\ s.bound => pane.life = "running"
             /\ ~s.stale => /\ pane.life # "lost"
                            /\ s.geometry_epoch <= pane.next_geometry_epoch
                            /\ \A r \in resized : r.geometry_epoch < s.geometry_epoch

Numbers == /\ pane.geometry_epoch <= pane.next_geometry_epoch
           /\ pane.host_geometry_epoch <= pane.next_geometry_epoch
           /\ \A r \in resized : r.geometry_epoch <= pane.next_geometry_epoch
           /\ pane.life = "lost" => resized = {}
           /\ \A s \in Range(lane) : Issued(s)

\* They are sent in this order.
InOrder == \A j, k \in 1 .. Len(lane) :
              j < k /\ ~lane[j].stale
                 => ~lane[k].stale /\ lane[j].geometry_epoch < lane[k].geometry_epoch

\* The next lease gets an epoch of its own.
Epochs == /\ pane.lease_epoch < control.next_lease_epoch
          /\ pane.pending_grant < control.next_lease_epoch
          /\ \A c \in Range(calls) : c.lease_epoch < control.next_lease_epoch
          /\ \A e \in Range(broadcast) \cup Range(inbox) :
                e.lease_epoch < control.next_lease_epoch

\* What a pane that attaches is answered is right as long as its lease is.
Attaches(c) == c.op = "attach" =>
    /\ c.checkpoint # "sent"
    /\ c.lease = "sent" => c.size = DefaultSize
    /\ c.lease = "answered" => Shown(c)
    /\ c.lease = "answered" /\ c.lease_epoch # 0 /\ c.lease_epoch = Due(control)
          => /\ c.geometry_epoch = screen.geometry_epoch
             /\ "unsized" \notin races => c.size = DefaultSize

Attaching == \A c \in Range(calls) : Attaches(c)

\* A connection that asks for the stream again was there anew, which the pane has not heard,
\* or asks for the lease about.
IsReady == \E e \in Range(inbox) : e.type = "ready"
Resubscribes == resubscribe =>
    /\ \/ pane.life = "running"
       \/ \E c \in Range(calls) : c.op = "attach" /\ c.lease = "answered"
    /\ "unready" \notin races /\ link # "down" =>
          \/ IsReady
          \/ \E c \in Range(calls) : c.op = "reclaim" /\ c.checkpoint = "sent"

\* What is pending is the size of the view.
Remembers == "shadowed" \notin races => pane.pending_geometry \subseteq {pane.local_geometry}

\* An answer that its resize was rejected is still to come: the pane will keep its size then.
Owed == \/ \E r \in resized : ~r.ok /\ r.size = pane.local_geometry
        \/ \E s \in Range(lane) : ~s.stale /\ s.size = pane.local_geometry

\* A view that was resized while its pane attaches is resized again.
Awaits == pane.life = "attaching" /\ link # "down" /\ races \cap {"unready", "shadowed"} = {} =>
             \/ pane.local_geometry = DefaultSize
             \/ pane.pending_geometry = {pane.local_geometry}
             \/ Owed \/ IsReady

\* The pane has its lease, and a right checkpoint with it.
Holds == /\ link # "down" /\ Unraced /\ "misjudged" \notin races
         /\ pane.life = "running"
         /\ pane.lease_epoch # 0 /\ pane.lease_epoch = Due(control)

\* The pane will adopt a checkpoint: it asked for one, or hears of a lease or a connection, or
\* the attachment gets there by an event.
Fixing == \/ \E c \in Range(calls) : c.op = "reclaim" \/ Verifies(c)
          \/ \E e \in Range(inbox) : e.type \in {"granted", "ready"}
          \/ broadcast # <<>> /\ ~Accepts(Due(control))

\* The last resize under way will be accepted, and its epoch is the pane's ...
Ahead == /\ lane # <<>>
         /\ LET last == lane[Len(lane)]
            IN  /\ last.bound /\ last.lease_epoch = pane.lease_epoch
                /\ last.geometry_epoch = pane.geometry_epoch
                /\ last.geometry_epoch > screen.geometry_epoch

\* ... or the pane's epoch is the terminal's, and no answer under way changes this.
There == /\ pane.geometry_epoch = screen.geometry_epoch
         /\ \A s \in Range(lane) :
               /\ ~s.stale /\ s.geometry_epoch = screen.geometry_epoch
                     => pane.host_geometry_epoch = screen.geometry_epoch
               /\ s.bound => s.geometry_epoch <= screen.geometry_epoch
         /\ \A r \in resized :
               ~r.ok /\ r.geometry_epoch = screen.geometry_epoch
                     => pane.host_geometry_epoch = screen.geometry_epoch

\* The terminal has the size of the view, or will, or the pane keeps that size.
Sized == \/ pane.pending_geometry = {pane.local_geometry}
         \/ Ahead /\ lane[Len(lane)].size = pane.local_geometry
         \/ There /\ (screen.size = pane.local_geometry \/ Owed)

Settled == Holds /\ ~Fixing
Matches == Settled => /\ Ahead \/ There
                      /\ races \cap {"unsized", "shadowed"} = {} => Sized

GeometryInv == /\ Known /\ Numbers /\ InOrder /\ Epochs /\ Attaching /\ Resubscribes
               /\ Remembers /\ Awaits /\ Matches

-----------------------------------------------------------------------------
(* Steps that leave the geometry alone.                                    *)

\* A decision ends a lease, leaves it, or gives one with an epoch of its own.
LEMMA DueMoves ==
    ASSUME IInv, NEW new, Moves(new), Turned(control, new)
    PROVE  /\ new.next_lease_epoch \in Nat
           /\ new.next_lease_epoch >= control.next_lease_epoch
           /\ Due(new) \in Nat /\ Due(new) < new.next_lease_epoch
           /\ Due(new) \in {0, Due(control)} \/ Due(new) >= control.next_lease_epoch
<1>1. /\ new.lease_epoch \in Nat /\ new.next_lease_epoch \in Nat
      /\ new.lease_epoch < new.next_lease_epoch
  BY DEF Moves, Control
<1>2. /\ new.next_lease_epoch >= control.next_lease_epoch
      /\ new.lease_epoch = control.lease_epoch \/ new.lease_epoch >= control.next_lease_epoch
  BY DEF Turned
<1>3. new.holder = Me /\ control.holder # Me => new.lease_epoch # control.lease_epoch
  BY DEF Moves
<1> QED
  BY <1>1, <1>2, <1>3 DEF Due

\* What a step may do to the lease
Advances == /\ control'.next_lease_epoch \in Nat
            /\ control'.next_lease_epoch >= control.next_lease_epoch
            /\ \/ Due(control)' \in {0, Due(control)}
               \/ Due(control)' >= control.next_lease_epoch

\* The kinds of epochs
LEMMA EpochKinds ==
    ASSUME IInv
    PROVE  /\ control.next_lease_epoch \in Nat /\ control.lease_epoch \in Nat
           /\ Due(control) \in Nat /\ Due(control) < control.next_lease_epoch
           /\ pane.lease_epoch \in Nat /\ pane.pending_grant \in Nat
           /\ pane.geometry_epoch \in Nat /\ pane.host_geometry_epoch \in Nat
           /\ pane.next_geometry_epoch \in Nat /\ screen.geometry_epoch \in Nat
           /\ pane.life \in {"lost", "attaching", "running"}
<1>1. control \in Control /\ control.lease_epoch < control.next_lease_epoch /\ pane \in Pane
  BY LinkKinds, ClientKinds
<1>2. screen.geometry_epoch \in Nat
  BY ClientKinds
<1> QED
  BY <1>1, <1>2 DEF Control, Pane, Due

\* Who holds a lease that is still due, held it before.
LEMMA DueKept ==
    ASSUME IInv, Advances, NEW n \in Nat, n < control.next_lease_epoch, n # 0,
           n = Due(control)'
    PROVE  Due(control)' = Due(control) /\ control.holder = Me /\ control'.holder = Me
<1>1. control.next_lease_epoch \in Nat
  BY EpochKinds
<1>2. Due(control)' = Due(control)
  BY <1>1 DEF Advances
<1> QED
  BY <1>2 DEF Due

\* What concerns a pane of its geometry
Shape(p) == <<p.life, p.geometry_epoch, p.host_geometry_epoch, p.next_geometry_epoch,
              p.pending_geometry, p.local_geometry>>

\* Nothing that concerns geometry changes, and a pane is settled only if it was.
LEMMA FarKeeps ==
    ASSUME IInv, GeometryInv, UNCHANGED <<screen, lane, resized>>, Advances,
           Shape(pane') = Shape(pane),
           pane' # pane => /\ pane'.lease_epoch < control'.next_lease_epoch
                           /\ pane'.pending_grant < control'.next_lease_epoch,
           \A e \in Range(broadcast') \cup Range(inbox') :
              \/ e \in Range(broadcast) \cup Range(inbox)
              \/ e.lease_epoch < control'.next_lease_epoch,
           \A c \in Range(calls') :
              \/ c \in Range(calls)
              \/ /\ Fresh(c) /\ c.op # "attach"
                 /\ c.lease_epoch < control'.next_lease_epoch,
           {"unready", "misjudged", "unsized", "shadowed"} \cap races \subseteq races',
           link' # "down" => link # "down" \/ IsReady',
           pane.life = "attaching" /\ IsReady => IsReady' \/ "unready" \in races',
           Resubscribes',
           Holds' /\ ~Fixing' => pane' = pane /\ link # "down" /\ Unraced /\ ~Fixing
    PROVE  GeometryInv'
<1>0. /\ pane'.life = pane.life /\ pane'.geometry_epoch = pane.geometry_epoch
      /\ pane'.host_geometry_epoch = pane.host_geometry_epoch
      /\ pane'.next_geometry_epoch = pane.next_geometry_epoch
      /\ pane'.pending_geometry = pane.pending_geometry
      /\ pane'.local_geometry = pane.local_geometry
  BY DEF Shape
<1>1. Known' /\ Numbers' /\ InOrder' /\ Remembers'
  <2>1. Known'
    BY <1>0 DEF GeometryInv, Known, Fresh, Shown
  <2>2. Numbers' /\ InOrder'
    BY <1>0 DEF GeometryInv, Numbers, Issued, InOrder
  <2>3. Remembers'
    BY <1>0 DEF GeometryInv, Remembers
  <2> QED
    BY <2>1, <2>2, <2>3
<1>2. Epochs'
  <2>1. \A e \in Range(broadcast) \cup Range(inbox) : e.lease_epoch < control'.next_lease_epoch
    BY EpochKinds, ToldKinds DEF GeometryInv, Epochs, Advances
  <2>2. \A c \in Range(calls) : c.lease_epoch < control'.next_lease_epoch
    BY EpochKinds, ToldKinds DEF GeometryInv, Epochs, Advances
  <2>3. /\ pane'.lease_epoch < control'.next_lease_epoch
        /\ pane'.pending_grant < control'.next_lease_epoch
    BY EpochKinds DEF GeometryInv, Epochs, Advances
  <2> QED
    BY <2>1, <2>2, <2>3 DEF Epochs
<1>3. Attaching'
  <2>1. SUFFICES ASSUME NEW c \in Range(calls') PROVE Attaches(c)'
    BY DEF Attaching
  <2>2. CASE c.op # "attach"
    BY <2>2 DEF Attaches
  <2>3. CASE c \in Range(calls)
    <3>1. Attaches(c) /\ c.lease_epoch \in Nat /\ c.lease_epoch < control.next_lease_epoch
      BY <2>3, ToldKinds DEF GeometryInv, Attaching, Epochs
    <3>2. c.lease_epoch # 0 /\ c.lease_epoch = Due(control)' => c.lease_epoch = Due(control)
      BY <3>1, DueKept
    <3> QED
      BY <3>1, <3>2 DEF Attaches, Shown
  <2> QED
    BY <2>2, <2>3
<1>4. Awaits'
  BY <1>0 DEF GeometryInv, Awaits, Owed
<1>5. Matches'
  <2>1. SUFFICES ASSUME Settled' PROVE Matches'
    BY DEF Matches
  <2>2. Holds' /\ ~Fixing'
    BY <2>1 DEF Settled
  <2>3. /\ pane' = pane /\ pane.lease_epoch = Due(control)' /\ pane.lease_epoch # 0
        /\ pane.life = "running" /\ "misjudged" \notin races'
    BY <2>2 DEF Holds
  <2>4. pane.lease_epoch = Due(control)
    BY <2>3, DueKept, EpochKinds DEF GeometryInv, Epochs
  <2>5. Settled
    BY <2>2, <2>3, <2>4 DEF Holds, Settled
  <2> QED
    BY <2>3, <2>5 DEF GeometryInv, Matches, Ahead, There, Sized, Owed
<1> QED
  BY <1>1, <1>2, <1>3, <1>4, <1>5 DEF GeometryInv

-----------------------------------------------------------------------------
(* Decisions.                                                              *)

\* What is told of a decision is what is due.
LEMMA EventEpochs ==
    ASSUME IInv, NEW new, Moves(new), Turned(control, new)
    PROVE  /\ Events(new) \in Seq(ControlEvent)
           /\ \A e \in Range(Events(new)) : e.lease_epoch = Due(new)
<1>1. control \in Control
  BY LinkKinds
<1>2. CASE Events(new) = <<>>
  BY <1>2 DEF Range
<1>3. ASSUME NEW e \in ControlEvent, Events(new) = <<e>>, e.lease_epoch = Due(new)
      PROVE  /\ Events(new) \in Seq(ControlEvent)
             /\ \A d \in Range(Events(new)) : d.lease_epoch = Due(new)
  <2>1. Range(Events(new)) = {e}
    BY <1>3 DEF Range
  <2> QED
    BY <1>3, <2>1
<1> QED
  BY <1>1, <1>2, <1>3, EventsReach

\* A decision that the pane's lease outlives leaves the geometry right; one that grants a new
\* lease is told.
LEMMA DecisionGeometry ==
    ASSUME IInv, GeometryInv, NEW new, Moves(new), Turned(control, new),
           Decide(new, Events(new)),
           UNCHANGED <<screen, lane, resized, pane, inbox, link, attachment, resubscribe>>,
           Range(calls') \subseteq Range(calls),
           \A c \in Range(calls) : c \in Range(calls') \/ c.op = "take"
    PROVE  GeometryInv'
<1>1. /\ control' = new
      /\ broadcast' = IF link = "subscribed" THEN broadcast \o Events(new) ELSE broadcast
      /\ races' = races \cup Unheard(Events(new))
  BY DEF Decide
<1>2. Advances /\ Due(new) < new.next_lease_epoch
  BY <1>1, DueMoves DEF Advances, Due
<1>3. broadcast \in Seq(ControlEvent) /\ control \in Control
  BY LinkKinds
<1>4. /\ Events(new) \in Seq(ControlEvent)
      /\ \A e \in Range(Events(new)) : e.lease_epoch = Due(new)
  BY EventEpochs
<1>5. /\ Range(broadcast') \subseteq Range(broadcast) \cup Range(Events(new))
      /\ broadcast # <<>> => broadcast' # <<>>
  <2>1. CASE broadcast' = broadcast
    BY <2>1
  <2>2. CASE broadcast' = broadcast \o Events(new)
    <3>1. Range(broadcast') = Range(broadcast) \cup Range(Events(new))
      BY <1>3, <1>4, <2>2, RangeConcatenation
    <3>2. Range(broadcast') # {} => broadcast' # <<>>
      BY DEF Range
    <3>3. broadcast # <<>> => Head(broadcast) \in Range(broadcast)
      BY <1>3, InTail
    <3> QED
      BY <3>1, <3>2, <3>3
  <2> QED
    BY <1>1, <2>1, <2>2
<1>6. \A e \in Range(broadcast') \cup Range(inbox') :
         \/ e \in Range(broadcast) \cup Range(inbox)
         \/ e.lease_epoch < control'.next_lease_epoch
  BY <1>1, <1>2, <1>4, <1>5
<1>7. Resubscribes'
  BY <1>1 DEF GeometryInv, Resubscribes, IsReady
<1>8. ASSUME Holds', ~Fixing' PROVE link # "down" /\ Unraced /\ ~Fixing
  <2>1. link # "down" /\ Unraced
    BY <1>1, <1>8 DEF Holds, Unraced
  <2>2. /\ Due(control)' = Due(control) /\ control.holder = Me /\ control'.holder = Me
    BY <1>2, <1>8, DueKept, EpochKinds DEF Holds, GeometryInv, Epochs
  <2>3. Accepts(Due(control))' <=> Accepts(Due(control))
    BY <2>2 DEF Accepts
  <2> QED
    BY <1>5, <1>8, <2>1, <2>3 DEF Fixing, Verifies
<1>9. {"unready", "misjudged", "unsized", "shadowed"} \cap races \subseteq races'
  BY <1>1
<1>10. pane.life = "attaching" /\ IsReady => IsReady' \/ "unready" \in races'
  BY DEF IsReady
<1> QED
  BY <1>2, <1>6, <1>7, <1>8, <1>9, <1>10, FarKeeps

LEMMA RivalTakesGeometry ==
    ASSUME IInv, GeometryInv, RivalTakes
    PROVE  GeometryInv'
<1> DEFINE new == Handed(control, Rival)
<1>1. Moves(new) /\ Turned(control, new)
  BY HandedMoves, HandedTurned, LinkKinds DEF Clients
<1>2. /\ Decide(new, Events(new))
      /\ UNCHANGED <<screen, lane, resized, pane, inbox, link, attachment, resubscribe, calls>>
  BY DEF RivalTakes, clientVars
<1> HIDE DEF new
<1> QED
  BY <1>1, <1>2, DecisionGeometry

LEMMA YieldLeasesGeometry ==
    ASSUME IInv, GeometryInv, NEW c \in Clients, YieldLeases(c)
    PROVE  GeometryInv'
<1> DEFINE here == control.present /\ c # Me
           ctl == [control EXCEPT !.present = here]
           new == Yielded(ctl, c)
<1>1. here \in BOOLEAN
  OBVIOUS
<1>2. new = Yielded([control EXCEPT !.present = @ /\ c # Me], c)
  OBVIOUS
<1>3. /\ Decide(new, Events(new))
      /\ UNCHANGED <<screen, lane, resized, pane, inbox, link, attachment, resubscribe, calls>>
  BY <1>2 DEF YieldLeases, clientVars
<1> HIDE DEF here
<1>4. /\ ctl \in Control /\ ctl.holder = control.holder /\ ctl.controller = control.controller
      /\ ctl.lease_epoch = control.lease_epoch /\ ctl.turn = control.turn
      /\ ctl.next_lease_epoch = control.next_lease_epoch
  BY <1>1, LinkKinds DEF Control
<1> HIDE DEF ctl
<1>5. ctl.lease_epoch < ctl.next_lease_epoch /\ Holding(ctl)
  BY <1>4, LinkKinds DEF Holding
<1>6. Moves(new) /\ Turned(ctl, new)
  BY <1>4, <1>5, YieldedMoves, YieldedTurned
<1>7. Turned(control, new)
  BY <1>4, <1>6 DEF Turned
<1> HIDE DEF new
<1> QED
  BY <1>3, <1>6, <1>7, DecisionGeometry

LEMMA HandOverGeometry ==
    ASSUME IInv, GeometryInv, NEW c \in Clients, HandOver(c)
    PROVE  GeometryInv'
<1>1. PICK new : Moves(new) /\ Turned(control, new) /\ Decide(new, Events(new))
  BY HandedOver
<1>2. UNCHANGED <<screen, lane, resized, pane, inbox, link, attachment, resubscribe, calls>>
  BY DEF HandOver, clientVars
<1> QED
  BY <1>1, <1>2, DecisionGeometry

LEMMA HandleTakeGeometry ==
    ASSUME IInv, GeometryInv, NEW i \in DOMAIN calls, HandleTake(i)
    PROVE  GeometryInv'
<1> DEFINE handed == Handed(control, Me)
           new == [handed EXCEPT !.asked = TRUE]
<1>1. Moves(handed) /\ handed \in Control /\ Turned(control, handed)
  BY HandedMoves, HandedTurned, LinkKinds DEF Clients, Moves
<1>2. /\ Decide(new, Events(new)) /\ calls' = RemoveAt(calls, i) /\ calls[i].op = "take"
      /\ UNCHANGED <<screen, lane, resized, pane, inbox, link, attachment, resubscribe>>
  BY DEF HandleTake, IsNext
<1> HIDE DEF handed
<1>3. /\ new \in Control /\ new.holder = handed.holder /\ new.controller = handed.controller
      /\ new.lease_epoch = handed.lease_epoch /\ new.next_lease_epoch = handed.next_lease_epoch
      /\ new.turn = handed.turn
  BY <1>1 DEF Control
<1> HIDE DEF new
<1>4. Moves(new) /\ Turned(control, new)
  BY <1>1, <1>3 DEF Moves, Holding, Turned
<1>5. /\ Range(calls') \subseteq Range(calls)
      /\ Range(calls) \subseteq Range(calls') \cup {calls[i]}
  BY <1>2, ClientKinds, InRemoved
<1> QED
  BY <1>2, <1>4, <1>5, DecisionGeometry

\* A step that nothing of this is concerned with
LEMMA AsideGeometry ==
    ASSUME IInv, GeometryInv,
           UNCHANGED <<screen, lane, resized, pane, inbox, attachment, broadcast, resubscribe>>,
           UNCHANGED <<control, calls, races>>,
           link' # "down" => link # "down"
    PROVE  GeometryInv'
<1>1. Advances
  BY EpochKinds DEF Advances, Due
<1>2. Resubscribes'
  BY DEF GeometryInv, Resubscribes, IsReady
<1>3. Holds' /\ ~Fixing' => link # "down" /\ Unraced /\ ~Fixing
  BY DEF Holds, Fixing, Unraced, Verifies, Accepts, Due
<1>4. IsReady => IsReady'
  BY DEF IsReady
<1> QED
  BY <1>1, <1>2, <1>3, <1>4, FarKeeps

LEMMA LeaveGeometry ==
    ASSUME IInv, GeometryInv, NEW c \in Clients, Leave(c)
    PROVE  GeometryInv'
<1>1. /\ UNCHANGED <<screen, lane, resized, pane, inbox, attachment, broadcast, resubscribe>>
      /\ UNCHANGED <<control, calls, races, link>>
  BY DEF Leave, linkVars, clientVars, historyVars
<1> QED
  BY <1>1, AsideGeometry

LEMMA SubscribeGeometry ==
    ASSUME IInv, GeometryInv, Subscribe
    PROVE  GeometryInv'
<1>1. /\ UNCHANGED <<screen, lane, resized, pane, inbox, attachment, broadcast, resubscribe>>
      /\ UNCHANGED <<control, calls, races>> /\ link = "serving"
  BY DEF Subscribe, hostVars, clientVars, historyVars
<1> QED
  BY <1>1, AsideGeometry

-----------------------------------------------------------------------------
(* Answers that leave the geometry alone.                                  *)

\* A request is as before, but for parts that do not make it another.
LEMMA AnsweredIs ==
    ASSUME IInv, NEW i \in DOMAIN calls, NEW call \in PaneCall, calls' = [calls EXCEPT ![i] = call]
    PROVE  /\ calls[i] \in PaneCall /\ calls[i] \in Range(calls) /\ call \in Range(calls')
           /\ Range(calls') \subseteq Range(calls) \cup {call}
           /\ Range(calls) \subseteq Range(calls') \cup {calls[i]}
<1>1. calls \in Seq(PaneCall)
  BY ClientKinds
<1> QED
  BY <1>1, CallParts, CallIn, InReplaced

LEMMA HandleCheckpointGeometry ==
    ASSUME IInv, PaneInv, GeometryInv, NEW i \in DOMAIN calls, HandleCheckpoint(i)
    PROVE  GeometryInv'
<1> DEFINE call == [calls[i] EXCEPT !.checkpoint = "answered", !.size = screen.size,
                                    !.geometry_epoch = screen.geometry_epoch]
<1>1. /\ link # "down" /\ ~resubscribe /\ calls[i].checkpoint = "sent"
      /\ attachment' = Registered /\ calls' = [calls EXCEPT ![i] = call]
      /\ UNCHANGED <<screen, lane, resized, pane, inbox, broadcast, resubscribe>>
      /\ UNCHANGED <<control, races, link>>
  BY DEF HandleCheckpoint, hostVars, historyVars
<1>2. /\ call \in PaneCall /\ call.geometry_epoch = screen.geometry_epoch
      /\ call.size = screen.size /\ call.op = calls[i].op
      /\ call.lease_epoch = calls[i].lease_epoch
  BY CallParts, ClientKinds DEF PaneCall, Part
<1> HIDE DEF call
<1>3. /\ calls[i] \in Range(calls) /\ call \in Range(calls')
      /\ Range(calls') \subseteq Range(calls) \cup {call}
      /\ Range(calls) \subseteq Range(calls') \cup {calls[i]}
  BY <1>1, <1>2, AnsweredIs
<1>4. Fresh(call) /\ call.op # "attach" /\ call.lease_epoch < control.next_lease_epoch
  BY <1>1, <1>2, <1>3, EpochKinds DEF Fresh, GeometryInv, Attaching, Attaches, Epochs
<1>5. Holds' /\ ~Fixing' => link # "down" /\ Unraced /\ ~Fixing
  <2>1. pane.life = "running" => attachment' = attachment
    BY <1>1 DEF PaneInv, Bound, Registered
  <2>2. Verifies(calls[i]) => call.op = "grant" /\ call.lease_epoch = pane'.pending_grant
    BY <1>1, <1>2 DEF Verifies
  <2>3. SUFFICES ASSUME Holds', Fixing PROVE Fixing'
    BY <1>1 DEF Holds, Unraced
  <2>4. attachment' = attachment
    BY <1>1, <2>1, <2>3 DEF Holds
  <2>5. CASE \E c \in Range(calls) : c.op = "reclaim" \/ Verifies(c)
    BY <1>1, <1>2, <1>3, <2>2, <2>5 DEF Fixing, Verifies
  <2>6. CASE \E e \in Range(inbox) : e.type \in {"granted", "ready"}
    BY <1>1, <2>6 DEF Fixing
  <2>7. CASE broadcast # <<>> /\ ~Accepts(Due(control))
    <3>1. ~Accepts(Due(control))'
      BY <1>1, <2>4, <2>7 DEF Accepts, Due
    <3> QED
      BY <1>1, <2>7, <3>1 DEF Fixing
  <2> QED
    BY <2>3, <2>5, <2>6, <2>7 DEF Fixing
<1>6. Advances /\ (IsReady => IsReady')
  BY <1>1, EpochKinds DEF Advances, Due, IsReady
<1>7. Resubscribes'
  BY <1>1 DEF Resubscribes
<1> QED
  BY <1>1, <1>3, <1>4, <1>5, <1>6, <1>7, FarKeeps

LEMMA HandleResubscribeGeometry ==
    ASSUME IInv, GeometryInv, HandleResubscribe
    PROVE  GeometryInv'
<1>1. /\ link # "down" /\ resubscribe /\ resubscribe' = FALSE
      /\ UNCHANGED <<screen, lane, resized, pane, inbox, broadcast, calls, control, races, link>>
  BY DEF HandleResubscribe, hostVars, clientVars, historyVars
<1>2. Holds' => Fixing'
  <2>1. SUFFICES ASSUME Holds' PROVE Fixing'
    OBVIOUS
  <2>2. \/ IsReady
        \/ \E c \in Range(calls) : c.op = "reclaim" /\ c.checkpoint = "sent"
    BY <1>1, <2>1 DEF Holds, Unraced, GeometryInv, Resubscribes
  <2> QED
    BY <1>1, <2>2 DEF Fixing, IsReady
<1>3. Advances /\ Resubscribes' /\ (IsReady => IsReady')
  BY <1>1, EpochKinds DEF Advances, Due, Resubscribes, IsReady
<1> QED
  BY <1>1, <1>2, <1>3, FarKeeps

\* What a request for the lease decides and tells
LEMMA AcquireTells ==
    ASSUME IInv, Acquire
    PROVE  /\ Advances /\ Answered = Due(control)' /\ Answered \in Nat
           /\ Answered < control'.next_lease_epoch
           /\ \A e \in Range(broadcast') :
                 \/ e \in Range(broadcast)
                 \/ e.lease_epoch < control'.next_lease_epoch
<1> DEFINE new == Acquired(control)
<1>1. Moves(new) /\ Turned(control, new) /\ control' = new
  BY AcquiredParts, AcquiredTurned, LinkKinds DEF Acquire
<1>2. broadcast' \in {broadcast, broadcast \o <<>>, broadcast \o Events(new)}
  BY DEF Acquire
<1> HIDE DEF new
<1>3. Advances /\ Due(control)' = Due(new) /\ Due(new) < new.next_lease_epoch /\ Due(new) \in Nat
  BY <1>1, DueMoves DEF Advances, Due
<1>4. Answered = Due(control)'
  BY AnsweredDue
<1>5. /\ broadcast \in Seq(ControlEvent) /\ Events(new) \in Seq(ControlEvent)
      /\ \A e \in Range(Events(new)) : e.lease_epoch < new.next_lease_epoch
  BY <1>1, <1>3, LinkKinds, EventEpochs
<1>6. /\ Range(broadcast \o Events(new)) = Range(broadcast) \cup Range(Events(new))
      /\ broadcast \o <<>> = broadcast
  BY <1>5, RangeConcatenation, ConcatEmptySeq
<1> QED
  BY <1>1, <1>2, <1>3, <1>4, <1>5, <1>6

LEMMA HandleAcquireGeometry ==
    ASSUME IInv, GeometryInv, NEW i \in DOMAIN calls, HandleAcquire(i)
    PROVE  GeometryInv'
<1> DEFINE call == [calls[i] EXCEPT !.lease = "answered", !.lease_epoch = Answered,
                                    !.at = control'.turn]
<1>1. /\ Acquire /\ ~resubscribe /\ calls[i].op = "reclaim"
      /\ calls' = [calls EXCEPT ![i] = call] /\ races' = races \cup AcquireRaces
      /\ UNCHANGED <<screen, lane, resized, pane, inbox, resubscribe, link>>
  BY DEF HandleAcquire, IsNext
<1>2. Answered \in Nat /\ control'.turn \in Nat
  BY <1>1, AnsweredKinds
<1>3. /\ call \in PaneCall /\ call.op = "reclaim" /\ call.checkpoint = calls[i].checkpoint
      /\ call.lease_epoch = Answered /\ call.size = calls[i].size
      /\ call.geometry_epoch = calls[i].geometry_epoch
  BY <1>1, <1>2, CallParts DEF PaneCall, Part
<1> HIDE DEF call
<1>4. /\ calls[i] \in Range(calls) /\ call \in Range(calls')
      /\ Range(calls') \subseteq Range(calls) \cup {call}
  BY <1>1, <1>3, AnsweredIs
<1>5. Fresh(call)
  BY <1>3, <1>4 DEF GeometryInv, Known, Fresh, Shown
<1>6. Fixing'
  BY <1>3, <1>4 DEF Fixing
<1>7. Resubscribes' /\ (IsReady => IsReady')
  BY <1>1 DEF Resubscribes, IsReady
<1> QED
  BY <1>1, <1>3, <1>4, <1>5, <1>6, <1>7, AcquireTells, FarKeeps

-----------------------------------------------------------------------------
(* Events on their way.                                                    *)

\* The lease that the pane was granted is told it, or is not accepted yet.
LEMMA ForwardEventGeometry ==
    ASSUME IInv, IInv', GeometryInv, ForwardEvent
    PROVE  GeometryInv'
<1> DEFINE e == Head(broadcast)
<1>1. /\ broadcast # <<>> /\ e.type # "lagged" /\ inbox' = Append(inbox, e)
      /\ broadcast' = Tail(broadcast)
      /\ UNCHANGED <<screen, lane, resized, pane, calls, control, races, link, resubscribe>>
  BY DEF ForwardEvent, hostVars, historyVars
<1>2. e.type # "granted" => \/ attachment' = attachment /\ ~attachment.attached
                            \/ attachment' = [attachment EXCEPT !.mode = "observer"]
  BY DEF ForwardEvent
<1>3. e \in ControlEvent /\ Range(broadcast) = Range(broadcast') \cup {e}
  BY <1>1, LinkKinds, HeadTailProperties, InTail
<1>4. broadcast' = <<>> => broadcast[Len(broadcast)] = e
  BY <1>1, LinkKinds, LastOfTail
<1> HIDE DEF e
<1>5. Range(inbox') = Range(inbox) \cup {e}
  BY <1>1, <1>3, ClientKinds, InAppend
<1>6. Holds' => Fixing'
  <2>1. SUFFICES ASSUME Holds', e.type # "granted", e.type # "ready" PROVE Fixing'
    BY <1>5 DEF Fixing
  <2>2. e.type = "revoked"
    BY <1>1, <1>3, <2>1 DEF ControlEvent, Type
  <2>3. ~Accepts(Due(control))'
    BY <1>2, <2>1, LinkKinds DEF Accepts, Attachments
  <2>4. Spared /\ control.holder = Me
    BY <1>1, <2>1 DEF Holds, Unraced, Spared, Due
  <2>5. broadcast' # <<>>
    BY <1>1, <1>4, <2>2, <2>4 DEF IInv, Follows, Told, LastFits
  <2> QED
    BY <2>3, <2>5 DEF Fixing
<1>7. Advances /\ Resubscribes' /\ (IsReady => IsReady')
  BY <1>1, <1>5, EpochKinds DEF Advances, Due, GeometryInv, Resubscribes, IsReady
<1> QED
  BY <1>1, <1>3, <1>5, <1>6, <1>7, FarKeeps

\* A resynchronisation tells the pane of a lease, or that it has none.
LEMMA ResyncLeasesGeometry ==
    ASSUME IInv, GeometryInv, ResyncLeases
    PROVE  GeometryInv'
<1>1. /\ broadcast # <<>> /\ broadcast' = Tail(broadcast)
      /\ UNCHANGED <<screen, lane, resized, pane, calls, control, link, resubscribe>>
  BY DEF ResyncLeases, hostVars
<1>2. Range(broadcast') \subseteq Range(broadcast)
  BY <1>1, LinkKinds, InTail
<1>3. Advances
  BY <1>1, EpochKinds DEF Advances, Due
<1>4. CASE inbox' = inbox /\ races' = races \cup {"untold"}
  <2>1. ~Holds'
    BY <1>4 DEF Holds, Unraced
  <2>2. Resubscribes' /\ (IsReady => IsReady')
    BY <1>1, <1>4 DEF GeometryInv, Resubscribes, IsReady
  <2> QED
    BY <1>1, <1>2, <1>3, <1>4, <2>1, <2>2, FarKeeps
<1>5. ASSUME NEW e \in ControlEvent, inbox' = Append(inbox, e), races' = races,
             e.lease_epoch < control.next_lease_epoch,
             e.type = "granted" \/ control.holder # Me
      PROVE  GeometryInv'
  <2>1. Range(inbox') = Range(inbox) \cup {e}
    BY <1>5, ClientKinds, InAppend
  <2>2. Holds' => Fixing'
    BY <1>1, <1>5, <2>1 DEF Holds, Fixing, Due
  <2>3. Resubscribes' /\ (IsReady => IsReady')
    BY <1>1, <1>5, <2>1 DEF GeometryInv, Resubscribes, IsReady
  <2> QED
    BY <1>1, <1>2, <1>3, <1>5, <2>1, <2>2, <2>3, FarKeeps
<1>6. CASE ~(inbox' = inbox /\ races' = races \cup {"untold"})
  <2> DEFINE granted == Event("granted", control.lease_epoch)
             revoked == Event("revoked", 0)
  <2>1. /\ races' = races
        /\ inbox' = Append(inbox, IF control.holder = Me THEN granted ELSE revoked)
    BY <1>6 DEF ResyncLeases
  <2>2. /\ granted \in ControlEvent /\ granted.type = "granted"
        /\ granted.lease_epoch < control.next_lease_epoch
        /\ revoked \in ControlEvent /\ revoked.lease_epoch < control.next_lease_epoch
    <3>1. /\ control.lease_epoch \in Nat /\ control.turn \in Nat
          /\ control.lease_epoch < control.next_lease_epoch /\ control.next_lease_epoch \in Nat
      BY LinkKinds, EpochKinds
    <3> QED
      BY <3>1 DEF Event, ControlEvent, Type
  <2> HIDE DEF granted, revoked
  <2> QED
    BY <1>5, <2>1, <2>2
<1> QED
  BY <1>4, <1>6

\* Lost events leave a lag behind.
LEMMA LoseEventsGeometry ==
    ASSUME IInv, GeometryInv, LoseEvents
    PROVE  GeometryInv'
<1>1. PICK n \in DOMAIN broadcast :
         broadcast' = <<Event("lagged", 0)>> \o SubSeq(broadcast, n + 1, Len(broadcast))
  BY DEF LoseEvents
<1>2. /\ UNCHANGED <<screen, lane, resized, pane, inbox, attachment, calls, control, races, link>>
      /\ UNCHANGED resubscribe
  BY DEF LoseEvents, hostVars, clientVars, historyVars
<1> DEFINE lagged == Event("lagged", 0)
<1>3. lagged \in ControlEvent /\ lagged.lease_epoch = 0
  BY LinkKinds DEF Event, ControlEvent, Type
<1> HIDE DEF lagged
<1>4. lagged \in Range(broadcast') /\ Range(broadcast') \subseteq Range(broadcast) \cup {lagged}
  BY <1>1, <1>3, LinkKinds, InOverwritten DEF lagged
<1>5. broadcast' # <<>>
  BY <1>4 DEF Range
<1>6. lagged.lease_epoch < control'.next_lease_epoch
  BY <1>2, <1>3, EpochKinds
<1>7. Holds' /\ ~Fixing' => link # "down" /\ Unraced /\ ~Fixing
  BY <1>2, <1>5 DEF Holds, Unraced, Fixing, Verifies, Accepts, Due
<1>8. Advances /\ Resubscribes' /\ (IsReady => IsReady')
  BY <1>2, EpochKinds DEF Advances, Due, GeometryInv, Resubscribes, IsReady
<1> QED
  BY <1>2, <1>4, <1>6, <1>7, <1>8, FarKeeps

\* A connection that is there anew says so to the pane.
LEMMA ReconnectGeometry ==
    ASSUME IInv, GeometryInv, Reconnect
    PROVE  GeometryInv'
<1> DEFINE ready == [Event("ready", 0) EXCEPT !.at = @ + 1]
           turn == control.turn + 1
<1>1. /\ control' = [control EXCEPT !.present = TRUE, !.turn = @ + 1]
      /\ inbox' = Append(inbox, ready) /\ races' = races \ {"unheard", "untold"}
      /\ resubscribe' = \/ pane.life = "running"
                        \/ \E i \in DOMAIN calls :
                              calls[i].op = "attach" /\ calls[i].lease = "answered"
      /\ UNCHANGED <<screen, lane, resized, pane, broadcast, calls>>
  BY DEF Reconnect
<1>2. control.turn \in Nat /\ turn \in Nat /\ control \in Control
  BY LinkKinds
<1>3. control' = [control EXCEPT !.present = TRUE, !.turn = turn]
  BY <1>1
<1>4. ready = [type |-> "ready", lease_epoch |-> 0, at |-> turn]
  BY DEF Event
<1> HIDE DEF turn, ready
<1>5. /\ control'.holder = control.holder /\ control'.lease_epoch = control.lease_epoch
      /\ control'.next_lease_epoch = control.next_lease_epoch
  BY <1>2, <1>3 DEF Control
<1>6. ready \in ControlEvent /\ ready.type = "ready" /\ ready.lease_epoch = 0
  BY <1>2, <1>4 DEF ControlEvent, Type
<1>7. Range(inbox') = Range(inbox) \cup {ready}
  BY <1>1, <1>6, ClientKinds, InAppend
<1>8. IsReady' /\ Fixing'
  BY <1>6, <1>7 DEF IsReady, Fixing
<1>9. Resubscribes'
  BY <1>1, <1>8, CallIn DEF Resubscribes
<1>10. Advances /\ ready.lease_epoch < control'.next_lease_epoch
  BY <1>5, <1>6, EpochKinds DEF Advances, Due
<1> QED
  BY <1>1, <1>6, <1>7, <1>8, <1>9, <1>10, FarKeeps

-----------------------------------------------------------------------------
(* What the pane hears and asks.                                           *)

\* A request that the pane makes has no checkpoint yet.
LEMMA AskedIs ==
    ASSUME IInv, NEW call \in PaneCall, call.checkpoint # "answered", Ask(call)
    PROVE  \E asked \in PaneCall :
              /\ Range(calls') = Range(calls) \cup {asked}
              /\ asked.op = call.op /\ asked.lease_epoch = call.lease_epoch
              /\ Fresh(asked)
              /\ link # "down" => asked = call
<1> DEFINE failed == [call EXCEPT !.checkpoint = "failed"]
<1>1. /\ failed \in PaneCall /\ failed.op = call.op /\ failed.lease_epoch = call.lease_epoch
      /\ failed.checkpoint = "failed"
  BY DEF PaneCall, Part
<1>2. calls' = Append(calls, IF link # "down" THEN call ELSE failed)
  BY DEF Ask
<1> HIDE DEF failed
<1>3. PICK asked \in PaneCall :
         /\ calls' = Append(calls, asked) /\ asked \in {call, failed}
         /\ link # "down" => asked = call
  BY <1>1, <1>2
<1>4. Range(calls') = Range(calls) \cup {asked}
  BY <1>3, ClientKinds, InAppend
<1> QED
  BY <1>1, <1>3, <1>4 DEF Fresh, Shown

\* Ready makes the pane ask for its lease and for a checkpoint.
LEMMA HearReadyGeometry ==
    ASSUME IInv, PaneInv, GeometryInv, HearReady
    PROVE  GeometryInv'
<1>1. /\ inbox # <<>> /\ inbox' = Tail(inbox)
      /\ races' = IF pane.life = "attaching" THEN races \cup {"unready"} ELSE races
      /\ UNCHANGED <<screen, lane, resized, pane, broadcast, control, link, resubscribe>>
      /\ UNCHANGED attachment
      /\ IF pane.life = "running" /\ link # "down" THEN Ask(Call("reclaim", "sent", "sent"))
                                                   ELSE calls' = calls
  BY DEF HearReady, hostVars, linkVars
<1>2. Range(inbox') \subseteq Range(inbox)
  BY <1>1, ClientKinds, InTail
<1>3. Advances
  BY <1>1, EpochKinds DEF Advances, Due
<1>4. pane.life = "attaching" => "unready" \in races'
  BY <1>1
<1>5. CASE pane.life = "running" /\ link # "down"
  <2> DEFINE reclaim == Call("reclaim", "sent", "sent")
  <2>1. /\ reclaim \in PaneCall /\ reclaim.op = "reclaim" /\ reclaim.checkpoint = "sent"
        /\ reclaim.lease_epoch = 0
    BY NewCalls DEF Call, Part
  <2>2. Ask(reclaim)
    BY <1>1, <1>5
  <2> HIDE DEF reclaim
  <2>3. /\ Range(calls') = Range(calls) \cup {reclaim} /\ Fresh(reclaim)
    BY <1>5, <2>1, <2>2, AskedIs
  <2>4. Fixing' /\ Resubscribes'
    BY <1>1, <1>5, <2>1, <2>3 DEF Fixing, Resubscribes
  <2>5. reclaim.lease_epoch < control'.next_lease_epoch
    BY <1>1, <2>1, EpochKinds
  <2> QED
    BY <1>1, <1>2, <1>3, <1>5, <2>1, <2>3, <2>4, <2>5, FarKeeps
<1>6. CASE ~(pane.life = "running" /\ link # "down")
  <2>1. ~Holds' /\ calls' = calls
    BY <1>1, <1>6 DEF Holds
  <2>2. Resubscribes'
    <3>1. pane.life = "lost" => Range(calls) = {}
      BY DEF PaneInv, Asking, Range
    <3> QED
      BY <1>1, <1>4, <1>6, <2>1, <3>1, EpochKinds DEF GeometryInv, Resubscribes
  <2> QED
    BY <1>1, <1>2, <1>3, <1>4, <2>1, <2>2, FarKeeps
<1> QED
  BY <1>5, <1>6

\* What is lost of the pane's events leaves a Resync behind, which is a Ready.
LEMMA LosePaneEventsGeometry ==
    ASSUME IInv, GeometryInv, LosePaneEvents
    PROVE  GeometryInv'
<1>1. PICK n \in DOMAIN inbox :
         inbox' = <<Event("ready", 0)>> \o SubSeq(inbox, n + 1, Len(inbox))
  BY DEF LosePaneEvents
<1>2. /\ UNCHANGED <<screen, lane, resized, pane, broadcast, calls, control, races, link>>
      /\ UNCHANGED resubscribe
  BY DEF LosePaneEvents, hostVars, linkVars, historyVars
<1> DEFINE ready == Event("ready", 0)
<1>3. ready \in ControlEvent /\ ready.lease_epoch = 0 /\ ready.type = "ready"
  BY LinkKinds DEF Event, ControlEvent, Type
<1> HIDE DEF ready
<1>4. ready \in Range(inbox') /\ Range(inbox') \subseteq Range(inbox) \cup {ready}
  BY <1>1, <1>3, ClientKinds, InOverwritten DEF ready
<1>5. IsReady' /\ Fixing'
  BY <1>3, <1>4 DEF IsReady, Fixing
<1>6. ready.lease_epoch < control'.next_lease_epoch /\ Advances
  BY <1>2, <1>3, EpochKinds DEF Advances, Due
<1>7. Resubscribes'
  BY <1>2, <1>5 DEF GeometryInv, Resubscribes
<1> QED
  BY <1>2, <1>4, <1>5, <1>6, <1>7, FarKeeps

\* A pane without the lease asks for control.
LEMMA TakeControlGeometry ==
    ASSUME IInv, GeometryInv, TakeControl
    PROVE  GeometryInv'
<1> DEFINE take == Call("take", "unasked", "sent")
<1>1. /\ UNCHANGED <<screen, lane, resized, pane, broadcast, inbox, control, races, link>>
      /\ UNCHANGED resubscribe
      /\ pane.lease_epoch = 0 /\ Ask(take)
  BY DEF TakeControl, hostVars, linkVars, historyVars
<1>2. take \in PaneCall /\ take.op = "take" /\ take.checkpoint = "unasked" /\ take.lease_epoch = 0
  BY NewCalls DEF Call, Part
<1> HIDE DEF take
<1>3. PICK asked \in PaneCall :
         /\ Range(calls') = Range(calls) \cup {asked} /\ Fresh(asked)
         /\ asked.op = "take" /\ asked.lease_epoch = 0
  BY <1>1, <1>2, AskedIs
<1>4. ~Holds' /\ Advances /\ asked.lease_epoch < control'.next_lease_epoch
  BY <1>1, <1>3, EpochKinds DEF Holds, Advances, Due
<1>5. Resubscribes' /\ (IsReady => IsReady')
  BY <1>1, <1>3 DEF GeometryInv, Resubscribes, IsReady
<1> QED
  BY <1>1, <1>3, <1>4, <1>5, FarKeeps

\* Nobody waits for this answer: it is of no request that the pane adopts a checkpoint from.
LEMMA DiscardGeometry ==
    ASSUME IInv, PaneInv, GeometryInv, NEW i \in DOMAIN calls, Discard(i)
    PROVE  GeometryInv'
<1>1. /\ UNCHANGED <<screen, lane, resized, pane, broadcast, inbox, control, races, link>>
      /\ UNCHANGED <<resubscribe, attachment>> /\ calls' = RemoveAt(calls, i)
  BY DEF Discard, hostVars, linkVars, historyVars
<1>2. Fits(calls[i]) /\ Range(calls') \subseteq Range(calls)
      /\ Range(calls) \subseteq Range(calls') \cup {calls[i]}
  BY <1>1, AnswerTaken
<1>3. calls[i].op \in {"grant", "take"} /\ ~Verifies(calls[i])
  BY <1>2 DEF Discard, Fits, Verifies
<1>4. Holds' /\ ~Fixing' => link # "down" /\ Unraced /\ ~Fixing
  <2>1. (\E c \in Range(calls) : c.op = "reclaim" \/ Verifies(c))
           => \E c \in Range(calls') : c.op = "reclaim" \/ Verifies(c)
    BY <1>2, <1>3
  <2> QED
    BY <1>1, <2>1 DEF Holds, Unraced, Fixing, Verifies, Accepts, Due
<1>5. Advances /\ (IsReady => IsReady')
  BY <1>1, EpochKinds DEF Advances, Due, IsReady
<1>6. Resubscribes'
  BY <1>1, <1>2, <1>3 DEF GeometryInv, Resubscribes, IsReady
<1> QED
  BY <1>1, <1>2, <1>4, <1>5, <1>6, FarKeeps

\* A pane that hears of a lease asks for a checkpoint.
LEMMA HearGrantGeometry ==
    ASSUME IInv, GeometryInv, HearGrant
    PROVE  GeometryInv'
<1> DEFINE e == Head(inbox)
           grant == [Call("grant", "sent", "unasked") EXCEPT !.lease_epoch = e.lease_epoch]
<1>1. /\ inbox # <<>> /\ e.type = "granted" /\ inbox' = Tail(inbox)
      /\ races' = Crossing(e.at)
      /\ UNCHANGED <<screen, lane, resized, broadcast, control, link, resubscribe, attachment>>
  BY DEF HearGrant, Hears, hostVars, linkVars
<1>2. \/ /\ pane.life = "running" /\ pane' = [pane EXCEPT !.pending_grant = e.lease_epoch]
         /\ Ask(grant)
      \/ pane.life = "attaching" /\ pane' = WithLease(pane, e.lease_epoch) /\ calls' = calls
      \/ pane.life = "lost" /\ pane' = pane /\ calls' = calls
  BY DEF HearGrant
<1>3. e \in ControlEvent /\ Range(inbox) = Range(inbox') \cup {e}
  BY <1>1, ClientKinds, HeadTailProperties, InTail
<1>4. e.lease_epoch \in Nat /\ e.lease_epoch < control'.next_lease_epoch
  BY <1>1, <1>3 DEF GeometryInv, Epochs, ControlEvent
<1> HIDE DEF e
<1>5. /\ Shape(pane') = Shape(pane)
      /\ pane' # pane => /\ pane'.lease_epoch \in {pane.lease_epoch, e.lease_epoch}
                         /\ pane'.pending_grant \in {0, e.lease_epoch}
  BY <1>2, ClientKinds DEF Shape, Pane, WithLease
<1>6. pane' # pane => /\ pane'.lease_epoch < control'.next_lease_epoch
                      /\ pane'.pending_grant < control'.next_lease_epoch
  BY <1>1, <1>4, <1>5, EpochKinds DEF GeometryInv, Epochs
<1>7. {"unready", "misjudged", "unsized", "shadowed"} \cap races \subseteq races'
  BY <1>1 DEF Crossing
<1>8. Advances /\ (IsReady => IsReady')
  BY <1>1, <1>3, EpochKinds DEF Advances, Due, IsReady
<1>9. pane'.life = pane.life
  BY <1>5 DEF Shape
<1>10. CASE pane.life = "running"
  <2>1. /\ grant \in PaneCall /\ grant.op = "grant" /\ grant.checkpoint = "sent"
        /\ grant.lease_epoch = e.lease_epoch
    <3> DEFINE call == Call("grant", "sent", "unasked")
    <3>1. call \in PaneCall /\ call.op = "grant" /\ call.checkpoint = "sent"
      BY NewCalls DEF Part, Call
    <3>2. grant = [call EXCEPT !.lease_epoch = e.lease_epoch]
      OBVIOUS
    <3> HIDE DEF call
    <3> QED
      BY <1>4, <3>1, <3>2 DEF PaneCall
  <2> HIDE DEF grant
  <2>2. Ask(grant) /\ pane' = [pane EXCEPT !.pending_grant = e.lease_epoch]
    BY <1>2, <1>10
  <2>3. PICK asked \in PaneCall :
           /\ Range(calls') = Range(calls) \cup {asked} /\ Fresh(asked)
           /\ asked.op = "grant" /\ asked.lease_epoch = e.lease_epoch
    BY <2>1, <2>2, AskedIs
  <2>4. pane'.pending_grant = e.lease_epoch
    BY <1>4, <2>2, ClientKinds DEF Pane
  <2>5. Fixing'
    BY <2>3, <2>4 DEF Fixing, Verifies
  <2>6. Resubscribes'
    BY <1>1, <1>7, <1>8, <1>9, <2>3 DEF GeometryInv, Resubscribes
  <2> QED
    BY <1>1, <1>3, <1>4, <1>5, <1>6, <1>7, <1>8, <2>3, <2>5, <2>6, FarKeeps
<1>11. CASE pane.life # "running"
  <2>1. calls' = calls /\ ~Holds'
    BY <1>2, <1>9, <1>11 DEF Holds
  <2>2. Resubscribes'
    BY <1>1, <1>7, <1>8, <1>9, <2>1 DEF GeometryInv, Resubscribes
  <2> QED
    BY <1>1, <1>3, <1>4, <1>5, <1>6, <1>7, <1>8, <2>1, <2>2, FarKeeps
<1> QED
  BY <1>10, <1>11

\* A pane without the lease needs no epoch.
LEMMA HearRevocationGeometry ==
    ASSUME IInv, GeometryInv, HearRevocation
    PROVE  GeometryInv'
<1> DEFINE e == Head(inbox)
<1>1. /\ inbox # <<>> /\ e.type = "revoked" /\ inbox' = Tail(inbox)
      /\ races' = Crossing(e.at) /\ pane' = WithLease(pane, 0)
      /\ UNCHANGED <<screen, lane, resized, broadcast, control, link, resubscribe, calls>>
  BY DEF HearRevocation, Hears, hostVars, linkVars
<1>2. Range(inbox) = Range(inbox') \cup {e}
  BY <1>1, ClientKinds, HeadTailProperties, InTail
<1> HIDE DEF e
<1>3. Shape(pane') = Shape(pane) /\ pane'.lease_epoch = 0 /\ pane'.pending_grant = 0
  BY <1>1, ClientKinds DEF Shape, Pane, WithLease
<1>4. 0 < control'.next_lease_epoch
  BY <1>1, EpochKinds
<1>5. {"unready", "misjudged", "unsized", "shadowed"} \cap races \subseteq races'
  BY <1>1 DEF Crossing
<1>6. Advances /\ (IsReady => IsReady') /\ ~Holds'
  BY <1>1, <1>2, <1>3, EpochKinds DEF Advances, Due, IsReady, Holds
<1>7. pane'.life = pane.life
  BY <1>3 DEF Shape
<1>8. Resubscribes'
  BY <1>1, <1>5, <1>6, <1>7 DEF GeometryInv, Resubscribes
<1> QED
  BY <1>1, <1>2, <1>3, <1>4, <1>5, <1>6, <1>8, FarKeeps

-----------------------------------------------------------------------------
(* What the terminal does.                                                 *)

\* The Host accepts the lease of a pane that is settled.
LEMMA Synced ==
    ASSUME IInv, PaneInv, GeometryInv, Settled
    PROVE  Accepts(pane.lease_epoch)
<1>1. /\ Holds /\ ~Fixing /\ link # "down" /\ Unraced /\ pane.life = "running"
      /\ pane.lease_epoch # 0 /\ pane.lease_epoch = Due(control)
  BY DEF Settled, Holds
<1>2. CASE broadcast # <<>>
  BY <1>1, <1>2 DEF Fixing
<1>3. CASE broadcast = <<>>
  <2>1. ~resubscribe
    BY <1>1 DEF GeometryInv, Resubscribes, IsReady, Fixing, Unraced
  <2>2. attachment.attached
    BY <1>1, <2>1 DEF PaneInv, Bound
  <2>3. Agrees /\ "untold" \notin races
    BY <1>1, <1>3, <2>2 DEF IInv, Follows, Told, Spared, Unraced
  <2>4. control.holder = Me /\ pane.lease_epoch = control.lease_epoch
    BY <1>1 DEF Due
  <2> QED
    BY <2>2, <2>3, <2>4 DEF Agrees, Accepts
<1> QED
  BY <1>2, <1>3

\* Another Client resizes the terminal only while it has the lease.
LEMMA RivalResizesGeometry ==
    ASSUME IInv, GeometryInv, RivalResizes
    PROVE  GeometryInv'
<1>1. /\ UNCHANGED <<control, link, resubscribe, broadcast, attachment>>
      /\ UNCHANGED <<lane, inbox, calls, resized, pane, races>>
      /\ screen'.geometry_epoch = screen.geometry_epoch + 1
      /\ control.holder # Me
  BY PaneAssumption DEF RivalResizes, linkVars, clientVars, historyVars
<1>2. screen.geometry_epoch \in Nat /\ screen'.geometry_epoch \in Nat
      /\ screen.geometry_epoch < screen'.geometry_epoch
  BY <1>1, EpochKinds
<1>3. Due(control) = 0 /\ Due(control)' = 0 /\ ~Holds'
  BY <1>1 DEF Due, Holds
<1>4. Known'
  <2>1. ASSUME NEW c \in Range(calls) PROVE Fresh(c)'
    <3>1. Fresh(c) /\ c.geometry_epoch \in Nat
      BY ToldKinds DEF GeometryInv, Known, PaneCall
    <3> QED
      BY <1>2, <3>1 DEF Fresh, Shown
  <2>2. \A r \in resized : r.geometry_epoch \in Nat
    BY ClientKinds DEF Resized
  <2> QED
    BY <1>1, <1>2, <2>1, <2>2, EpochKinds DEF GeometryInv, Known
<1>5. Attaching'
  BY <1>1, <1>3 DEF GeometryInv, Attaching, Attaches, Shown
<1>6. Numbers' /\ InOrder' /\ Epochs' /\ Resubscribes' /\ Remembers'
  BY <1>1 DEF GeometryInv, Numbers, Issued, InOrder, Epochs, Resubscribes, IsReady, Remembers
<1>7. Awaits' /\ Matches'
  BY <1>1, <1>3 DEF GeometryInv, Awaits, Owed, IsReady, Matches, Settled
<1> QED
  BY <1>4, <1>5, <1>6, <1>7 DEF GeometryInv

\* An attachment is answered with the terminal's size, which it gave it or found.
LEMMA HandleAttachGeometry ==
    ASSUME IInv, PaneInv, GeometryInv, NEW i \in DOMAIN calls, HandleAttach(i)
    PROVE  GeometryInv'
<1> DEFINE shown == IF Answered # 0 /\ calls[i].geometry_epoch > screen.geometry_epoch
                    THEN [size |-> calls[i].size, geometry_epoch |-> calls[i].geometry_epoch]
                    ELSE screen
           call == [calls[i] EXCEPT !.lease = "answered", !.checkpoint = "answered",
                                    !.lease_epoch = Answered, !.at = control'.turn,
                                    !.size = shown.size,
                                    !.geometry_epoch = shown.geometry_epoch]
           unsized == IF Answered # 0 /\ shown.size # calls[i].size THEN {"unsized"} ELSE {}
<1>1. /\ Acquire /\ ~resubscribe /\ calls[i].op = "attach" /\ calls[i].lease = "sent"
      /\ calls' = [calls EXCEPT ![i] = call] /\ screen' = shown
      /\ races' = races \cup AcquireRaces \cup unsized
      /\ UNCHANGED <<link, resubscribe, lane, inbox, resized, pane>>
  BY DEF HandleAttach, IsNext
<1>2. Answered \in Nat /\ control'.turn \in Nat
  BY <1>1, AnsweredKinds
<1>3. /\ calls[i] \in PaneCall /\ calls[i] \in Range(calls) /\ Fits(calls[i])
      /\ calls[i].geometry_epoch \in Nat /\ calls[i].size \in Sizes
      /\ calls[i].size = DefaultSize
  BY <1>1, CallParts, CallIn DEF PaneInv, Asking, GeometryInv, Attaching, Attaches
<1>4. /\ shown.size \in Sizes /\ shown.geometry_epoch \in Nat
      /\ shown.geometry_epoch >= screen.geometry_epoch
  BY <1>3, ClientKinds
<1>5. "unsized" \notin races' /\ Answered # 0 => shown.size = DefaultSize
  BY <1>1, <1>3
<1> HIDE DEF shown, unsized
<1>6. /\ call \in PaneCall /\ call.op = "attach" /\ Shown(call) /\ call.lease = "answered"
      /\ call.lease_epoch = Answered /\ call.size = screen'.size
      /\ call.geometry_epoch = screen'.geometry_epoch
  BY <1>1, <1>2, <1>3, <1>4 DEF PaneCall, Part, Shown
<1> HIDE DEF call
<1>15. PICK answer \in PaneCall :
          /\ calls' = [calls EXCEPT ![i] = answer] /\ answer.op = "attach" /\ Shown(answer)
          /\ answer.lease = "answered" /\ answer.lease_epoch = Answered
          /\ answer.size = screen'.size /\ answer.geometry_epoch = screen'.geometry_epoch
  BY <1>1, <1>6
<1>7. pane.life = "attaching" /\ Len(calls) = 1
  BY <1>1, <1>3 DEF Fits, PaneInv, Asking
<1>8. Range(calls') = {answer}
  <2>1. DOMAIN calls = 1 .. Len(calls)
    BY ClientKinds, LenProperties
  <2>2. DOMAIN calls = {i}
    BY <1>7, <2>1
  <2> QED
    BY <1>15, <2>2 DEF Range
<1>9. ~Holds' /\ pane' = pane
  BY <1>1, <1>7 DEF Holds
<1>16. /\ UNCHANGED <<link, resubscribe, lane, inbox, resized, pane>>
       /\ screen'.geometry_epoch \in Nat /\ screen'.geometry_epoch >= screen.geometry_epoch
  BY <1>1, <1>4
<1>10. Known'
  <2>1. Fresh(answer)'
    BY <1>15, <1>16 DEF Fresh, Shown
  <2>2. \A r \in resized : r.geometry_epoch \in Nat
    BY ClientKinds DEF Resized
  <2> QED
    BY <1>8, <1>16, <2>1, <2>2, EpochKinds DEF GeometryInv, Known
<1>11. Numbers' /\ InOrder' /\ Remembers'
  <2>1. races \subseteq races'
    BY <1>1
  <2> QED
    BY <1>16, <2>1 DEF GeometryInv, Numbers, Issued, InOrder, Remembers
<1>12. Epochs'
  <2>1. /\ Advances /\ Answered < control'.next_lease_epoch
        /\ \A e \in Range(broadcast') :
              e \in Range(broadcast) \/ e.lease_epoch < control'.next_lease_epoch
    BY <1>1, AcquireTells
  <2>2. \A e \in Range(broadcast) \cup Range(inbox) : e.lease_epoch < control'.next_lease_epoch
    BY <2>1, EpochKinds, ToldKinds DEF GeometryInv, Epochs, Advances
  <2>3. /\ pane.lease_epoch < control'.next_lease_epoch
        /\ pane.pending_grant < control'.next_lease_epoch
    BY <2>1, EpochKinds DEF GeometryInv, Epochs, Advances
  <2> QED
    BY <1>1, <1>8, <1>15, <2>1, <2>2, <2>3 DEF Epochs
<1>13. Attaching'
  <2>1. Attaches(answer)'
    BY <1>1, <1>5, <1>15 DEF Attaches, Shown
  <2> QED
    BY <1>8, <2>1 DEF Attaching
<1>14. Resubscribes' /\ Awaits' /\ Matches'
  BY <1>1, <1>9 DEF GeometryInv, Resubscribes, Awaits, Owed, IsReady, Matches, Settled
<1> QED
  BY <1>10, <1>11, <1>12, <1>13, <1>14 DEF GeometryInv

-----------------------------------------------------------------------------
(* Resizes.                                                                *)

\* Of a pane whose last resize under way will be accepted, none came to the terminal that was
\* not to be exceeded.
LEMMA AheadOrThere ==
    ASSUME IInv
    PROVE  ~(Ahead /\ There)
<1> SUFFICES ASSUME Ahead, There PROVE FALSE
  OBVIOUS
<1>1. Len(lane) \in 1 .. Len(lane) /\ lane[Len(lane)] \in Resize
  BY ClientKinds, EmptySeq, LenProperties, ElementOfSeq DEF Ahead
<1>2. lane[Len(lane)] \in Range(lane)
  BY <1>1, ClientKinds, RangeEquality
<1> DEFINE last == lane[Len(lane)]
<1>3. last \in Range(lane) /\ last.bound /\ last.geometry_epoch \in Nat
      /\ last.geometry_epoch > screen.geometry_epoch
  BY <1>1, <1>2 DEF Ahead, Resize
<1> HIDE DEF last
<1> QED
  BY <1>3, EpochKinds DEF There

\* A resize is answered: that of a settled pane is accepted, unless another one follows, or the
\* terminal has this geometry already.
LEMMA HandleResizeGeometry ==
    ASSUME IInv, PaneInv, GeometryInv, HandleResize
    PROVE  GeometryInv'
<1> DEFINE r == Head(lane)
           ok == r.bound /\ Accepts(r.lease_epoch) /\ r.geometry_epoch > screen.geometry_epoch
           answer == [ok |-> ok, size |-> r.size, geometry_epoch |-> r.geometry_epoch]
<1>1. /\ lane # <<>> /\ lane' = Tail(lane)
      /\ screen' = IF ok THEN [size |-> r.size, geometry_epoch |-> r.geometry_epoch] ELSE screen
      /\ resized' = IF r.stale THEN resized ELSE resized \cup {answer}
      /\ UNCHANGED <<control, attachment, link, resubscribe, broadcast, inbox, calls, pane, races>>
  BY DEF HandleResize, linkVars, historyVars
<1>2. /\ lane \in Seq(Resize) /\ Tail(lane) \in Seq(Resize) /\ r = lane[1]
      /\ Len(lane) \in Nat /\ Len(Tail(lane)) \in Nat /\ Len(lane) = Len(Tail(lane)) + 1
      /\ \A k \in 1 .. Len(Tail(lane)) : Tail(lane)[k] = lane[k + 1]
  BY <1>1, ClientKinds, HeadTailProperties, LenProperties, EmptySeq
<1>3. /\ r \in Resize /\ r.geometry_epoch \in Nat /\ r.size \in Sizes
      /\ r.stale \in BOOLEAN /\ r.bound \in BOOLEAN
  <2>1. r \in Resize
    BY <1>2, EmptySeq, ElementOfSeq
  <2> HIDE DEF r
  <2> QED
    BY <2>1 DEF Resize
<1>4. Range(lane) = Range(lane') \cup {r}
  BY <1>1, <1>2, InTail
<1>5. Issued(r) /\ \A s \in Range(lane') : Issued(s)
  BY <1>4 DEF GeometryInv, Numbers
<1>6. ok => r.bound /\ Accepts(r.lease_epoch) /\ r.geometry_epoch > screen.geometry_epoch
  OBVIOUS
<1>7. r.bound /\ Accepts(r.lease_epoch) /\ r.geometry_epoch > screen.geometry_epoch => ok
  OBVIOUS
<1> HIDE DEF r, ok
<1>8. /\ answer.ok = ok /\ answer.size = r.size /\ answer.geometry_epoch = r.geometry_epoch
  OBVIOUS
<1> HIDE DEF answer
<1>9. /\ screen'.geometry_epoch \in Nat /\ screen'.geometry_epoch >= screen.geometry_epoch
      /\ ok => screen'.geometry_epoch = r.geometry_epoch /\ screen'.size = r.size
      /\ ok => screen'.geometry_epoch > screen.geometry_epoch
      /\ ~ok => screen' = screen
  BY <1>1, <1>3, <1>6, EpochKinds
<1>10. UNCHANGED <<control, attachment, link, resubscribe, broadcast, inbox, calls, pane, races>>
  BY <1>1
<1>11. /\ resized' \subseteq resized \cup {answer} /\ resized \subseteq resized'
       /\ ~r.stale => answer \in resized'
       /\ answer \in resized' => answer \in resized \/ ~r.stale
       /\ \A a \in resized' : a \in resized \/ (a = answer /\ ~r.stale)
  BY <1>1
<1>12. \A a \in resized : a.geometry_epoch \in Nat
  BY ClientKinds DEF Resized
<1>13. \A k \in 1 .. Len(lane') : 1 < k + 1 /\ k + 1 \in 1 .. Len(lane) /\ lane'[k] = lane[k + 1]
  BY <1>1, <1>2
<1>14. 1 \in 1 .. Len(lane)
  BY <1>1, <1>2
<1>15. \A s \in Range(lane') :
           ~r.stale => ~s.stale /\ r.geometry_epoch < s.geometry_epoch
  <2>1. SUFFICES ASSUME NEW k \in 1 .. Len(lane'), ~r.stale
                 PROVE  ~lane'[k].stale /\ r.geometry_epoch < lane'[k].geometry_epoch
    <3>0. lane' \in Seq(Resize)
      BY <1>1, <1>2
    <3>1. Range(lane') = {lane'[k] : k \in 1 .. Len(lane')}
      BY <3>0, RangeEquality
    <3> QED
      BY <3>1
  <2> QED
    BY <1>2, <1>13, <1>14, <2>1 DEF GeometryInv, InOrder
<1>16. Known'
  <2>1. ASSUME NEW c \in Range(calls) PROVE Fresh(c)'
    <3>1. Fresh(c) /\ c.geometry_epoch \in Nat
      BY ToldKinds DEF GeometryInv, Known, PaneCall
    <3> QED
      BY <1>9, <3>1, EpochKinds DEF Fresh, Shown
  <2>2. ASSUME NEW a \in resized', a.ok PROVE a.geometry_epoch <= screen'.geometry_epoch
    <3>1. CASE a \in resized
      BY <1>9, <1>12, <2>2, <3>1, EpochKinds DEF GeometryInv, Known
    <3>2. CASE a = answer
      BY <1>3, <1>8, <1>9, <2>2, <3>2
    <3> QED
      BY <1>11, <3>1, <3>2
  <2>3. pane'.host_geometry_epoch <= screen'.geometry_epoch
    BY <1>9, <1>10, EpochKinds DEF GeometryInv, Known
  <2> QED
    BY <1>10, <2>1, <2>2, <2>3 DEF Known
<1>17. Numbers'
  <2>1. \A a \in resized' : a.geometry_epoch <= pane.next_geometry_epoch
    BY <1>5, <1>8, <1>11 DEF GeometryInv, Numbers, Issued
  <2>2. pane.life = "lost" => resized' = {}
    BY <1>5, <1>11 DEF GeometryInv, Numbers, Issued
  <2>3. ASSUME NEW s \in Range(lane') PROVE Issued(s)'
    <3>1. Issued(s)
      BY <1>5
    <3>2. ~s.stale => \A a \in resized' : a.geometry_epoch < s.geometry_epoch
      BY <1>8, <1>11, <1>15, <3>1 DEF Issued
    <3> QED
      BY <1>10, <3>1, <3>2 DEF Issued
  <2> QED
    BY <1>10, <2>1, <2>2, <2>3 DEF GeometryInv, Numbers
<1>18. InOrder'
  <2>1. SUFFICES ASSUME NEW j \in 1 .. Len(lane'), NEW k \in 1 .. Len(lane'), j < k,
                        ~lane'[j].stale
                 PROVE  ~lane'[k].stale /\ lane'[j].geometry_epoch < lane'[k].geometry_epoch
    BY DEF InOrder
  <2>2. j + 1 \in 1 .. Len(lane) /\ k + 1 \in 1 .. Len(lane) /\ j + 1 < k + 1
    BY <1>1, <1>2, <2>1
  <2> QED
    BY <1>13, <2>1, <2>2 DEF GeometryInv, InOrder
<1>19. Attaching'
  <2>1. ASSUME NEW c \in Range(calls), c.op = "attach" PROVE screen' = screen
    <3>1. pane.life = "attaching"
      BY <2>1 DEF PaneInv, Asking, Fits
    <3> QED
      BY <1>5, <1>6, <1>9, <3>1 DEF Issued
  <2> QED
    BY <1>10, <2>1 DEF GeometryInv, Attaching, Attaches, Due, Shown
<1>20. ~ok /\ Owed => Owed'
  <2>1. SUFFICES ASSUME ~ok, Owed PROVE Owed'
    OBVIOUS
  <2>2. CASE \E a \in resized : ~a.ok /\ a.size = pane.local_geometry
    BY <1>10, <1>11, <2>2 DEF Owed
  <2>3. CASE \E s \in Range(lane') : ~s.stale /\ s.size = pane.local_geometry
    BY <1>10, <2>3 DEF Owed
  <2>4. CASE ~r.stale /\ r.size = pane.local_geometry
    BY <1>8, <1>10, <1>11, <2>1, <2>4 DEF Owed
  <2> QED
    BY <1>4, <2>1, <2>2, <2>3, <2>4 DEF Owed
<1>21. Epochs' /\ Resubscribes' /\ Remembers'
  BY <1>10 DEF GeometryInv, Epochs, Resubscribes, IsReady, Remembers
<1>22. Awaits'
  <2>1. pane.life = "attaching" => ~ok
    BY <1>5, <1>6 DEF Issued
  <2> QED
    BY <1>10, <1>20, <2>1 DEF GeometryInv, Awaits, IsReady
<1>23. Matches'
  <2>1. SUFFICES ASSUME Settled PROVE Matches'
    BY <1>10 DEF Matches, Settled, Holds, Fixing, Unraced, Verifies, Accepts, Due
  <2>2. /\ Ahead \/ There
        /\ races \cap {"unsized", "shadowed"} = {} => Sized
    BY <2>1 DEF GeometryInv, Matches
  <2> DEFINE last == lane[Len(lane)]
  <2>3. ASSUME Ahead
        PROVE  /\ last.bound /\ ~last.stale /\ Accepts(last.lease_epoch)
               /\ last.geometry_epoch = pane.geometry_epoch
               /\ last.geometry_epoch > screen.geometry_epoch
    <3>1. last \in Range(lane)
      BY <1>1, <1>2, <1>14, RangeEquality
    <3>2. /\ last.bound /\ last.lease_epoch = pane.lease_epoch
          /\ last.geometry_epoch = pane.geometry_epoch
          /\ last.geometry_epoch > screen.geometry_epoch
      BY <2>3 DEF Ahead
    <3>3. Accepts(pane.lease_epoch)
      BY <2>1, Synced
    <3>4. Issued(last)
      BY <3>1 DEF GeometryInv, Numbers
    <3> HIDE DEF last
    <3>5. last.stale => ~last.bound
      BY <3>4 DEF Issued
    <3>6. ~last.stale
      BY <3>2, <3>5
    <3> QED
      BY <3>2, <3>3, <3>6
  <2>4. races \cap {"unsized", "shadowed"} = {} /\ Ahead =>
           pane.pending_geometry = {pane.local_geometry} \/ last.size = pane.local_geometry
    BY <2>2, AheadOrThere DEF Sized
  <2>5. CASE Ahead /\ lane' = <<>>
    <3>1. Len(lane) = 1
      <4>1. Len(<<>>) = 0
        OBVIOUS
      <4>2. Tail(lane) = <<>>
        BY <1>1, <2>5
      <4>3. Len(Tail(lane)) = 0
        BY <4>1, <4>2, Zenon
      <4>4. Len(lane) = Len(Tail(lane)) + 1
        BY <1>2
      <4> QED
        BY <4>3, <4>4
    <3>2. r = last
      BY <1>2, <3>1
    <3> HIDE DEF last
    <3>3. ok /\ ~r.stale /\ r.geometry_epoch = pane.geometry_epoch
      BY <1>7, <2>3, <2>5, <3>2
    <3>4. Range(lane') = {}
      BY <2>5 DEF Range
    <3>5. \A a \in resized' : a.ok \/ a.geometry_epoch < screen'.geometry_epoch
      BY <1>5, <1>8, <1>9, <1>11, <3>3 DEF Issued
    <3>6. There'
      BY <1>9, <1>10, <1>11, <1>12, <1>3, <1>8, <3>3, <3>4, <3>5 DEF There
    <3> QED
      BY <1>9, <1>10, <2>4, <2>5, <3>2, <3>3, <3>6 DEF Matches, Sized
  <2>6. CASE Ahead /\ lane' # <<>>
    <3>1. Len(lane') \in 1 .. Len(lane') /\ lane'[Len(lane')] = last /\ last \in Range(lane')
      <4>1. Len(lane') \in 1 .. Len(lane')
        BY <1>1, <1>2, <2>6, EmptySeq
      <4>2. lane'[Len(lane')] = last
        BY <1>1, <1>2, <2>6, LastOfTail
      <4> QED
        BY <1>1, <1>2, <4>1, <4>2, RangeEquality
    <3> HIDE DEF last
    <3>2. ok => r.geometry_epoch < last.geometry_epoch
      BY <1>5, <1>6, <1>15, <3>1 DEF Issued
    <3>3. last.geometry_epoch > screen'.geometry_epoch
      BY <1>9, <2>3, <2>6, <3>2, EpochKinds
    <3>4. last.lease_epoch = pane.lease_epoch
      BY <2>6 DEF Ahead, last
    <3>5. Ahead'
      BY <1>10, <2>3, <2>6, <3>1, <3>3, <3>4 DEF Ahead
    <3> QED
      BY <1>10, <2>4, <2>6, <3>1, <3>5 DEF Matches, Sized
  <2>7. CASE There
    <3>1. ~ok
      BY <1>3, <1>4, <1>6, <2>7, EpochKinds DEF There
    <3>2. screen' = screen
      BY <1>9, <3>1
    <3>3. There'
      <4>1. \A a \in resized' : ~a.ok /\ a.geometry_epoch = screen.geometry_epoch
                  => pane.host_geometry_epoch = screen.geometry_epoch
        BY <1>4, <1>8, <1>11, <2>7 DEF There
      <4> QED
        BY <1>4, <1>10, <2>7, <3>2, <4>1 DEF There
    <3>4. races \cap {"unsized", "shadowed"} = {} =>
             \/ pane.pending_geometry = {pane.local_geometry}
             \/ screen.size = pane.local_geometry \/ Owed'
      BY <1>20, <2>2, <2>7, <3>1, AheadOrThere DEF Sized
    <3> QED
      BY <1>10, <3>2, <3>3, <3>4 DEF Matches, Sized
  <2> QED
    BY <2>2, <2>5, <2>6, <2>7
<1> QED
  BY <1>16, <1>17, <1>18, <1>19, <1>21, <1>22, <1>23 DEF GeometryInv

-----------------------------------------------------------------------------
(* What the pane sends.                                                    *)

\* A sequence of one element made from a set is that element.
LEMMA SequenceOfOne ==
    ASSUME NEW e
    PROVE  SetToSeq({e}) = <<e>>
<1>1. Cardinality({e}) = 1
  BY FS_Singleton
<1> DEFINE f == [i \in 1 .. 1 |-> e]
<1>2. f \in [1 .. 1 -> {e}] /\ IsInjective(f)
  BY DEF IsInjective
<1>3. SetToSeq({e}) \in [1 .. 1 -> {e}]
  BY <1>1, <1>2 DEF SetToSeq
<1> QED
  BY <1>3

\* The pending size goes out under the next number.
LEMMA Sends ==
    ASSUME IInv, NEW p, PaneTypes(p), Submit(p), link # "down", p.pending_geometry # {}
    PROVE  \E m \in Resize :
              /\ lane' = Append(lane, m)
              /\ m.lease_epoch = p.lease_epoch /\ ~m.stale
              /\ m.bound <=> p.life = "running"
              /\ m.geometry_epoch = p.next_geometry_epoch + 1
              /\ p.pending_geometry = {m.size}
              /\ pane'.next_geometry_epoch = m.geometry_epoch
              /\ pane'.geometry_epoch = m.geometry_epoch
              /\ pane'.pending_geometry = {}
              /\ pane'.host_geometry_epoch = p.host_geometry_epoch
              /\ pane'.local_geometry = p.local_geometry
<1> DEFINE epoch == p.next_geometry_epoch + 1
           message(size) == [lease_epoch |-> p.lease_epoch, stale |-> FALSE,
                             bound |-> p.life = "running", geometry_epoch |-> epoch,
                             size |-> size]
<1>1. /\ p \in Pane /\ p.next_geometry_epoch \in Nat /\ p.pending_geometry \subseteq Sizes
      /\ p.lease_epoch \in Nat /\ \A s, u \in p.pending_geometry : s = u
  BY DEF PaneTypes, Pane
<1>2. epoch \in Nat
  BY <1>1
<1>3. /\ pane' = [p EXCEPT !.next_geometry_epoch = epoch, !.geometry_epoch = epoch,
                           !.pending_geometry = {}]
      /\ lane' = lane \o SetToSeq({message(size) : size \in p.pending_geometry})
  BY DEF Submit
<1>4. epoch = p.next_geometry_epoch + 1
  OBVIOUS
<1> HIDE DEF epoch
<1>5. PICK size \in Sizes : p.pending_geometry = {size}
  BY <1>1
<1>6. /\ message(size) \in Resize /\ message(size).lease_epoch = p.lease_epoch
      /\ ~message(size).stale /\ (message(size).bound <=> p.life = "running")
      /\ message(size).geometry_epoch = epoch /\ message(size).size = size
  BY <1>1, <1>2 DEF Resize
<1>7. {message(s) : s \in p.pending_geometry} = {message(size)}
  BY <1>5
<1> HIDE DEF message
<1>8. PICK m \in Resize :
         /\ m = message(size) /\ m.lease_epoch = p.lease_epoch /\ ~m.stale
         /\ m.bound <=> p.life = "running"
         /\ m.geometry_epoch = epoch /\ m.size = size
  BY <1>6
<1>9. lane' = lane \o <<m>>
  BY <1>3, <1>7, <1>8, SequenceOfOne
<1>10. lane' = Append(lane, m)
  BY <1>9, ClientKinds, AppendIsConcat
<1>11. /\ pane'.next_geometry_epoch = epoch /\ pane'.geometry_epoch = epoch
       /\ pane'.pending_geometry = {}
       /\ pane'.host_geometry_epoch = p.host_geometry_epoch
       /\ pane'.local_geometry = p.local_geometry
  BY <1>1, <1>3 DEF Pane
<1> QED
  BY <1>4, <1>5, <1>8, <1>10, <1>11

\* Nothing goes out.
LEMMA Rests ==
    ASSUME NEW p, PaneTypes(p), Submit(p), link = "down" \/ p.pending_geometry = {}
    PROVE  /\ lane' = lane
           /\ pane'.next_geometry_epoch = p.next_geometry_epoch
           /\ pane'.geometry_epoch = p.geometry_epoch
           /\ pane'.pending_geometry \subseteq p.pending_geometry
           /\ pane'.host_geometry_epoch = p.host_geometry_epoch
           /\ pane'.local_geometry = p.local_geometry
<1>1. p \in Pane
  BY DEF PaneTypes
<1>2. lane' = lane /\ pane' \in {p, [p EXCEPT !.pending_geometry = {}]}
  BY DEF Submit
<1> QED
  BY <1>1, <1>2 DEF Pane

\* What was sent stays numbered and in order.
LEMMA NumbersKept ==
    ASSUME IInv, GeometryInv, resized' \subseteq resized,
           pane'.next_geometry_epoch \in Nat,
           pane'.next_geometry_epoch >= pane.next_geometry_epoch,
           pane'.geometry_epoch <= pane'.next_geometry_epoch,
           pane'.host_geometry_epoch <= pane'.next_geometry_epoch,
           pane.life = "running" => pane'.life = "running", pane'.life # "lost",
           \/ lane' = lane
           \/ \E m \in Resize : /\ lane' = Append(lane, m) /\ ~m.stale
                                /\ m.geometry_epoch > pane.next_geometry_epoch
                                /\ m.geometry_epoch <= pane'.next_geometry_epoch
                                /\ m.bound => pane'.life = "running"
    PROVE  Numbers' /\ InOrder'
<1>1. \A a \in resized' : a.geometry_epoch \in Nat /\ a.geometry_epoch <= pane.next_geometry_epoch
  BY ClientKinds DEF Resized, GeometryInv, Numbers
<1>2. \A s \in Range(lane) : s.geometry_epoch \in Nat
  <2>1. Range(lane) \subseteq Resize
    BY ClientKinds, RangeOfSeq
  <2>2. \A s \in Resize : s.geometry_epoch \in Nat
    BY DEF Resize
  <2> QED
    BY <2>1, <2>2
<1>3. \A a \in resized' : a.geometry_epoch <= pane'.next_geometry_epoch
  BY <1>1, EpochKinds
<1>4. ASSUME NEW s \in Range(lane) PROVE Issued(s)'
  <2>1. Issued(s)
    BY DEF GeometryInv, Numbers
  <2>2. s.geometry_epoch <= pane.next_geometry_epoch
           => s.geometry_epoch <= pane'.next_geometry_epoch
    BY <1>2, EpochKinds
  <2> QED
    BY <2>1, <2>2 DEF Issued
<1>5. CASE lane' = lane
  BY <1>3, <1>4, <1>5 DEF GeometryInv, Numbers, InOrder
<1>6. CASE \E m \in Resize : /\ lane' = Append(lane, m) /\ ~m.stale
                             /\ m.geometry_epoch > pane.next_geometry_epoch
                             /\ m.geometry_epoch <= pane'.next_geometry_epoch
                             /\ m.bound => pane'.life = "running"
  <2>1. PICK m \in Resize : /\ lane' = Append(lane, m) /\ ~m.stale
                            /\ m.geometry_epoch > pane.next_geometry_epoch
                            /\ m.geometry_epoch <= pane'.next_geometry_epoch
                            /\ m.bound => pane'.life = "running"
    BY <1>6
  <2>2. m.geometry_epoch \in Nat
    BY DEF Resize
  <2>3. Issued(m)'
    <3>1. pane.next_geometry_epoch \in Nat /\ pane.next_geometry_epoch < m.geometry_epoch
      BY <2>1, <2>2, EpochKinds
    <3>2. \A r \in resized' : r.geometry_epoch < m.geometry_epoch
      BY <1>1, <2>2, <3>1
    <3> QED
      BY <2>1, <3>2 DEF Issued
  <2>4. Range(lane') = Range(lane) \cup {m}
    BY <2>1, ClientKinds, InAppend
  <2>5. Numbers'
    BY <1>3, <1>4, <2>3, <2>4 DEF Numbers
  <2>6. /\ Len(lane') = Len(lane) + 1 /\ Len(lane) \in Nat /\ lane'[Len(lane) + 1] = m
        /\ \A k \in 1 .. Len(lane) : lane'[k] = lane[k]
    BY <2>1, ClientKinds, AppendProperties, LenProperties
  <2>7. InOrder'
    <3>1. SUFFICES ASSUME NEW j \in 1 .. Len(lane'), NEW k \in 1 .. Len(lane'), j < k,
                          ~lane'[j].stale
                   PROVE  ~lane'[k].stale /\ lane'[j].geometry_epoch < lane'[k].geometry_epoch
      BY DEF InOrder
    <3>2. j \in 1 .. Len(lane) /\ lane'[j] = lane[j]
      BY <2>6, <3>1
    <3>3. CASE k \in 1 .. Len(lane)
      BY <2>6, <3>1, <3>2, <3>3 DEF GeometryInv, InOrder
    <3>4. CASE k = Len(lane) + 1
      <4>1. lane[j] \in Range(lane)
        BY <3>2, ClientKinds, RangeEquality
      <4>2. lane[j].geometry_epoch <= pane.next_geometry_epoch /\ lane[j].geometry_epoch \in Nat
        BY <1>2, <3>1, <3>2, <4>1 DEF GeometryInv, Numbers, Issued
      <4>3. lane'[k] = m
        BY <2>6, <3>4
      <4>4. pane.next_geometry_epoch \in Nat /\ pane.next_geometry_epoch < m.geometry_epoch
        BY <2>1, <2>2, EpochKinds
      <4>5. lane[j].geometry_epoch < m.geometry_epoch
        BY <2>2, <4>2, <4>4
      <4> QED
        BY <2>1, <3>2, <4>3, <4>5
    <3> QED
      BY <2>6, <3>3, <3>4
  <2> QED
    BY <2>5, <2>7
<1> QED
  BY <1>5, <1>6

\* A step of the pane
LEMMA PaneGeometry ==
    ASSUME IInv, GeometryInv,
           UNCHANGED <<screen, control, broadcast, inbox>>,
           Range(calls') \subseteq Range(calls), resized' \subseteq resized,
           "unsized" \in races => "unsized" \in races',
           pane'.host_geometry_epoch <= screen.geometry_epoch,
           pane'.lease_epoch < control.next_lease_epoch,
           pane'.pending_grant < control.next_lease_epoch,
           Numbers', InOrder', Resubscribes', Remembers', Awaits', Matches'
    PROVE  GeometryInv'
<1>1. Known'
  BY DEF GeometryInv, Known, Fresh, Shown
<1>2. Epochs'
  BY DEF GeometryInv, Epochs
<1>3. Attaching'
  <2>1. ASSUME NEW c \in Range(calls') PROVE Attaches(c)'
    <3>1. Attaches(c)
      BY DEF GeometryInv, Attaching
    <3> QED
      BY <3>1 DEF Attaches, Due, Shown
  <2> QED
    BY <2>1 DEF Attaching
<1> QED
  BY <1>1, <1>2, <1>3 DEF GeometryInv

\* A pane whose last resize was just sent is ahead of the terminal.
LEMMA NowAhead ==
    ASSUME IInv, UNCHANGED screen, NEW m \in Resize, lane' = Append(lane, m), m.bound,
           m.lease_epoch = pane'.lease_epoch, m.geometry_epoch = pane'.geometry_epoch,
           m.geometry_epoch > screen.geometry_epoch
    PROVE  Ahead' /\ lane'[Len(lane')] = m
<1>1. lane' # <<>> /\ lane'[Len(lane')] = m
  BY ClientKinds, AppendProperties, LenProperties, EmptySeq
<1> QED
  BY <1>1 DEF Ahead

-----------------------------------------------------------------------------
(* The view and its sizes.                                                 *)

\* A view that gets another size sends it, or remembers it.
LEMMA ResizeViewGeometry ==
    ASSUME IInv, GeometryInv, ResizeView
    PROVE  GeometryInv'
<1>1. PICK size \in Sizes :
         LET p == [pane EXCEPT !.local_geometry = size]
             q == [p EXCEPT !.pending_geometry = {size}]
         IN  /\ IF link = "down" THEN pane' = p /\ UNCHANGED lane
                ELSE IF pane.lease_epoch = 0 THEN pane' = q /\ UNCHANGED lane
                ELSE Submit(q)
             /\ races' = IF link = "down" /\ ~(pane.pending_geometry \subseteq {size})
                         THEN races \cup {"shadowed"} ELSE races
  BY DEF ResizeView
<1> DEFINE p == [pane EXCEPT !.local_geometry = size]
           q == [p EXCEPT !.pending_geometry = {size}]
<1>2. /\ UNCHANGED <<screen, control, broadcast, inbox, attachment, link, resubscribe>>
      /\ UNCHANGED <<calls, resized>> /\ pane.life # "lost" /\ races \subseteq races'
  BY DEF ResizeView, hostVars, linkVars
<1>3. /\ PaneTypes(p) /\ p.life = pane.life /\ p.lease_epoch = pane.lease_epoch
      /\ p.pending_grant = pane.pending_grant /\ p.geometry_epoch = pane.geometry_epoch
      /\ p.host_geometry_epoch = pane.host_geometry_epoch
      /\ p.next_geometry_epoch = pane.next_geometry_epoch
      /\ p.pending_geometry = pane.pending_geometry /\ p.local_geometry = size
  BY ClientKinds DEF PaneTypes, Pane
<1>4. /\ PaneTypes(q) /\ q \in Pane /\ Core(q) = Core(pane)
      /\ q.life = pane.life /\ q.lease_epoch = pane.lease_epoch
      /\ q.pending_grant = pane.pending_grant /\ q.geometry_epoch = pane.geometry_epoch
      /\ q.host_geometry_epoch = pane.host_geometry_epoch
      /\ q.next_geometry_epoch = pane.next_geometry_epoch
      /\ q.pending_geometry = {size} /\ q.local_geometry = size
  BY <1>3 DEF PaneTypes, Pane, Core
<1>5. IF link = "down" THEN pane' = p /\ lane' = lane
      ELSE IF pane.lease_epoch = 0 THEN pane' = q /\ lane' = lane
      ELSE Submit(q)
  BY <1>1
<1>6. link = "down" /\ "shadowed" \notin races' => pane.pending_geometry \subseteq {size}
  BY <1>1
<1> HIDE DEF p, q
<1>7. ASSUME pane'.life = pane.life, pane'.host_geometry_epoch = pane.host_geometry_epoch,
             pane'.lease_epoch = pane.lease_epoch, pane'.pending_grant = pane.pending_grant,
             Numbers', InOrder', Remembers', Awaits', Matches'
      PROVE  GeometryInv'
  <2>1. Resubscribes'
    BY <1>2, <1>7 DEF GeometryInv, Resubscribes, IsReady
  <2>2. /\ pane'.host_geometry_epoch <= screen.geometry_epoch
        /\ pane'.lease_epoch < control.next_lease_epoch
        /\ pane'.pending_grant < control.next_lease_epoch
    BY <1>7 DEF GeometryInv, Known, Epochs
  <2> QED
    BY <1>2, <1>7, <2>1, <2>2, PaneGeometry
<1>8. CASE link = "down"
  <2>1. pane' = p /\ lane' = lane
    BY <1>5, <1>8
  <2>2. Numbers' /\ InOrder'
    BY <1>2, <1>3, <2>1, EpochKinds, NumbersKept DEF GeometryInv, Numbers
  <2>3. Remembers' /\ Awaits' /\ Matches'
    BY <1>2, <1>3, <1>6, <1>8, <2>1 DEF Remembers, Awaits, Matches, Settled, Holds
  <2> QED
    BY <1>3, <1>7, <2>1, <2>2, <2>3
<1>9. CASE link # "down" /\ pane.lease_epoch = 0
  <2>1. pane' = q /\ lane' = lane
    BY <1>5, <1>9
  <2>2. Numbers' /\ InOrder'
    BY <1>2, <1>4, <2>1, EpochKinds, NumbersKept DEF GeometryInv, Numbers
  <2>3. Remembers' /\ Awaits' /\ Matches'
    BY <1>2, <1>4, <1>9, <2>1 DEF Remembers, Awaits, Matches, Settled, Holds
  <2> QED
    BY <1>4, <1>7, <2>1, <2>2, <2>3
<1>10. CASE link # "down" /\ pane.lease_epoch # 0
  <2>1. Submit(q)
    BY <1>5, <1>10
  <2>2. Core(pane') = Core(pane)
    BY <1>4, <2>1, SubmittedCore
  <2>3. /\ pane'.life = pane.life /\ pane'.lease_epoch = pane.lease_epoch
        /\ pane'.pending_grant = pane.pending_grant
    BY <2>2 DEF Core
  <2>4. PICK m \in Resize :
           /\ lane' = Append(lane, m)
           /\ m.lease_epoch = q.lease_epoch /\ ~m.stale
           /\ m.bound <=> q.life = "running"
           /\ m.geometry_epoch = q.next_geometry_epoch + 1
           /\ q.pending_geometry = {m.size}
           /\ pane'.next_geometry_epoch = m.geometry_epoch
           /\ pane'.geometry_epoch = m.geometry_epoch
           /\ pane'.pending_geometry = {}
           /\ pane'.host_geometry_epoch = q.host_geometry_epoch
           /\ pane'.local_geometry = q.local_geometry
    BY <1>4, <1>10, <2>1, Sends
  <2>5. /\ m.size = size /\ pane'.local_geometry = size
        /\ m.geometry_epoch = pane.next_geometry_epoch + 1
        /\ pane'.host_geometry_epoch = pane.host_geometry_epoch
        /\ m.geometry_epoch \in Nat
    <3>1. q.pending_geometry = {size} /\ q.pending_geometry = {m.size}
      BY <1>4, <2>4
    <3>2. m.geometry_epoch = q.next_geometry_epoch + 1 /\ q.next_geometry_epoch \in Nat
      BY <1>4, <2>4, EpochKinds
    <3>3. m.size = size
      BY <3>1
    <3>4. /\ pane'.local_geometry = size
          /\ pane'.host_geometry_epoch = pane.host_geometry_epoch
      BY <1>4, <2>4
    <3>5. m.geometry_epoch = pane.next_geometry_epoch + 1 /\ m.geometry_epoch \in Nat
      BY <1>4, <3>2
    <3> QED
      BY <3>3, <3>4, <3>5
  <2>6. Numbers' /\ InOrder'
    <3>1. /\ pane'.next_geometry_epoch \in Nat
          /\ pane'.next_geometry_epoch >= pane.next_geometry_epoch
          /\ pane'.geometry_epoch <= pane'.next_geometry_epoch
          /\ pane'.host_geometry_epoch <= pane'.next_geometry_epoch
          /\ m.geometry_epoch > pane.next_geometry_epoch
          /\ m.geometry_epoch <= pane'.next_geometry_epoch
      BY <2>4, <2>5, EpochKinds DEF GeometryInv, Numbers
    <3>2. m.bound => pane'.life = "running"
      BY <1>4, <2>3, <2>4
    <3> QED
      BY <1>2, <2>3, <2>4, <3>1, <3>2, NumbersKept
  <2>7. Remembers'
    BY <2>4 DEF Remembers
  <2>8. Awaits'
    <3>1. m \in Range(lane')
      BY <2>4, ClientKinds, InAppend
    <3>2. Owed'
      BY <2>4, <2>5, <3>1 DEF Owed
    <3> QED
      BY <3>2 DEF Awaits
  <2>9. Matches'
    <3>1. SUFFICES ASSUME Settled' PROVE Ahead' /\ Sized'
      BY DEF Matches
    <3>2. Settled
      BY <1>2, <2>3, <3>1 DEF Settled, Holds, Fixing, Unraced, Verifies, Accepts, Due
    <3>3. Ahead \/ There
      BY <3>2 DEF GeometryInv, Matches
    <3>4. screen.geometry_epoch <= pane.next_geometry_epoch
      BY <3>3, EpochKinds DEF Ahead, There, GeometryInv, Numbers
    <3>5. m.geometry_epoch > screen.geometry_epoch
      BY <2>5, <3>4, EpochKinds
    <3>6. m.bound /\ m.lease_epoch = pane'.lease_epoch
      BY <1>4, <2>3, <2>4, <3>2 DEF Settled, Holds
    <3>7. Ahead' /\ lane'[Len(lane')] = m
      BY <1>2, <2>4, <3>5, <3>6, NowAhead
    <3> QED
      BY <2>5, <3>7 DEF Sized
  <2> QED
    BY <1>7, <2>3, <2>5, <2>6, <2>7, <2>8, <2>9
<1> QED
  BY <1>8, <1>9, <1>10

\* The pane hears what became of a resize, and keeps the size of one that was rejected.
LEMMA HearResizedGeometry ==
    ASSUME IInv, GeometryInv, HearResized
    PROVE  GeometryInv'
<1>1. PICK r \in resized :
         /\ resized' = resized \ {r}
         /\ pane' = IF r.ok
                    THEN [pane EXCEPT !.host_geometry_epoch =
                                         IF r.geometry_epoch > @ THEN r.geometry_epoch ELSE @]
                    ELSE [pane EXCEPT
                            !.geometry_epoch = IF @ = r.geometry_epoch
                                               THEN pane.host_geometry_epoch ELSE @,
                            !.pending_geometry = IF @ = {} THEN {r.size} ELSE @]
         /\ races' = IF ~r.ok /\ pane.pending_geometry = {} /\ r.size # pane.local_geometry
                     THEN races \cup {"shadowed"} ELSE races
  BY DEF HearResized
<1>2. /\ UNCHANGED <<screen, control, broadcast, inbox, attachment, link, resubscribe>>
      /\ UNCHANGED <<calls, lane>> /\ races \subseteq races'
  BY <1>1 DEF HearResized, hostVars, linkVars
<1>3. /\ r.geometry_epoch \in Nat /\ r.size \in Sizes /\ r.geometry_epoch <= pane.next_geometry_epoch
      /\ r.ok => r.geometry_epoch <= screen.geometry_epoch
  BY ClientKinds DEF Resized, GeometryInv, Numbers, Known
<1>4. /\ pane'.life = pane.life /\ pane'.lease_epoch = pane.lease_epoch
      /\ pane'.pending_grant = pane.pending_grant
      /\ pane'.next_geometry_epoch = pane.next_geometry_epoch
      /\ pane'.local_geometry = pane.local_geometry
  BY <1>1, ClientKinds DEF Pane
<1>5. pane'.host_geometry_epoch = IF r.ok /\ r.geometry_epoch > pane.host_geometry_epoch
                                  THEN r.geometry_epoch ELSE pane.host_geometry_epoch
  BY <1>1, ClientKinds DEF Pane
<1>6. pane'.geometry_epoch = IF ~r.ok /\ pane.geometry_epoch = r.geometry_epoch
                             THEN pane.host_geometry_epoch ELSE pane.geometry_epoch
  BY <1>1, ClientKinds DEF Pane
<1>7. pane'.pending_geometry = IF ~r.ok /\ pane.pending_geometry = {}
                               THEN {r.size} ELSE pane.pending_geometry
  BY <1>1, ClientKinds DEF Pane
<1>8. resized' = resized \ {r}
  BY <1>1
<1>9. Remembers'
  BY <1>1, <1>2, <1>4, <1>7 DEF GeometryInv, Remembers
<1>10. ~r.ok /\ "shadowed" \notin races' => pane'.pending_geometry = {pane'.local_geometry}
  <2>1. SUFFICES ASSUME ~r.ok, "shadowed" \notin races'
                 PROVE  pane'.pending_geometry = {pane'.local_geometry}
    OBVIOUS
  <2>2. pane'.pending_geometry # {}
    BY <1>7, <2>1
  <2> QED
    BY <1>9, <2>1, <2>2 DEF Remembers
<1>11. r.ok /\ Owed => Owed'
  BY <1>2, <1>4, <1>8 DEF Owed
<1>12. Awaits'
  <2>1. CASE r.ok
    <3>1. races' = races /\ pane'.pending_geometry = pane.pending_geometry
      BY <1>1, <1>7, <2>1
    <3> QED
      BY <1>2, <1>4, <1>11, <2>1, <3>1 DEF GeometryInv, Awaits, IsReady
  <2>2. CASE ~r.ok
    BY <1>10, <2>2 DEF Awaits
  <2> QED
    BY <2>1, <2>2
<1>13. /\ pane'.host_geometry_epoch <= screen.geometry_epoch
       /\ pane'.host_geometry_epoch <= pane'.next_geometry_epoch
       /\ pane'.geometry_epoch <= pane'.next_geometry_epoch
  BY <1>3, <1>4, <1>5, <1>6, EpochKinds DEF GeometryInv, Known, Numbers
<1>14. Numbers' /\ InOrder'
  <2>1. pane'.life # "lost" /\ resized' \subseteq resized
    BY <1>4, <1>8 DEF GeometryInv, Numbers
  <2>2. /\ lane' = lane /\ pane'.next_geometry_epoch \in Nat
        /\ pane'.next_geometry_epoch >= pane.next_geometry_epoch
        /\ pane.life = "running" => pane'.life = "running"
    BY <1>2, <1>4, EpochKinds
  <2> QED
    BY <1>13, <2>1, <2>2, NumbersKept
<1>15. pane.host_geometry_epoch = screen.geometry_epoch
          => pane'.host_geometry_epoch = screen.geometry_epoch
  BY <1>3, <1>5, EpochKinds
<1>16. Matches'
  <2>1. SUFFICES ASSUME Settled' PROVE Matches'
    BY DEF Matches
  <2>2. Settled
    BY <1>2, <1>4, <2>1 DEF Settled, Holds, Fixing, Unraced, Verifies, Accepts, Due
  <2>3. /\ Ahead \/ There
        /\ races \cap {"unsized", "shadowed"} = {} => Sized
    BY <2>2 DEF GeometryInv, Matches
  <2>4. Ahead => Ahead'
    <3>1. SUFFICES ASSUME Ahead PROVE Ahead'
      OBVIOUS
    <3>2. lane[Len(lane)] \in Range(lane)
      BY <3>1, ClientKinds, EmptySeq, LenProperties, RangeEquality DEF Ahead
    <3>3. Issued(lane[Len(lane)])
      BY <3>2 DEF GeometryInv, Numbers
    <3>4. r.geometry_epoch < lane[Len(lane)].geometry_epoch
      BY <3>1, <3>3 DEF Ahead, Issued
    <3>5. r.geometry_epoch < pane.geometry_epoch
      BY <3>1, <3>4 DEF Ahead
    <3>6. pane'.geometry_epoch = pane.geometry_epoch
      BY <1>3, <1>6, <3>5, EpochKinds
    <3> QED
      BY <1>2, <1>4, <3>1, <3>6 DEF Ahead
  <2>5. There => There'
    <3>1. SUFFICES ASSUME There PROVE There'
      OBVIOUS
    <3>2. pane'.geometry_epoch = screen.geometry_epoch
      BY <1>6, <3>1 DEF There
    <3> QED
      BY <1>2, <1>8, <1>15, <3>1, <3>2 DEF There
  <2>6. races' \cap {"unsized", "shadowed"} = {} => Sized'
    <3>1. CASE r.ok
      <4>1. races' = races /\ pane'.pending_geometry = pane.pending_geometry
        BY <1>1, <1>7, <3>1
      <4> QED
        BY <1>2, <1>4, <1>11, <2>3, <2>4, <2>5, <3>1, <4>1 DEF Sized
    <3>2. CASE ~r.ok
      BY <1>10, <3>2 DEF Sized
    <3> QED
      BY <3>1, <3>2
  <2> QED
    BY <2>3, <2>4, <2>5, <2>6 DEF Matches
<1>17. Resubscribes'
  BY <1>2, <1>4 DEF GeometryInv, Resubscribes, IsReady
<1>18. /\ pane'.lease_epoch < control.next_lease_epoch
       /\ pane'.pending_grant < control.next_lease_epoch
  BY <1>4 DEF GeometryInv, Epochs
<1> QED
  BY <1>2, <1>8, <1>9, <1>12, <1>13, <1>14, <1>16, <1>17, <1>18, PaneGeometry

-----------------------------------------------------------------------------
(* Checkpoints that the pane adopts.                                       *)

\* A pane that adopts a checkpoint has its geometry, and forgets no number that it gave.
LEMMA AdoptedParts ==
    ASSUME NEW p, PaneTypes(p), NEW call \in PaneCall
    PROVE  LET a == Adopting(p, call) IN
           /\ PaneTypes(a) /\ a.next_geometry_epoch \in Nat
           /\ a.life = p.life /\ a.lease_epoch = p.lease_epoch
           /\ a.pending_grant = p.pending_grant
           /\ a.pending_geometry = p.pending_geometry /\ a.local_geometry = p.local_geometry
           /\ a.next_geometry_epoch >= p.next_geometry_epoch
           /\ Shown(call) => /\ a.geometry_epoch = call.geometry_epoch
                             /\ a.host_geometry_epoch = call.geometry_epoch
                             /\ a.next_geometry_epoch >= call.geometry_epoch
           /\ ~Shown(call) => a = p
<1> DEFINE next == IF call.geometry_epoch > p.next_geometry_epoch
                   THEN call.geometry_epoch ELSE p.next_geometry_epoch
           a == Adopting(p, call)
<1>1. /\ p \in Pane /\ p.next_geometry_epoch \in Nat /\ call.geometry_epoch \in Nat
      /\ PaneTypes(a)
  BY AdoptingPane DEF PaneTypes, Pane, PaneCall
<1>2. /\ next \in Nat /\ next >= p.next_geometry_epoch
      /\ next >= call.geometry_epoch
  BY <1>1
<1>3. a = IF ~Shown(call) THEN p
          ELSE [p EXCEPT !.host_geometry_epoch = call.geometry_epoch,
                         !.geometry_epoch = call.geometry_epoch,
                         !.next_geometry_epoch = next]
  BY DEF Adopting
<1> HIDE DEF next, a
<1>4. /\ a.next_geometry_epoch \in Nat
      /\ a.life = p.life /\ a.lease_epoch = p.lease_epoch
      /\ a.pending_grant = p.pending_grant
      /\ a.pending_geometry = p.pending_geometry /\ a.local_geometry = p.local_geometry
  BY <1>1, <1>2, <1>3 DEF Pane
<1>5. Shown(call) => /\ a.geometry_epoch = call.geometry_epoch
                     /\ a.host_geometry_epoch = call.geometry_epoch
                     /\ a.next_geometry_epoch = next
  BY <1>1, <1>3 DEF Pane
<1>6. ~Shown(call) => a = p
  BY <1>3
<1>7. a.next_geometry_epoch >= p.next_geometry_epoch
  BY <1>1, <1>2, <1>5, <1>6
<1> QED
  BY <1>1, <1>2, <1>4, <1>5, <1>6, <1>7 DEF a

\* ... with a lease, and then may have the size of its view pending
LEMMA ReclaimedParts ==
    ASSUME NEW p, PaneTypes(p), NEW call \in PaneCall, NEW epoch \in Nat
    PROVE  LET q == Reclaiming(WithLease(p, epoch), call) IN
           /\ PaneTypes(WithLease(p, epoch)) /\ PaneTypes(q)
           /\ q.life = p.life /\ q.lease_epoch = epoch /\ q.pending_grant = 0
           /\ q.geometry_epoch = p.geometry_epoch
           /\ q.host_geometry_epoch = p.host_geometry_epoch
           /\ q.next_geometry_epoch = p.next_geometry_epoch
           /\ q.local_geometry = p.local_geometry
           /\ q.pending_geometry \in {p.pending_geometry, {p.local_geometry}}
           /\ Shown(call) /\ q.pending_geometry = {} => call.size = p.local_geometry
<1> DEFINE leased == WithLease(p, epoch)
           q == Reclaiming(leased, call)
<1>1. p \in Pane
  BY DEF PaneTypes
<1>2. /\ PaneTypes(leased) /\ leased \in Pane
      /\ leased.life = p.life /\ leased.lease_epoch = epoch /\ leased.pending_grant = 0
      /\ leased.geometry_epoch = p.geometry_epoch
      /\ leased.host_geometry_epoch = p.host_geometry_epoch
      /\ leased.next_geometry_epoch = p.next_geometry_epoch
      /\ leased.local_geometry = p.local_geometry
      /\ leased.pending_geometry = p.pending_geometry
  BY <1>1 DEF WithLease, PaneTypes, Pane
<1> HIDE DEF leased
<1>3. q = IF Shown(call) /\ call.size # leased.local_geometry /\ leased.pending_geometry = {}
          THEN [leased EXCEPT !.pending_geometry = {leased.local_geometry}]
          ELSE leased
  BY DEF Reclaiming
<1>4. PaneTypes(q)
  BY <1>2, AdoptingPane
<1> HIDE DEF q
<1>5. /\ q.life = p.life /\ q.lease_epoch = epoch /\ q.pending_grant = 0
      /\ q.geometry_epoch = p.geometry_epoch
      /\ q.host_geometry_epoch = p.host_geometry_epoch
      /\ q.next_geometry_epoch = p.next_geometry_epoch
      /\ q.local_geometry = p.local_geometry
  BY <1>2, <1>3 DEF Pane
<1>6. /\ q.pending_geometry \in {p.pending_geometry, {p.local_geometry}}
      /\ Shown(call) /\ q.pending_geometry = {} => call.size = p.local_geometry
  BY <1>2, <1>3 DEF Pane
<1> QED
  BY <1>2, <1>4, <1>5, <1>6 DEF q, leased

\* A pane that becomes q and submits has what q has, or numbers a resize of q's size.
LEMMA SubmitNumbers ==
    ASSUME IInv, GeometryInv, resized' \subseteq resized, NEW q, PaneTypes(q),
           Submit(q) \/ (/\ lane' = lane
                         /\ pane'.next_geometry_epoch = q.next_geometry_epoch
                         /\ pane'.geometry_epoch = q.geometry_epoch
                         /\ pane'.host_geometry_epoch = q.host_geometry_epoch),
           q.next_geometry_epoch >= pane.next_geometry_epoch,
           q.geometry_epoch <= q.next_geometry_epoch,
           q.host_geometry_epoch <= q.next_geometry_epoch,
           q.life = "running", pane'.life = "running"
    PROVE  Numbers' /\ InOrder' /\ pane'.host_geometry_epoch = q.host_geometry_epoch
<1>1. q.next_geometry_epoch \in Nat /\ q.host_geometry_epoch \in Nat
  BY DEF PaneTypes, Pane
<1>2. CASE Submit(q) /\ link # "down" /\ q.pending_geometry # {}
  <2>1. PICK m \in Resize :
           /\ lane' = Append(lane, m) /\ ~m.stale
           /\ m.geometry_epoch = q.next_geometry_epoch + 1
           /\ pane'.next_geometry_epoch = m.geometry_epoch
           /\ pane'.geometry_epoch = m.geometry_epoch
           /\ pane'.host_geometry_epoch = q.host_geometry_epoch
    BY <1>2, Sends
  <2>2. /\ pane'.next_geometry_epoch \in Nat
        /\ pane'.next_geometry_epoch >= pane.next_geometry_epoch
        /\ pane'.geometry_epoch <= pane'.next_geometry_epoch
        /\ pane'.host_geometry_epoch <= pane'.next_geometry_epoch
        /\ m.geometry_epoch > pane.next_geometry_epoch
        /\ m.geometry_epoch <= pane'.next_geometry_epoch
    BY <1>1, <2>1, EpochKinds
  <2> QED
    BY <2>1, <2>2, NumbersKept
<1>3. CASE ~(Submit(q) /\ link # "down" /\ q.pending_geometry # {})
  <2>1. /\ lane' = lane /\ pane'.next_geometry_epoch = q.next_geometry_epoch
        /\ pane'.geometry_epoch = q.geometry_epoch
        /\ pane'.host_geometry_epoch = q.host_geometry_epoch
    BY <1>3, Rests
  <2> QED
    BY <1>1, <2>1, NumbersKept
<1> QED
  BY <1>2, <1>3

\* The pane takes the answer to reclaim_host_lease, or to the verification of a grant.
LEMMA FinishReclaimGeometry ==
    ASSUME IInv, PaneInv, GeometryInv, NEW i \in DOMAIN calls, FinishReclaim(i) \/ FinishGrant(i)
    PROVE  GeometryInv'
<1> DEFINE a == Adopting(pane, calls[i])
           p == WithLease(a, calls[i].lease_epoch)
           q == Reclaiming(p, calls[i])
<1>1. /\ calls[i].op \in {"reclaim", "grant"} /\ calls[i].checkpoint # "sent"
      /\ calls' = RemoveAt(calls, i)
      /\ UNCHANGED <<screen, control, broadcast, inbox, attachment, link, resubscribe, resized>>
  BY DEF FinishReclaim, FinishGrant, Done, hostVars, linkVars
<1>2. /\ calls[i] \in PaneCall /\ calls[i] \in Range(calls)
      /\ calls[i].lease_epoch \in Nat
      /\ Range(calls') \subseteq Range(calls)
      /\ Range(calls) \subseteq Range(calls') \cup {calls[i]}
  BY <1>1, AnswerTaken
<1>3. pane.life = "running"
  BY <1>1, RunningAsks
<1>4. /\ PaneTypes(a) /\ a.next_geometry_epoch \in Nat
      /\ a.life = "running" /\ a.pending_geometry = pane.pending_geometry
      /\ a.local_geometry = pane.local_geometry
      /\ a.next_geometry_epoch >= pane.next_geometry_epoch
      /\ Shown(calls[i]) => /\ a.geometry_epoch = calls[i].geometry_epoch
                            /\ a.host_geometry_epoch = calls[i].geometry_epoch
                            /\ a.next_geometry_epoch >= calls[i].geometry_epoch
      /\ ~Shown(calls[i]) => a = pane
  BY <1>2, <1>3, ClientKinds, AdoptedParts
<1>5. /\ FinishReclaim(i) => IF p.lease_epoch # 0 THEN Submit(q) ELSE pane' = p /\ lane' = lane
      /\ FinishGrant(i) => IF Shown(calls[i]) THEN Submit(q) ELSE pane' = p /\ lane' = lane
  BY DEF FinishReclaim, FinishGrant
<1> HIDE DEF a
<1>6. /\ PaneTypes(p) /\ PaneTypes(q)
      /\ q.life = "running" /\ q.lease_epoch = calls[i].lease_epoch /\ q.pending_grant = 0
      /\ q.geometry_epoch = a.geometry_epoch
      /\ q.host_geometry_epoch = a.host_geometry_epoch
      /\ q.next_geometry_epoch = a.next_geometry_epoch
      /\ q.local_geometry = pane.local_geometry
      /\ q.pending_geometry \in {pane.pending_geometry, {pane.local_geometry}}
      /\ Shown(calls[i]) /\ q.pending_geometry = {} => calls[i].size = pane.local_geometry
  <2>1. PaneTypes(a) /\ calls[i] \in PaneCall /\ calls[i].lease_epoch \in Nat
    BY <1>2, <1>4
  <2>2. /\ PaneTypes(p) /\ PaneTypes(q)
        /\ q.life = a.life /\ q.lease_epoch = calls[i].lease_epoch /\ q.pending_grant = 0
        /\ q.geometry_epoch = a.geometry_epoch
        /\ q.host_geometry_epoch = a.host_geometry_epoch
        /\ q.next_geometry_epoch = a.next_geometry_epoch
        /\ q.local_geometry = a.local_geometry
        /\ q.pending_geometry \in {a.pending_geometry, {a.local_geometry}}
        /\ Shown(calls[i]) /\ q.pending_geometry = {} => calls[i].size = a.local_geometry
    BY <2>1, ReclaimedParts
  <2> HIDE DEF p, q
  <2> QED
    BY <1>4, <2>2
<1>7. /\ p.lease_epoch = calls[i].lease_epoch /\ p.pending_grant = 0 /\ p.life = "running"
      /\ p.geometry_epoch = a.geometry_epoch
      /\ p.host_geometry_epoch = a.host_geometry_epoch
      /\ p.next_geometry_epoch = a.next_geometry_epoch
      /\ p.local_geometry = pane.local_geometry
      /\ p.pending_geometry = pane.pending_geometry
  BY <1>2, <1>4 DEF WithLease, PaneTypes, Pane
<1> HIDE DEF p, q
<1>8. Submit(q) \/ (pane' = p /\ lane' = lane)
  BY <1>5
<1>9. Shown(calls[i]) /\ calls[i].lease_epoch # 0 => Submit(q)
  BY <1>5, <1>7
<1>10. /\ pane'.life = "running" /\ pane'.lease_epoch = calls[i].lease_epoch
       /\ pane'.pending_grant = 0
  <2>1. CASE Submit(q)
    BY <1>6, <2>1, SubmittedCore DEF Core, PaneTypes
  <2>2. CASE pane' = p
    BY <1>7, <2>2
  <2> QED
    BY <1>8, <2>1, <2>2
<1>11. /\ pane'.local_geometry = pane.local_geometry
       /\ pane'.pending_geometry \subseteq pane.pending_geometry \cup {pane.local_geometry}
  <2>1. CASE Submit(q) /\ link # "down" /\ q.pending_geometry # {}
    BY <1>6, <2>1, Sends
  <2>2. CASE Submit(q) /\ (link = "down" \/ q.pending_geometry = {})
    BY <1>6, <2>2, Rests
  <2>3. CASE pane' = p
    BY <1>7, <2>3
  <2> QED
    BY <1>8, <2>1, <2>2, <2>3
<1>12. /\ {"unready", "unsized", "shadowed"} \cap races \subseteq races'
       /\ control.holder = Me /\ "misjudged" \notin races' => Shown(calls[i]) /\ ~Outdated
  BY DEF FinishReclaim, FinishGrant, Judged, Crossing
<1>13. /\ a.host_geometry_epoch <= screen.geometry_epoch
       /\ a.geometry_epoch <= a.next_geometry_epoch
       /\ a.host_geometry_epoch <= a.next_geometry_epoch
  <2>1. CASE Shown(calls[i])
    <3>1. calls[i].geometry_epoch <= screen.geometry_epoch
      BY <1>2, <2>1 DEF GeometryInv, Known, Fresh
    <3> QED
      BY <1>4, <2>1, <3>1
  <2>2. CASE ~Shown(calls[i])
    BY <1>4, <2>2 DEF GeometryInv, Known, Numbers
  <2> QED
    BY <2>1, <2>2
<1>14. Numbers' /\ InOrder' /\ pane'.host_geometry_epoch = q.host_geometry_epoch
  <2>1. \/ Submit(q)
        \/ /\ lane' = lane
           /\ pane'.next_geometry_epoch = q.next_geometry_epoch
           /\ pane'.geometry_epoch = q.geometry_epoch
           /\ pane'.host_geometry_epoch = q.host_geometry_epoch
    BY <1>6, <1>7, <1>8
  <2>2. /\ q.next_geometry_epoch >= pane.next_geometry_epoch
        /\ q.geometry_epoch <= q.next_geometry_epoch
        /\ q.host_geometry_epoch <= q.next_geometry_epoch
    BY <1>4, <1>6, <1>13
  <2>3. resized' \subseteq resized
    BY <1>1
  <2> QED
    BY <1>6, <1>10, <2>1, <2>2, <2>3, SubmitNumbers
<1>15. Remembers'
  BY <1>11, <1>12 DEF GeometryInv, Remembers
<1>16. Resubscribes'
  <2>1. SUFFICES ASSUME resubscribe, "unready" \notin races', link # "down"
                 PROVE  \/ IsReady'
                        \/ \E c \in Range(calls') : c.op = "reclaim" /\ c.checkpoint = "sent"
    BY <1>1, <1>10 DEF Resubscribes
  <2>2. \/ IsReady \/ \E c \in Range(calls) : c.op = "reclaim" /\ c.checkpoint = "sent"
    BY <1>12, <2>1 DEF GeometryInv, Resubscribes
  <2> QED
    BY <1>1, <1>2, <2>2 DEF IsReady
<1>17. Awaits'
  BY <1>10 DEF Awaits
<1>18. Matches'
  <2>1. SUFFICES ASSUME Holds' PROVE Matches'
    BY DEF Matches, Settled
  <2>2. /\ control.holder = Me /\ "misjudged" \notin races' /\ calls[i].lease_epoch # 0
        /\ link # "down"
    BY <1>1, <1>10, <2>1 DEF Holds, Due
  <2>3. Shown(calls[i]) /\ ~Outdated /\ Submit(q)
    BY <1>9, <1>12, <2>2
  <2>4. /\ calls[i].geometry_epoch \in Nat
        /\ calls[i].geometry_epoch <= screen.geometry_epoch
        /\ calls[i].geometry_epoch = screen.geometry_epoch => calls[i].size = screen.size
    BY <1>2, <2>3 DEF PaneCall, GeometryInv, Known, Fresh
  <2>5. /\ q.geometry_epoch = calls[i].geometry_epoch
        /\ q.host_geometry_epoch = calls[i].geometry_epoch
        /\ q.next_geometry_epoch >= calls[i].geometry_epoch
        /\ q.next_geometry_epoch \in Nat
    BY <1>4, <1>6, <2>3
  <2>6. CASE q.pending_geometry = {}
    <3>1. lane' = lane /\ pane'.geometry_epoch = calls[i].geometry_epoch
          /\ pane'.host_geometry_epoch = calls[i].geometry_epoch
      BY <1>6, <2>3, <2>5, <2>6, Rests
    <3>2. /\ ~(screen.geometry_epoch > pane'.geometry_epoch)
          /\ \A s \in Range(lane) : ~(s.geometry_epoch > pane'.geometry_epoch)
      BY <2>3, <3>1 DEF Outdated
    <3>3. pane'.geometry_epoch = screen.geometry_epoch
      BY <2>4, <3>1, <3>2, EpochKinds
    <3>4. \A s \in Range(lane) : s.geometry_epoch \in Nat
      <4>1. Range(lane) \subseteq Resize
        BY ClientKinds, RangeOfSeq
      <4>2. \A s \in Resize : s.geometry_epoch \in Nat
        BY DEF Resize
      <4> QED
        BY <4>1, <4>2
    <3>5. \A s \in Range(lane) : s.geometry_epoch <= screen.geometry_epoch
      BY <3>2, <3>3, <3>4, EpochKinds
    <3>6. There'
      BY <1>1, <3>1, <3>3, <3>5 DEF There
    <3>7. screen'.size = pane'.local_geometry
      BY <1>1, <1>6, <1>11, <2>3, <2>4, <2>6, <3>1, <3>3
    <3> QED
      BY <3>6, <3>7 DEF Matches, Sized
  <2>7. CASE q.pending_geometry # {}
    <3>1. PICK m \in Resize :
             /\ lane' = Append(lane, m)
             /\ m.lease_epoch = q.lease_epoch /\ ~m.stale
             /\ m.bound <=> q.life = "running"
             /\ m.geometry_epoch = q.next_geometry_epoch + 1
             /\ q.pending_geometry = {m.size}
             /\ pane'.geometry_epoch = m.geometry_epoch
      BY <1>6, <2>2, <2>3, <2>7, Sends
    <3>2. lane' # lane
      <4>1. Len(lane') = Len(lane) + 1 /\ Len(lane) \in Nat
        BY <3>1, ClientKinds, AppendProperties, LenProperties
      <4> QED
        BY <4>1
    <3>3. ~(screen.geometry_epoch > m.geometry_epoch) /\ screen.geometry_epoch # m.geometry_epoch
      BY <2>3, <3>1, <3>2 DEF Outdated
    <3>4. m.geometry_epoch > screen.geometry_epoch
      <4>1. m.geometry_epoch \in Nat
        BY DEF Resize
      <4> QED
        BY <3>3, <4>1, EpochKinds
    <3>5. m.bound /\ m.lease_epoch = pane'.lease_epoch
      BY <1>6, <1>10, <3>1
    <3>6. Ahead' /\ lane'[Len(lane')] = m
      BY <1>1, <3>1, <3>4, <3>5, NowAhead
    <3>7. "shadowed" \notin races' => m.size = pane'.local_geometry
      <4>1. SUFFICES ASSUME "shadowed" \notin races' PROVE m.size = pane.local_geometry
        BY <1>11
      <4>2. pane.pending_geometry \subseteq {pane.local_geometry}
        BY <1>12, <4>1 DEF GeometryInv, Remembers
      <4>3. m.size \in q.pending_geometry
        BY <3>1
      <4> QED
        BY <1>6, <4>2, <4>3
    <3> QED
      BY <3>6, <3>7 DEF Matches, Sized
  <2> QED
    BY <2>6, <2>7
<1>19. /\ pane'.host_geometry_epoch <= screen.geometry_epoch
       /\ pane'.lease_epoch < control.next_lease_epoch
       /\ pane'.pending_grant < control.next_lease_epoch
  BY <1>2, <1>6, <1>10, <1>13, <1>14, EpochKinds DEF GeometryInv, Epochs
<1>20. /\ resized' \subseteq resized /\ ("unsized" \in races => "unsized" \in races')
  BY <1>1, <1>12
<1> QED
  BY <1>1, <1>2, <1>14, <1>15, <1>16, <1>17, <1>18, <1>19, <1>20, PaneGeometry

-----------------------------------------------------------------------------
(* Panes that come and go.                                                 *)

\* A pane asks to attach: of the ones before it, nothing is left that is bound.
LEMMA AttachGeometry ==
    ASSUME IInv, PaneInv, GeometryInv, Attach
    PROVE  GeometryInv'
<1>1. PICK listed \in 1 .. screen.geometry_epoch :
         /\ pane' = [NoPane EXCEPT !.life = "attaching", !.geometry_epoch = listed + 1,
                                   !.next_geometry_epoch = listed + 1,
                                   !.host_geometry_epoch = listed]
         /\ calls' = Append(calls, [Call("attach", "unasked", "sent") EXCEPT
                                       !.geometry_epoch = listed + 1])
  BY DEF Attach
<1>2. listed \in Nat /\ listed + 1 \in Nat /\ listed <= screen.geometry_epoch
  BY ClientKinds
<1>3. /\ pane'.life = "attaching" /\ pane'.lease_epoch = 0 /\ pane'.pending_grant = 0
      /\ pane'.geometry_epoch = listed + 1 /\ pane'.next_geometry_epoch = listed + 1
      /\ pane'.host_geometry_epoch = listed /\ pane'.pending_geometry = {}
      /\ pane'.local_geometry = DefaultSize
  BY <1>1 DEF NoPane
<1> DEFINE epoch == listed + 1
           asked == Call("attach", "unasked", "sent")
           call == [asked EXCEPT !.geometry_epoch = epoch]
<1>4. calls' = Append(calls, call) /\ epoch \in Nat
  BY <1>1, <1>2
<1> HIDE DEF epoch
<1>5. /\ asked \in PaneCall /\ asked.op = "attach" /\ asked.lease = "sent"
      /\ asked.checkpoint = "unasked" /\ asked.size = DefaultSize /\ asked.lease_epoch = 0
  BY NewCalls DEF Part, Call
<1> HIDE DEF asked
<1>6. /\ call \in PaneCall /\ call.op = "attach" /\ call.lease = "sent"
      /\ call.checkpoint = "unasked" /\ call.size = DefaultSize /\ call.lease_epoch = 0
  BY <1>4, <1>5 DEF PaneCall
<1> HIDE DEF call
<1>7. /\ pane.life = "lost" /\ calls = <<>>
      /\ UNCHANGED <<screen, control, attachment, link, resubscribe, broadcast, lane, inbox>>
      /\ UNCHANGED <<resized, races>>
  BY DEF Attach, PaneInv, Asking, hostVars, linkVars, historyVars
<1>8. PICK asking \in PaneCall :
         /\ Range(calls') = {asking} /\ asking.op = "attach" /\ asking.lease = "sent"
         /\ asking.checkpoint = "unasked" /\ asking.size = DefaultSize
         /\ asking.lease_epoch = 0
  <2>1. Range(calls') = Range(calls) \cup {call}
    BY <1>4, <1>6, ClientKinds, InAppend
  <2>2. Range(<<>>) = {}
    BY DEF Range
  <2> QED
    BY <1>6, <1>7, <2>1, <2>2
<1>9. Known'
  <2>1. resized' = {}
    BY <1>7 DEF GeometryInv, Numbers
  <2> QED
    BY <1>2, <1>3, <1>7, <1>8, <2>1 DEF Known, Fresh, Shown
<1>10. Numbers' /\ InOrder'
  <2>1. resized' = {} /\ \A s \in Range(lane) : s.stale /\ ~s.bound
    BY <1>7 DEF GeometryInv, Numbers, Issued
  <2> QED
    BY <1>2, <1>3, <1>7, <2>1 DEF Numbers, Issued, InOrder, GeometryInv
<1>11. Epochs'
  BY <1>3, <1>7, <1>8, EpochKinds DEF GeometryInv, Epochs
<1>12. Attaching'
  BY <1>8 DEF Attaching, Attaches
<1>13. ~resubscribe'
  <2>1. Range(calls) = {}
    BY <1>7 DEF Range
  <2> QED
    BY <1>7, <2>1 DEF GeometryInv, Resubscribes
<1>14. Resubscribes' /\ Remembers' /\ Awaits' /\ Matches'
  BY <1>3, <1>13 DEF Resubscribes, Remembers, Awaits, Matches, Settled, Holds
<1> QED
  BY <1>9, <1>10, <1>11, <1>12, <1>14 DEF GeometryInv

\* Of what the connection had, answers are left that had arrived, and others fail.
LEMMA DisconnectGeometry ==
    ASSUME IInv, GeometryInv, Disconnect
    PROVE  GeometryInv'
<1>1. /\ link' = "down" /\ control' = [control EXCEPT !.present = FALSE]
      /\ broadcast' = <<>> /\ lane' = <<>> /\ resubscribe' = FALSE
      /\ UNCHANGED <<screen, pane, races>> /\ resized' \subseteq resized
  BY DEF Disconnect, historyVars
<1>2. Due(control)' = Due(control) /\ control'.next_lease_epoch = control.next_lease_epoch
  BY <1>1, LinkKinds DEF Control, Due
<1>3. Range(inbox') \subseteq Range(inbox) /\ Range(broadcast') = {} /\ Range(lane') = {}
  <2>1. PICK n \in 0 .. Len(inbox) : inbox' = SubSeq(inbox, 1, n)
    BY DEF Disconnect
  <2>2. n \in Nat /\ n <= Len(inbox) /\ 1 \in Nat \ {0}
    BY <2>1, ClientKinds, LenProperties
  <2>3. Range(inbox') \subseteq Range(inbox)
    BY <2>1, <2>2, ClientKinds, InSubSeq
  <2>4. Range(broadcast') = {} /\ Range(lane') = {}
    BY <1>1 DEF Range
  <2> QED
    BY <2>3, <2>4
<1>4. PICK lost \in SUBSET DOMAIN calls :
         LET Fails(i, part) == part = "sent" \/ (part = "answered" /\ i \in lost)
         IN  calls' = [i \in DOMAIN calls |->
               [calls[i] EXCEPT
                  !.checkpoint = IF Fails(i, @) THEN "failed" ELSE @,
                  !.lease = IF Fails(i, @) THEN "failed" ELSE @,
                  !.lease_epoch = IF Fails(i, calls[i].lease) THEN 0 ELSE @,
                  !.at = IF Fails(i, calls[i].lease) THEN control.turn ELSE @]]
  BY DEF Disconnect
<1> DEFINE Fails(i, part) == part = "sent" \/ (part = "answered" /\ i \in lost)
           call(i) == [calls[i] EXCEPT
                         !.checkpoint = IF Fails(i, @) THEN "failed" ELSE @,
                         !.lease = IF Fails(i, @) THEN "failed" ELSE @,
                         !.lease_epoch = IF Fails(i, calls[i].lease) THEN 0 ELSE @,
                         !.at = IF Fails(i, calls[i].lease) THEN control.turn ELSE @]
<1>5. calls' = [i \in DOMAIN calls |-> call(i)]
  BY <1>4
<1>6. ASSUME NEW i \in DOMAIN calls
      PROVE  /\ call(i).op = calls[i].op /\ call(i).size = calls[i].size
             /\ call(i).geometry_epoch = calls[i].geometry_epoch
             /\ call(i).lease_epoch \in {0, calls[i].lease_epoch}
             /\ call(i).checkpoint # "sent" /\ call(i).lease # "sent"
             /\ call(i).checkpoint = "answered" => calls[i].checkpoint = "answered"
             /\ call(i).lease = "answered" =>
                   /\ calls[i].lease = "answered"
                   /\ call(i).lease_epoch = calls[i].lease_epoch
                   /\ calls[i].checkpoint = "answered" => call(i).checkpoint = "answered"
  <2>1. calls[i] \in PaneCall
    BY CallParts
  <2>2. Fails(i, "sent") /\ (Fails(i, "answered") <=> i \in lost) /\ ~Fails(i, "failed")
    OBVIOUS
  <2> HIDE DEF Fails
  <2> QED
    BY <2>1, <2>2 DEF PaneCall
<1> HIDE DEF call
<1>7. /\ Range(calls') = {call(i) : i \in DOMAIN calls}
      /\ \A i \in DOMAIN calls : calls[i] \in Range(calls)
  BY <1>5 DEF Range
<1>8. ASSUME NEW c \in Range(calls')
      PROVE  Fresh(c)' /\ Attaches(c)' /\ c.lease_epoch < control'.next_lease_epoch
  <2>1. PICK i \in DOMAIN calls : c = call(i)
    BY <1>7
  <2>2. /\ Fresh(calls[i]) /\ Attaches(calls[i])
        /\ calls[i].lease_epoch < control.next_lease_epoch
    BY <1>7 DEF GeometryInv, Known, Attaching, Epochs
  <2>3. /\ c.op = calls[i].op /\ c.size = calls[i].size
        /\ c.geometry_epoch = calls[i].geometry_epoch
        /\ c.lease_epoch \in {0, calls[i].lease_epoch}
        /\ c.checkpoint # "sent" /\ c.lease # "sent"
        /\ c.checkpoint = "answered" => calls[i].checkpoint = "answered"
        /\ c.lease = "answered" =>
              /\ calls[i].lease = "answered"
              /\ c.lease_epoch = calls[i].lease_epoch
              /\ calls[i].checkpoint = "answered" => c.checkpoint = "answered"
    BY <1>6, <2>1
  <2>4. Fresh(c)'
    BY <1>1, <2>2, <2>3 DEF Fresh, Shown
  <2>5. Attaches(c)'
    BY <1>1, <1>2, <2>2, <2>3 DEF Attaches, Shown
  <2> QED
    BY <1>2, <2>2, <2>3, <2>4, <2>5, EpochKinds
<1>9. Known' /\ Epochs' /\ Attaching'
  BY <1>1, <1>2, <1>3, <1>8 DEF GeometryInv, Known, Epochs, Attaching
<1>10. Numbers'
  BY <1>1, <1>3 DEF GeometryInv, Numbers
<1>11. InOrder'
  <2>1. 1 .. Len(lane') = {}
    BY <1>1
  <2> QED
    BY <2>1 DEF InOrder
<1>12. Resubscribes' /\ Remembers' /\ Awaits' /\ Matches'
  BY <1>1 DEF GeometryInv, Resubscribes, Remembers, Awaits, Matches, Settled, Holds
<1> QED
  BY <1>9, <1>10, <1>11, <1>12 DEF GeometryInv

\* A pane that could not attach is lost, and all it sent is stale.
LEMMA AttachFailedGeometry ==
    ASSUME IInv, PaneInv, GeometryInv, NEW i \in DOMAIN calls, FinishAttach(i),
           calls[i].lease # "answered"
    PROVE  GeometryInv'
<1>1. /\ calls[i].op = "attach" /\ pane' = NoPane /\ resized' = {}
      /\ calls' = [k \in 1 .. Len(calls) - 1 |-> [RemoveAt(calls, i)[k] EXCEPT !.stale = TRUE]]
      /\ lane' = [k \in DOMAIN lane |-> [lane[k] EXCEPT !.stale = TRUE]]
      /\ UNCHANGED <<screen, control, attachment, link, resubscribe, broadcast, inbox, races>>
  BY DEF FinishAttach, hostVars, linkVars, historyVars
<1>2. pane.life = "attaching" /\ Len(calls) = 1
  BY <1>1, CallIn DEF PaneInv, Asking, Fits
<1>3. Range(calls) = {calls[i]}
  <2>1. DOMAIN calls = 1 .. Len(calls)
    BY ClientKinds, LenProperties
  <2>2. DOMAIN calls = {i}
    BY <1>2, <2>1
  <2> QED
    BY <2>2 DEF Range
<1>4. Range(calls') = {}
  <2>1. DOMAIN calls' = {}
    BY <1>1, <1>2
  <2> QED
    BY <2>1 DEF Range
<1>5. /\ pane'.life = "lost" /\ pane'.lease_epoch = 0 /\ pane'.pending_grant = 0
      /\ pane'.geometry_epoch = 0 /\ pane'.next_geometry_epoch = 0
      /\ pane'.host_geometry_epoch = 0 /\ pane'.pending_geometry = {}
  BY <1>1 DEF NoPane
<1>6. lane \in Seq(Resize) /\ DOMAIN lane = 1 .. Len(lane) /\ Len(lane) \in Nat
  BY ClientKinds, LenProperties
<1>7. \A k \in 1 .. Len(lane) : lane'[k].stale /\ ~lane'[k].bound
  <2>1. SUFFICES ASSUME NEW k \in 1 .. Len(lane) PROVE lane'[k].stale /\ ~lane'[k].bound
    OBVIOUS
  <2>2. lane[k] \in Resize /\ lane[k] \in Range(lane)
    BY <1>6, ElementOfSeq, RangeEquality
  <2>3. ~lane[k].bound
    BY <1>2, <2>2 DEF GeometryInv, Numbers, Issued
  <2>4. lane'[k] = [lane[k] EXCEPT !.stale = TRUE]
    BY <1>1, <1>6
  <2> QED
    BY <2>2, <2>3, <2>4 DEF Resize
<1>8. lane' \in Seq(Resize)
  BY FinishAttachKeeps, ClientKinds DEF IInv, Types, ClientTypes
<1>9. Len(lane') = Len(lane)
  <2>1. DOMAIN lane' = 1 .. Len(lane)
    BY <1>1, <1>6
  <2>2. lane' \in [1 .. Len(lane) -> Resize]
    BY <1>8, <2>1, LenProperties
  <2> QED
    BY <1>6, <2>2, Numbered
<1>10. \A s \in Range(lane') : s.stale /\ ~s.bound
  <2>1. Range(lane') = {lane'[k] : k \in 1 .. Len(lane')}
    BY <1>8, RangeEquality
  <2> QED
    BY <1>7, <1>9, <2>1
<1>11. Known' /\ Numbers' /\ InOrder'
  BY <1>1, <1>4, <1>5, <1>7, <1>9, <1>10, EpochKinds DEF Known, Numbers, Issued, InOrder
<1>12. Epochs' /\ Attaching'
  BY <1>1, <1>4, <1>5, EpochKinds DEF GeometryInv, Epochs, Attaching
<1>13. ~resubscribe'
  BY <1>1, <1>2, <1>3 DEF GeometryInv, Resubscribes
<1>14. Resubscribes' /\ Remembers' /\ Awaits' /\ Matches'
  BY <1>5, <1>13 DEF Resubscribes, Remembers, Awaits, Matches, Settled, Holds
<1> QED
  BY <1>11, <1>12, <1>14 DEF GeometryInv

\* A pane runs with the geometry it attached with, and sends what its view became meanwhile.
LEMMA AttachedGeometry ==
    ASSUME IInv, PaneInv, GeometryInv, NEW i \in DOMAIN calls, FinishAttach(i),
           calls[i].lease = "answered"
    PROVE  GeometryInv'
<1> DEFINE p == [pane EXCEPT !.life = "running", !.lease_epoch = calls[i].lease_epoch]
           q == Adopting(p, calls[i])
<1>1. /\ calls[i].op = "attach" /\ calls' = RemoveAt(calls, i) /\ resized' = resized
      /\ Submit(q) /\ races' = Crossing(calls[i].at)
      /\ UNCHANGED <<screen, control, attachment, link, resubscribe, broadcast, inbox>>
  BY DEF FinishAttach, Hears, hostVars, linkVars
<1>2. /\ calls[i] \in PaneCall /\ calls[i] \in Range(calls) /\ Fits(calls[i])
      /\ calls[i].lease_epoch \in Nat /\ calls[i].geometry_epoch \in Nat
      /\ Range(calls') \subseteq Range(calls)
  BY <1>1, AnswerTaken, CallParts
<1>3. pane.life = "attaching" /\ pane.pending_grant = 0 /\ \A c \in Range(calls) : c.op = "attach"
  BY <1>1, <1>2, ClientKinds DEF PaneInv, Asking, Fits, Pane
<1>4. Shown(calls[i]) /\ Attaches(calls[i]) /\ Fresh(calls[i])
  BY <1>1, <1>2 DEF GeometryInv, Attaching, Attaches, Known
<1>5. /\ PaneTypes(p) /\ p.life = "running" /\ p.lease_epoch = calls[i].lease_epoch
      /\ p.pending_grant = 0 /\ p.next_geometry_epoch = pane.next_geometry_epoch
      /\ p.pending_geometry = pane.pending_geometry
      /\ p.local_geometry = pane.local_geometry
  BY <1>2, <1>3, ClientKinds DEF PaneTypes, Pane
<1> HIDE DEF p
<1>6. /\ PaneTypes(q) /\ q \in Pane /\ q.next_geometry_epoch \in Nat
      /\ q.life = "running" /\ q.lease_epoch = calls[i].lease_epoch
      /\ q.pending_grant = 0
      /\ q.pending_geometry = pane.pending_geometry
      /\ q.local_geometry = pane.local_geometry
      /\ q.next_geometry_epoch >= pane.next_geometry_epoch
      /\ q.geometry_epoch = calls[i].geometry_epoch
      /\ q.host_geometry_epoch = calls[i].geometry_epoch
      /\ q.next_geometry_epoch >= calls[i].geometry_epoch
  BY <1>2, <1>4, <1>5, AdoptedParts DEF PaneTypes
<1> HIDE DEF q
<1>7. /\ pane'.life = "running" /\ pane'.lease_epoch = calls[i].lease_epoch
      /\ pane'.pending_grant = 0
  BY <1>1, <1>6, SubmittedCore DEF Core
<1>8. /\ pane'.local_geometry = pane.local_geometry
      /\ pane'.pending_geometry \subseteq pane.pending_geometry
  <2>1. CASE link # "down" /\ q.pending_geometry # {}
    BY <1>1, <1>6, <2>1, Sends
  <2>2. CASE link = "down" \/ q.pending_geometry = {}
    BY <1>1, <1>6, <2>2, Rests
  <2> QED
    BY <2>1, <2>2
<1>9. /\ "shadowed" \in races <=> "shadowed" \in races'
      /\ "unsized" \in races <=> "unsized" \in races'
      /\ "unready" \in races <=> "unready" \in races'
  BY <1>1 DEF Crossing
<1>10. Numbers' /\ InOrder' /\ pane'.host_geometry_epoch = calls[i].geometry_epoch
  <2>1. resized' \subseteq resized
    BY <1>1
  <2> QED
    BY <1>1, <1>2, <1>6, <1>7, <2>1, SubmitNumbers
<1>11. Remembers'
  BY <1>8, <1>9 DEF GeometryInv, Remembers
<1>12. Resubscribes'
  <2>1. SUFFICES ASSUME resubscribe, "unready" \notin races', link # "down" PROVE IsReady'
    BY <1>1, <1>7 DEF Resubscribes
  <2> QED
    BY <1>1, <1>3, <1>9, <2>1 DEF GeometryInv, Resubscribes, IsReady
<1>13. Awaits'
  BY <1>7 DEF Awaits
<1>14. Matches'
  <2>1. SUFFICES ASSUME Settled' PROVE Matches'
    BY DEF Matches
  <2>2. /\ link # "down" /\ "unready" \notin races /\ ~IsReady
        /\ calls[i].lease_epoch # 0 /\ calls[i].lease_epoch = Due(control)
    BY <1>1, <1>7, <1>9, <2>1 DEF Settled, Holds, Unraced, Due, IsReady, Fixing
  <2>3. /\ calls[i].geometry_epoch = screen.geometry_epoch
        /\ calls[i].size = screen.size
        /\ "unsized" \notin races => screen.size = DefaultSize
    BY <1>1, <1>4, <2>2 DEF Attaches, Fresh
  <2>4. CASE q.pending_geometry = {}
    <3>1. lane' = lane /\ pane'.geometry_epoch = screen.geometry_epoch
          /\ pane'.host_geometry_epoch = screen.geometry_epoch
      BY <1>1, <1>6, <2>3, <2>4, Rests
    <3>2. \A s \in Range(lane) : ~s.bound
      BY <1>3 DEF GeometryInv, Numbers, Issued
    <3>3. There'
      BY <1>1, <3>1, <3>2 DEF There
    <3>4. races' \cap {"unsized", "shadowed"} = {} => screen.size = pane.local_geometry \/ Owed
      <4>1. pane.pending_geometry # {pane.local_geometry}
        BY <1>6, <2>4
      <4> QED
        BY <1>3, <1>9, <2>2, <2>3, <4>1 DEF GeometryInv, Awaits
    <3>5. Owed => Owed'
      BY <1>1, <1>8, <3>1 DEF Owed
    <3> QED
      BY <1>1, <1>8, <3>3, <3>4, <3>5 DEF Matches, Sized
  <2>5. CASE q.pending_geometry # {}
    <3>1. PICK m \in Resize :
             /\ lane' = Append(lane, m)
             /\ m.lease_epoch = q.lease_epoch /\ ~m.stale
             /\ m.bound <=> q.life = "running"
             /\ m.geometry_epoch = q.next_geometry_epoch + 1
             /\ q.pending_geometry = {m.size}
             /\ pane'.geometry_epoch = m.geometry_epoch
      BY <1>1, <1>6, <2>2, <2>5, Sends
    <3>2. m.geometry_epoch > screen.geometry_epoch
      BY <1>2, <1>6, <2>3, <3>1, EpochKinds
    <3>3. m.bound /\ m.lease_epoch = pane'.lease_epoch
      BY <1>6, <1>7, <3>1
    <3>4. Ahead' /\ lane'[Len(lane')] = m
      BY <1>1, <3>1, <3>2, <3>3, NowAhead
    <3>5. "shadowed" \notin races' => m.size = pane'.local_geometry
      BY <1>6, <1>8, <1>9, <3>1 DEF GeometryInv, Remembers
    <3> QED
      BY <3>4, <3>5 DEF Matches, Sized
  <2> QED
    BY <2>4, <2>5
<1>15. /\ pane'.host_geometry_epoch <= screen.geometry_epoch
       /\ pane'.lease_epoch < control.next_lease_epoch
       /\ pane'.pending_grant < control.next_lease_epoch
       /\ "unsized" \in races => "unsized" \in races'
       /\ resized' \subseteq resized
  BY <1>1, <1>2, <1>4, <1>7, <1>9, <1>10, EpochKinds DEF GeometryInv, Epochs, Fresh
<1> QED
  BY <1>1, <1>2, <1>10, <1>11, <1>12, <1>13, <1>14, <1>15, PaneGeometry

-----------------------------------------------------------------------------
(* A pane at rest has the terminal's geometry.                             *)

\* Nothing happened yet, and there is no pane.
LEMMA GeometryInit == Init => GeometryInv
<1> SUFFICES ASSUME Init PROVE GeometryInv
  OBVIOUS
<1>1. /\ control.next_lease_epoch = 1 /\ screen.geometry_epoch = 1
      /\ broadcast = <<>> /\ inbox = <<>> /\ calls = <<>> /\ lane = <<>> /\ resized = {}
      /\ ~resubscribe /\ pane = NoPane
  BY DEF Init
<1>2. /\ Range(broadcast) = {} /\ Range(inbox) = {} /\ Range(calls) = {} /\ Range(lane) = {}
      /\ 1 .. Len(lane) = {}
  BY <1>1 DEF Range
<1>3. /\ pane.life = "lost" /\ pane.lease_epoch = 0 /\ pane.pending_grant = 0
      /\ pane.geometry_epoch = 0 /\ pane.next_geometry_epoch = 0
      /\ pane.host_geometry_epoch = 0 /\ pane.pending_geometry = {}
  BY <1>1 DEF NoPane
<1>4. Known /\ Numbers /\ InOrder /\ Epochs /\ Attaching
  BY <1>1, <1>2, <1>3 DEF Known, Numbers, InOrder, Epochs, Attaching
<1>5. Resubscribes /\ Remembers /\ Awaits /\ Matches
  BY <1>1, <1>3 DEF Resubscribes, Remembers, Awaits, Matches, Settled, Holds
<1> QED
  BY <1>4, <1>5 DEF GeometryInv

\* A step that changes nothing
LEMMA GeometryStutter == IInv /\ GeometryInv /\ UNCHANGED vars => GeometryInv'
<1> SUFFICES ASSUME IInv, GeometryInv, UNCHANGED vars PROVE GeometryInv'
  OBVIOUS
<1>1. /\ UNCHANGED <<screen, lane, resized, pane, inbox, attachment, broadcast, resubscribe>>
      /\ UNCHANGED <<control, calls, races, link>>
  BY DEF vars, hostVars, linkVars, clientVars, historyVars
<1> QED
  BY <1>1, AsideGeometry

\* Every step keeps the invariant.
LEMMA GeometryStepOK == IInv /\ PaneInv /\ GeometryInv /\ Next => GeometryInv'
<1> SUFFICES ASSUME IInv, PaneInv, GeometryInv, Next PROVE GeometryInv'
  OBVIOUS
<1>1. IInv'
  BY StepOK
<1>2. CASE HostStep
  BY <1>2, RivalTakesGeometry, RivalResizesGeometry, LeaveGeometry, YieldLeasesGeometry,
     HandOverGeometry DEF HostStep
<1>3. CASE ConnectionStep
  BY <1>1, <1>3, HandleResubscribeGeometry, HandleResizeGeometry, SubscribeGeometry,
     ForwardEventGeometry, ResyncLeasesGeometry, LoseEventsGeometry, DisconnectGeometry,
     ReconnectGeometry, HandleCheckpointGeometry, HandleAcquireGeometry, HandleAttachGeometry,
     HandleTakeGeometry DEF ConnectionStep
<1>4. CASE PaneStep
  <2>1. ASSUME NEW i \in DOMAIN calls, FinishAttach(i) PROVE GeometryInv'
    BY <2>1, AttachFailedGeometry, AttachedGeometry
  <2> QED
    BY <1>4, <2>1, AttachGeometry, HearGrantGeometry, HearRevocationGeometry, HearReadyGeometry,
       LosePaneEventsGeometry, ResizeViewGeometry, HearResizedGeometry, TakeControlGeometry,
       FinishReclaimGeometry, DiscardGeometry DEF PaneStep
<1> QED
  BY <1>2, <1>3, <1>4 DEF Next

\* The invariant of the geometry holds in every state that can be reached.
THEOREM GeometryInductive == Spec => []GeometryInv
<1>1. IInv /\ PaneInv /\ GeometryInv /\ [Next]_vars => GeometryInv'
  BY GeometryStepOK, GeometryStutter
<1> QED
  BY <1>1, GeometryInit, Inductive, PaneInductive, PTL DEF Spec

\* When nothing is under way and no race was lost, the pane has the lease that its Client has,
\* the Host takes what is typed into it (validate_terminal_mutation), and the terminal has the
\* size of the view, or the pane kept that size (submit_pending_resize): however answers,
\* events, resizes and their rejections crossed, failed with a connection or were overwritten.
THEOREM QuietPaneAgreesAlways == Spec => []QuietPaneAgrees
<1>1. IInv /\ PaneInv /\ GeometryInv /\ QuietPaneHoldsLease => QuietPaneAgrees
  <2> SUFFICES ASSUME IInv, PaneInv, GeometryInv, QuietPaneHoldsLease, Quiet,
                      races \cap {"unheard", "silent", "untold", "unready", "crossed"} = {},
                      pane.lease_epoch # 0
               PROVE  /\ "misjudged" \notin races => AcceptsInput(pane)
                      /\ races = {} => \/ screen.size = pane.local_geometry
                                       \/ pane.pending_geometry = {pane.local_geometry}
    BY DEF QuietPaneAgrees
  <2>1. control.holder = Me /\ Accepts(pane.lease_epoch)
    BY DEF QuietPaneHoldsLease
  <2>2. SUFFICES ASSUME "misjudged" \notin races
                 PROVE  /\ AcceptsInput(pane)
                        /\ races = {} => \/ screen.size = pane.local_geometry
                                         \/ pane.pending_geometry = {pane.local_geometry}
    OBVIOUS
  <2>3. /\ link = "subscribed" /\ broadcast = <<>> /\ lane = <<>> /\ inbox = <<>> /\ calls = <<>>
        /\ resized = {} /\ ~resubscribe /\ pane.life = "running"
    BY DEF Quiet
  <2>4. Range(broadcast) = {} /\ Range(inbox) = {} /\ Range(calls) = {} /\ Range(lane) = {}
    BY <2>3 DEF Range
  <2>5. Unraced /\ Spared /\ "untold" \notin races
    BY DEF Unraced, Spared
  <2>6. attachment.attached
    BY <2>1 DEF Accepts
  <2>7. Agrees
    BY <2>3, <2>5, <2>6 DEF IInv, Follows, Told
  <2>8. pane.lease_epoch = Due(control)
    BY <2>1, <2>5, <2>7 DEF Accepts, Agrees, Due
  <2>9. Settled
    BY <2>2, <2>3, <2>4, <2>5, <2>8 DEF Settled, Holds, Fixing
  <2>10. ~Ahead /\ ~Owed
    BY <2>3, <2>4 DEF Ahead, Owed
  <2>11. There /\ (races = {} => Sized)
    BY <2>9, <2>10 DEF GeometryInv, Matches
  <2> QED
    BY <2>1, <2>10, <2>11 DEF There, Sized, AcceptsInput
<1> QED
  BY <1>1, Inductive, PaneInductive, GeometryInductive, QuietPaneHoldsLeaseAlways, PTL

=============================================================================
