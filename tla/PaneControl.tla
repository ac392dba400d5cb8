------------------------------ MODULE PaneControl ------------------------------
(***************************************************************************)
(* How one Client learns whether it may write to a terminal.               *)
(*                                                                         *)
(* The Host decides (HostRuntime, crates/yttt-host/src/runtime.rs; see     *)
(* TerminalControl).  What it decided reaches the Client on two ways: in   *)
(* the answers to its requests, and in events that the connection's        *)
(* forwarder reads from a broadcast (forward_state_events, lib.rs).  Both  *)
(* also change the attachment, which the Host checks the Client's input    *)
(* against; and the pane of the Desktop (src/ui/terminal/pane.rs) applies  *)
(* both to its mutation context, answers and events each in tasks of their *)
(* own.  Nobody compares epochs: the last one applied wins.                *)
(*                                                                         *)
(* One terminal and the pane of one Client, Me; of the other Clients,      *)
(* Rival, only what they make the Host do.  Handlers of requests run under *)
(* the lock of the attachments and are one step.  A connection ends for    *)
(* both sides at once.  Input changes nothing here: what counts is whether *)
(* the Host accepts it.  Left out: Observers' epochs, client sequences,    *)
(* request timeouts, the end of the terminal and of the pane.              *)
(***************************************************************************)
EXTENDS Integers, SequencesExt

CONSTANTS Me, Rival, Nobody,
          Sizes,            \* sizes of a screen
          DefaultSize,      \* the size of terminal_config
          MaxCalls,         \* bounds of the model: requests of the pane under way,
          Budgets           \* and, together, how much of what happens

ASSUME PaneAssumption ==
    /\ Me # Rival /\ Nobody \notin {Me, Rival}
    /\ DefaultSize \in Sizes
    /\ MaxCalls \in Nat
    /\ Budgets \subseteq [turns : Nat, resizes : Nat, drops : Nat, lags : Nat]

VARIABLES control,          \* ControlState: the controller, the terminal's lease, whether
                            \* Me asked to write before and is present; turn is history:
                            \* how often the lease or Me's connection changed
          leaving,          \* where release_client is for each Client
          screen,           \* the terminal's size and geometry epoch
          attachment,       \* Me's TerminalAttachment
          link,             \* Me's connection: down, serving, and subscribed to events
          resubscribe,      \* the Client core asks for the stream of the terminal again
          broadcast,        \* control events the forwarder has not read
          lane,             \* resizes the interactive worker has not read
          inbox,            \* events on their way to the pane
          calls,            \* the pane's requests, oldest first
          resized,          \* answers to resizes
          pane,
          left,             \* what is left of the budget
          seen,             \* history: the latest turn the pane heard of
          races             \* history: races that may leave the pane wrong

hostVars == <<control, leaving, screen>>
linkVars == <<attachment, link, resubscribe, broadcast>>
clientVars == <<inbox, calls, resized, pane>>
historyVars == <<seen, races>>
vars == <<hostVars, linkVars, lane, clientVars, left, historyVars>>

-----------------------------------------------------------------------------
Clients == {Me, Rival}

Detached == [attached |-> FALSE, mode |-> "observer", lease_epoch |-> 0]
Attached(lease_epoch) ==        \* 0: as an Observer
    [attached |-> TRUE, mode |-> IF lease_epoch = 0 THEN "observer" ELSE "interactive",
     lease_epoch |-> lease_epoch]

Event(type, lease_epoch) == [type |-> type, lease_epoch |-> lease_epoch, at |-> control.turn]

\* A request of the pane: checkpoint and lease are "unasked", "sent", "answered" or
\* "failed"; size and geometry_epoch are the checkpoint's, lease_epoch the lease's.
Call(op, checkpoint, lease) ==
    [op |-> op, checkpoint |-> checkpoint, lease |-> lease, size |-> DefaultSize,
     geometry_epoch |-> 0, lease_epoch |-> 0, at |-> 0, stale |-> FALSE]

Done(call) == "sent" \notin {call.checkpoint, call.lease}
Shown(call) == call.checkpoint = "answered"

NoPane == [life |-> "lost", lease_epoch |-> 0, pending_grant |-> 0, geometry_epoch |-> 0,
           host_geometry_epoch |-> 0, next_geometry_epoch |-> 0,
           pending_geometry |-> {}, local_geometry |-> DefaultSize]

Init ==
    /\ control = [controller |-> Nobody, asked |-> FALSE, present |-> TRUE, holder |-> Nobody,
                  lease_epoch |-> 0, next_lease_epoch |-> 1, turn |-> 0]
    /\ leaving = [c \in Clients |-> "no"]
    /\ screen \in [size : Sizes, geometry_epoch : {1}]
    /\ attachment = Detached
    /\ link = "serving"
    /\ resubscribe = FALSE
    /\ broadcast = <<>>
    /\ lane = <<>>
    /\ inbox = <<>>
    /\ calls = <<>>
    /\ resized = {}
    /\ pane = NoPane
    /\ left \in Budgets
    /\ seen = 0
    /\ races = {}

Spend(what) == /\ left[what] > 0
               /\ left' = [left EXCEPT ![what] = @ - 1]

-----------------------------------------------------------------------------
(* HostRuntime: who holds the lease.                                       *)

GrantedSameEpoch(ctl, c) == \* mutant: next_lease_epoch does not advance
    [ctl EXCEPT !.holder = c, !.lease_epoch = ctl.next_lease_epoch, !.turn = @ + 1]

\* grant_lease_locked
Granted(ctl, c) == [ctl EXCEPT !.holder = c, !.lease_epoch = ctl.next_lease_epoch,
                               !.next_lease_epoch = @ + 1, !.turn = @ + 1]

\* yield_lease_locked
Yielded(ctl, c) == IF ctl.holder = c
                   THEN [ctl EXCEPT !.holder = Nobody, !.turn = @ + 1]
                   ELSE ctl

\* hand_control_locked
Handed(ctl, c) ==
    IF ctl.controller = c THEN ctl
    ELSE LET led == [ctl EXCEPT !.controller = c]
         IN  IF ctl.holder = c THEN led ELSE Granted(led, c)

\* claim_locked, and the grant of acquire_lease where nobody holds the lease
MayClaim(ctl) == ctl.controller \in {Me, Nobody} \/ ~ctl.asked
Claimed(ctl) ==
    IF MayClaim(ctl) THEN [Handed(ctl, Me) EXCEPT !.asked = ctl.asked \/ ctl.controller # Me]
                     ELSE ctl
Acquired(ctl) ==
    LET claimed == Claimed(ctl)
    IN  IF MayClaim(ctl) /\ claimed.holder # Me THEN Granted(claimed, Me) ELSE claimed

\* The events of a change that concern Me: LeaseRevoked, LeaseReleased, ControlGranted.
Events(new) ==
    IF control.holder = Me /\ new.holder # Me
    THEN <<[type |-> "revoked", lease_epoch |-> 0, at |-> new.turn]>>
    ELSE IF new.holder = Me /\ new.lease_epoch # control.lease_epoch
         THEN <<[type |-> "granted", lease_epoch |-> new.lease_epoch, at |-> new.turn]>>
         ELSE <<>>

Unheard(events) == IF link = "serving" /\ events # <<>> THEN {"unheard"} ELSE {}

\* control becomes new, and events are broadcast: to no one before the forwarder subscribed
Decide(new, events) ==
    /\ control' = new
    /\ broadcast' = IF link = "subscribed" THEN broadcast \o events ELSE broadcast
    /\ races' = races \cup Unheard(events)

\* take_terminal_control of another Client
RivalTakes ==
    /\ Spend("turns")
    /\ control.controller # Rival
    /\ LET new == Handed(control, Rival) IN Decide(new, Events(new))
    /\ UNCHANGED <<leaving, screen, attachment, link, resubscribe, lane, clientVars, seen>>

\* ResizeTerminal of another Client
RivalResizes ==
    /\ Spend("resizes")
    /\ control.holder = Rival
    /\ \E size \in Sizes : screen' = [size |-> size, geometry_epoch |-> screen.geometry_epoch + 1]
    /\ UNCHANGED <<control, leaving, linkVars, lane, clientVars, historyVars>>

\* The grace timer of a dropped connection finds no newer one; see TerminalControl.  Another
\* Client that is not in control has nothing to release.
Leave(c) ==
    /\ Spend("turns")
    /\ leaving[c] = "no"
    /\ IF c = Me THEN link = "down" ELSE control.controller = c
    /\ leaving' = [leaving EXCEPT ![c] = "expired"]
    /\ UNCHANGED <<control, screen, linkVars, lane, clientVars, historyVars>>

\* release_client: first its leases, then its control
YieldLeases(c) ==
    /\ leaving[c] = "expired"
    /\ leaving' = [leaving EXCEPT ![c] = "yielded"]
    /\ LET new == Yielded([control EXCEPT !.present = @ /\ c # Me], c)
       IN  Decide(new, Events(new))
    /\ UNCHANGED <<screen, attachment, link, resubscribe, lane, clientVars, left, seen>>

\* The successors: Clients that are connected and render a terminal.
Viewers(c) == IF c = Me THEN {{}, {Rival}}
              ELSE {IF control.present /\ attachment.attached THEN {Me} ELSE {}}

HandOver(c) ==
    /\ leaving[c] = "yielded"
    /\ leaving' = [leaving EXCEPT ![c] = "no"]
    /\ \E viewers \in Viewers(c) :
          LET new == IF control.controller # c THEN control
                     ELSE IF viewers = {} THEN [control EXCEPT !.controller = Nobody]
                     ELSE Handed(control, CHOOSE v \in viewers : TRUE)
          IN  Decide(new, Events(new))
    /\ UNCHANGED <<screen, attachment, link, resubscribe, lane, clientVars, left, seen>>

-----------------------------------------------------------------------------
(* The connection: requests and events.                                    *)

\* register_attachment and the effects of an answer without a lease
Registered == IF attachment.attached THEN attachment
              ELSE Attached(IF control.holder = Me THEN control.lease_epoch ELSE 0)

\* RequestCheckpoint, which the connection handles as it reads it
HandleCheckpoint(i) ==
    /\ link # "down" /\ ~resubscribe
    /\ calls[i].checkpoint = "sent"
    /\ calls' = [calls EXCEPT ![i].checkpoint = "answered", ![i].size = screen.size,
                              ![i].geometry_epoch = screen.geometry_epoch]
    /\ attachment' = Registered
    /\ UNCHANGED <<hostVars, link, resubscribe, broadcast, lane, inbox, resized, pane, left,
                   historyVars>>

HandleResubscribe ==
    /\ link # "down" /\ resubscribe
    /\ resubscribe' = FALSE
    /\ attachment' = Registered
    /\ UNCHANGED <<hostVars, link, broadcast, lane, clientVars, left, historyVars>>

\* The other requests wait for the answer of the one before.
IsNext(i, op) ==
    /\ link # "down" /\ ~resubscribe
    /\ calls[i].op = op
    /\ calls[i].lease = "sent" /\ calls[i].checkpoint # "sent"
    /\ \A j \in 1 .. i - 1 : calls[j].lease # "sent"

\* acquire_lease: no event tells of a lease granted to the controller, the answer carries it.
Acquire ==
    LET silent == control.controller = Me
        events == IF silent THEN <<>> ELSE Events(Acquired(control))
    IN  /\ control' = Acquired(control)
        /\ broadcast' = IF link = "subscribed" THEN broadcast \o events ELSE broadcast

AcquireRaces ==
    IF control.controller # Me THEN Unheard(Events(Acquired(control)))
    ELSE IF control.holder # Me /\ broadcast # <<>> THEN {"silent"} ELSE {}

\* The lease epoch the answer carries; 0 for a conflict
Answered == IF MayClaim(control) THEN Acquired(control).lease_epoch ELSE 0

\* AcquireTerminalLease
HandleAcquire(i) ==
    /\ IsNext(i, "reclaim")
    /\ Acquire
    /\ calls' = [calls EXCEPT ![i].lease = "answered", ![i].lease_epoch = Answered,
                              ![i].at = control'.turn]
    /\ attachment' = IF Answered = 0 THEN attachment ELSE Attached(Answered)
    /\ races' = races \cup AcquireRaces
    /\ UNCHANGED <<leaving, screen, link, resubscribe, lane, inbox, resized, pane, left, seen>>

\* AttachTerminal: an Observer's lease while another Client is in control
HandleAttach(i) ==
    /\ IsNext(i, "attach")
    /\ Acquire
    /\ LET shown == IF Answered # 0 /\ calls[i].geometry_epoch > screen.geometry_epoch
                    THEN [size |-> calls[i].size, geometry_epoch |-> calls[i].geometry_epoch]
                    ELSE screen
           answer == [calls[i] EXCEPT !.lease = "answered", !.checkpoint = "answered",
                                      !.lease_epoch = Answered, !.at = control'.turn,
                                      !.size = shown.size,
                                      !.geometry_epoch = shown.geometry_epoch]
       IN  /\ screen' = shown
           /\ calls' = [calls EXCEPT ![i] = answer]
           /\ races' = races \cup AcquireRaces
                     \cup (IF Answered # 0 /\ shown.size # calls[i].size THEN {"unsized"} ELSE {})
    /\ attachment' = Attached(Answered)
    /\ UNCHANGED <<leaving, link, resubscribe, lane, inbox, resized, pane, left, seen>>

\* TakeTerminalController: the leases it moves come as events
HandleTake(i) ==
    /\ IsNext(i, "take")
    /\ LET new == [Handed(control, Me) EXCEPT !.asked = TRUE] IN Decide(new, Events(new))
    /\ calls' = RemoveAt(calls, i)
    /\ UNCHANGED <<leaving, screen, attachment, link, resubscribe, lane, inbox, resized, pane,
                   left, seen>>

\* validate_terminal_mutation and validate_lease
Accepts(lease_epoch) ==
    /\ attachment.attached /\ attachment.mode = "interactive"
    /\ lease_epoch = attachment.lease_epoch
    /\ control.holder = Me

AcceptsInput(p) == Accepts(p.lease_epoch) /\ p.geometry_epoch = screen.geometry_epoch

\* ResizeTerminal, and HostedTerminal::resize
HandleResize ==
    /\ link # "down" /\ lane # <<>>
    /\ LET r == Head(lane)
           ok == r.bound /\ Accepts(r.lease_epoch) /\ r.geometry_epoch > screen.geometry_epoch
       IN  /\ screen' = IF ok THEN [size |-> r.size, geometry_epoch |-> r.geometry_epoch]
                              ELSE screen
           /\ resized' = IF r.stale THEN resized
                         ELSE resized \cup {[ok |-> ok, size |-> r.size,
                                             geometry_epoch |-> r.geometry_epoch]}
    /\ lane' = Tail(lane)
    /\ UNCHANGED <<control, leaving, linkVars, inbox, calls, pane, left, historyVars>>

\* forward_state_events subscribes when its task first runs.
Subscribe ==
    /\ link = "serving"
    /\ link' = "subscribed"
    /\ UNCHANGED <<hostVars, attachment, resubscribe, broadcast, lane, clientVars, left,
                   historyVars>>

ForwardEventOnly ==         \* mutant: the attachment is left as it is
    /\ broadcast # <<>> /\ Head(broadcast).type # "lagged"
    /\ broadcast' = Tail(broadcast)
    /\ inbox' = Append(inbox, Head(broadcast))
    /\ UNCHANGED <<hostVars, attachment, link, resubscribe, lane, calls, resized, pane, left,
                   historyVars>>

\* control_event
ForwardEvent ==
    /\ broadcast # <<>> /\ Head(broadcast).type # "lagged"
    /\ LET e == Head(broadcast)
       IN  attachment' = IF ~attachment.attached THEN attachment
                         ELSE IF e.type = "granted" THEN Attached(e.lease_epoch)
                         ELSE [attachment EXCEPT !.mode = "observer"]
    /\ inbox' = Append(inbox, Head(broadcast))
    /\ broadcast' = Tail(broadcast)
    /\ UNCHANGED <<hostVars, link, resubscribe, lane, calls, resized, pane, left, historyVars>>

\* resync_leases compares modes, not epochs, nor with what the pane was told.
ResyncLeases ==
    /\ broadcast # <<>> /\ Head(broadcast).type = "lagged"
    /\ broadcast' = Tail(broadcast)
    /\ LET holds == control.holder = Me
       IN  IF attachment.attached /\ (attachment.mode = "interactive") # holds
           THEN /\ attachment' = IF holds THEN Attached(control.lease_epoch)
                                 ELSE [attachment EXCEPT !.mode = "observer"]
                /\ inbox' = Append(inbox, IF holds THEN Event("granted", control.lease_epoch)
                                                   ELSE Event("revoked", 0))
                /\ UNCHANGED races
           ELSE /\ races' = races \cup {"untold"}
                /\ UNCHANGED <<attachment, inbox>>
    /\ UNCHANGED <<hostVars, link, resubscribe, lane, calls, resized, pane, left, seen>>

\* The broadcast overwrites what the forwarder did not read in time.
LoseEvents ==
    /\ Spend("lags")
    /\ \E n \in DOMAIN broadcast :
          broadcast' = <<Event("lagged", 0)>> \o SubSeq(broadcast, n + 1, Len(broadcast))
    /\ UNCHANGED <<hostVars, attachment, link, resubscribe, lane, clientVars, historyVars>>

\* The connection ends, and with it what is on its way: requests without an answer fail.
Disconnect ==
    /\ link # "down"
    /\ Spend("drops")
    /\ link' = "down"
    /\ control' = [control EXCEPT !.present = FALSE]
    /\ attachment' = Detached
    /\ resubscribe' = FALSE
    /\ broadcast' = <<>>
    /\ lane' = <<>>
    /\ \E n \in 0 .. Len(inbox) : inbox' = SubSeq(inbox, 1, n)
    /\ \E arrived \in SUBSET resized : resized' = arrived
    /\ \E lost \in SUBSET DOMAIN calls :
          LET Fails(i, part) == part = "sent" \/ (part = "answered" /\ i \in lost)
          IN  calls' = [i \in DOMAIN calls |->
                [calls[i] EXCEPT
                   !.checkpoint = IF Fails(i, @) THEN "failed" ELSE @,
                   !.lease = IF Fails(i, @) THEN "failed" ELSE @,
                   !.lease_epoch = IF Fails(i, calls[i].lease) THEN 0 ELSE @,
                   !.at = IF Fails(i, calls[i].lease) THEN control.turn ELSE @]]
    /\ UNCHANGED <<leaving, screen, pane, historyVars>>

\* A new connection is served: the Client core resubscribes and publishes Ready.
Reconnect ==
    /\ link = "down"
    /\ link' = "serving"
    /\ resubscribe' = \/ pane.life = "running"
                      \/ \E i \in DOMAIN calls : calls[i].op = "attach" /\ calls[i].lease = "answered"
    /\ control' = [control EXCEPT !.present = TRUE, !.turn = @ + 1]
    /\ inbox' = Append(inbox, [Event("ready", 0) EXCEPT !.at = @ + 1])
    /\ races' = races \ {"unheard", "untold"}
    /\ UNCHANGED <<leaving, screen, attachment, broadcast, lane, calls, resized, pane, left, seen>>

-----------------------------------------------------------------------------
(* The pane.                                                               *)

\* Makes p, which has heard of turn at.
Crossing(at) == IF at < seen THEN races \cup {"crossed"} ELSE races \ {"crossed"}
Hears(at) == /\ seen' = IF at > seen THEN at ELSE seen
             /\ races' = Crossing(at)

WithLeaseOnly(p, lease_epoch) ==        \* mutant: a grant being verified stays
    [p EXCEPT !.lease_epoch = lease_epoch]

\* set_interactive_lease
WithLease(p, lease_epoch) == [p EXCEPT !.lease_epoch = lease_epoch, !.pending_grant = 0]

\* adopt_host_geometry_epoch
Adopting(p, call) ==
    IF ~Shown(call) THEN p
    ELSE [p EXCEPT !.host_geometry_epoch = call.geometry_epoch,
                   !.geometry_epoch = call.geometry_epoch,
                   !.next_geometry_epoch = IF call.geometry_epoch > @
                                           THEN call.geometry_epoch ELSE @]

\* reclaim_geometry, before it submits
Reclaiming(p, call) ==
    IF Shown(call) /\ call.size # p.local_geometry /\ p.pending_geometry = {}
    THEN [p EXCEPT !.pending_geometry = {p.local_geometry}]
    ELSE p

\* submit_pending_resize: the pane becomes p, and what it has pending is sent
Submit(p) ==
    IF link = "down" \/ p.pending_geometry = {}
    THEN /\ pane' = IF link = "down" THEN [p EXCEPT !.pending_geometry = {}] ELSE p
         /\ UNCHANGED lane
    ELSE LET epoch == p.next_geometry_epoch + 1
         IN  /\ pane' = [p EXCEPT !.next_geometry_epoch = epoch, !.geometry_epoch = epoch,
                                  !.pending_geometry = {}]
             /\ lane' = lane \o SetToSeq({[lease_epoch |-> p.lease_epoch, stale |-> FALSE,
                                          bound |-> p.life = "running",
                                          geometry_epoch |-> epoch, size |-> size] :
                                            size \in p.pending_geometry})

Ask(call) ==
    /\ Len(calls) < MaxCalls
    /\ calls' = Append(calls, IF link # "down" THEN call
                              ELSE [call EXCEPT !.checkpoint = "failed"])

\* attach_host_terminal, by the placement that the Client's catalog lists
Attach ==
    /\ pane.life = "lost" /\ link # "down"
    /\ Len(calls) < MaxCalls
    /\ \E listed \in 1 .. screen.geometry_epoch :
          /\ pane' = [NoPane EXCEPT !.life = "attaching", !.geometry_epoch = listed + 1,
                                    !.next_geometry_epoch = listed + 1,
                                    !.host_geometry_epoch = listed]
          /\ calls' = Append(calls, [Call("attach", "unasked", "sent") EXCEPT
                                        !.geometry_epoch = listed + 1])
    /\ UNCHANGED <<hostVars, linkVars, lane, inbox, resized, left, historyVars>>

\* Whether the terminal has, or gets, another geometry than the pane will now send with its input
Outdated == \/ screen.geometry_epoch > pane'.geometry_epoch
            \/ screen.geometry_epoch = pane'.geometry_epoch /\ lane' # lane
            \/ \E r \in Range(lane') : r.geometry_epoch > pane'.geometry_epoch

\* The races after the pane took over the answer call, whose checkpoint may be old or missing
Judged(rs, call) == IF control.holder # Me THEN rs
                    ELSE IF Shown(call) /\ ~Outdated THEN rs \ {"misjudged"}
                    ELSE rs \cup {"misjudged"}

\* ... of attach_host_terminal; attach_failed otherwise
FinishAttach(i) ==
    /\ calls[i].op = "attach" /\ Done(calls[i])
    /\ IF calls[i].lease = "answered"
       THEN /\ Submit(Adopting([pane EXCEPT !.life = "running",
                                            !.lease_epoch = calls[i].lease_epoch], calls[i]))
            /\ calls' = RemoveAt(calls, i)
            /\ Hears(calls[i].at)
            /\ UNCHANGED resized
       ELSE /\ pane' = NoPane
            /\ calls' = [k \in 1 .. Len(calls) - 1 |->
                            [RemoveAt(calls, i)[k] EXCEPT !.stale = TRUE]]
            /\ lane' = [k \in DOMAIN lane |-> [lane[k] EXCEPT !.stale = TRUE]]
            /\ resized' = {}
            /\ UNCHANGED historyVars
    /\ UNCHANGED <<hostVars, linkVars, inbox, left>>

\* ... of reclaim_host_lease
FinishReclaim(i) ==
    /\ calls[i].op = "reclaim" /\ Done(calls[i]) /\ ~calls[i].stale
    /\ LET p == WithLease(Adopting(pane, calls[i]), calls[i].lease_epoch)
       IN  /\ IF p.lease_epoch # 0 THEN Submit(Reclaiming(p, calls[i]))
                                   ELSE pane' = p /\ UNCHANGED lane
           /\ races' = Judged(Crossing(calls[i].at), calls[i])
    /\ seen' = IF calls[i].at > seen THEN calls[i].at ELSE seen
    /\ calls' = RemoveAt(calls, i)
    /\ UNCHANGED <<hostVars, linkVars, inbox, resized, left>>

\* ... of accept_control_grant
FinishGrant(i) ==
    /\ calls[i].op = "grant" /\ Done(calls[i]) /\ ~calls[i].stale
    /\ pane.pending_grant = calls[i].lease_epoch
    /\ LET p == WithLease(Adopting(pane, calls[i]), calls[i].lease_epoch)
       IN  /\ IF Shown(calls[i]) THEN Submit(Reclaiming(p, calls[i]))
                                 ELSE pane' = p /\ UNCHANGED lane
           /\ races' = Judged(races, calls[i])
    /\ calls' = RemoveAt(calls, i)
    /\ UNCHANGED <<hostVars, linkVars, inbox, resized, left, seen>>

\* An answer nobody waits for any more: of an older generation, a grant withdrawn since, or
\* take_terminal_control's
Discard(i) ==
    /\ Done(calls[i])
    /\ \/ calls[i].stale
       \/ calls[i].op = "grant" /\ pane.pending_grant # calls[i].lease_epoch
       \/ calls[i].op = "take"
    /\ calls' = RemoveAt(calls, i)
    /\ UNCHANGED <<hostVars, linkVars, lane, inbox, resized, pane, left, historyVars>>

\* accept_control_grant
HearGrant ==
    /\ inbox # <<>> /\ Head(inbox).type = "granted"
    /\ LET e == Head(inbox)
       IN  /\ Hears(e.at)
           /\ \/ /\ pane.life = "running"
                 /\ pane' = [pane EXCEPT !.pending_grant = e.lease_epoch]
                 /\ Ask([Call("grant", "sent", "unasked") EXCEPT !.lease_epoch = e.lease_epoch])
              \/ /\ pane.life = "attaching"
                 /\ pane' = WithLease(pane, e.lease_epoch)
                 /\ UNCHANGED calls
              \/ pane.life = "lost" /\ UNCHANGED <<pane, calls>>
    /\ inbox' = Tail(inbox)
    /\ UNCHANGED <<hostVars, linkVars, lane, resized, left>>

\* TerminalLeaseRevoked, TerminalLeaseReleased
HearRevocation ==
    /\ inbox # <<>> /\ Head(inbox).type = "revoked"
    /\ Hears(Head(inbox).at)
    /\ pane' = WithLease(pane, 0)
    /\ inbox' = Tail(inbox)
    /\ UNCHANGED <<hostVars, linkVars, lane, calls, resized, left>>

\* Ready, or Resync: reclaim_host_lease
HearReady ==
    /\ inbox # <<>> /\ Head(inbox).type = "ready"
    /\ IF pane.life = "running" /\ link # "down"
       THEN Ask(Call("reclaim", "sent", "sent"))
       ELSE UNCHANGED calls
    /\ seen' = IF Head(inbox).at > seen THEN Head(inbox).at ELSE seen
    /\ inbox' = Tail(inbox)
    /\ races' = IF pane.life = "attaching" THEN races \cup {"unready"} ELSE races
    /\ UNCHANGED <<hostVars, linkVars, lane, resized, pane, left>>

\* The broadcast of the Client core, or forward_pane_events, overwrites events: Resync.
LosePaneEvents ==
    /\ Spend("lags")
    /\ \E n \in DOMAIN inbox :
          inbox' = <<Event("ready", 0)>> \o SubSeq(inbox, n + 1, Len(inbox))
    /\ UNCHANGED <<hostVars, linkVars, lane, calls, resized, pane, historyVars>>

\* The view is painted anew: with another size, or as writable again.
ResizeView ==
    /\ Spend("resizes")
    /\ pane.life # "lost"
    /\ \E size \in Sizes :
          LET p == [pane EXCEPT !.local_geometry = size]
              q == [p EXCEPT !.pending_geometry = {size}]
          IN  /\ IF link = "down" THEN pane' = p /\ UNCHANGED lane
                 ELSE IF pane.lease_epoch = 0 THEN pane' = q /\ UNCHANGED lane
                 ELSE Submit(q)
              /\ races' = IF link = "down" /\ ~(pane.pending_geometry \subseteq {size})
                          THEN races \cup {"shadowed"} ELSE races
    /\ UNCHANGED <<hostVars, linkVars, inbox, calls, resized, seen>>

\* ... of submit_pending_resize
HearResized ==
    /\ \E r \in resized :
          /\ resized' = resized \ {r}
          /\ pane' = IF r.ok
                     THEN [pane EXCEPT !.host_geometry_epoch =
                                          IF r.geometry_epoch > @ THEN r.geometry_epoch ELSE @]
                     ELSE [pane EXCEPT
                             !.geometry_epoch = IF @ = r.geometry_epoch
                                                THEN pane.host_geometry_epoch ELSE @,
                             !.pending_geometry = IF @ = {} THEN {r.size} ELSE @]
          /\ races' = IF ~r.ok /\ pane.pending_geometry = {} /\ r.size # pane.local_geometry
                      THEN races \cup {"shadowed"} ELSE races
    /\ UNCHANGED <<hostVars, linkVars, lane, inbox, calls, left, seen>>

\* take_terminal_control: the pane is read-only, and the person wants it back
TakeControl ==
    /\ Spend("turns")
    /\ pane.life = "running" /\ pane.lease_epoch = 0 /\ link # "down"
    /\ Ask(Call("take", "unasked", "sent"))
    /\ UNCHANGED <<hostVars, linkVars, lane, inbox, resized, pane, historyVars>>

-----------------------------------------------------------------------------
HostStep == \/ RivalTakes \/ RivalResizes
            \/ \E c \in Clients : Leave(c) \/ YieldLeases(c) \/ HandOver(c)

ConnectionStep == \/ HandleResubscribe \/ HandleResize \/ Subscribe \/ ForwardEvent
                  \/ ResyncLeases \/ LoseEvents \/ Disconnect \/ Reconnect
                  \/ \E i \in DOMAIN calls : \/ HandleCheckpoint(i) \/ HandleAcquire(i)
                                             \/ HandleAttach(i) \/ HandleTake(i)

PaneStep == \/ Attach \/ HearGrant \/ HearRevocation \/ HearReady \/ LosePaneEvents
            \/ ResizeView \/ HearResized \/ TakeControl
            \/ \E i \in DOMAIN calls : \/ FinishAttach(i) \/ FinishReclaim(i)
                                       \/ FinishGrant(i) \/ Discard(i)

Next == HostStep \/ ConnectionStep \/ PaneStep

Spec == Init /\ [][Next]_vars

-----------------------------------------------------------------------------
Type == {"granted", "revoked", "lagged", "ready"}
Part == {"unasked", "sent", "answered", "failed"}

TypeOK ==
    /\ control \in [controller : Clients \cup {Nobody}, asked : BOOLEAN, present : BOOLEAN,
                    holder : Clients \cup {Nobody}, lease_epoch : Nat, next_lease_epoch : Nat,
                    turn : Nat]
    /\ control.lease_epoch < control.next_lease_epoch
    /\ leaving \in [Clients -> {"no", "expired", "yielded"}]
    /\ screen \in [size : Sizes, geometry_epoch : Nat]
    /\ attachment \in [attached : BOOLEAN, mode : {"observer", "interactive"}, lease_epoch : Nat]
    /\ link \in {"down", "serving", "subscribed"}
    /\ resubscribe \in BOOLEAN
    /\ {broadcast, inbox} \subseteq Seq([type : Type, lease_epoch : Nat, at : Nat])
    /\ lane \in Seq([lease_epoch : Nat, stale : BOOLEAN, bound : BOOLEAN, geometry_epoch : Nat,
                     size : Sizes])
    /\ calls \in Seq([op : {"attach", "reclaim", "grant", "take"}, checkpoint : Part, lease : Part,
                      size : Sizes, geometry_epoch : Nat, lease_epoch : Nat, at : Nat,
                      stale : BOOLEAN])
    /\ resized \subseteq [ok : BOOLEAN, size : Sizes, geometry_epoch : Nat]
    /\ pane \in [life : {"lost", "attaching", "running"}, lease_epoch : Nat,
                 pending_grant : Nat, geometry_epoch : Nat, host_geometry_epoch : Nat,
                 next_geometry_epoch : Nat, pending_geometry : SUBSET Sizes,
                 local_geometry : Sizes]
    /\ left \in [turns : Nat, resizes : Nat, drops : Nat, lags : Nat]
    /\ seen \in Nat
    /\ races \subseteq {"unheard", "silent", "untold", "unready", "crossed", "misjudged",
                       "unsized", "shadowed"}

\* Once the forwarder has read every event, the attachment has the mode and the epoch of the
\* lease: what the Host checks input against is what it decided, though answers and events
\* reach the attachment in any order.
AttachmentFollowsLease ==
    link = "subscribed" /\ broadcast = <<>> /\ attachment.attached
      /\ races \cap {"unheard", "silent"} = {} =>
        /\ (attachment.mode = "interactive") <=> (control.holder = Me)
        /\ attachment.mode = "interactive" /\ "untold" \notin races =>
               attachment.lease_epoch = control.lease_epoch

\* Nothing is under way between the Host and the pane.
Quiet == /\ link = "subscribed" /\ ~resubscribe
         /\ broadcast = <<>> /\ lane = <<>> /\ inbox = <<>> /\ calls = <<>> /\ resized = {}
         /\ pane.life = "running"

\* A pane that has heard everything is writable just if its Client holds the lease, and by the
\* lease that the Host accepts.
QuietPaneHoldsLease ==
    Quiet /\ races \cap {"unheard", "silent", "untold", "unready", "crossed"} = {} =>
        /\ (pane.lease_epoch # 0) <=> (control.holder = Me)
        /\ pane.lease_epoch # 0 => Accepts(pane.lease_epoch)

\* ... The Host then takes what is typed into it; and the terminal has the size of the view, or
\* the pane kept that size for its next resize.
QuietPaneAgrees ==
    /\ QuietPaneHoldsLease
    /\ Quiet /\ races \cap {"unheard", "silent", "untold", "unready", "crossed"} = {} =>
        /\ pane.lease_epoch # 0 /\ "misjudged" \notin races => AcceptsInput(pane)
        /\ pane.lease_epoch # 0 /\ races = {} =>
              \/ screen.size = pane.local_geometry
              \/ pane.pending_geometry = {pane.local_geometry}
=============================================================================
