--------------------------- MODULE TerminalControl ---------------------------
(***************************************************************************)
(* Who may write to the terminals of a Host.                               *)
(*                                                                         *)
(* HostRuntime (crates/yttt-host/src/runtime.rs) keeps one Interactive     *)
(* lease per terminal and one terminal controller; connections             *)
(* (crates/yttt-host/src/lib.rs) bind to Client sessions, suspend their    *)
(* Client when they drop, and start a grace timer that releases the Client *)
(* unless it reconnected.  The code runs on many threads: every action     *)
(* below is one critical section of the code, so that what happens between *)
(* two sections of one operation can happen here too.                      *)
(*                                                                         *)
(* Left out: what the sections publish (events, logs), scroll and          *)
(* visibility state of attachments, PTYs, the second of two reads that are *)
(* taken back to back, and the epochs drawn for Observers: nothing checks  *)
(* them, and all they do is leave gaps among the epochs of leases.         *)
(***************************************************************************)
EXTENDS Integers, FiniteSets, SequencesExt

CONSTANTS Clients,              \* Client instance IDs
          Terminals,            \* terminal session IDs
          Connections,          \* Session connections that may be opened
          Nobody,               \* no controller, no holder
          NoConnection,         \* a binding without a connection
          RememberedWriters,    \* REMEMBERED_WRITERS, 1024 in the code
          MaxClientSessions,    \* MAX_CLIENT_SESSIONS, 64 in the code
          MaxIdleSessions,      \* MAX_IDLE_CLIENT_SESSIONS, 16 in the code
          MaxRequests,          \* bound of the model: requests of all connections
          MaxOverdue            \* bound of the model: requests that take longer than the
                                \* grace period, a minute

CONSTANT Owner                  \* the Client each connection authenticates as

ASSUME ControlAssumption ==
    /\ Nobody \notin Clients
    /\ NoConnection \notin Connections
    /\ IsFiniteSet(Terminals)
    /\ Owner \in [Connections -> Clients]
    /\ RememberedWriters \in Nat \ {0}
    /\ {MaxClientSessions, MaxIdleSessions, MaxRequests, MaxOverdue} \subseteq Nat

VARIABLES terminals,        \* those the runtime knows, running or exited
          leases,           \* the Interactive lease of each terminal
          nextLeaseEpoch,
          controller,
          controllerEpoch,
          writers,          \* Clients that asked to write, oldest first
          present,          \* connected Clients, least recently connected first
          suspended,
          attachments,      \* pairs <<client, terminal>>
          sessions,         \* the Session binding of each Client
          idle,             \* Clients whose binding has no connection, oldest first
          nextSlot,         \* identity of the next binding's slot
          conn,             \* what each connection task is doing
          grace,            \* what each connection's grace timer is doing
          request,          \* the control request each connection is serving
          requests,         \* how many requests were read
          overdue           \* connections whose last request outlasted a grace timer

runtimeVars == <<leases, nextLeaseEpoch, controller, controllerEpoch, writers>>
presenceVars == <<present, suspended>>
requestVars == <<request, requests>>
timerVars == <<grace, overdue>>
sessionVars == <<sessions, idle, nextSlot>>
vars == <<terminals, runtimeVars, presenceVars, attachments, sessionVars,
          conn, timerVars, requestVars>>

-----------------------------------------------------------------------------
Lease == [holder : Clients \cup {Nobody}, lease_epoch : Nat]
NoLease == [holder |-> Nobody, lease_epoch |-> 0]

\* No sequence of Clients holds a Client twice: SequencesExt's Remove, in a form whose
\* type can be proved.
Without(seq, c) == IF c \in Range(seq)
                   THEN RemoveAt(seq, CHOOSE i \in DOMAIN seq : seq[i] = c)
                   ELSE seq

NoBinding == [bound |-> FALSE, connection |-> NoConnection, generation |-> 0, slot |-> 0]

Binding == [bound : BOOLEAN, connection : Connections \cup {NoConnection},
            generation : Nat, slot : Nat]

Connection == [phase : {"new", "bound", "serving", "ending", "closed"},
               generation : Nat, slot : Nat, replaced : BOOLEAN]

\* known is what release_client read of the terminals when it started
Grace == [phase : {"off", "sleeping", "releasing", "yielded", "done"},
          known : SUBSET Terminals]

NoRequest == [op |-> "none"]

\* The connection ended when the task of a request ran, but had done nothing yet.
Begun == [op |-> "begun"]
Request == [op : {"none", "begun"}]
           \cup [op : {"take"}, known : SUBSET Terminals]
           \cup [op : {"claim", "acquire"}, session : Terminals, known : SUBSET Terminals]
           \cup [op : {"start", "register", "unregister"}, session : Terminals]

HeldBy(c) == {t \in Terminals : leases[t].holder = c}

Bound == {c \in Clients : sessions[c].bound}

Init ==
    /\ terminals = {}
    /\ leases = [t \in Terminals |-> NoLease]
    /\ nextLeaseEpoch = 1
    /\ controller = Nobody
    /\ controllerEpoch = 0
    /\ writers = <<>>
    /\ present = <<>>
    /\ suspended = {}
    /\ attachments = {}
    /\ sessions = [c \in Clients |-> NoBinding]
    /\ idle = <<>>
    /\ nextSlot = 1
    /\ conn = [k \in Connections |-> [phase |-> "new", generation |-> 0, slot |-> 0,
                                      replaced |-> FALSE]]
    /\ grace = [k \in Connections |-> [phase |-> "off", known |-> {}]]
    /\ request = [k \in Connections |-> NoRequest]
    /\ requests = 0
    /\ overdue = {}

-----------------------------------------------------------------------------
(* The control state: each operator runs inside one control lock section.  *)

\* Mutant: the epoch moves on once for all of ts.
GrantOneEpoch(ts, c) ==
    /\ leases' = [t \in Terminals |-> IF t \in ts
                                      THEN [holder |-> c, lease_epoch |-> nextLeaseEpoch]
                                      ELSE leases[t]]
    /\ nextLeaseEpoch' = nextLeaseEpoch + 1

\* grant_lease_locked for each terminal of ts, in the order a HashSet yields them
Grant(ts, c) ==
    /\ \E stamp \in Injection(ts, nextLeaseEpoch .. nextLeaseEpoch + Cardinality(ts) - 1) :
          leases' = [t \in Terminals |-> IF t \in ts
                                         THEN [holder |-> c, lease_epoch |-> stamp[t]]
                                         ELSE leases[t]]
    /\ nextLeaseEpoch' = nextLeaseEpoch + Cardinality(ts)

\* Mutant: only the terminals that were known move.
HandControlKnown(c, known) ==
    IF controller = c
    THEN UNCHANGED <<leases, nextLeaseEpoch, controller, controllerEpoch>>
    ELSE /\ controller' = c
         /\ controllerEpoch' = controllerEpoch + 1
         /\ Grant({t \in known : leases[t].holder # c}, c)

\* Mutant: control is handed to the controller again.
HandControlAgain(c, known) ==
    /\ controller' = c
    /\ controllerEpoch' = controllerEpoch + 1
    /\ Grant({t \in Terminals : /\ leases[t].holder # c
                                /\ t \in known \/ leases[t].holder # Nobody}, c)

\* hand_control_locked: every lease, and one for each known terminal, moves to c
HandControl(c, known) ==
    IF controller = c
    THEN UNCHANGED <<leases, nextLeaseEpoch, controller, controllerEpoch>>
    ELSE /\ controller' = c
         /\ controllerEpoch' = controllerEpoch + 1
         /\ Grant({t \in Terminals : /\ leases[t].holder # c
                                     /\ t \in known \/ leases[t].holder # Nobody}, c)

\* remember_writer
RememberWriter(c) ==
    writers' = IF c \in Range(writers) THEN writers
               ELSE Append(IF Len(writers) = RememberedWriters THEN Tail(writers)
                                                               ELSE writers, c)

\* claim_locked succeeds for the controller, while there is none, and for a Client
\* that asks for the first time
MayClaim(c) == controller \in {c, Nobody} \/ c \notin Range(writers)

\* claim_locked by a Client that may claim; the controller is not remembered
Claim(c, known) ==
    /\ IF controller = c THEN UNCHANGED writers ELSE RememberWriter(c)
    /\ HandControl(c, known)

\* the last part of acquire_lease: the lease of t once c controls the terminals
ClaimLease(c, t, known) ==
    IF controller = c /\ leases[t].holder # c
    THEN Grant({t}, c) /\ UNCHANGED <<controller, controllerEpoch, writers>>
    ELSE Claim(c, known)

\* yield_lease_locked for every terminal of ts
Yield(ts) ==
    /\ leases' = [t \in Terminals |-> IF t \in ts THEN NoLease ELSE leases[t]]
    /\ UNCHANGED <<nextLeaseEpoch, controller, controllerEpoch, writers>>

\* detach_client
Detach(c) == attachments' = {a \in attachments : a[1] # c}

-----------------------------------------------------------------------------
(* Session connections: serve_client_session.                              *)

SetPhase(k, phase) == conn' = [conn EXCEPT ![k].phase = phase]
SetGrace(k, phase) == grace' = [grace EXCEPT ![k].phase = phase]

\* Mutant: the connection that is replaced is not told.
BindUntold(k) ==
    LET c == Owner[k]
        old == sessions[c]
        slot == IF old.bound THEN old.slot ELSE nextSlot
    IN /\ conn[k].phase = "new"
       /\ old.bound \/ Cardinality(Bound) < MaxClientSessions
       /\ sessions' = [sessions EXCEPT ![c] =
             [bound |-> TRUE, connection |-> k, generation |-> old.generation + 1,
              slot |-> slot]]
       /\ nextSlot' = IF old.bound THEN nextSlot ELSE nextSlot + 1
       /\ idle' = Without(idle, c)
       /\ conn' = [conn EXCEPT ![k] = [@ EXCEPT !.phase = "bound", !.slot = slot,
                                               !.generation = old.generation + 1]]
       /\ UNCHANGED <<terminals, runtimeVars, presenceVars, attachments, timerVars, requestVars>>

\* The connection is bound to its Client's session, replacing an earlier one.
Bind(k) ==
    LET c == Owner[k]
        old == sessions[c]
        slot == IF old.bound THEN old.slot ELSE nextSlot
    IN /\ conn[k].phase = "new"
       /\ old.bound \/ Cardinality(Bound) < MaxClientSessions
       /\ sessions' = [sessions EXCEPT ![c] =
             [bound |-> TRUE, connection |-> k, generation |-> old.generation + 1,
              slot |-> slot]]
       /\ nextSlot' = IF old.bound THEN nextSlot ELSE nextSlot + 1
       /\ idle' = Without(idle, c)
       /\ conn' = [j \in Connections |->
             IF j = k THEN [conn[k] EXCEPT !.phase = "bound", !.slot = slot,
                                           !.generation = old.generation + 1]
             ELSE IF j = old.connection THEN [conn[j] EXCEPT !.replaced = TRUE]
             ELSE conn[j]]
       /\ UNCHANGED <<terminals, runtimeVars, presenceVars, attachments, timerVars, requestVars>>

\* served, or releasing what the Client had
Active(k) == conn[k].phase \in {"serving", "ending"}

\* Mutant: a connection does not wait for the one it replaced.
SlotIgnored(k) == TRUE

\* A connection holds its binding's slot while it is served and until it has ended.
SlotFree(k) == \A j \in Connections : Active(j) => conn[j].slot # conn[k].slot

\* Mutant: a replaced connection clears the binding as well.
CloseAny(k) ==
    LET c == Owner[k]
    IN /\ SetPhase(k, "closed")
       /\ IF sessions[c].bound
          THEN /\ sessions' = [sessions EXCEPT ![c].connection = NoConnection]
               /\ idle' = Append(Without(idle, c), c)
          ELSE UNCHANGED <<sessions, idle>>
       /\ UNCHANGED nextSlot

\* Both guards of a connection that ends are dropped: the slot is free, and the
\* binding has no connection unless a newer one was bound (SessionConnectionGuard).
Close(k) ==
    LET c == Owner[k]
        mine == sessions[c].bound /\ sessions[c].generation = conn[k].generation
    IN /\ SetPhase(k, "closed")
       /\ IF mine
          THEN /\ sessions' = [sessions EXCEPT ![c].connection = NoConnection]
               /\ idle' = Append(Without(idle, c), c)
          ELSE UNCHANGED <<sessions, idle>>
       /\ UNCHANGED nextSlot

\* The slot is free and the connection was not replaced meanwhile: resume_client.
Serve(k) ==
    /\ conn[k].phase = "bound"
    /\ SlotFree(k)
    /\ ~conn[k].replaced
    /\ SetPhase(k, "serving")
    /\ suspended' = suspended \ {Owner[k]}
    /\ present' = Append(Without(present, Owner[k]), Owner[k])
    /\ UNCHANGED <<terminals, runtimeVars, attachments, sessionVars, timerVars, requestVars>>

\* The connection was replaced while it waited for the slot.
GiveUp(k) ==
    /\ conn[k].phase = "bound"
    /\ SlotFree(k)
    /\ conn[k].replaced
    /\ Close(k)
    /\ UNCHANGED <<terminals, runtimeVars, presenceVars, attachments, timerVars, requestVars>>

\* Requests that do not hold the lock of their connection's attachments
LockFree == {"none", "begun", "take"}

Interrupt(k) ==
    \/ UNCHANGED requestVars
    \/ /\ request[k] = NoRequest
       /\ requests < MaxRequests
       /\ requests' = requests + 1
       /\ request' = [request EXCEPT ![k] = Begun]

\* The attachments are cleared, once no request holds their lock, and the guards dropped;
\* nothing looks at the connection before that unless a request has the lock or gets it.
Leave(k) ==
    \/ request'[k].op \in LockFree /\ Close(k)
    \/ request'[k].op \notin {"none", "take"} /\ SetPhase(k, "ending") /\ UNCHANGED sessionVars

\* Mutant: the runtime is not told that the Client is suspended.
SuspendUntold(k) ==
    /\ conn[k].phase = "serving"
    /\ SetGrace(k, "sleeping")
    /\ Interrupt(k)
    /\ Leave(k)
    /\ UNCHANGED <<terminals, runtimeVars, presenceVars, attachments, overdue>>

\* The connection drops or was replaced.  Its running request is aborted, which ends a task
\* where it waits and nowhere else: one that has its locks goes on to its end, and so may
\* one that is about to take them.  suspend_client keeps leases and control and ends the
\* streams; the grace timer starts.
Suspend(k) ==
    /\ conn[k].phase = "serving"
    /\ suspended' = suspended \cup {Owner[k]}
    /\ present' = Without(present, Owner[k])
    /\ Detach(Owner[k])
    /\ SetGrace(k, "sleeping")
    /\ Interrupt(k)
    /\ Leave(k)
    /\ UNCHANGED <<terminals, runtimeVars, overdue>>

\* The request that held the lock has ended.
End(k) ==
    /\ conn[k].phase = "ending"
    /\ request[k].op \in LockFree
    /\ Close(k)
    /\ UNCHANGED <<terminals, runtimeVars, presenceVars, attachments, timerVars, requestVars>>

\* Five minutes after a Client's last connection nothing of it is still under way.
Settled(c) == \A k \in Connections : Owner[k] = c =>
                 conn[k].phase \in {"new", "closed"} /\ grace[k].phase # "sleeping"

\* prune_inactive_sessions: the oldest idle bindings beyond the limit, and those idle
\* for CLIENT_SESSION_RETENTION
Prune ==
    \E n \in 1 .. Len(idle) :
        LET pruned == {idle[i] : i \in 1 .. n}
        IN /\ n >= Len(idle) - MaxIdleSessions
           /\ \A i \in 1 .. n : i <= Len(idle) - MaxIdleSessions \/ Settled(idle[i])
           /\ sessions' = [c \in Clients |-> IF c \in pruned THEN NoBinding
                                             ELSE sessions[c]]
           /\ idle' = SubSeq(idle, n + 1, Len(idle))
           /\ UNCHANGED <<terminals, runtimeVars, presenceVars, attachments, nextSlot,
                          conn, timerVars, requestVars>>

-----------------------------------------------------------------------------
(* The grace timer of a connection that ended, and release_client.         *)

\* Requests of connections that ended no later than k, and still run, are overdue.
Outlast(k) ==
    /\ overdue' = overdue \cup {j \in Connections : /\ Owner[j] = Owner[k]
                                                   /\ conn[j].generation <= conn[k].generation
                                                   /\ request[j] # NoRequest}
    /\ Cardinality(overdue') <= MaxOverdue

\* Mutant: any binding counts as reconnected.
CheckGraceBound(k) ==
    /\ grace[k].phase = "sleeping"
    /\ SetGrace(k, IF sessions[Owner[k]].bound THEN "done" ELSE "releasing")
    /\ Outlast(k)
    /\ UNCHANGED <<terminals, runtimeVars, presenceVars, attachments, sessionVars,
                   conn, requestVars>>

\* After LEASE_RECONNECT_GRACE the binding's generation tells whether the Client
\* reconnected; the sessions lock is dropped before the release.
CheckGrace(k) ==
    LET binding == sessions[Owner[k]]
        reconnected == binding.bound /\ binding.generation # conn[k].generation
    IN /\ grace[k].phase = "sleeping"
       /\ SetGrace(k, IF reconnected THEN "done" ELSE "releasing")
       /\ Outlast(k)
       /\ UNCHANGED <<terminals, runtimeVars, presenceVars, attachments, sessionVars,
                      conn, requestVars>>

\* release_client, first section: the Client is gone, yields its leases and is
\* detached
ReleaseLeases(k) ==
    LET c == Owner[k]
    IN /\ grace[k].phase = "releasing"
       /\ grace' = [grace EXCEPT ![k] = [phase |-> "yielded", known |-> terminals]]
       /\ suspended' = suspended \ {c}
       /\ present' = Without(present, c)
       /\ Yield(HeldBy(c))
       /\ Detach(c)
       /\ UNCHANGED <<terminals, sessionVars, conn, overdue, requestVars>>

\* release_client, last section: control goes to the most recently connected Client
\* that is attached to a terminal
Viewers == {a[1] : a \in attachments}

IsSuccessor(i) ==
    present[i] \in Viewers /\ \A j \in DOMAIN present : j > i => present[j] \notin Viewers

PassControl(k) ==
    /\ grace[k].phase = "yielded"
    /\ grace' = [grace EXCEPT ![k] = [phase |-> "done", known |-> {}]]
    /\ \/ /\ controller # Owner[k]
          /\ UNCHANGED <<leases, nextLeaseEpoch, controller, controllerEpoch>>
       \/ /\ controller = Owner[k]
          /\ \E i \in DOMAIN present :
                IsSuccessor(i) /\ HandControl(present[i], grace[k].known)
       \/ /\ controller = Owner[k]
          /\ Range(present) \cap Viewers = {}
          /\ controller' = Nobody
          /\ controllerEpoch' = controllerEpoch + 1
          /\ UNCHANGED <<leases, nextLeaseEpoch>>
    /\ UNCHANGED <<terminals, writers, presenceVars, attachments, sessionVars, conn,
                   overdue, requestVars>>

-----------------------------------------------------------------------------
(* Requests of a served connection, one at a time.  A request takes the    *)
(* lock of the attachments first, but for TakeTerminalController, and does *)
(* not wait after that.                                                    *)

\* The next request has its lock; r is what it does next.
Read(k, r) ==
    /\ \/ request[k] = Begun /\ UNCHANGED requests
       \/ /\ conn[k].phase = "serving" /\ request[k] = NoRequest
          /\ requests < MaxRequests
          /\ requests' = requests + 1
    /\ request' = [request EXCEPT ![k] = r]

\* What it reads of the terminals before it locks the control state is in r.
Begin(k, r) ==
    /\ Read(k, r)
    /\ UNCHANGED <<terminals, runtimeVars, presenceVars, attachments, sessionVars, conn,
                   timerVars>>

Become(k, r) == request' = [request EXCEPT ![k] = r] /\ UNCHANGED requests

\* The task was aborted after all, or its request was one that changes nothing here.
Abandon(k) ==
    /\ request[k] = Begun
    /\ Become(k, NoRequest)
    /\ UNCHANGED <<terminals, runtimeVars, presenceVars, attachments, sessionVars, conn,
                   timerVars>>

\* AttachTerminal and AcquireTerminalLease in Interactive mode
BeginAcquire(k, t) ==
    t \in terminals /\ Begin(k, [op |-> "acquire", session |-> t, known |-> terminals])

\* AttachTerminal in Observer mode
BeginObserve(k, t) ==
    t \in terminals /\ Begin(k, [op |-> "register", session |-> t])

\* SpawnTerminal
BeginSpawn(k, t) == Begin(k, [op |-> "claim", session |-> t, known |-> terminals])

\* TakeTerminalController
BeginTake(k) == Begin(k, [op |-> "take", known |-> terminals])

\* DetachTerminal of an attachment that is not known to be Interactive
BeginDetach(k, t) == Begin(k, [op |-> "unregister", session |-> t])

\* claim_terminal_control for SpawnTerminal
ClaimControl(k) ==
    LET r == request[k]
        c == Owner[k]
    IN /\ r.op = "claim"
       /\ IF MayClaim(c)
          THEN Claim(c, r.known) /\ Become(k, [op |-> "start", session |-> r.session])
          ELSE Become(k, NoRequest) /\ UNCHANGED runtimeVars
       /\ UNCHANGED <<terminals, presenceVars, attachments, sessionVars, conn, timerVars>>

\* The terminal starts unless its session is in use; the lease comes next.
StartTerminal(k) ==
    LET r == request[k]
    IN /\ r.op = "start"
       /\ IF r.session \notin terminals
          THEN /\ terminals' = terminals \cup {r.session}
               /\ Become(k, [op |-> "acquire", session |-> r.session,
                             known |-> terminals \cup {r.session}])
          ELSE Become(k, NoRequest) /\ UNCHANGED terminals
       /\ UNCHANGED <<runtimeVars, presenceVars, attachments, sessionVars, conn, timerVars>>

\* acquire_lease under the control lock.  A refused attach becomes an Observer's,
\* other refused requests fail.
AcquireLease(k) ==
    LET r == request[k]
        c == Owner[k]
    IN /\ r.op = "acquire"
       /\ IF MayClaim(c)
          THEN /\ ClaimLease(c, r.session, r.known)
               /\ Become(k, [op |-> "register", session |-> r.session])
          ELSE /\ \/ Become(k, [op |-> "register", session |-> r.session])
                  \/ Become(k, NoRequest)
               /\ UNCHANGED runtimeVars
       /\ UNCHANGED <<terminals, presenceVars, attachments, sessionVars, conn, timerVars>>

\* take_terminal_control
TakeControl(k) ==
    /\ request[k].op = "take"
    /\ RememberWriter(Owner[k])
    /\ HandControl(Owner[k], request[k].known)
    /\ Become(k, NoRequest)
    /\ UNCHANGED <<terminals, presenceVars, attachments, sessionVars, conn, timerVars>>

\* register_attachment after the response
RegisterAttachment(k) ==
    /\ request[k].op = "register"
    /\ attachments' = attachments \cup {<<Owner[k], request[k].session>>}
    /\ Become(k, NoRequest)
    /\ UNCHANGED <<terminals, runtimeVars, presenceVars, sessionVars, conn, timerVars>>

\* ReleaseTerminalLease, ReleaseTerminalControl, and the release of DetachTerminal,
\* whose attachment goes next
ReleaseControl(k, t) ==
    /\ \E op \in {"register", "unregister"} : Read(k, [op |-> op, session |-> t])
    /\ leases[t].holder = Owner[k]
    /\ Yield({t})
    /\ UNCHANGED <<terminals, presenceVars, attachments, sessionVars, conn, timerVars>>

\* release_attachment
ReleaseAttachment(k) ==
    /\ request[k].op = "unregister"
    /\ attachments' = attachments \ {<<Owner[k], request[k].session>>}
    /\ Become(k, NoRequest)
    /\ UNCHANGED <<terminals, runtimeVars, presenceVars, sessionVars, conn, timerVars>>

-----------------------------------------------------------------------------
(* Terminals the Host starts itself, and their removal.                    *)

\* a pane or an agent worker starts; no lease is involved
StartPane(t) ==
    /\ t \notin terminals
    /\ terminals' = terminals \cup {t}
    /\ UNCHANGED <<runtimeVars, presenceVars, attachments, sessionVars, conn, timerVars,
                   requestVars>>

\* The terminals of ts exited and are removed; under the terminals lock the leases of
\* the terminals in freed end, and attachments to ts.
RemoveTerminals(ts, freed) ==
    /\ terminals' = terminals \ ts
    /\ Yield(freed)
    /\ attachments' = {a \in attachments : a[2] \notin ts}
    /\ UNCHANGED <<presenceVars, sessionVars, conn, timerVars, requestVars>>

\* acknowledge_terminal_exit and discard_exited, with forget_terminal
ForgetTerminal(t) == t \in terminals /\ RemoveTerminals({t}, {t})

\* reap_expired_exits keeps the leases of the terminals it keeps
ReapExits(ts) ==
    ts # {} /\ ts \subseteq terminals /\ RemoveTerminals(ts, (Terminals \ terminals) \cup ts)

-----------------------------------------------------------------------------
\* The steps a connection task takes once it is due to take them.
ConnectionStep(k) ==
    \/ Serve(k)
    \/ GiveUp(k)
    \/ End(k)
    \/ CheckGrace(k)
    \/ ReleaseLeases(k)
    \/ PassControl(k)

RequestStep(k) ==
    \/ ClaimControl(k)
    \/ StartTerminal(k)
    \/ AcquireLease(k)
    \/ TakeControl(k)
    \/ RegisterAttachment(k)
    \/ ReleaseAttachment(k)
    \/ Abandon(k)

ClientStep(k) ==
    \/ Bind(k)
    \/ Suspend(k)
    \/ BeginTake(k)
    \/ \E t \in Terminals :
          \/ BeginAcquire(k, t)
          \/ BeginObserve(k, t)
          \/ BeginSpawn(k, t)
          \/ BeginDetach(k, t)
          \/ ReleaseControl(k, t)

TerminalStep ==
    \/ \E t \in Terminals : StartPane(t) \/ ForgetTerminal(t)
    \/ \E ts \in SUBSET Terminals : ReapExits(ts)

Next ==
    \/ \E k \in Connections : ConnectionStep(k) \/ RequestStep(k) \/ ClientStep(k)
    \/ TerminalStep
    \/ Prune

Spec == Init /\ [][Next]_vars

\* The task of a connection, its timer and its request are scheduled, and a replaced
\* connection ends; nothing makes a Client connect, drop its connection or send a
\* request.  Task and timer have a few steps each, so fairness of the two together gives
\* each its turn; requests may go on forever.
Fairness ==
    \A k \in Connections :
        /\ WF_vars(ConnectionStep(k) \/ (conn[k].replaced /\ Suspend(k)))
        /\ WF_vars(RequestStep(k))

FairSpec == Spec /\ Fairness

-----------------------------------------------------------------------------
\* Leases, controller, bindings, connections, timers and requests of HostRuntime and of
\* serve_client_session have their types; in particular epochs never fall below zero.
TypeOK ==
    /\ terminals \subseteq Terminals
    /\ leases \in [Terminals -> Lease]
    /\ nextLeaseEpoch \in Nat \ {0}
    /\ controller \in Clients \cup {Nobody}
    /\ controllerEpoch \in Nat
    /\ writers \in Seq(Clients)
    /\ present \in Seq(Clients)
    /\ suspended \subseteq Clients
    /\ attachments \subseteq Clients \X Terminals
    /\ sessions \in [Clients -> Binding]
    /\ idle \in Seq(Clients)
    /\ nextSlot \in Nat
    /\ conn \in [Connections -> Connection]
    /\ grace \in [Connections -> Grace]
    /\ request \in [Connections -> Request]
    /\ requests \in Nat
    /\ overdue \subseteq Connections

-----------------------------------------------------------------------------
(* Safety.                                                                 *)

Served(c) == \E k \in Connections : Owner[k] = c /\ conn[k].phase = "serving"

\* All Interactive leases belong to one Client, which is the controller while there is
\* one: whatever releases, hand-overs and requests interleave, no two Clients may write
\* at once (acquire_lease, hand_control_locked and release_client in runtime.rs).
OneWriter ==
    /\ \A t, u \in Terminals :
          {leases[t].holder, leases[u].holder} \subseteq Clients
             => leases[t].holder = leases[u].holder
    /\ controller \in Clients
          => \A t \in Terminals : leases[t].holder \in {controller, Nobody}

\* A lease epoch is never granted twice, to the same or to another terminal: what a
\* Client sends under a lease it lost stays invalid (grant_lease_locked).
LeaseEpochsNeverReturn ==
    [][/\ \A t \in Terminals :
             leases'[t] \notin {leases[t], NoLease}
                => leases'[t].lease_epoch >= nextLeaseEpoch
       /\ \A t, u \in Terminals :
             /\ t # u
             /\ {leases'[t].holder, leases'[u].holder} \subseteq Clients
             => leases'[t].lease_epoch # leases'[u].lease_epoch]_vars

\* Clients keep the TerminalController with the highest epoch they saw, so the epoch
\* grows with every change of the controller, also when nobody succeeds it, and with
\* nothing else (hand_control_locked, release_client).
ControllerChangesAreCounted ==
    [][controllerEpoch' = controllerEpoch + (IF controller' = controller THEN 0 ELSE 1)]_vars

\* A new connection of a session waits until the one it replaces ended: two connections
\* never serve one Client, nor does one release what the other registered (the slot in
\* serve_client_session).  This, and the next, hold
\* while no more bindings are idle than are kept: once a binding is pruned, generations
\* begin again, and a connection that still waits may take a new binding for its own.
OneServedConnection ==
    \A j, k \in Connections :
        Active(j) /\ Active(k) /\ Owner[j] = Owner[k] => j = k

\* The connection that serves a Client is the one its binding names unless a newer one
\* told it to end, so that an idle-looking binding never hides a live connection
\* (SessionConnectionGuard, prune_inactive_sessions).
ServedConnectionIsBound ==
    \A k \in Connections :
        Active(k) /\ ~conn[k].replaced => sessions[Owner[k]].connection = k

\* Control is never handed to a Client that left or that is only waiting out its grace
\* period (release_client).  Only the last request of a connection, if it still ran when the
\* connection dropped, takes control for a Client that is away, and then the timer that
\* releases the Client is still to come (suspend_client), but for a request that took
\* longer than the grace period.
Released(c) == \E k \in Connections :
                  /\ Owner[k] = c
                  /\ request[k] # NoRequest
                  /\ grace[k].phase = "sleeping" \/ k \in overdue

ControlGoesToConnected ==
    [][controller' \notin {controller, Nobody}
          => Served(controller') \/ Released(controller')]_vars

\* What the comment on LEASE_RECONNECT_GRACE and the architecture document (7.4) say:
\* when a grace timer decides to release a Client, the Client did not reconnect.
GraceSparesConnected ==
    [][\A k \in Connections :
          grace[k].phase = "sleeping" /\ grace'[k].phase = "releasing"
             => ~Served(Owner[k])]_vars

-----------------------------------------------------------------------------
(* Liveness, under FairSpec.                                               *)

Open(c) == \E k \in Connections :
              Owner[k] = c /\ conn[k].phase \in {"bound", "serving", "ending"}

\* A Client that left and does not come back does not keep the terminals: in the end it
\* holds no lease and is not the controller (the grace timer and release_client), unless a
\* request of it took longer than the grace period and nothing comes after it.
DepartedClientReleases ==
    []<>(\A c \in Clients : \/ Open(c)
                            \/ HeldBy(c) = {} /\ controller # c
                            \/ \E k \in overdue : Owner[k] = c)

\* A connection that waits for its predecessor is served unless a newer one replaces it.
\* A replaced one may wait as long as its successor is served, when it came second to
\* the slot.
WaitingConnectionProceeds ==
    []<>(\A k \in Connections : conn[k].phase = "bound" => conn[k].replaced)

=============================================================================
