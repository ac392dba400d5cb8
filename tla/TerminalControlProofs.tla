----------------------- MODULE TerminalControlProofs -----------------------
(* Theorems about TerminalControl, for every instance of its constants.    *)
EXTENDS TerminalControl, TLAPS, FiniteSetTheorems

-----------------------------------------------------------------------------
(* What the operators on the control state do.                             *)

\* Grant gives the terminals of ts to c under epochs that were never used.
LEMMA GrantEffect ==
    ASSUME TypeOK, NEW ts \in SUBSET Terminals, NEW c \in Clients, Grant(ts, c)
    PROVE  /\ leases' \in [Terminals -> Lease]
           /\ nextLeaseEpoch' \in Nat \ {0}
           /\ nextLeaseEpoch' >= nextLeaseEpoch
           /\ \A t \in Terminals :
                 IF t \in ts
                 THEN /\ leases'[t].holder = c
                      /\ leases'[t].lease_epoch \in nextLeaseEpoch .. nextLeaseEpoch' - 1
                 ELSE leases'[t] = leases[t]
           /\ \A t, u \in ts : leases'[t].lease_epoch = leases'[u].lease_epoch => t = u
<1> DEFINE range == nextLeaseEpoch .. nextLeaseEpoch + Cardinality(ts) - 1
<1>1. Cardinality(ts) \in Nat
  BY FS_Subset, FS_CardinalityType, ControlAssumption
<1>2. PICK stamp \in Injection(ts, range) :
         leases' = [t \in Terminals |-> IF t \in ts
                                        THEN [holder |-> c, lease_epoch |-> stamp[t]]
                                        ELSE leases[t]]
  BY DEF Grant
<1>3. /\ stamp \in [ts -> range]
      /\ \A t, u \in ts : stamp[t] = stamp[u] => t = u
  BY <1>2 DEF Injection, IsInjective
<1>4. nextLeaseEpoch' = nextLeaseEpoch + Cardinality(ts)
  BY DEF Grant
<1>5. \A t \in ts : stamp[t] \in Nat /\ stamp[t] >= nextLeaseEpoch
                                     /\ stamp[t] <= nextLeaseEpoch' - 1
  BY <1>1, <1>3, <1>4 DEF TypeOK
<1> QED
  BY <1>1, <1>2, <1>3, <1>4, <1>5 DEF TypeOK, Lease

\* HandControl makes c the controller; afterwards no other Client holds a lease, unless c
\* was the controller already.
LEMMA HandControlEffect ==
    ASSUME TypeOK, NEW c \in Clients, NEW known \in SUBSET Terminals, HandControl(c, known)
    PROVE  /\ leases' \in [Terminals -> Lease]
           /\ nextLeaseEpoch' \in Nat \ {0}
           /\ controller' = c
           /\ controllerEpoch' \in Nat
           /\ IF controller = c
              THEN leases' = leases
              ELSE \A t \in Terminals : leases'[t].holder \in {c, Nobody}
<1> DEFINE ts == {t \in Terminals : /\ leases[t].holder # c
                                    /\ t \in known \/ leases[t].holder # Nobody}
<1>1. CASE controller = c
  BY <1>1 DEF HandControl, TypeOK
<1>2. CASE controller # c
  <2>1. Grant(ts, c) /\ controller' = c /\ controllerEpoch' = controllerEpoch + 1
    BY <1>2 DEF HandControl
  <2>2. \A t \in Terminals \ ts : leases[t].holder \in {c, Nobody}
    OBVIOUS
  <2> HIDE DEF ts
  <2>3. ts \in SUBSET Terminals
    BY DEF ts
  <2>4. /\ leases' \in [Terminals -> Lease]
        /\ nextLeaseEpoch' \in Nat \ {0}
        /\ \A t \in Terminals : IF t \in ts THEN leases'[t].holder = c
                                            ELSE leases'[t] = leases[t]
    BY <2>1, <2>3, GrantEffect
  <2>5. \A t \in Terminals : leases'[t].holder \in {c, Nobody}
    BY <2>2, <2>4
  <2>6. controllerEpoch' \in Nat
    BY <2>1 DEF TypeOK
  <2> QED
    BY <1>2, <2>1, <2>4, <2>5, <2>6
<1> QED
  BY <1>1, <1>2

\* Claiming a lease, or control, keeps the types of the control state.
LEMMA ClaimType ==
    ASSUME TypeOK, NEW c \in Clients, NEW known \in SUBSET Terminals, Claim(c, known)
    PROVE  /\ leases' \in [Terminals -> Lease]
           /\ nextLeaseEpoch' \in Nat \ {0}
           /\ controller' \in Clients \cup {Nobody}
           /\ controllerEpoch' \in Nat
           /\ writers' \in Seq(Clients)
<1>1. writers' \in Seq(Clients)
  <2>1. writers \in Seq(Clients) /\ (Len(writers) = RememberedWriters => writers # <<>>)
    BY ControlAssumption DEF TypeOK
  <2> QED
    BY <2>1 DEF Claim, RememberWriter
<1>2. HandControl(c, known)
  BY DEF Claim
<1> QED
  BY <1>1, <1>2, HandControlEffect

\* Removing a Client from a sequence of Clients leaves a sequence of Clients.
LEMMA WithoutType ==
    ASSUME NEW seq \in Seq(Clients), NEW c \in Clients
    PROVE  Without(seq, c) \in Seq(Clients)
<1>1. CASE c \notin Range(seq)
  BY <1>1 DEF Without
<1>2. CASE c \in Range(seq)
  <2> DEFINE i == CHOOSE j \in DOMAIN seq : seq[j] = c
  <2>1. i \in 1 .. Len(seq)
    BY <1>2 DEF Range
  <2> HIDE DEF i
  <2>2. RemoveAt(seq, i) \in Seq(Clients)
    BY <2>1 DEF RemoveAt
  <2> QED
    BY <1>2, <2>2 DEF Without, i
<1> QED
  BY <1>1, <1>2

-----------------------------------------------------------------------------
(* Type correctness.                                                       *)

\* A new HostRuntime has its types.
THEOREM InitType == Init => TypeOK
<1> SUFFICES ASSUME Init PROVE TypeOK
  OBVIOUS
<1>1. leases \in [Terminals -> Lease]
  BY DEF Init, Lease, NoLease
<1>2. sessions \in [Clients -> Binding]
  BY DEF Init, Binding, NoBinding
<1>3. conn \in [Connections -> Connection] /\ grace \in [Connections -> Grace]
  BY DEF Init, Connection, Grace
<1>4. request \in [Connections -> Request]
  BY DEF Init, Request, NoRequest
<1> QED
  BY <1>1, <1>2, <1>3, <1>4 DEF Init, TypeOK

\* What the end of a connection leaves (Close).
LEMMA CloseType ==
    ASSUME TypeOK, NEW k \in Connections, Close(k)
    PROVE  /\ sessions' \in [Clients -> Binding]
           /\ idle' \in Seq(Clients)
           /\ nextSlot' \in Nat
           /\ conn' \in [Connections -> Connection]
<1>1. Owner[k] \in Clients
  BY ControlAssumption
<1>2. conn' \in [Connections -> Connection]
  BY DEF Close, SetPhase, TypeOK, Connection
<1>3. sessions' \in [Clients -> Binding]
  <2>1. sessions \in [Clients -> Binding] /\ NoConnection \in Connections \cup {NoConnection}
    BY DEF TypeOK
  <2>2. CASE sessions' = sessions
    BY <2>1, <2>2
  <2>3. CASE sessions' = [sessions EXCEPT ![Owner[k]].connection = NoConnection]
    BY <1>1, <2>1, <2>3 DEF Binding
  <2> QED
    BY <2>2, <2>3 DEF Close
<1>4. Append(Without(idle, Owner[k]), Owner[k]) \in Seq(Clients)
  BY <1>1, WithoutType DEF TypeOK
<1> QED
  BY <1>2, <1>3, <1>4 DEF Close, TypeOK

\* A request that becomes another one.
LEMMA BecomeType ==
    ASSUME TypeOK, NEW k \in Connections, NEW r \in Request, Become(k, r)
    PROVE  request' \in [Connections -> Request] /\ requests' \in Nat
BY DEF TypeOK, Become

\* A request that is read.
LEMMA ReadType ==
    ASSUME TypeOK, NEW k \in Connections, NEW r \in Request, Read(k, r)
    PROVE  request' \in [Connections -> Request] /\ requests' \in Nat
BY DEF TypeOK, Read

\* Reading a request keeps the types.
LEMMA BeginType ==
    ASSUME TypeOK, NEW k \in Connections, NEW r \in Request, Begin(k, r)
    PROVE  TypeOK'
BY ReadType DEF TypeOK, Begin, runtimeVars, presenceVars, sessionVars, timerVars

\* A request that the end of its connection finds running.
LEMMA InterruptType ==
    ASSUME TypeOK, NEW k \in Connections, Interrupt(k)
    PROVE  request' \in [Connections -> Request] /\ requests' \in Nat
<1>1. Begun \in Request
  BY DEF Begun, Request
<1> QED
  BY <1>1 DEF TypeOK, Interrupt, requestVars

\* What a connection that leaves does to the bindings.
LEMMA LeaveType ==
    ASSUME TypeOK, NEW k \in Connections, Leave(k)
    PROVE  /\ sessions' \in [Clients -> Binding]
           /\ idle' \in Seq(Clients)
           /\ nextSlot' \in Nat
           /\ conn' \in [Connections -> Connection]
<1>1. CASE Close(k)
  BY <1>1, CloseType
<1>2. CASE SetPhase(k, "ending") /\ UNCHANGED sessionVars
  BY <1>2 DEF SetPhase, sessionVars, TypeOK, Connection
<1> QED
  BY <1>1, <1>2 DEF Leave

\* The steps of connections and grace timers keep the types.
LEMMA ConnectionStepType ==
    ASSUME TypeOK, NEW k \in Connections, ConnectionStep(k) PROVE TypeOK'
<1> USE DEF runtimeVars, presenceVars, sessionVars, requestVars, timerVars
<1> DEFINE c == Owner[k]
<1>1. c \in Clients
  BY ControlAssumption
<1> HIDE DEF c
<1>2. CASE Serve(k)
  <2>1. present' \in Seq(Clients) /\ suspended' \subseteq Clients
    BY <1>1, <1>2, WithoutType DEF Serve, TypeOK, c
  <2>2. conn' \in [Connections -> Connection]
    BY <1>2 DEF Serve, SetPhase, TypeOK, Connection
  <2> QED
    BY <1>2, <2>1, <2>2 DEF Serve, TypeOK
<1>3. CASE GiveUp(k) \/ End(k)
  BY <1>3, CloseType DEF GiveUp, End, TypeOK
<1>4. CASE CheckGrace(k)
  <2>1. grace' \in [Connections -> Grace]
    BY <1>4 DEF CheckGrace, SetGrace, TypeOK, Grace
  <2>2. overdue' \subseteq Connections
    BY <1>4 DEF CheckGrace, Outlast, TypeOK
  <2> QED
    BY <1>4, <2>1, <2>2 DEF CheckGrace, TypeOK
<1>5. CASE ReleaseLeases(k)
  <2>1. grace' \in [Connections -> Grace]
    BY <1>5 DEF ReleaseLeases, TypeOK, Grace
  <2>2. leases' \in [Terminals -> Lease]
    BY <1>5 DEF ReleaseLeases, Yield, TypeOK, Lease, NoLease
  <2>3. present' \in Seq(Clients) /\ suspended' \subseteq Clients
    BY <1>1, <1>5, WithoutType DEF ReleaseLeases, TypeOK, c
  <2>4. attachments' \subseteq Clients \X Terminals
    BY <1>5 DEF ReleaseLeases, Detach, TypeOK
  <2> QED
    BY <1>5, <2>1, <2>2, <2>3, <2>4 DEF ReleaseLeases, Yield, TypeOK
<1>6. CASE PassControl(k)
  <2>1. grace' \in [Connections -> Grace]
    BY <1>6 DEF PassControl, TypeOK, Grace
  <2>2. grace[k].known \in SUBSET Terminals
    BY DEF TypeOK, Grace
  <2>3. /\ leases' \in [Terminals -> Lease]
        /\ nextLeaseEpoch' \in Nat \ {0}
        /\ controller' \in Clients \cup {Nobody}
        /\ controllerEpoch' \in Nat
    <3>1. CASE UNCHANGED <<leases, nextLeaseEpoch, controller, controllerEpoch>>
      BY <3>1 DEF TypeOK
    <3>2. CASE \E i \in DOMAIN present : HandControl(present[i], grace[k].known)
      <4>1. PICK i \in DOMAIN present : HandControl(present[i], grace[k].known)
        BY <3>2
      <4>2. present[i] \in Clients
        BY DEF TypeOK
      <4> QED
        BY <2>2, <4>1, <4>2, HandControlEffect
    <3>3. CASE /\ controller' = Nobody
               /\ controllerEpoch' = controllerEpoch + 1
               /\ UNCHANGED <<leases, nextLeaseEpoch>>
      BY <3>3 DEF TypeOK
    <3> QED
      BY <1>6, <3>1, <3>2, <3>3 DEF PassControl
  <2> QED
    BY <1>6, <2>1, <2>3 DEF PassControl, TypeOK
<1> QED
  BY <1>2, <1>3, <1>4, <1>5, <1>6 DEF ConnectionStep

\* The parts of a request in progress have their types.
LEMMA RequestParts ==
    ASSUME TypeOK, NEW k \in Connections
    PROVE  /\ request[k].op \in {"claim", "acquire", "take"}
                 => request[k].known \in SUBSET Terminals
           /\ request[k].op \in {"claim", "start", "acquire", "register", "unregister"}
                 => request[k].session \in Terminals
BY DEF TypeOK, Request

\* The steps of requests keep the types.
LEMMA RequestStepType ==
    ASSUME TypeOK, NEW k \in Connections, RequestStep(k) PROVE TypeOK'
<1> USE DEF runtimeVars, presenceVars, sessionVars, timerVars
<1> DEFINE c == Owner[k]
           r == request[k]
<1>1. c \in Clients
  BY ControlAssumption
<1>2. NoRequest \in Request
  BY DEF NoRequest, Request
<1>3. CASE ClaimControl(k)
  <2>1. r.known \in SUBSET Terminals /\ r.session \in Terminals
    BY <1>3, RequestParts DEF ClaimControl
  <2>2. [op |-> "start", session |-> r.session] \in Request
    BY <2>1 DEF Request
  <2>3. request' \in [Connections -> Request] /\ requests' \in Nat
    BY <1>2, <1>3, <2>2, BecomeType DEF ClaimControl
  <2>4. Claim(c, r.known) \/ UNCHANGED runtimeVars
    BY <1>3 DEF ClaimControl
  <2> QED
    BY <1>1, <1>3, <2>1, <2>3, <2>4, ClaimType DEF ClaimControl, TypeOK
<1>4. CASE StartTerminal(k)
  <2>1. r.session \in Terminals
    BY <1>4, RequestParts DEF StartTerminal
  <2>2. terminals \cup {r.session} \in SUBSET Terminals
    BY <2>1 DEF TypeOK
  <2>3. [op |-> "acquire", session |-> r.session, known |-> terminals \cup {r.session}]
           \in Request
    BY <2>1, <2>2 DEF Request
  <2>4. request' \in [Connections -> Request] /\ requests' \in Nat
    BY <1>2, <1>4, <2>3, BecomeType DEF StartTerminal
  <2> QED
    BY <1>4, <2>2, <2>4 DEF StartTerminal, TypeOK
<1>5. CASE AcquireLease(k)
  <2>1. r.known \in SUBSET Terminals /\ r.session \in Terminals
    BY <1>5, RequestParts DEF AcquireLease
  <2>2. [op |-> "register", session |-> r.session] \in Request
    BY <2>1 DEF Request
  <2>3. request' \in [Connections -> Request] /\ requests' \in Nat
    BY <1>2, <1>5, <2>2, BecomeType DEF AcquireLease
  <2>4. \/ Claim(c, r.known)
        \/ Grant({r.session}, c) /\ UNCHANGED <<controller, controllerEpoch, writers>>
        \/ UNCHANGED runtimeVars
    BY <1>5 DEF AcquireLease, ClaimLease
  <2>5. {r.session} \in SUBSET Terminals
    BY <2>1
  <2>6. /\ leases' \in [Terminals -> Lease]
        /\ nextLeaseEpoch' \in Nat \ {0}
        /\ controller' \in Clients \cup {Nobody}
        /\ controllerEpoch' \in Nat
        /\ writers' \in Seq(Clients)
    <3>1. CASE Claim(c, r.known)
      BY <1>1, <2>1, <3>1, ClaimType
    <3>2. CASE Grant({r.session}, c) /\ UNCHANGED <<controller, controllerEpoch, writers>>
      <4>1. leases' \in [Terminals -> Lease] /\ nextLeaseEpoch' \in Nat \ {0}
        BY <1>1, <2>5, <3>2, GrantEffect
      <4> QED
        BY <3>2, <4>1 DEF TypeOK
    <3>3. CASE UNCHANGED runtimeVars
      BY <3>3 DEF TypeOK
    <3> QED
      BY <2>4, <3>1, <3>2, <3>3
  <2> QED
    BY <1>5, <2>3, <2>6 DEF AcquireLease, TypeOK
<1>6. CASE TakeControl(k)
  <2>1. r.known \in SUBSET Terminals
    BY <1>6, RequestParts DEF TakeControl
  <2>2. request' \in [Connections -> Request] /\ requests' \in Nat
    BY <1>2, <1>6, BecomeType DEF TakeControl
  <2>3. writers \in Seq(Clients) /\ (Len(writers) = RememberedWriters => writers # <<>>)
    BY ControlAssumption DEF TypeOK
  <2>4. writers' \in Seq(Clients)
    BY <1>1, <1>6, <2>3 DEF TakeControl, RememberWriter
  <2> QED
    BY <1>1, <1>6, <2>1, <2>2, <2>4, HandControlEffect DEF TakeControl, TypeOK
<1>7. CASE RegisterAttachment(k)
  <2>1. r.session \in Terminals
    BY <1>7, RequestParts DEF RegisterAttachment
  <2>2. request' \in [Connections -> Request] /\ requests' \in Nat
    BY <1>2, <1>7, BecomeType DEF RegisterAttachment
  <2> QED
    BY <1>1, <1>7, <2>1, <2>2 DEF RegisterAttachment, TypeOK
<1>8. CASE ReleaseAttachment(k)
  <2>1. request' \in [Connections -> Request] /\ requests' \in Nat
    BY <1>2, <1>8, BecomeType DEF ReleaseAttachment
  <2> QED
    BY <1>8, <2>1 DEF ReleaseAttachment, TypeOK
<1>9. CASE Abandon(k)
  <2>1. request' \in [Connections -> Request] /\ requests' \in Nat
    BY <1>2, <1>9, BecomeType DEF Abandon
  <2> QED
    BY <1>9, <2>1 DEF Abandon, TypeOK
<1> QED
  BY <1>3, <1>4, <1>5, <1>6, <1>7, <1>8, <1>9 DEF RequestStep

\* A new binding is one.
LEMMA BindType ==
    ASSUME TypeOK, NEW k \in Connections, Bind(k) PROVE TypeOK'
<1> DEFINE c == Owner[k]
           old == sessions[c]
           slot == IF old.bound THEN old.slot ELSE nextSlot
<1>1. c \in Clients
  BY ControlAssumption
<1>2. old \in Binding /\ slot \in Nat
  BY <1>1 DEF TypeOK, Binding
<1>3. idle' \in Seq(Clients)
  BY <1>1, WithoutType DEF Bind, TypeOK
<1>4. old.generation + 1 \in Nat
  BY <1>2 DEF Binding
<1>5. [bound |-> TRUE, connection |-> k, generation |-> old.generation + 1, slot |-> slot]
         \in Binding
  BY <1>2, <1>4 DEF Binding
<1>6. sessions' = [sessions EXCEPT ![c] =
         [bound |-> TRUE, connection |-> k, generation |-> old.generation + 1,
          slot |-> slot]]
  BY DEF Bind
<1>7. sessions' \in [Clients -> Binding]
  BY <1>5, <1>6 DEF TypeOK
<1>8. \A j \in Connections :
         /\ [conn[j] EXCEPT !.phase = "bound", !.slot = slot,
                            !.generation = old.generation + 1] \in Connection
         /\ [conn[j] EXCEPT !.replaced = TRUE] \in Connection
         /\ conn[j] \in Connection
  BY <1>2, <1>4 DEF TypeOK, Connection
<1>9. conn' = [j \in Connections |->
         IF j = k THEN [conn[k] EXCEPT !.phase = "bound", !.slot = slot,
                                       !.generation = old.generation + 1]
         ELSE IF j = old.connection THEN [conn[j] EXCEPT !.replaced = TRUE]
         ELSE conn[j]]
  BY DEF Bind
<1>10. conn' \in [Connections -> Connection]
  BY <1>8, <1>9
<1>11. nextSlot' \in Nat
  BY DEF Bind, TypeOK
<1> QED
  BY <1>3, <1>7, <1>10, <1>11 DEF Bind, TypeOK, runtimeVars, presenceVars, requestVars, timerVars

\* What Clients do keeps the types.
LEMMA ClientStepType ==
    ASSUME TypeOK, NEW k \in Connections, ClientStep(k) PROVE TypeOK'
<1> USE DEF runtimeVars, presenceVars, sessionVars, timerVars
<1>1. Owner[k] \in Clients
  BY ControlAssumption
<1>2. \A t \in Terminals, known \in SUBSET Terminals :
         /\ [op |-> "take", known |-> known] \in Request
         /\ [op |-> "acquire", session |-> t, known |-> known] \in Request
         /\ [op |-> "claim", session |-> t, known |-> known] \in Request
         /\ [op |-> "register", session |-> t] \in Request
         /\ [op |-> "unregister", session |-> t] \in Request
  BY DEF Request
<1>3. terminals \in SUBSET Terminals
  BY DEF TypeOK
<1>4. CASE Bind(k)
  BY <1>4, BindType
<1>5. CASE Suspend(k)
  <2>1. present' \in Seq(Clients) /\ suspended' \subseteq Clients
    BY <1>1, <1>5, WithoutType DEF Suspend, TypeOK
  <2>2. attachments' \subseteq Clients \X Terminals
    BY <1>5 DEF Suspend, Detach, TypeOK
  <2>3. grace' \in [Connections -> Grace]
    BY <1>5 DEF Suspend, SetGrace, TypeOK, Grace
  <2>4. Leave(k) /\ Interrupt(k)
    BY <1>5 DEF Suspend
  <2> QED
    BY <1>5, <2>1, <2>2, <2>3, <2>4, InterruptType, LeaveType DEF Suspend, TypeOK
<1>6. CASE BeginTake(k)
  <2>1. [op |-> "take", known |-> terminals] \in Request
    BY <1>3 DEF Request
  <2> QED
    BY <1>6, <2>1, BeginType DEF BeginTake
<1>7. ASSUME NEW t \in Terminals,
             BeginAcquire(k, t) \/ BeginObserve(k, t) \/ BeginSpawn(k, t) \/ BeginDetach(k, t)
      PROVE  TypeOK'
  BY <1>2, <1>3, <1>7, BeginType DEF BeginAcquire, BeginObserve, BeginSpawn, BeginDetach
<1>8. ASSUME NEW t \in Terminals, ReleaseControl(k, t) PROVE TypeOK'
  <2>1. request' \in [Connections -> Request] /\ requests' \in Nat
    BY <1>2, <1>8, ReadType DEF ReleaseControl
  <2>2. leases' \in [Terminals -> Lease]
    BY <1>8 DEF ReleaseControl, Yield, TypeOK, Lease, NoLease
  <2> QED
    BY <1>8, <2>1, <2>2 DEF ReleaseControl, Yield, TypeOK
<1> QED
  BY <1>4, <1>5, <1>6, <1>7, <1>8 DEF ClientStep

\* Starting and removing terminals keeps the types.
LEMMA TerminalStepType == ASSUME TypeOK, TerminalStep PROVE TypeOK'
<1> USE DEF runtimeVars, presenceVars, sessionVars, requestVars, timerVars
<1>1. ASSUME NEW t \in Terminals, StartPane(t) PROVE TypeOK'
  BY <1>1 DEF StartPane, TypeOK
<1>2. ASSUME NEW ts \in SUBSET Terminals, NEW freed \in SUBSET Terminals, RemoveTerminals(ts, freed)
      PROVE  TypeOK'
  <2>1. leases' \in [Terminals -> Lease]
    BY <1>2 DEF RemoveTerminals, Yield, TypeOK, Lease, NoLease
  <2> QED
    BY <1>2, <2>1 DEF RemoveTerminals, Yield, TypeOK
<1> QED
  BY <1>1, <1>2 DEF TerminalStep, ForgetTerminal, ReapExits

\* Pruned bindings leave a sequence of Clients.
LEMMA PruneType == ASSUME TypeOK, Prune PROVE TypeOK'
<1>1. PICK n \in 1 .. Len(idle) :
         /\ sessions' = [c \in Clients |-> IF c \in {idle[i] : i \in 1 .. n} THEN NoBinding
                                            ELSE sessions[c]]
         /\ idle' = SubSeq(idle, n + 1, Len(idle))
  BY DEF Prune
<1>2. NoBinding \in Binding
  BY DEF NoBinding, Binding
<1>3. sessions' \in [Clients -> Binding]
  BY <1>1, <1>2 DEF TypeOK
<1>4. idle' \in Seq(Clients)
  BY <1>1 DEF TypeOK
<1> QED
  BY <1>3, <1>4 DEF Prune, TypeOK, runtimeVars, presenceVars, requestVars, timerVars

\* Every reachable state of every instance has the types TypeOK states.
THEOREM TypeCorrect == Spec => []TypeOK
<1>1. Init => TypeOK
  BY InitType
<1>2. TypeOK /\ [Next]_vars => TypeOK'
  <2> SUFFICES ASSUME TypeOK, [Next]_vars PROVE TypeOK'
    OBVIOUS
  <2>1. CASE Next
    BY <2>1, ConnectionStepType, RequestStepType, ClientStepType, TerminalStepType,
       PruneType DEF Next
  <2>2. CASE UNCHANGED vars
    BY <2>2 DEF vars, runtimeVars, presenceVars, sessionVars, requestVars, timerVars, TypeOK
  <2> QED
    BY <2>1, <2>2
<1> QED
  BY <1>1, <1>2, PTL DEF Spec

-----------------------------------------------------------------------------
(* What any step does to the leases and to the controller: it leaves them  *)
(* alone, hands control over, grants the controller one lease, takes       *)
(* leases back, or leaves nobody in control.                               *)

Untouched == UNCHANGED <<leases, nextLeaseEpoch, controller, controllerEpoch>>

HandsOver == \E c \in Clients, known \in SUBSET Terminals : HandControl(c, known)

GrantsController == \E t \in Terminals : /\ controller \in Clients
                                         /\ Grant({t}, controller)
                                         /\ UNCHANGED <<controller, controllerEpoch>>

TakesBack == \E ts \in SUBSET Terminals : Yield(ts)

LeavesNobody == /\ controller \in Clients
                /\ controller' = Nobody
                /\ controllerEpoch' = controllerEpoch + 1
                /\ UNCHANGED <<leases, nextLeaseEpoch>>

\* Every step is one of the five.
LEMMA ControlStep ==
    ASSUME TypeOK, [Next]_vars
    PROVE  Untouched \/ HandsOver \/ GrantsController \/ TakesBack \/ LeavesNobody
<1> USE DEF runtimeVars
<1> DEFINE Effect == Untouched \/ HandsOver \/ GrantsController \/ TakesBack \/ LeavesNobody
<1>1. \A k \in Connections : Owner[k] \in Clients
  BY ControlAssumption
<1>2. ASSUME NEW k \in Connections, ConnectionStep(k) PROVE Effect
  <2>1. CASE Serve(k) \/ GiveUp(k) \/ End(k) \/ CheckGrace(k)
    BY <2>1 DEF Serve, GiveUp, End, CheckGrace, Untouched
  <2>2. CASE ReleaseLeases(k)
    <3>1. HeldBy(Owner[k]) \in SUBSET Terminals /\ Yield(HeldBy(Owner[k]))
      BY <2>2 DEF HeldBy, ReleaseLeases
    <3> QED
      BY <3>1 DEF TakesBack
  <2>3. CASE PassControl(k)
    <3>1. CASE Untouched
      BY <3>1
    <3>2. CASE \E i \in DOMAIN present : HandControl(present[i], grace[k].known)
      <4>1. grace[k].known \in SUBSET Terminals
        BY DEF TypeOK, Grace
      <4>2. \A i \in DOMAIN present : present[i] \in Clients
        BY DEF TypeOK
      <4> QED
        BY <3>2, <4>1, <4>2 DEF HandsOver
    <3>3. CASE LeavesNobody
      BY <3>3
    <3> QED
      BY <1>1, <2>3, <3>1, <3>2, <3>3 DEF PassControl, Untouched, LeavesNobody
  <2> QED
    BY <1>2, <2>1, <2>2, <2>3 DEF ConnectionStep
<1>3. ASSUME NEW k \in Connections, RequestStep(k) PROVE Effect
  <2>1. CASE ClaimControl(k)
    <3>1. request[k].known \in SUBSET Terminals
      BY <2>1, RequestParts DEF ClaimControl
    <3>2. Claim(Owner[k], request[k].known) \/ UNCHANGED runtimeVars
      BY <2>1 DEF ClaimControl
    <3> QED
      BY <1>1, <3>1, <3>2 DEF Claim, HandsOver, Untouched
  <2>2. CASE AcquireLease(k)
    <3>1. request[k].known \in SUBSET Terminals /\ request[k].session \in Terminals
      BY <2>2, RequestParts DEF AcquireLease
    <3>2. \/ Claim(Owner[k], request[k].known)
          \/ /\ controller = Owner[k]
             /\ Grant({request[k].session}, Owner[k])
             /\ UNCHANGED <<controller, controllerEpoch, writers>>
          \/ UNCHANGED runtimeVars
      BY <2>2 DEF AcquireLease, ClaimLease
    <3> QED
      BY <1>1, <3>1, <3>2 DEF Claim, HandsOver, GrantsController, Untouched
  <2>3. CASE TakeControl(k)
    <3>1. request[k].known \in SUBSET Terminals
      BY <2>3, RequestParts DEF TakeControl
    <3> QED
      BY <1>1, <2>3, <3>1 DEF TakeControl, HandsOver
  <2>4. CASE \/ StartTerminal(k) \/ RegisterAttachment(k)
             \/ ReleaseAttachment(k) \/ Abandon(k)
    BY <2>4 DEF StartTerminal, RegisterAttachment, ReleaseAttachment, Abandon, Untouched
  <2> QED
    BY <1>3, <2>1, <2>2, <2>3, <2>4 DEF RequestStep
<1>4. ASSUME NEW k \in Connections, ClientStep(k) PROVE Effect
  <2>1. CASE Bind(k) \/ Suspend(k) \/ BeginTake(k)
    BY <2>1 DEF Bind, Suspend, BeginTake, Begin, Untouched
  <2>2. ASSUME NEW t \in Terminals,
               \/ BeginAcquire(k, t) \/ BeginObserve(k, t)
               \/ BeginSpawn(k, t) \/ BeginDetach(k, t)
        PROVE  Effect
    BY <2>2 DEF BeginAcquire, BeginObserve, BeginSpawn, BeginDetach, Begin, Untouched
  <2>3. ASSUME NEW t \in Terminals, ReleaseControl(k, t) PROVE Effect
    <3>1. {t} \in SUBSET Terminals /\ Yield({t})
      BY <2>3 DEF ReleaseControl
    <3> QED
      BY <3>1 DEF TakesBack
  <2> QED
    BY <1>4, <2>1, <2>2, <2>3 DEF ClientStep
<1>5. CASE TerminalStep
  <2>1. ASSUME NEW t \in Terminals, StartPane(t) PROVE Effect
    BY <2>1 DEF StartPane, Untouched
  <2>2. ASSUME NEW ts \in SUBSET Terminals, NEW freed \in SUBSET Terminals, RemoveTerminals(ts, freed)
        PROVE  Effect
    BY <2>2 DEF RemoveTerminals, TakesBack
  <2> QED
    BY <1>5, <2>1, <2>2 DEF TerminalStep, ForgetTerminal, ReapExits
<1>6. CASE Prune
  BY <1>6 DEF Prune, Untouched
<1>7. CASE UNCHANGED vars
  BY <1>7 DEF vars, Untouched
<1> QED
  BY <1>2, <1>3, <1>4, <1>5, <1>6, <1>7 DEF Next

-----------------------------------------------------------------------------
(* One Client writes.                                                      *)

\* OneWriter is inductive with the types: a hand-over leaves only the new controller's
\* leases, the controller alone is granted single ones, and while nobody is in control
\* no lease is granted without a hand-over.
LEMMA OneWriterStep ==
    ASSUME TypeOK, OneWriter, [Next]_vars
    PROVE  OneWriter'
<1> USE DEF OneWriter
<1>0. Nobody \notin Clients
  BY ControlAssumption
<1>1. CASE Untouched
  BY <1>1 DEF Untouched
<1>2. CASE HandsOver
  <2>1. PICK c \in Clients, known \in SUBSET Terminals : HandControl(c, known)
    BY <1>2 DEF HandsOver
  <2>2. CASE controller = c
    BY <2>1, <2>2 DEF HandControl
  <2>3. CASE controller # c
    <3>1. controller' = c /\ \A t \in Terminals : leases'[t].holder \in {c, Nobody}
      BY <2>1, <2>3, HandControlEffect
    <3> QED
      BY <1>0, <3>1
  <2> QED
    BY <2>2, <2>3
<1>3. CASE GrantsController
  <2>1. PICK t \in Terminals : Grant({t}, controller) /\ controller' = controller
                               /\ controller \in Clients
    BY <1>3 DEF GrantsController
  <2> DEFINE ts == {t}
  <2>4. ts \in SUBSET Terminals /\ Grant(ts, controller)
    BY <2>1
  <2> HIDE DEF ts
  <2>5. \A u \in Terminals : IF u \in ts THEN leases'[u].holder = controller
                                         ELSE leases'[u] = leases[u]
    BY <2>1, <2>4, GrantEffect
  <2>2. \A u \in Terminals : \/ leases'[u].holder = controller
                             \/ leases'[u] = leases[u]
    BY <2>5
  <2>3. \A u \in Terminals : leases'[u].holder \in {controller, Nobody}
    BY <2>1, <2>2
  <2> QED
    BY <1>0, <2>1, <2>3
<1>4. CASE TakesBack
  <2>1. controller' = controller /\ \A t \in Terminals : leases'[t] \in {NoLease, leases[t]}
    BY <1>4 DEF TakesBack, Yield
  <2>2. \A t \in Terminals : leases'[t].holder \in {Nobody, leases[t].holder}
    BY <2>1 DEF NoLease
  <2> QED
    BY <1>0, <2>1, <2>2
<1>5. CASE LeavesNobody
  BY <1>0, <1>5 DEF LeavesNobody
<1> QED
  BY <1>1, <1>2, <1>3, <1>4, <1>5, ControlStep

\* No interleaving of requests, reconnections, releases and hand-overs, with any number of
\* Clients, connections and terminals, lets two Clients hold Interactive leases at once.
THEOREM OneWriterAlways == Spec => []OneWriter
<1>1. Init => OneWriter
  BY ControlAssumption DEF Init, OneWriter, NoLease
<1>2. TypeOK /\ OneWriter /\ [Next]_vars => OneWriter'
  BY OneWriterStep
<1> QED
  BY <1>1, <1>2, TypeCorrect, PTL DEF Spec

-----------------------------------------------------------------------------
(* Epochs.                                                                 *)

\* The controller epoch counts the changes of the controller, in every instance.
THEOREM ControllerChangesCounted == Spec => ControllerChangesAreCounted
<1>1. TypeOK /\ [Next]_vars =>
         [controllerEpoch' = controllerEpoch + (IF controller' = controller THEN 0 ELSE 1)]_vars
  <2> SUFFICES ASSUME TypeOK, [Next]_vars
               PROVE  controllerEpoch' = controllerEpoch
                                           + (IF controller' = controller THEN 0 ELSE 1)
    OBVIOUS
  <2>1. CASE Untouched
    BY <2>1 DEF Untouched, TypeOK
  <2>2. CASE HandsOver
    BY <2>2 DEF HandsOver, HandControl, TypeOK
  <2>3. CASE GrantsController
    BY <2>3 DEF GrantsController, TypeOK
  <2>4. CASE TakesBack
    BY <2>4 DEF TakesBack, Yield, TypeOK
  <2>5. CASE LeavesNobody
    BY <2>5, ControlAssumption DEF LeavesNobody, TypeOK
  <2> QED
    BY <2>1, <2>2, <2>3, <2>4, <2>5, ControlStep
<1> QED
  BY <1>1, TypeCorrect, PTL DEF Spec, ControllerChangesAreCounted

\* The leases held are older than the next lease epoch and differ in their epochs.
EpochsUsed ==
    /\ \A t \in Terminals :
          leases[t].holder \in Clients => leases[t].lease_epoch < nextLeaseEpoch
    /\ \A t, u \in Terminals :
          /\ t # u
          /\ {leases[t].holder, leases[u].holder} \subseteq Clients
          => leases[t].lease_epoch # leases[u].lease_epoch

\* A lease is given with an epoch that was never used, or it is a lease held before.
LeasesFresh ==
    \A t \in Terminals : leases'[t] \notin {leases[t], NoLease}
                            => leases'[t].lease_epoch >= nextLeaseEpoch

\* A grant keeps the epochs apart and takes fresh ones.
LEMMA GrantEpochs ==
    ASSUME TypeOK, EpochsUsed, NEW ts \in SUBSET Terminals, NEW c \in Clients, Grant(ts, c)
    PROVE  EpochsUsed' /\ LeasesFresh
<1>1. /\ leases' \in [Terminals -> Lease]
      /\ nextLeaseEpoch \in Nat /\ nextLeaseEpoch' \in Nat
      /\ nextLeaseEpoch' >= nextLeaseEpoch
      /\ \A t \in ts : leases'[t].lease_epoch \in nextLeaseEpoch .. nextLeaseEpoch' - 1
      /\ \A t \in Terminals \ ts : leases'[t] = leases[t]
      /\ \A t, u \in ts : leases'[t].lease_epoch = leases'[u].lease_epoch => t = u
  BY GrantEffect DEF TypeOK
<1>2. \A t \in Terminals : leases[t].lease_epoch \in Nat /\ leases'[t].lease_epoch \in Nat
  BY <1>1 DEF TypeOK, Lease
<1>3. LeasesFresh
  BY <1>1, <1>2 DEF LeasesFresh
<1>4. \A t \in Terminals :
         leases'[t].holder \in Clients => leases'[t].lease_epoch < nextLeaseEpoch'
  BY <1>1, <1>2 DEF EpochsUsed
<1>5. ASSUME NEW t \in Terminals, NEW u \in Terminals, t # u,
             leases'[t].holder \in Clients, leases'[u].holder \in Clients
      PROVE  leases'[t].lease_epoch # leases'[u].lease_epoch
  <2>1. CASE t \in ts /\ u \in ts
    BY <1>1, <1>5, <2>1
  <2>2. CASE t \notin ts /\ u \notin ts
    BY <1>1, <1>5, <2>2 DEF EpochsUsed
  <2>3. CASE t \in ts /\ u \notin ts
    BY <1>1, <1>2, <1>5, <2>3 DEF EpochsUsed
  <2>4. CASE t \notin ts /\ u \in ts
    BY <1>1, <1>2, <1>5, <2>4 DEF EpochsUsed
  <2> QED
    BY <2>1, <2>2, <2>3, <2>4
<1> QED
  BY <1>3, <1>4, <1>5 DEF EpochsUsed

\* Every step keeps the epochs apart and takes fresh ones.
LEMMA EpochsStep ==
    ASSUME TypeOK, EpochsUsed, [Next]_vars
    PROVE  EpochsUsed' /\ LeasesFresh
<1>0. Nobody \notin Clients
  BY ControlAssumption
<1>1. ASSUME nextLeaseEpoch' = nextLeaseEpoch,
             \A t \in Terminals : leases'[t] \in {leases[t], NoLease}
      PROVE  EpochsUsed' /\ LeasesFresh
  <2>1. \A t \in Terminals : leases'[t].holder \in Clients => leases'[t] = leases[t]
    BY <1>0, <1>1 DEF NoLease
  <2>2. LeasesFresh
    BY <1>1 DEF LeasesFresh
  <2>3. \A t \in Terminals :
           leases'[t].holder \in Clients => leases'[t].lease_epoch < nextLeaseEpoch'
    BY <1>1, <2>1 DEF EpochsUsed
  <2>4. ASSUME NEW t \in Terminals, NEW u \in Terminals, t # u,
               leases'[t].holder \in Clients, leases'[u].holder \in Clients
        PROVE  leases'[t].lease_epoch # leases'[u].lease_epoch
    BY <2>1, <2>4 DEF EpochsUsed
  <2> QED
    BY <2>2, <2>3, <2>4 DEF EpochsUsed
<1>2. CASE Untouched
  BY <1>1, <1>2 DEF Untouched
<1>3. CASE HandsOver
  <2>1. PICK c \in Clients, known \in SUBSET Terminals : HandControl(c, known)
    BY <1>3 DEF HandsOver
  <2>2. CASE controller = c
    BY <1>1, <2>1, <2>2 DEF HandControl
  <2>3. CASE controller # c
    <3> DEFINE ts == {t \in Terminals : /\ leases[t].holder # c
                                        /\ t \in known \/ leases[t].holder # Nobody}
    <3>1. Grant(ts, c)
      BY <2>1, <2>3 DEF HandControl
    <3>2. ts \in SUBSET Terminals
      OBVIOUS
    <3> HIDE DEF ts
    <3> QED
      BY <3>1, <3>2, GrantEpochs
  <2> QED
    BY <2>2, <2>3
<1>4. CASE GrantsController
  <2>1. PICK t \in Terminals : controller \in Clients /\ Grant({t}, controller)
    BY <1>4 DEF GrantsController
  <2>2. {t} \in SUBSET Terminals
    OBVIOUS
  <2> QED
    BY <2>1, <2>2, GrantEpochs
<1>5. CASE TakesBack
  BY <1>1, <1>5 DEF TakesBack, Yield
<1>6. CASE LeavesNobody
  BY <1>1, <1>6 DEF LeavesNobody
<1> QED
  BY <1>2, <1>3, <1>4, <1>5, <1>6, ControlStep

\* A lease epoch is never given out twice, in every instance: a request stamped with an
\* epoch that was revoked can never become valid again.
THEOREM EpochsNeverReturn == Spec => LeaseEpochsNeverReturn
<1> DEFINE Fresh == /\ LeasesFresh
                    /\ \A t, u \in Terminals :
                          /\ t # u
                          /\ {leases'[t].holder, leases'[u].holder} \subseteq Clients
                          => leases'[t].lease_epoch # leases'[u].lease_epoch
<1>1. Init => EpochsUsed
  BY ControlAssumption DEF Init, EpochsUsed, NoLease
<1>2. TypeOK /\ EpochsUsed /\ [Next]_vars => EpochsUsed' /\ Fresh
  BY EpochsStep DEF EpochsUsed
<1>3. TypeOK /\ EpochsUsed /\ [Next]_vars => [Fresh]_vars
  BY <1>2
<1>4. [Fresh]_vars =>
         [/\ \A t \in Terminals :
                leases'[t] \notin {leases[t], NoLease}
                   => leases'[t].lease_epoch >= nextLeaseEpoch
          /\ \A t, u \in Terminals :
                /\ t # u
                /\ {leases'[t].holder, leases'[u].holder} \subseteq Clients
                => leases'[t].lease_epoch # leases'[u].lease_epoch]_vars
  BY DEF LeasesFresh
<1> QED
  BY <1>1, <1>2, <1>3, <1>4, TypeCorrect, PTL DEF Spec, LeaseEpochsNeverReturn

-----------------------------------------------------------------------------
(* Bindings.                                                               *)

\* No more bindings are idle than MAX_IDLE_CLIENT_SESSIONS: only those idle for long go.
FewIdle == Len(idle) <= MaxIdleSessions

Live(k) == conn[k].phase \in {"bound", "serving", "ending"}

\* A connection that waits, serves or ends holds the slot of its Client's binding and is not
\* newer than it; it is told to end unless the binding names it.
LiveBound(k) ==
    LET binding == sessions[Owner[k]]
    IN  /\ binding.bound
        /\ conn[k].slot = binding.slot
        /\ conn[k].generation <= binding.generation
        /\ conn[k].generation = binding.generation => binding.connection = k
        /\ ~conn[k].replaced => conn[k].generation = binding.generation

BindingNames ==
    /\ \A c \in Clients : \A k \in Connections : sessions[c].connection = k => Owner[k] = c
    /\ \A k \in Connections : Live(k) => LiveBound(k)

\* A step that leaves the bindings and all connections but k alone, and lets none go
\* further than to its end, keeps BindingNames.
LEMMA BindingKept ==
    ASSUME BindingNames, UNCHANGED sessions,
           \A k \in Connections : /\ Live(k)' => Live(k)
                                  /\ conn'[k].slot = conn[k].slot
                                  /\ conn'[k].generation = conn[k].generation
                                  /\ conn'[k].replaced = conn[k].replaced
    PROVE  BindingNames'
BY DEF BindingNames, LiveBound

\* The end of a connection keeps BindingNames: it clears the binding only if it is the
\* one that the binding names, and then every other one was told to end.
LEMMA CloseBinding ==
    ASSUME TypeOK, BindingNames, NEW k \in Connections, Live(k), Close(k)
    PROVE  BindingNames'
<1> DEFINE c == Owner[k]
<1>1. c \in Clients /\ \A j \in Connections : Owner[j] \in Clients
  BY ControlAssumption
<1>2. NoConnection \notin Connections
  BY ControlAssumption
<1>3. /\ conn' = [conn EXCEPT ![k].phase = "closed"]
      /\ conn \in [Connections -> Connection]
      /\ sessions \in [Clients -> Binding]
  BY DEF Close, SetPhase, TypeOK
<1>4. \A j \in Connections : /\ Live(j)' => Live(j) /\ j # k
                             /\ conn'[j].slot = conn[j].slot
                             /\ conn'[j].generation = conn[j].generation
                             /\ conn'[j].replaced = conn[j].replaced
  BY <1>3 DEF Live, Connection
<1>5. CASE ~(sessions[c].bound /\ sessions[c].generation = conn[k].generation)
  <2>1. UNCHANGED sessions
    BY <1>5 DEF Close
  <2> QED
    BY <1>4, <2>1, BindingKept
<1>6. CASE sessions[c].bound /\ sessions[c].generation = conn[k].generation
  <2>1. sessions' = [sessions EXCEPT ![c].connection = NoConnection]
    BY <1>6 DEF Close
  <2>2. sessions[c].connection = k
    BY <1>6 DEF BindingNames, LiveBound
  <2>3. \A d \in Clients :
           /\ sessions'[d].bound = sessions[d].bound
           /\ sessions'[d].slot = sessions[d].slot
           /\ sessions'[d].generation = sessions[d].generation
           /\ sessions'[d].connection = IF d = c THEN NoConnection
                                                 ELSE sessions[d].connection
    BY <1>1, <1>3, <2>1 DEF Binding
  <2>4. \A d \in Clients : \A j \in Connections :
           sessions'[d].connection = j => Owner[j] = d
    BY <1>2, <2>3 DEF BindingNames
  <2>5. ASSUME NEW j \in Connections, Live(j)' PROVE LiveBound(j)'
    <3>1. LiveBound(j) /\ j # k
      BY <1>4, <2>5 DEF BindingNames
    <3>2. CASE Owner[j] # c
      BY <1>1, <1>4, <2>3, <3>1, <3>2 DEF LiveBound
    <3>3. CASE Owner[j] = c
      <4>1. conn[j].generation # sessions[c].generation
        BY <2>2, <3>1, <3>3 DEF LiveBound
      <4> QED
        BY <1>1, <1>4, <2>3, <3>1, <3>3, <4>1 DEF LiveBound
    <3> QED
      BY <3>2, <3>3
  <2> QED
    BY <2>4, <2>5 DEF BindingNames
<1> QED
  BY <1>5, <1>6

\* A new connection takes the binding over and tells the one it names.
LEMMA BindBinding ==
    ASSUME TypeOK, BindingNames, NEW k \in Connections, Bind(k)
    PROVE  BindingNames'
<1> DEFINE c == Owner[k]
           old == sessions[c]
           slot == IF old.bound THEN old.slot ELSE nextSlot
           new == [bound |-> TRUE, connection |-> k, generation |-> old.generation + 1,
                   slot |-> slot]
<1>1. c \in Clients /\ \A j \in Connections : Owner[j] \in Clients
  BY ControlAssumption
<1>2. /\ conn \in [Connections -> Connection]
      /\ sessions \in [Clients -> Binding]
      /\ conn[k].phase = "new"
      /\ sessions' = [sessions EXCEPT ![c] = new]
      /\ conn' = [j \in Connections |->
             IF j = k THEN [conn[k] EXCEPT !.phase = "bound", !.slot = slot,
                                           !.generation = old.generation + 1]
             ELSE IF j = old.connection THEN [conn[j] EXCEPT !.replaced = TRUE]
             ELSE conn[j]]
  BY DEF Bind, TypeOK
<1>3. old \in Binding /\ old.generation \in Nat
  BY <1>1, <1>2 DEF Binding
<1>4. sessions'[c] = new /\ \A d \in Clients \ {c} : sessions'[d] = sessions[d]
  BY <1>1, <1>2
<1>5. \A d \in Clients : \A j \in Connections : sessions'[d].connection = j => Owner[j] = d
  BY <1>4 DEF BindingNames
<1>6. ASSUME NEW j \in Connections, Live(j)', j # k PROVE LiveBound(j)'
  <2>1. /\ Live(j)
        /\ conn'[j].slot = conn[j].slot
        /\ conn'[j].generation = conn[j].generation
        /\ conn'[j].replaced = (conn[j].replaced \/ j = old.connection)
    BY <1>2, <1>6 DEF Live, Connection
  <2>2. LiveBound(j)
    BY <2>1 DEF BindingNames
  <2>3. CASE Owner[j] # c
    <3>1. sessions'[Owner[j]] = sessions[Owner[j]]
      BY <1>1, <1>4, <2>3
    <3>2. j # old.connection
      BY <1>1, <2>3 DEF BindingNames
    <3> QED
      BY <2>1, <2>2, <3>1, <3>2 DEF LiveBound
  <2>4. CASE Owner[j] = c
    <3>1. /\ old.bound
          /\ conn[j].slot = old.slot
          /\ conn[j].generation \in Nat
          /\ conn[j].generation <= old.generation
          /\ ~conn[j].replaced => old.connection = j
      BY <1>2, <2>2, <2>4 DEF LiveBound, Connection
    <3>2. conn'[j].replaced
      BY <2>1, <3>1
    <3>3. conn[j].generation < old.generation + 1
      BY <1>3, <3>1
    <3> QED
      BY <1>3, <1>4, <2>1, <2>4, <3>1, <3>2, <3>3 DEF LiveBound
  <2> QED
    BY <2>3, <2>4
<1>7. LiveBound(k)'
  <2>1. conn'[k].slot = slot /\ conn'[k].generation = old.generation + 1
    BY <1>2 DEF Connection
  <2> QED
    BY <1>3, <1>4, <2>1 DEF LiveBound
<1> QED
  BY <1>5, <1>6, <1>7 DEF BindingNames

\* A binding that was idle for long has no connection that waits or serves.
LEMMA PruneBinding ==
    ASSUME TypeOK, BindingNames, FewIdle, Prune
    PROVE  BindingNames'
<1>1. PICK n \in 1 .. Len(idle) :
         /\ \A i \in 1 .. n : i <= Len(idle) - MaxIdleSessions \/ Settled(idle[i])
         /\ sessions' = [c \in Clients |-> IF c \in {idle[i] : i \in 1 .. n} THEN NoBinding
                                            ELSE sessions[c]]
  BY DEF Prune
<1>2. conn' = conn
  BY DEF Prune
<1>3. Len(idle) \in Nat /\ MaxIdleSessions \in Nat
  BY ControlAssumption DEF TypeOK
<1>4. \A i \in 1 .. n : Settled(idle[i])
  BY <1>1, <1>3 DEF FewIdle
<1>5. \A k \in Connections : Live(k) => sessions'[Owner[k]] = sessions[Owner[k]]
  BY <1>1, <1>4, ControlAssumption DEF Settled, Live
<1>6. \A c \in Clients : \A k \in Connections : sessions'[c].connection = k => Owner[k] = c
  BY <1>1, ControlAssumption DEF BindingNames, NoBinding
<1> QED
  BY <1>2, <1>5, <1>6 DEF BindingNames, Live, LiveBound

\* Every step keeps BindingNames while few bindings are idle.
LEMMA BindingStep ==
    ASSUME TypeOK, BindingNames, FewIdle, [Next]_vars
    PROVE  BindingNames'
<1> USE DEF sessionVars
<1>1. ASSUME UNCHANGED <<sessions, conn>> PROVE BindingNames'
  BY <1>1 DEF BindingNames, Live, LiveBound
<1>2. ASSUME NEW k \in Connections, ConnectionStep(k) PROVE BindingNames'
  <2>1. CASE Serve(k)
    <3>1. \A j \in Connections : /\ Live(j)' => Live(j)
                                 /\ conn'[j].slot = conn[j].slot
                                 /\ conn'[j].generation = conn[j].generation
                                 /\ conn'[j].replaced = conn[j].replaced
      BY <2>1 DEF Serve, SetPhase, Live, TypeOK, Connection
    <3>2. UNCHANGED sessions
      BY <2>1 DEF Serve
    <3> QED
      BY <3>1, <3>2, BindingKept
  <2>2. CASE GiveUp(k) \/ End(k)
    BY <2>2, CloseBinding DEF GiveUp, End, Live
  <2>3. CASE CheckGrace(k) \/ ReleaseLeases(k) \/ PassControl(k)
    BY <1>1, <2>3 DEF CheckGrace, ReleaseLeases, PassControl
  <2> QED
    BY <1>2, <2>1, <2>2, <2>3 DEF ConnectionStep
<1>3. ASSUME NEW k \in Connections, RequestStep(k) PROVE BindingNames'
  BY <1>1, <1>3 DEF RequestStep, ClaimControl, StartTerminal, AcquireLease, TakeControl,
                    RegisterAttachment, ReleaseAttachment, Abandon
<1>4. ASSUME NEW k \in Connections, ClientStep(k) PROVE BindingNames'
  <2>1. CASE Bind(k)
    BY <2>1, BindBinding
  <2>2. CASE Suspend(k)
    <3>1. Live(k)
      BY <2>2 DEF Suspend, Live
    <3>2. CASE Close(k)
      BY <3>1, <3>2, CloseBinding
    <3>3. CASE SetPhase(k, "ending") /\ UNCHANGED sessions
      <4>1. \A j \in Connections : /\ Live(j)' => Live(j)
                                   /\ conn'[j].slot = conn[j].slot
                                   /\ conn'[j].generation = conn[j].generation
                                   /\ conn'[j].replaced = conn[j].replaced
        BY <3>1, <3>3 DEF SetPhase, Live, TypeOK, Connection
      <4> QED
        BY <3>3, <4>1, BindingKept
    <3> QED
      BY <2>2, <3>2, <3>3 DEF Suspend, Leave
  <2>3. CASE ~Bind(k) /\ ~Suspend(k)
    BY <1>1, <1>4, <2>3 DEF ClientStep, BeginTake, BeginAcquire, BeginObserve, BeginSpawn,
                            BeginDetach, Begin, ReleaseControl
  <2> QED
    BY <2>1, <2>2, <2>3
<1>5. CASE TerminalStep
  BY <1>1, <1>5 DEF TerminalStep, StartPane, ForgetTerminal, ReapExits, RemoveTerminals
<1>6. CASE Prune
  BY <1>6, PruneBinding
<1>7. CASE UNCHANGED vars
  BY <1>1, <1>7 DEF vars
<1> QED
  BY <1>2, <1>3, <1>4, <1>5, <1>6, <1>7 DEF Next

\* Only Serve starts to serve a connection.
LEMMA ServingStep ==
    ASSUME TypeOK, [Next]_vars, NEW k \in Connections, ~Serve(k), Active(k)'
    PROVE  Active(k)
<1> USE DEF sessionVars, Active
<1>1. CASE UNCHANGED conn
  BY <1>1
<1>2. ASSUME NEW j \in Connections, ConnectionStep(j) PROVE Active(k)
  <2>1. CASE Serve(j) \/ GiveUp(j) \/ End(j)
    BY <2>1 DEF Serve, GiveUp, End, Close, SetPhase, TypeOK, Connection
  <2>2. CASE CheckGrace(j) \/ ReleaseLeases(j) \/ PassControl(j)
    BY <1>1, <2>2 DEF CheckGrace, ReleaseLeases, PassControl
  <2> QED
    BY <1>2, <2>1, <2>2 DEF ConnectionStep
<1>3. ASSUME NEW j \in Connections, RequestStep(j) PROVE Active(k)
  BY <1>1, <1>3 DEF RequestStep, ClaimControl, StartTerminal, AcquireLease, TakeControl,
                    RegisterAttachment, ReleaseAttachment, Abandon
<1>4. ASSUME NEW j \in Connections, ClientStep(j) PROVE Active(k)
  <2>1. CASE Bind(j)
    BY <2>1 DEF Bind, TypeOK, Connection
  <2>2. CASE Suspend(j)
    BY <2>2 DEF Suspend, Leave, Close, SetPhase, TypeOK, Connection
  <2>3. CASE ~Bind(j) /\ ~Suspend(j)
    BY <1>1, <1>4, <2>3 DEF ClientStep, BeginTake, BeginAcquire, BeginObserve, BeginSpawn,
                            BeginDetach, Begin, ReleaseControl
  <2> QED
    BY <2>1, <2>2, <2>3
<1>5. CASE TerminalStep \/ Prune
  BY <1>1, <1>5 DEF TerminalStep, StartPane, ForgetTerminal, ReapExits, RemoveTerminals, Prune
<1>6. CASE UNCHANGED vars
  BY <1>1, <1>6 DEF vars
<1> QED
  BY <1>2, <1>3, <1>4, <1>5, <1>6 DEF Next

\* A connection that starts to serve waited until no other one had its slot.
LEMMA OneServedStep ==
    ASSUME TypeOK, BindingNames, OneServedConnection, [Next]_vars
    PROVE  OneServedConnection'
<1>1. ASSUME NEW j \in Connections, NEW k \in Connections, j # k, Owner[j] = Owner[k],
             Serve(k), Active(j)'
      PROVE  FALSE
  <2>1. Active(j)
    BY <1>1 DEF Serve, SetPhase, Active, TypeOK, Connection
  <2>2. Live(j) /\ Live(k)
    BY <1>1, <2>1 DEF Serve, Live, Active
  <2>3. conn[j].slot = conn[k].slot
    BY <1>1, <2>2 DEF BindingNames, LiveBound
  <2> QED
    BY <1>1, <2>1, <2>3 DEF Serve, SlotFree
<1>2. SUFFICES ASSUME NEW j \in Connections, NEW k \in Connections,
                      Active(j)', Active(k)',
                      Owner[j] = Owner[k], j # k
               PROVE  FALSE
  BY DEF OneServedConnection
<1>3. CASE Serve(j) \/ Serve(k)
  BY <1>1, <1>2, <1>3
<1>4. CASE ~Serve(j) /\ ~Serve(k)
  <2>1. Active(j) /\ Active(k)
    BY <1>2, <1>4, ServingStep
  <2> QED
    BY <1>2, <2>1 DEF OneServedConnection
<1> QED
  BY <1>3, <1>4

\* At first nothing is bound.
LEMMA BindingInit == Init => BindingNames /\ OneServedConnection
BY ControlAssumption DEF Init, BindingNames, Live, LiveBound, Active,
                        OneServedConnection, NoBinding

\* As long as no more bindings are idle than MAX_IDLE_CLIENT_SESSIONS, one connection serves
\* a Client, in every instance.  Without that a binding may be pruned, and its generations
\* used again, while a replaced connection still waits to end.
THEOREM OneServedWhileFewIdle == Spec /\ []FewIdle => []OneServedConnection
<1>1. Init => BindingNames /\ OneServedConnection
  BY BindingInit
<1>2. TypeOK /\ FewIdle /\ BindingNames /\ OneServedConnection /\ [Next]_vars
         => (BindingNames /\ OneServedConnection)'
  BY BindingStep, OneServedStep
<1> QED
  BY <1>1, <1>2, TypeCorrect, PTL DEF Spec

\* And the connection that serves a Client is the one its binding names, or was told to
\* end: pruning never takes a binding from under it.
THEOREM ServedWhileBound == Spec /\ []FewIdle => []ServedConnectionIsBound
<1>1. Init => BindingNames
  BY BindingInit
<1>2. TypeOK /\ FewIdle /\ BindingNames /\ [Next]_vars => BindingNames'
  BY BindingStep
<1>3. BindingNames => ServedConnectionIsBound
  BY DEF BindingNames, Live, LiveBound, Active, ServedConnectionIsBound
<1> QED
  BY <1>1, <1>2, <1>3, TypeCorrect, PTL DEF Spec

-----------------------------------------------------------------------------
(* Who becomes controller.                                                 *)

\* The elements of a concatenation.
LEMMA Concatenation ==
    ASSUME NEW S, NEW front \in Seq(S), NEW back \in Seq(S)
    PROVE  /\ DOMAIN (front \o back) = 1 .. Len(front) + Len(back)
           /\ \A j \in 1 .. Len(front) + Len(back) :
                 (front \o back)[j] = IF j <= Len(front) THEN front[j] ELSE back[j - Len(front)]
OBVIOUS

\* Removing c from a sequence without repetitions leaves the others, once each.
LEMMA WithoutRange ==
    ASSUME NEW seq \in Seq(Clients), NEW c \in Clients,
           \A i, j \in DOMAIN seq : seq[i] = seq[j] => i = j
    PROVE  LET rest == Without(seq, c)
           IN  /\ \A i, j \in DOMAIN rest : rest[i] = rest[j] => i = j
               /\ \A i \in DOMAIN rest : rest[i] # c /\ \E j \in DOMAIN seq : rest[i] = seq[j]
<1>1. CASE c \notin Range(seq)
  BY <1>1 DEF Without, Range
<1>2. CASE c \in Range(seq)
  <2> DEFINE i == CHOOSE j \in DOMAIN seq : seq[j] = c
             rest == RemoveAt(seq, i)
  <2>1. i \in 1 .. Len(seq) /\ seq[i] = c
    BY <1>2 DEF Range
  <2>2. Without(seq, c) = rest
    BY <1>2 DEF Without
  <2> HIDE DEF i
  <2>3. /\ DOMAIN rest = 1 .. Len(seq) - 1
        /\ \A j \in DOMAIN rest : rest[j] = seq[IF j < i THEN j ELSE j + 1]
    <3> DEFINE front == SubSeq(seq, 1, i - 1)
               back == SubSeq(seq, i + 1, Len(seq))
    <3>1. /\ front \in Seq(Clients) /\ Len(front) = i - 1
          /\ \A j \in 1 .. i - 1 : front[j] = seq[j]
      BY <2>1
    <3>2. /\ back \in Seq(Clients) /\ Len(back) = Len(seq) - i
          /\ \A j \in 1 .. Len(seq) - i : back[j] = seq[i + j]
      BY <2>1
    <3>3. rest = front \o back
      BY DEF RemoveAt
    <3> HIDE DEF front, back
    <3>4. /\ DOMAIN rest = 1 .. (i - 1) + (Len(seq) - i)
          /\ \A j \in 1 .. (i - 1) + (Len(seq) - i) :
                rest[j] = IF j <= i - 1 THEN front[j] ELSE back[j - (i - 1)]
      <4> HIDE DEF rest
      <4>1. Len(front) = i - 1 /\ Len(back) = Len(seq) - i
        BY <3>1, <3>2
      <4>2. /\ DOMAIN rest = 1 .. Len(front) + Len(back)
            /\ \A j \in 1 .. Len(front) + Len(back) :
                  rest[j] = IF j <= Len(front) THEN front[j] ELSE back[j - Len(front)]
        <5>1. front \in Seq(Clients) /\ back \in Seq(Clients)
          BY <3>1, <3>2
        <5>2. /\ DOMAIN (front \o back) = 1 .. Len(front) + Len(back)
              /\ \A j \in 1 .. Len(front) + Len(back) :
                    (front \o back)[j]
                       = IF j <= Len(front) THEN front[j] ELSE back[j - Len(front)]
          BY ONLY <5>1, Concatenation, Zenon
        <5> QED
          BY <3>3, <5>2, Zenon
      <4> QED
        BY <4>1, <4>2, Zenon
    <3> HIDE DEF rest
    <3>5. ASSUME NEW j \in DOMAIN rest PROVE rest[j] = seq[IF j < i THEN j ELSE j + 1]
      <4>1. CASE j < i
        <5>1. j \in 1 .. i - 1 /\ j <= i - 1
          BY <2>1, <3>4, <4>1
        <5>2. rest[j] = front[j]
          BY <3>4, <5>1
        <5> QED
          BY <3>1, <4>1, <5>1, <5>2
      <4>2. CASE j >= i
        <5>1. j - (i - 1) \in 1 .. Len(seq) - i /\ i + (j - (i - 1)) = j + 1
          BY <2>1, <3>4, <4>2
        <5>2. rest[j] = back[j - (i - 1)]
          BY <2>1, <3>4, <4>2
        <5>3. back[j - (i - 1)] = seq[i + (j - (i - 1))]
          BY <3>2, <5>1
        <5>4. ~(j < i)
          BY <2>1, <3>4, <4>2
        <5> QED
          BY <5>1, <5>2, <5>3, <5>4
      <4> QED
        BY <2>1, <3>4, <4>1, <4>2
    <3> QED
      BY <2>1, <3>4, <3>5
  <2> HIDE DEF rest
  <2>4. \A j \in DOMAIN rest : /\ (IF j < i THEN j ELSE j + 1) \in DOMAIN seq
                               /\ (IF j < i THEN j ELSE j + 1) # i
    BY <2>1, <2>3
  <2>5. \A j, l \in DOMAIN rest : rest[j] = rest[l] => j = l
    BY <2>1, <2>3, <2>4
  <2>6. \A j \in DOMAIN rest : rest[j] # c /\ \E l \in DOMAIN seq : rest[j] = seq[l]
    BY <2>1, <2>3, <2>4
  <2> QED
    BY <2>2, <2>5, <2>6
<1> QED
  BY <1>1, <1>2

\* Those present are served and listed once.
PresentServed ==
    /\ \A i, j \in DOMAIN present : present[i] = present[j] => i = j
    /\ \A i \in DOMAIN present : Served(present[i])

\* A step that does not end a connection that serves keeps PresentServed if nobody becomes
\* present.
LEMMA PresentKept ==
    ASSUME TypeOK, PresentServed, UNCHANGED present,
           \A k \in Connections : conn[k].phase = "serving" => conn'[k].phase = "serving"
    PROVE  PresentServed'
<1>1. \A i \in DOMAIN present : Served(present[i])'
  BY DEF PresentServed, Served
<1> QED
  BY <1>1 DEF PresentServed

\* Every step keeps PresentServed.
LEMMA PresentStep ==
    ASSUME TypeOK, PresentServed, [Next]_vars
    PROVE  PresentServed'
<1> USE DEF presenceVars
<1>0. /\ conn \in [Connections -> Connection]
      /\ present \in Seq(Clients)
      /\ \A k \in Connections : Owner[k] \in Clients
  BY ControlAssumption DEF TypeOK
<1>1. ASSUME UNCHANGED <<present, conn>> PROVE PresentServed'
  BY <1>1, PresentKept DEF PresentServed
<1>2. ASSUME NEW k \in Connections, Serve(k) PROVE PresentServed'
  <2> DEFINE c == Owner[k]
             rest == Without(present, c)
  <2>1. c \in Clients /\ rest \in Seq(Clients)
    BY <1>0, WithoutType
  <2>2. /\ \A i, j \in DOMAIN rest : rest[i] = rest[j] => i = j
        /\ \A i \in DOMAIN rest : rest[i] # c /\ \E j \in DOMAIN present : rest[i] = present[j]
    BY <1>0, <2>1, WithoutRange DEF PresentServed
  <2> HIDE DEF rest
  <2>3. /\ present' = Append(rest, c)
        /\ conn' = [conn EXCEPT ![k].phase = "serving"]
    BY <1>2 DEF Serve, SetPhase, rest
  <2>4. \A j \in Connections : conn[j].phase = "serving" \/ j = k => conn'[j].phase = "serving"
    BY <1>0, <2>3 DEF Connection
  <2>5. ASSUME NEW i \in DOMAIN rest
        PROVE  \E l \in Connections : Owner[l] = rest[i] /\ conn'[l].phase = "serving"
    <3>1. PICK j \in DOMAIN present : rest[i] = present[j]
      BY <2>2
    <3> QED
      BY <2>4, <3>1 DEF PresentServed, Served
  <2>6. \E l \in Connections : Owner[l] = c /\ conn'[l].phase = "serving"
    BY <2>4
  <2>7. /\ DOMAIN present' = 1 .. Len(rest) + 1
        /\ present'[Len(rest) + 1] = c
        /\ \A i \in DOMAIN rest : present'[i] = rest[i]
        /\ DOMAIN rest = 1 .. Len(rest) /\ Len(rest) \in Nat
    BY <2>1, <2>3
  <2>8. \A i, j \in DOMAIN present' : present'[i] = present'[j] => i = j
    BY <2>2, <2>7
  <2>9. \A i \in DOMAIN present' :
            \E l \in Connections : Owner[l] = present'[i] /\ conn'[l].phase = "serving"
    <3> HIDE DEF c
    <3>1. SUFFICES ASSUME NEW i \in DOMAIN present'
                   PROVE  \E l \in Connections :
                             Owner[l] = present'[i] /\ conn'[l].phase = "serving"
      OBVIOUS
    <3>2. CASE i \in DOMAIN rest
      BY <2>5, <2>7, <3>2
    <3>3. CASE i = Len(rest) + 1
      BY <2>6, <2>7, <3>3
    <3> QED
      BY <2>7, <3>2, <3>3
  <2> QED
    BY <2>8, <2>9 DEF PresentServed, Served
<1>3. ASSUME NEW k \in Connections, present' = Without(present, Owner[k]),
             \A j \in Connections : conn[j].phase = "serving" /\ Owner[j] # Owner[k]
                                       => conn'[j].phase = "serving"
      PROVE  PresentServed'
  <2> DEFINE rest == Without(present, Owner[k])
  <2>1. /\ \A i, j \in DOMAIN rest : rest[i] = rest[j] => i = j
        /\ \A i \in DOMAIN rest : /\ rest[i] # Owner[k]
                                  /\ \E j \in DOMAIN present : rest[i] = present[j]
    BY <1>0, WithoutRange DEF PresentServed
  <2> HIDE DEF rest
  <2>2. ASSUME NEW i \in DOMAIN rest
        PROVE  \E l \in Connections : Owner[l] = rest[i] /\ conn'[l].phase = "serving"
    <3>1. PICK j \in DOMAIN present : rest[i] = present[j]
      BY <2>1
    <3>2. PICK l \in Connections : Owner[l] = rest[i] /\ conn[l].phase = "serving"
      BY <3>1 DEF PresentServed, Served
    <3> QED
      BY <1>3, <2>1, <3>2
  <2>3. present' = rest
    BY <1>3 DEF rest
  <2> QED
    BY <1>3, <2>1, <2>2, <2>3 DEF PresentServed, Served
<1>4. ASSUME NEW k \in Connections, ReleaseLeases(k) PROVE PresentServed'
  BY <1>3, <1>4 DEF ReleaseLeases
<1>5. ASSUME NEW k \in Connections, Suspend(k) PROVE PresentServed'
  <2>1. present' = Without(present, Owner[k])
    BY <1>5 DEF Suspend
  <2>2. \A j \in Connections : j # k => conn'[j] = conn[j]
    BY <1>0, <1>5 DEF Suspend, Leave, Close, SetPhase
  <2> QED
    BY <1>3, <2>1, <2>2
<1>6. ASSUME NEW k \in Connections, GiveUp(k) \/ End(k) PROVE PresentServed'
  <2>1. \A j \in Connections : conn[j].phase = "serving" => conn'[j].phase = "serving"
    BY <1>0, <1>6 DEF GiveUp, End, Close, SetPhase, Connection
  <2> QED
    BY <1>6, <2>1, PresentKept DEF GiveUp, End
<1>7. ASSUME NEW k \in Connections, Bind(k) PROVE PresentServed'
  <2>1. \A j \in Connections : conn[j].phase = "serving" => conn'[j].phase = "serving"
    BY <1>0, <1>7 DEF Bind, Connection
  <2> QED
    BY <1>7, <2>1, PresentKept DEF Bind
<1>8. ASSUME NEW k \in Connections, RequestStep(k) PROVE PresentServed'
  BY <1>1, <1>8 DEF RequestStep, ClaimControl, StartTerminal, AcquireLease, TakeControl,
                    RegisterAttachment, ReleaseAttachment, Abandon
<1>9. ASSUME NEW k \in Connections, ClientStep(k), ~Bind(k), ~Suspend(k) PROVE PresentServed'
  BY <1>1, <1>9 DEF ClientStep, BeginTake, BeginAcquire, BeginObserve, BeginSpawn, BeginDetach,
                    Begin, ReleaseControl
<1>10. ASSUME NEW k \in Connections, CheckGrace(k) \/ PassControl(k) PROVE PresentServed'
  BY <1>1, <1>10 DEF CheckGrace, PassControl
<1>11. CASE TerminalStep \/ Prune
  BY <1>1, <1>11 DEF TerminalStep, StartPane, ForgetTerminal, ReapExits, RemoveTerminals, Prune
<1>12. CASE UNCHANGED vars
  BY <1>1, <1>12 DEF vars
<1> QED
  BY <1>2, <1>4, <1>5, <1>6, <1>7, <1>8, <1>9, <1>10, <1>11, <1>12
     DEF Next, ConnectionStep, ClientStep

\* A request in progress is one of a connection that is served, or of one that ended and
\* whose timer still runs, or that outlasted its timer.
RequestsTimed ==
    \A k \in Connections :
        request[k] # NoRequest => \/ conn[k].phase = "serving"
                                  \/ grace[k].phase = "sleeping"
                                  \/ k \in overdue

\* A step that ends no service, stops no timer and starts requests only on served
\* connections keeps RequestsTimed.
LEMMA TimedKept ==
    ASSUME RequestsTimed,
           \A k \in Connections :
              /\ conn[k].phase = "serving" => conn'[k].phase = "serving"
              /\ grace[k].phase = "sleeping" => grace'[k].phase = "sleeping"
              /\ k \in overdue => k \in overdue'
              /\ request'[k] # NoRequest => request[k] # NoRequest \/ conn[k].phase = "serving"
    PROVE  RequestsTimed'
BY DEF RequestsTimed

\* Every step keeps RequestsTimed: the end of a connection starts the timer, and a timer
\* that ends counts the request among those overdue.
LEMMA TimedStep ==
    ASSUME TypeOK, RequestsTimed, [Next]_vars
    PROVE  RequestsTimed'
<1> USE DEF requestVars, timerVars
<1>0. /\ request \in [Connections -> Request]
      /\ grace \in [Connections -> Grace]
      /\ conn \in [Connections -> Connection]
      /\ \A k \in Connections : conn[k].generation <= conn[k].generation
  BY DEF TypeOK, Connection
<1>1. ASSUME UNCHANGED <<conn, grace, overdue, request>> PROVE RequestsTimed'
  BY <1>1, TimedKept
<1>2. ASSUME NEW k \in Connections, Serve(k) \/ GiveUp(k) \/ End(k) \/ Bind(k)
      PROVE  RequestsTimed'
  <2>1. \A j \in Connections : conn[j].phase = "serving" => conn'[j].phase = "serving"
    <3>1. CASE Serve(k)
      BY <1>0, <3>1 DEF Serve, SetPhase, Connection
    <3>2. CASE GiveUp(k) \/ End(k)
      BY <1>0, <3>2 DEF GiveUp, End, Close, SetPhase, Connection
    <3>3. CASE Bind(k)
      BY <1>0, <3>3 DEF Bind, Connection
    <3> QED
      BY <1>2, <3>1, <3>2, <3>3
  <2>2. UNCHANGED <<grace, overdue, request>>
    BY <1>2 DEF Serve, GiveUp, End, Bind
  <2> QED
    BY <2>1, <2>2, TimedKept
<1>3. ASSUME NEW k \in Connections, Suspend(k) PROVE RequestsTimed'
  <2>1. /\ grace' = [grace EXCEPT ![k].phase = "sleeping"]
        /\ overdue' = overdue
        /\ \A j \in Connections : j # k => conn'[j] = conn[j] /\ request'[j] = request[j]
    BY <1>0, <1>3 DEF Suspend, SetGrace, Interrupt, Leave, Close, SetPhase
  <2>2. grace'[k].phase = "sleeping" /\ \A j \in Connections : j # k => grace'[j] = grace[j]
    BY <1>0, <2>1 DEF Grace
  <2> QED
    BY <2>1, <2>2 DEF RequestsTimed
<1>4. ASSUME NEW k \in Connections, CheckGrace(k) PROVE RequestsTimed'
  <2>1. UNCHANGED <<conn, request>>
    BY <1>4 DEF CheckGrace
  <2>2. \A j \in Connections : j # k => grace'[j] = grace[j]
    BY <1>0, <1>4 DEF CheckGrace, SetGrace
  <2>3. overdue \subseteq overdue' /\ (request[k] # NoRequest => k \in overdue')
    BY <1>0, <1>4 DEF CheckGrace, Outlast
  <2> QED
    BY <2>1, <2>2, <2>3 DEF RequestsTimed
<1>5. ASSUME NEW k \in Connections, ReleaseLeases(k) \/ PassControl(k) PROVE RequestsTimed'
  <2>1. UNCHANGED <<conn, request, overdue>>
    BY <1>5 DEF ReleaseLeases, PassControl
  <2>2. \A j \in Connections : grace[j].phase = "sleeping" => grace'[j] = grace[j]
    BY <1>0, <1>5 DEF ReleaseLeases, PassControl
  <2> QED
    BY <2>1, <2>2, TimedKept
<1>6. ASSUME NEW k \in Connections, RequestStep(k) PROVE RequestsTimed'
  <2>1. UNCHANGED <<conn, grace, overdue>> /\ \E r : request' = [request EXCEPT ![k] = r]
    BY <1>6 DEF RequestStep, ClaimControl, StartTerminal, AcquireLease, TakeControl,
                RegisterAttachment, ReleaseAttachment, Abandon, Become
  <2>2. request[k].op # "none"
    BY <1>6 DEF RequestStep, ClaimControl, StartTerminal, AcquireLease, TakeControl,
                RegisterAttachment, ReleaseAttachment, Abandon, Begun
  <2>3. \A j \in Connections : request'[j] # NoRequest => request[j] # NoRequest
    BY <1>0, <2>1, <2>2 DEF NoRequest
  <2> QED
    BY <2>1, <2>3, TimedKept
<1>7. ASSUME NEW k \in Connections, NEW r, Read(k, r), UNCHANGED <<conn, grace, overdue>>
      PROVE  RequestsTimed'
  <2>1. Begun # NoRequest
    BY DEF Begun, NoRequest
  <2>2. \A j \in Connections :
           request'[j] # NoRequest => request[j] # NoRequest \/ conn[j].phase = "serving"
    BY <1>0, <1>7, <2>1 DEF Read
  <2> QED
    BY <1>7, <2>2, TimedKept
<1>8. ASSUME NEW k \in Connections, ClientStep(k), ~Bind(k), ~Suspend(k) PROVE RequestsTimed'
  <2>1. UNCHANGED <<conn, grace, overdue>> /\ \E r : Read(k, r)
    BY <1>8 DEF ClientStep, BeginTake, BeginAcquire, BeginObserve, BeginSpawn, BeginDetach,
                Begin, ReleaseControl
  <2> QED
    BY <1>7, <2>1
<1>9. CASE TerminalStep \/ Prune
  BY <1>1, <1>9 DEF TerminalStep, StartPane, ForgetTerminal, ReapExits, RemoveTerminals, Prune
<1>10. CASE UNCHANGED vars
  BY <1>1, <1>10 DEF vars
<1> QED
  BY <1>2, <1>3, <1>4, <1>5, <1>6, <1>8, <1>9, <1>10 DEF Next, ConnectionStep, ClientStep

\* A step that changes the controller to a Client changes it to one that is served, or
\* that a request of it, whose connection ended, asked for before its timer is done.
LEMMA ControllerServed ==
    ASSUME TypeOK, PresentServed, RequestsTimed, [Next]_vars,
           controller' \notin {controller, Nobody}
    PROVE  Served(controller') \/ Released(controller')
<1> USE DEF runtimeVars
<1>1. ASSUME NEW k \in Connections, RequestStep(k)
      PROVE  Served(controller') \/ Released(controller')
  <2>1. controller' = Owner[k]
    BY <1>1 DEF RequestStep, ClaimControl, StartTerminal, AcquireLease, TakeControl,
                RegisterAttachment, ReleaseAttachment, Abandon, Claim, ClaimLease,
                HandControl, Become
  <2>2. request[k].op # "none"
    BY <1>1 DEF RequestStep, ClaimControl, StartTerminal, AcquireLease, TakeControl,
                RegisterAttachment, ReleaseAttachment, Abandon, Begun
  <2>3. request[k] # NoRequest
    BY <2>2 DEF NoRequest
  <2> QED
    BY <2>1, <2>3 DEF RequestsTimed, Served, Released
<1>2. ASSUME NEW k \in Connections, PassControl(k) PROVE Served(controller')
  <2>1. PICK i \in DOMAIN present : controller' = present[i]
    BY <1>2 DEF PassControl, HandControl
  <2> QED
    BY <2>1 DEF PresentServed
<1>3. ASSUME NEW k \in Connections, ConnectionStep(k), ~PassControl(k) PROVE FALSE
  BY <1>3 DEF ConnectionStep, Serve, GiveUp, End, CheckGrace, ReleaseLeases, Yield
<1>4. ASSUME NEW k \in Connections, ClientStep(k) PROVE FALSE
  BY <1>4 DEF ClientStep, Bind, Suspend, BeginTake, BeginAcquire, BeginObserve, BeginSpawn,
              BeginDetach, Begin, ReleaseControl, Yield
<1>5. CASE TerminalStep \/ Prune \/ UNCHANGED vars
  BY <1>5 DEF TerminalStep, StartPane, ForgetTerminal, ReapExits, RemoveTerminals, Yield,
              Prune, vars
<1> QED
  BY <1>1, <1>2, <1>3, <1>4, <1>5 DEF Next

\* In every instance whoever becomes controller is being served at that moment, or is a
\* Client whose last request outlived its connection and whose timer is still to release
\* it, unless the request took longer than the timer.
THEOREM ControlGoesToServed == Spec => ControlGoesToConnected
<1>1. Init => PresentServed /\ RequestsTimed
  BY DEF Init, PresentServed, RequestsTimed, NoRequest
<1>2. TypeOK /\ PresentServed /\ RequestsTimed /\ [Next]_vars
         => (PresentServed /\ RequestsTimed)'
  BY PresentStep, TimedStep
<1>3. TypeOK /\ PresentServed /\ RequestsTimed /\ [Next]_vars
         => [controller' \notin {controller, Nobody}
                => Served(controller') \/ Released(controller')]_vars
  BY ControllerServed
<1> QED
  BY <1>1, <1>2, <1>3, TypeCorrect, PTL DEF Spec, ControlGoesToConnected

=============================================================================
