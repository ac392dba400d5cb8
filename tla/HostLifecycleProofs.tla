-------------------------- MODULE HostLifecycleProofs --------------------------
(***************************************************************************)
(* Safety of HostLifecycle, for any resources, owners and askers.          *)
(***************************************************************************)
EXTENDS HostLifecycle, TLAPS

\* A Host that left the running mode does not return to it, and what run copied of the
\* mode is no newer than the mode.
ModeKept == loop.mode # "running" => mode # "running"

\* What was seen of a drained Host stays: nothing is admitted any more, so nothing that
\* a request asks for appears.
SeenStays ==
    /\ loop.phase \in {"read", "looked"} /\ loop.mode = "draining" /\ loop.pending = {}
          => admitted = {}
    /\ loop.phase = "looked" /\ loop.mode = "draining" /\ loop.idle
          => /\ loop.pending = {}
             /\ \A r \in Terminals \cup Projects : resources[r] \in {"none", "gone"}

\* Exits are handled of processes that exited while the Host ran; it ends others.
ExitsKept ==
    /\ \A p \in exiting \cup recorded : resources[p] \in {"exited", "gone"}
    /\ killed # {} => mode # "running"
    /\ killed \cap (exiting \cup recorded) = {}

Safe == TypeOK /\ ModeKept /\ SeenStays /\ ExitsKept

-----------------------------------------------------------------------------
\* Sets of resources are disjoint, so that what a resource may be says what it is.
LEMMA Kinds ==
    /\ \A r \in Terminals : r \in Resources /\ r \notin Projects \cup Links \cup Panes
    /\ \A r \in Projects : r \in Resources /\ r \notin Terminals \cup Links \cup Panes
    /\ \A r \in Links : r \in Resources /\ r \notin Processes \cup Projects
    /\ \A r \in Panes : r \in Resources /\ r \notin Requested
  BY LifecycleAssumption DEF Resources, Requested, Processes

\* A Host starts in a safe state.
LEMMA InitSafe == Init => Safe
<1> SUFFICES ASSUME Init PROVE Safe
  OBVIOUS
<1>1. TypeOK
  <2>1. \A r \in Resources : resources[r] = "none" /\ "none" \in Phases(r)
    BY DEF Init, Phases
  <2> QED
    BY <2>1 DEF Init, TypeOK, Loop
<1> QED
  BY <1>1 DEF Init, Safe, ModeKept, SeenStays, ExitsKept

-----------------------------------------------------------------------------
\* A resource that changes keeps to the phases of its kind.
LEMMA BecomeType ==
    ASSUME TypeOK, NEW r \in Resources, NEW state \in Phases(r), Become(r, state)
    PROVE  /\ DOMAIN resources' = Resources
           /\ \A s \in Resources : resources'[s] \in Phases(s)
  BY DEF Become, TypeOK

\* Type correctness of the steps of resources.
LEMMA ResourceStepType == TypeOK /\ ResourceStep => TypeOK'
<1> SUFFICES ASSUME TypeOK, ResourceStep PROVE TypeOK'
  OBVIOUS
<1> USE DEF resourceVars, paneVars, ownerVars, runVars, Announce
<1>1. ASSUME NEW r \in Requested, Admit(r) \/ Admitted(r) PROVE TypeOK'
  BY <1>1 DEF Admit, Admitted, TypeOK, Phases
<1>2. ASSUME NEW r \in Resources, NEW state \in Phases(r), Become(r, state),
             UNCHANGED <<mode, admitted, killed, ownerVars, askers, runVars, stopSent>>,
             owed' \in BOOLEAN, exiting' \subseteq Panes, recorded' \subseteq Panes
      PROVE  TypeOK'
  <2>1. /\ DOMAIN resources' = Resources
        /\ \A s \in Resources : resources'[s] \in Phases(s)
    BY <1>2, BecomeType
  <2>2. \A s \in Resources : Phases(s)' = Phases(s)
    BY DEF Phases
  <2> QED
    BY <1>2, <2>1, <2>2 DEF TypeOK
<1>3. ASSUME NEW r \in Requested, Create(r) PROVE TypeOK'
  <2>1. r \in Resources /\ Created(r) \in Phases(r)
    BY DEF Resources, Created, Phases
  <2> QED
    BY <1>2, <1>3, <2>1 DEF Create, TypeOK
<1>4. ASSUME NEW r \in Resources, End(r) \/ Release(r) \/ Vanish(r) PROVE TypeOK'
  <2>1. "gone" \in Phases(r) /\ (r \in Processes \cup Links => "exited" \in Phases(r))
    BY Kinds DEF Phases, Processes
  <2> QED
    BY <1>2, <1>4, <2>1 DEF End, Release, Vanish, TypeOK
<1>5. ASSUME NEW l \in Links, ListLink(l) PROVE TypeOK'
  <2>1. l \in Resources /\ "live" \in Phases(l)
    BY Kinds DEF Phases
  <2> QED
    BY <1>2, <1>5, <2>1 DEF ListLink, TypeOK
<1>6. ASSUME NEW p \in Panes, LaunchPane(p) PROVE TypeOK'
  <2>1. p \in Resources /\ "live" \in Phases(p)
    BY Kinds DEF Phases
  <2> QED
    BY <1>2, <1>6, <2>1 DEF LaunchPane, TypeOK
<1>7. ASSUME NEW p \in Panes, HandleExit(p) PROVE TypeOK'
  BY <1>7 DEF HandleExit, TypeOK, Phases
<1>8. ASSUME NEW p \in Panes, RecordExit(p) PROVE TypeOK'
  <2>1. exiting' \subseteq Panes /\ recorded' \subseteq Panes
    BY <1>8 DEF RecordExit, TypeOK
  <2>2. CASE UNCHANGED resources
    BY <1>8, <2>1, <2>2 DEF RecordExit, TypeOK, Phases
  <2>3. CASE Become(p, "gone")
    <3>1. p \in Resources /\ "gone" \in Phases(p)
      BY Kinds DEF Phases
    <3> QED
      BY <1>2, <1>8, <2>1, <2>3, <3>1 DEF RecordExit, TypeOK
  <2> QED
    BY <1>8, <2>2, <2>3 DEF RecordExit
<1>9. ASSUME ClientChanges PROVE TypeOK'
  BY <1>9 DEF ClientChanges, TypeOK, Phases
<1> QED
  BY <1>1, <1>3, <1>4, <1>5, <1>6, <1>7, <1>8, <1>9 DEF ResourceStep

\* Type correctness of requests, owners and run, none of which changes a resource.
LEMMA ControlStepType ==
    TypeOK /\ (LifecycleStep \/ RunStep \/ Timeout \/ Notify) => TypeOK'
<1> SUFFICES ASSUME TypeOK, LifecycleStep \/ RunStep \/ Timeout \/ Notify PROVE TypeOK'
  OBVIOUS
<1> USE DEF resourceVars, paneVars, ownerVars, runVars, Announce, Phases
<1>1. ASSUME NEW a \in Askers, AskIdle(a) \/ StopIfIdle(a) PROVE TypeOK'
  <2>1. CASE AskIdle(a)
    BY <2>1 DEF AskIdle, TypeOK
  <2>2. CASE StopIfIdle(a)
    BY <2>2 DEF StopIfIdle, TypeOK
  <2> QED
    BY <1>1, <2>1, <2>2
<1>2. CASE BeginDrain \/ ForceStop
  BY <1>2 DEF BeginDrain, ForceStop, SetForcing, TypeOK
<1>3. ASSUME NEW o \in Owners, OwnerConnects(o) \/ OwnerLeaves(o) \/ OwnerLost(o)
      PROVE  TypeOK'
  BY <1>3 DEF OwnerConnects, OwnerLeaves, LastOwner, OwnerLost, SetForcing, TypeOK
<1>4. CASE Arm \/ ReadState \/ Look \/ Wake \/ Timeout \/ Notify
  BY <1>4 DEF Arm, ReadState, Look, Wake, Timeout, Notify, TypeOK, Loop
<1>5. CASE Terminate
  BY <1>5 DEF Terminate, TypeOK, Loop, Processes
<1>6. CASE Decide \/ GiveUpOnOwner
  BY <1>6 DEF Decide, GiveUpOnOwner, SetForcing, TypeOK, Loop
<1> QED
  BY <1>1, <1>2, <1>3, <1>4, <1>5, <1>6 DEF LifecycleStep, RunStep

\* Every step keeps the types.
LEMMA StepType == TypeOK /\ [Next]_vars => TypeOK'
<1>1. TypeOK /\ UNCHANGED vars => TypeOK'
  BY DEF vars, resourceVars, paneVars, ownerVars, runVars, TypeOK, Phases
<1> QED
  BY <1>1, ResourceStepType, ControlStepType DEF Next

-----------------------------------------------------------------------------
\* The mode does not go back, and nothing is admitted once it left "running".
LEMMA StepMode ==
    ASSUME TypeOK, Next
    PROVE  mode # "running" => mode' # "running" /\ admitted' \subseteq admitted
<1> USE DEF resourceVars, paneVars, ownerVars, runVars
<1>1. CASE ResourceStep
  BY <1>1 DEF ResourceStep, Admit, Create, Admitted, End, Release, Vanish, ListLink,
              LaunchPane, HandleExit, RecordExit, ClientChanges
<1>2. CASE LifecycleStep
  BY <1>2 DEF LifecycleStep, AskIdle, StopIfIdle, BeginDrain, ForceStop, SetForcing,
              OwnerConnects, OwnerLeaves, OwnerLost
<1>3. CASE RunStep \/ Timeout \/ Notify
  BY <1>3 DEF RunStep, Arm, ReadState, Look, Terminate, Decide, Wake, GiveUpOnOwner, SetForcing,
              Timeout, Notify
<1> QED
  BY <1>1, <1>2, <1>3 DEF Next

\* While nothing is admitted, no terminal and no project appears.
LEMMA NothingAppears ==
    ASSUME TypeOK, Next, admitted = {}, NEW r \in Terminals \cup Projects,
           resources[r] \in {"none", "gone"}
    PROVE  resources'[r] \in {"none", "gone"}
<1> USE DEF resourceVars
<1>0. r \in Resources /\ r \notin Links /\ r \notin Panes
  BY Kinds
<1>1. CASE ResourceStep
  <2>1. CASE \E s \in Requested : Admit(s) \/ Create(s) \/ Admitted(s)
    BY <2>1 DEF Admit, Create, Admitted
  <2>2. CASE \E s \in Resources : End(s) \/ Release(s) \/ Vanish(s)
    BY <1>0, <2>2 DEF End, Release, Vanish, Become, TypeOK
  <2>3. CASE \E l \in Links : ListLink(l)
    BY <1>0, <2>3, Kinds DEF ListLink, Become, TypeOK
  <2>4. CASE \E p \in Panes : LaunchPane(p) \/ HandleExit(p) \/ RecordExit(p)
    BY <1>0, <2>4, Kinds DEF LaunchPane, HandleExit, RecordExit, Become, TypeOK
  <2>5. CASE ClientChanges
    BY <2>5 DEF ClientChanges
  <2> QED
    BY <1>1, <2>1, <2>2, <2>3, <2>4, <2>5 DEF ResourceStep
<1>2. CASE LifecycleStep
  BY <1>2 DEF LifecycleStep, AskIdle, StopIfIdle, BeginDrain, ForceStop, OwnerConnects,
              OwnerLeaves, OwnerLost
<1>3. CASE RunStep \/ Timeout \/ Notify
  BY <1>3 DEF RunStep, Arm, ReadState, Look, Terminate, Decide, Wake, GiveUpOnOwner,
              Timeout, Notify
<1> QED
  BY <1>1, <1>2, <1>3 DEF Next

\* Steps other than those of run leave what run saw.
LEMMA LoopKept ==
    ASSUME Next
    PROVE  UNCHANGED loop \/ RunStep \/ Timeout
<1> USE DEF runVars
<1>1. CASE ResourceStep
  BY <1>1 DEF ResourceStep, Admit, Create, Admitted, End, Release, Vanish, ListLink,
              LaunchPane, HandleExit, RecordExit, ClientChanges
<1>2. CASE LifecycleStep
  BY <1>2 DEF LifecycleStep, AskIdle, StopIfIdle, BeginDrain, ForceStop,
              OwnerConnects, OwnerLeaves, OwnerLost
<1>3. CASE Notify
  BY <1>3 DEF Notify
<1> QED
  BY <1>1, <1>2, <1>3 DEF Next

\* What run saw of a drained Host stays so.
LEMMA StepSeen ==
    ASSUME TypeOK, ModeKept, SeenStays, Next
    PROVE  ModeKept' /\ SeenStays'
<1>1. CASE UNCHANGED loop
  <2>1. ModeKept'
    BY <1>1, StepMode DEF ModeKept
  <2>2. loop.phase \in {"read", "looked"} /\ loop.mode = "draining" /\ loop.pending = {}
           => admitted' = {}
    BY StepMode DEF ModeKept, SeenStays
  <2>3. loop.phase = "looked" /\ loop.mode = "draining" /\ loop.idle
           => \A r \in Terminals \cup Projects : resources'[r] \in {"none", "gone"}
    BY NothingAppears DEF SeenStays
  <2> QED
    BY <1>1, <2>1, <2>2, <2>3 DEF SeenStays
<1>2. CASE ReadState
  BY <1>2 DEF ReadState, resourceVars, ModeKept, SeenStays, TypeOK, Loop
<1>3. CASE Look
  <2>1. /\ loop.phase = "read" /\ UNCHANGED <<mode, resources, admitted>>
        /\ loop'.phase = "looked" /\ loop'.mode = loop.mode /\ loop'.pending = loop.pending
        /\ loop'.idle <=> Listed = {} /\ loop.pending = {}
    BY <1>3 DEF Look, resourceVars, TypeOK, Loop
  <2>2. ASSUME Listed = {}, NEW r \in Terminals \cup Projects
        PROVE  resources[r] \in {"none", "gone"}
    BY <2>2, Kinds DEF Listed, TypeOK, Phases
  <2> QED
    BY <2>1, <2>2 DEF ModeKept, SeenStays
<1>4. CASE Arm \/ Terminate \/ Decide \/ Wake \/ GiveUpOnOwner \/ Timeout
  <2>1. /\ loop'.phase \notin {"read", "looked"} /\ loop'.mode = loop.mode
    BY <1>4 DEF Arm, Terminate, Decide, Wake, GiveUpOnOwner, Timeout, TypeOK, Loop
  <2> QED
    BY <2>1, StepMode DEF ModeKept, SeenStays
<1> QED
  BY <1>1, <1>2, <1>3, <1>4, LoopKept DEF RunStep

\* Killed processes and handled exits stay apart.
LEMMA StepExits ==
    ASSUME TypeOK, ModeKept, ExitsKept, Next
    PROVE  ExitsKept'
<1> USE DEF resourceVars, paneVars
<1>1. CASE ResourceStep
  <2>1. CASE \E r \in Requested : Admit(r) \/ Create(r) \/ Admitted(r)
    <3>1. /\ UNCHANGED <<mode, killed, exiting, recorded>>
          /\ \A p \in Panes : resources'[p] = resources[p]
      BY <2>1, Kinds DEF Admit, Create, Admitted, Become, TypeOK
    <3> QED
      BY <3>1 DEF ExitsKept, TypeOK
  <2>2. CASE \E r \in Resources : End(r) \/ Release(r) \/ Vanish(r)
    <3>1. /\ UNCHANGED <<mode, killed, exiting, recorded>>
          /\ \A p \in Panes : resources[p] \in {"exited", "gone"}
                                 => resources'[p] \in {"exited", "gone"}
      BY <2>2, Kinds DEF End, Release, Vanish, Become, TypeOK
    <3> QED
      BY <3>1 DEF ExitsKept, TypeOK
  <2>3. CASE \E l \in Links : ListLink(l)
    <3>1. /\ UNCHANGED <<mode, killed, exiting, recorded>>
          /\ \A p \in Panes : resources'[p] = resources[p]
      <4> SUFFICES ASSUME NEW l \in Links, ListLink(l)
                   PROVE  /\ UNCHANGED <<mode, killed, exiting, recorded>>
                          /\ \A p \in Panes : resources'[p] = resources[p]
        BY <2>3
      <4> QED
        BY Kinds DEF ListLink, Become, TypeOK, Requested
    <3> QED
      BY <3>1 DEF ExitsKept, TypeOK
  <2>4. ASSUME NEW p \in Panes, LaunchPane(p) PROVE ExitsKept'
    BY <2>4, Kinds DEF LaunchPane, Become, ExitsKept, TypeOK
  <2>5. ASSUME NEW p \in Panes, HandleExit(p) PROVE ExitsKept'
    BY <2>5 DEF HandleExit, ExitsKept, TypeOK
  <2>6. ASSUME NEW p \in Panes, RecordExit(p) PROVE ExitsKept'
    BY <2>6, Kinds DEF RecordExit, Become, ExitsKept, TypeOK
  <2>7. CASE ClientChanges
    BY <2>7 DEF ClientChanges, ExitsKept
  <2> QED
    BY <1>1, <2>1, <2>2, <2>3, <2>4, <2>5, <2>6, <2>7 DEF ResourceStep
<1>2. CASE LifecycleStep
  <2>1. UNCHANGED <<resources, killed, exiting, recorded>>
    BY <1>2 DEF LifecycleStep, AskIdle, StopIfIdle, BeginDrain, ForceStop, OwnerConnects,
                OwnerLeaves, OwnerLost
  <2> QED
    BY <2>1, StepMode DEF ExitsKept
<1>3. CASE Terminate
  BY <1>3 DEF Terminate, ExitsKept, ModeKept, TypeOK
<1>4. CASE Arm \/ ReadState \/ Look \/ Decide \/ Wake \/ GiveUpOnOwner \/ Timeout \/ Notify
  <2>1. UNCHANGED <<resources, killed, exiting, recorded>>
    BY <1>4 DEF Arm, ReadState, Look, Decide, Wake, GiveUpOnOwner, Timeout, Notify
  <2> QED
    BY <2>1, StepMode DEF ExitsKept
<1> QED
  BY <1>1, <1>2, <1>3, <1>4 DEF Next, RunStep

\* The strengthened invariant is inductive.
LEMMA StepSafe == Safe /\ [Next]_vars => Safe'
<1> SUFFICES ASSUME Safe, [Next]_vars PROVE Safe'
  OBVIOUS
<1>1. TypeOK'
  BY StepType DEF Safe
<1>2. CASE Next
  BY <1>1, <1>2, StepSeen, StepExits DEF Safe
<1>3. CASE UNCHANGED vars
  BY <1>1, <1>3 DEF vars, resourceVars, paneVars, runVars, Safe, ModeKept, SeenStays, ExitsKept
<1> QED
  BY <1>2, <1>3

-----------------------------------------------------------------------------
\* The Host keeps its types whatever is admitted, exits and is asked of it.
THEOREM TypeCorrect == Spec => []TypeOK
<1>1. Init => TypeOK
  BY InitSafe DEF Safe
<1> QED
  BY <1>1, StepType, PTL DEF Spec

\* The inductive invariant: what run saw of a drained Host stays so until it acts on it, and
\* handled exits and killed processes stay apart (lifecycle.rs, pane_runtime.rs).
THEOREM AlwaysSafe == Spec => []Safe
  BY InitSafe, StepSafe, PTL DEF Spec

\* For any resources, a drain ends the Host only when nothing is left of what requests of
\* terminals and projects created (run in lifecycle.rs).
THEOREM DrainLosesNothingAlways == Spec => DrainLosesNothing
<1>1. Safe /\ Next =>
         (loop.phase = "looked" /\ loop.mode = "draining" /\ loop'.phase = "done"
            => \A r \in Terminals \cup Projects :
                  resources[r] \in {"none", "gone"} /\ r \notin admitted)
  <2> SUFFICES ASSUME Safe, Next, loop.phase = "looked", loop.mode = "draining",
                      loop'.phase = "done"
               PROVE  \A r \in Terminals \cup Projects :
                         resources[r] \in {"none", "gone"} /\ r \notin admitted
    OBVIOUS
  <2>1. Decide
    BY LoopKept DEF RunStep, Arm, ReadState, Look, Terminate, Wake, GiveUpOnOwner, Timeout
  <2>2. loop.idle
    BY <2>1 DEF Decide, Safe, TypeOK, Loop
  <2> QED
    BY <2>2 DEF Safe, SeenStays
<1>2. Safe /\ [Next]_vars =>
         [loop.phase = "looked" /\ loop.mode = "draining" /\ loop'.phase = "done"
            => \A r \in Terminals \cup Projects :
                  resources[r] \in {"none", "gone"} /\ r \notin admitted]_vars
  BY <1>1
<1> QED
  BY <1>2, AlwaysSafe, PTL DEF Spec, DrainLosesNothing

\* For any panes, no exit that the stopping Host caused is recorded (terminal_exited in
\* pane_runtime.rs).
THEOREM PanesSurviveStopAlways == Spec => []PanesSurviveStop
<1>1. Safe => PanesSurviveStop
  BY DEF Safe, ExitsKept, PanesSurviveStop
<1> QED
  BY <1>1, AlwaysSafe, PTL

=============================================================================
