----------------------------- MODULE HostLifecycle -----------------------------
(***************************************************************************)
(* When a Host may stop (crates/yttt-host/src/lifecycle.rs).               *)
(*                                                                         *)
(* Requests that create resources are admitted while the Host runs.        *)
(* StopIfIdle stops it when nothing is left, BeginDrain once nothing is    *)
(* left, ForceStop, or the loss of the desktop owner, in any case.  One    *)
(* task, HostLifecycle::run, decides the last three; it is woken by a      *)
(* Notify, which keeps no permit: only a waiter that was created before    *)
(* the notification gets it.  Everything here runs on several threads, and *)
(* every action is one critical section or one read.                       *)
(*                                                                         *)
(* Left out: the Session connections but for the notification when one     *)
(* comes or goes, the reasons sent to Clients, and projects of workspaces, *)
(* which like panes are not admitted.                                      *)
(***************************************************************************)
EXTENDS Naturals, FiniteSets

CONSTANTS Terminals,    \* started by SpawnTerminal
          Projects,     \* registered by a request
          Links,        \* SSH connections
          Panes,        \* terminals the Host starts for a workspace
          Owners,       \* desktop owner connections, if the Host accepts any
          Askers,       \* lifecycle connections that send StopIfIdle
          MaxRequested  \* bound of the model: how many resources are ever requested

Requested == Terminals \cup Projects \cup Links
Processes == Terminals \cup Panes
Resources == Requested \cup Panes

ASSUME LifecycleAssumption ==
    /\ Terminals \cap (Projects \cup Links \cup Panes) = {}
    /\ Projects \cap (Links \cup Panes) = {}
    /\ Links \cap Panes = {}
    /\ MaxRequested \in Nat

VARIABLES mode,         \* StopMode
          resources,    \* an exited terminal, or a lost link, is listed until removed
          admitted,     \* what ResourceAdmissions are held for: pending_resources
          killed,       \* processes that terminate_all ended
          exiting,      \* panes whose exit is being handled
          recorded,     \* panes whose exit was recorded in the layout
          owners,       \* desktop owner connections
          hadOwner,     \* had_desktop_owner
          askers,       \* the snapshot each StopIfIdle request took
          loop,         \* HostLifecycle::run
          permit,       \* its waiter was notified
          owed,         \* somebody is about to call notify_waiters
          stopSent      \* stop_tx: the Host shuts down

resourceVars == <<resources, admitted>>
paneVars == <<killed, exiting, recorded>>
ownerVars == <<owners, hadOwner>>
runVars == <<loop, permit>>
vars == <<mode, resourceVars, paneVars, ownerVars, askers, runVars, owed, stopSent>>

-----------------------------------------------------------------------------
\* ssh.connections(), projects.projects() and lifecycle_blockers()
Listed == {r \in Resources : resources[r] \in {"live", "exited"}}

\* collect_blockers finds nothing
Idle == Listed = {} /\ admitted = {}

Loop == [phase : {"top", "armed", "read", "looked", "waiting", "expecting", "late", "done"},
         mode : {"running", "draining", "forcing"}, pending : SUBSET Requested,
         idle : BOOLEAN]

Init ==
    /\ mode = "running"
    /\ resources = [r \in Resources |-> "none"]
    /\ admitted = {}
    /\ killed = {} /\ exiting = {} /\ recorded = {}
    /\ owners = [o \in Owners |-> "new"]
    /\ hadOwner = FALSE
    /\ askers = [a \in Askers |-> [asked |-> FALSE, listed |-> {}]]
    /\ loop = [phase |-> "top", mode |-> "running", pending |-> {}, idle |-> FALSE]
    /\ permit = FALSE
    /\ owed = FALSE
    /\ stopSent = FALSE

\* notify_waiters follows the change it announces
Announce == owed' = TRUE

\* A request that failed left nothing and may be made again.
MayRequest ==
    Cardinality({r \in Requested : resources[r] # "none"} \cup admitted) < MaxRequested

Become(r, state) == resources' = [resources EXCEPT ![r] = state]

-----------------------------------------------------------------------------
(* Resources.                                                              *)

\* Mutant: a Host that drains admits.
AdmitDraining(r) ==
    /\ mode # "forcing"
    /\ resources[r] = "none"
    /\ MayRequest
    /\ admitted' = admitted \cup {r}
    /\ UNCHANGED <<mode, resources, paneVars, ownerVars, askers, runVars, owed, stopSent>>

\* admit_resource
Admit(r) ==
    /\ mode = "running"
    /\ resources[r] = "none"
    /\ MayRequest
    /\ admitted' = admitted \cup {r}
    /\ UNCHANGED <<mode, resources, paneVars, ownerVars, askers, runVars, owed, stopSent>>

\* An SSH connection is listed by its first status event only.
Created(r) == IF r \in Links THEN "unlisted" ELSE "live"

Create(r) ==
    /\ r \in admitted
    /\ resources[r] = "none"
    /\ Become(r, Created(r))
    /\ UNCHANGED <<mode, admitted, paneVars, ownerVars, askers, runVars, owed, stopSent>>

\* The admission is dropped when the request was handled, or failed.
Admitted(r) ==
    /\ r \in admitted
    /\ admitted' = admitted \ {r}
    /\ Announce
    /\ UNCHANGED <<mode, resources, paneVars, ownerVars, askers, runVars, stopSent>>

ListLink(l) ==
    /\ resources[l] = "unlisted"
    /\ Become(l, "live")
    /\ UNCHANGED <<mode, admitted, paneVars, ownerVars, askers, runVars, owed, stopSent>>

\* A pane is launched, whatever the Host is about to do.
LaunchPane(p) ==
    /\ resources[p] = "none"
    /\ Become(p, "live")
    /\ Announce
    /\ UNCHANGED <<mode, admitted, paneVars, ownerVars, askers, runVars, stopSent>>

\* A process exits, or an SSH connection ends.
End(r) ==
    /\ r \in Processes \cup Links
    /\ resources[r] = "live"
    /\ Become(r, "exited")
    /\ UNCHANGED <<mode, admitted, paneVars, ownerVars, askers, runVars, owed, stopSent>>

\* AcknowledgeTerminalExit, reap_expired_exits and Project Close
Release(r) ==
    /\ \/ r \in Processes /\ resources[r] = "exited"
       \/ r \in Projects /\ resources[r] = "live"
    /\ Become(r, "gone")
    /\ Announce
    /\ UNCHANGED <<mode, admitted, paneVars, ownerVars, askers, runVars, stopSent>>

\* What no notification follows: the last status event of an SSH connection, and a project
\* that no workspace refers to any more.
Vanish(r) ==
    /\ \/ r \in Links /\ resources[r] = "exited"
       \/ r \in Projects /\ resources[r] = "live"
    /\ Become(r, "gone")
    /\ UNCHANGED <<mode, admitted, paneVars, ownerVars, askers, runVars, owed, stopSent>>

\* Mutant: only a forced stop keeps exits out of the layout.
HandleExitForcing(p) ==
    /\ resources[p] = "exited"
    /\ p \notin exiting \cup recorded
    /\ mode # "forcing"
    /\ exiting' = exiting \cup {p}
    /\ UNCHANGED <<mode, resourceVars, killed, recorded, ownerVars, askers, runVars, owed,
                   stopSent>>

\* terminal_exited, up to its look at the mode: a stopping Host ignores the exit.
HandleExit(p) ==
    /\ resources[p] = "exited"
    /\ p \notin exiting \cup recorded
    /\ mode = "running"
    /\ exiting' = exiting \cup {p}
    /\ UNCHANGED <<mode, resourceVars, killed, recorded, ownerVars, askers, runVars, owed,
                   stopSent>>

\* The rest of it: the layout records the exit, and a pane that closes itself is
\* discarded.  No notification follows.
RecordExit(p) ==
    /\ p \in exiting
    /\ exiting' = exiting \ {p}
    /\ recorded' = recorded \cup {p}
    /\ \/ UNCHANGED resources
       \/ resources[p] = "exited" /\ Become(p, "gone")
    /\ UNCHANGED <<mode, admitted, killed, ownerVars, askers, runVars, owed, stopSent>>

\* A Session or lifecycle connection comes or goes.
ClientChanges ==
    /\ Announce
    /\ UNCHANGED <<mode, resourceVars, paneVars, ownerVars, askers, runVars, stopSent>>

-----------------------------------------------------------------------------
(* Lifecycle requests.                                                     *)

\* StopIfIdle reads ssh.connections() and projects.projects(),
AskIdle(a) ==
    /\ ~askers[a].asked
    /\ askers' = [askers EXCEPT ![a] = [asked |-> TRUE,
                                        listed |-> Listed \cap (Links \cup Projects)]]
    /\ UNCHANGED <<mode, resourceVars, paneVars, ownerVars, runVars, owed, stopSent>>

\* and then calls stop_if_idle, which reads the terminals itself.
StopIfIdle(a) ==
    /\ askers[a].asked
    /\ askers' = [askers EXCEPT ![a] = [asked |-> FALSE, listed |-> {}]]
    /\ IF mode = "running" /\ admitted = {} /\ askers[a].listed = {}
             /\ Listed \cap Processes = {}
       THEN mode' = "draining" /\ stopSent' = TRUE
       ELSE UNCHANGED <<mode, stopSent>>
    /\ UNCHANGED <<resourceVars, paneVars, ownerVars, runVars, owed>>

BeginDrain ==
    /\ mode' = "draining"
    /\ Announce
    /\ UNCHANGED <<resourceVars, paneVars, ownerVars, askers, runVars, stopSent>>

\* Mutant: the task that stops the Host is not told.
SetForcingUntold == mode' = "forcing" /\ UNCHANGED owed

\* force_stop
SetForcing == mode' = "forcing" /\ Announce

ForceStop ==
    SetForcing /\ UNCHANGED <<resourceVars, paneVars, ownerVars, askers, runVars, stopSent>>

OwnerConnects(o) ==
    /\ owners[o] = "new"
    /\ owners' = [owners EXCEPT ![o] = "connected"]
    /\ hadOwner' = TRUE
    /\ Announce
    /\ UNCHANGED <<mode, resourceVars, paneVars, askers, runVars, stopSent>>

\* desktop_owners counts one
LastOwner(o) == \A other \in Owners \ {o} : owners[other] # "connected"

OwnerLeaves(o) ==
    /\ owners[o] = "connected"
    /\ owners' = [owners EXCEPT ![o] = IF LastOwner(o) THEN "last" ELSE "gone"]
    /\ owed' = (owed \/ ~LastOwner(o))
    /\ UNCHANGED <<mode, resourceVars, paneVars, hadOwner, askers, runVars, stopSent>>

\* The last owner has left: force_stop.
OwnerLost(o) ==
    /\ owners[o] = "last"
    /\ owners' = [owners EXCEPT ![o] = "gone"]
    /\ SetForcing
    /\ UNCHANGED <<resourceVars, paneVars, hadOwner, askers, runVars, stopSent>>

-----------------------------------------------------------------------------
(* HostLifecycle::run, and its notification.                               *)

Notify ==
    /\ owed
    /\ owed' = FALSE
    /\ permit' = TRUE
    /\ UNCHANGED <<mode, resourceVars, paneVars, ownerVars, askers, loop, stopSent>>

\* The waiter is created
Arm ==
    /\ loop.phase = "top"
    /\ loop' = [loop EXCEPT !.phase = "armed"]
    /\ permit' = FALSE
    /\ UNCHANGED <<mode, resourceVars, paneVars, ownerVars, askers, owed, stopSent>>

\* before the state is copied,
ReadState ==
    /\ loop.phase = "armed"
    /\ loop' = [loop EXCEPT !.phase = "read", !.mode = mode, !.pending = admitted]
    /\ UNCHANGED <<mode, resourceVars, paneVars, ownerVars, askers, permit, owed, stopSent>>

\* Mutant: the waiter is created once the resources are listed.
LookUnarmed ==
    /\ loop.phase = "read"
    /\ loop.mode # "forcing"
    /\ loop' = [loop EXCEPT !.phase = "looked", !.idle = Listed = {} /\ loop.pending = {}]
    /\ permit' = FALSE
    /\ UNCHANGED <<mode, resourceVars, paneVars, ownerVars, askers, owed, stopSent>>

\* and the resources are listed after it.
Look ==
    /\ loop.phase = "read"
    /\ loop.mode # "forcing"
    /\ loop' = [loop EXCEPT !.phase = "looked", !.idle = Listed = {} /\ loop.pending = {}]
    /\ UNCHANGED <<mode, resourceVars, paneVars, ownerVars, askers, permit, owed, stopSent>>

\* A forced stop lists nothing: terminate_all.
Terminate ==
    /\ loop.phase = "read"
    /\ loop.mode = "forcing"
    /\ killed' = killed \cup {r \in Processes : resources[r] = "live"}
    /\ stopSent' = TRUE
    /\ loop' = [loop EXCEPT !.phase = "done"]
    /\ UNCHANGED <<mode, resourceVars, exiting, recorded, ownerVars, askers, permit, owed>>

Decide ==
    /\ loop.phase = "looked"
    /\ IF loop.mode = "draining" /\ loop.idle
       THEN stopSent' = TRUE /\ loop' = [loop EXCEPT !.phase = "done"]
       ELSE /\ loop' = [loop EXCEPT !.phase = IF Owners # {} /\ ~hadOwner
                                              THEN "expecting" ELSE "waiting"]
            /\ UNCHANGED stopSent
    /\ UNCHANGED <<mode, resourceVars, paneVars, ownerVars, askers, permit, owed>>

Wake ==
    /\ loop.phase \in {"waiting", "expecting"}
    /\ permit
    /\ loop' = [loop EXCEPT !.phase = "top"]
    /\ UNCHANGED <<mode, resourceVars, paneVars, ownerVars, askers, permit, owed, stopSent>>

\* Mutant: the timeout is not acted on.
TimeoutIgnored ==
    /\ loop.phase = "expecting"
    /\ loop' = [loop EXCEPT !.phase = "top"]
    /\ UNCHANGED <<mode, resourceVars, paneVars, ownerVars, askers, permit, owed, stopSent>>

\* OWNER_CONNECT_TIMEOUT has passed: no owner ever connected, or one just did.
Timeout ==
    /\ loop.phase = "expecting"
    /\ loop' = [loop EXCEPT !.phase = IF hadOwner THEN "top" ELSE "late"]
    /\ UNCHANGED <<mode, resourceVars, paneVars, ownerVars, askers, permit, owed, stopSent>>

GiveUpOnOwner ==
    /\ loop.phase = "late"
    /\ loop' = [loop EXCEPT !.phase = "top"]
    /\ SetForcing
    /\ UNCHANGED <<resourceVars, paneVars, ownerVars, askers, permit, stopSent>>

-----------------------------------------------------------------------------
ResourceStep ==
    \/ \E r \in Requested : Admit(r) \/ Create(r) \/ Admitted(r)
    \/ \E r \in Resources : End(r) \/ Release(r) \/ Vanish(r)
    \/ \E l \in Links : ListLink(l)
    \/ \E p \in Panes : LaunchPane(p) \/ HandleExit(p) \/ RecordExit(p)
    \/ ClientChanges

LifecycleStep ==
    \/ \E a \in Askers : AskIdle(a) \/ StopIfIdle(a)
    \/ BeginDrain
    \/ ForceStop
    \/ \E o \in Owners : OwnerConnects(o) \/ OwnerLeaves(o) \/ OwnerLost(o)

RunStep ==
    \/ Arm
    \/ ReadState
    \/ Look
    \/ Terminate
    \/ Decide
    \/ Wake
    \/ GiveUpOnOwner

Next == ResourceStep \/ LifecycleStep \/ RunStep \/ Timeout \/ Notify

Spec == Init /\ [][Next]_vars

\* The task and the threads that are about to notify it or to act on a lost owner are
\* scheduled.  The deadline of the timeout is absolute, and the runtime picks fairly
\* between it and a notification.  No request, exit or connection is ever due.
Fairness ==
    /\ WF_vars(RunStep)
    /\ WF_vars(Notify)
    /\ SF_vars(Timeout)
    /\ \A o \in Owners : WF_vars(OwnerLost(o))

FairSpec == Spec /\ Fairness

-----------------------------------------------------------------------------
Phases(r) == {"none", "live", "gone"}
             \cup (IF r \in Projects THEN {} ELSE {"exited"})
             \cup (IF r \in Links THEN {"unlisted"} ELSE {})

\* What the lifecycle keeps: a project does not exit, only an SSH connection is created
\* before it is listed, only what requests ask for is admitted.
TypeOK ==
    /\ mode \in {"running", "draining", "forcing"}
    /\ DOMAIN resources = Resources
    /\ \A r \in Resources : resources[r] \in Phases(r)
    /\ admitted \subseteq Requested
    /\ killed \subseteq Processes
    /\ exiting \subseteq Panes /\ recorded \subseteq Panes
    /\ owners \in [Owners -> {"new", "connected", "last", "gone"}]
    /\ hadOwner \in BOOLEAN
    /\ askers \in [Askers -> [asked : BOOLEAN, listed : SUBSET (Links \cup Projects)]]
    /\ loop \in Loop
    /\ permit \in BOOLEAN /\ owed \in BOOLEAN /\ stopSent \in BOOLEAN

-----------------------------------------------------------------------------
(* Safety.                                                                 *)

\* A drain ends the Host only when no terminal or project that a request asked for is left
\* or still being created, although run copies the count of admissions, lists the
\* resources and acts on both at three different times.
DrainLosesNothing ==
    [][loop.phase = "looked" /\ loop.mode = "draining" /\ loop'.phase = "done"
         => \A r \in Terminals \cup Projects :
               resources[r] \in {"none", "gone"} /\ r \notin admitted]_vars

\* A pane whose process the Host ended itself stays Running in the layout, so that the next
\* Host restores it: no exit that terminate_all caused is ever recorded, also when a drain
\* replaces the forced stop before the exit is handled (terminal_exited in
\* pane_runtime.rs).
PanesSurviveStop == killed \cap recorded = {}

\* What the test stop_if_idle_cannot_cross_an_admitted_resource_creation and the
\* architecture document (9.3) say: StopIfIdle ends no resource a request created.
IdleStopEndsNothing ==
    [][mode = "running" /\ mode' = "draining" /\ stopSent' # stopSent
         => \A r \in Requested : resources[r] \in {"none", "exited", "gone"}]_vars

-----------------------------------------------------------------------------
(* Liveness, under FairSpec.                                               *)

\* A forced stop stops the Host, unless a BeginDrain replaces it before run has seen it.
ForcedHostStops == mode = "forcing" ~> stopSent \/ mode = "draining"

\* A Host of a desktop that never connects, or left, stops, unless a BeginDrain replaces
\* the forced stop.
OwnerlessHostStops ==
    []<>(stopSent \/ mode = "draining" \/ \E o \in Owners : owners[o] = "connected")

\* Whoever announces a change to a drained Host with nothing left ends it: run never misses
\* a notification between looking at the Host and waiting.
NoWakeUpIsLost ==
    mode = "draining" /\ Idle /\ owed ~> stopSent \/ mode # "draining" \/ ~Idle

=============================================================================
