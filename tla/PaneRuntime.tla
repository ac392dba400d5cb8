------------------------------ MODULE PaneRuntime ------------------------------
(***************************************************************************)
(* How the Host starts, follows and restarts the panes of a workspace      *)
(* (crates/yttt-host/src/pane_runtime.rs, with the sections of runtime.rs, *)
(* terminal.rs and workspace.rs that it calls).                            *)
(*                                                                         *)
(* Four records say what a pane runs: the layout of the workspace, the     *)
(* map `launched` of PaneRuntime, the map of terminals of HostRuntime and  *)
(* the process itself.  Each has a lock of its own, and requests, exits    *)
(* and restarts are blocking jobs that run at the same time.  Every action *)
(* is one critical section, or one read.                                   *)
(*                                                                         *)
(* The identity of a terminal is its pane: a pane that is closed and       *)
(* created again has the same one, and only the session epoch tells the    *)
(* processes apart.                                                        *)
(*                                                                         *)
(* One workspace that is open in a window, with one project.  Left out:    *)
(* Agent snapshots, the effects of hooks, the loss of an SSH connection,   *)
(* and a stopping Host, which ignores exits (HostLifecycle).               *)
(***************************************************************************)
EXTENDS Integers, FiniteSets

CONSTANTS Panes,
          Workers,          \* bound of the model: Client requests handled at a time
          MaxEpochs,        \* bound of the model: processes; further ones fail to start
          MaxLags,          \* bound of the model: times the listener lags
          NoPane

Epochs == 1 .. MaxEpochs
Behaviors == {"close", "auto", "manual"}    \* ProcessExitBehavior

\* The blocking jobs: those of requests, and the one of each exit.
Threads == Workers \cup Epochs

ASSUME PaneAssumption ==
    /\ {MaxEpochs, MaxLags} \subseteq Nat
    /\ Workers \cap Int = {}
    /\ NoPane \notin Panes

VARIABLES layout,       \* the state of each pane in the workspace record
          behavior,     \* the configuration of each pane
          restored,     \* the project is in restored_projects
          reachable,    \* its machine is: ssh.is_connected
          owed,         \* a first Open or an SSH connection that came up: ensure_all is to run
          launched,     \* PaneRuntime::launched
          terminals,    \* HostRuntime::terminals, by session epoch
          process,      \* the process of each session epoch
          heard,        \* epochs whose terminal the runtime forwards events of
          news,         \* exits that wait for terminal_exited
          lost,         \* exits that fell out of the broadcast channel: Lagged
          lags,         \* rescans after a lag
          thread,       \* where each blocking job is
          missed,       \* history: panes whose start or exit was lost for good
          overtaken     \* history: panes that were closed, created or restarted while
                        \* another job was about to start them or handled an exit

lagVars == <<lost, lags>>
jobs == <<news, lagVars, thread>>
layoutVars == <<layout, behavior, restored>>
linkVars == <<reachable, owed>>
processVars == <<terminals, process, heard>>
history == <<missed, overtaken>>
vars == <<layoutVars, linkVars, launched, processVars, jobs, history>>

-----------------------------------------------------------------------------
NoLaunch == [epoch |-> -1, exited |-> FALSE, behavior |-> "manual"]
Launch(e, b) == [epoch |-> e, exited |-> FALSE, behavior |-> b]
NoTerminal == 0

Resting == [pc |-> "idle", pane |-> NoPane, epoch |-> 0, targets |-> {}, then |-> "idle"]
Doing(pc, p) == [Resting EXCEPT !.pc = pc, !.pane = p]

\* ensure launches one claimed pane after the other.
Launching(ps) == IF ps = {} THEN Resting ELSE [Resting EXCEPT !.pc = "launch", !.targets = ps]
Become(t, state) == thread' = [thread EXCEPT ![t] = state]
Proceed(t, pc) == thread' = [thread EXCEPT ![t].pc = pc]
NextTarget(t) == Become(t, Launching(thread[t].targets))

\* A process that its terminal was told to end (`stopped`) may run on.
Running(e) == process[e].phase \in {"running", "stopped"}
Exited(e) == process[e].phase \in {"exited", "told"}
Stopped(e) == process[e].phase = "stopped" \/ Exited(e)
Alive(p) == \E e \in Epochs : process[e].pane = p /\ Running(e)

LaunchSteps == {"adopt", "register", "spawn", "start", "insert", "subscribe", "refused"}
Starting(p) == \E t \in Threads :
    \/ p \in thread[t].targets
    \/ thread[t].pane = p /\ thread[t].pc \in LaunchSteps

\* A job deals with pane p, or an exit of p is due, or not handled yet.  What waits for
\* AUTO_RESTART_DELAY does not count: it looks at the layout afresh.
Busy(p) ==
    \/ Starting(p)
    \/ \E t \in Threads : thread[t].pane = p /\ thread[t].pc # "sleeping"
    \/ \E e \in Epochs : launched[p] = Launch(e, launched[p].behavior) /\ Stopped(e)
Overtake(p, taken) == overtaken' = IF taken THEN overtaken \cup {p} ELSE overtaken

Exit(e) == [process EXCEPT ![e].phase = "exited"]
Stop(e) == [process EXCEPT ![e].phase = "stopped"]

\* The layout is the one an earlier run of the Host stored, and a window opens the
\* workspace.
Init ==
    /\ layout \in [Panes -> {"absent", "unstarted", "idle", "running", "exited"}]
    /\ behavior \in [Panes -> Behaviors]
    /\ restored = FALSE
    /\ reachable \in BOOLEAN
    /\ owed = TRUE
    /\ launched = [p \in Panes |-> NoLaunch]
    /\ terminals = [p \in Panes |-> NoTerminal]
    /\ process = [e \in Epochs |-> [pane |-> NoPane, phase |-> "unborn"]]
    /\ heard = {} /\ news = {} /\ lost = {} /\ lags = 0
    /\ thread = [t \in Threads |-> Resting]
    /\ missed = {} /\ overtaken = {}

-----------------------------------------------------------------------------
(* Requests of Clients and Agents: Apply changes the layout, ends the      *)
(* terminals of the panes that it removed and runs ensure.                 *)

SetLayout(p, state) == layout' = [layout EXCEPT ![p] = state]

\* CreateTab and SplitPane take the first free identity.
CreatePane(w, p, b) ==
    /\ thread[w].pc = "idle"
    /\ layout[p] = "absent"
    /\ SetLayout(p, "idle")
    /\ behavior' = [behavior EXCEPT ![p] = b]
    /\ Become(w, Doing("ensure", NoPane))
    /\ Overtake(p, Busy(p))
    /\ UNCHANGED <<restored, linkVars, launched, processVars, news, lagVars, missed>>

\* Mutant: the terminals of removed panes are left to their processes.
ClosePaneOnly(w, p) ==
    /\ thread[w].pc = "idle"
    /\ layout[p] # "absent"
    /\ SetLayout(p, "absent")
    /\ Become(w, Doing("ensure", NoPane))
    /\ Overtake(p, Starting(p))
    /\ UNCHANGED <<behavior, restored, linkVars, launched, processVars, news, lagVars, missed>>

\* ClosePane, CloseTabs and CloseProject
ClosePane(w, p) ==
    /\ thread[w].pc = "idle"
    /\ layout[p] # "absent"
    /\ SetLayout(p, "absent")
    /\ Become(w, Doing("terminate", p))
    /\ Overtake(p, Starting(p))
    /\ UNCHANGED <<behavior, restored, linkVars, launched, processVars, news, lagVars, missed>>

\* restart_pane refuses a pane that is running.
Restartable(p) == layout[p] \in {"unstarted", "idle", "exited"}

\* RestartPane, and StartTab for a tab that was not started
RestartPane(w, p) ==
    /\ thread[w].pc = "idle"
    /\ Restartable(p)
    /\ SetLayout(p, "idle")
    /\ Become(w, Doing("ensure", NoPane))
    /\ Overtake(p, Busy(p))
    /\ UNCHANGED <<behavior, restored, linkVars, launched, processVars, news, lagVars, missed>>

\* Open, or any intent that leaves the panes alone
OpenWorkspace(w) ==
    /\ thread[w].pc = "idle"
    /\ Become(w, Doing("ensure", NoPane))
    /\ UNCHANGED <<layoutVars, linkVars, launched, processVars, news, lagVars, history>>

\* HostRuntime::terminate of a terminal that was not told to stop before.  The signal may
\* fail, or the process may take its time; nobody tries again.
Terminate(e) ==
    IF e # NoTerminal /\ process[e].phase = "running"
    THEN process' \in {Exit(e), Stop(e)} ELSE UNCHANGED process

\* A pane that has no terminal is NotFound, which is ignored, and a failure is logged.
TerminateRemoved(w) ==
    /\ thread[w].pc = "terminate"
    /\ Become(w, Doing("ensure", NoPane))
    /\ Terminate(terminals[thread[w].pane])
    /\ UNCHANGED <<layoutVars, linkVars, launched, terminals, heard, news, lagVars, history>>

\* TerminateTerminal of a Client leaves the layout to the exit.
TerminateTerminal(p) ==
    /\ terminals[p] # NoTerminal
    /\ process[terminals[p]].phase = "running"
    /\ Terminate(terminals[p])
    /\ UNCHANGED <<layoutVars, linkVars, launched, terminals, heard, jobs, history>>

-----------------------------------------------------------------------------
(* SSH: the project's machine becomes reachable.                           *)

\* The status is stored, then its event is published; a lagging listener runs
\* ensure_all as well.
Connect ==
    /\ ~reachable
    /\ reachable' = TRUE
    /\ owed' = TRUE
    /\ UNCHANGED <<layoutVars, launched, processVars, jobs, history>>

EnsureAll(w) ==
    /\ owed
    /\ thread[w].pc = "idle"
    /\ owed' = FALSE
    /\ Become(w, Doing("ensure", NoPane))
    /\ UNCHANGED <<layoutVars, reachable, launched, processVars, news, lagVars, history>>

-----------------------------------------------------------------------------
(* ensure: claim the panes to start and launch each.                       *)

InState(state) == {p \in Panes : layout[p] = state}

\* Idle panes, and when the project is claimed for the first time in this run of the Host
\* the panes an earlier run left running, and those exited ones whose Agent
\* session can be resumed.
Claimable(resumed) ==
    InState("idle") \cup IF restored THEN {} ELSE InState("running") \cup resumed

\* Mutant: a pane is recorded as running when its process runs.
ClaimUnrecorded(t, claimed) ==
    /\ UNCHANGED layout
    /\ Become(t, Launching(claimed))

\* claim_launches records the claimed panes as running.
Claim(t, claimed) ==
    /\ layout' = [p \in Panes |-> IF p \in claimed THEN "running" ELSE layout[p]]
    /\ Become(t, Launching(claimed))

Ensure(t) ==
    /\ thread[t].pc = "ensure"
    /\ \/ /\ reachable
          /\ \E resumed \in SUBSET InState("exited") : Claim(t, Claimable(resumed))
          /\ restored' = TRUE
       \/ /\ ~reachable
          /\ Become(t, Resting)
          /\ UNCHANGED <<layout, restored>>
    /\ UNCHANGED <<behavior, linkVars, launched, processVars, news, lagVars, history>>

\* launch of one pane begins with its plan, and a look for a terminal that still runs.
Look(t) ==
    /\ thread[t].pc = "launch"
    /\ \E p \in thread[t].targets :
          LET e == terminals[p]
              rest == [thread[t] EXCEPT !.pane = p, !.targets = @ \ {p}]
          IN Become(t, IF e # NoTerminal /\ Running(e)
                       THEN [rest EXCEPT !.pc = "adopt", !.epoch = e]
                       ELSE [rest EXCEPT !.pc = "register"])
    /\ UNCHANGED <<layoutVars, linkVars, launched, processVars, news, lagVars, history>>

\* There is nothing to restore or to resume, or Agents were not provisioned.
NotPlanned(t) ==
    /\ thread[t].pc \in {"adopt", "register"}
    /\ Proceed(t, "refused")
    /\ UNCHANGED <<layoutVars, linkVars, launched, processVars, news, lagVars, history>>

SetLaunched(p, entry) == launched' = [launched EXCEPT ![p] = entry]

\* A window reopened a workspace whose terminal kept running.
Adopt(t) ==
    LET p == thread[t].pane IN
    /\ thread[t].pc = "adopt"
    /\ SetLaunched(p, Launch(thread[t].epoch, behavior[p]))
    /\ NextTarget(t)
    /\ UNCHANGED <<layoutVars, linkVars, processVars, news, lagVars, history>>

\* HostRuntime::discard_exited
WithoutExited(p) ==
    IF terminals[p] # NoTerminal /\ Exited(terminals[p])
    THEN [terminals EXCEPT ![p] = NoTerminal] ELSE terminals

Register(t) ==
    LET p == thread[t].pane IN
    /\ thread[t].pc = "register"
    /\ terminals' = WithoutExited(p)
    /\ SetLaunched(p, Launch(0, behavior[p]))
    /\ Proceed(t, "spawn")
    /\ UNCHANGED <<layoutVars, linkVars, process, heard, news, lagVars, history>>

\* launch_failed, also when the project has no root or no process can be started
LaunchFails(t) ==
    /\ thread[t].pc \in {"spawn", "start"}
    /\ SetLaunched(thread[t].pane, NoLaunch)
    /\ Proceed(t, "refused")
    /\ process' = IF thread[t].epoch = 0 THEN process
                  ELSE [process EXCEPT ![thread[t].epoch].phase = "failed"]
    /\ UNCHANGED <<layoutVars, linkVars, terminals, heard, news, lagVars, history>>

\* spawn_with_transport first looks for a terminal of the session.
AlreadyExists(t) ==
    /\ thread[t].pc = "spawn"
    /\ terminals[thread[t].pane] # NoTerminal
    /\ NextTarget(t)
    /\ UNCHANGED <<layoutVars, linkVars, launched, processVars, news, lagVars, history>>

\* Mutants: the session epoch is not noted, or the next one is.
NotedNone(p, e) == launched
NotedNext(p, e) ==
    IF launched[p] = NoLaunch THEN launched ELSE [launched EXCEPT ![p].epoch = e + 1]

\* prepare_environment
Noted(p, e) ==
    IF launched[p] = NoLaunch THEN launched ELSE [launched EXCEPT ![p].epoch = e]

Prepare(t) ==
    LET p == thread[t].pane IN
    /\ thread[t].pc = "spawn"
    /\ terminals[p] = NoTerminal
    /\ \E e \in Epochs :
          /\ process[e].phase = "unborn"
          /\ \A d \in 1 .. e - 1 : process[d].phase # "unborn"
          /\ process' = [process EXCEPT ![e] = [pane |-> p, phase |-> "prepared"]]
          /\ launched' = Noted(p, e)
          /\ Become(t, [thread[t] EXCEPT !.pc = "start", !.epoch = e])
    /\ UNCHANGED <<layoutVars, linkVars, terminals, heard, news, lagVars, history>>

\* The process starts, then its terminal is listed, then its events are forwarded.
Start(t) ==
    /\ thread[t].pc = "start"
    /\ process' = [process EXCEPT ![thread[t].epoch].phase = "running"]
    /\ Proceed(t, "insert")
    /\ UNCHANGED <<layoutVars, linkVars, launched, terminals, heard, news, lagVars, history>>

Insert(t) ==
    /\ thread[t].pc = "insert"
    /\ terminals' = [terminals EXCEPT ![thread[t].pane] = thread[t].epoch]
    /\ Proceed(t, "subscribe")
    /\ UNCHANGED <<layoutVars, linkVars, launched, process, heard, news, lagVars, history>>

Subscribe(t) ==
    /\ thread[t].pc = "subscribe"
    /\ heard' = heard \cup {thread[t].epoch}
    /\ NextTarget(t)
    /\ UNCHANGED <<layoutVars, linkVars, launched, terminals, process, news, lagVars, history>>

\* record_exited of a pane that was not started
RecordRefused(t) ==
    LET p == thread[t].pane IN
    /\ thread[t].pc = "refused"
    /\ IF layout[p] \in {"absent", "exited"} THEN UNCHANGED layout ELSE SetLayout(p, "exited")
    /\ NextTarget(t)
    /\ UNCHANGED <<behavior, restored, linkVars, launched, processVars, news, lagVars, history>>

-----------------------------------------------------------------------------
(* Exits.                                                                  *)

ProcessExits(e) ==
    /\ Running(e)
    /\ process' = Exit(e)
    /\ UNCHANGED <<layoutVars, linkVars, launched, terminals, heard, jobs, history>>

\* mark_exited sends Exited after it set the flag.  Only who subscribed by then gets it,
\* and a listener that lags behind the broadcast channel learns that it lost something.
Tell(e) ==
    /\ process[e].phase = "exited"
    /\ process' = [process EXCEPT ![e].phase = "told"]
    /\ \/ e \in heard /\ news' = news \cup {e} /\ UNCHANGED <<lost, missed>>
       \/ e \in heard /\ lags < MaxLags /\ lost' = lost \cup {e} /\ UNCHANGED <<news, missed>>
       \/ e \notin heard /\ missed' = missed \cup {process[e].pane} /\ UNCHANGED <<news, lost>>
    /\ UNCHANGED <<layoutVars, linkVars, launched, terminals, heard, lags, thread, overtaken>>

Listed == {terminals[p] : p \in Panes} \ {NoTerminal}

\* Mutant: the listener goes on with the next event.
RescanNothing ==
    /\ lags < MaxLags
    /\ lags' = lags + 1
    /\ lost' = {}
    /\ UNCHANGED <<layoutVars, linkVars, launched, processVars, news, thread, history>>

\* Then, or because it lost other events, it looks at all exited terminals.  An exit is
\* missed for good if its terminal was acknowledged, reaped or discarded before.
Rescan ==
    LET seen == {e \in Listed : Exited(e)} IN
    /\ lags < MaxLags
    /\ lags' = lags + 1
    /\ lost' = {}
    /\ news' = news \cup seen
    /\ missed' = missed \cup {process[e].pane : e \in lost \ seen}
    /\ UNCHANGED <<layoutVars, linkVars, launched, processVars, thread, overtaken>>

\* Mutant: every exit of the pane counts.
MatchesAny(e) == ~launched[process[e].pane].exited

\* The exit is that of the process the pane was launched with, and was not handled yet.
Matches(e) ==
    LET pane == launched[process[e].pane] IN pane.epoch = e /\ ~pane.exited

AfterRecord == [close |-> "closing", auto |-> "sleeping", manual |-> "idle"]

\* terminal_exited.  Bound of the model: one job for each exit at a time (an exit matches again
\* only after the terminal of an overtaken pane was adopted).
Match(e) ==
    LET p == process[e].pane IN
    /\ e \in news
    /\ news' = news \ {e}
    /\ IF Matches(e)
       THEN /\ thread[e].pc = "idle"
            /\ launched' = [launched EXCEPT ![p].exited = TRUE]
            /\ Become(e, [Doing("record", p) EXCEPT !.then = AfterRecord[launched[p].behavior]])
       ELSE UNCHANGED <<launched, thread>>
    /\ UNCHANGED <<layoutVars, linkVars, processVars, lagVars, history>>

\* record_pane_exited: the pane may be gone, or recorded already.
Record(e) ==
    LET p == thread[e].pane IN
    /\ thread[e].pc = "record"
    /\ \/ /\ layout[p] \notin {"absent", "exited"}
          /\ SetLayout(p, "exited")
          /\ Become(e, IF thread[e].then = "idle" THEN Resting ELSE Doing(thread[e].then, p))
       \/ /\ layout[p] \in {"absent", "exited"}
          /\ Proceed(e, "unrecorded")
          /\ UNCHANGED layout
    /\ UNCHANGED <<behavior, restored, linkVars, launched, processVars, news, lagVars, history>>

\* A pane that is still in the layout was recorded already.
LookForPane(e) ==
    /\ thread[e].pc = "unrecorded"
    /\ IF layout[thread[e].pane] = "absent" THEN Proceed(e, "discard") ELSE Become(e, Resting)
    /\ UNCHANGED <<layoutVars, linkVars, launched, processVars, news, lagVars, history>>

\* ClosePaneForExit
CloseForExit(e) ==
    LET p == thread[e].pane IN
    /\ thread[e].pc = "closing"
    /\ IF layout[p] = "absent" THEN Become(e, Resting) ELSE Proceed(e, "discard")
    /\ SetLayout(p, "absent")
    /\ UNCHANGED <<behavior, restored, linkVars, launched, processVars, news, lagVars, history>>

\* The launched entry goes, then the terminal, if it has exited.
Discard(e) ==
    LET p == thread[e].pane IN
    /\ thread[e].pc = "discard"
    /\ SetLaunched(p, NoLaunch)
    /\ terminals' = WithoutExited(p)
    /\ Become(e, Resting)
    /\ UNCHANGED <<layoutVars, linkVars, process, heard, news, lagVars, history>>

\* Mutant: the pane is to restart, but nobody starts it.
WakeUpOnly(e) ==
    LET p == thread[e].pane IN
    /\ thread[e].pc = "sleeping"
    /\ Become(e, Resting)
    /\ IF Restartable(p)
       THEN SetLayout(p, "idle") /\ Overtake(p, Busy(p))
       ELSE UNCHANGED <<layout, overtaken>>
    /\ UNCHANGED <<behavior, restored, linkVars, launched, processVars, news, lagVars, missed>>

\* restart, after AUTO_RESTART_DELAY: the pane may have been closed or restarted meanwhile.
WakeUp(e) ==
    LET p == thread[e].pane IN
    /\ thread[e].pc = "sleeping"
    /\ IF Restartable(p)
       THEN /\ SetLayout(p, "idle")
            /\ Become(e, Doing("ensure", NoPane))
            /\ Overtake(p, Busy(p))
       ELSE Become(e, Resting) /\ UNCHANGED <<layout, overtaken>>
    /\ UNCHANGED <<behavior, restored, linkVars, launched, processVars, news, lagVars, missed>>

\* A change of the layout is refused when it cannot be stored.  Nothing is tried again.
WriteFails(t) ==
    /\ \/ thread[t].pc \in {"record", "closing", "sleeping"} /\ Become(t, Resting)
       \/ thread[t].pc = "refused" /\ NextTarget(t)
       \/ thread[t].pc = "ensure" /\ InState("idle") # {} /\ Become(t, Resting)
    /\ missed' = missed \cup IF thread[t].pc = "ensure" THEN InState("idle")
                                                       ELSE {thread[t].pane}
    /\ UNCHANGED <<layoutVars, linkVars, launched, processVars, news, lagVars, overtaken>>

-----------------------------------------------------------------------------
\* acknowledge_terminal_exit and reap_expired_exits
Forget(p) ==
    /\ terminals[p] # NoTerminal
    /\ Exited(terminals[p])
    /\ terminals' = [terminals EXCEPT ![p] = NoTerminal]
    /\ UNCHANGED <<layoutVars, linkVars, launched, process, heard, jobs, history>>

\* prune_exited: no exit is handled for as long as EXITED_PANE_RETENTION.
Prune(p) ==
    /\ launched[p].exited
    /\ \A e \in Epochs : thread[e].pane # p
    /\ SetLaunched(p, NoLaunch)
    /\ UNCHANGED <<layoutVars, linkVars, processVars, jobs, history>>

RequestStep(w) ==
    \/ \E p \in Panes :
          \/ ClosePane(w, p) \/ RestartPane(w, p)
          \/ \E b \in Behaviors : CreatePane(w, p, b)
    \/ OpenWorkspace(w)

EnsureStep(t) ==
    \/ Ensure(t) \/ Look(t) \/ NotPlanned(t) \/ Adopt(t) \/ Register(t)
    \/ AlreadyExists(t) \/ Prepare(t) \/ Start(t) \/ LaunchFails(t)
    \/ Insert(t) \/ Subscribe(t) \/ RecordRefused(t) \/ WriteFails(t)

WorkerStep(w) == TerminateRemoved(w) \/ EnsureStep(w)
ExitStep(e) ==
    \/ Record(e) \/ LookForPane(e) \/ CloseForExit(e) \/ Discard(e) \/ WakeUp(e)
    \/ EnsureStep(e)
EventStep == Rescan \/ \E e \in Epochs : Tell(e) \/ Match(e)

Next ==
    \/ \E w \in Workers : RequestStep(w) \/ EnsureAll(w) \/ WorkerStep(w)
    \/ \E e \in Epochs : ProcessExits(e) \/ ExitStep(e)
    \/ EventStep
    \/ Connect
    \/ \E p \in Panes : TerminateTerminal(p) \/ Forget(p) \/ Prune(p)

Spec == Init /\ [][Next]_vars

\* Blocking jobs run, timers fire and events are delivered.  No process exits and no
\* Client asks for anything of itself.  ensure_all has a job of its own, which a busy worker
\* of the model must not keep from running.
FairSpec ==
    /\ Spec
    /\ \A w \in Workers : WF_vars(WorkerStep(w))
    /\ \A e \in Epochs : WF_vars(ExitStep(e)) /\ WF_vars(Tell(e) \/ Match(e))
    /\ WF_vars(lost # {} /\ Rescan)
    /\ SF_vars(\E w \in Workers : EnsureAll(w))

-----------------------------------------------------------------------------
Pcs == {"idle", "terminate", "ensure", "launch", "adopt", "register", "spawn", "start",
        "insert", "subscribe", "refused", "record", "unrecorded", "closing", "discard",
        "sleeping"}

Layouts == {"absent", "unstarted", "idle", "running", "exited"}
Entry == [epoch : -1 .. MaxEpochs, exited : BOOLEAN, behavior : Behaviors]
Life == [pane : Panes \cup {NoPane},
         phase : {"unborn", "prepared", "failed", "running", "stopped", "exited", "told"}]
Job == [pc : Pcs, pane : Panes \cup {NoPane}, epoch : 0 .. MaxEpochs,
        targets : SUBSET Panes, then : Pcs]

TypeOK ==
    /\ layout \in [Panes -> Layouts]
    /\ behavior \in [Panes -> Behaviors]
    /\ restored \in BOOLEAN /\ reachable \in BOOLEAN /\ owed \in BOOLEAN
    /\ launched \in [Panes -> Entry]
    /\ terminals \in [Panes -> 0 .. MaxEpochs]
    /\ process \in [Epochs -> Life]
    /\ heard \subseteq Epochs /\ news \subseteq Epochs /\ lost \subseteq heard
    /\ thread \in [Threads -> Job]
    /\ missed \subseteq Panes /\ overtaken \subseteq Panes

\* A pane has at most one process at a time, however requests, SSH events, exits and automatic
\* restarts interleave: a pane is claimed by one job, and discarded before it starts again.
\* Not so for a pane that was overtaken: between the look for a terminal of the session and the
\* insertion of a new one (spawn_with_transport) another job may do the same.
OneProcess ==
    \A d, e \in Epochs :
        /\ Running(d) /\ Running(e)
        /\ process[d].pane = process[e].pane
        /\ process[d].pane \notin overtaken
        => d = e

\* No process is left to itself when its pane goes: while a process runs, its pane is in the
\* layout, or its terminal is listed and either the request that removed the pane is about to
\* stop it or it was told to stop before.  That it then ends is not said: a signal that fails is
\* not sent again (HostedTerminal::terminate).  A pane that is closed between
\* claim_launches and the insertion of its terminal is overtaken: NotFound is ignored, and its
\* process runs on without a pane.
NoOrphan ==
    \A e \in Epochs :
        LET p == process[e].pane IN
        Running(e) /\ layout[p] = "absent" /\ p \notin overtaken
            => /\ terminals[p] = e
               /\ \/ Stopped(e)
                  \/ \E w \in Workers : thread[w].pc = "terminate" /\ thread[w].pane = p

\* The exit to come of a running pane's process will be taken for what it is: from its start on,
\* the launched entry holds its epoch and no exit, whatever exits of earlier processes, prunes
\* and discards of the same pane do to the entry.
ExitWillMatch ==
    \A e \in Epochs :
        LET p == process[e].pane IN
        Running(e) /\ layout[p] = "running" /\ p \notin overtaken
            => Matches(e)

\* A running pane is recorded as exited only when it has no process: an exit that is
\* handled late or twice, as after a lag, is not taken for that of the process started since.
ExitsAreTrue ==
    [][\A p \in Panes \ overtaken :
          layout[p] = "running" /\ layout'[p] = "exited" => ~Alive(p)]_vars

\* A pane that is to be started, or is recorded as running, gets a process, or does not stay
\* so: whatever makes a pane idle or its machine reachable is followed by an ensure, and each
\* failure to start and each exit reaches the layout.  It does not when the exit came before
\* the runtime had subscribed to the terminal, when the listener lagged until the terminal was
\* forgotten, or when the layout could not be stored (`missed`): then the pane stays as it is.
PaneSettles ==
    \A p \in Panes :
        \/ layout[p] = "idle" /\ reachable
        \/ layout[p] = "running" /\ restored
        ~> \/ Alive(p)
           \/ layout[p] \in {"exited", "absent"}
           \/ p \in missed \cup overtaken

\* A pane that restarts by itself does, unless it is closed.
PaneRestarts ==
    \A p \in Panes :
        (\E e \in Epochs : thread[e].pane = p /\ thread[e].pc = "sleeping")
            /\ layout[p] = "exited"
        ~> \/ layout[p] \in {"running", "absent"}
           \/ p \in missed \cup overtaken

=============================================================================
