--------------------------- MODULE PaneRuntimeProofs ---------------------------
(***************************************************************************)
(* Theorems about PaneRuntime, for every instance of its constants.        *)
(***************************************************************************)
EXTENDS PaneRuntime, TLAPS

-----------------------------------------------------------------------------
(* The inductive invariant.                                                *)

BeginSteps == {"adopt", "register", "spawn", "start", "refused"}
HandlerSteps == {"record", "unrecorded", "closing", "discard"}
ExitSteps == HandlerSteps \cup {"sleeping"}
Born(e) == process[e].phase \in {"running", "stopped", "exited", "told"}

\* Job t is about to start pane p; its process has not started.
Begins(t, p) ==
    \/ p \in thread[t].targets
    \/ thread[t].pane = p /\ thread[t].pc \in BeginSteps

Starts(t, p) ==
    \/ p \in thread[t].targets
    \/ thread[t].pane = p /\ thread[t].pc \in LaunchSteps

\* The job of an exit of pane p
Handles(e, p) == thread[e].pane = p /\ thread[e].pc \in HandlerSteps

\* The exit of e, which came or will come, is that of what p was launched with.
Owns(e, p) == process[e].pane = p /\ Born(e) /\ launched[p].epoch = e /\ ~launched[p].exited

\* The registers of a job fit its place in the code.
ThreadOK(t) ==
    LET j == thread[t] IN
    /\ j.pc \in LaunchSteps \cup ExitSteps \cup {"terminate"} => j.pane \in Panes
    /\ j.pc \in {"idle", "ensure", "launch"} => j.pane = NoPane
    /\ j.pc \notin LaunchSteps \cup {"launch"} => j.targets = {}
    /\ j.pc \in LaunchSteps => j.pane \notin j.targets
    /\ j.pc \in {"launch", "register", "spawn"} => j.epoch = 0
    /\ j.pc \in {"adopt", "insert", "subscribe"}
          => j.epoch \in Epochs /\ process[j.epoch].pane = j.pane /\ Born(j.epoch)
    /\ j.pc = "start" => /\ j.epoch \in Epochs
                         /\ process[j.epoch].pane = j.pane
                         /\ process[j.epoch].phase = "prepared"
    /\ j.pc = "terminate" => t \in Workers
    /\ j.pc \in ExitSteps => t \in Epochs /\ process[t].pane = j.pane /\ Born(t)
    /\ j.then \in {"idle", "closing", "sleeping"}

\* The records that name a process name one of the pane.
ProcessesOfPanes == \A e \in Epochs : process[e].phase # "unborn" => process[e].pane \in Panes

EventsOfProcesses ==
    /\ \A e \in news : Exited(e)
    /\ \A e \in heard : Born(e)

TerminalsOfPanes ==
    \A p \in Panes : terminals[p] # NoTerminal
        => process[terminals[p]].pane = p /\ Born(terminals[p])

EntriesOfPanes ==
    \A p \in Panes : launched[p].epoch \in Epochs
        => /\ process[launched[p].epoch].pane = p
           /\ process[launched[p].epoch].phase # "unborn"

OneStart ==
    \A t, u \in Threads : /\ thread[t].pc = "start" /\ thread[u].pc = "start"
                          /\ thread[t].epoch = thread[u].epoch
                          => t = u

\* Nothing is launched before the project is claimed for the first time.
Fresh ==
    /\ \A e \in Epochs : process[e].phase = "unborn"
    /\ \A t \in Threads : thread[t].pc \in {"idle", "ensure", "terminate"}

Wiring ==
    /\ ProcessesOfPanes
    /\ EventsOfProcesses
    /\ TerminalsOfPanes
    /\ EntriesOfPanes
    /\ \A t \in Threads : ThreadOK(t)
    /\ OneStart
    /\ ~restored => Fresh

\* One job at a time begins with a pane, which is recorded as running until then, and none
\* while an exit of it is to come or is handled.
OneStarter(p) ==
    /\ \A t, u \in Threads : Starts(t, p) /\ Starts(u, p) => t = u
    /\ \A t \in Threads : Starts(t, p) => layout[p] # "idle"
    /\ \A t \in Threads : Begins(t, p)
          => /\ layout[p] = "running"
             /\ \A e \in Epochs : ~Handles(e, p) /\ ~Owns(e, p)

\* The epoch of the launched entry on the way to a process
EntryFits(p) ==
    \A t \in Threads : thread[t].pane = p =>
        /\ thread[t].pc # "adopt"
        /\ thread[t].pc \in {"spawn", "start"}
              => launched[p].epoch = thread[t].epoch /\ ~launched[p].exited
        /\ thread[t].pc = "insert" => \A e \in Epochs : Owns(e, p) => e = thread[t].epoch

\* The entry stays while an exit is handled.
HandlerFits(p) ==
    \A e \in Epochs : Handles(e, p)
        => layout[p] # "idle" /\ launched[p].epoch = e /\ launched[p].exited

\* Whose exit will match, and where its terminal is
ProcessFits(p) ==
    \A e \in Epochs :
        /\ Owns(e, p) => layout[p] \in {"running", "absent"}
        /\ process[e].pane = p /\ Running(e) =>
              /\ Owns(e, p)
              /\ \/ terminals[p] = e
                 \/ \E t \in Threads : /\ thread[t].pc = "insert"
                                       /\ thread[t].pane = p
                                       /\ thread[t].epoch = e
              /\ layout[p] = "absent"
                    => /\ terminals[p] = e
                       /\ \/ Stopped(e)
                          \/ \E w \in Workers :
                                thread[w].pc = "terminate" /\ thread[w].pane = p

PaneOK(p) == OneStarter(p) /\ EntryFits(p) /\ HandlerFits(p) /\ ProcessFits(p)

PaneInv == \A p \in Panes \ overtaken : PaneOK(p)

IInv == TypeOK /\ Wiring /\ PaneInv

-----------------------------------------------------------------------------
(* Types, and the records that name processes.                             *)

\* The parts of what a job may become.
LEMMA Shapes ==
    /\ Resting.pc = "idle" /\ Resting.pane = NoPane /\ Resting.epoch = 0
    /\ Resting.targets = {} /\ Resting.then = "idle"
    /\ \A c, q : /\ Doing(c, q).pc = c /\ Doing(c, q).pane = q /\ Doing(c, q).epoch = 0
                 /\ Doing(c, q).targets = {} /\ Doing(c, q).then = "idle"
    /\ \A ps : /\ Launching(ps).pc = IF ps = {} THEN "idle" ELSE "launch"
               /\ Launching(ps).pane = NoPane /\ Launching(ps).epoch = 0
               /\ Launching(ps).targets = ps /\ Launching(ps).then = "idle"
<1>1. /\ Resting.pc = "idle" /\ Resting.pane = NoPane /\ Resting.epoch = 0
      /\ Resting.targets = {} /\ Resting.then = "idle"
  BY DEF Resting
<1>2. \A c, q : /\ Doing(c, q).pc = c /\ Doing(c, q).pane = q /\ Doing(c, q).epoch = 0
                /\ Doing(c, q).targets = {} /\ Doing(c, q).then = "idle"
  BY DEF Doing, Resting
<1>3. ASSUME NEW ps
      PROVE  /\ Launching(ps).pc = IF ps = {} THEN "idle" ELSE "launch"
             /\ Launching(ps).pane = NoPane /\ Launching(ps).epoch = 0
             /\ Launching(ps).targets = ps /\ Launching(ps).then = "idle"
  <2>1. CASE ps = {}
    BY <1>1, <2>1 DEF Launching
  <2>2. CASE ps # {}
    <3>1. Launching(ps) = [pc |-> "launch", pane |-> NoPane, epoch |-> 0, targets |-> ps,
                           then |-> "idle"]
      BY <2>2 DEF Launching, Resting
    <3> QED
      BY <2>2, <3>1
  <2> QED
    BY <2>1, <2>2
<1> QED
  BY <1>1, <1>2, <1>3

\* The parts of the records.
LEMMA Parts ==
    ASSUME TypeOK
    PROVE  /\ \A t \in Threads : /\ thread[t].pc \in Pcs
                                 /\ thread[t].pane \in Panes \cup {NoPane}
                                 /\ thread[t].epoch \in 0 .. MaxEpochs
                                 /\ thread[t].targets \in SUBSET Panes
                                 /\ thread[t].then \in Pcs
           /\ \A p \in Panes : /\ launched[p].epoch \in -1 .. MaxEpochs
                               /\ launched[p].exited \in BOOLEAN
                               /\ launched[p].behavior \in Behaviors
           /\ \A e \in Epochs : process[e].pane \in Panes \cup {NoPane}
           /\ \A p \in Panes : terminals[p] \in 0 .. MaxEpochs
           /\ 0 .. MaxEpochs = Epochs \cup {0}
<1>1. \A t \in Threads : thread[t] \in Job
  BY DEF TypeOK
<1>2. \A p \in Panes : launched[p] \in Entry
  BY DEF TypeOK
<1>3. \A e \in Epochs : process[e] \in Life
  BY DEF TypeOK
<1>4. \A p \in Panes : terminals[p] \in 0 .. MaxEpochs
  BY DEF TypeOK
<1>5. 0 .. MaxEpochs = Epochs \cup {0}
  BY PaneAssumption DEF Epochs
<1>6. \A t \in Threads : /\ thread[t].pc \in Pcs
                         /\ thread[t].pane \in Panes \cup {NoPane}
                         /\ thread[t].epoch \in 0 .. MaxEpochs
                         /\ thread[t].targets \in SUBSET Panes
                         /\ thread[t].then \in Pcs
  BY <1>1 DEF Job
<1>7. \A p \in Panes : /\ launched[p].epoch \in -1 .. MaxEpochs
                       /\ launched[p].exited \in BOOLEAN
                       /\ launched[p].behavior \in Behaviors
  BY <1>2 DEF Entry
<1>8. \A e \in Epochs : process[e].pane \in Panes \cup {NoPane}
  BY <1>3 DEF Life
<1> QED
  BY <1>4, <1>5, <1>6, <1>7, <1>8

\* discard_exited leaves a map of terminals.
LEMMA TerminalsLeft ==
    ASSUME TypeOK, NEW p
    PROVE  WithoutExited(p) \in [Panes -> 0 .. MaxEpochs]
<1>1. NoTerminal \in 0 .. MaxEpochs
  BY Parts DEF NoTerminal
<1> QED
  BY <1>1 DEF WithoutExited, TypeOK

\* What a job may become is a job.
LEMMA JobTypes ==
    ASSUME TypeOK
    PROVE  /\ Resting \in Job
           /\ \A pc \in Pcs, p \in Panes \cup {NoPane} : Doing(pc, p) \in Job
           /\ \A ps \in SUBSET Panes : Launching(ps) \in Job
           /\ \A t \in Threads : thread[t] \in Job
           /\ \A t \in Threads, pc \in Pcs : [thread[t] EXCEPT !.pc = pc] \in Job
<1>1. Resting \in Job
  BY PaneAssumption DEF Job, Resting, Pcs
<1>2. \A pc \in Pcs, p \in Panes \cup {NoPane} : Doing(pc, p) \in Job
  BY <1>1 DEF Job, Doing
<1>3. \A ps \in SUBSET Panes : Launching(ps) \in Job
  BY <1>1 DEF Job, Launching, Pcs
<1>4. \A t \in Threads : thread[t] \in Job
  BY DEF TypeOK
<1>5. \A t \in Threads, pc \in Pcs : [thread[t] EXCEPT !.pc = pc] \in Job
  BY <1>4 DEF Job
<1> QED
  BY <1>1, <1>2, <1>3, <1>4, <1>5

\* Jobs stay jobs, when one becomes another ...
LEMMA Becomes ==
    ASSUME TypeOK, NEW t \in Threads, NEW j \in Job, Become(t, j)
    PROVE  thread' \in [Threads -> Job]
BY DEF TypeOK, Become

\* ... or goes on.
LEMMA Proceeds ==
    ASSUME TypeOK, NEW t \in Threads, NEW pc \in Pcs, Proceed(t, pc)
    PROVE  thread' \in [Threads -> Job]
<1>1. [thread[t] EXCEPT !.pc = pc] \in Job
  BY JobTypes
<1> QED
  BY <1>1 DEF TypeOK, Proceed

\* What the launched entry of a pane may become is an entry.
LEMMA EntryTypes ==
    ASSUME TypeOK
    PROVE  /\ NoLaunch \in Entry
           /\ \A e \in 0 .. MaxEpochs, b \in Behaviors : Launch(e, b) \in Entry
           /\ \A p \in Panes : launched[p] \in Entry
           /\ \A p \in Panes, b \in BOOLEAN : [launched[p] EXCEPT !.exited = b] \in Entry
           /\ \A p \in Panes, e \in Epochs : [launched[p] EXCEPT !.epoch = e] \in Entry
<1>1. -1 \in -1 .. MaxEpochs /\ \A e \in 0 .. MaxEpochs : e \in -1 .. MaxEpochs
  BY PaneAssumption
<1>2. NoLaunch \in Entry
  BY <1>1 DEF NoLaunch, Entry, Behaviors
<1>3. \A e \in 0 .. MaxEpochs, b \in Behaviors : Launch(e, b) \in Entry
  BY <1>1 DEF Launch, Entry
<1>4. \A p \in Panes : launched[p] \in Entry
  BY DEF TypeOK
<1>5. \A p \in Panes, b \in BOOLEAN : [launched[p] EXCEPT !.exited = b] \in Entry
  BY <1>4 DEF Entry
<1>6. Epochs \subseteq -1 .. MaxEpochs
  BY DEF Epochs
<1>7. \A p \in Panes, e \in Epochs : [launched[p] EXCEPT !.epoch = e] \in Entry
  BY <1>4, <1>6 DEF Entry
<1> QED
  BY <1>2, <1>3, <1>4, <1>5, <1>7

\* A process keeps its pane when its phase changes.
LEMMA LivesOn ==
    ASSUME TypeOK
    PROVE  /\ \A e \in Epochs : process[e] \in Life
           /\ \A e \in Epochs, ph \in {"failed", "running", "stopped", "exited", "told"} :
                 [process EXCEPT ![e].phase = ph] \in [Epochs -> Life]
<1>1. \A e \in Epochs : process[e] \in Life
  BY DEF TypeOK
<1>2. \A e \in Epochs, ph \in {"failed", "running", "stopped", "exited", "told"} :
         [process[e] EXCEPT !.phase = ph] \in Life
  BY <1>1 DEF Life
<1> QED
  BY <1>1, <1>2 DEF TypeOK

\* A process that is told to end ends, or is known to have been told.
LEMMA Terminates ==
    ASSUME TypeOK, NEW e \in 0 .. MaxEpochs, Terminate(e)
    PROVE  /\ process' \in [Epochs -> Life]
           /\ \A d \in Epochs :
                 \/ process'[d] = process[d]
                 \/ /\ Running(d)
                    /\ \E ph \in {"stopped", "exited"} :
                          process'[d] = [process[d] EXCEPT !.phase = ph]
           /\ e # NoTerminal /\ Running(e)' => Stopped(e)'
<1>1. \A d \in Epochs : process[d] \in Life
  BY LivesOn
<1>2. CASE e # NoTerminal /\ process[e].phase = "running"
  <2>1. e \in Epochs
    BY <1>2, Parts DEF NoTerminal
  <2>2. PICK ph \in {"stopped", "exited"} : process' = [process EXCEPT ![e].phase = ph]
    BY <1>2 DEF Terminate, Exit, Stop
  <2>3. process' \in [Epochs -> Life]
    BY <2>1, <2>2, LivesOn
  <2>4. \A d \in Epochs :
           process'[d] = IF d = e THEN [process[d] EXCEPT !.phase = ph] ELSE process[d]
    BY <2>2 DEF TypeOK
  <2>5. process'[e].phase = ph
    BY <1>1, <2>1, <2>4 DEF Life
  <2> QED
    BY <1>2, <2>3, <2>4, <2>5 DEF Running, Stopped, Exited
<1>3. CASE ~(e # NoTerminal /\ process[e].phase = "running")
  <2>1. UNCHANGED process
    BY <1>3 DEF Terminate
  <2> QED
    BY <1>3, <2>1 DEF TypeOK, Running, Stopped
<1> QED
  BY <1>2, <1>3

\* Every action keeps the types.
LEMMA TypeStep == TypeOK /\ Wiring /\ Next => TypeOK'
<1> SUFFICES ASSUME TypeOK, Wiring, Next PROVE TypeOK'
  OBVIOUS
<1> USE PaneAssumption DEF Threads, layoutVars, linkVars, processVars, lagVars, jobs, history
<1>1. ASSUME NEW w \in Workers, NEW p \in Panes,
             ClosePane(w, p) \/ RestartPane(w, p) \/ \E b \in Behaviors : CreatePane(w, p, b)
      PROVE  TypeOK'
  <2>1. thread' \in [Threads -> Job]
    BY <1>1, JobTypes, Becomes DEF ClosePane, RestartPane, CreatePane, Pcs
  <2>2. /\ layout' \in [Panes -> Layouts]
        /\ behavior' \in [Panes -> Behaviors]
    BY <1>1 DEF ClosePane, RestartPane, CreatePane, TypeOK, SetLayout, Layouts
  <2>3. overtaken' \subseteq Panes
    BY <1>1 DEF ClosePane, RestartPane, CreatePane, TypeOK, Overtake
  <2> QED
    BY <1>1, <2>1, <2>2, <2>3 DEF ClosePane, RestartPane, CreatePane, TypeOK
<1>2. ASSUME NEW w \in Workers, OpenWorkspace(w) \/ EnsureAll(w) PROVE TypeOK'
  <2>1. thread' \in [Threads -> Job]
    BY <1>2, JobTypes, Becomes DEF OpenWorkspace, EnsureAll, Pcs
  <2> QED
    BY <1>2, <2>1 DEF OpenWorkspace, EnsureAll, TypeOK
<1>3. ASSUME NEW w \in Workers, TerminateRemoved(w) PROVE TypeOK'
  <2>1. thread' \in [Threads -> Job]
    BY <1>3, JobTypes, Becomes DEF TerminateRemoved, Pcs
  <2>2. terminals[thread[w].pane] \in 0 .. MaxEpochs
    BY <1>3, Parts DEF TerminateRemoved, Wiring, ThreadOK
  <2>3. process' \in [Epochs -> Life]
    BY <1>3, <2>2, Terminates DEF TerminateRemoved
  <2> QED
    BY <1>3, <2>1, <2>3 DEF TerminateRemoved, TypeOK
<1>4. ASSUME NEW t \in Threads, Ensure(t) PROVE TypeOK'
  <2>1. \A resumed \in SUBSET InState("exited") : Claimable(resumed) \in SUBSET Panes
    BY DEF Claimable, InState
  <2>2. thread' \in [Threads -> Job]
    BY <1>4, <2>1, JobTypes, Becomes DEF Ensure, Claim
  <2>3. layout' \in [Panes -> Layouts]
    BY <1>4 DEF Ensure, Claim, TypeOK, Layouts
  <2> QED
    BY <1>4, <2>2, <2>3 DEF Ensure, TypeOK
<1>5. ASSUME NEW t \in Threads, Look(t) PROVE TypeOK'
  <2>1. PICK p \in thread[t].targets :
          LET e == terminals[p]
              rest == [thread[t] EXCEPT !.pane = p, !.targets = @ \ {p}]
          IN Become(t, IF e # NoTerminal /\ Running(e)
                       THEN [rest EXCEPT !.pc = "adopt", !.epoch = e]
                       ELSE [rest EXCEPT !.pc = "register"])
    BY <1>5 DEF Look
  <2>2. p \in Panes /\ thread[t] \in Job /\ terminals[p] \in 0 .. MaxEpochs
    BY <2>1, Parts, JobTypes
  <2>3. thread' \in [Threads -> Job]
    BY <2>1, <2>2, Becomes DEF Job, Pcs
  <2> QED
    BY <1>5, <2>3 DEF Look, TypeOK
<1>6. ASSUME NEW t \in Threads, NotPlanned(t) PROVE TypeOK'
  <2>1. thread' \in [Threads -> Job]
    BY <1>6, Proceeds DEF NotPlanned, Pcs
  <2> QED
    BY <1>6, <2>1 DEF NotPlanned, TypeOK
<1>7. ASSUME NEW t \in Threads, Adopt(t) PROVE TypeOK'
  <2>1. /\ thread[t].pane \in Panes /\ thread[t].epoch \in 0 .. MaxEpochs
        /\ thread[t].targets \in SUBSET Panes
    BY <1>7, Parts DEF Adopt, Wiring, ThreadOK, LaunchSteps
  <2>2. thread' \in [Threads -> Job]
    BY <1>7, <2>1, JobTypes, Becomes DEF Adopt, NextTarget
  <2>3. launched' \in [Panes -> Entry]
    BY <1>7, <2>1, EntryTypes DEF Adopt, SetLaunched, TypeOK
  <2> QED
    BY <1>7, <2>1, <2>2, <2>3 DEF Adopt, TypeOK
<1>8. ASSUME NEW t \in Threads, Register(t) PROVE TypeOK'
  <2>1. thread' \in [Threads -> Job]
    BY <1>8, Proceeds DEF Register, Pcs
  <2>2. thread[t].pane \in Panes
    BY <1>8 DEF Register, Wiring, ThreadOK, LaunchSteps
  <2>3. launched' \in [Panes -> Entry]
    BY <1>8, <2>2, Parts, EntryTypes DEF Register, SetLaunched, TypeOK
  <2> QED
    BY <1>8, <2>1, <2>3, TerminalsLeft DEF Register, TypeOK
<1>9. ASSUME NEW t \in Threads, AlreadyExists(t) PROVE TypeOK'
  <2>1. thread' \in [Threads -> Job]
    BY <1>9, JobTypes, Becomes DEF AlreadyExists, NextTarget, Job
  <2> QED
    BY <1>9, <2>1 DEF AlreadyExists, TypeOK
<1>10. ASSUME NEW t \in Threads, Prepare(t) PROVE TypeOK'
  <2>1. PICK e \in Epochs :
          /\ process' = [process EXCEPT ![e] = [pane |-> thread[t].pane, phase |-> "prepared"]]
          /\ launched' = Noted(thread[t].pane, e)
          /\ Become(t, [thread[t] EXCEPT !.pc = "start", !.epoch = e])
    BY <1>10 DEF Prepare
  <2>2. thread[t] \in Job /\ e \in 0 .. MaxEpochs
    BY JobTypes DEF Epochs
  <2>3. [thread[t] EXCEPT !.pc = "start", !.epoch = e] \in Job
    BY <2>2 DEF Job, Pcs
  <2>4. thread' \in [Threads -> Job]
    BY <2>1, <2>3, Becomes
  <2>5. thread[t].pane \in Panes
    BY <1>10 DEF Prepare, Wiring, ThreadOK, LaunchSteps
  <2>6. launched' \in [Panes -> Entry]
    BY <2>1, <2>5, EntryTypes DEF Noted, TypeOK
  <2>7. process' \in [Epochs -> Life]
    <3>1. [pane |-> thread[t].pane, phase |-> "prepared"] \in Life
      BY <2>5 DEF Life
    <3> QED
      BY <2>1, <3>1 DEF TypeOK
  <2> QED
    BY <1>10, <2>4, <2>6, <2>7 DEF Prepare, TypeOK
<1>11. ASSUME NEW t \in Threads, Start(t) \/ Insert(t) PROVE TypeOK'
  <2>1. thread' \in [Threads -> Job]
    BY <1>11, Proceeds DEF Start, Insert, Pcs
  <2>2. thread[t].epoch \in 0 .. MaxEpochs
    BY Parts
  <2>3. process' \in [Epochs -> Life]
    <3>1. thread[t].pc = "start" => thread[t].epoch \in Epochs
      BY DEF Wiring, ThreadOK
    <3>2. CASE Start(t)
      <4>1. /\ process' = [process EXCEPT ![thread[t].epoch].phase = "running"]
            /\ thread[t].epoch \in Epochs
        BY <3>1, <3>2 DEF Start
      <4> QED
        BY <4>1, LivesOn
    <3>3. CASE Insert(t)
      BY <3>3 DEF Insert, TypeOK
    <3> QED
      BY <1>11, <3>2, <3>3
  <2> QED
    BY <1>11, <2>1, <2>2, <2>3 DEF Start, Insert, TypeOK
<1>12. ASSUME NEW t \in Threads, LaunchFails(t) PROVE TypeOK'
  <2>1. thread' \in [Threads -> Job]
    BY <1>12, Proceeds DEF LaunchFails, Pcs
  <2>2. process' \in [Epochs -> Life]
    <3>1. thread[t].epoch # 0 => thread[t].epoch \in Epochs
      BY Parts
    <3> QED
      BY <1>12, <3>1, LivesOn DEF LaunchFails, TypeOK
  <2>3. launched' \in [Panes -> Entry]
    BY <1>12, EntryTypes DEF LaunchFails, SetLaunched, TypeOK
  <2> QED
    BY <1>12, <2>1, <2>2, <2>3 DEF LaunchFails, TypeOK
<1>13. ASSUME NEW t \in Threads, Subscribe(t) PROVE TypeOK'
  <2>1. thread' \in [Threads -> Job]
    BY <1>13, JobTypes, Becomes DEF Subscribe, NextTarget, Job
  <2>2. thread[t].epoch \in Epochs
    BY <1>13 DEF Subscribe, Wiring, ThreadOK
  <2> QED
    BY <1>13, <2>1, <2>2 DEF Subscribe, TypeOK
<1>14. ASSUME NEW t \in Threads, RecordRefused(t) PROVE TypeOK'
  <2>1. thread' \in [Threads -> Job]
    BY <1>14, JobTypes, Becomes DEF RecordRefused, NextTarget, Job
  <2> QED
    BY <1>14, <2>1 DEF RecordRefused, SetLayout, TypeOK, Layouts
<1>15. ASSUME NEW t \in Threads, WriteFails(t) PROVE TypeOK'
  <2>1. thread' \in [Threads -> Job]
    BY <1>15, JobTypes, Becomes DEF WriteFails, NextTarget, Job
  <2>2. thread[t].pc # "ensure" => thread[t].pane \in Panes
    BY <1>15 DEF WriteFails, Wiring, ThreadOK, LaunchSteps, ExitSteps, HandlerSteps
  <2>3. missed' \subseteq Panes
    BY <1>15, <2>2 DEF WriteFails, InState, TypeOK
  <2> QED
    BY <1>15, <2>1, <2>3 DEF WriteFails, TypeOK
<1>16. ASSUME NEW e \in Epochs, Record(e) \/ LookForPane(e) \/ CloseForExit(e) PROVE TypeOK'
  <2>1. thread' \in [Threads -> Job]
    <3>1. thread[e].pane \in Panes /\ thread[e].then \in Pcs
      BY <1>16, Parts DEF Record, LookForPane, CloseForExit, Wiring, ThreadOK, ExitSteps,
                          HandlerSteps
    <3> QED
      BY <1>16, <3>1, JobTypes, Becomes
         DEF Record, LookForPane, CloseForExit, Proceed, Pcs, Become
  <2>2. layout' \in [Panes -> Layouts]
    BY <1>16 DEF Record, LookForPane, CloseForExit, SetLayout, TypeOK, Layouts
  <2> QED
    BY <1>16, <2>1, <2>2 DEF Record, LookForPane, CloseForExit, TypeOK
<1>17. ASSUME NEW e \in Epochs, Discard(e) PROVE TypeOK'
  <2>1. thread' \in [Threads -> Job]
    BY <1>17, JobTypes, Becomes DEF Discard
  <2>2. launched' \in [Panes -> Entry]
    BY <1>17, EntryTypes DEF Discard, SetLaunched, TypeOK
  <2>3. terminals' \in [Panes -> 0 .. MaxEpochs]
    BY <1>17, TerminalsLeft DEF Discard
  <2> QED
    BY <1>17, <2>1, <2>2, <2>3 DEF Discard, TypeOK
<1>18. ASSUME NEW e \in Epochs, WakeUp(e) PROVE TypeOK'
  <2>1. thread' \in [Threads -> Job]
    BY <1>18, JobTypes, Becomes DEF WakeUp, Pcs
  <2>2. thread[e].pane \in Panes
    BY <1>18 DEF WakeUp, Wiring, ThreadOK, ExitSteps
  <2> QED
    BY <1>18, <2>1, <2>2 DEF WakeUp, SetLayout, Overtake, TypeOK, Layouts
<1>19. ASSUME NEW e \in Epochs, ProcessExits(e) \/ Tell(e) PROVE TypeOK'
  <2>1. process' \in [Epochs -> Life]
    BY <1>19, LivesOn DEF ProcessExits, Tell, Exit
  <2>2. process[e].phase = "exited" => process[e].pane \in Panes
    BY DEF Wiring, ProcessesOfPanes
  <2> QED
    BY <1>19, <2>1, <2>2 DEF ProcessExits, Tell, TypeOK
<1>20. ASSUME Rescan PROVE TypeOK'
  <2>1. {e \in Listed : Exited(e)} \subseteq Epochs
    BY DEF Listed, TypeOK, Epochs, NoTerminal
  <2>2. \A e \in lost : process[e].pane \in Panes
    BY DEF Wiring, ProcessesOfPanes, EventsOfProcesses, TypeOK, Born
  <2> QED
    BY <1>20, <2>1, <2>2 DEF Rescan, TypeOK
<1>21. ASSUME NEW e \in Epochs, Match(e) PROVE TypeOK'
  <2>1. process[e].pane \in Panes
    BY <1>21 DEF Match, Wiring, ProcessesOfPanes, EventsOfProcesses, Exited, TypeOK
  <2>2. AfterRecord[launched[process[e].pane].behavior] \in Pcs
    BY <2>1, Parts DEF AfterRecord, Behaviors, Pcs
  <2>3. [Doing("record", process[e].pane) EXCEPT
           !.then = AfterRecord[launched[process[e].pane].behavior]] \in Job
    <3>1. Doing("record", process[e].pane) \in Job
      BY <2>1, JobTypes DEF Pcs
    <3> QED
      BY <2>2, <3>1 DEF Job
  <2>4. thread' \in [Threads -> Job]
    BY <1>21, <2>3, Becomes DEF Match, TypeOK
  <2>5. launched' \in [Panes -> Entry]
    BY <1>21, <2>1, EntryTypes DEF Match, TypeOK
  <2> QED
    BY <1>21, <2>4, <2>5 DEF Match, TypeOK
<1>22. ASSUME Connect \/ \E p \in Panes : Forget(p) \/ Prune(p) PROVE TypeOK'
  <2>1. launched' \in [Panes -> Entry]
    BY <1>22, EntryTypes DEF Connect, Forget, Prune, SetLaunched, TypeOK
  <2>2. terminals' \in [Panes -> 0 .. MaxEpochs]
    <3>1. NoTerminal \in 0 .. MaxEpochs
      BY Parts DEF NoTerminal
    <3> QED
      BY <1>22, <3>1 DEF Connect, Forget, Prune, TypeOK
  <2> QED
    BY <1>22, <2>1, <2>2 DEF Connect, Forget, Prune, TypeOK
<1>23. ASSUME NEW p \in Panes, TerminateTerminal(p) PROVE TypeOK'
  <2>1. terminals[p] \in 0 .. MaxEpochs
    BY Parts
  <2>2. process' \in [Epochs -> Life]
    BY <1>23, <2>1, Terminates DEF TerminateTerminal
  <2> QED
    BY <1>23, <2>2 DEF TerminateTerminal, TypeOK
<1> QED
  BY <1>1, <1>2, <1>3, <1>4, <1>5, <1>6, <1>7, <1>8, <1>9, <1>10, <1>11, <1>12, <1>13, <1>14,
     <1>15, <1>16, <1>17, <1>18, <1>19, <1>20, <1>21, <1>22, <1>23
     DEF Next, RequestStep, WorkerStep, EnsureStep, ExitStep, EventStep

\* An action that leaves processes on their way, and every job that it moves in order,
\* leaves all jobs in order.
LEMMA ThreadsKept ==
    ASSUME TypeOK, Wiring,
           \A e \in Epochs : process[e].phase # "unborn" =>
               process'[e].pane = process[e].pane /\ process'[e].phase # "unborn",
           \A e \in Epochs : Born(e) => Born(e)',
           \A u \in Threads : \/ ThreadOK(u)' /\ thread'[u].pc # "start"
                              \/ /\ thread'[u] = thread[u]
                                 /\ thread[u].pc = "start"
                                       => process'[thread[u].epoch] = process[thread[u].epoch]
    PROVE  (\A t \in Threads : ThreadOK(t)') /\ OneStart'
<1>1. ASSUME NEW u \in Threads, thread'[u] = thread[u], ThreadOK(u),
             thread[u].pc = "start" => process'[thread[u].epoch] = process[thread[u].epoch]
      PROVE  ThreadOK(u)'
  <2>1. thread[u].pc \in {"adopt", "insert", "subscribe"} =>
           /\ thread'[u].epoch \in Epochs
           /\ process'[thread'[u].epoch].pane = thread'[u].pane
           /\ Born(thread[u].epoch)'
    BY <1>1 DEF ThreadOK, Born
  <2>2. thread[u].pc \in ExitSteps =>
           u \in Epochs /\ process'[u].pane = thread'[u].pane /\ Born(u)'
    BY <1>1 DEF ThreadOK, Born
  <2> QED
    BY <1>1, <2>1, <2>2 DEF ThreadOK
<1>2. \A t \in Threads : ThreadOK(t)'
  BY <1>1 DEF Wiring
<1>3. OneStart'
  BY DEF Wiring, OneStart
<1> QED
  BY <1>2, <1>3

\* Processes exit or are told to, and some jobs begin with ensure.
LEMMA ExitsKeepWiring ==
    ASSUME TypeOK, Wiring,
           UNCHANGED <<restored, launched, terminals, heard, news>>,
           \A e \in Epochs :
              \/ process'[e] = process[e]
              \/ /\ Running(e)
                 /\ \E ph \in {"stopped", "exited"} :
                       process'[e] = [process[e] EXCEPT !.phase = ph],
           \A t \in Threads : \/ thread'[t] = thread[t]
                              \/ ThreadOK(t)' /\ thread'[t].pc = "ensure"
    PROVE  Wiring'
<1>1. \A e \in Epochs : /\ process'[e].pane = process[e].pane
                        /\ \/ process'[e].phase = process[e].phase
                           \/ Running(e) /\ process'[e].phase \in {"stopped", "exited"}
  <2> TAKE e \in Epochs
  <2>1. process[e] \in Life
    BY LivesOn
  <2>2. \A ph \in {"stopped", "exited"} :
           /\ [process[e] EXCEPT !.phase = ph].pane = process[e].pane
           /\ [process[e] EXCEPT !.phase = ph].phase = ph
    BY <2>1 DEF Life
  <2> QED
    BY <2>2
<1>2. \A e \in Epochs : Born(e) => Born(e)'
  BY <1>1 DEF Born
<1>3. \A t \in Threads : thread[t].pc = "start" =>
         thread[t].epoch \in Epochs /\ ~Running(thread[t].epoch)
  BY DEF Wiring, ThreadOK, Running
<1>4. (\A t \in Threads : ThreadOK(t)') /\ OneStart'
  BY <1>1, <1>2, <1>3, ThreadsKept DEF Running
<1>5. ProcessesOfPanes'
  BY <1>1 DEF Wiring, ProcessesOfPanes, Running
<1>6. EventsOfProcesses'
  BY <1>1, <1>2 DEF Wiring, EventsOfProcesses, Exited, Running, TypeOK
<1>7. TerminalsOfPanes'
  BY <1>1, <1>2, Parts DEF Wiring, TerminalsOfPanes, NoTerminal
<1>8. EntriesOfPanes'
  BY <1>1 DEF Wiring, EntriesOfPanes, Running
<1>9. ~restored' => Fresh'
  BY <1>1 DEF Wiring, Fresh, Running
<1> QED
  BY <1>4, <1>5, <1>6, <1>7, <1>8, <1>9 DEF Wiring

\* A job that becomes another, and the others.
LEMMA JobMoves ==
    ASSUME TypeOK, NEW t \in Threads
    PROVE  /\ \A j : Become(t, j) =>
                 thread'[t] = j /\ \A u \in Threads \ {t} : thread'[u] = thread[u]
           /\ \A pc : Proceed(t, pc) =>
                 /\ thread'[t] = [thread[t] EXCEPT !.pc = pc]
                 /\ \A u \in Threads \ {t} : thread'[u] = thread[u]
<1>1. thread \in [Threads -> Job]
  BY DEF TypeOK
<1> QED
  BY <1>1 DEF Become, Proceed

\* A job at rest, with ensure to run or with panes to launch is in order.
LEMMA EasyJobs ==
    ASSUME TypeOK, NEW t \in Threads,
           \/ thread'[t] = Resting
           \/ thread'[t] = Doing("ensure", NoPane)
           \/ \E ps \in SUBSET Panes : thread'[t] = Launching(ps)
    PROVE  ThreadOK(t)' /\ thread'[t].pc \in {"idle", "ensure", "launch"}
<1>1. CASE thread'[t] = Resting
  BY <1>1 DEF ThreadOK, Resting, LaunchSteps, ExitSteps, HandlerSteps
<1>2. CASE thread'[t] = Doing("ensure", NoPane)
  BY <1>2 DEF ThreadOK, Doing, Resting, LaunchSteps, ExitSteps, HandlerSteps
<1>3. ASSUME NEW ps \in SUBSET Panes, thread'[t] = Launching(ps)
      PROVE  ThreadOK(t)' /\ thread'[t].pc \in {"idle", "ensure", "launch"}
  <2>1. CASE ps = {}
    BY <1>1, <1>3, <2>1 DEF Launching
  <2>2. CASE ps # {}
    <3>1. thread'[t] = [pc |-> "launch", pane |-> NoPane, epoch |-> 0, targets |-> ps,
                        then |-> "idle"]
      BY <1>3, <2>2 DEF Launching, Resting
    <3> QED
      BY <3>1 DEF ThreadOK, LaunchSteps, ExitSteps, HandlerSteps
  <2> QED
    BY <2>1, <2>2
<1> QED
  BY <1>1, <1>2, <1>3

\* Changes of one job, which no process notices.
LEMMA JobStepKept ==
    ASSUME TypeOK, Wiring, NEW t \in Threads, UNCHANGED process,
           \A u \in Threads \ {t} : thread'[u] = thread[u],
           ThreadOK(t)', thread'[t].pc # "start"
    PROVE  /\ \A u \in Threads : ThreadOK(u)'
           /\ OneStart'
           /\ ProcessesOfPanes'
           /\ UNCHANGED <<heard, news>> => EventsOfProcesses'
           /\ UNCHANGED terminals => TerminalsOfPanes'
           /\ UNCHANGED launched => EntriesOfPanes'
           /\ ~restored /\ thread'[t].pc \in {"idle", "ensure", "terminate"} => Fresh'
<1>1. \A u \in Threads : \/ ThreadOK(u)' /\ thread'[u].pc # "start"
                         \/ /\ thread'[u] = thread[u]
                            /\ thread[u].pc = "start"
                                  => process'[thread[u].epoch] = process[thread[u].epoch]
  OBVIOUS
<1>2. (\A u \in Threads : ThreadOK(u)') /\ OneStart'
  BY <1>1, ThreadsKept DEF Born
<1>3. ProcessesOfPanes'
  BY DEF Wiring, ProcessesOfPanes
<1>4. UNCHANGED <<heard, news>> => EventsOfProcesses'
  BY DEF Wiring, EventsOfProcesses, Exited, Born
<1>5. UNCHANGED terminals => TerminalsOfPanes'
  BY DEF Wiring, TerminalsOfPanes, Born
<1>6. UNCHANGED launched => EntriesOfPanes'
  BY DEF Wiring, EntriesOfPanes
<1>7. ~restored /\ thread'[t].pc \in {"idle", "ensure", "terminate"} => Fresh'
  BY DEF Wiring, Fresh
<1> QED
  BY <1>2, <1>3, <1>4, <1>5, <1>6, <1>7

\* No action leaves a record that names a process of another pane, or a job out of order.
LEMMA WiringStep == TypeOK /\ Wiring /\ Next => Wiring'
<1> SUFFICES ASSUME TypeOK, Wiring, Next PROVE Wiring'
  OBVIOUS
<1> USE PaneAssumption DEF layoutVars, linkVars, processVars, lagVars, jobs, history
<1>0. Workers \subseteq Threads /\ Epochs \subseteq Threads
  BY DEF Threads
<1>1. ASSUME NEW w \in Workers,
             \/ \E p \in Panes : RestartPane(w, p) \/ \E b \in Behaviors : CreatePane(w, p, b)
             \/ OpenWorkspace(w) \/ EnsureAll(w)
      PROVE  Wiring'
  <2>1. Become(w, Doing("ensure", NoPane))
        /\ UNCHANGED <<restored, launched, terminals, process, heard, news>>
    BY <1>1 DEF RestartPane, CreatePane, OpenWorkspace, EnsureAll
  <2>2. thread'[w] = Doing("ensure", NoPane) /\ \A u \in Threads \ {w} : thread'[u] = thread[u]
    BY <1>0, <2>1, JobMoves
  <2>3. ThreadOK(w)' /\ thread'[w].pc = "ensure"
    BY <1>0, <2>2, EasyJobs DEF Doing, Resting
  <2> QED
    BY <1>0, <2>1, <2>2, <2>3, JobStepKept DEF Wiring
<1>2. ASSUME NEW w \in Workers, NEW p \in Panes, ClosePane(w, p) PROVE Wiring'
  <2>1. Become(w, Doing("terminate", p))
        /\ UNCHANGED <<restored, launched, terminals, process, heard, news>>
    BY <1>2 DEF ClosePane
  <2>2. thread'[w] = Doing("terminate", p) /\ \A u \in Threads \ {w} : thread'[u] = thread[u]
    BY <1>0, <2>1, JobMoves
  <2>3. ThreadOK(w)' /\ thread'[w].pc = "terminate"
    BY <2>2 DEF Doing, Resting, ThreadOK, LaunchSteps, ExitSteps, HandlerSteps
  <2> QED
    BY <1>0, <2>1, <2>2, <2>3, JobStepKept DEF Wiring
<1>3. ASSUME NEW t \in Threads, Ensure(t) PROVE Wiring'
  <2>1. \A resumed \in SUBSET InState("exited") : Claimable(resumed) \in SUBSET Panes
    BY DEF Claimable, InState
  <2>2. /\ \/ Become(t, Resting) /\ UNCHANGED restored
           \/ (\E ps \in SUBSET Panes : Become(t, Launching(ps))) /\ restored'
        /\ UNCHANGED <<launched, terminals, process, heard, news>>
    BY <1>3, <2>1 DEF Ensure, Claim
  <2>3. /\ \/ thread'[t] = Resting /\ UNCHANGED restored
           \/ (\E ps \in SUBSET Panes : thread'[t] = Launching(ps)) /\ restored'
        /\ \A u \in Threads \ {t} : thread'[u] = thread[u]
    BY <2>2, JobMoves
  <2>4. ThreadOK(t)' /\ thread'[t].pc \in {"idle", "ensure", "launch"}
    BY <2>3, EasyJobs
  <2>5. ~restored' => ~restored /\ thread'[t].pc \in {"idle", "ensure", "terminate"}
    BY <2>3 DEF Resting
  <2> QED
    BY <2>2, <2>3, <2>4, <2>5, JobStepKept DEF Wiring
<1>4. ASSUME NEW t \in Threads, Look(t) PROVE Wiring'
  <2>1. PICK p \in thread[t].targets :
          LET e == terminals[p]
              rest == [thread[t] EXCEPT !.pane = p, !.targets = @ \ {p}]
          IN Become(t, IF e # NoTerminal /\ Running(e)
                       THEN [rest EXCEPT !.pc = "adopt", !.epoch = e]
                       ELSE [rest EXCEPT !.pc = "register"])
    BY <1>4 DEF Look
  <2>2. /\ p \in Panes /\ terminals[p] \in Epochs \cup {0}
        /\ thread[t] \in Job /\ thread[t].pc = "launch" /\ thread[t].epoch = 0
        /\ thread[t].then \in {"idle", "closing", "sleeping"}
    BY <1>4, <2>1, Parts, JobTypes DEF Look, Wiring, ThreadOK
  <2>3. \A u \in Threads \ {t} : thread'[u] = thread[u]
    BY <2>1, JobMoves
  <2>4. ASSUME terminals[p] # NoTerminal /\ Running(terminals[p])
       PROVE  ThreadOK(t)' /\ thread'[t].pc # "start"
    <3>1. thread'[t] = [[thread[t] EXCEPT !.pane = p, !.targets = @ \ {p}]
                           EXCEPT !.pc = "adopt", !.epoch = terminals[p]]
      BY <2>1, <2>4, JobMoves
    <3>2. /\ thread'[t].pc = "adopt" /\ thread'[t].pane = p /\ thread'[t].epoch = terminals[p]
          /\ thread'[t].targets = thread[t].targets \ {p} /\ thread'[t].then = thread[t].then
      BY <2>2, <3>1 DEF Job
    <3>3. process[terminals[p]].pane = p /\ Born(terminals[p])
      BY <2>2, <2>4 DEF Wiring, TerminalsOfPanes
    <3> QED
      BY <1>4, <2>2, <2>4, <3>2, <3>3
         DEF Look, ThreadOK, Born, LaunchSteps, ExitSteps, HandlerSteps, NoTerminal
  <2>5. ASSUME ~(terminals[p] # NoTerminal /\ Running(terminals[p]))
       PROVE  ThreadOK(t)' /\ thread'[t].pc # "start"
    <3>1. thread'[t] = [[thread[t] EXCEPT !.pane = p, !.targets = @ \ {p}]
                           EXCEPT !.pc = "register"]
      BY <2>1, <2>5, JobMoves
    <3>2. /\ thread'[t].pc = "register" /\ thread'[t].pane = p /\ thread'[t].epoch = 0
          /\ thread'[t].targets = thread[t].targets \ {p} /\ thread'[t].then = thread[t].then
      BY <2>2, <3>1 DEF Job
    <3> QED
      BY <2>2, <3>2 DEF ThreadOK, LaunchSteps, ExitSteps, HandlerSteps
  <2>6. ThreadOK(t)' /\ thread'[t].pc # "start"
    BY <2>4, <2>5
  <2>7. restored'
    BY <1>4, <2>2 DEF Look, Wiring, Fresh
  <2> QED
    BY <1>4, <2>3, <2>6, <2>7, JobStepKept DEF Look, Wiring
<1>5. \A t \in Threads : thread[t].pc \notin {"idle", "ensure", "terminate"} => restored
  BY DEF Wiring, Fresh
<1>6. ASSUME NEW t \in Threads, NotPlanned(t) PROVE Wiring'
  <2>1. /\ thread'[t] = [thread[t] EXCEPT !.pc = "refused"]
        /\ \A u \in Threads \ {t} : thread'[u] = thread[u]
    BY <1>6, JobMoves DEF NotPlanned
  <2>2. thread[t] \in Job /\ ThreadOK(t) /\ thread[t].pc \in {"adopt", "register"}
    BY <1>6, JobTypes DEF NotPlanned, Wiring
  <2>3. /\ thread'[t].pc = "refused" /\ thread'[t].pane = thread[t].pane
        /\ thread'[t].targets = thread[t].targets /\ thread'[t].then = thread[t].then
    BY <2>1, <2>2 DEF Job
  <2>4. ThreadOK(t)'
    BY <2>2, <2>3 DEF ThreadOK, LaunchSteps, ExitSteps, HandlerSteps
  <2> QED
    BY <1>5, <1>6, <2>1, <2>2, <2>3, <2>4, JobStepKept DEF NotPlanned, Wiring
<1>7. ASSUME NEW t \in Threads, Adopt(t) \/ AlreadyExists(t) \/ Subscribe(t) \/ RecordRefused(t)
      PROVE  Wiring'
  <2>1. NextTarget(t) /\ UNCHANGED <<restored, process, news>>
    BY <1>7 DEF Adopt, AlreadyExists, Subscribe, RecordRefused
  <2>2. /\ thread'[t] = Launching(thread[t].targets)
        /\ \A u \in Threads \ {t} : thread'[u] = thread[u]
    BY <2>1, JobMoves DEF NextTarget
  <2>3. ThreadOK(t)' /\ thread'[t].pc # "start"
    BY <2>2, EasyJobs, Parts
  <2>4. thread[t].pc \in LaunchSteps /\ ThreadOK(t) /\ restored
    BY <1>5, <1>7 DEF Adopt, AlreadyExists, Subscribe, RecordRefused, LaunchSteps, Wiring
  <2>5. EventsOfProcesses'
    <3>1. CASE UNCHANGED heard
      BY <2>1, <2>2, <2>3, <3>1, JobStepKept
    <3>2. CASE Subscribe(t)
      <4>1. Born(thread[t].epoch) /\ heard' = heard \cup {thread[t].epoch}
        BY <2>4, <3>2 DEF Subscribe, ThreadOK
      <4> QED
        BY <2>1, <4>1 DEF Wiring, EventsOfProcesses, Born, Exited
    <3> QED
      BY <1>7, <3>1, <3>2 DEF Adopt, AlreadyExists, RecordRefused
  <2>6. EntriesOfPanes'
    <3>1. CASE UNCHANGED launched
      BY <2>1, <2>2, <2>3, <3>1, JobStepKept
    <3>2. CASE Adopt(t)
      <4>1. /\ launched' = [launched EXCEPT ![thread[t].pane]
                                = Launch(thread[t].epoch, behavior[thread[t].pane])]
            /\ process[thread[t].epoch].pane = thread[t].pane /\ Born(thread[t].epoch)
        BY <2>4, <3>2 DEF Adopt, SetLaunched, ThreadOK
      <4>2. \A p \in Panes : \/ launched'[p] = launched[p]
                             \/ p = thread[t].pane /\ launched'[p].epoch = thread[t].epoch
        BY <4>1 DEF Launch, TypeOK
      <4> QED
        BY <2>1, <4>1, <4>2 DEF Wiring, EntriesOfPanes, Born
    <3> QED
      BY <1>7, <3>1, <3>2 DEF AlreadyExists, Subscribe, RecordRefused
  <2>7. UNCHANGED terminals
    BY <1>7 DEF Adopt, AlreadyExists, Subscribe, RecordRefused
  <2> QED
    BY <2>1, <2>2, <2>3, <2>4, <2>5, <2>6, <2>7, JobStepKept DEF Wiring
<1>8. ASSUME NEW t \in Threads, Register(t) PROVE Wiring'
  <2>1. /\ thread'[t] = [thread[t] EXCEPT !.pc = "spawn"]
        /\ \A u \in Threads \ {t} : thread'[u] = thread[u]
    BY <1>8, JobMoves DEF Register
  <2>2. thread[t] \in Job /\ ThreadOK(t) /\ thread[t].pc = "register"
    BY <1>8, JobTypes DEF Register, Wiring
  <2>3. /\ thread'[t].pc = "spawn" /\ thread'[t].pane = thread[t].pane /\ thread'[t].epoch = 0
        /\ thread'[t].targets = thread[t].targets /\ thread'[t].then = thread[t].then
    BY <2>1, <2>2 DEF Job, ThreadOK
  <2>4. ThreadOK(t)'
    BY <2>2, <2>3 DEF ThreadOK, LaunchSteps, ExitSteps, HandlerSteps
  <2>5. TerminalsOfPanes'
    BY <1>8 DEF Register, WithoutExited, Wiring, TerminalsOfPanes, TypeOK, Born
  <2>6. EntriesOfPanes'
    <3>1. launched' = [launched EXCEPT ![thread[t].pane] = Launch(0, behavior[thread[t].pane])]
      BY <1>8 DEF Register, SetLaunched
    <3>2. \A p \in Panes : launched'[p] = launched[p] \/ launched'[p].epoch = 0
      BY <3>1 DEF Launch, TypeOK
    <3> QED
      BY <1>8, <3>2 DEF Register, Wiring, EntriesOfPanes, Epochs
  <2> QED
    BY <1>5, <1>8, <2>1, <2>2, <2>3, <2>4, <2>5, <2>6, JobStepKept DEF Register, Wiring
<1>9. ASSUME NEW t \in Threads, Insert(t) PROVE Wiring'
  <2>1. /\ thread'[t] = [thread[t] EXCEPT !.pc = "subscribe"]
        /\ \A u \in Threads \ {t} : thread'[u] = thread[u]
    BY <1>9, JobMoves DEF Insert
  <2>2. thread[t] \in Job /\ ThreadOK(t) /\ thread[t].pc = "insert"
    BY <1>9, JobTypes DEF Insert, Wiring
  <2>3. /\ thread'[t].pc = "subscribe" /\ thread'[t].pane = thread[t].pane
        /\ thread'[t].epoch = thread[t].epoch
        /\ thread'[t].targets = thread[t].targets /\ thread'[t].then = thread[t].then
    BY <2>1, <2>2 DEF Job, ThreadOK
  <2>4. process[thread[t].epoch].pane = thread[t].pane /\ Born(thread[t].epoch)
    BY <2>2 DEF ThreadOK
  <2>5. ThreadOK(t)'
    BY <1>9, <2>2, <2>3 DEF Insert, ThreadOK, LaunchSteps, ExitSteps, HandlerSteps, Born
  <2>6. TerminalsOfPanes'
    <3>1. /\ terminals' = [terminals EXCEPT ![thread[t].pane] = thread[t].epoch]
          /\ UNCHANGED process
      BY <1>9 DEF Insert
    <3>2. \A p \in Panes : \/ terminals'[p] = terminals[p]
                           \/ p = thread[t].pane /\ terminals'[p] = thread[t].epoch
      BY <3>1 DEF TypeOK
    <3> QED
      BY <2>4, <3>1, <3>2 DEF Wiring, TerminalsOfPanes, Born
  <2> QED
    BY <1>5, <1>9, <2>1, <2>2, <2>3, <2>5, <2>6, JobStepKept DEF Insert, Wiring
<1>10. ASSUME NEW t \in Threads, WriteFails(t) PROVE Wiring'
  <2>1. /\ \/ thread[t].pc = "refused" /\ NextTarget(t)
           \/ Become(t, Resting)
        /\ UNCHANGED <<restored, launched, terminals, process, heard, news>>
    BY <1>10 DEF WriteFails
  <2>2. /\ \/ thread[t].pc = "refused" /\ thread'[t] = Launching(thread[t].targets)
           \/ thread'[t] = Resting
        /\ \A u \in Threads \ {t} : thread'[u] = thread[u]
    BY <2>1, JobMoves DEF NextTarget
  <2>3. ThreadOK(t)' /\ thread'[t].pc # "start"
    BY <2>2, EasyJobs, Parts
  <2>4. ~restored => thread'[t].pc = "idle"
    BY <1>5, <2>2 DEF Resting
  <2> QED
    BY <2>1, <2>2, <2>3, <2>4, JobStepKept DEF Wiring
<1>11. ASSUME NEW e \in Epochs, Record(e) \/ LookForPane(e) \/ CloseForExit(e) PROVE Wiring'
  <2>1. /\ \/ Become(e, Resting)
           \/ Proceed(e, "unrecorded") \/ Proceed(e, "discard")
           \/ thread[e].then # "idle" /\ Become(e, Doing(thread[e].then, thread[e].pane))
        /\ thread[e].pc \in HandlerSteps
        /\ UNCHANGED <<restored, launched, terminals, process, heard, news>>
    BY <1>11 DEF Record, LookForPane, CloseForExit, HandlerSteps
  <2>2. /\ thread[e] \in Job /\ ThreadOK(e) /\ e \in Threads
    BY <1>0, JobTypes DEF Wiring
  <2>3. /\ \/ thread'[e] = Resting
           \/ thread'[e] = [thread[e] EXCEPT !.pc = "unrecorded"]
           \/ thread'[e] = [thread[e] EXCEPT !.pc = "discard"]
           \/ /\ thread[e].then \in {"closing", "sleeping"}
              /\ thread'[e] = Doing(thread[e].then, thread[e].pane)
        /\ \A u \in Threads \ {e} : thread'[u] = thread[u]
    BY <2>1, <2>2, JobMoves DEF ThreadOK
  <2>4. /\ thread[e].pane \in Panes /\ process[e].pane = thread[e].pane /\ Born(e)
        /\ thread[e].targets = {} /\ thread[e].then \in {"idle", "closing", "sleeping"}
    BY <2>1, <2>2 DEF ThreadOK, ExitSteps, HandlerSteps, LaunchSteps
  <2>5. ThreadOK(e)' /\ thread'[e].pc # "start"
    <3>1. CASE thread'[e] = Resting
      BY <2>2, <3>1, EasyJobs
    <3>2. CASE thread'[e] # Resting
      <4>1. /\ thread'[e].pc \in ExitSteps /\ thread'[e].pane = thread[e].pane
            /\ thread'[e].targets = {} /\ thread'[e].then \in {"idle", "closing", "sleeping"}
        BY <2>2, <2>3, <2>4, <3>2 DEF Job, Doing, Resting, ExitSteps, HandlerSteps
      <4> QED
        BY <2>1, <2>4, <4>1 DEF ThreadOK, Born, LaunchSteps, ExitSteps, HandlerSteps
    <3> QED
      BY <3>1, <3>2
  <2>6. restored'
    BY <1>5, <2>1, <2>2 DEF HandlerSteps
  <2> QED
    BY <2>1, <2>2, <2>3, <2>5, <2>6, JobStepKept DEF Wiring
<1>12. ASSUME NEW e \in Epochs, Discard(e) PROVE Wiring'
  <2>1. thread'[e] = Resting /\ \A u \in Threads \ {e} : thread'[u] = thread[u]
    BY <1>0, <1>12, JobMoves DEF Discard
  <2>2. e \in Threads /\ ThreadOK(e)' /\ thread'[e].pc # "start"
    BY <1>0, <2>1, EasyJobs
  <2>3. TerminalsOfPanes'
    <3>1. terminals' = WithoutExited(thread[e].pane) /\ UNCHANGED process
      BY <1>12 DEF Discard
    <3>2. \A p \in Panes : terminals'[p] \in {terminals[p], NoTerminal}
      BY <3>1 DEF WithoutExited, TypeOK
    <3> QED
      BY <3>1, <3>2 DEF Wiring, TerminalsOfPanes, Born
  <2>4. EntriesOfPanes'
    <3>1. launched' = [launched EXCEPT ![thread[e].pane] = NoLaunch]
      BY <1>12 DEF Discard, SetLaunched
    <3>2. \A p \in Panes : launched'[p] = launched[p] \/ launched'[p].epoch = -1
      BY <3>1 DEF NoLaunch, TypeOK
    <3> QED
      BY <1>12, <3>2 DEF Discard, Wiring, EntriesOfPanes, Epochs
  <2>5. restored'
    BY <1>5, <1>12, <2>2 DEF Discard
  <2> QED
    BY <1>12, <2>1, <2>2, <2>3, <2>4, <2>5, JobStepKept DEF Discard, Wiring
<1>13. ASSUME NEW e \in Epochs, WakeUp(e) PROVE Wiring'
  <2>1. /\ Become(e, Resting) \/ Become(e, Doing("ensure", NoPane))
        /\ UNCHANGED <<restored, launched, terminals, process, heard, news>>
    BY <1>13 DEF WakeUp
  <2>2. /\ thread'[e] = Resting \/ thread'[e] = Doing("ensure", NoPane)
        /\ \A u \in Threads \ {e} : thread'[u] = thread[u]
    BY <1>0, <2>1, JobMoves
  <2>3. ThreadOK(e)' /\ thread'[e].pc # "start"
    BY <1>0, <2>2, EasyJobs
  <2>4. restored'
    BY <1>0, <1>5, <1>13 DEF WakeUp
  <2> QED
    BY <1>0, <2>1, <2>2, <2>3, <2>4, JobStepKept DEF Wiring
<1>14. ASSUME NEW e \in Epochs, Match(e) PROVE Wiring'
  <2>1. Exited(e) /\ Born(e) /\ process[e].pane \in Panes /\ e \in Threads
    BY <1>0, <1>14 DEF Match, Wiring, ProcessesOfPanes, EventsOfProcesses, Exited, Born
  <2>2. UNCHANGED <<restored, terminals, process, heard>> /\ news' = news \ {e}
    BY <1>14 DEF Match
  <2>3. restored
    BY <2>1 DEF Wiring, Fresh, Born
  <2>4. EventsOfProcesses'
    BY <2>2 DEF Wiring, EventsOfProcesses, Exited, Born
  <2>5. CASE ~Matches(e)
    <3>1. UNCHANGED <<launched, thread>>
      BY <1>14, <2>5 DEF Match
    <3>2. (\A t \in Threads : ThreadOK(t)') /\ OneStart'
      BY <2>2, <3>1, ThreadsKept DEF Born
    <3> QED
      BY <2>2, <2>3, <2>4, <3>1, <3>2
         DEF Wiring, ProcessesOfPanes, TerminalsOfPanes, EntriesOfPanes, Born
  <2>6. CASE Matches(e)
    <3> DEFINE p == process[e].pane
               after == AfterRecord[launched[p].behavior]
    <3>1. /\ launched' = [launched EXCEPT ![p].exited = TRUE]
          /\ Become(e, [Doing("record", p) EXCEPT !.then = after])
      BY <1>14, <2>6 DEF Match
    <3>2. after \in {"idle", "closing", "sleeping"}
      BY <2>1, Parts DEF AfterRecord, Behaviors
    <3>3. /\ thread'[e].pc = "record" /\ thread'[e].pane = p /\ thread'[e].targets = {}
          /\ thread'[e].then = after
          /\ \A u \in Threads \ {e} : thread'[u] = thread[u]
      <4>1. /\ thread'[e] = [Doing("record", p) EXCEPT !.then = after]
            /\ \A u \in Threads \ {e} : thread'[u] = thread[u]
        BY <2>1, <3>1, JobMoves
      <4> QED
        BY <4>1 DEF Doing, Resting
    <3>4. ThreadOK(e)' /\ thread'[e].pc # "start"
      BY <2>1, <2>2, <3>2, <3>3 DEF ThreadOK, Born, LaunchSteps, ExitSteps, HandlerSteps
    <3>5. EntriesOfPanes'
      <4>1. \A q \in Panes : launched'[q].epoch = launched[q].epoch
        <5>1. \A q \in Panes : launched[q] \in Entry
          BY EntryTypes
        <5>2. launched' = [launched EXCEPT ![p] = [launched[p] EXCEPT !.exited = TRUE]]
          BY <3>1
        <5>3. [launched[p] EXCEPT !.exited = TRUE].epoch = launched[p].epoch
          BY <2>1, <5>1 DEF Entry
        <5> QED
          BY <2>1, <5>2, <5>3 DEF TypeOK
      <4> QED
        BY <2>2, <4>1 DEF Wiring, EntriesOfPanes
    <3> QED
      BY <2>1, <2>2, <2>3, <2>4, <3>3, <3>4, <3>5, JobStepKept DEF Wiring
  <2> QED
    BY <2>5, <2>6
<1>15. ASSUME NEW w \in Workers, TerminateRemoved(w) PROVE Wiring'
  <2>1. /\ Become(w, Doing("ensure", NoPane))
        /\ UNCHANGED <<restored, launched, terminals, heard, news>>
    BY <1>15 DEF TerminateRemoved
  <2>2. thread'[w] = Doing("ensure", NoPane) /\ \A u \in Threads \ {w} : thread'[u] = thread[u]
    BY <1>0, <2>1, JobMoves
  <2>3. ThreadOK(w)' /\ thread'[w].pc = "ensure"
    BY <1>0, <2>2, EasyJobs DEF Doing, Resting
  <2>4. terminals[thread[w].pane] \in 0 .. MaxEpochs
    BY <1>0, <1>15, Parts DEF TerminateRemoved, Wiring, ThreadOK
  <2>5. \A e \in Epochs :
           \/ process'[e] = process[e]
           \/ /\ Running(e)
              /\ \E ph \in {"stopped", "exited"} :
                    process'[e] = [process[e] EXCEPT !.phase = ph]
    BY <1>15, <2>4, Terminates DEF TerminateRemoved
  <2> QED
    BY <1>0, <1>5, <2>1, <2>2, <2>3, <2>5, ExitsKeepWiring
<1>16. ASSUME NEW e \in Epochs, ProcessExits(e) PROVE Wiring'
  <2>1. UNCHANGED <<restored, launched, terminals, heard, news, thread>>
    BY <1>16 DEF ProcessExits
  <2>2. \A d \in Epochs : \/ process'[d] = process[d]
                          \/ /\ process'[d] = [process[d] EXCEPT !.phase = "exited"]
                             /\ Running(d)
    BY <1>16 DEF ProcessExits, Exit, TypeOK
  <2> QED
    BY <2>1, <2>2, ExitsKeepWiring DEF Wiring
<1>17. ASSUME NEW t \in Threads, LaunchFails(t) PROVE Wiring'
  <2>1. /\ thread'[t] = [thread[t] EXCEPT !.pc = "refused"]
        /\ \A u \in Threads \ {t} : thread'[u] = thread[u]
        /\ UNCHANGED <<restored, terminals, heard, news>>
    BY <1>17, JobMoves DEF LaunchFails
  <2>2. /\ thread[t] \in Job /\ ThreadOK(t) /\ thread[t].pc \in {"spawn", "start"}
        /\ thread[t].epoch \in Epochs \cup {0}
    BY <1>17, JobTypes, Parts DEF LaunchFails, Wiring
  <2>3. /\ thread'[t].pc = "refused" /\ thread'[t].pane = thread[t].pane
        /\ thread'[t].targets = thread[t].targets /\ thread'[t].then = thread[t].then
    BY <2>1, <2>2 DEF Job
  <2>4. ThreadOK(t)'
    BY <2>2, <2>3 DEF ThreadOK, LaunchSteps, ExitSteps, HandlerSteps
  <2>5. \A e \in Epochs :
           \/ process'[e] = process[e]
           \/ /\ thread[t].pc = "start" /\ e = thread[t].epoch
              /\ process[e].phase = "prepared"
              /\ process'[e].pane = process[e].pane /\ process'[e].phase = "failed"
    <3>1. CASE thread[t].epoch = 0
      BY <1>17, <3>1 DEF LaunchFails
    <3>2. CASE thread[t].epoch # 0
      <4>1. thread[t].pc = "start" /\ process[thread[t].epoch].phase = "prepared"
        BY <2>2, <3>2 DEF ThreadOK
      <4>2. process' = [process EXCEPT ![thread[t].epoch]
                           = [process[thread[t].epoch] EXCEPT !.phase = "failed"]]
        BY <1>17, <3>2 DEF LaunchFails
      <4>3. \A e \in Epochs : process[e] \in Life
        BY LivesOn
      <4> QED
        BY <2>2, <3>2, <4>1, <4>2, <4>3 DEF Life, TypeOK
    <3> QED
      BY <3>1, <3>2
  <2>6. \A e \in Epochs : Born(e) => process'[e] = process[e] /\ Born(e)'
    BY <2>5 DEF Born
  <2>7. (\A u \in Threads : ThreadOK(u)') /\ OneStart'
    <3>1. \A u \in Threads \ {t} : thread[u].pc = "start" =>
             process'[thread[u].epoch] = process[thread[u].epoch]
      BY <2>5 DEF Wiring, OneStart, ThreadOK
    <3> QED
      BY <2>1, <2>3, <2>4, <2>5, <2>6, <3>1, ThreadsKept
  <2>8. ProcessesOfPanes' /\ EventsOfProcesses' /\ TerminalsOfPanes'
    <3>1. ProcessesOfPanes'
      BY <2>5 DEF Wiring, ProcessesOfPanes
    <3>2. EventsOfProcesses'
      BY <2>1, <2>6 DEF Wiring, EventsOfProcesses, Exited, Born, TypeOK
    <3>3. TerminalsOfPanes'
      BY <2>1, <2>6, Parts DEF Wiring, TerminalsOfPanes, NoTerminal
    <3> QED
      BY <3>1, <3>2, <3>3
  <2>9. EntriesOfPanes'
    <3>1. launched' = [launched EXCEPT ![thread[t].pane] = NoLaunch]
      BY <1>17 DEF LaunchFails, SetLaunched
    <3>2. \A p \in Panes : launched'[p] = launched[p] \/ launched'[p].epoch = -1
      BY <3>1 DEF NoLaunch, TypeOK
    <3> QED
      BY <2>5, <3>2 DEF Wiring, EntriesOfPanes, Epochs
  <2> QED
    BY <1>5, <2>1, <2>2, <2>7, <2>8, <2>9 DEF Wiring
<1>18. ASSUME NEW t \in Threads, Prepare(t) PROVE Wiring'
  <2>1. PICK e \in Epochs :
          /\ process[e].phase = "unborn"
          /\ process' = [process EXCEPT ![e] = [pane |-> thread[t].pane, phase |-> "prepared"]]
          /\ launched' = Noted(thread[t].pane, e)
          /\ Become(t, [thread[t] EXCEPT !.pc = "start", !.epoch = e])
    BY <1>18 DEF Prepare
  <2>2. /\ thread[t] \in Job /\ ThreadOK(t) /\ thread[t].pc = "spawn"
        /\ UNCHANGED <<restored, terminals, heard, news>>
    BY <1>18, JobTypes DEF Prepare, Wiring
  <2>3. /\ thread'[t].pc = "start" /\ thread'[t].pane = thread[t].pane /\ thread'[t].epoch = e
        /\ thread'[t].targets = thread[t].targets /\ thread'[t].then = thread[t].then
        /\ \A u \in Threads \ {t} : thread'[u] = thread[u]
    <3>1. /\ thread'[t] = [thread[t] EXCEPT !.pc = "start", !.epoch = e]
          /\ \A u \in Threads \ {t} : thread'[u] = thread[u]
      BY <2>1, JobMoves
    <3> QED
      BY <2>2, <3>1 DEF Job
  <2>4. /\ process'[e].pane = thread[t].pane /\ process'[e].phase = "prepared"
        /\ \A d \in Epochs \ {e} : process'[d] = process[d]
    BY <2>1 DEF TypeOK
  <2>5. ThreadOK(t)'
    BY <2>2, <2>3, <2>4 DEF ThreadOK, LaunchSteps, ExitSteps, HandlerSteps
  <2>6. \A d \in Epochs : Born(d) => process'[d] = process[d] /\ Born(d)'
    BY <2>1, <2>4 DEF Born
  <2>7. (\A u \in Threads : ThreadOK(u)') /\ OneStart'
    <3>1. \A u \in Threads \ {t} : thread[u].pc = "start" =>
             thread[u].epoch # e /\ process'[thread[u].epoch] = process[thread[u].epoch]
      BY <2>1, <2>4 DEF Wiring, ThreadOK
    <3>2. ASSUME NEW u \in Threads \ {t} PROVE ThreadOK(u)'
      <4>1. ThreadOK(u) /\ thread'[u] = thread[u]
        BY <2>3 DEF Wiring
      <4>2. thread[u].pc \in {"adopt", "insert", "subscribe"} =>
              /\ thread'[u].epoch \in Epochs
              /\ process'[thread'[u].epoch].pane = thread'[u].pane
              /\ Born(thread[u].epoch)'
        BY <2>6, <4>1 DEF ThreadOK, Born
      <4>3. thread[u].pc \in ExitSteps =>
               u \in Epochs /\ process'[u].pane = thread'[u].pane /\ Born(u)'
        BY <2>6, <4>1 DEF ThreadOK, Born
      <4> QED
        BY <3>1, <4>1, <4>2, <4>3 DEF ThreadOK
    <3>3. OneStart'
      BY <2>3, <3>1 DEF Wiring, OneStart
    <3> QED
      BY <2>5, <3>2, <3>3
  <2>8. thread[t].pane \in Panes
    BY <2>2 DEF ThreadOK, LaunchSteps
  <2>9. ProcessesOfPanes' /\ EventsOfProcesses' /\ TerminalsOfPanes'
    <3>1. ProcessesOfPanes'
      BY <2>4, <2>8 DEF Wiring, ProcessesOfPanes
    <3>2. EventsOfProcesses'
      BY <2>2, <2>6 DEF Wiring, EventsOfProcesses, Exited, Born, TypeOK
    <3>3. TerminalsOfPanes'
      BY <2>2, <2>6, Parts DEF Wiring, TerminalsOfPanes, NoTerminal
    <3> QED
      BY <3>1, <3>2, <3>3
  <2>10. EntriesOfPanes'
    <3>1. \A p \in Panes : \/ launched'[p] = launched[p]
                           \/ p = thread[t].pane /\ launched'[p].epoch = e
      BY <2>1, <2>8, EntryTypes DEF Noted, TypeOK, Entry
    <3> QED
      BY <2>1, <2>4, <3>1 DEF Wiring, EntriesOfPanes
  <2> QED
    BY <1>5, <2>2, <2>7, <2>9, <2>10 DEF Wiring
<1>19. ASSUME NEW t \in Threads, Start(t) PROVE Wiring'
  <2>1. /\ thread'[t] = [thread[t] EXCEPT !.pc = "insert"]
        /\ \A u \in Threads \ {t} : thread'[u] = thread[u]
        /\ UNCHANGED <<restored, launched, terminals, heard, news>>
    BY <1>19, JobMoves DEF Start
  <2>2. thread[t] \in Job /\ ThreadOK(t) /\ thread[t].pc = "start"
    BY <1>19, JobTypes DEF Start, Wiring
  <2>3. /\ thread'[t].pc = "insert" /\ thread'[t].pane = thread[t].pane
        /\ thread'[t].epoch = thread[t].epoch
        /\ thread'[t].targets = thread[t].targets /\ thread'[t].then = thread[t].then
    BY <2>1, <2>2 DEF Job
  <2>4. /\ thread[t].epoch \in Epochs
        /\ process[thread[t].epoch].pane = thread[t].pane
        /\ process[thread[t].epoch].phase = "prepared"
    BY <2>2 DEF ThreadOK
  <2>5. \A e \in Epochs :
           \/ process'[e] = process[e] /\ e # thread[t].epoch
           \/ /\ e = thread[t].epoch
              /\ process'[e].pane = process[e].pane /\ process'[e].phase = "running"
    <3>1. process' = [process EXCEPT ![thread[t].epoch]
                         = [process[thread[t].epoch] EXCEPT !.phase = "running"]]
      BY <1>19 DEF Start
    <3>2. \A e \in Epochs : process[e] \in Life
      BY LivesOn
    <3> QED
      BY <2>4, <3>1, <3>2 DEF Life, TypeOK
  <2>6. \A e \in Epochs : Born(e) => process'[e] = process[e] /\ Born(e)'
    BY <2>4, <2>5 DEF Born
  <2>7. ThreadOK(t)'
    BY <2>2, <2>3, <2>4, <2>5 DEF ThreadOK, LaunchSteps, ExitSteps, HandlerSteps, Born
  <2>8. (\A u \in Threads : ThreadOK(u)') /\ OneStart'
    <3>1. \A u \in Threads \ {t} : thread[u].pc = "start" =>
             process'[thread[u].epoch] = process[thread[u].epoch]
      BY <2>2, <2>5 DEF Wiring, OneStart, ThreadOK
    <3> QED
      BY <2>1, <2>3, <2>5, <2>6, <2>7, <3>1, ThreadsKept
  <2>9. ProcessesOfPanes' /\ EventsOfProcesses' /\ TerminalsOfPanes' /\ EntriesOfPanes'
    <3>1. ProcessesOfPanes'
      BY <2>4, <2>5 DEF Wiring, ProcessesOfPanes
    <3>2. EventsOfProcesses'
      BY <2>1, <2>6 DEF Wiring, EventsOfProcesses, Exited, Born, TypeOK
    <3>3. TerminalsOfPanes'
      BY <2>1, <2>6, Parts DEF Wiring, TerminalsOfPanes, NoTerminal
    <3>4. EntriesOfPanes'
      BY <2>1, <2>4, <2>5 DEF Wiring, EntriesOfPanes
    <3> QED
      BY <3>1, <3>2, <3>3, <3>4
  <2> QED
    BY <1>5, <2>1, <2>2, <2>8, <2>9 DEF Wiring
<1>20. ASSUME NEW e \in Epochs, Tell(e) PROVE Wiring'
  <2>1. /\ UNCHANGED <<restored, launched, terminals, heard, thread>>
        /\ news' = news \/ news' = news \cup {e}
        /\ process[e].phase = "exited"
    BY <1>20 DEF Tell
  <2>2. \A d \in Epochs :
           /\ process'[d].pane = process[d].pane
           /\ process'[d].phase = IF d = e THEN "told" ELSE process[d].phase
    <3>1. process' = [process EXCEPT ![e] = [process[e] EXCEPT !.phase = "told"]]
      BY <1>20 DEF Tell
    <3>2. \A d \in Epochs : process[d] \in Life
      BY LivesOn
    <3> QED
      BY <3>1, <3>2 DEF Life, TypeOK
  <2>3. \A d \in Epochs : Born(d) => Born(d)'
    BY <2>2 DEF Born
  <2>4. (\A u \in Threads : ThreadOK(u)') /\ OneStart'
    <3>1. \A u \in Threads : thread[u].pc = "start" =>
             process'[thread[u].epoch] = process[thread[u].epoch]
      <4>1. \A u \in Threads : thread[u].pc = "start" =>
               thread[u].epoch \in Epochs /\ thread[u].epoch # e
        BY <2>1 DEF Wiring, ThreadOK
      <4> QED
        BY <1>20, <4>1 DEF Tell, TypeOK
    <3> QED
      BY <2>1, <2>2, <2>3, <3>1, ThreadsKept
  <2>5. ProcessesOfPanes' /\ EventsOfProcesses' /\ TerminalsOfPanes' /\ EntriesOfPanes'
    <3>1. ProcessesOfPanes'
      BY <2>1, <2>2 DEF Wiring, ProcessesOfPanes
    <3>2. EventsOfProcesses'
      BY <2>1, <2>2, <2>3 DEF Wiring, EventsOfProcesses, Exited, TypeOK
    <3>3. TerminalsOfPanes'
      BY <2>1, <2>2, <2>3, Parts DEF Wiring, TerminalsOfPanes, NoTerminal
    <3>4. EntriesOfPanes'
      BY <2>1, <2>2 DEF Wiring, EntriesOfPanes
    <3> QED
      BY <3>1, <3>2, <3>3, <3>4
  <2>6. restored
    BY <2>1 DEF Wiring, Fresh
  <2> QED
    BY <2>1, <2>4, <2>5, <2>6 DEF Wiring
<1>21. ASSUME Rescan \/ Connect \/ \E p \in Panes : Forget(p) \/ Prune(p) PROVE Wiring'
  <2>1. UNCHANGED <<restored, process, heard, thread>>
    BY <1>21 DEF Rescan, Connect, Forget, Prune
  <2>2. (\A t \in Threads : ThreadOK(t)') /\ OneStart'
    BY <2>1, ThreadsKept DEF Born
  <2>3. \A e \in news' : e \in news \/ Exited(e)
    BY <1>21 DEF Rescan, Connect, Forget, Prune
  <2>4. \A p \in Panes : terminals'[p] \in {terminals[p], NoTerminal}
    BY <1>21 DEF Rescan, Connect, Forget, Prune, TypeOK
  <2>5. \A p \in Panes : launched'[p] = launched[p] \/ launched'[p].epoch = -1
    BY <1>21 DEF Rescan, Connect, Forget, Prune, SetLaunched, NoLaunch, TypeOK
  <2> QED
    BY <2>1, <2>2, <2>3, <2>4, <2>5
       DEF Wiring, ProcessesOfPanes, EventsOfProcesses, TerminalsOfPanes, EntriesOfPanes, Fresh,
           Epochs, Exited, Born
<1>22. ASSUME NEW t \in Threads, EnsureStep(t) PROVE Wiring'
  BY <1>3, <1>4, <1>6, <1>7, <1>8, <1>9, <1>10, <1>17, <1>18, <1>19, <1>22 DEF EnsureStep
<1>23. ASSUME NEW e \in Epochs, ExitStep(e) \/ ProcessExits(e) \/ Tell(e) \/ Match(e) PROVE Wiring'
  BY <1>0, <1>11, <1>12, <1>13, <1>14, <1>16, <1>20, <1>22, <1>23 DEF ExitStep
<1>24. ASSUME NEW w \in Workers, RequestStep(w) \/ EnsureAll(w) \/ WorkerStep(w) PROVE Wiring'
  BY <1>0, <1>1, <1>2, <1>15, <1>22, <1>24 DEF RequestStep, WorkerStep
<1>25. ASSUME NEW p \in Panes, TerminateTerminal(p) PROVE Wiring'
  <2>1. UNCHANGED <<restored, launched, terminals, heard, news, thread>>
    BY <1>25 DEF TerminateTerminal
  <2>2. terminals[p] \in 0 .. MaxEpochs
    BY Parts
  <2>3. \A e \in Epochs :
           \/ process'[e] = process[e]
           \/ /\ Running(e)
              /\ \E ph \in {"stopped", "exited"} :
                    process'[e] = [process[e] EXCEPT !.phase = ph]
    BY <1>25, <2>2, Terminates DEF TerminateTerminal
  <2> QED
    BY <2>1, <2>3, ExitsKeepWiring DEF Wiring
<1> QED
  BY <1>21, <1>23, <1>24, <1>25 DEF Next, EventStep

-----------------------------------------------------------------------------
(* What goes on with one pane.                                             *)

\* How an action may treat pane p (p is not overtaken) without more ado: job t moves and takes
\* up nothing new of p but an exit that matched, ...
Yields(t, p) ==
    /\ \A u \in Threads \ {t} : thread'[u] = thread[u]
    /\ Starts(t, p)' => Starts(t, p)
    /\ Begins(t, p)' => Begins(t, p)
    /\ Handles(t, p)' =>
          \/ Handles(t, p)
          \/ /\ \A u \in Threads : ~Begins(u, p)
             /\ layout'[p] # "idle" /\ launched'[p].epoch = t /\ launched'[p].exited
    /\ thread'[t].pane = p /\ thread'[t].pc \in {"adopt", "spawn", "start", "insert"}
          => thread'[t] = thread[t]
    /\ thread[t].pane = p /\ thread[t].pc = "insert" =>
          \/ thread'[t] = thread[t]
          \/ \A e \in Epochs : process[e].pane = p /\ Running(e)' => terminals'[p] = e
    /\ thread[t].pane = p /\ thread[t].pc = "terminate" /\ layout'[p] = "absent" =>
          \/ thread'[t] = thread[t]
          \/ \A e \in Epochs : process[e].pane = p /\ Running(e)' => Stopped(e)'

\* ... no process of p is new, and those that run keep their terminal, ...
ProcessesKept(p) ==
    \A e \in Epochs :
        /\ process'[e].pane = p => process[e].pane = p
        /\ process[e].pane = p =>
              /\ Born(e)' => Born(e)
              /\ Running(e)' => /\ Running(e)
                                /\ terminals[p] = e => terminals'[p] = e
                                /\ Stopped(e) => Stopped(e)'

\* ... the launched entry stays or matches nothing, ...
EntryKept(p) ==
    \/ launched'[p] = launched[p]
    \/ /\ \A e \in Epochs : ~Owns(e, p)' /\ ~(process[e].pane = p /\ Running(e)')
       /\ \A e \in Epochs : Handles(e, p)' => launched'[p].epoch = e /\ launched'[p].exited
       /\ \A u \in Threads : thread'[u].pane = p => thread'[u].pc \notin {"spawn", "start"}

\* ... and the state of the pane stays, or fits what goes on.
LayoutFits(p) ==
    \/ layout'[p] = layout[p]
    \/ /\ layout'[p] = "idle" => \A u \in Threads : ~Starts(u, p)' /\ ~Handles(u, p)'
       /\ layout'[p] # "running" => \A u \in Threads : ~Begins(u, p)'
       /\ layout'[p] \notin {"running", "absent"} => \A e \in Epochs : ~Owns(e, p)
       /\ layout'[p] = "absent" =>
             \A e \in Epochs : process[e].pane = p /\ Running(e)'
                 => /\ terminals'[p] = e
                    /\ \/ Stopped(e)'
                       \/ \E w \in Workers : thread'[w].pc = "terminate" /\ thread'[w].pane = p

\* What tells a process to end keeps the processes of a pane.
LEMMA EndKeeps ==
    ASSUME TypeOK, NEW p \in Panes, UNCHANGED terminals,
           \A e \in Epochs :
              \/ process'[e] = process[e]
              \/ /\ Running(e)
                 /\ \E ph \in {"stopped", "exited"} :
                       process'[e] = [process[e] EXCEPT !.phase = ph]
    PROVE  ProcessesKept(p)
<1>1. \A e \in Epochs : process[e] \in Life
  BY LivesOn
<1>2. ASSUME NEW e \in Epochs
      PROVE  /\ process'[e].pane = process[e].pane
             /\ Born(e)' => Born(e)
             /\ Running(e)' => Running(e)
             /\ Stopped(e) => Stopped(e)'
  <2>1. CASE process'[e] = process[e]
    BY <2>1 DEF Born, Running, Stopped, Exited
  <2>2. ASSUME Running(e), NEW ph \in {"stopped", "exited"},
               process'[e] = [process[e] EXCEPT !.phase = ph]
        PROVE  /\ process'[e].pane = process[e].pane
               /\ Born(e)' => Born(e)
               /\ Running(e)' => Running(e)
               /\ Stopped(e) => Stopped(e)'
    <3>1. process'[e].pane = process[e].pane /\ process'[e].phase = ph
      BY <1>1, <2>2 DEF Life
    <3> QED
      BY <2>2, <3>1 DEF Born, Running, Stopped, Exited
  <2> QED
    BY <2>1, <2>2
<1> QED
  BY <1>2 DEF ProcessesKept

\* Such an action keeps what is said of the pane.
LEMMA YieldKeeps ==
    ASSUME TypeOK, NEW p \in Panes, PaneOK(p), NEW t \in Threads,
           Yields(t, p), ProcessesKept(p), EntryKept(p), LayoutFits(p)
    PROVE  PaneOK(p)'
<1>0. Workers \subseteq Threads /\ Epochs \subseteq Threads
  BY DEF Threads
<1>1. \A u \in Threads : /\ Starts(u, p)' => Starts(u, p)
                         /\ Begins(u, p)' => Begins(u, p)
                         /\ u # t /\ Handles(u, p)' => Handles(u, p)
  <2>1. ASSUME NEW u \in Threads \ {t}
        PROVE  /\ Starts(u, p)' => Starts(u, p)
               /\ Begins(u, p)' => Begins(u, p)
               /\ Handles(u, p)' => Handles(u, p)
    BY DEF Yields, Starts, Begins, Handles
  <2> QED
    BY <2>1 DEF Yields
<1>2. \A e \in Epochs : Owns(e, p)' => Owns(e, p)
  BY DEF EntryKept, ProcessesKept, Owns
<1>3. \A e \in Epochs : (process[e].pane = p /\ Running(e))' =>
                           process[e].pane = p /\ Running(e) /\ Running(e)'
  BY DEF ProcessesKept
<1>4. OneStarter(p)'
  <2>1. \A u, v \in Threads : Starts(u, p)' /\ Starts(v, p)' => u = v
    BY <1>1 DEF PaneOK, OneStarter
  <2>2. \A u \in Threads : Starts(u, p)' => layout'[p] # "idle"
    BY <1>1 DEF PaneOK, OneStarter, LayoutFits
  <2>3. \A u \in Threads : Begins(u, p)' => layout'[p] = "running"
    BY <1>1 DEF PaneOK, OneStarter, LayoutFits
  <2>4. \A u \in Threads : Begins(u, p)' => \A e \in Epochs : ~Handles(e, p)'
    BY <1>0, <1>1 DEF PaneOK, OneStarter, Yields
  <2>5. \A u \in Threads : Begins(u, p)' => \A e \in Epochs : ~Owns(e, p)'
    BY <1>1, <1>2 DEF PaneOK, OneStarter
  <2> QED
    BY <2>1, <2>2, <2>3, <2>4, <2>5 DEF OneStarter
<1>5. EntryFits(p)'
  <2>1. ASSUME NEW u \in Threads, thread'[u].pane = p,
               thread'[u].pc \in {"adopt", "spawn", "start", "insert"}
        PROVE  thread'[u] = thread[u]
    BY <2>1 DEF Yields
  <2>2. ASSUME NEW u \in Threads, thread'[u].pane = p
        PROVE  /\ thread'[u].pc # "adopt"
               /\ thread'[u].pc = "insert" => \A e \in Epochs : Owns(e, p)' => e = thread'[u].epoch
    BY <1>2, <2>1, <2>2 DEF PaneOK, EntryFits
  <2>3. ASSUME NEW u \in Threads, thread'[u].pane = p, thread'[u].pc \in {"spawn", "start"}
        PROVE  launched'[p].epoch = thread'[u].epoch /\ ~launched'[p].exited
    BY <2>1, <2>3 DEF PaneOK, EntryFits, EntryKept
  <2> QED
    BY <2>2, <2>3 DEF EntryFits
<1>6. HandlerFits(p)'
  <2>1. ASSUME NEW e \in Epochs, Handles(e, p)', Handles(e, p)
        PROVE  layout'[p] # "idle" /\ launched'[p].epoch = e /\ launched'[p].exited
    BY <1>0, <2>1 DEF PaneOK, HandlerFits, LayoutFits, EntryKept
  <2> QED
    BY <1>0, <1>1, <2>1 DEF HandlerFits, Yields
<1>7. ProcessFits(p)'
  <2> SUFFICES ASSUME NEW e \in Epochs
               PROVE  /\ Owns(e, p)' => layout'[p] \in {"running", "absent"}
                      /\ (process[e].pane = p /\ Running(e))' =>
                            /\ Owns(e, p)'
                            /\ \/ terminals'[p] = e
                               \/ \E u \in Threads : /\ thread'[u].pc = "insert"
                                                     /\ thread'[u].pane = p
                                                     /\ thread'[u].epoch = e
                            /\ layout'[p] = "absent" =>
                                  /\ terminals'[p] = e
                                  /\ \/ Stopped(e)'
                                     \/ \E w \in Workers : /\ thread'[w].pc = "terminate"
                                                           /\ thread'[w].pane = p
    BY DEF ProcessFits
  <2>1. Owns(e, p)' => layout'[p] \in {"running", "absent"}
    BY <1>2 DEF PaneOK, ProcessFits, LayoutFits
  <2>2. ASSUME (process[e].pane = p /\ Running(e))'
        PROVE  /\ Owns(e, p)'
               /\ \/ terminals'[p] = e
                  \/ \E u \in Threads : /\ thread'[u].pc = "insert"
                                        /\ thread'[u].pane = p
                                        /\ thread'[u].epoch = e
               /\ layout'[p] = "absent" =>
                     /\ terminals'[p] = e
                     /\ \/ Stopped(e)'
                        \/ \E w \in Workers : thread'[w].pc = "terminate" /\ thread'[w].pane = p
    <3>1. process[e].pane = p /\ Running(e) /\ Running(e)'
      BY <1>3, <2>2
    <3>2. Owns(e, p)'
      BY <2>2, <3>1 DEF PaneOK, ProcessFits, EntryKept, Owns, Born, Running
    <3>3. \A u \in Threads : thread[u].pane = p /\ thread[u].pc = "insert"
                                => thread'[u] = thread[u] \/ terminals'[p] = e
      BY <3>1 DEF Yields
    <3>4. terminals[p] = e => terminals'[p] = e
      BY <3>1 DEF ProcessesKept
    <3>5. \/ terminals'[p] = e
          \/ \E u \in Threads : /\ thread'[u].pc = "insert"
                                /\ thread'[u].pane = p
                                /\ thread'[u].epoch = e
      BY <3>1, <3>3, <3>4 DEF PaneOK, ProcessFits
    <3>6. ASSUME layout'[p] = "absent"
          PROVE  /\ terminals'[p] = e
                 /\ \/ Stopped(e)'
                    \/ \E w \in Workers : thread'[w].pc = "terminate" /\ thread'[w].pane = p
      <4>1. CASE layout'[p] # layout[p]
        BY <3>1, <3>6, <4>1 DEF LayoutFits
      <4>2. CASE layout'[p] = layout[p]
        <5>1. terminals'[p] = e
          BY <3>1, <3>4, <3>6, <4>2 DEF PaneOK, ProcessFits
        <5>2. CASE Stopped(e)
          BY <3>1, <5>1, <5>2 DEF ProcessesKept
        <5>3. CASE ~Stopped(e)
          <6>1. PICK w \in Workers : thread[w].pc = "terminate" /\ thread[w].pane = p
            BY <3>1, <3>6, <4>2, <5>3 DEF PaneOK, ProcessFits
          <6>2. thread'[w] = thread[w] \/ Stopped(e)'
            BY <1>0, <3>1, <3>6, <6>1 DEF Yields
          <6> QED
            BY <5>1, <6>1, <6>2
        <5> QED
          BY <5>2, <5>3
      <4> QED
        BY <4>1, <4>2
    <3> QED
      BY <3>2, <3>5, <3>6
  <2> QED
    BY <2>1, <2>2
<1> QED
  BY <1>4, <1>5, <1>6, <1>7 DEF PaneOK

\* A job that rests, runs ensure or goes on to the next pane takes up nothing.
LEMMA RestYields ==
    ASSUME TypeOK, NEW p \in Panes, NEW t \in Threads, ThreadOK(t),
           \A u \in Threads \ {t} : thread'[u] = thread[u],
           \/ thread'[t] = Resting
           \/ thread'[t] = Doing("ensure", NoPane)
           \/ thread'[t] = Launching(thread[t].targets),
           thread[t].pane = p => thread[t].pc \notin {"insert", "terminate"}
    PROVE  Yields(t, p)
<1>1. thread'[t].pane = NoPane /\ NoPane # p
  BY PaneAssumption, Shapes
<1>2. thread'[t].targets = {} \/ thread'[t].targets = thread[t].targets
  BY Shapes
<1>3. Starts(t, p)' => p \in thread[t].targets
  BY <1>1, <1>2 DEF Starts
<1>4. Begins(t, p)' => p \in thread[t].targets
  BY <1>1, <1>2 DEF Begins
<1> QED
  BY <1>1, <1>3, <1>4 DEF Yields, Starts, Begins, Handles

\* So does one that deals with another pane.
LEMMA OtherYields ==
    ASSUME NEW p \in Panes, NEW t \in Threads,
           \A u \in Threads \ {t} : thread'[u] = thread[u],
           thread[t].pane # p, thread'[t].pane # p,
           thread'[t].targets \subseteq thread[t].targets
    PROVE  Yields(t, p)
BY DEF Yields, Starts, Begins, Handles

\* The job that is about to start p goes on.
LEMMA BeginKeeps ==
    ASSUME NEW p \in Panes, PaneOK(p), NEW t \in Threads, Begins(t, p),
           \A u \in Threads \ {t} : thread'[u] = thread[u],
           thread'[t].pane = p, thread'[t].pc \in BeginSteps \ {"adopt"},
           thread'[t].pc \in {"spawn", "start"} =>
               launched'[p].epoch = thread'[t].epoch /\ ~launched'[p].exited,
           layout'[p] = layout[p],
           \A e \in Epochs : ~Owns(e, p)' /\ ~(process[e].pane = p /\ Running(e))'
    PROVE  PaneOK(p)'
<1>0. Workers \subseteq Threads /\ Epochs \subseteq Threads
  BY DEF Threads
<1>1. Starts(t, p)
  BY DEF Begins, Starts, BeginSteps, LaunchSteps
<1>2. \A u \in Threads \ {t} : ~Starts(u, p) /\ ~Starts(u, p)'
  BY <1>1 DEF PaneOK, OneStarter, Starts
<1>3. \A e \in Epochs : ~Handles(e, p)'
  <2>1. \A e \in Epochs \ {t} : ~Handles(e, p)'
    BY <1>0 DEF PaneOK, OneStarter, Handles
  <2>2. ~Handles(t, p)'
    BY DEF Handles, BeginSteps, HandlerSteps
  <2> QED
    BY <2>1, <2>2
<1>4. layout[p] = "running"
  BY DEF PaneOK, OneStarter
<1>5. OneStarter(p)'
  <2>1. \A u, v \in Threads : Starts(u, p)' /\ Starts(v, p)' => u = v
    BY <1>2
  <2>2. layout'[p] = "running"
    BY <1>4
  <2> QED
    BY <1>3, <2>1, <2>2 DEF OneStarter
<1>6. EntryFits(p)'
  <2>1. \A u \in Threads \ {t} : thread'[u].pane = p => thread'[u].pc \notin LaunchSteps
    BY <1>2 DEF Starts
  <2> QED
    BY <2>1 DEF EntryFits, BeginSteps, LaunchSteps
<1>7. HandlerFits(p)'
  BY <1>3 DEF HandlerFits
<1>8. ProcessFits(p)'
  BY DEF ProcessFits
<1> QED
  BY <1>5, <1>6, <1>7, <1>8 DEF PaneOK

\* A pane that nobody deals with is claimed.
LEMMA ClaimKeeps ==
    ASSUME NEW p \in Panes, NEW t \in Threads, NEW ps \in SUBSET Panes, p \in ps,
           \A u \in Threads : ~Starts(u, p) /\ ~Handles(u, p),
           \A e \in Epochs : ~Owns(e, p) /\ ~(process[e].pane = p /\ Running(e)),
           thread'[t] = Launching(ps), \A u \in Threads \ {t} : thread'[u] = thread[u],
           layout'[p] = "running", UNCHANGED <<launched, process>>
    PROVE  PaneOK(p)'
<1>0. Workers \subseteq Threads /\ Epochs \subseteq Threads
  BY DEF Threads
<1>1. thread'[t].pane = NoPane /\ NoPane # p /\ thread'[t].pc \notin HandlerSteps \cup LaunchSteps
  BY PaneAssumption, Shapes DEF HandlerSteps, LaunchSteps
<1>2. \A u \in Threads \ {t} : ~Starts(u, p)'
  BY DEF Starts
<1>3. \A e \in Epochs : ~Handles(e, p)'
  <2>1. \A e \in Epochs \ {t} : ~Handles(e, p)'
    BY <1>0 DEF Handles
  <2>2. ~Handles(t, p)'
    BY <1>1 DEF Handles
  <2> QED
    BY <2>1, <2>2
<1>4. \A e \in Epochs : ~Owns(e, p)' /\ ~(process[e].pane = p /\ Running(e))'
  BY DEF Owns, Born, Running
<1>5. OneStarter(p)'
  <2>1. \A u, v \in Threads : Starts(u, p)' /\ Starts(v, p)' => u = v
    BY <1>2
  <2> QED
    BY <1>3, <1>4, <2>1 DEF OneStarter
<1>6. EntryFits(p)'
  <2>1. \A u \in Threads : thread'[u].pane = p => thread'[u].pc \notin LaunchSteps
    BY <1>1, <1>2 DEF Starts
  <2> QED
    BY <2>1 DEF EntryFits, LaunchSteps
<1>7. HandlerFits(p)'
  BY <1>3 DEF HandlerFits
<1>8. ProcessFits(p)'
  BY <1>4 DEF ProcessFits
<1> QED
  BY <1>5, <1>6, <1>7, <1>8 DEF PaneOK

\* What Overtake says of a pane that is not overtaken
LEMMA NotBusy ==
    ASSUME TypeOK, NEW p \in Panes, PaneOK(p), ~Busy(p)
    PROVE  /\ \A u \in Threads : ~Starts(u, p) /\ ~Begins(u, p) /\ ~Handles(u, p)
           /\ \A u \in Threads : thread[u].pane = p => thread[u].pc = "sleeping"
           /\ layout[p] # "running" => \A e \in Epochs : ~Owns(e, p)
<1>1. \A u \in Threads : ~Starts(u, p)
  BY DEF Busy, Starting, Starts
<1>2. \A u \in Threads : thread[u].pane = p => thread[u].pc = "sleeping"
  BY DEF Busy
<1>3. \A u \in Threads : ~Begins(u, p) /\ ~Handles(u, p)
  BY <1>1, <1>2 DEF Begins, Handles, Starts, BeginSteps, LaunchSteps, HandlerSteps
<1>4. ASSUME layout[p] # "running", NEW e \in Epochs, Owns(e, p) PROVE FALSE
  <2>1. layout[p] = "absent"
    BY <1>4 DEF PaneOK, ProcessFits
  <2>2. CASE process[e].phase = "running"
    <3>1. \E w \in Workers : thread[w].pc = "terminate" /\ thread[w].pane = p
      BY <1>4, <2>1, <2>2 DEF PaneOK, ProcessFits, Owns, Running, Stopped, Exited
    <3> QED
      BY <1>2, <3>1 DEF Threads
  <2>3. CASE Stopped(e)
    <3>1. launched[p] \in Entry /\ launched[p].epoch = e /\ launched[p].exited = FALSE
      BY <1>4, EntryTypes, Parts DEF Owns
    <3>2. launched[p] = Launch(e, launched[p].behavior)
      BY <3>1 DEF Launch, Entry
    <3> QED
      BY <2>3, <3>2 DEF Busy
  <2> QED
    BY <1>4, <2>2, <2>3 DEF Owns, Born, Stopped, Exited
<1> QED
  BY <1>1, <1>2, <1>3, <1>4

\* A pane that nobody deals with is created, restarted or wakes up.
LEMMA IdleKeeps ==
    ASSUME TypeOK, NEW p \in Panes, PaneOK(p), ~Busy(p), layout[p] # "running",
           NEW t \in Threads, ThreadOK(t), thread'[t] = Doing("ensure", NoPane),
           \A u \in Threads \ {t} : thread'[u] = thread[u],
           UNCHANGED <<launched, terminals, process>>
    PROVE  PaneOK(p)'
<1>1. /\ \A u \in Threads : ~Starts(u, p) /\ ~Begins(u, p) /\ ~Handles(u, p)
      /\ \A u \in Threads : thread[u].pane = p => thread[u].pc = "sleeping"
      /\ \A e \in Epochs : ~Owns(e, p)
  BY NotBusy
<1>2. \A e \in Epochs : ~(process[e].pane = p /\ Running(e))
  BY <1>1 DEF PaneOK, ProcessFits
<1>3. Yields(t, p)
  BY <1>1, RestYields
<1>4. thread'[t].pane = NoPane /\ NoPane # p /\ thread'[t].targets = {}
  BY PaneAssumption, Shapes
<1>5. \A u \in Threads : ~Starts(u, p)' /\ ~Begins(u, p)' /\ ~Handles(u, p)'
  <2>1. ~Starts(t, p)' /\ ~Begins(t, p)' /\ ~Handles(t, p)'
    BY <1>4 DEF Starts, Begins, Handles
  <2>2. \A u \in Threads \ {t} : ~Starts(u, p)' /\ ~Begins(u, p)' /\ ~Handles(u, p)'
    BY <1>1 DEF Starts, Begins, Handles
  <2> QED
    BY <2>1, <2>2
<1>6. LayoutFits(p)
  BY <1>1, <1>2, <1>5 DEF LayoutFits, Running
<1>7. ProcessesKept(p) /\ EntryKept(p)
  BY DEF ProcessesKept, EntryKept, Born, Running, Stopped, Exited
<1> QED
  BY <1>3, <1>6, <1>7, YieldKeeps

\* A pane that was overtaken stays so.
LEMMA OvertakenGrows == Next => overtaken \subseteq overtaken'
<1> USE DEF history, jobs
<1>1. ASSUME NEW t, EnsureStep(t) PROVE UNCHANGED overtaken
  BY <1>1 DEF EnsureStep, Ensure, Look, NotPlanned, Adopt, Register, AlreadyExists, Prepare, Start,
              LaunchFails, Insert, Subscribe, RecordRefused, WriteFails
<1>2. ASSUME NEW w, RequestStep(w) \/ EnsureAll(w) \/ WorkerStep(w)
      PROVE  overtaken \subseteq overtaken'
  BY <1>1, <1>2 DEF RequestStep, WorkerStep, ClosePane, RestartPane, CreatePane, OpenWorkspace,
                    EnsureAll, TerminateRemoved, Overtake
<1>3. ASSUME NEW e, ExitStep(e) \/ ProcessExits(e) \/ Tell(e) \/ Match(e)
      PROVE  overtaken \subseteq overtaken'
  BY <1>1, <1>3 DEF ExitStep, Record, LookForPane, CloseForExit, Discard, WakeUp,
                    ProcessExits, Tell, Match, Overtake
<1>4. ASSUME \/ Rescan \/ Connect
             \/ \E p \in Panes : TerminateTerminal(p) \/ Forget(p) \/ Prune(p)
      PROVE  UNCHANGED overtaken
  BY <1>4 DEF Rescan, Connect, TerminateTerminal, Forget, Prune
<1> QED
  BY <1>2, <1>3, <1>4 DEF Next, EventStep

\* No action disturbs what is said of a pane that it does not overtake.
LEMMA PaneStep == TypeOK /\ Wiring /\ PaneInv /\ Next => PaneInv'
<1> SUFFICES ASSUME TypeOK, Wiring, PaneInv, Next, NEW p \in Panes, p \notin overtaken'
             PROVE  PaneOK(p)'
  BY DEF PaneInv
<1> USE DEF layoutVars, linkVars, processVars, lagVars, jobs, history
<1>0. Workers \subseteq Threads /\ Epochs \subseteq Threads
  BY DEF Threads
<1>1. PaneOK(p) /\ p \notin overtaken
  BY OvertakenGrows DEF PaneInv
<1>2. \A t \in Threads : ThreadOK(t)
  BY DEF Wiring
<1>3. ASSUME UNCHANGED process
      PROVE  ProcessesKept(p) <=>
                \A e \in Epochs : process[e].pane = p /\ Running(e) /\ terminals[p] = e
                                     => terminals'[p] = e
  BY <1>3 DEF ProcessesKept, Born, Running, Stopped, Exited
<1>4. ASSUME NEW w \in Workers,
             \E q \in Panes : RestartPane(w, q) \/ \E b \in Behaviors : CreatePane(w, q, b)
      PROVE  PaneOK(p)'
  <2>1. PICK q \in Panes : RestartPane(w, q) \/ \E b \in Behaviors : CreatePane(w, q, b)
    BY <1>4
  <2>2. /\ thread'[w] = Doing("ensure", NoPane) /\ \A u \in Threads \ {w} : thread'[u] = thread[u]
        /\ UNCHANGED <<launched, terminals, process>>
        /\ thread[w].pc = "idle"
    BY <1>0, <2>1, JobMoves DEF RestartPane, CreatePane
  <2>3. CASE q = p
    <3>1. ~Busy(p) /\ layout[p] # "running"
      BY <2>1, <2>3 DEF RestartPane, CreatePane, Restartable, Overtake
    <3> QED
      BY <1>0, <1>1, <1>2, <2>2, <3>1, IdleKeeps
  <2>4. CASE q # p
    <3>1. layout'[p] = layout[p]
      BY <2>1, <2>4 DEF RestartPane, CreatePane, SetLayout, TypeOK
    <3>2. Yields(w, p)
      BY <1>0, <1>2, <2>2, RestYields
    <3> QED
      BY <1>0, <1>1, <1>3, <2>2, <3>1, <3>2, YieldKeeps DEF EntryKept, LayoutFits
  <2> QED
    BY <2>3, <2>4
<1>5. ASSUME NEW w \in Workers, NEW q \in Panes, ClosePane(w, q) PROVE PaneOK(p)'
  <2>1. /\ thread'[w] = Doing("terminate", q) /\ \A u \in Threads \ {w} : thread'[u] = thread[u]
        /\ UNCHANGED <<launched, terminals, process>>
        /\ thread[w].pc = "idle"
    BY <1>0, <1>5, JobMoves DEF ClosePane
  <2>2. /\ thread'[w].pc = "terminate" /\ thread'[w].pane = q /\ thread'[w].targets = {}
    BY <2>1, Shapes
  <2>3. Yields(w, p)
    BY <2>1, <2>2 DEF Yields, Starts, Begins, Handles, BeginSteps, LaunchSteps, HandlerSteps
  <2>4. LayoutFits(p)
    <3>1. CASE q # p
      BY <1>5, <3>1 DEF ClosePane, SetLayout, TypeOK, LayoutFits
    <3>2. CASE q = p
      <4>1. layout'[p] = "absent" /\ layout[p] # "absent" /\ ~Starting(p)
        BY <1>1, <1>5, <3>2 DEF ClosePane, SetLayout, TypeOK, Overtake
      <4>2. \A u \in Threads : ~Starts(u, p)
        BY <4>1 DEF Starting, Starts
      <4>3. \A u \in Threads : ~Begins(u, p)'
        <5>1. ~Begins(w, p)'
          BY <2>2 DEF Begins, BeginSteps
        <5>2. \A u \in Threads \ {w} : ~Begins(u, p)'
          BY <2>1, <4>2 DEF Begins, Starts, BeginSteps, LaunchSteps
        <5> QED
          BY <5>1, <5>2
      <4>4. \A e \in Epochs : process[e].pane = p /\ Running(e) => terminals[p] = e
        BY <1>1, <4>2 DEF PaneOK, ProcessFits, Starts, LaunchSteps
      <4> QED
        BY <2>1, <2>2, <3>2, <4>1, <4>3, <4>4 DEF LayoutFits, Running
    <3> QED
      BY <3>1, <3>2
  <2> QED
    BY <1>0, <1>1, <1>3, <2>1, <2>3, <2>4, YieldKeeps DEF EntryKept
<1>6. ASSUME NEW w \in Workers, OpenWorkspace(w) \/ EnsureAll(w) PROVE PaneOK(p)'
  <2>1. /\ thread'[w] = Doing("ensure", NoPane) /\ \A u \in Threads \ {w} : thread'[u] = thread[u]
        /\ UNCHANGED <<layout, launched, terminals, process>>
        /\ thread[w].pc = "idle"
    BY <1>0, <1>6, JobMoves DEF OpenWorkspace, EnsureAll
  <2>2. Yields(w, p)
    BY <1>0, <1>2, <2>1, RestYields
  <2> QED
    BY <1>0, <1>1, <1>3, <2>1, <2>2, YieldKeeps DEF EntryKept, LayoutFits
<1>7. ASSUME NEW w \in Workers, TerminateRemoved(w) PROVE PaneOK(p)'
  <2> DEFINE q == thread[w].pane
  <2>1. /\ thread'[w] = Doing("ensure", NoPane) /\ \A u \in Threads \ {w} : thread'[u] = thread[u]
        /\ UNCHANGED <<layout, launched, terminals>>
        /\ thread[w].pc = "terminate"
    BY <1>0, <1>7, JobMoves DEF TerminateRemoved
  <2>2. q \in Panes
    BY <1>0, <1>2, <2>1 DEF ThreadOK
  <2>3. PICK f \in 0 .. MaxEpochs : f = terminals[q]
    BY <2>2, Parts
  <2>4. Terminate(f)
    BY <1>7, <2>3 DEF TerminateRemoved
  <2>5. /\ \A e \in Epochs :
              \/ process'[e] = process[e]
              \/ /\ Running(e)
                 /\ \E ph \in {"stopped", "exited"} :
                       process'[e] = [process[e] EXCEPT !.phase = ph]
        /\ f # NoTerminal /\ Running(f)' => Stopped(f)'
    BY <2>4, Terminates
  <2>6. ProcessesKept(p)
    BY <2>1, <2>5, EndKeeps
  <2>7. Yields(w, p)
    <3>1. CASE q # p
      BY <1>0, <1>2, <2>1, <3>1, RestYields
    <3>2. CASE q = p
      <4>1. thread'[w].pane = NoPane /\ NoPane # p /\ thread'[w].targets = {}
        BY <2>1, PaneAssumption, Shapes
      <4>2. ASSUME layout'[p] = "absent", NEW e \in Epochs, process[e].pane = p, Running(e)'
            PROVE  Stopped(e)'
        <5>1. Running(e)
          BY <2>5, <4>2 DEF Running
        <5>2. f = e /\ e # NoTerminal
          BY <1>1, <2>3, <2>1, <3>2, <4>2, <5>1, Parts DEF PaneOK, ProcessFits, Epochs, NoTerminal
        <5> QED
          BY <2>5, <4>2, <5>2
      <4> QED
        BY <2>1, <4>1, <4>2 DEF Yields, Starts, Begins, Handles
    <3> QED
      BY <3>1, <3>2
  <2> QED
    BY <1>0, <1>1, <2>1, <2>6, <2>7, YieldKeeps DEF EntryKept, LayoutFits
<1>8. \A t \in Threads : Begins(t, p) =>
         /\ \A e \in Epochs : ~Owns(e, p) /\ ~(process[e].pane = p /\ Running(e))
         /\ layout[p] = "running"
  BY <1>1 DEF PaneOK, OneStarter, ProcessFits
<1>9. ASSUME NEW t \in Threads, Ensure(t) PROVE PaneOK(p)'
  <2>1. thread[t].pc = "ensure" /\ thread[t].pane = NoPane /\ NoPane # p
    BY <1>2, <1>9, PaneAssumption DEF Ensure, ThreadOK
  <2>2. CASE UNCHANGED layout /\ Become(t, Resting)
    <3>1. thread'[t] = Resting /\ \A u \in Threads \ {t} : thread'[u] = thread[u]
      BY <2>2, JobMoves
    <3>2. UNCHANGED <<launched, terminals, process>>
      BY <1>9 DEF Ensure
    <3> QED
      BY <1>1, <1>2, <1>3, <2>1, <2>2, <3>1, <3>2, RestYields, YieldKeeps DEF EntryKept, LayoutFits
  <2>3. ASSUME NEW resumed \in SUBSET InState("exited"), Claim(t, Claimable(resumed))
        PROVE  PaneOK(p)'
    <3> DEFINE claimed == Claimable(resumed)
    <3>1. /\ claimed \in SUBSET Panes
          /\ p \in claimed => layout[p] = "idle" \/ ~restored
      BY DEF Claimable, InState
    <3>2. /\ layout'[p] = IF p \in claimed THEN "running" ELSE layout[p]
          /\ UNCHANGED <<launched, terminals, process>>
      BY <1>9, <2>3 DEF Ensure, Claim
    <3>3. thread'[t] = Launching(claimed) /\ \A u \in Threads \ {t} : thread'[u] = thread[u]
      BY <2>3, JobMoves DEF Claim
    <3> HIDE DEF claimed
    <3>4. CASE p \notin claimed
      <4>1. thread'[t].pane = NoPane /\ thread'[t].targets = claimed
        BY <3>3, Shapes
      <4>2. Yields(t, p)
        BY <2>1, <3>3, <3>4, <4>1 DEF Yields, Starts, Begins, Handles
      <4> QED
        BY <1>1, <1>3, <3>2, <3>4, <4>2, YieldKeeps DEF EntryKept, LayoutFits
    <3>5. CASE p \in claimed
      <4>1. \A e \in Epochs : ~Owns(e, p) /\ ~(process[e].pane = p /\ Running(e))
        <5>1. CASE layout[p] = "idle"
          BY <1>1, <5>1 DEF PaneOK, ProcessFits
        <5>2. CASE ~restored
          BY <5>2 DEF Wiring, Fresh, Owns, Born, Running
        <5> QED
          BY <3>1, <3>5, <5>1, <5>2
      <4>2. \A u \in Threads : ~Starts(u, p) /\ ~Handles(u, p)
        <5>1. CASE layout[p] = "idle"
          <6>1. \A u \in Threads : Handles(u, p) => u \in Epochs
            BY <1>2 DEF Handles, ThreadOK, ExitSteps
          <6> QED
            BY <1>1, <5>1, <6>1 DEF PaneOK, OneStarter, HandlerFits
        <5>2. CASE ~restored
          <6>1. \A u \in Threads : /\ thread[u].pc \in {"idle", "ensure", "terminate"}
                                   /\ thread[u].targets = {}
            BY <1>2, <5>2 DEF Wiring, Fresh, ThreadOK, LaunchSteps
          <6> QED
            BY <6>1 DEF Starts, Handles, LaunchSteps, HandlerSteps
        <5> QED
          BY <3>1, <3>5, <5>1, <5>2
      <4> QED
        BY <3>1, <3>2, <3>3, <3>5, <4>1, <4>2, ClaimKeeps
    <3> QED
      BY <3>4, <3>5
  <2> QED
    BY <1>9, <2>2, <2>3 DEF Ensure
<1>10. ASSUME NEW t \in Threads, Look(t) PROVE PaneOK(p)'
  <2>1. PICK q \in thread[t].targets :
          LET e == terminals[q]
              rest == [thread[t] EXCEPT !.pane = q, !.targets = @ \ {q}]
          IN Become(t, IF e # NoTerminal /\ Running(e)
                       THEN [rest EXCEPT !.pc = "adopt", !.epoch = e]
                       ELSE [rest EXCEPT !.pc = "register"])
    BY <1>10 DEF Look
  <2>2. /\ \A u \in Threads \ {t} : thread'[u] = thread[u]
        /\ UNCHANGED <<layout, launched, terminals, process>>
        /\ thread[t].pane = NoPane /\ NoPane # p /\ thread[t] \in Job
    BY <1>2, <1>10, <2>1, JobMoves, JobTypes, PaneAssumption DEF Look, ThreadOK
  <2>3. CASE q = p
    <3>1. Begins(t, p)
      BY <2>3 DEF Begins
    <3>2. ~(terminals[p] # NoTerminal /\ Running(terminals[p]))
      <4>1. terminals[p] # NoTerminal => terminals[p] \in Epochs /\ process[terminals[p]].pane = p
        BY Parts DEF Wiring, TerminalsOfPanes, NoTerminal
      <4> QED
        BY <1>8, <3>1, <4>1
    <3>3. thread'[t] = [[thread[t] EXCEPT !.pane = q, !.targets = @ \ {q}] EXCEPT !.pc = "register"]
      BY <2>1, <2>3, <3>2, JobMoves
    <3>4. thread'[t].pane = p /\ thread'[t].pc = "register"
      BY <2>2, <2>3, <3>3 DEF Job
    <3>5. \A e \in Epochs : ~Owns(e, p)' /\ ~(process[e].pane = p /\ Running(e))'
      BY <1>8, <2>2, <3>1 DEF Owns, Born, Running
    <3> QED
      BY <1>1, <2>2, <3>1, <3>4, <3>5, BeginKeeps DEF BeginSteps
  <2>4. CASE q # p
    <3>1. thread'[t].pane = q /\ thread'[t].targets = thread[t].targets \ {q}
      <4>1. \/ thread'[t] = [[thread[t] EXCEPT !.pane = q, !.targets = @ \ {q}]
                                EXCEPT !.pc = "adopt", !.epoch = terminals[q]]
            \/ thread'[t] = [[thread[t] EXCEPT !.pane = q, !.targets = @ \ {q}]
                                EXCEPT !.pc = "register"]
        BY <2>1, JobMoves
      <4> QED
        BY <2>2, <4>1 DEF Job
    <3>2. Yields(t, p)
      BY <2>2, <2>4, <3>1, OtherYields
    <3> QED
      BY <1>1, <1>3, <2>2, <3>2, YieldKeeps DEF EntryKept, LayoutFits
  <2> QED
    BY <2>3, <2>4
<1>11. ASSUME NEW t \in Threads, thread[t].pc \in BeginSteps, thread[t].pane = p
       PROVE  Begins(t, p)
  BY <1>11 DEF Begins
<1>12. ASSUME NEW t \in Threads, NotPlanned(t) PROVE PaneOK(p)'
  <2>1. /\ thread'[t] = [thread[t] EXCEPT !.pc = "refused"]
        /\ \A u \in Threads \ {t} : thread'[u] = thread[u]
        /\ UNCHANGED <<layout, launched, terminals, process>>
        /\ thread[t].pc \in {"adopt", "register"}
    BY <1>12, JobMoves DEF NotPlanned
  <2>2. /\ thread'[t].pc = "refused" /\ thread'[t].pane = thread[t].pane
        /\ thread'[t].targets = thread[t].targets
    BY <2>1, JobTypes DEF Job
  <2>3. CASE thread[t].pane = p
    <3>1. \A e \in Epochs : ~Owns(e, p)' /\ ~(process[e].pane = p /\ Running(e))'
      BY <1>8, <1>11, <2>1, <2>3 DEF Owns, Born, Running, BeginSteps
    <3> QED
      BY <1>1, <1>11, <2>1, <2>2, <2>3, <3>1, BeginKeeps DEF BeginSteps
  <2>4. CASE thread[t].pane # p
    BY <1>1, <1>3, <2>1, <2>2, <2>4, OtherYields, YieldKeeps DEF EntryKept, LayoutFits
  <2> QED
    BY <2>3, <2>4
<1>13. ASSUME NEW t \in Threads, Adopt(t) \/ AlreadyExists(t) \/ Subscribe(t) PROVE PaneOK(p)'
  <2>1. /\ thread'[t] = Launching(thread[t].targets)
        /\ \A u \in Threads \ {t} : thread'[u] = thread[u]
        /\ UNCHANGED <<layout, terminals, process>>
        /\ thread[t].pc \in {"adopt", "spawn", "subscribe"}
    BY <1>13, JobMoves DEF Adopt, AlreadyExists, Subscribe, NextTarget
  <2>2. launched'[p] = launched[p]
    <3>1. thread[t].pc = "adopt" => thread[t].pane # p
      BY <1>1 DEF PaneOK, EntryFits
    <3> QED
      BY <1>13, <3>1 DEF Adopt, AlreadyExists, Subscribe, SetLaunched, TypeOK
  <2>3. Yields(t, p)
    BY <1>2, <2>1, RestYields
  <2> QED
    BY <1>1, <1>3, <2>1, <2>2, <2>3, YieldKeeps DEF EntryKept, LayoutFits
<1>14. ASSUME NEW t \in Threads, Register(t) PROVE PaneOK(p)'
  <2> DEFINE q == thread[t].pane
  <2>1. /\ thread'[t] = [thread[t] EXCEPT !.pc = "spawn"]
        /\ \A u \in Threads \ {t} : thread'[u] = thread[u]
        /\ UNCHANGED <<layout, process>>
        /\ thread[t].pc = "register" /\ thread[t].epoch = 0
        /\ terminals' = WithoutExited(q)
        /\ launched' = [launched EXCEPT ![q] = Launch(0, behavior[q])]
    BY <1>2, <1>14, JobMoves DEF Register, SetLaunched, ThreadOK
  <2>2. /\ thread'[t].pc = "spawn" /\ thread'[t].pane = q /\ thread'[t].epoch = 0
        /\ thread'[t].targets = thread[t].targets
    BY <2>1, JobTypes DEF Job
  <2>3. CASE q = p
    <3>1. launched'[p].epoch = 0 /\ ~launched'[p].exited
      BY <2>1, <2>3 DEF TypeOK, Launch
    <3>2. \A e \in Epochs : ~Owns(e, p)' /\ ~(process[e].pane = p /\ Running(e))'
      <4>1. \A e \in Epochs : e # 0
        BY DEF Epochs
      <4> QED
        BY <1>8, <1>11, <2>1, <2>3, <3>1, <4>1 DEF Owns, Running, BeginSteps
    <3> QED
      BY <1>1, <1>11, <2>1, <2>2, <2>3, <3>1, <3>2, BeginKeeps DEF BeginSteps
  <2>4. CASE q # p
    <3>1. launched'[p] = launched[p] /\ terminals'[p] = terminals[p]
      BY <2>1, <2>4 DEF TypeOK, WithoutExited
    <3> QED
      BY <1>1, <1>3, <2>1, <2>2, <2>4, <3>1, OtherYields, YieldKeeps DEF EntryKept, LayoutFits
  <2> QED
    BY <2>3, <2>4
<1>15. ASSUME NEW t \in Threads, LaunchFails(t) PROVE PaneOK(p)'
  <2> DEFINE q == thread[t].pane
  <2>1. /\ thread'[t] = [thread[t] EXCEPT !.pc = "refused"]
        /\ \A u \in Threads \ {t} : thread'[u] = thread[u]
        /\ UNCHANGED <<layout, terminals>>
        /\ thread[t].pc \in {"spawn", "start"}
        /\ launched' = [launched EXCEPT ![q] = NoLaunch]
    BY <1>15, JobMoves DEF LaunchFails, SetLaunched
  <2>2. /\ thread'[t].pc = "refused" /\ thread'[t].pane = q
        /\ thread'[t].targets = thread[t].targets
    BY <2>1, JobTypes DEF Job
  <2>3. \A e \in Epochs :
           /\ process'[e].pane = process[e].pane
           /\ Born(e)' => Born(e)
           /\ Running(e)' => Running(e) /\ (Stopped(e) => Stopped(e)')
    <3>1. CASE thread[t].epoch = 0
      BY <1>15, <3>1 DEF LaunchFails, Born, Running, Stopped, Exited
    <3>2. CASE thread[t].epoch # 0
      <4>1. process' = [process EXCEPT ![thread[t].epoch]
                           = [process[thread[t].epoch] EXCEPT !.phase = "failed"]]
        BY <1>15, <3>2 DEF LaunchFails
      <4>2. \A e \in Epochs : process[e] \in Life
        BY LivesOn
      <4> QED
        BY <4>1, <4>2 DEF Life, TypeOK, Born, Running, Stopped, Exited
    <3> QED
      BY <3>1, <3>2
  <2>4. CASE q = p
    <3>1. launched'[p].epoch = -1
      BY <2>1, <2>4 DEF TypeOK, NoLaunch
    <3>2. \A e \in Epochs : ~Owns(e, p)' /\ ~(process[e].pane = p /\ Running(e))'
      <4>1. \A e \in Epochs : e # -1
        BY DEF Epochs
      <4>2. Begins(t, p)
        BY <1>11, <2>1, <2>4 DEF BeginSteps
      <4> QED
        BY <1>8, <2>3, <3>1, <4>1, <4>2 DEF Owns
    <3> QED
      BY <1>1, <1>11, <2>1, <2>2, <2>4, <3>2, BeginKeeps DEF BeginSteps
  <2>5. CASE q # p
    <3>1. launched'[p] = launched[p]
      BY <2>1, <2>5 DEF TypeOK
    <3>2. ProcessesKept(p)
      BY <2>1, <2>3 DEF ProcessesKept
    <3> QED
      BY <1>1, <2>1, <2>2, <2>5, <3>1, <3>2, OtherYields, YieldKeeps DEF EntryKept, LayoutFits
  <2> QED
    BY <2>4, <2>5
<1>16. ASSUME NEW t \in Threads, Prepare(t) PROVE PaneOK(p)'
  <2> DEFINE q == thread[t].pane
  <2>1. PICK e \in Epochs :
          /\ process[e].phase = "unborn"
          /\ process' = [process EXCEPT ![e] = [pane |-> q, phase |-> "prepared"]]
          /\ launched' = Noted(q, e)
          /\ Become(t, [thread[t] EXCEPT !.pc = "start", !.epoch = e])
    BY <1>16 DEF Prepare
  <2>2. /\ thread'[t] = [thread[t] EXCEPT !.pc = "start", !.epoch = e]
        /\ \A u \in Threads \ {t} : thread'[u] = thread[u]
        /\ UNCHANGED <<layout, terminals>>
        /\ thread[t].pc = "spawn" /\ thread[t].epoch = 0
    BY <1>2, <1>16, <2>1, JobMoves DEF Prepare, ThreadOK
  <2>3. /\ thread'[t].pc = "start" /\ thread'[t].pane = q /\ thread'[t].epoch = e
        /\ thread'[t].targets = thread[t].targets
    BY <2>2, JobTypes DEF Job
  <2>4. /\ process'[e].pane = q /\ process'[e].phase = "prepared"
        /\ \A d \in Epochs \ {e} : process'[d] = process[d]
    BY <2>1 DEF TypeOK
  <2>5. CASE q = p
    <3>1. launched[p].epoch = 0 /\ ~launched[p].exited
      BY <1>1, <2>2, <2>5 DEF PaneOK, EntryFits
    <3>2. launched'[p].epoch = e /\ ~launched'[p].exited
      <4>1. launched[p] # NoLaunch
        BY <3>1 DEF NoLaunch
      <4> QED
        BY <2>1, <2>5, <3>1, <4>1, EntryTypes DEF Noted, TypeOK, Entry
    <3>3. \A d \in Epochs : ~Owns(d, p)' /\ ~(process[d].pane = p /\ Running(d))'
      <4>1. \A d \in Epochs \ {e} : ~Owns(d, p)' /\ ~(process[d].pane = p /\ Running(d))'
        BY <1>8, <1>11, <2>2, <2>4, <2>5, <3>2 DEF Owns, Running, BeginSteps
      <4>2. ~Born(e)' /\ ~Running(e)'
        BY <2>4 DEF Born, Running
      <4> QED
        BY <4>1, <4>2 DEF Owns
    <3> QED
      BY <1>1, <1>11, <2>2, <2>3, <2>5, <3>2, <3>3, BeginKeeps DEF BeginSteps
  <2>6. CASE q # p
    <3>1. launched'[p] = launched[p]
      BY <2>1, <2>6 DEF TypeOK, Noted
    <3>2. ProcessesKept(p)
      <4>1. \A d \in Epochs : d # e => process'[d] = process[d]
        BY <2>4
      <4>2. ~Born(e)' /\ ~Running(e)'
        BY <2>4 DEF Born, Running
      <4> QED
        BY <2>2, <2>4, <2>6, <4>1, <4>2 DEF ProcessesKept, Born, Running, Stopped, Exited
    <3> QED
      BY <1>1, <2>2, <2>3, <2>6, <3>1, <3>2, OtherYields, YieldKeeps DEF EntryKept, LayoutFits
  <2> QED
    BY <2>5, <2>6
<1>17. ASSUME NEW t \in Threads, Start(t) PROVE PaneOK(p)'
  <2> DEFINE q == thread[t].pane
  <2>1. /\ thread'[t] = [thread[t] EXCEPT !.pc = "insert"]
        /\ \A u \in Threads \ {t} : thread'[u] = thread[u]
        /\ UNCHANGED <<layout, launched, terminals>>
        /\ thread[t].pc = "start"
    BY <1>17, JobMoves DEF Start
  <2>0. PICK e \in Epochs : e = thread[t].epoch
    BY <1>2, <2>1 DEF ThreadOK
  <2>2. /\ thread'[t].pc = "insert" /\ thread'[t].pane = q /\ thread'[t].epoch = e
        /\ thread'[t].targets = thread[t].targets
    BY <2>0, <2>1, JobTypes DEF Job
  <2>3. process[e].pane = q /\ process[e].phase = "prepared" /\ q \notin thread[t].targets
    BY <1>2, <2>0, <2>1 DEF ThreadOK, LaunchSteps
  <2>4. /\ process'[e].pane = q /\ process'[e].phase = "running"
        /\ \A d \in Epochs \ {e} : process'[d] = process[d]
    <3>1. process' = [process EXCEPT ![e] = [process[e] EXCEPT !.phase = "running"]]
      BY <1>17, <2>0 DEF Start
    <3>2. process[e] \in Life
      BY <2>3, LivesOn
    <3> QED
      BY <2>3, <3>1, <3>2 DEF Life, TypeOK
  <2> HIDE DEF q
  <2>5. CASE q = p
    <3>1. Begins(t, p) /\ Starts(t, p)
      BY <1>11, <2>1, <2>5 DEF q, BeginSteps, Begins, Starts, LaunchSteps
    <3>2. \A u \in Threads \ {t} : ~Starts(u, p)'
      BY <1>1, <2>1, <3>1 DEF PaneOK, OneStarter, Starts
    <3>3. \A u \in Threads : ~Begins(u, p)'
      <4>1. ~Begins(t, p)'
        BY <2>2, <2>3, <2>5 DEF Begins, BeginSteps
      <4>2. \A u \in Threads \ {t} : ~Begins(u, p)'
        BY <3>2 DEF Begins, Starts, BeginSteps, LaunchSteps
      <4> QED
        BY <4>1, <4>2
    <3>4. \A d \in Epochs : ~Handles(d, p)'
      <4>1. ~Handles(t, p)'
        BY <2>2 DEF Handles, HandlerSteps
      <4>2. \A d \in Epochs \ {t} : ~Handles(d, p)'
        BY <1>0, <1>1, <2>1, <3>1 DEF PaneOK, OneStarter, Handles
      <4> QED
        BY <4>1, <4>2
    <3>5. layout'[p] = "running"
      BY <1>8, <2>1, <3>1
    <3>6. launched'[p].epoch = e /\ ~launched'[p].exited
      BY <1>1, <2>0, <2>1, <2>5 DEF q, PaneOK, EntryFits
    <3>7. \A d \in Epochs : d # e => ~Owns(d, p)' /\ ~(process[d].pane = p /\ Running(d))'
      BY <1>8, <2>4, <3>1, <3>6 DEF Owns, Running
    <3>8. Owns(e, p)'
      BY <2>4, <2>5, <3>6 DEF Owns, Born
    <3>9. OneStarter(p)'
      <4>1. \A u, v \in Threads : Starts(u, p)' /\ Starts(v, p)' => u = v
        BY <3>2
      <4> QED
        BY <3>3, <3>5, <4>1 DEF OneStarter
    <3>10. EntryFits(p)'
      <4>1. \A u \in Threads \ {t} : thread'[u].pane = p => thread'[u].pc \notin LaunchSteps
        BY <3>2 DEF Starts
      <4> QED
        BY <2>2, <3>7, <4>1 DEF EntryFits, LaunchSteps
    <3>11. HandlerFits(p)'
      BY <3>4 DEF HandlerFits
    <3>12. ProcessFits(p)'
      <4>1. \E u \in Threads : /\ thread'[u].pc = "insert"
                               /\ thread'[u].pane = p
                               /\ thread'[u].epoch = e
        BY <2>2, <2>5
      <4> QED
        BY <3>5, <3>7, <3>8, <4>1 DEF ProcessFits
    <3> QED
      BY <3>9, <3>10, <3>11, <3>12 DEF PaneOK
  <2>6. CASE q # p
    <3>1. ProcessesKept(p)
      BY <2>1, <2>3, <2>4, <2>6 DEF ProcessesKept, Born, Running, Stopped, Exited
    <3>2. Yields(t, p)
      BY <2>1, <2>2, <2>6, OtherYields DEF q
    <3> QED
      BY <1>1, <2>1, <3>1, <3>2, YieldKeeps DEF EntryKept, LayoutFits
  <2> QED
    BY <2>5, <2>6
<1>18. ASSUME NEW t \in Threads, Insert(t) PROVE PaneOK(p)'
  <2> DEFINE q == thread[t].pane
             e == thread[t].epoch
  <2>1. /\ thread'[t] = [thread[t] EXCEPT !.pc = "subscribe"]
        /\ \A u \in Threads \ {t} : thread'[u] = thread[u]
        /\ UNCHANGED <<layout, launched, process>>
        /\ thread[t].pc = "insert"
        /\ terminals' = [terminals EXCEPT ![q] = e]
    BY <1>18, JobMoves DEF Insert
  <2>2. /\ thread'[t].pc = "subscribe" /\ thread'[t].pane = q
        /\ thread'[t].targets = thread[t].targets
    BY <2>1, JobTypes DEF Job
  <2>3. CASE q = p
    <3>1. \A d \in Epochs : process[d].pane = p /\ Running(d) => d = e
      BY <1>1, <2>1, <2>3 DEF PaneOK, EntryFits, ProcessFits
    <3>2. terminals'[p] = e
      BY <2>1, <2>3 DEF TypeOK
    <3>3. Yields(t, p)
      BY <2>1, <2>2, <2>3, <3>1, <3>2
         DEF Yields, Starts, Begins, Handles, Running, BeginSteps, LaunchSteps, HandlerSteps
    <3>4. ProcessesKept(p)
      BY <2>1, <3>1, <3>2 DEF ProcessesKept, Born, Running, Stopped, Exited
    <3> QED
      BY <1>1, <2>1, <3>3, <3>4, YieldKeeps DEF EntryKept, LayoutFits
  <2>4. CASE q # p
    <3>1. terminals'[p] = terminals[p]
      BY <2>1, <2>4 DEF TypeOK
    <3> QED
      BY <1>1, <1>3, <2>1, <2>2, <2>4, <3>1, OtherYields, YieldKeeps DEF EntryKept, LayoutFits
  <2> QED
    BY <2>3, <2>4
<1>19. ASSUME NEW t \in Threads, RecordRefused(t) PROVE PaneOK(p)'
  <2> DEFINE q == thread[t].pane
  <2>1. /\ thread'[t] = Launching(thread[t].targets)
        /\ \A u \in Threads \ {t} : thread'[u] = thread[u]
        /\ UNCHANGED <<launched, terminals, process>>
        /\ thread[t].pc = "refused"
    BY <1>19, JobMoves DEF RecordRefused, NextTarget
  <2>2. Yields(t, p)
    BY <1>2, <2>1, RestYields
  <2>3. LayoutFits(p)
    <3>1. CASE q # p
      BY <1>19, <3>1 DEF RecordRefused, SetLayout, TypeOK, LayoutFits
    <3>2. CASE q = p
      <4>1. Begins(t, p) /\ Starts(t, p)
        BY <2>1, <3>2 DEF Begins, Starts, BeginSteps, LaunchSteps
      <4>2. layout'[p] = "exited"
        BY <1>8, <1>19, <3>2, <4>1 DEF RecordRefused, SetLayout, TypeOK
      <4>3. \A u \in Threads : ~Begins(u, p)'
        <5>1. ~Begins(t, p)'
          <6>1. thread'[t].pane # p /\ thread'[t].targets = thread[t].targets
            BY <2>1, Shapes, PaneAssumption
          <6>2. p \notin thread[t].targets
            BY <1>2, <2>1, <3>2 DEF ThreadOK, LaunchSteps
          <6> QED
            BY <6>1, <6>2 DEF Begins
        <5>2. \A u \in Threads \ {t} : ~Begins(u, p)'
          BY <1>1, <2>1, <4>1 DEF PaneOK, OneStarter, Begins, Starts, BeginSteps, LaunchSteps
        <5> QED
          BY <5>1, <5>2
      <4> QED
        BY <1>8, <4>1, <4>2, <4>3 DEF LayoutFits
    <3> QED
      BY <3>1, <3>2
  <2> QED
    BY <1>1, <1>3, <2>1, <2>2, <2>3, YieldKeeps DEF EntryKept
<1>20. ASSUME NEW t \in Threads, WriteFails(t) PROVE PaneOK(p)'
  <2>1. /\ \/ thread'[t] = Resting
           \/ thread'[t] = Launching(thread[t].targets)
        /\ \A u \in Threads \ {t} : thread'[u] = thread[u]
        /\ UNCHANGED <<layout, launched, terminals, process>>
        /\ thread[t].pc \notin {"insert", "terminate"}
    BY <1>20, JobMoves DEF WriteFails, NextTarget
  <2>2. Yields(t, p)
    BY <1>2, <2>1, RestYields
  <2> QED
    BY <1>1, <1>3, <2>1, <2>2, YieldKeeps DEF EntryKept, LayoutFits
<1>21. ASSUME NEW e \in Epochs, Handles(e, p)
       PROVE  /\ launched[p].epoch = e /\ launched[p].exited /\ layout[p] # "idle"
              /\ \A d \in Epochs : ~Owns(d, p) /\ ~(process[d].pane = p /\ Running(d))
              /\ \A u \in Threads : ~Begins(u, p)
  <2>1. launched[p].epoch = e /\ launched[p].exited /\ layout[p] # "idle"
    BY <1>1, <1>21 DEF PaneOK, HandlerFits
  <2>2. \A d \in Epochs : ~Owns(d, p)
    BY <2>1 DEF Owns
  <2> QED
    BY <1>1, <1>21, <2>1, <2>2 DEF PaneOK, OneStarter, ProcessFits
\* A job that leaves p alone, or goes on with the exit of p, while the state of p stays
<1>22. ASSUME NEW e \in Epochs, \A u \in Threads \ {e} : thread'[u] = thread[u],
              thread[e].pc \in ExitSteps, thread'[e].targets = {},
              thread'[e].pane \in {thread[e].pane, NoPane},
              thread'[e].pc \in ExitSteps \cup {"idle", "ensure"},
              Handles(e, p)' => Handles(e, p)
       PROVE  Yields(e, p)
  <2>1. thread[e].pc \notin {"insert", "terminate"} /\ NoPane # p
    BY <1>22, PaneAssumption DEF ExitSteps, HandlerSteps
  <2>2. thread'[e].pc \notin LaunchSteps /\ thread'[e].pc \notin BeginSteps
    BY <1>22 DEF ExitSteps, HandlerSteps, LaunchSteps, BeginSteps
  <2> QED
    BY <1>22, <2>1, <2>2 DEF Yields, Starts, Begins, LaunchSteps
<1>23. ASSUME NEW e \in Epochs, Record(e) PROVE PaneOK(p)'
  <2> DEFINE q == thread[e].pane
  <2>1. /\ \/ thread'[e] = Resting
           \/ thread'[e] = Doing(thread[e].then, q)
           \/ thread'[e] = [thread[e] EXCEPT !.pc = "unrecorded"]
        /\ \A u \in Threads \ {e} : thread'[u] = thread[u]
        /\ UNCHANGED <<launched, terminals, process>>
        /\ thread[e].pc = "record"
    BY <1>0, <1>23, JobMoves DEF Record
  <2>2. thread[e].then \in {"idle", "closing", "sleeping"} /\ thread[e].targets = {}
    BY <1>0, <1>2, <2>1 DEF ThreadOK, LaunchSteps
  <2>3. /\ thread'[e].pane \in {q, NoPane} /\ thread'[e].targets = {}
        /\ thread'[e].pc \in ExitSteps \cup {"idle", "ensure"}
    <3>1. thread'[e] = Resting => /\ thread'[e].pane = NoPane /\ thread'[e].targets = {}
                                  /\ thread'[e].pc = "idle"
      BY Shapes
    <3>2. thread'[e] = Doing(thread[e].then, q)
             => /\ thread'[e].pane = q /\ thread'[e].targets = {}
                /\ thread'[e].pc = thread[e].then
      BY Shapes
    <3>3. thread'[e] = [thread[e] EXCEPT !.pc = "unrecorded"]
             => /\ thread'[e].pane = q /\ thread'[e].targets = thread[e].targets
                /\ thread'[e].pc = "unrecorded"
      BY <1>0, JobTypes DEF Job
    <3> QED
      BY <2>1, <2>2, <3>1, <3>2, <3>3 DEF ExitSteps, HandlerSteps
  <2>4. Handles(e, p)' => Handles(e, p)
    BY <2>1, <2>3, PaneAssumption DEF Handles, HandlerSteps
  <2>5. Yields(e, p)
    BY <1>22, <2>1, <2>2, <2>3, <2>4 DEF ExitSteps, HandlerSteps
  <2>6. LayoutFits(p)
    <3>1. layout'[p] = layout[p] \/ (q = p /\ layout'[p] = "exited")
      BY <1>23 DEF Record, SetLayout, TypeOK
    <3>2. ASSUME q = p, layout'[p] = "exited"
          PROVE  \A u \in Threads : ~Begins(u, p)'
      <4>1. Handles(e, p)
        BY <2>1, <3>2 DEF Handles, HandlerSteps
      <4> QED
        BY <1>21, <2>1, <2>5, <4>1 DEF Yields, Begins
    <3>3. q = p => \A d \in Epochs : ~Owns(d, p)
      BY <1>21, <2>1 DEF Handles, HandlerSteps
    <3> QED
      BY <3>1, <3>2, <3>3 DEF LayoutFits
  <2> QED
    BY <1>0, <1>1, <1>3, <2>1, <2>5, <2>6, YieldKeeps DEF EntryKept
<1>24. ASSUME NEW e \in Epochs, LookForPane(e) \/ CloseForExit(e) PROVE PaneOK(p)'
  <2> DEFINE q == thread[e].pane
  <2>1. /\ \/ thread'[e] = Resting
           \/ thread'[e] = [thread[e] EXCEPT !.pc = "discard"]
        /\ \A u \in Threads \ {e} : thread'[u] = thread[u]
        /\ UNCHANGED <<launched, terminals, process>>
        /\ thread[e].pc \in {"unrecorded", "closing"}
    BY <1>0, <1>24, JobMoves DEF LookForPane, CloseForExit
  <2>2. thread[e].targets = {}
    BY <1>0, <1>2, <2>1 DEF ThreadOK, LaunchSteps
  <2>3. /\ thread'[e].pane \in {q, NoPane} /\ thread'[e].targets = {}
        /\ thread'[e].pc \in {"idle", "discard"}
    <3>1. thread'[e] = Resting => /\ thread'[e].pane = NoPane /\ thread'[e].targets = {}
                                  /\ thread'[e].pc = "idle"
      BY Shapes
    <3>2. thread'[e] = [thread[e] EXCEPT !.pc = "discard"]
             => /\ thread'[e].pane = q /\ thread'[e].targets = thread[e].targets
                /\ thread'[e].pc = "discard"
      BY <1>0, JobTypes DEF Job
    <3> QED
      BY <2>1, <2>2, <3>1, <3>2
  <2>4. Handles(e, p)' => Handles(e, p)
    BY <2>1, <2>3, PaneAssumption DEF Handles, HandlerSteps
  <2>5. Yields(e, p)
    BY <1>22, <2>1, <2>2, <2>3, <2>4 DEF ExitSteps, HandlerSteps
  <2>6. LayoutFits(p)
    <3>1. layout'[p] = layout[p] \/ (q = p /\ layout'[p] = "absent")
      BY <1>24 DEF LookForPane, CloseForExit, SetLayout, TypeOK
    <3>2. ASSUME q = p
          PROVE  /\ \A u \in Threads : ~Begins(u, p)'
                 /\ \A d \in Epochs : ~(process[d].pane = p /\ Running(d)')
      <4>1. Handles(e, p)
        BY <2>1, <3>2 DEF Handles, HandlerSteps
      <4> QED
        BY <1>21, <2>1, <2>5, <4>1 DEF Yields, Begins, Running
    <3> QED
      BY <3>1, <3>2 DEF LayoutFits
  <2> QED
    BY <1>0, <1>1, <1>3, <2>1, <2>5, <2>6, YieldKeeps DEF EntryKept
<1>25. ASSUME NEW e \in Epochs, Discard(e) PROVE PaneOK(p)'
  <2> DEFINE q == thread[e].pane
  <2>1. /\ thread'[e] = Resting
        /\ \A u \in Threads \ {e} : thread'[u] = thread[u]
        /\ UNCHANGED <<layout, process>>
        /\ thread[e].pc = "discard"
        /\ launched' = [launched EXCEPT ![q] = NoLaunch]
        /\ terminals' = WithoutExited(q)
    BY <1>0, <1>25, JobMoves DEF Discard, SetLaunched
  <2>2. Yields(e, p)
    BY <1>0, <1>2, <2>1, RestYields
  <2>3. ProcessesKept(p)
    <3>1. \A d \in Epochs : process[d].pane = p /\ Running(d) /\ terminals[p] = d
                                => terminals'[p] = d
      BY <2>1 DEF WithoutExited, Running, Exited, TypeOK
    <3> QED
      BY <1>3, <2>1, <3>1
  <2>4. EntryKept(p)
    <3>1. CASE q # p
      BY <2>1, <3>1 DEF EntryKept, TypeOK
    <3>2. CASE q = p
      <4>1. Handles(e, p)
        BY <2>1, <3>2 DEF Handles, HandlerSteps
      <4>2. launched'[p].epoch = -1
        BY <2>1, <3>2 DEF TypeOK, NoLaunch
      <4>3. \A d \in Epochs : ~Owns(d, p)' /\ ~(process[d].pane = p /\ Running(d)')
        <5>1. \A d \in Epochs : d # -1
          BY DEF Epochs
        <5> QED
          BY <1>21, <2>1, <4>1, <4>2, <5>1 DEF Owns, Running
      <4>4. \A d \in Epochs : ~Handles(d, p)'
        <5>1. \A d \in Epochs : Handles(d, p) => d = e
          BY <1>21, <4>1
        <5>2. ~Handles(e, p)'
          BY <2>1, Shapes, PaneAssumption DEF Handles
        <5> QED
          BY <1>0, <2>1, <5>1, <5>2 DEF Handles
      <4>5. \A u \in Threads : thread'[u].pane = p => thread'[u].pc \notin {"spawn", "start"}
        <5>1. thread'[e].pane # p
          BY <2>1, Shapes, PaneAssumption
        <5>2. \A u \in Threads \ {e} : ~Begins(u, p)
          BY <1>21, <4>1
        <5> QED
          BY <2>1, <5>1, <5>2 DEF Begins, BeginSteps
      <4> QED
        BY <4>3, <4>4, <4>5 DEF EntryKept
    <3> QED
      BY <3>1, <3>2
  <2> QED
    BY <1>0, <1>1, <2>1, <2>2, <2>3, <2>4, YieldKeeps DEF LayoutFits
<1>26. ASSUME NEW e \in Epochs, WakeUp(e) PROVE PaneOK(p)'
  <2> DEFINE q == thread[e].pane
  <2>1. /\ \/ thread'[e] = Resting \/ thread'[e] = Doing("ensure", NoPane)
        /\ \A u \in Threads \ {e} : thread'[u] = thread[u]
        /\ UNCHANGED <<launched, terminals, process>>
        /\ thread[e].pc = "sleeping"
    BY <1>0, <1>26, JobMoves DEF WakeUp
  <2>2. CASE q = p /\ Restartable(p)
    <3>1. thread'[e] = Doing("ensure", NoPane)
      BY <1>0, <1>26, <2>2, JobMoves DEF WakeUp
    <3>2. ~Busy(p) /\ layout[p] # "running"
      BY <1>1, <1>26, <2>2 DEF WakeUp, Restartable, Overtake
    <3> QED
      BY <1>0, <1>1, <1>2, <2>1, <3>1, <3>2, IdleKeeps
  <2>3. CASE ~(q = p /\ Restartable(p))
    <3>1. layout'[p] = layout[p]
      BY <1>26, <2>3 DEF WakeUp, SetLayout, TypeOK
    <3>2. Yields(e, p)
      BY <1>0, <1>2, <2>1, RestYields
    <3> QED
      BY <1>0, <1>1, <1>3, <2>1, <3>1, <3>2, YieldKeeps DEF EntryKept, LayoutFits
  <2> QED
    BY <2>2, <2>3
<1>27. ASSUME NEW e \in Epochs, UNCHANGED thread PROVE Yields(e, p)
  BY <1>27 DEF Yields, Starts, Begins, Handles
<1>28. ASSUME NEW e \in Epochs, ProcessExits(e) \/ Tell(e) PROVE PaneOK(p)'
  <2>1. /\ UNCHANGED <<thread, layout, launched, terminals>>
        /\ \E ph \in {"exited", "told"} : process' = [process EXCEPT ![e].phase = ph]
        /\ Born(e)
    BY <1>28 DEF ProcessExits, Tell, Exit, Running, Born
  <2>2. \A d \in Epochs : /\ process'[d].pane = process[d].pane
                          /\ process'[d] = process[d] \/ ~Running(d)'
    <3>1. PICK ph \in {"exited", "told"} :
             process' = [process EXCEPT ![e] = [process[e] EXCEPT !.phase = ph]]
      BY <2>1
    <3>2. \A d \in Epochs : process[d] \in Life
      BY LivesOn
    <3> QED
      BY <3>1, <3>2 DEF Life, TypeOK, Running
  <2>3. ProcessesKept(p)
    BY <2>1, <2>2 DEF ProcessesKept, Born, Running, Stopped, Exited
  <2> QED
    BY <1>0, <1>1, <1>27, <2>1, <2>3, YieldKeeps DEF EntryKept, LayoutFits
<1>29. ASSUME NEW e \in Epochs, Match(e) PROVE PaneOK(p)'
  <2> DEFINE q == process[e].pane
  <2>1. UNCHANGED <<layout, terminals, process>> /\ Born(e) /\ q \in Panes
    <3>1. Exited(e)
      BY <1>29 DEF Match, Wiring, EventsOfProcesses
    <3> QED
      BY <1>29, <3>1 DEF Match, Exited, Born, Wiring, ProcessesOfPanes
  <2>2. ProcessesKept(p)
    BY <1>3, <2>1
  <2>3. CASE ~Matches(e)
    BY <1>0, <1>1, <1>27, <1>29, <2>1, <2>2, <2>3, YieldKeeps DEF Match, EntryKept, LayoutFits
  <2>4. CASE Matches(e) /\ q # p
    <3>1. /\ thread'[e] = [Doing("record", q) EXCEPT !.then = AfterRecord[launched[q].behavior]]
          /\ \A u \in Threads \ {e} : thread'[u] = thread[u]
          /\ thread[e].pc = "idle"
          /\ launched'[p] = launched[p]
      BY <1>0, <1>29, <2>4, JobMoves DEF Match, TypeOK
    <3>2. thread'[e].pane = q /\ thread'[e].targets = {}
      BY <3>1 DEF Doing, Resting
    <3>3. thread[e].pane # p
      BY <1>0, <1>2, <3>1, PaneAssumption DEF ThreadOK
    <3>4. Yields(e, p)
      BY <1>0, <2>4, <3>1, <3>2, <3>3, OtherYields
    <3> QED
      BY <1>0, <1>1, <2>1, <2>2, <3>1, <3>4, YieldKeeps DEF EntryKept, LayoutFits
  <2>5. CASE Matches(e) /\ q = p
    <3>1. /\ thread'[e] = [Doing("record", p) EXCEPT !.then = AfterRecord[launched[p].behavior]]
          /\ \A u \in Threads \ {e} : thread'[u] = thread[u]
          /\ thread[e].pc = "idle"
          /\ launched' = [launched EXCEPT ![p] = [launched[p] EXCEPT !.exited = TRUE]]
          /\ Exited(e)
      BY <1>0, <1>29, <2>5, JobMoves DEF Match, Wiring, EventsOfProcesses
    <3>2. /\ thread'[e].pane = p /\ thread'[e].targets = {} /\ thread'[e].pc = "record"
      BY <3>1 DEF Doing, Resting
    <3>3. launched'[p].epoch = e /\ launched'[p].exited
      BY <2>5, <3>1, EntryTypes DEF Matches, Entry, TypeOK
    <3>4. Owns(e, p)
      BY <2>1, <2>5 DEF Owns, Matches
    <3>5. \A u \in Threads : ~Begins(u, p)
      BY <1>8, <3>4
    <3>6. layout[p] # "idle"
      BY <1>1, <3>4 DEF PaneOK, ProcessFits
    <3>7. Yields(e, p)
      BY <2>1, <3>1, <3>2, <3>3, <3>5, <3>6
         DEF Yields, Starts, Begins, Handles, LaunchSteps, BeginSteps
    <3>8. EntryKept(p)
      <4>1. \A d \in Epochs : ~Owns(d, p)'
        BY <3>3 DEF Owns
      <4>2. \A d \in Epochs : ~(process[d].pane = p /\ Running(d)')
        <5>1. ASSUME NEW d \in Epochs, process[d].pane = p, Running(d) PROVE d = e
          BY <1>1, <2>5, <5>1 DEF PaneOK, ProcessFits, Owns, Matches
        <5>2. ~Running(e)
          BY <3>1 DEF Running, Exited
        <5> QED
          BY <2>1, <5>1, <5>2 DEF Running
      <4>3. \A d \in Epochs : Handles(d, p)' => d = e
        <5>1. \A d \in Epochs : ~Handles(d, p)
          BY <1>21, <3>4
        <5> QED
          BY <1>0, <3>1, <5>1 DEF Handles
      <4>4. \A u \in Threads : thread'[u].pane = p => thread'[u].pc \notin {"spawn", "start"}
        BY <3>1, <3>2, <3>5 DEF Begins, BeginSteps
      <4> QED
        BY <3>3, <4>1, <4>2, <4>3, <4>4 DEF EntryKept
    <3> QED
      BY <1>0, <1>1, <2>1, <2>2, <3>7, <3>8, YieldKeeps DEF LayoutFits
  <2> QED
    BY <2>3, <2>4, <2>5
<1>30. ASSUME Rescan \/ Connect \/ \E q \in Panes : Forget(q) \/ Prune(q) PROVE PaneOK(p)'
  <2>1. UNCHANGED <<thread, layout, process>>
    BY <1>30 DEF Rescan, Connect, Forget, Prune
  <2>2. ProcessesKept(p)
    <3>1. terminals'[p] = terminals[p] \/ (terminals'[p] = NoTerminal /\ Exited(terminals[p]))
      BY <1>30 DEF Rescan, Connect, Forget, Prune, TypeOK
    <3> QED
      BY <1>3, <2>1, <3>1 DEF Running, Exited
  <2>3. EntryKept(p)
    <3>1. CASE launched'[p] = launched[p]
      BY <3>1 DEF EntryKept
    <3>2. CASE launched'[p] # launched[p]
      <4>1. Prune(p)
        BY <1>30, <3>2 DEF Rescan, Connect, Forget, Prune, SetLaunched, TypeOK
      <4>2. launched'[p].epoch = -1 /\ launched[p].exited
        BY <4>1 DEF Prune, SetLaunched, NoLaunch, TypeOK
      <4>3. \A e \in Epochs : ~Owns(e, p)' /\ ~(process[e].pane = p /\ Running(e)')
        <5>1. \A e \in Epochs : e # -1
          BY DEF Epochs
        <5> QED
          BY <1>1, <2>1, <4>2, <5>1 DEF PaneOK, ProcessFits, Owns, Running
      <4>4. \A e \in Epochs : ~Handles(e, p)'
        BY <2>1, <4>1 DEF Prune, Handles
      <4>5. \A u \in Threads : thread'[u].pane = p => thread'[u].pc \notin {"spawn", "start"}
        BY <1>1, <2>1, <4>2 DEF PaneOK, EntryFits
      <4> QED
        BY <4>3, <4>4, <4>5 DEF EntryKept
    <3> QED
      BY <3>1, <3>2
  <2>4. CASE Epochs = {}
    <3>1. \A t \in Threads : thread[t].pc \notin {"adopt", "start", "insert"}
      BY <1>2, <2>4 DEF ThreadOK
    <3>2. \A t \in Threads : /\ Starts(t, p)' <=> Starts(t, p)
                             /\ Begins(t, p)' <=> Begins(t, p)
      BY <2>1 DEF Starts, Begins
    <3>3. OneStarter(p)'
      BY <1>1, <2>1, <2>4, <3>2 DEF PaneOK, OneStarter
    <3>4. EntryFits(p)'
      BY <1>1, <2>1, <2>3, <3>1 DEF PaneOK, EntryFits, EntryKept
    <3> QED
      BY <2>4, <3>3, <3>4 DEF PaneOK, HandlerFits, ProcessFits
  <2>5. CASE Epochs # {}
    BY <1>0, <1>1, <1>27, <2>1, <2>2, <2>3, <2>5, YieldKeeps DEF LayoutFits
  <2> QED
    BY <2>4, <2>5
<1>31. ASSUME NEW q \in Panes, TerminateTerminal(q) PROVE PaneOK(p)'
  <2>1. UNCHANGED <<thread, layout, launched, terminals>>
    BY <1>31 DEF TerminateTerminal
  <2>2. terminals[q] \in 0 .. MaxEpochs /\ terminals[q] \in Epochs
    BY <1>31, Parts DEF TerminateTerminal, NoTerminal
  <2>3. Terminate(terminals[q])
    BY <1>31 DEF TerminateTerminal
  <2>4. ProcessesKept(p)
    BY <2>1, <2>2, <2>3, Terminates, EndKeeps
  <2> QED
    BY <1>0, <1>1, <1>27, <2>1, <2>2, <2>4, YieldKeeps DEF EntryKept, LayoutFits
<1>32. ASSUME NEW t \in Threads, EnsureStep(t) PROVE PaneOK(p)'
  BY <1>9, <1>10, <1>12, <1>13, <1>14, <1>15, <1>16, <1>17, <1>18, <1>19, <1>20, <1>32
     DEF EnsureStep
<1>33. ASSUME NEW e \in Epochs, ExitStep(e) \/ ProcessExits(e) \/ Tell(e) \/ Match(e)
       PROVE  PaneOK(p)'
  BY <1>0, <1>23, <1>24, <1>25, <1>26, <1>28, <1>29, <1>32, <1>33 DEF ExitStep
<1>34. ASSUME NEW w \in Workers, RequestStep(w) \/ EnsureAll(w) \/ WorkerStep(w) PROVE PaneOK(p)'
  BY <1>0, <1>4, <1>5, <1>6, <1>7, <1>32, <1>34 DEF RequestStep, WorkerStep
<1> QED
  BY <1>30, <1>31, <1>33, <1>34 DEF Next, EventStep

-----------------------------------------------------------------------------
(* The invariant holds.                                                    *)

\* The invariant holds initially, ...
LEMMA InitOK == Init => IInv
<1> SUFFICES ASSUME Init PROVE IInv
  OBVIOUS
<1> USE DEF Init
<1>1. \A t \in Threads : /\ thread[t].pc = "idle" /\ thread[t].pane = NoPane
                         /\ thread[t].targets = {} /\ thread[t].epoch = 0 /\ thread[t].then = "idle"
  BY Shapes
<1>2. TypeOK
  <2>1. Resting \in Job /\ NoLaunch \in Entry
    BY PaneAssumption DEF Job, Resting, Pcs, NoLaunch, Entry, Behaviors
  <2>2. [pane |-> NoPane, phase |-> "unborn"] \in Life
    BY DEF Life
  <2>3. NoTerminal \in 0 .. MaxEpochs
    BY PaneAssumption DEF NoTerminal
  <2> QED
    BY <2>1, <2>2, <2>3 DEF TypeOK, Layouts
<1>3. \A e \in Epochs : process[e].phase = "unborn" /\ ~Born(e)
  BY DEF Born
<1>4. Wiring
  <2>1. ProcessesOfPanes /\ EventsOfProcesses /\ TerminalsOfPanes
    BY <1>3 DEF ProcessesOfPanes, EventsOfProcesses, TerminalsOfPanes
  <2>2. EntriesOfPanes
    BY DEF EntriesOfPanes, NoLaunch, Epochs
  <2>3. \A t \in Threads : ThreadOK(t)
    BY <1>1 DEF ThreadOK, LaunchSteps, ExitSteps, HandlerSteps
  <2>4. OneStart /\ Fresh
    BY <1>1, <1>3 DEF OneStart, Fresh
  <2> QED
    BY <2>1, <2>2, <2>3, <2>4 DEF Wiring
<1>5. ASSUME NEW p \in Panes PROVE PaneOK(p)
  <2>0. Epochs \subseteq Threads /\ NoPane # p
    BY PaneAssumption DEF Threads
  <2>1. \A t \in Threads : ~Starts(t, p) /\ ~Begins(t, p) /\ ~Handles(t, p)
    BY <1>1, <2>0 DEF Starts, Begins, Handles
  <2>2. \A e \in Epochs : ~Owns(e, p) /\ ~Running(e)
    BY <1>3 DEF Owns, Running
  <2>3. OneStarter(p) /\ HandlerFits(p)
    BY <2>0, <2>1 DEF OneStarter, HandlerFits
  <2>4. EntryFits(p) /\ ProcessFits(p)
    BY <1>1, <2>0, <2>2 DEF EntryFits, ProcessFits
  <2> QED
    BY <2>3, <2>4 DEF PaneOK
<1> QED
  BY <1>2, <1>4, <1>5 DEF IInv, PaneInv

\* ... and when nothing happens.
LEMMA StutterOK == IInv /\ UNCHANGED vars => IInv'
<1> SUFFICES ASSUME IInv, UNCHANGED vars PROVE IInv'
  OBVIOUS
<1> USE DEF vars, layoutVars, linkVars, processVars, lagVars, jobs, history
<1>1. TypeOK'
  BY DEF IInv, TypeOK
<1>2. Wiring'
  <2>1. (\A t \in Threads : ThreadOK(t)') /\ OneStart'
    BY ThreadsKept DEF IInv, Born
  <2>2. ProcessesOfPanes' /\ EventsOfProcesses' /\ TerminalsOfPanes' /\ EntriesOfPanes'
    BY DEF IInv, Wiring, ProcessesOfPanes, EventsOfProcesses, TerminalsOfPanes, EntriesOfPanes,
           Exited, Born
  <2>3. ~restored' => Fresh'
    BY DEF IInv, Wiring, Fresh
  <2> QED
    BY <2>1, <2>2, <2>3 DEF Wiring
<1>3. ASSUME NEW p \in Panes \ overtaken PROVE PaneOK(p)'
  <2>1. OneStarter(p)' /\ HandlerFits(p)'
    BY DEF IInv, PaneInv, PaneOK, OneStarter, HandlerFits, Starts, Begins, Handles, Owns, Born
  <2>2. EntryFits(p)'
    BY DEF IInv, PaneInv, PaneOK, EntryFits, Owns, Born
  <2>3. ProcessFits(p)'
    BY DEF IInv, PaneInv, PaneOK, ProcessFits, Owns, Born, Running, Stopped, Exited
  <2> QED
    BY <2>1, <2>2, <2>3 DEF PaneOK
<1> QED
  BY <1>1, <1>2, <1>3 DEF IInv, PaneInv

\* The invariant holds in every reachable state: the records that name a process name one of the
\* pane, and for a pane that was not overtaken the layout, the launched entry, the terminal and the
\* jobs fit together.
THEOREM Inductive == Spec => []IInv
<1>1. IInv /\ Next => IInv'
  BY TypeStep, WiringStep, PaneStep DEF IInv
<1> QED
  BY InitOK, StutterOK, <1>1, PTL DEF Spec

\* The variables keep their types, whatever the jobs do.
THEOREM TypeCorrect == Spec => []TypeOK
<1>1. IInv => TypeOK
  BY DEF IInv
<1> QED
  BY Inductive, <1>1, PTL

-----------------------------------------------------------------------------
(* What follows for the processes of a pane.                               *)

\* A pane has at most one process at a time (ensure, launch, spawn_with_transport).
THEOREM OneProcessAlways == Spec => []OneProcess
<1>1. IInv => OneProcess
  <2> SUFFICES ASSUME IInv, NEW d \in Epochs, NEW e \in Epochs, Running(d), Running(e),
                      process[d].pane = process[e].pane, process[d].pane \notin overtaken
               PROVE  d = e
    BY DEF OneProcess
  <2>1. PICK p \in Panes : p = process[d].pane
    BY DEF IInv, Wiring, ProcessesOfPanes, Running
  <2>2. Owns(d, p) /\ Owns(e, p)
    BY <2>1 DEF IInv, PaneInv, PaneOK, ProcessFits
  <2> QED
    BY <2>2 DEF Owns
<1> QED
  BY Inductive, <1>1, PTL

\* A process outlives its pane only with its terminal listed, and only when it is about to be
\* told to end or was told before (Apply, terminate; HostedTerminal::terminate).
THEOREM NoOrphanAlways == Spec => []NoOrphan
<1>1. IInv => NoOrphan
  BY DEF IInv, Wiring, PaneInv, PaneOK, ProcessFits, ProcessesOfPanes, NoOrphan, Running
<1> QED
  BY Inductive, <1>1, PTL

\* The exit of a running process will match the launched entry (terminal_exited).
THEOREM ExitWillMatchAlways == Spec => []ExitWillMatch
<1>1. IInv => ExitWillMatch
  BY DEF IInv, Wiring, PaneInv, PaneOK, ProcessFits, ProcessesOfPanes, Owns, ExitWillMatch, Matches,
         Running
<1> QED
  BY Inductive, <1>1, PTL

\* A pane that runs a process is not recorded as exited (record_exited, record_pane_exited).
THEOREM ExitsAreTrueAlways == Spec => ExitsAreTrue
<1> DEFINE True == \A p \in Panes \ overtaken :
                      layout[p] = "running" /\ layout'[p] = "exited" => ~Alive(p)
<1>1. ASSUME IInv, Next PROVE True
  <2> SUFFICES ASSUME NEW p \in Panes \ overtaken, layout[p] = "running", layout'[p] = "exited"
               PROVE  ~Alive(p)
    OBVIOUS
  <2> USE DEF layoutVars
  <2>0. Workers \subseteq Threads /\ Epochs \subseteq Threads
    BY DEF Threads
  <2>1. TypeOK /\ PaneOK(p)
    BY <1>1 DEF IInv, PaneInv
  <2>2. ASSUME NEW t \in Threads, EnsureStep(t) PROVE RecordRefused(t) /\ thread[t].pane = p
    <3>1. RecordRefused(t) \/ UNCHANGED layout \/ layout'[p] # "exited"
      BY <2>2 DEF EnsureStep, Ensure, Claim, Look, NotPlanned, Adopt, Register, AlreadyExists,
                  Prepare, Start, LaunchFails, Insert, Subscribe, WriteFails
    <3> QED
      BY <2>1, <3>1 DEF RecordRefused, SetLayout, TypeOK
  <2>3. ASSUME NEW e \in Epochs, ExitStep(e) \/ ProcessExits(e) \/ Tell(e) \/ Match(e)
        PROVE  \/ Record(e) /\ thread[e].pane = p
               \/ EnsureStep(e)
    BY <2>1, <2>3 DEF ExitStep, Record, LookForPane, CloseForExit, Discard, WakeUp,
                      ProcessExits, Tell, Match, SetLayout, TypeOK
  <2>4. ASSUME NEW w \in Workers, RequestStep(w) \/ EnsureAll(w) \/ WorkerStep(w)
        PROVE  EnsureStep(w)
    BY <2>1, <2>4 DEF RequestStep, WorkerStep, ClosePane, RestartPane, CreatePane, OpenWorkspace,
                      EnsureAll, TerminateRemoved, SetLayout, TypeOK
  <2>5. ~(Rescan \/ Connect \/ \E q \in Panes : TerminateTerminal(q) \/ Forget(q) \/ Prune(q))
    BY DEF Rescan, Connect, TerminateTerminal, Forget, Prune
  <2>6. \/ \E t \in Threads : RecordRefused(t) /\ thread[t].pane = p
        \/ \E e \in Epochs : Record(e) /\ thread[e].pane = p
    BY <1>1, <2>0, <2>2, <2>3, <2>4, <2>5 DEF Next, EventStep
  <2>7. ASSUME NEW t \in Threads, RecordRefused(t), thread[t].pane = p PROVE ~Alive(p)
    BY <2>1, <2>7 DEF RecordRefused, Begins, BeginSteps, PaneOK, OneStarter, ProcessFits, Alive
  <2>8. ASSUME NEW e \in Epochs, Record(e), thread[e].pane = p PROVE ~Alive(p)
    BY <2>1, <2>8 DEF Record, Handles, HandlerSteps, PaneOK, HandlerFits, ProcessFits, Owns, Alive
  <2> QED
    BY <2>6, <2>7, <2>8
<1>2. IInv /\ [Next]_vars => [True]_vars
  BY <1>1
<1> QED
  BY Inductive, <1>2, PTL DEF Spec, ExitsAreTrue

=============================================================================
