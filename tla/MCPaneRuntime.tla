----------------------------- MODULE MCPaneRuntime -----------------------------
(* An instance of PaneRuntime for TLC.                                     *)
EXTENDS PaneRuntime

\* Bound of the model: what happens to a pane after it was overtaken is followed only as
\* far as is needed to see the jobs end that were about to start it.  All properties
\* are about panes that are not.
Followed ==
    \/ overtaken = {}
    \/ /\ missed = {} /\ lags = 0 /\ reachable /\ ~owed
       /\ \A p \in overtaken : behavior[p] = "manual"
       /\ \A e \in Epochs : process[e].phase \in IF e = 1 THEN {"prepared", "running", "exited"}
                                                          ELSE {"unborn"}

=============================================================================
