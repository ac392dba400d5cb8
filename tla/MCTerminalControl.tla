-------------------------- MODULE MCTerminalControl --------------------------
(* Instances of TerminalControl for TLC.                                   *)
EXTENDS TerminalControl, TLC

CONSTANTS ann, bob, a1, a2, b1

\* Client ann may reconnect once.
OwnerReconnecting == a1 :> ann @@ a2 :> ann @@ b1 :> bob
OwnerTwo == a1 :> ann @@ b1 :> bob

\* The two Clients, with their connections, and the terminals are interchangeable.
SwapClients == ann :> bob @@ bob :> ann @@ a1 :> b1 @@ b1 :> a1
Interchangeable == {SwapClients} \cup Permutations(Terminals)

\* Bound: one terminal is enough beside a request that outlasts a grace timer.
Unused(t) ==
    /\ t \notin terminals
    /\ leases[t] = NoLease
    /\ \A c \in Clients : <<c, t>> \notin attachments
    /\ \A k \in Connections : request[k].op \notin {"none", "begun", "take"} => request[k].session # t
LateBesideOne == overdue = {} \/ \E t \in Terminals : Unused(t)

=============================================================================
