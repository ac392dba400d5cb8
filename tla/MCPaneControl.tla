------------------------------ MODULE MCPaneControl ------------------------------
(* Scenarios: what happens at most in a behaviour, at any time and in any order. *)
EXTENDS PaneControl

Scenario(turns, resizes, drops, lags) ==
    [turns |-> turns, resizes |-> resizes, drops |-> drops, lags |-> lags]

Scenarios == {Scenario(3, 1, 0, 0), Scenario(2, 2, 0, 1), Scenario(2, 1, 1, 0),
              Scenario(1, 0, 2, 0), Scenario(0, 1, 1, 1)}
=============================================================================
