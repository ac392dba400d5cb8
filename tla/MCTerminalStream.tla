---------------------------- MODULE MCTerminalStream ----------------------------
(* Scenarios: what happens at most in a behaviour, at any time and in any order. *)
EXTENDS TerminalStream

New == [attached |-> FALSE, prints |-> 0, titles |-> 0, exits |-> 0, views |-> 0, others |-> 0,
        scrolls |-> 0, requests |-> 1, early |-> 0, messages |-> 0, drops |-> 0]
Old == [New EXCEPT !.attached = TRUE, !.requests = 0]

Scenarios == {
    [Old EXCEPT !.prints = 1, !.titles = 1, !.views = 2],
    [Old EXCEPT !.prints = 2, !.views = 2, !.others = 1],
    [Old EXCEPT !.prints = 1, !.exits = 1, !.views = 1],
    [Old EXCEPT !.prints = 1, !.titles = 1, !.scrolls = 2],
    [Old EXCEPT !.prints = 1, !.exits = 1, !.scrolls = 1],
    [Old EXCEPT !.prints = 1, !.requests = 1],
    [Old EXCEPT !.exits = 1, !.drops = 1],
    [Old EXCEPT !.prints = 1, !.messages = 2],
    [Old EXCEPT !.messages = 3],
    [Old EXCEPT !.requests = 1, !.scrolls = 1],
    [New EXCEPT !.early = 1],
    [New EXCEPT !.requests = 0, !.views = 1, !.drops = 1]
  }
=============================================================================
