---------------------------- MODULE MCDocumentEditing ----------------------------
(* Scenarios: what happens at most in a behaviour, at any time and in any order. *)
EXTENDS DocumentEditing

None == [edits |-> 0, undos |-> 0, takeovers |-> 0, saves |-> 0, drops |-> 0, closes |-> 0,
         faults |-> 0, news |-> 1, large |-> {}]

Scenarios == {
    \* a takeover meets edits of both Clients, and a closing window
    [None EXCEPT !.edits = 2, !.takeovers = 1],
    [None EXCEPT !.edits = 1, !.takeovers = 1, !.closes = 1],
    \* a takeover meets edits that can be neither stored nor copied
    [None EXCEPT !.edits = 1, !.takeovers = 1, !.faults = 1],
    [None EXCEPT !.edits = 1, !.takeovers = 1, !.large = {1}],
    [None EXCEPT !.edits = 1, !.closes = 1, !.large = {1}],
    \* a lost connection and an expired session meet a document that becomes clean, and a
    \* closing window
    [None EXCEPT !.edits = 1, !.drops = 1, !.undos = 1],
    [None EXCEPT !.edits = 1, !.drops = 1, !.closes = 1],
    \* saves that fail, and saves that conflict
    [None EXCEPT !.drops = 1, !.saves = 1],
    [None EXCEPT !.edits = 2, !.saves = 2],
    \* events that lag behind answers
    [None EXCEPT !.edits = 1, !.undos = 1, !.closes = 1, !.news = 2],
    [None EXCEPT !.edits = 2, !.news = 2]
  }

\* A Client edits and leaves; another one edits after it.
Handoff == {[None EXCEPT !.edits = 2, !.drops = 1]}
=============================================================================
