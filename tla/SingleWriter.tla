---------------------------- MODULE SingleWriter ----------------------------
(***************************************************************************)
(* What R3.2 promises of the store: at any moment at most one of the       *)
(* program's processes is inside a section that writes the SQLite file.    *)
(* A writer enters an empty section and leaves it, by finishing or by      *)
(* dying.  How the promise is kept is not said here.                       *)
(***************************************************************************)
CONSTANT Writers

VARIABLE inside

Init == inside = {}

Enter(w) == inside = {} /\ inside' = {w}

Leave(w) == w \in inside /\ inside' = inside \ {w}

Next == \E w \in Writers : Enter(w) \/ Leave(w)

Spec == Init /\ [][Next]_inside
=============================================================================
