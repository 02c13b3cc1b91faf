------------------------------- MODULE MCUndo -------------------------------
(* Instances of Undo for TLC. *)
EXTENDS Undo, TLC

CONSTANTS u1, u2, v1, v2, picnic, outing, milk

\* Presses are alike, and so is what people say.
Alike == Permutations({u1, u2}) \cup Permutations({v1, v2})
=============================================================================
