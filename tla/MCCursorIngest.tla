--------------------------- MODULE MCCursorIngest ---------------------------
(***************************************************************************)
(* Small instances of CursorIngest for TLC.                                *)
(***************************************************************************)
EXTENDS CursorIngest, TLC

CONSTANTS c1, c2, c3, w1, w2

(* Two conversations in one workspace, one in another. *)
Shared == c1 :> w1 @@ c2 :> w1 @@ c3 :> w2

(* What is typed does not matter beyond being equal or not, nor which of the
   two conversations of w1 it is typed into. *)
Symmetry == Permutations(Text) \cup Permutations({c1, c2})

(* Bound: one prompt is typed in w2, MaxPrompts in w1. *)
FewInW2 == w1 :> MaxPrompts @@ w2 :> 1
=============================================================================
