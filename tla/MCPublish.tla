----------------------------- MODULE MCPublish -----------------------------
(***************************************************************************)
(* Small instances of Publish for TLC.  Projects are interchangeable.      *)
(***************************************************************************)
EXTENDS Publish, TLC

Symmetry == Permutations(Project)

(* The second batch is as old as the first; the third is later. *)
Tied == [b \in Batch |-> IF b <= 2 THEN 1 ELSE b]

(* Bounds: no two handoffs carry an edit at once, and the home directory's
   .gitignore, which nothing depends on, is there from the start. *)
Bounds ==
  /\ Cardinality({ d \in Dir : handoff[d] # Missing /\ handoff[d].note }) <= 1
  /\ ignored[Home]
=============================================================================
