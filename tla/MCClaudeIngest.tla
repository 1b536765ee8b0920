--------------------------- MODULE MCClaudeIngest ---------------------------
(***************************************************************************)
(* Small instances of ClaudeIngest for TLC.                                *)
(***************************************************************************)
EXTENDS ClaudeIngest, TLC

CONSTANTS p1, p2, f1, f2

(* Every transcript belongs to the one project p1. *)
OneProject == [f \in File |-> p1]

(* One transcript for each of two projects. *)
TwoProjects == f1 :> p1 @@ f2 :> p2

(* Every slug decodes to its directory. *)
PlainSlugs == [d \in Dir |-> d]

(* The path of p2 has a '-': its slug decodes to no directory. *)
HyphenInP2 == [d \in Dir |-> IF d = p2 THEN Home ELSE d]
=============================================================================
