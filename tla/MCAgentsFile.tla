---------------------------- MODULE MCAgentsFile ----------------------------
(***************************************************************************)
(* Small instances of AgentsFile for TLC.  The user's lines are            *)
(* interchangeable.                                                        *)
(***************************************************************************)
EXTENDS AgentsFile, TLC

Symmetry == Permutations(Own)
=============================================================================
