----------------------------- MODULE MCInstall -----------------------------
(***************************************************************************)
(* A small instance of Install for TLC.                                    *)
(***************************************************************************)
EXTENDS Install
=============================================================================
