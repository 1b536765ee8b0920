--------------------------- MODULE MCCodexIngest ----------------------------
(***************************************************************************)
(* Small instances of CodexIngest for TLC.                                 *)
(***************************************************************************)
EXTENDS CodexIngest, TLC

CONSTANTS r1, r2, p1, p2

(* Two sessions, in two projects. *)
OwnProject == r1 :> p1 @@ r2 :> p2

(* The first line is the session_meta, the others become rows. *)
Talk == r1 :> 2..MaxLines @@ r2 :> 2..MaxLines

(* The two sessions are prompted in turn. *)
InTurn == [i \in 1..MaxLines |-> IF i % 2 = 1 THEN r1 ELSE r2]

(* Bound: r1 can outgrow the cap, r2 is there to be pointed at. *)
Longer == [g \in Log |-> IF g = r1 THEN MaxLines ELSE IF g = r2 THEN 1 ELSE 2]
=============================================================================
