------------------------------ MODULE Capture ------------------------------
(***************************************************************************)
(* What the ledger promises about the transcripts of one tool, with no     *)
(* daemon, cursor, queue or crash in sight: a tool appends lines to its    *)
(* transcripts, and from time to time the ledger catches up with a whole   *)
(* prefix of one of them.  It therefore never holds a line that is not     *)
(* complete, never has a gap before a line it holds, never gets past a     *)
(* line the adapter cannot take, and never forgets.                        *)
(***************************************************************************)
EXTENDS Naturals, Sequences

CONSTANTS File,   \* transcript files
          Kind    \* kinds of line, a subset of those ClaudeIngest explains

VARIABLES lines,  \* lines[f]: the complete lines the tool has written to f
          ledger  \* the rows: <<f, i>> is the turn on line i of f

(* The turns among the first n lines of f: what the ledger keeps of them. *)
TurnsUpTo(f, n) == { <<f, i>> : i \in { j \in 1..n : lines[f][j] = "turn" } }

(* The adapter can take the first n lines of f: none of them makes `parse`
   fail and none is longer than the read cap. *)
Readable(f, n) == \A i \in 1..n : lines[f][i] \notin {"poison", "long"}

Init ==
  /\ lines = [f \in File |-> << >>]
  /\ ledger = {}

Append1(f, k) ==
  /\ lines' = [lines EXCEPT ![f] = Append(@, k)]
  /\ UNCHANGED ledger

CatchUp(f, n) ==
  /\ Readable(f, n)
  /\ ledger' = ledger \cup TurnsUpTo(f, n)
  /\ UNCHANGED lines

Next ==
  \E f \in File :
    \/ \E k \in Kind : Append1(f, k)
    \/ \E n \in 0..Len(lines[f]) : CatchUp(f, n)

vars == <<lines, ledger>>

Spec == Init /\ [][Next]_vars
=============================================================================
