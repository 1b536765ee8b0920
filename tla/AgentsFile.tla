----------------------------- MODULE AgentsFile -----------------------------
(***************************************************************************)
(* A file that Carryover shares with its user: AGENTS.md or CLAUDE.md, into *)
(* which every publish puts a pointer block, and from which uninstalling   *)
(* takes it (src/src/publish/pointer.rs), while the user edits it.         *)
(*                                                                         *)
(* The file is a sequence of lines; one that does not exist and an empty   *)
(* one are the same here.  A marker is a line of its own.  Reading and     *)
(* rewriting the file is one step: an edit in between is lost, which this  *)
(* module leaves out.                                                      *)
(***************************************************************************)
EXTENDS Naturals, Sequences, SequencesExt

CONSTANTS
  Own,      \* lines the user can write, each at most once in the file
  MaxLen,   \* bound: lines the user's edits leave in the file
  Breaks    \* does the user also delete lines of the block?

ASSUME AgentsAssumption ==
  /\ Own \cap {"start", "body", "end", "blank"} = {}
  /\ MaxLen \in Nat
  /\ Breaks \in BOOLEAN

VARIABLES
  file,   \* the lines of the file
  mine    \* the user's lines: those written and not deleted by the user

vars == <<file, mine>>

Line  == Own \cup {"start", "body", "end", "blank"}
Block == <<"start", "body", "end">>

(* The lines of s that are in S, in their order. *)
Only(s, S) == FoldLeft(LAMBDA t, l : IF l \in S THEN Append(t, l) ELSE t, << >>, s)
-----------------------------------------------------------------------------
(* The bounds of the block in s: the first start marker and the first end marker
   behind it.  A set of at most one pair. *)
FirstStart(s) == { i \in 1..Len(s) : s[i] = "start" /\ \A j \in 1..(i - 1) : s[j] # "start" }
Bounds(s) ==
  { b \in FirstStart(s) \X (1..Len(s)) :
      /\ b[1] < b[2] /\ s[b[2]] = "end"
      /\ \A j \in (b[1] + 1)..(b[2] - 1) : s[j] # "end" }

Before(s, b) == SubSeq(s, 1, b[1] - 1)
Behind(s, b) == SubSeq(s, b[2] + 1, Len(s))

(* s without the blank lines at its end. *)
Trimmed(s) ==
  SubSeq(s, 1, CHOOSE n \in 0..Len(s) :
                 /\ \A j \in (n + 1)..Len(s) : s[j] = "blank"
                 /\ n = 0 \/ s[n] # "blank")

(* Mutants of Ensured: a block is added to whatever there is; it is added at the
   top. *)
EnsuredAgain(s) == s \o <<"blank">> \o Block
EnsuredOnTop(s) == IF Bounds(s) # {} THEN s ELSE Block \o <<"blank">> \o s

(* Mutants of Removed: all from the block on is removed; the end marker stays. *)
RemovedToEnd(s) ==
  IF Bounds(s) = {} THEN s
  ELSE LET b == CHOOSE b \in Bounds(s) : TRUE IN Trimmed(Before(s, b))
RemovedButEnd(s) ==
  IF Bounds(s) = {} THEN s
  ELSE LET b == CHOOSE b \in Bounds(s) : TRUE
       IN  Trimmed(Before(s, b)) \o <<"blank", "end">> \o Behind(s, b)

(* build_new_content: the block is replaced where it is, or added at the end with
   a blank line before it. *)
Ensured(s) ==
  IF Bounds(s) # {}
  THEN LET b == CHOOSE b \in Bounds(s) : TRUE IN Before(s, b) \o Block \o Behind(s, b)
  ELSE IF s = << >> \/ (Len(s) >= 2 /\ Last(s) = "blank") THEN s \o Block
  ELSE s \o <<"blank">> \o Block

(* remove_pointer_block: a blank line takes the block's place, unless nothing
   follows it. *)
Removed(s) ==
  IF Bounds(s) = {} THEN s
  ELSE LET b      == CHOOSE b \in Bounds(s) : TRUE
           before == Trimmed(Before(s, b))
           after  == Behind(s, b)
       IN  IF Trimmed(after) = << >> THEN before
           ELSE (IF before = << >> THEN <<"blank">> ELSE before) \o <<"blank">> \o after
-----------------------------------------------------------------------------
Init ==
  /\ file \in UNION { [1..n -> Own \cup {"blank"}] : n \in 0..2 }
  /\ \A i, j \in DOMAIN file : file[i] = file[j] /\ file[i] # "blank" => i = j
  /\ mine = Only(file, Own)

(* The user writes a line in front of the i-th, outside the block. *)
WriteLine(i, l) ==
  /\ Len(file) < MaxLen
  /\ \A j \in 1..Len(file) : l \in Own => file[j] # l
  /\ \A b \in Bounds(file) : i <= b[1] \/ i > b[2]
  /\ file' = InsertAt(file, i, l)
  /\ mine' = Only(file', Own)

(* The user deletes a line. *)
DeleteLine(i) ==
  /\ file[i] \in Own \cup {"blank"} \/ Breaks
  /\ file' = RemoveAt(file, i)
  /\ mine' = Only(mine, Own \ {file[i]})

(* ensure_pointer_block, by publish, refresh and install. *)
EnsureBlock == file' = Ensured(file) /\ UNCHANGED mine

(* remove_pointer_block, by uninstall. *)
RemoveBlock == file' = Removed(file) /\ UNCHANGED mine

Next ==
  \/ \E i \in 1..(Len(file) + 1), l \in Own \cup {"blank"} : WriteLine(i, l)
  \/ \E i \in 1..Len(file) : DeleteLine(i)
  \/ EnsureBlock
  \/ RemoveBlock

Spec == Init /\ [][Next]_vars
-----------------------------------------------------------------------------
(* What the user wrote is in the file, in the user's order, after any number of
   publishes, installs and uninstalls between the edits: a block is replaced or
   taken out and nothing around it ("other content preserved",
   pointer.rs:266-269). *)
Kept == Only(file, Own) = mine

(* However it came about, a file with the block in it is not rewritten by the
   next publish: the block is not added a second time and blank lines do not
   pile up ("second call must be a no-op", pointer.rs:234). *)
Settles == Ensured(Ensured(file)) = Ensured(file)

(* Uninstalling leaves no part of the block behind, also after the user moved
   lines around it. *)
Clean == \A i \in 1..Len(Removed(file)) : Removed(file)[i] \in Own \cup {"blank"}

(* Installing and uninstalling once more does not change what uninstalling has
   left, but for blank lines at its end. *)
NoGrowth == Trimmed(Removed(Ensured(Removed(file)))) = Trimmed(Removed(file))
=============================================================================
