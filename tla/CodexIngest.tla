---------------------------- MODULE CodexIngest -----------------------------
(***************************************************************************)
(* The capture path for Codex (src/src/adapters/codex.rs and the Codex     *)
(* parts of src/src/daemon/pipeline.rs).  Codex writes one rollout file    *)
(* per session, whose first line names the session's directory, and        *)
(* appends every prompt of every session to one history file, before it is *)
(* in the rollout.  A read takes the new lines of one rollout and then     *)
(* those of the history; one cursor has an offset into each, and the path  *)
(* of the rollout.  (The hooks installed for Codex carry no session id, so *)
(* all events share it.)                                                   *)
(*                                                                         *)
(* Unlike the reader of Claude Code's transcripts (ClaudeIngest), this one *)
(* gives nothing back when what it has read ends within a line, be it the  *)
(* last line of the file or the one the cap falls into.                    *)
(*                                                                         *)
(* Logs are counts of complete lines: what a line says is fixed beforehand *)
(* by the constants Says and By.  An event is taken up when it happens:    *)
(* queues and what is lost with them are the subject of ClaudeIngest.      *)
(***************************************************************************)
EXTENDS Naturals

CONSTANTS
  Project,   \* project directories other than the home directory
  Home,      \* the home directory
  File,      \* rollouts, which stand for their sessions too
  History,   \* the history file
  Owner,     \* Owner[f]: the directory f's first line names
  Says,      \* Says[f]: the lines of f that become a ledger row
  By,        \* By[i]: the session of line i of the history
  Blank,     \* the path of a cursor that points nowhere
  Cap,       \* complete lines under the cap of one read
  MaxLines,  \* bound: lines of any log
  Limit,     \* bound: Limit[g] lines are written to g
  Fault      \* which of "stop", "rescan", "delete" can happen

Dir == Project \cup {Home}
Log == File \cup {History}

ASSUME CodexAssumption ==
  /\ Home \notin Project
  /\ History \notin File /\ Blank \notin File
  /\ MaxLines \in Nat /\ Cap \in Nat \ {0} /\ Limit \in [Log -> 0..MaxLines]
  /\ Owner \in [File -> Dir]
  /\ Says \in [File -> SUBSET (2..MaxLines)]
  /\ By \in [1..MaxLines -> File]
  /\ Fault \subseteq {"stop", "rescan", "delete"}

VARIABLES
  lines,   \* lines[g]: complete lines of log g
  tail,    \* tail[g]: g ends in an unterminated line
  rank,    \* rank[f]: f's place among the rollouts by modification time, 1 for
           \* the latest; 0 when there is no such file
  cursor,  \* the stored cursor
  ledger,  \* the events table, as the set of its rows <<log, line>>
  shown,   \* shown[d]: the session d's handoff was distilled from, if any
  pc,      \* what the drain task does next
  dir,     \* ingest: project_dir
  from,    \* ingest: the cursor it starts from
  pos      \* ingest: the advanced cursor

env  == <<lines, tail, rank>>
disk == <<cursor, ledger, shown>>
work == <<pc, dir, from, pos>>
vars == <<lines, tail, rank, cursor, ledger, shown, pc, dir, from, pos>>

(* A cursor: the rollout, the offsets into it and into the history, and the
   project, Home when it knows none. *)
Cursor   == [at : File \cup {Blank}, off : 0..MaxLines, hist : 0..MaxLines, dir : Dir]
NoCursor == [at |-> Blank, off |-> 0, hist |-> 0, dir |-> Home]

Row == Log \X (1..MaxLines)
-----------------------------------------------------------------------------
Exists(f) == rank[f] # 0
(* The first line of f, the session_meta line, can be read. *)
Peeks(f)  == Exists(f) /\ lines[f] >= 1

(* The latest written of the rollouts S: a set of at most one. *)
Newest(S) == { f \in S : \A g \in S : rank[f] <= rank[g] }

(* The rollout to read for directory d: the newest of d's, or else of all. *)
Candidate(d) ==
  LET there == { f \in File : Exists(f) }
      own   == { f \in there : Peeks(f) /\ Owner[f] = d }
  IN  IF own # {} THEN Newest(own) ELSE Newest(there)

(* The mutant of Reseed: the project is kept. *)
ReseedKeepsDir(c, d) ==
  IF Candidate(d) = {} \/ c.at \in Candidate(d) THEN {c}
  ELSE { [NoCursor EXCEPT !.at = f, !.dir = c.dir] : f \in Candidate(d) }

(* The cursor to read from when c is stored.  Pointing it at another rollout
   starts the history over as well. *)
Reseed(c, d) ==
  IF Candidate(d) = {} \/ c.at \in Candidate(d) THEN {c}
  ELSE { [NoCursor EXCEPT !.at = f] : f \in Candidate(d) }

(* Where a read of g from offset m can end: at the end of the file or, should
   the cap fall on the end of a line, there. *)
Ends(g, m) ==
  { e \in m..lines[g] : \/ e = lines[g] /\ e <= m + Cap /\ ~tail[g]
                        \/ e = m + Cap }
(* It can also end within a line, and fail. *)
Cut(g, m) == tail[g] \/ lines[g] > m + Cap

(* The rows between two cursors of one rollout. *)
Between(a, b) ==
  { <<b.at, i>> : i \in { j \in Says[b.at] : a.off < j /\ j <= b.off } }
    \cup { <<History, i>> : i \in (a.hist + 1)..b.hist }
-----------------------------------------------------------------------------
Init ==
  /\ lines = [g \in Log |-> 0] /\ tail = [g \in Log |-> FALSE]
  /\ rank = [f \in File |-> 0]
  /\ cursor = NoCursor /\ ledger = {} /\ shown = [d \in Dir |-> {}]
  /\ pc = "idle" /\ dir = Home /\ from = NoCursor /\ pos = NoCursor

(***************************************************************************)
(* Codex.                                                                  *)
(***************************************************************************)

(* A rollout that is written becomes the latest; one that was deleted does not
   come back, unless there was nothing in it. *)
Touch(g) ==
  /\ g \in File => Exists(g) \/ (lines[g] = 0 /\ ~tail[g])
  /\ rank' = [f \in File |->
       IF g = History THEN rank[f]
       ELSE IF f = g THEN 1
       ELSE IF Exists(f) /\ (~Exists(g) \/ rank[f] < rank[g]) THEN rank[f] + 1
       ELSE rank[f]]
  /\ UNCHANGED <<disk, work>>

Create(f) ==
  /\ ~Exists(f) /\ Touch(f)
  /\ UNCHANGED <<lines, tail>>

StartLine(g) ==
  /\ ~tail[g] /\ lines[g] < Limit[g]
  /\ tail' = [tail EXCEPT ![g] = TRUE]
  /\ Touch(g)
  /\ UNCHANGED lines

WriteLine(g) ==
  /\ lines[g] < Limit[g]
  /\ lines' = [lines EXCEPT ![g] = @ + 1]
  /\ tail' = [tail EXCEPT ![g] = FALSE]
  /\ Touch(g)

Delete(f) ==
  /\ "delete" \in Fault /\ Exists(f)
  /\ rank' = [g \in File |->
       IF g = f THEN 0 ELSE IF rank[g] > rank[f] THEN rank[g] - 1 ELSE rank[g]]
  /\ UNCHANGED <<lines, tail, disk, work>>

(***************************************************************************)
(* The drain task.                                                         *)
(***************************************************************************)

Finish == pc' = "idle" /\ dir' = Home /\ from' = NoCursor /\ pos' = NoCursor

(* An event for directory d is taken up: the cursor is loaded and pointed at
   d's rollout. *)
Load(c, d) ==
  /\ pc = "idle"
  /\ from' \in Reseed(c, d) /\ pos' = from'
  /\ dir' = d
  /\ pc' = "rollout"

TakeHook(d) ==
  /\ Load(cursor, d)
  /\ UNCHANGED <<env, disk>>

(* A change is ingested for the directory the cursor names. *)
TakeWatch ==
  /\ Load(cursor, cursor.dir)
  /\ UNCHANGED <<env, disk>>

(* Changes were lost: the cursor is forgotten first. *)
TakeRescan ==
  /\ "rescan" \in Fault
  /\ Load(NoCursor, Home)
  /\ cursor' = NoCursor
  /\ UNCHANGED <<env, ledger, shown>>

(* There is no rollout at all: the history is not read either. *)
ReadNowhere ==
  /\ pc = "rollout" /\ pos.at = Blank
  /\ Finish
  /\ UNCHANGED <<env, disk>>

(* The rollout is gone, or the read ends within a line: the event fails. *)
ReadFails ==
  /\ pc = "rollout" /\ pos.at \in File
  /\ ~Exists(pos.at) \/ Cut(pos.at, pos.off)
  /\ Finish
  /\ UNCHANGED <<env, disk>>

(* Mutants of ReadRollout: the unterminated last line is stepped over; the
   offset is that of the line after. *)
ReadStepsOverTail ==
  /\ pc = "rollout" /\ pos.at \in File /\ Exists(pos.at)
  /\ \E e \in pos.off..(lines[pos.at] + 1) :
       /\ e = IF tail[pos.at] THEN lines[pos.at] + 1 ELSE lines[pos.at]
       /\ pos' = [pos EXCEPT !.off = e]
  /\ pc' = "history"
  /\ UNCHANGED <<env, disk, dir, from>>
ReadPlusOne ==
  /\ pc = "rollout" /\ pos.at \in File /\ Exists(pos.at)
  /\ \E e \in Ends(pos.at, pos.off) : pos' = [pos EXCEPT !.off = e + 1]
  /\ pc' = "history"
  /\ UNCHANGED <<env, disk, dir, from>>

ReadRollout ==
  /\ pc = "rollout" /\ pos.at \in File /\ Exists(pos.at)
  /\ \E e \in Ends(pos.at, pos.off) : pos' = [pos EXCEPT !.off = e]
  /\ pc' = "history"
  /\ UNCHANGED <<env, disk, dir, from>>

(* The mutant of Through: a history that cannot be read is started over. *)
ThroughRestarts(h) ==
  \/ h \in Ends(History, pos.hist)
  \/ h = 0 /\ Cut(History, pos.hist)

(* The history is read up to h, or not at all when the read ends within a line:
   that error is ignored. *)
Through(h) ==
  \/ h \in Ends(History, pos.hist)
  \/ h = pos.hist /\ Cut(History, pos.hist)

(* The cursor after the history was read up to h. *)
Advanced(h) ==
  [pos EXCEPT !.hist = h, !.dir = IF Peeks(pos.at) THEN Owner[pos.at] ELSE @]

(* Neither log has a new line: only the cursor is saved. *)
ReadNothing ==
  /\ pc = "history"
  /\ \E h \in 0..MaxLines :
       /\ Through(h) /\ pos.off = from.off /\ h = pos.hist
       /\ cursor' = Advanced(h)
  /\ Finish
  /\ UNCHANGED <<env, ledger, shown>>

ReadHistory ==
  /\ pc = "history"
  /\ \E h \in 0..MaxLines :
       /\ Through(h) /\ (pos.off # from.off \/ h # pos.hist)
       /\ pos' = Advanced(h)
  /\ pc' = "insert"
  /\ UNCHANGED <<env, disk, dir, from>>

Insert ==
  /\ pc = "insert"
  /\ ledger' = ledger \cup Between(from, pos)
  /\ pc' = "save"
  /\ UNCHANGED <<env, cursor, shown, dir, from, pos>>

SaveCursor ==
  /\ pc = "save"
  /\ cursor' = pos
  /\ pc' = "publish"
  /\ UNCHANGED <<env, ledger, shown, dir, from, pos>>

(* The session of the batch's first row: rows of the rollout come first. *)
FirstOf(batch) ==
  IF \E r \in batch : r[1] # History THEN {pos.at}
  ELSE { By[r[2]] : r \in { q \in batch : \A p \in batch : q[2] <= p[2] } }

(* distill_and_publish: the session of the first row, as far as it is in the
   ledger, is published to the directory the cursor names, unless that is the
   home directory, and to the home directory. *)
Publish ==
  /\ pc = "publish"
  /\ LET session == FirstOf(Between(from, pos))
         target  == IF pos.dir # Home THEN pos.dir ELSE dir
     IN  shown' = [shown EXCEPT ![Home] = session, ![target] = session]
  /\ Finish
  /\ UNCHANGED <<env, cursor, ledger>>

(* A step fails, or the daemon dies and is started again: all the same to what
   is stored. *)
Stop ==
  /\ "stop" \in Fault /\ pc # "idle"
  /\ Finish
  /\ UNCHANGED <<env, disk>>
-----------------------------------------------------------------------------
Codex ==
  \/ \E g \in Log : StartLine(g) \/ WriteLine(g)
  \/ \E f \in File : Create(f) \/ Delete(f)

Take == TakeWatch \/ TakeRescan \/ \E d \in Dir : TakeHook(d)

Read == ReadNowhere \/ ReadFails \/ ReadRollout \/ ReadNothing \/ ReadHistory

Next == Codex \/ Take \/ Read \/ Insert \/ SaveCursor \/ Publish \/ Stop

Spec == Init /\ [][Next]_vars
-----------------------------------------------------------------------------
TypeOK ==
  /\ lines \in [Log -> 0..MaxLines] /\ tail \in [Log -> BOOLEAN]
  /\ rank \in [File -> Nat]
  /\ cursor \in Cursor
  /\ ledger \subseteq Row
  /\ shown \in [Dir -> SUBSET File]
  /\ pc \in {"idle", "rollout", "history", "insert", "save", "publish"}
  /\ dir \in Dir
  /\ from \in Cursor /\ pos \in Cursor

Backed(c) ==
  /\ c.at \in File => /\ c.off <= lines[c.at]
                      /\ \A i \in Says[c.at] : i <= c.off => <<c.at, i>> \in ledger
  /\ c.hist <= lines[History]
  /\ \A i \in 1..c.hist : <<History, i>> \in ledger

(* Below the two offsets of the stored cursor nothing is missing in the ledger,
   neither of the rollout nor of the history, although both move with one save,
   an unreadable history is passed over (codex.rs:199-201) and a crash can come
   between the insert and the save (pipeline.rs:242-244). *)
CursorBacked == Backed(cursor)

(* The cursor never names another project than its rollout's (codex.rs:42-46
   "so fs-watcher events can route the handoff back to the correct project"):
   not when it is pointed at a new rollout whose first line is not yet there,
   nor when the rollout is deleted. *)
KnowsProject == cursor.at \in File => cursor.dir \in {Home, Owner[cursor.at]}

(* While it stays with its rollout, neither offset ever goes back
   (adapters/mod.rs:124-125 "must be monotonic (never regresses)"). *)
Monotonic ==
  [][ cursor.at \in File /\ cursor'.at = cursor.at
      => cursor'.off >= cursor.off /\ cursor'.hist >= cursor.hist ]_vars

(* A project's handoff is distilled from the project's own sessions. *)
PublishedToOwner ==
  \A p \in Project : \A f \in shown[p] : Owner[f] = p
=============================================================================
