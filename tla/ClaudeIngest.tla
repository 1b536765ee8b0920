---------------------------- MODULE ClaudeIngest ----------------------------
(***************************************************************************)
(* The capture path of the Carryover daemon for Claude Code: the drain     *)
(* task takes hook and watch events, finds the transcript to read, reads   *)
(* the complete lines after the stored cursor, inserts their turns in the  *)
(* ledger, saves the cursor and publishes a handoff                        *)
(* (src/src/daemon/pipeline.rs, src/src/adapters/claude.rs,                *)
(* src/src/storage/mod.rs).  Each of those steps is an action, since the   *)
(* tool writes its transcripts between any two of them and the daemon can  *)
(* die between any two of them.                                            *)
(*                                                                         *)
(* Lines.  A transcript is a sequence of complete lines and, perhaps, an   *)
(* unterminated last one; byte offsets are counts of complete lines.  The  *)
(* adapter tells five kinds of line apart, four of them complete:          *)
(*   "turn"    a message: becomes a ledger row                             *)
(*   "skip"    housekeeping, corrupt JSON or no timestamp: no row          *)
(*   "poison"  JSON without a sessionId, or with an unreadable timestamp:  *)
(*             `parse` fails, and with it the whole batch                  *)
(*   "long"    more bytes than one read takes                              *)
(* A line that is not "long" takes one unit of the read cap.               *)
(***************************************************************************)
EXTENDS Naturals, Sequences

CONSTANTS
  Project,    \* project directories other than the home directory
  Home,       \* the home directory
  File,       \* Claude transcripts, <projects root>/<slug of a directory>/<uuid>.jsonl
  Owner,      \* Owner[f]: the directory whose slug f is stored under
  Decoded,    \* Decoded[d]: the directory d's slug decodes to, '-' read as '/';
              \* Home when that is no directory
  Session,    \* session ids a hook can carry
  Default,    \* "default": the id of the installed hooks and of watch events
  Absent,     \* a cursor without a file_path field
  Blank,      \* a cursor whose file_path is ""
  Kind,       \* the kinds of line the tool writes
  Cap,        \* lines one read takes (MAX_READ_BYTES_PER_POLL)
  MaxLines,   \* bound: complete lines of a transcript
  MaxQueue,   \* bound: events waiting in each channel
  Fault,      \* which of "crash", "io", "rescan", "delete" can happen
  HookFirst   \* may a hook run before its directory has a transcript?

Dir == Project \cup {Home}

ASSUME IngestAssumption ==
  /\ Home \notin Project
  /\ Owner \in [File -> Dir]
  /\ Decoded \in [Dir -> Dir]
  /\ Default \in Session
  /\ Absent \notin File /\ Blank \notin File /\ Absent # Blank
  /\ Kind \subseteq {"turn", "skip", "poison", "long"}
  /\ Cap \in Nat \ {0} /\ MaxLines \in Nat /\ MaxQueue \in Nat
  /\ Fault \subseteq {"crash", "io", "rescan", "delete"}
  /\ HookFirst \in BOOLEAN

VARIABLES
  lines,   \* lines[f]: kinds of the complete lines ever written to f
  tail,    \* tail[f]: f ends in an unterminated line
  mtime,   \* mtime[f]: when f was last written; 0 when there is no such file
  clock,   \* the largest mtime given out
  hurt,    \* history: a step failed, the daemon died, a rescan made it forget
           \* its place, or a transcript was deleted
  taken,   \* history: taken[s]: the rows inserted under session id s of the
           \* transcript it read last; not recorded any more once hurt
  cursor,  \* the cursors table: cursor[s] for this tool and session id s
  ledger,  \* the events table, as the set of its rows <<file, line>>
  shown,   \* shown[d]: the rows d's .carryover/handoff.md was distilled from
  up,      \* the daemon is running
  dirty,   \* the debouncer holds file-system changes it has not reported
  hooks,   \* hook_rx: hook events not yet processed
  watch,   \* watcher_rx: watch events not yet processed, TRUE for a rescan
  pc,      \* what the drain task does next
  sess,    \* ingest: session_id
  dir,     \* ingest: project_dir
  pos,     \* ingest: the cursor it loaded, then the advanced cursor
  from     \* ingest: the offset it read from

files  == <<lines, tail, mtime, clock>>
env    == <<lines, tail, mtime, clock, hurt, taken>>
disk   == <<cursor, ledger, shown>>
events == <<up, dirty, hooks, watch>>
work   == <<pc, sess, dir, pos, from>>
vars   == <<lines, tail, mtime, clock, hurt, taken, cursor, ledger, shown,
            up, dirty, hooks, watch, pc, sess, dir, pos, from>>

(* A stored cursor.  `at` is its file_path and `off` its byte_offset; `dir`
   is the project_dir a hook with a session id of its own merges into it, Home
   when it has none.  NoCursor stands for no row and for the string "". *)
CursorAt(f, n) == [at |-> f, off |-> n, dir |-> Home]
NoCursor       == CursorAt(Absent, 0)
Cursor == [at : File \cup {Absent, Blank}, off : 0..MaxLines, dir : Dir]
Row    == File \X (1..MaxLines)
Hook   == [sess : Session, dir : Dir]
-----------------------------------------------------------------------------
(* Transcript discovery and reading. *)

Exists(f)   == mtime[f] > 0
FilesOf(d)  == { f \in File : Owner[f] = d /\ Exists(f) }
(* The most recently modified of the files S: a set of at most one. *)
Newest(S)   == { f \in S : \A g \in S : mtime[g] <= mtime[f] }

(* The turns on lines m+1 to n of f, as ledger rows. *)
Turns(f, m, n) == { <<f, i>> : i \in { j \in (m + 1)..n : lines[f][j] = "turn" } }

(* Reading f from offset m ends at e: at the end of the last complete line, at
   the cap, or in front of a line that does not fit under the cap. *)
ReadsTo(f, m, e) ==
  /\ e - m <= Cap
  /\ \A i \in (m + 1)..e : lines[f][i] # "long"
  /\ e < Len(lines[f]) => e - m = Cap \/ lines[f][e + 1] = "long"

Parses(f, m, e) == \A i \in (m + 1)..e : lines[f][i] # "poison"

(* Where the adapter reads for cursor c: where it points or, with no such
   file, at the start of the newest transcript of any project. *)
Source(c) ==
  IF c.at \in File /\ Exists(c.at) THEN {CursorAt(c.at, c.off)}
  ELSE { CursorAt(f, 0) : f \in Newest({ g \in File : Exists(g) }) }

(* The directory a watch event is ingested for. *)
InferDir(c) ==
  IF c.dir # Home THEN c.dir
  ELSE IF c.at \in File THEN Decoded[Owner[c.at]]
  ELSE Home

(* The mutant of Reseed: the stored cursor is taken as it is. *)
ReseedNever(c, d) == {c}

(* The cursor to read from for directory d, when c is stored. *)
Reseed(c, d) ==
  LET current == IF d = Home THEN {} ELSE Newest(FilesOf(d))
  IN  IF current = {} \/ c.at \in current THEN {c}
      ELSE { CursorAt(f, 0) : f \in current }

(* The JSON {"project_dir": ...} has no file_path and is not a ClaudeCursor. *)
Undecodable(c) == c.at = Absent /\ c.dir # Home
-----------------------------------------------------------------------------
Init ==
  /\ lines = [f \in File |-> << >>]
  /\ tail = [f \in File |-> FALSE]
  /\ mtime = [f \in File |-> 0]
  /\ clock = 0
  /\ hurt = FALSE /\ taken = [s \in Session |-> {}]
  /\ cursor = [s \in Session |-> NoCursor]
  /\ ledger = {}
  /\ shown = [d \in Dir |-> {}]
  /\ up = TRUE /\ dirty = FALSE
  /\ hooks = << >> /\ watch = << >>
  /\ pc = "idle" /\ sess = Default /\ dir = Home
  /\ pos = NoCursor /\ from = 0

(***************************************************************************)
(* The tool and the file system.                                           *)
(***************************************************************************)

(* History: what befalls the daemon now excuses rows that are inserted again. *)
Excused == hurt' = TRUE /\ taken' = [s \in Session |-> {}]

(* A file is written: it becomes the newest, and a running daemon's watcher
   sees it.  A transcript that was deleted does not come back. *)
Touch(f) ==
  /\ Exists(f) \/ (lines[f] = << >> /\ ~tail[f])
  /\ clock' = IF Exists(f) /\ mtime[f] = clock THEN clock ELSE clock + 1
  /\ mtime' = [mtime EXCEPT ![f] = clock']
  /\ dirty' = (dirty \/ up)
  /\ UNCHANGED <<hurt, taken, disk, up, hooks, watch, work>>

(* The tool starts a line and has not written its newline yet. *)
StartLine(f) ==
  /\ ~tail[f] /\ Len(lines[f]) < MaxLines
  /\ tail' = [tail EXCEPT ![f] = TRUE]
  /\ Touch(f)
  /\ UNCHANGED lines

(* The tool completes a line. *)
WriteLine(f, k) ==
  /\ Len(lines[f]) < MaxLines
  /\ lines' = [lines EXCEPT ![f] = Append(@, k)]
  /\ tail' = [tail EXCEPT ![f] = FALSE]
  /\ Touch(f)

(* The tool deletes an old transcript. *)
Delete(f) ==
  /\ "delete" \in Fault /\ Exists(f)
  /\ mtime' = [mtime EXCEPT ![f] = 0]
  /\ dirty' = (dirty \/ up)
  /\ Excused
  /\ UNCHANGED <<lines, tail, clock, disk, up, hooks, watch, work>>

(* Another tool writes under a root the watcher covers: every watch event is
   ingested by every adapter, whatever path it is about. *)
OtherToolWrites ==
  /\ up /\ dirty' = TRUE
  /\ UNCHANGED <<env, disk, up, hooks, watch, work>>

(* A hook posts its working directory; it is lost when no daemon listens. *)
PostHook(s, d) ==
  /\ up /\ Len(hooks) < MaxQueue
  /\ HookFirst \/ FilesOf(d) # {}
  /\ hooks' = Append(hooks, [sess |-> s, dir |-> d])
  /\ UNCHANGED <<env, disk, up, dirty, watch, work>>

(* The debouncer reports what it holds, or that it lost some of it. *)
Notify(rescan) ==
  /\ up /\ Len(watch) < MaxQueue
  /\ dirty \/ rescan
  /\ rescan => "rescan" \in Fault
  /\ watch' = Append(watch, rescan)
  /\ dirty' = FALSE
  /\ UNCHANGED <<env, disk, up, hooks, work>>

(***************************************************************************)
(* The drain task.                                                         *)
(***************************************************************************)

Finish ==
  /\ pc' = "idle" /\ sess' = Default /\ dir' = Home
  /\ pos' = NoCursor /\ from' = 0

(* process_hook. *)
TakeHook ==
  /\ up /\ pc = "idle" /\ hooks # << >>
  /\ sess' = Head(hooks).sess /\ dir' = Head(hooks).dir
  /\ hooks' = Tail(hooks)
  /\ pc' = "load"
  /\ UNCHANGED <<env, disk, up, dirty, watch, pos, from>>

(* Mutant of TakeWatch: a watch event is taken for the echo of a hook. *)
WatchDropped ==
  /\ up /\ pc = "idle" /\ watch # << >>
  /\ watch' = Tail(watch)
  /\ UNCHANGED <<env, disk, up, dirty, hooks, work>>

(* process_watch: a rescan first forgets the default cursor, and only then is
   the directory inferred from what is stored; if that cannot be loaded, it is
   the home directory.  (That the write which forgets it can itself fail is left
   out: ingest then reads from scratch as well.) *)
TakeWatch ==
  /\ up /\ pc = "idle" /\ watch # << >>
  /\ cursor' = IF Head(watch) THEN [cursor EXCEPT ![Default] = NoCursor] ELSE cursor
  /\ sess' = Default
  /\ dir' \in {InferDir(cursor'[Default])} \cup (IF "io" \in Fault THEN {Home} ELSE {})
  /\ watch' = Tail(watch)
  /\ IF Head(watch) THEN Excused ELSE UNCHANGED <<hurt, taken>>
  /\ pc' = "load"
  /\ UNCHANGED <<files, ledger, shown, up, dirty, hooks, pos, from>>

(* Load the session's cursor and point it at the directory's newest file. *)
Load ==
  /\ pc = "load"
  /\ \E c \in Reseed(cursor[sess], dir) : pos' = c
  /\ pc' = "read"
  /\ UNCHANGED <<env, disk, events, sess, dir, from>>

(* The stored JSON is not a cursor of this adapter: logged, nothing changes. *)
ReadRejected ==
  /\ pc = "read" /\ Undecodable(pos)
  /\ Finish
  /\ UNCHANGED <<env, disk, events>>

(* What was inserted under the session id in hand of f, if f was read last. *)
Of(f) == { r \in taken[sess] : r[1] = f }

(* There is no new complete line: only the cursor is saved. *)
ReadNothing ==
  /\ pc = "read" /\ ~Undecodable(pos)
  /\ \/ /\ Source(pos) = {}
        /\ cursor' = [cursor EXCEPT ![sess] = CursorAt(Blank, 0)]
     \/ \E c \in Source(pos) :
          /\ ReadsTo(c.at, c.off, c.off)
          /\ cursor' = [cursor EXCEPT ![sess] = c]
  /\ taken' = [taken EXCEPT ![sess] = Of(cursor'[sess].at)]
  /\ Finish
  /\ UNCHANGED <<files, hurt, ledger, shown, events>>

(* A record does not parse: the whole batch is dropped, the cursor stays. *)
ReadPoison ==
  /\ pc = "read" /\ ~Undecodable(pos)
  /\ \E c \in Source(pos) : \E e \in (c.off + 1)..Len(lines[c.at]) :
       ReadsTo(c.at, c.off, e) /\ ~Parses(c.at, c.off, e)
  /\ Finish
  /\ UNCHANGED <<env, disk, events>>

(* Mutants of ReadLines: the cursor is saved before the batch is inserted; the
   unterminated last line is stepped over. *)
ReadSavesFirst ==
  /\ pc = "read" /\ ~Undecodable(pos)
  /\ \E c \in Source(pos) : \E e \in (c.off + 1)..Len(lines[c.at]) :
       /\ ReadsTo(c.at, c.off, e) /\ Parses(c.at, c.off, e)
       /\ pos' = CursorAt(c.at, e)
       /\ from' = c.off
       /\ cursor' = [cursor EXCEPT ![sess] = CursorAt(c.at, e)]
  /\ pc' = "insert"
  /\ UNCHANGED <<env, ledger, shown, events, sess, dir>>
ReadStepsOverTail ==
  /\ pc = "read" /\ ~Undecodable(pos)
  /\ \E c \in Source(pos) : \E e \in (c.off + 1)..Len(lines[c.at]) :
       /\ ReadsTo(c.at, c.off, e) /\ Parses(c.at, c.off, e)
       /\ pos' = CursorAt(c.at, IF tail[c.at] THEN e + 1 ELSE e)
       /\ from' = c.off
  /\ pc' = "insert"
  /\ UNCHANGED <<env, disk, events, sess, dir>>

ReadLines ==
  /\ pc = "read" /\ ~Undecodable(pos)
  /\ \E c \in Source(pos) : \E e \in (c.off + 1)..Len(lines[c.at]) :
       /\ ReadsTo(c.at, c.off, e) /\ Parses(c.at, c.off, e)
       /\ pos' = CursorAt(c.at, e)
       /\ from' = c.off
  /\ pc' = "insert"
  /\ UNCHANGED <<env, disk, events, sess, dir>>

Batch == Turns(pos.at, from, pos.off)

(* Mutant of InsertBatch: row by row, and a row that fails is skipped. *)
InsertRowByRow ==
  /\ pc = "insert"
  /\ \E part \in SUBSET Batch : ledger' = ledger \cup part
  /\ taken' = [taken EXCEPT ![sess] = IF hurt THEN {} ELSE Of(pos.at) \cup Batch]
  /\ pc' = "save"
  /\ UNCHANGED <<files, hurt, cursor, shown, events, sess, dir, pos, from>>

(* insert_batch: one transaction for all the rows. *)
InsertBatch ==
  /\ pc = "insert"
  /\ ledger' = ledger \cup Batch
  /\ taken' = [taken EXCEPT ![sess] = IF hurt THEN {} ELSE Of(pos.at) \cup Batch]
  /\ pc' = "save"
  /\ UNCHANGED <<files, hurt, cursor, shown, events, sess, dir, pos, from>>

(* Mutants of SaveCursor: the newline is counted twice; nothing is saved. *)
SaveCursorPlusOne ==
  /\ pc = "save"
  /\ cursor' = [cursor EXCEPT ![sess] = CursorAt(pos.at, pos.off + 1)]
  /\ pc' = IF sess # Default /\ dir # Home THEN "merge" ELSE "publish"
  /\ UNCHANGED <<env, ledger, shown, events, sess, dir, pos, from>>
SaveCursorForgets ==
  /\ pc = "save"
  /\ pc' = IF sess # Default /\ dir # Home THEN "merge" ELSE "publish"
  /\ UNCHANGED <<env, disk, events, sess, dir, pos, from>>

SaveCursor ==
  /\ pc = "save"
  /\ cursor' = [cursor EXCEPT ![sess] = pos]
  /\ pc' = IF sess # Default /\ dir # Home THEN "merge" ELSE "publish"
  /\ UNCHANGED <<env, ledger, shown, events, sess, dir, pos, from>>

(* Mutant of MergeStored: project_dir replaces the default cursor. *)
MergeOverwrites ==
  /\ pc = "merge"
  /\ cursor' = [cursor EXCEPT ![Default] = [NoCursor EXCEPT !.dir = dir]]
  /\ pc' = "publish"
  /\ UNCHANGED <<env, ledger, shown, events, sess, dir, pos, from>>

(* A hook with an id of its own leaves project_dir in the default cursor. *)
MergeStored ==
  /\ pc = "merge"
  /\ cursor' = [cursor EXCEPT ![Default].dir = dir]
  /\ pc' = "publish"
  /\ UNCHANGED <<env, ledger, shown, events, sess, dir, pos, from>>

(* The default cursor cannot be loaded, which is taken for there being none: it
   is overwritten. *)
MergeUnread ==
  /\ pc = "merge" /\ "io" \in Fault
  /\ cursor' = [cursor EXCEPT ![Default] = [NoCursor EXCEPT !.dir = dir]]
  /\ Excused
  /\ pc' = "publish"
  /\ UNCHANGED <<files, ledger, shown, events, sess, dir, pos, from>>

(* It cannot be saved, which nobody notices. *)
MergeUnsaved ==
  /\ pc = "merge" /\ "io" \in Fault
  /\ Excused
  /\ pc' = "publish"
  /\ UNCHANGED <<files, disk, events, sess, dir, pos, from>>

MergeProjectDir == MergeStored \/ MergeUnread \/ MergeUnsaved

(* Mutant of Publish: only the latest batch is distilled. *)
PublishBatch ==
  /\ pc = "publish"
  /\ shown' = [shown EXCEPT ![Home] = Batch, ![dir] = Batch]
  /\ Finish
  /\ UNCHANGED <<env, cursor, ledger, events>>

(* distill_and_publish: the session of the batch's first row is distilled from
   all its rows in the ledger; a batch without rows is looked up under the
   hook's session id, which is no transcript's unless the hook says so.  Both
   the home and the project handoff are overwritten. *)
Publish ==
  /\ pc = "publish"
  /\ \E rows \in IF Batch # {} THEN { { r \in ledger : r[1] = pos.at } }
                 ELSE IF sess = Default THEN { {} }
                 ELSE { {}, { r \in ledger : r[1] = pos.at } } :
       shown' = [shown EXCEPT ![Home] = rows, ![dir] = rows]
  /\ Finish
  /\ UNCHANGED <<env, cursor, ledger, events>>

(* SQLite or the file system refuses a step: `?` returns, the error is logged
   and the event is done with. *)
StepFails ==
  /\ "io" \in Fault /\ pc # "idle"
  /\ Finish
  /\ Excused
  /\ UNCHANGED <<files, disk, events>>

(* The process dies or is stopped: everything in memory is gone. *)
Crash ==
  /\ "crash" \in Fault /\ up
  /\ up' = FALSE /\ dirty' = FALSE /\ hooks' = << >> /\ watch' = << >>
  /\ Finish
  /\ Excused
  /\ UNCHANGED <<files, disk>>

Restart ==
  /\ ~up /\ up' = TRUE
  /\ UNCHANGED <<env, disk, dirty, hooks, watch, work>>
-----------------------------------------------------------------------------
Environment ==
  \/ \E f \in File : StartLine(f) \/ Delete(f) \/ \E k \in Kind : WriteLine(f, k)
  \/ OtherToolWrites
  \/ \E s \in Session, d \in Dir : PostHook(s, d)

Read == ReadRejected \/ ReadNothing \/ ReadPoison \/ ReadLines

Ingest == Load \/ Read \/ InsertBatch \/ SaveCursor \/ MergeProjectDir \/ Publish

Drain == TakeHook \/ TakeWatch \/ Ingest

Next ==
  \/ Environment
  \/ \E rescan \in BOOLEAN : Notify(rescan)
  \/ Drain
  \/ StepFails
  \/ Crash \/ Restart

Spec == Init /\ [][Next]_vars

(* The drain task goes on with an event it has taken and, between two, takes of
   either queue sooner or later, for select! draws among those that are ready; the
   debouncer's timer fires.  Nothing is assumed of writes, hooks, rescans and
   restarts. *)
Fairness ==
  /\ WF_vars(Ingest) /\ SF_vars(TakeHook) /\ SF_vars(TakeWatch)
  /\ WF_vars(Notify(FALSE))

FairSpec == Spec /\ Fairness
-----------------------------------------------------------------------------
TypeOK ==
  /\ lines \in [File -> Seq(Kind)]
  /\ \A f \in File : Len(lines[f]) <= MaxLines
  /\ tail \in [File -> BOOLEAN]
  /\ mtime \in [File -> Nat] /\ clock \in Nat
  /\ hurt \in BOOLEAN /\ taken \in [Session -> SUBSET Row]
  /\ cursor \in [Session -> Cursor]
  /\ ledger \subseteq Row
  /\ shown \in [Dir -> SUBSET Row]
  /\ up \in BOOLEAN /\ dirty \in BOOLEAN
  /\ hooks \in Seq(Hook) /\ watch \in Seq(BOOLEAN)
  /\ pc \in {"idle", "load", "read", "insert", "save", "merge", "publish"}
  /\ sess \in Session /\ dir \in Dir
  /\ pos \in Cursor /\ from \in 0..MaxLines

(***************************************************************************)
(* Safety.                                                                 *)
(***************************************************************************)

(* The refinement mapping: Capture's transcripts are the complete lines, its
   ledger is the set of rows; cursors, queues, offsets and the drain task have no
   counterpart. *)
Abs == INSTANCE Capture WITH File <- File, Kind <- Kind, lines <- lines, ledger <- ledger

Backed(f, n) == /\ n <= Len(lines[f])
                /\ Turns(f, 0, n) \subseteq ledger
                /\ Abs!Readable(f, n)

(* No turn is lost below a cursor: wherever a stored cursor points, the ledger
   already holds every turn before that point, and nothing the adapter cannot
   take lies there.  This is what inserting the batch (pipeline.rs:242) before
   saving the cursor (243-244) is for: a crash or an error between the two may
   repeat a batch but never skips one. *)
CursorBacked ==
  \A s \in Session : cursor[s].at \in File => Backed(cursor[s].at, cursor[s].off)

(* The same for the cursor the drain task has in hand, at each of its steps. *)
WorkBacked ==
  /\ pc = "read" /\ pos.at \in File => Backed(pos.at, pos.off)
  /\ pc \in {"insert", "save", "merge", "publish"} =>
       /\ pos.at \in File
       /\ from <= pos.off /\ pos.off <= Len(lines[pos.at])
       /\ Backed(pos.at, from)
       /\ Abs!Readable(pos.at, pos.off)
  /\ pc \in {"save", "merge", "publish"} => Backed(pos.at, pos.off)

(* The ledger implements Capture: with crashes, failing steps, rescans,
   deleted transcripts and hooks from several directories and sessions, it
   still only ever catches up with whole prefixes of transcripts. *)
ImplementsCapture == Abs!Spec

(* As long as nothing befalls the daemon, a session id whose cursor stays with
   one transcript takes each of its rows once, however often hooks and watch
   events come and whatever other ids' cursors do meanwhile (the test
   ingest_idempotent_after_cursor_advance, pipeline.rs:905-925).  Nothing looks
   for duplicates: another id inserts the rows once more, and so does the same
   one when it comes back from another transcript (pipeline.rs:164-173). *)
NoRepeat == pc = "insert" => taken[sess] \cap Batch = {}

(* A project's handoff is distilled from transcripts of that project only
   (ARCHITECTURE.md: <project>/.carryover/handoff.md is project-local). *)
PublishedToOwner ==
  \A p \in Project : \A r \in shown[p] : Owner[r[1]] = p

(* When a batch with turns is published, the home handoff and the project's
   reflect every turn of the transcript up to there: the whole session, whatever
   was inserted by earlier events, other sessions' hooks or before a crash, and
   not just the batch (pipeline.rs:311-312). *)
HandoffWhole ==
  [][ pc = "publish" /\ up' /\ shown' # shown /\ Batch # {} =>
        Turns(pos.at, 0, pos.off) \subseteq shown'[Home] \cap shown'[dir] ]_vars

(* A cursor that points into an existing transcript never loses its place and is
   never moved back in it, as long as no transcript is deleted while it is read:
   only a rescan forgets the place, and a hook that merges its project_dir into a
   default cursor that it cannot load (pipeline.rs:284-296).  The comment there,
   "overwriting would clobber file_path/byte_offset" (271-274), makes no such
   exception. *)
KeepsPlace ==
  [][ \A s \in Session :
        /\ cursor[s].at \in File /\ Exists(cursor[s].at)
        /\ ~(watch # << >> /\ Head(watch) /\ watch' = Tail(watch))
        /\ ~MergeUnread
        => /\ cursor'[s].at \in File
           /\ cursor'[s].at = cursor[s].at => cursor'[s].off >= cursor[s].off
    ]_vars

(***************************************************************************)
(* Liveness.                                                               *)
(***************************************************************************)

Written(r) == r[2] <= Len(lines[r[1]]) /\ lines[r[1]][r[2]] = "turn"

(* One read under session id s, for r's directory, takes r: r's transcript is the
   directory's newest, no more than a read's worth is in front of r, and every
   line of it can be taken. *)
InReach(r, s) ==
  LET f == r[1] IN
  /\ up /\ Written(r)
  /\ f \in Newest(FilesOf(Owner[f]))
  /\ r[2] <= Cap + (IF cursor[s].at = f THEN cursor[s].off ELSE 0)
  /\ \A i \in DOMAIN lines[f] : lines[f][i] \in {"turn", "skip"}

(* A hook gets its project's turn into the home handoff, for as long as one read
   reaches it: when the hook is in the queue and the ledger does not have the turn,
   the turn is published.  (The project's own handoff need not get it: a watch event
   that is ingested for the home directory may take the turn first, and the hook
   then finds nothing.) *)
EventuallyShown ==
  \A r \in Row, s \in Session :
    LET Posted == [sess |-> s, dir |-> Owner[r[1]]] \in { hooks[i] : i \in DOMAIN hooks }
    IN  (Owner[r[1]] # Home /\ r \notin ledger /\ InReach(r, s) /\ Posted)
          ~> (r \in shown[Home] \/ ~InReach(r, s))

(* Watch events lead to f: the default cursor points there, and not to another
   project, or it points nowhere and f is the newest transcript of all. *)
Followed(f) ==
  LET c == cursor[Default] IN
  \/ c.at = f /\ InferDir(c) \in {Home, Owner[f]}
  \/ c.at \notin File /\ c.dir = Home /\ f \in Newest({ g \in File : Exists(g) })

(* Without any hook, a turn in the transcript that watch events lead to reaches
   the ledger, for as long as one read reaches it. *)
EventuallyCaptured ==
  \A r \in Row : (InReach(r, Default) /\ Followed(r[1]) /\ (dirty \/ watch # << >>))
                   ~> (r \in ledger \/ ~InReach(r, Default) \/ ~Followed(r[1]))

(* "A single bad line doesn't block the entire transcript" (claude.rs:182-183): a
   turn whose writing the watcher saw reaches the ledger, where there is one
   transcript and all of it fits in a read. *)
WatcherCaptures ==
  \A r \in Row : (Written(r) /\ up /\ dirty) ~> (r \in ledger \/ ~up)
=============================================================================
