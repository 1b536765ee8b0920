------------------------------ MODULE Publish ------------------------------
(***************************************************************************)
(* What distilling and publishing a batch does to the files, one file at a *)
(* time (distill_and_publish in src/src/daemon/pipeline.rs, publish in     *)
(* src/src/publish/mod.rs).  The daemon reads what the project's handoff   *)
(* and progress log hold, adds the batch, and writes .gitignore, the user  *)
(* handoff, the project handoff, the progress log and the pointer blocks,  *)
(* in that order.  It can die or fail between any two of them, and the     *)
(* user's git and the agents that read the handoff do not wait for it.     *)
(*                                                                         *)
(* A file written through write_atomic (a temporary file, then a rename)   *)
(* changes in one step.  The two in-place rewrites of an existing handoff  *)
(* take two: std::fs::write empties the file and then fills it.            *)
(***************************************************************************)
EXTENDS Naturals, FiniteSets

CONSTANTS
  Project,   \* project directories other than the home directory
  Home,      \* the home directory
  Missing,   \* the handoff of a directory that has none
  MaxBatch,  \* bound: batches ingested
  Second,    \* Second[b]: when the turns of batch b were written, in seconds
  Room,      \* progress entries a handoff has room for (MAX_HANDOFF_LINES)
  Fault      \* which of "crash", "io", "unreadable", "edit", "refresh" happen

Dir   == Project \cup {Home}
Batch == 1..MaxBatch

(* A handoff: the batches whose task its Task section lists, the batches whose
   entries its Progress log shows, and whether somebody has edited it. *)
Handoff == [tasks : SUBSET Batch, log : SUBSET Batch, note : BOOLEAN]
Emptied == [tasks |-> {}, log |-> {}, note |-> FALSE]

ASSUME PublishAssumption ==
  /\ Home \notin Project
  /\ Missing \notin Handoff
  /\ MaxBatch \in Nat /\ Room \in Nat
  /\ Second \in [Batch -> Nat]
  /\ Fault \subseteq {"crash", "io", "unreadable", "edit", "refresh"}

VARIABLES
  ignored,   \* ignored[d]: d/.gitignore covers .carryover/
  handoff,   \* handoff[d]: d/.carryover/handoff.md
  progress,  \* progress[d]: the batches in d/.carryover/progress.md
  pointer,   \* pointer[d]: which of d/AGENTS.md, d/CLAUDE.md have the block
  captured,  \* directories where a `git add -A` took .carryover/ along
  taken,     \* taken[d]: batches inserted for d, with the cursor saved
  done,      \* done[d]: batches whose publish for d wrote all it had to
  missed,    \* history: batches whose publish was cut before it had
  wiped,     \* history: directories whose history was lost on another way, in
             \* a torn rewrite or because it could not be read
  pc,        \* what the drain task does next
  dir,       \* project_dir
  batch,     \* the latest batch
  text,      \* the rendered handoff
  log        \* the rendered progress log

files == <<ignored, handoff, progress, pointer>>
work  == <<pc, dir, batch, text, log>>
past  == <<captured, missed, wiped>>
vars  == <<ignored, handoff, progress, pointer, captured, taken, done,
           missed, wiped, pc, dir, batch, text, log>>

Doc == {"AGENTS.md", "CLAUDE.md"}

(* Where the drain task is before the project's files hold the batch. *)
Unwritten == {"distill", "ignore", "user", "project", "progress"}

Init ==
  /\ ignored \in [Dir -> BOOLEAN]
  /\ handoff = [d \in Dir |-> Missing]
  /\ progress = [d \in Dir |-> {}]
  /\ pointer = [d \in Dir |-> {}]
  /\ captured = {} /\ missed = {} /\ wiped = {}
  /\ taken = [d \in Dir |-> {}] /\ done = [d \in Dir |-> {}]
  /\ pc = "idle" /\ dir = Home /\ batch = 0
  /\ text = Emptied /\ log = {}
-----------------------------------------------------------------------------
(***************************************************************************)
(* The drain task.                                                         *)
(***************************************************************************)

(* The drain task is done with what it had in hand. *)
Leave(place) ==
  /\ pc' = place /\ dir' = Home
  /\ text' = Emptied /\ log' = {}

(* ingest has inserted a batch for d and saved the cursor: it will not be read
   again.  Each batch brings a task not seen before and an entry. *)
TakeBatch(d) ==
  /\ pc = "idle" /\ batch < MaxBatch
  /\ batch' = batch + 1
  /\ taken' = [taken EXCEPT ![d] = @ \cup {batch'}]
  /\ dir' = d
  /\ pc' = "distill"
  /\ UNCHANGED <<files, past, done, text, log>>

(* The tasks and the entries the project's files hold; a file that cannot be
   read counts as an empty one. *)
OldTasks == IF handoff[dir] = Missing THEN {} ELSE handoff[dir].tasks
Readings(s) == IF "unreadable" \in Fault THEN {s, {}} ELSE {s}

(* render_handoff cuts what is over the cap off the end, which is where the
   newest entries of the progress log are.  The whole Task section counts as
   one line. *)
Oldest(s, n) == { k \in s : Cardinality({ j \in s : j < k }) < n }
Render(tasks, entries) ==
  [tasks |-> tasks, log |-> Oldest(entries, Room), note |-> FALSE]

(* build_progress_log: an entry that is not later than the last one, and with it
   all of them, is taken for one that is there already. *)
Logged(entries, b) ==
  entries \cup { k \in {b} : \A e \in entries : Second[e] < Second[k] }

(* Mutants of Distill: the project's handoff is written back as it was read; the
   history is taken from the user's handoff. *)
DistillKeeps ==
  /\ pc = "distill"
  /\ log' = Logged(progress[dir], batch)
  /\ text' = handoff[dir]
  /\ pc' = "ignore"
  /\ UNCHANGED <<files, past, taken, done, dir, batch>>
DistillFromHome ==
  /\ pc = "distill"
  /\ \E entries \in Readings(progress[dir]) :
       /\ log' = Logged(entries, batch)
       /\ text' = Render((IF handoff[Home] = Missing THEN {} ELSE handoff[Home].tasks)
                           \cup {batch}, log')
  /\ pc' = "ignore"
  /\ UNCHANGED <<files, past, taken, done, dir, batch>>

(* The sections and the log are accumulated onto what the project has. *)
Distill ==
  /\ pc = "distill"
  /\ \E tasks \in Readings(OldTasks), entries \in Readings(progress[dir]) :
       /\ log' = Logged(entries, batch)
       /\ text' = Render(tasks \cup {batch}, log')
       /\ wiped' = IF tasks = OldTasks /\ entries = progress[dir]
                     THEN wiped ELSE wiped \cup {dir}
  /\ pc' = "ignore"
  /\ UNCHANGED <<files, captured, missed, taken, done, dir, batch>>

(* Mutants of EnsureIgnored: .gitignore is left to the installer; the pointer
   block is written along with .gitignore. *)
IgnoreSkipped ==
  /\ pc = "ignore"
  /\ pc' = "user"
  /\ UNCHANGED <<files, past, taken, done, dir, batch, text, log>>

IgnoreAndPoint ==
  /\ pc = "ignore"
  /\ ignored' = [ignored EXCEPT ![dir] = TRUE]
  /\ pointer' = [pointer EXCEPT ![dir] = @ \cup {"AGENTS.md"}]
  /\ pc' = "user"
  /\ UNCHANGED <<handoff, progress, past, taken, done, dir, batch, text, log>>

(* STEP 1 of publish; a path that does not pass its checks is a StepFails. *)
EnsureIgnored ==
  /\ pc = "ignore"
  /\ ignored' = [ignored EXCEPT ![dir] = TRUE]
  /\ pc' = "user"
  /\ UNCHANGED <<handoff, progress, pointer, past, taken, done, dir, batch, text, log>>

(* Mutant of WriteUser: the user's copy accumulates a history of its own. *)
WriteUserOwn ==
  /\ pc = "user"
  /\ handoff' = [handoff EXCEPT ![Home] =
       [text EXCEPT !.tasks =
          @ \cup (IF handoff[Home] = Missing THEN {} ELSE handoff[Home].tasks)]]
  /\ pc' = "project"
  /\ UNCHANGED <<ignored, progress, pointer, past, taken, done, dir, batch, text, log>>

(* STEP 3, the user's copy.  In the home directory both copies are one file. *)
WriteUser ==
  /\ pc = "user"
  /\ handoff' = [handoff EXCEPT ![Home] = text]
  /\ pc' = "project"
  /\ UNCHANGED <<ignored, progress, pointer, past, taken, done, dir, batch, text, log>>

(* Mutant of WriteProject: the project's copy is written without the history. *)
WriteProjectLatest ==
  /\ pc = "project"
  /\ handoff' = [handoff EXCEPT ![dir] = [text EXCEPT !.tasks = {batch}]]
  /\ pc' = "progress"
  /\ UNCHANGED <<ignored, progress, pointer, past, taken, done, dir, batch, text, log>>

(* STEP 3, the project's copy. *)
WriteProject ==
  /\ pc = "project"
  /\ handoff' = [handoff EXCEPT ![dir] = text]
  /\ pc' = "progress"
  /\ UNCHANGED <<ignored, progress, pointer, past, taken, done, dir, batch, text, log>>

(* Mutant of WriteProgress: the log is replaced by the batch. *)
WriteProgressLatest ==
  /\ pc = "progress"
  /\ progress' = [progress EXCEPT ![dir] = {batch}]
  /\ done' = [done EXCEPT ![dir] = @ \cup {batch}]
  /\ pc' = "verify"
  /\ UNCHANGED <<ignored, handoff, pointer, past, taken, dir, batch, text, log>>

(* STEP 3b. *)
WriteProgress ==
  /\ pc = "progress"
  /\ progress' = [progress EXCEPT ![dir] = log]
  /\ done' = [done EXCEPT ![dir] = @ \cup {batch}]
  /\ pc' = "verify"
  /\ UNCHANGED <<ignored, handoff, pointer, past, taken, dir, batch, text, log>>

(* Both copies are read back and must be equal.  If they are not, the assert
   panics and takes the drain task with it: the process, and with it the hook
   endpoint, goes on. *)
Verify ==
  /\ pc = "verify"
  /\ pc' = IF handoff[Home] = handoff[dir] THEN "agents" ELSE "dead"
  /\ UNCHANGED <<files, past, taken, done, dir, batch, text, log>>

(* STEP 4: the pointer blocks of the directory, then, for a project, those of
   the home directory as far as they can be written. *)
PointAgents ==
  /\ pc = "agents"
  /\ pointer' = [pointer EXCEPT ![dir] = @ \cup {"AGENTS.md"}]
  /\ pc' = "claude"
  /\ UNCHANGED <<ignored, handoff, progress, past, taken, done, dir, batch, text, log>>

PointClaude ==
  /\ pc = "claude"
  /\ pointer' = [pointer EXCEPT ![dir] = @ \cup {"CLAUDE.md"}]
  /\ IF dir = Home THEN Leave("idle") ELSE pc' = "global" /\ UNCHANGED <<dir, text, log>>
  /\ UNCHANGED <<ignored, handoff, progress, past, taken, done, batch>>

PointHome ==
  /\ pc = "global"
  /\ \E written \in IF "io" \in Fault THEN SUBSET Doc ELSE {Doc} :
       pointer' = [pointer EXCEPT ![Home] = @ \cup written]
  /\ Leave("idle")
  /\ UNCHANGED <<ignored, handoff, progress, past, taken, done, batch>>

(* An existing handoff is rewritten in place, keeping its history: its preamble
   when the daemon starts, its Session activity when a read finds nothing new
   (which is not done in the home directory).  First the file is emptied. *)
Refresh(d) ==
  /\ "refresh" \in Fault
  /\ pc = "idle" /\ handoff[d] # Missing
  /\ text' = handoff[d]
  /\ handoff' = [handoff EXCEPT ![d] = Emptied]
  /\ dir' = d
  /\ pc' = "refill"
  /\ UNCHANGED <<ignored, progress, pointer, past, taken, done, batch, log>>

Refill ==
  /\ pc = "refill"
  /\ handoff' = [handoff EXCEPT ![dir] = text]
  /\ Leave("idle")
  /\ UNCHANGED <<ignored, progress, pointer, past, taken, done, batch>>

(* What the drain task was doing is left as it is. *)
CutShort ==
  /\ missed' = IF pc \in Unwritten THEN missed \cup {batch} ELSE missed
  /\ wiped' = IF pc = "refill" THEN wiped \cup {dir} ELSE wiped
  /\ UNCHANGED <<files, captured, taken, done, batch>>

(* A read or a write is refused: `?` ends the event, and nothing retries it. *)
StepFails ==
  /\ "io" \in Fault /\ pc \notin {"idle", "dead", "down"}
  /\ Leave("idle")
  /\ CutShort

Crash ==
  /\ "crash" \in Fault /\ pc # "down"
  /\ Leave("down")
  /\ CutShort

Restart ==
  /\ pc = "down"
  /\ pc' = "idle"
  /\ UNCHANGED <<files, past, taken, done, dir, batch, text, log>>

(***************************************************************************)
(* Everybody else.                                                         *)
(***************************************************************************)

(* `git add -A` in a project takes what .gitignore does not cover. *)
GitAdd(d) ==
  /\ handoff[d] # Missing \/ progress[d] # {}
  /\ captured' = captured \cup ({d} \ { e \in Dir : ignored[e] })
  /\ UNCHANGED <<files, taken, done, missed, wiped, work>>

(* install and refresh, for Codex, write the blocks of the home directory, whether
   there is a handoff or not; uninstall removes them.  They are told apart only
   by what they leave, and go one file at a time. *)
Installer(doc) ==
  /\ pointer' = [pointer EXCEPT ![Home] = IF doc \in @ THEN @ \ {doc} ELSE @ \cup {doc}]
  /\ UNCHANGED <<ignored, handoff, progress, past, taken, done, work>>

(* Somebody, for instance an agent, writes into a handoff. *)
Edit(d) ==
  /\ "edit" \in Fault
  /\ handoff[d] # Missing
  /\ handoff' = [handoff EXCEPT ![d].note = TRUE]
  /\ UNCHANGED <<ignored, progress, pointer, past, taken, done, work>>
-----------------------------------------------------------------------------
Write == EnsureIgnored \/ WriteUser \/ WriteProject \/ WriteProgress \/ Verify

Point == PointAgents \/ PointClaude \/ PointHome

Drain == Distill \/ Write \/ Point \/ Refill

Next ==
  \/ \E d \in Dir : TakeBatch(d) \/ Refresh(d) \/ Edit(d)
  \/ \E p \in Project : GitAdd(p)
  \/ \E doc \in Doc : Installer(doc)
  \/ Drain
  \/ StepFails
  \/ Crash \/ Restart

Spec == Init /\ [][Next]_vars
-----------------------------------------------------------------------------
TypeOK ==
  /\ ignored \in [Dir -> BOOLEAN]
  /\ handoff \in [Dir -> Handoff \cup {Missing}]
  /\ progress \in [Dir -> SUBSET Batch]
  /\ pointer \in [Dir -> SUBSET Doc]
  /\ captured \subseteq Dir /\ missed \subseteq Batch /\ wiped \subseteq Dir
  /\ taken \in [Dir -> SUBSET Batch] /\ done \in [Dir -> SUBSET Batch]
  /\ pc \in {"idle", "distill", "ignore", "user", "project", "progress", "verify",
             "agents", "claude", "global", "refill", "down", "dead"}
  /\ dir \in Dir /\ batch \in 0..MaxBatch
  /\ text \in Handoff /\ log \subseteq Batch

(* No `git add -A`, whenever the user runs it, takes a project's handoff or
   progress log into a commit: ORDER IS LOAD-BEARING (publish/mod.rs:11-15). *)
NothingCaptured == captured \cap Project = {}

(* An agent that follows a pointer block in a project finds a handoff: no crash or
   failure leaves a block in a project where there is none (publish/mod.rs:98-147).
   In the home directory it may find none: install writes the blocks there before
   anything was captured (cli/install.rs:105-113). *)
PointerResolves == \A p \in Project : pointer[p] # {} => handoff[p] # Missing

(* What a project's files accumulate is that project's, although every publish
   also goes through the one user handoff (pipeline.rs:323-345). *)
OwnHistory ==
  \A p \in Project :
    /\ progress[p] \subseteq taken[p]
    /\ handoff[p] # Missing => handoff[p].tasks \cup handoff[p].log \subseteq taken[p]

(* The batches of d that are later than all those ingested for d before them:
   other tools and sessions can bring older ones. *)
Timely(d) == { b \in taken[d] : \A a \in taken[d] : a < b => Second[a] < Second[b] }

(* What a publish once put into a project's handoff and progress log is kept by
   all later ones, completed or not, and by the in-place rewrites that finish:
   both "accumulate" (CHANGELOG.md:14, 19).  Batches that came late never got
   into the log. *)
Remembered ==
  \A p \in Project \ wiped :
    /\ done[p] \cap Timely(p) \subseteq progress[p]
    /\ done[p] # {} /\ ~(pc = "refill" /\ dir = p) =>
         handoff[p] # Missing /\ done[p] \subseteq handoff[p].tasks

(* Whenever the drain task waits for the next event, every batch ingested for a
   project is in its handoff and, unless it came late, in its progress log, but
   for those whose own publish was cut; and the handoff shows the oldest entries
   of the log, as many as it has room for (CHANGELOG.md, 0.1.2: "accumulated
   across all ingests, never deleted"). *)
AllShown ==
  pc = "idle" =>
    \A p \in Project \ wiped :
      LET due == taken[p] \ missed
      IN  /\ due # {} => handoff[p] # Missing /\ due \subseteq handoff[p].tasks
          /\ due \cap Timely(p) \subseteq progress[p]
          /\ progress[p] # {} =>
               handoff[p] # Missing /\ Oldest(progress[p], Room) \subseteq handoff[p].log

(* The receiving ends of the queues go away only when the daemon shuts down
   (hook_endpoint.rs:196-198): no crash, failure or other project's publish
   makes the two copies differ, only somebody's edit of one of them does. *)
DrainAlive ==
  pc = "dead" => \E d \in {Home, dir} : handoff[d] # Missing /\ handoff[d].note
=============================================================================
