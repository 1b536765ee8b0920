# Carryover in TLA+

Carryover captures the conversations of AI coding tools (Claude Code, Cursor,
Codex) into a local SQLite ledger and publishes a *handoff*, a Markdown file the
next tool reads, in the home directory and in the project. This directory holds
TLA+ models of it, the TLC configurations that check them on small instances,
and theorems about them that TLAPS checks for every value of the constants.

Line numbers refer to `src/` of the repository (the crate is in `src/src/`).

## The system

| Part | State it keeps | Operations | Talks to |
| --- | --- | --- | --- |
| Hook endpoint (`daemon/hook_endpoint.rs`) | none | `POST /hook/{tool}/{event}`: validate, queue | sends `HookEvent` to the drain task |
| File-system watcher (`daemon/fs_watcher.rs`) | watched roots, debouncer | report a change, report a rescan | sends `WatchEvent` to the drain task |
| Drain task and pipeline (`cli/start.rs`, `daemon/pipeline.rs`) | nothing of its own between events | `process_hook`, `process_watch`, `ingest`, `distill_and_publish` | adapters, ledger, publisher |
| Adapters (`adapters/*.rs`) | none; a cursor is passed in and out | `read_new_records`, `parse` | the tools' transcripts |
| Ledger (`storage/mod.rs`) | tables `events` and `cursors` | `insert_batch`, `query_session`, `save_cursor`, `load_cursor` | SQLite |
| Distillers (`distill/*.rs`) | none | rows to task, next action, questions, files, progress entries | pure |
| Publisher (`publish/*.rs`) | files: `.gitignore`, two `handoff.md`, `progress.md`, `AGENTS.md`, `CLAUDE.md` | `publish`, `ensure_pointer_block`, `remove_pointer_block` | the file system |
| CLI and installer (`cli/*.rs`, `install/systemd.rs`) | the tools' settings, wrapper scripts, pointer blocks, `config.json`, the service unit | `install`, `refresh`, `uninstall`, `start`, `stop`, `status` | the tools, systemd |
| Tool table (`toolspec/*.rs`) | static | `resolve_hookset` | watcher, installer |

What is hard in it: one drain task serves two queues whose order is not
specified; every event of a tool, whatever project or session it is about, goes
through one stored cursor named `default`; the tool writes its transcript while
it is read; insert, save and publish are separate writes with a crash or an
error possible between any two; the handoffs are read, accumulated and written
back; a rescan throws the cursor away; the user, the user's git and other
agents touch the published files meanwhile; and install, refresh and uninstall
change a dozen files one after the other, which other programs edit as well.
`PROJECT.json` lists these places with their lines under `hazards`.

What makes each part correct, and where it is stated:

| Part | Correct when | Property |
| --- | --- | --- |
| Claude capture | no turn is lost below a cursor, at any step | `CursorBacked`, `WorkBacked` |
| | the ledger is always a union of whole, readable prefixes | `ImplementsCapture` |
| | a shared cursor does not carry one project's text into another's handoff, nor lose its place | `PublishedToOwner`, `KeepsPlace` |
| | a cursor that stays with a transcript takes no row twice, every publish shows the whole session, and turns within reach arrive | `NoRepeat`, `HandoffWhole`, `EventuallyShown`, `EventuallyCaptured` |
| Codex capture | nothing missing below either of two offsets that share one save, neither goes back, the project named is right | `CursorBacked`, `Monotonic`, `KnowsProject` |
| Cursor capture | no prompt of a sliding list is passed over or taken twice | `PromptBacked`, `NoRepeat` |
| Publisher | git never takes a handoff, pointers in projects lead somewhere, histories stay apart and are kept, what is ingested is shown, the drain task survives | `NothingCaptured`, `PointerResolves`, `OwnHistory`, `Remembered`, `AllShown`, `DrainAlive` |
| Pointer block | the user's lines stay, repeated publishes change nothing, uninstalling is clean | `Kept`, `Settles`, `Clean`, `NoGrowth` |
| Sections | every session's task and last answer are listed once, nothing listed goes or moves, what is read twice does not show | `TaskListed`, `NextListed`, `NothingDeleted`, `ListsStand`, `RereadHarmless` |
| Install, refresh, uninstall | however they are cut: hooks can be found again, work, and are repaired; the service goes with them; what others wrote stays | `Tracked`, `Runnable`, `Repaired`, `NoGhost`, `ForeignKept` |

## Modules

```
Capture            what the ledger promises, with no daemon in it
   ^ implemented by (INSTANCE, property ImplementsCapture)
ClaudeIngest       queues, drain task, Claude adapter, ledger, restart
CodexIngest        the same drain task for Codex: two logs, one cursor
CursorIngest       the same for Cursor: lists without ids that slide
Publish            what one publish does to the files, write by write
Sections           what a handoff says: distillers and accumulation
AgentsFile         the block in a file shared with the user
Install            install, refresh and uninstall, the service
```

`MC*` modules hold what the configurations need to instantiate a module: functions
over model values, and symmetry. `*Proofs` modules hold theorems and their
proofs. The three capture modules end where `Publish` begins: what a capture
module calls publishing is one action that records which rows, or which session,
the handoff was made of; what is written, in which order, is `Publish`; what the
handoff then says is `Sections`, for which capture is a cursor and a list of rows,
read again as the capture modules show it can be. `Inductions` holds the lemmas that
the proofs of `Sections` and `AgentsFile` rest on.

### How the model follows the code

**ClaudeIngest.** One action for each step between which the process can die or
the tool can write: `TakeHook`/`TakeWatch` (`process_hook`, `process_watch`),
`Load` (load and the reseed at pipeline.rs:130-181), `ReadNothing`, `ReadLines`,
`ReadPoison`, `ReadRejected` (the four ways `read_new_records` and `parse` can
end), `InsertBatch`, `SaveCursor`, `MergeProjectDir` (271-298), `Publish`. The merge of
`project_dir` into the default cursor ignores its errors: `MergeStored` is what it is
for, `MergeUnread` the load that fails and counts as no cursor, so that the cursor is
overwritten, `MergeUnsaved` the save that fails.
`StepFails` is any `?` on the way; `Crash` loses queues, debouncer and the work
in hand and keeps what is on disk. A transcript is a sequence of lines of four
kinds, which are those the adapter tells apart; byte offsets are line counts;
`tail` is an unterminated last line. `cursor` is the `cursors` table for the
tool, by session id; `dir` in it is the `project_dir` merged into its JSON, and
`Absent`, `Blank` are JSON without a `file_path` and with an empty one, which the
code treats differently. `shown` says which rows a handoff reflects. Shutdown lets
the event in hand finish and drops the queues (start.rs:71-80), which `Crash` does
too; a daemon that starts without a watcher is one that is never notified.
`taken` and `hurt` are history: the rows each session id has inserted of the transcript
it read last, and whether anything befell the daemon (a failing step, a crash, a
rescan, a deletion) that excuses taking rows again.

**CodexIngest.** `Candidate` is `find_codex_session_transcript`. A read is two
steps, `ReadRollout` and `ReadHistory`, as Codex appends between them; `Cut` is a
read that ends inside a line, which fails for the rollout and is ignored for the
history (codex.rs:199-201). Logs are counts of complete lines. Events are not
queued: `Take*` may happen at any time, which is more than the queues allow.

**CursorIngest.** `typed[w]` is all that was ever typed in a workspace, `Listed`
the part the editor still keeps. A mark is the text the adapter stores; `pos`, the
prompt it came from, is there for the properties only, as is `due`, the rows whose
cursor was lost. `Use` reorders the composers, of which one read looks at the
first `MaxScan`.

**Publish.** The drain task's `pc` is between two writes of `publish`, so that a
crash, a refused write, an edit or a `git add -A` comes between any two. A handoff
is the set of batches its Task section lists and the set its Progress log shows.
`Logged` is the dedupe of `build_progress_log`: an entry is added only if it is
later, by the second, than all there are. `Refresh` and `Refill` are the two
halves of `std::fs::write` on an existing handoff. `Installer` is install, refresh and
uninstall as far as they write or remove the blocks of the home directory
(cli/install.rs:104-113), which they do whether there is a handoff or not; the commands
themselves are `Install`. Two history variables record
what the code gives up: `missed`, the batches whose publish was cut before the
project's files held them, which nothing repeats (the cursor is saved before), and
`wiped`, the directories whose history was lost on another way.

**Sections.** A record is its role, the form of its content, its lines and the
files it touches; a line is a model value of which the instance says what the
distillers would find in it (`Asked`, `Retrying`, `Failing`), and `Brief` are the whole
texts that are too short for a task, of one line or of several (task.rs:36). `Task`,
`NextAction`, `OpenQuestions`, `FailedApproaches` and `RecentFiles` are the
functions of `distill/` on rows in the order `Query` gives them; `Accumulate` is
`accumulate_section`; `Publish` is `distill_and_publish`. The properties do not use
the ledger: they state what the handoff has to say of the transcript (`Told`).

**Install.** `Begin` starts one of the three commands; `Scripts`, `Read`, `Write`,
`Blocks` deal with one tool (hooks_writer.rs), `Save` to `Enable` are the rest of
install, `Disable` to `Purge` the rest of uninstall. `Cut` is an error or a kill
between any two; `Tear` one within the in-place write of Codex's file. `Edit` and
`Break` are the user or the tool in the same file, `Start` and `Stop` the service
manager. `ours` is the form of the hook in a file: the current one, or the two
that older versions wrote, of which uninstall does not know the bare one of
Claude Code. `rival` is something else in the place where the hook goes: Cursor's
one entry for an event, or a `notify` of Codex's that is not an array. `strayed`
is history: what a command left behind although `config.json` does not name it.

**AgentsFile.** `Ensured` and `Removed` are `build_new_content` and
`remove_pointer_block` on lines; `WriteLine` and `DeleteLine` are the user.

Every module ends with its properties. Definitions marked as mutants stand before
the definition they mutate; nothing but `PROJECT.json` refers to them. Each shows
what bug in that definition breaks a property of the run it is listed for.

## Runs

| Run | Distinct states | Shows |
| --- | --- | --- |
| `ingest_crash` | 934,136 | capture under crashes, failures, rescans, deletion, long and unparsable lines |
| `ingest_shared` | 2,388,574 | two projects and two session ids through one default cursor, with rescans and failing steps |
| `ingest_live` | 67,480 | two transcripts of a project and more lines than one read takes: turns within reach of a hook are shown, those the watcher is led to captured |
| `codex_rollouts` | 2,338,831 | two rollouts and the history, with failures, rescans and deletion |
| `cursor_prompts` | 297,034 | sliding lists in two workspaces, with crashes, failures and rescans |
| `publish_faults` | 1,374,988 | crash, refused write, edit, in-place refresh, `git add` or the installer between any two writes |
| `sections` | 257,888 | what handoffs say while sessions take turns, records come twice and publishes are cut |
| `install` | 2,960,910 | three commands over three tools, cut anywhere, over shared files |
| `agents_file` | 3,310 | the user edits between publishes and uninstalls |
| `poison_blocks`, `cursor_repeat`, `codex_misrouted` | violations | see below |

Bounds, and why they are enough:

- `Cap` is smaller than `MaxLines` (2 and 3) where the cap matters, so that a
  backlog takes more than one read, a read starts in the middle, and a third line
  follows what the first two did. Whether a bigger backlog differs is not left to
  the bound: the proofs hold for all.
- `MaxQueue` is 1 or 2 per channel: the two channels already let a hook and a
  watch event overtake each other; a longer queue repeats what one event does.
- Two projects, two transcripts, two sessions (`ingest_shared`): sharing needs
  two of each; `HyphenInP2` makes the second project's slug undecodable, as it is
  for any path with a hyphen. Lines are cut to one each there.
- Two transcripts of one project, two lines each and a cap of one (`ingest_live`): the
  newest of the two changes under the daemon, and a turn can be beyond the next read.
  Crashes and rescans are left out there: `InReach` ends with a crash, and what a
  rescan costs is the same as a first read.
- `Keep = 2`, three prompts in one workspace and one in the other
  (`cursor_prompts`): the list loses its head, with the mark in it, and two
  composers share a workspace. `MaxScan = 2` of three composers leaves one unread.
- The first rollout has three lines over a cap of two; the second needs its first
  line only, to be pointed at (`Longer`); the history has a prompt of each session.
- Three batches over two projects (`publish_faults`): one batch publishes, one
  accumulates, one comes for the other project between them. `Tied` gives the
  second the same second as the first. `Room` is 1, so the log is cut as soon as
  it has two entries. No two handoffs carry an edit at once, and the home directory's
  `.gitignore` covers `.carryover/` from the start (`Bounds`): one edited copy is what
  `DrainAlive` is about, and `NothingCaptured` is about projects.
- Two sessions of up to three records and of one, three together (`sections`):
  one session is interrupted by the other, which says a prompt or an answer, and goes
  on. The five kinds of records
  are a prompt, a trifle of two lines, answers with a closed and with an open fence, and a turn
  of tool calls only; the first two stamps are alike. One row more than the
  transcript has (`MaxRepeat`) is enough to duplicate any record; the caps of two
  and one are reached.
- Three commands over the three tools (`install`): what one leaves, the next finds
  and the third repairs or removes. Only Codex's file is edited by others
  meanwhile: it is the one that is torn and the one that is refused; the others'
  files may hold anything at the start.
- Three lines of the user's and up to eleven lines (`agents_file`): text before,
  behind and between, and room for blank lines to pile up if they did.

Symmetry is used only where no model value is singled out and no liveness is
checked. `CHECK_DEADLOCK FALSE` stands where a run stops when its bounds are used
up.

**Fairness** (`ingest_live`, `poison_blocks`). Weak fairness of the
steps of an event that was taken (`Ingest`): the drain task goes on with it for as long
as the process lives. Strong fairness of `TakeHook` and of `TakeWatch`: the loop takes
one event after the other, and `select!` draws at random among the queues that are
ready (cli/start.rs:59-68), so that neither is passed over forever. Weak fairness of
the debouncer's timer (`Notify(FALSE)`). Nothing is assumed of tools, hooks, rescans,
restarts or the user. Both properties end with what puts the turn out of reach
(`InReach`): the daemon dies, another transcript of the directory becomes the newest,
or more than a read's worth of lines is in front of it. These are the limits of the
code: nothing reads on after a read that stopped at the cap, and nothing looks at a
transcript that is not the newest. `EventuallyCaptured` also ends when the default
cursor is led elsewhere (`Followed`).

### Disagreements found

Three runs expect a violation; `findings` in `PROJECT.json` quotes the lines.

1. `poison_blocks`: one record without a `sessionId` makes `parse` fail, the
   cursor stays in front of it, and nothing after it is ever captured, while
   claude.rs:182-183 says that a bad line does not block the transcript.
2. `cursor_repeat`: a prompt that repeats the text of the mark hides itself and
   all typed before it since the last read.
3. `codex_misrouted`: the history has all sessions' prompts, and the session of
   the first one is published to whatever project the rollout belongs to.

Four more are built into the models and into what the properties say, without a run:

- A hook with a session id of its own that cannot load the default cursor takes it for
  empty and saves `project_dir` over it (`MergeUnread`, pipeline.rs:284-289). The comment
  at 271-274 says "overwriting would clobber file_path/byte_offset and force a re-read".
  `KeepsPlace` excepts this step and no other failure.
- A task that is listed anywhere stays where it is (`Accumulate`). The doc comment of
  `accumulate_section` (pipeline.rs:563-566) compares with the most recent entry only,
  so that A, B, A would list A twice, and the preamble calls the list newest first
  (publish/handoff.rs:62); the comment in the body (596-599) and CHANGELOG.md:19 say
  what the code does, and `TaskListed` and `NothingDeleted` with them.
- Of the last answer the Next action section keeps the first line outside code
  (pipeline.rs:594). next_action.rs:1, 11 and 19-22 and ARCHITECTURE.md:146, 186
  promise the final sentence, CHANGELOG.md:44 the full last response; `NextListed` is
  about what the code lists: the right answer, not all of it.
- Without hooks, watch events read the transcript that the default cursor points at,
  and no other, whatever the watcher saw written (pipeline.rs:94-96, 130-181).
  ARCHITECTURE.md:467 has the watcher pick up all writes while the endpoint is down.
  `Followed` in `EventuallyCaptured` says how far it does.

Others the models show by a change of one constant; no run is spent on them:

- `ingest_shared` with `HookFirst = TRUE`: `PublishedToOwner` fails. A hook from a
  directory without a transcript keeps the other project's cursor
  (pipeline.rs:166-178) and publishes that project's session here. The same with
  `Decoded` mapping a project to another one: `/a/b-c` and `/a/b/c` have one slug.
- `ingest_shared` with `"delete"` among the faults, a line more and `Cap = 1`:
  `KeepsPlace` and `PublishedToOwner` fail. If the transcript a hook is pointed at
  is deleted before it is read, the adapter starts the newest one of any project
  over (claude.rs:114-136), and the batch is published here.
- `agents_file` with `Breaks = TRUE`: all four fail. With the END line deleted,
  the next publish appends a second block and the one after that replaces all from
  the first START to the new END, with the user's text in between.

Others stand in the properties as exceptions, each as narrow as the code allows:

- `AllShown` excepts `missed`: a publish that is cut after its cursor was saved is
  not repeated.
- `Remembered` excepts `wiped`. A crash in the middle of an in-place rewrite
  (pipeline.rs:456, 513) leaves an empty handoff, and the task history is gone; and
  a history that cannot be read is taken for an empty one (`unwrap_or_default`,
  pipeline.rs:328-341).
- `AllShown` has the handoff show the *oldest* entries of the progress log, for the
  cap cuts the end, where the newest are.
- `NoRepeat` is about a cursor that stays with one transcript. When the default cursor
  is pointed at another one, of another project or a new session, and comes back, it
  starts at offset 0 (pipeline.rs:164-173), and every row is inserted once more; so it
  is when two session ids read one transcript. Nothing looks for rows inserted before.
- `EventuallyShown` is about the home handoff. A watch event ingested for home may take
  a project's turn and publish it there only; the project's hook then finds nothing new
  and the project's handoff does not get it until the next turn.
- `PointerResolves` is about projects: install writes the blocks of `~/AGENTS.md` and
  `~/CLAUDE.md` before there is a handoff (cli/install.rs:104-113).
- `DrainAlive` excepts an edit between the two writes and the comparison
  (publish/mod.rs:108-113): it panics the drain task; the endpoint goes on
  answering 200.
- `HandoffWhole` is about batches with rows. One of skipped lines only is distilled
  from the session the hook named (pipeline.rs:316-319), which the ledger may not
  know: the handoff is then made of nothing but what it said before.
- `Tracked` excepts `strayed`. install saves `config.json` last, so one that is cut
  leaves hooks that no uninstall looks for; an install with fewer tools leaves the
  others' hooks; uninstall overlooks a file that does not parse and the bare form
  that older versions wrote for Claude Code. CHANGELOG.md:71 says "removes all
  hooks".
- `NoGhost` lets a daemon serve less than is configured: a second install does not
  restart it, so that the tools it adds are not served until something else does.
- `ForeignKept` excepts files that do not parse, which count as empty
  (hooks_writer.rs, against line 63: "Entries from other tools or plugins in the
  same array are preserved"), what is written between `Read` and `Write`, and what
  is in the place of the hook, which install replaces and uninstall does not bring
  back.

Met while reading, outside the models:

- a rescan resets the default cursor before the project is inferred from it, so
  that it is always ingested for home (pipeline.rs:82-89, against the comment at
  91-93; `TakeWatch` does the same);
- a reseed of the Codex cursor drops `history_offset`, so every change of session
  inserts the whole history again (205-212); a Codex backlog over 64 MiB is never
  read, since a read that ends in a line fails (the test at codex.rs:773-816
  accepts the error);
- Cursor's old-schema reader compares message ids as strings (cursor.rs:516-560):
  one that sorts before the last one read is never emitted;
- `extract_git_context` is "for the project directory" (git_context.rs:1) and is
  called with the home directory (pipeline.rs:363);
- the task is the first prompt of the session, not its "latest substantial user
  turn" (task.rs:1);
- open questions are told apart before they are cut, so that two bullets may read
  alike; failed approaches look for a role `tool_result` that no adapter writes;
- config.rs:4-5 says that refresh rewrites `config.json`, ARCHITECTURE.md that it
  re-runs the picker: it does neither.

## Theorems

All are proved by TLAPS for every value of the constants that satisfies the
assumption named in the module; TLC evaluates those assumptions in the runs.

| Module | Theorems | Inductive invariant |
| --- | --- | --- |
| `ClaudeIngestProofs` | `TypeCorrect`, `NoTurnLost`, `WorkNeverSkips`, `Refinement`, `WholeSession`, `PlaceKept`, `OwnerOnly`, `OnceEach` | `TypeOK /\ CursorBacked /\ WorkBacked`; with it `Standing /\ Ahead` for `PlaceKept`, `Sharing` for `OwnerOnly`, `Unhurt` for `OnceEach` |
| `PublishProofs` | `PublishTypeCorrect`, `NeverCaptured`, `PointersResolve`, `HistoriesApart`, `NothingForgotten`, `EverythingShown`, `DiesByEditOnly` | `TypeOK /\ Covered /\ Pointed /\ Own`; `Keep` for what is kept and shown; `Compared` for the last |
| `CursorIngestProofs` | `CursorTypeCorrect`, `NeverTwice`, `NonePassedOver` | `TypeOK /\ Ahead /\ Below /\ NoRepeat`, and `Distinct /\ Backed` for the last |
| `CodexIngestProofs` | `CodexTypeCorrect`, `NothingMissing`, `NamesItsProject`, `NeverBack` | `TypeOK /\ CursorBacked /\ KnowsProject /\ InHand` |
| `InstallProofs` | `TypeCorrect`, `HooksTracked`, `HooksRunnable`, `CommandsRepair`, `ServiceGoes`, `OthersKept` | `IInv`: the invariants of the run with `Control`, `Seen`, `Cleared`, `Placed`, `Quiet` |
| `AgentsFileProofs` | `Forming`, `Keeping`, `Settling`, `Cleaning`, `NoGrowing` | `IInv`: `Whole /\ Kept /\ Once(mine)` |
| `SectionsProofs` | `EntriesStay`, `HandoffTyped`, `PromptsListed`, `AnswersListed`, `RereadsDoNotShow`, `ListsGrow` | `Lists` for the first; `Handoff`, that is `Ledgers /\ SheetOK /\ Listed /\ Reflects`, for the others |
| `Inductions` | lemmas only: induction over numbers, sequences and folds | |

- *Claude.* `CursorBacked` is not inductive: `SaveCursor` stores the cursor in hand,
  so `WorkBacked` says that its batch is in the ledger by then. Every step only adds
  lines and rows (`Grows`), and what is backed stays so (`BackedStable`). For the
  refinement, `InsertBatch` is `CatchUp(pos.at, pos.off)`: what is below `from` is in
  the ledger already. All other steps write a line or stutter.
- *Sharing.* `Standing` says that cursors point into transcripts that are there,
  `Ahead` that the cursor in hand is the stored one or elsewhere. For the routing,
  `Announced` says that whatever names a project (a hook, a `project_dir`, the work in
  hand) names one with a transcript, and `Aged` that such a project has a newest one,
  so that reading for it starts there (`OfOwner`). `PlaceKept` assumes that no
  transcript is deleted, and its property excepts a rescan and `MergeUnread`; `OwnerOnly` also that `HookFirst` is false and that a slug
  decodes to its own directory or none: without any of these it is false (see above).
- *No row twice.* `OnceEach` assumes nothing: any projects, transcripts and session ids.
  The code does not look for duplicates when it inserts; what keeps rows apart is that a
  cursor only moves ahead in its transcript. `Unrepeated` says that the rows taken of
  the transcript in the stored cursor lie below it, or below the end of the batch in
  hand once that is inserted; `Unhurt`, that this holds, with `Standing` and `Ahead`,
  until something befalls the daemon, and that nothing is recorded afterwards.
- *Publish.* `Covered` adds that `.gitignore` covers what is about to be written;
  `Pointed` that the handoff is there once its step is past (a project's blocks are
  written behind it, the installer's are in no project); `Own` that the text in
  hand is of the project's batches. `Keep` says that the text about to be written has
  all that was ever published, which rests on batches being numbered as they come.
  `Compared` says that the two copies are equal from their writing to the
  comparison unless one of them carries a note.
- *Cursor.* `Ahead` relates the cursor in hand to the stored one, `Below` says where
  inserted rows lie. `NonePassedOver` assumes `~Repeat`; `cursor_repeat` shows why.
- *Codex.* `InHand` says that the cursor in hand starts from the stored one unless
  pointed elsewhere, only moves ahead, and is backed once the batch is inserted.
- *Install.* A command is many steps, so the invariant says what it has achieved so
  far: `Cleared` and `Placed` that what uninstall has dealt with is unhooked or
  recorded, and what install has dealt with is in place; `Seen` that the hook read is
  still the hook in the file, for only commands touch hooks; `Control` which step
  belongs to which command and what `config.json` says meanwhile; `Quiet` that nothing
  runs once the service manager has answered. `OthersKept` is an action property
  and takes from it that a file's turn is one tool's at a time.
- *Agents file.* `Whole` says that the file is text without a block, or text, one block
  and text; publishing and uninstalling are computed for each form (`RemovedText`,
  `RemovedWith`). `Once(mine)`, which holds since the user writes each line once, makes
  the order of the user's lines comparable. The theorems assume `~Breaks`, that the
  user does not delete a line of the block: with its end line gone the next publish
  adds a block, and the one after that takes everything from the old start line to the
  new end line for the block (pointer.rs:110-149); then none of the four holds. `Only`,
  by which the properties tell the user's lines from the block's, is shown to
  distribute over concatenation.
- *Sections.* The rows that a query returns are `Telling`: every record has a row,
  behind every row there is one of each later record, and before it one of each
  earlier. From this alone, what a distiller makes of the rows, each value once, is
  what it makes of the records (`Distinct` and `FlattenSeq` of the ones and of the
  others are equal, and so is what a cap leaves of them). That `strip_code_fences`
  leaves the lines outside fences is shown line by line (`Strip` against `Outside`).
  `Ledgers` says that the ledger holds a prefix of each transcript, in which each
  record is behind the one before it; `Listed`, that tasks and answers were put on the
  sheet; `Reflects`, that the other sections are those of the session published last.
  The module assumes that stamps of a session are not set back, which
  the query's order rests on. They are the tools' own for Claude Code and rollouts;
  for the history of Codex, in seconds (codex.rs:290), and for Cursor's prompts past the
  end of its list (cursor.rs:474) the adapters make do with a coarser one, which may put
  a later record before an earlier one. It also assumes that a line cut to a task is
  never the value that stands for no task.
- *Induction.* The library's induction theorems take an operator and cannot be used.
  `Inductions` does it with sets: a set of numbers has a least element (`LeastOf`, from
  `WFMin`), a set that has 0 and each successor is all of `Nat` (`Counting`), a set of
  sequences closed under `Append` is all of them (`SeqInduction`). Folds are
  defined by a chosen function, which is shown to exist (`FoldExists`) and then to obey
  its equations.

Every property of the passing runs is stated by a theorem but the liveness
properties, `EventuallyCaptured` and `EventuallyShown`: fairness is beyond this prover.
Only model-checked, too, are the runs in which a property is to be violated, and what
the runs check outside the hypotheses named above.

## What the models leave out

- Bytes: offsets are counts of complete lines, and a line takes one unit of the
  cap unless it does not fit at all.
- Wording: which sentence of a line is the task, how a line is cut for a list of
  failed approaches, the Markdown around the entries, and a task or next action that
  begins with `<no `, which is never listed.
- Symlinked working directories, the check that a transcript lies under the tool's
  root, modes and temporary files of `write_atomic`: a write happens or fails.
- `Sections.Insert` takes all that is new at once: the cap of a read is in the capture
  modules. Timestamps that go back in a session (see the theorems) are not in the runs.
- `Publish`: uninstall with `--purge` removes `~/.carryover`, the home handoff in it.
- A transcript with more than one session id in it; a failing reset at a rescan;
  the panic of `Publish` inside the capture modules.
- Codex: lines of the history that make no row; a first line that changes between
  the read of the history and the peek; `last_event_seq`, which nothing reads; the
  limit of 20 candidates.
- Cursor: the old schema, timestamps (which are looked up at the number of prompts
  read, cursor.rs:474), attribution to composers, and the folder a batch is published
  to (that of the composer used last, cursor.rs:419).
- Cursor's wrapper script, whose flag keeps a session's handoff from being injected
  twice: it is tested and then created, by a shell script per prompt
  (hooks_writer.rs:212).
- The watcher's roots: those that do not exist when the daemon starts are never
  watched (fs_watcher.rs:153); their tools are captured by hooks only.
- The endpoint's validation, which turns a request into a hook, possibly without a
  directory, or into none.
- `git_context` and the scan for recent activity, whose result `Sections` takes as
  it comes.
- `Install`: the several events of a tool stand for one hook; permissions, symlink
  checks and directories are a step that fails.
- Session window and version ranges (`session_window.rs`, `resolve_hookset`), which no
  command or daemon code calls, and `status`, which changes nothing.
- The home directory's copies are written where no `.gitignore` is expected:
  `NothingCaptured` is about projects.
- `AgentsFile`: markers that are indented or share a line with text, and an edit
  between the read and the rewrite, which is lost.

## Plan

Done, in this order: `Capture`, `ClaudeIngest` and its proofs; `Publish` and its
proofs; `CursorIngest`, `CodexIngest` and theirs; `AgentsFile`; `Install` and its
proofs; `Sections`; `Inductions`, and with it the proofs of `Sections` and
`AgentsFile`; `NoRepeat` of `ClaudeIngest`; what the watcher and a failing merge do to
the default cursor; the installer in `Publish`.

Next:

1. `CursorIngest`: the folder a batch is published to, timestamps by index, and the
   old schema's comparison of ids.
2. `CursorInject`: the wrapper's flag between two prompts and a stop hook.
3. Watch roots that appear after the start, with a tool installed later.
4. Proofs of what these add. That `CodexIngest` and `CursorIngest` implement a
   ledger like `Capture`.
