------------------------------ MODULE Sections ------------------------------
(***************************************************************************)
(* What one project's handoff says (src/src/distill, with the sections of  *)
(* distill_and_publish, src/src/daemon/pipeline.rs).  Sessions of several  *)
(* tools take turns in the project.  What is new in a session's transcript *)
(* is inserted into the ledger, the cursor is saved, and the handoff is    *)
(* made anew from all rows the ledger has of the session; the Task, Next   *)
(* action and Session activity sections also take in what the handoff said *)
(* before.  A crash between insert and save, or a rescan, makes the daemon *)
(* read records again, so the ledger may hold a record several times; a    *)
(* publish that is cut is not repeated.                                    *)
(*                                                                         *)
(* Which files a publish writes, and where it can be cut, is in Publish.   *)
(***************************************************************************)
EXTENDS Naturals, FiniteSets, Sequences, SequencesExt

CONSTANTS
  Session,       \* sessions of the tools in the project
  Line, Fence,   \* lines of text; Fence is one that starts with backquotes
  Brief,         \* whole texts of less than ten bytes, of one line or of several
  Asked,         \* Asked[l]: the questions and TODOs that line l holds, in order
  Retrying,      \* lines with a phrase of RETRY_PATTERNS
  Failing,       \* lines with a word of ERROR_INDICATORS
  TaskCut,       \* TaskCut[l]: line l cut to MAX_TASK_CHARS
  QuestionCut,   \* QuestionCut[q]: question q cut to MAX_BULLET_CHARS
  Path,          \* files that tools touch
  Record,        \* what transcripts consist of
  Stamp,         \* Stamp[s][i]: the timestamp of the ith record of s
  Activity,      \* what a scan of the project's files can report
  None,          \* no task, no next action, no activity, no session
  MaxQuestions, MaxFailed, MaxPaths,  \* MAX_OPEN_QUESTIONS, ..._APPROACHES, ..._FILES
  MaxRecords,    \* bound: records of all transcripts together
  Limit,         \* bound: Limit[s] of them are of s
  MaxRepeat,     \* bound: rows of one session that the ledger holds beyond Limit[s]
  Fault          \* which of "cut", "rescan" happen

Question == UNION { ToSet(Asked[l]) : l \in Line }

(* The content of a row: plain text, a JSON array with a text block, or one
   without.  `calls` and `paths`: its tool calls and the files they touch. *)
RecordType ==
  [role : {"user", "assistant", "tool_result"}, form : {"plain", "text", "tools"},
   text : Seq(Line), calls : BOOLEAN, paths : SUBSET Path]

(* A tool's clock is not set back in a session; it may stamp several records
   alike. *)
ASSUME SectionsAssumption ==
  /\ Fence \in Line /\ Brief \subseteq Seq(Line) /\ Retrying \subseteq Line /\ Failing \subseteq Line
  /\ DOMAIN Asked = Line /\ \A l \in Line : Asked[l] \in Seq(Question)
  /\ DOMAIN TaskCut = Line /\ DOMAIN QuestionCut = Question
  /\ Record \subseteq RecordType
  /\ \A r \in Record : r.paths # {} => r.calls
  /\ MaxQuestions \in Nat /\ MaxFailed \in Nat /\ MaxPaths \in Nat
  /\ MaxRecords \in Nat /\ MaxRepeat \in Nat
  /\ Limit \in [Session -> 0..MaxRecords]
  /\ Stamp \in [Session -> [1..MaxRecords -> Nat]]
  /\ \A s \in Session, i, j \in 1..MaxRecords : i < j => Stamp[s][i] <= Stamp[s][j]
  /\ IsFiniteSet(Path)
  /\ None \notin Activity /\ None \notin Session
  /\ \A l \in Line : TaskCut[l] # None /\ <<l>> # None /\ <<"Continue", l>> # None
  /\ Fault \subseteq {"cut", "rescan"}

VARIABLES
  said,    \* said[s]: the transcript of s
  mark,    \* mark[s]: the cursor, the number of records read of s
  ledger,  \* ledger[s]: the numbers of the records inserted, in that order
  sheet,   \* the project's handoff
  shown,   \* history: shown[s] records of s had been inserted when s was last
           \* published
  pc, cur  \* what the drain task does next, and for which session

vars == <<said, mark, ledger, sheet, shown, pc, cur>>
-----------------------------------------------------------------------------
(***************************************************************************)
(* The distillers.  Each takes the rows of a session, oldest first.        *)
(***************************************************************************)

Plain(rows, role) == { i \in DOMAIN rows : rows[i].role = role /\ rows[i].form = "plain"
                                            /\ rows[i].text # << >> }
Least(S)    == CHOOSE i \in S : \A j \in S : i <= j
Greatest(S) == CHOOSE i \in S : \A j \in S : j <= i

(* strip_code_fences, line by line: what is held back inside a fence is dropped
   when it is closed and given back when it is not. *)
FenceStep(st, l) ==
  IF l = Fence THEN [st EXCEPT !.held = << >>, !.inside = ~@]
  ELSE IF st.inside THEN [st EXCEPT !.held = Append(@, l)]
  ELSE [st EXCEPT !.kept = Append(@, l)]

(* Mutant of Strip: what an unclosed fence hides stays hidden. *)
StripsUnclosed(text) ==
  FoldLeft(FenceStep, [kept |-> << >>, held |-> << >>, inside |-> FALSE], text).kept

Strip(text) ==
  LET end == FoldLeft(FenceStep, [kept |-> << >>, held |-> << >>, inside |-> FALSE], text)
  IN  end.kept \o end.held

(* Mutant of Task: a trifle will do. *)
TaskOrTrifle(rows) ==
  LET prompts == Plain(rows, "user")
  IN  IF prompts = {} THEN None ELSE TaskCut[Head(rows[Least(prompts)].text)]

(* extract_task: the first line of the first prompt that is not, as a whole, a
   trifle. *)
Task(rows) ==
  LET prompts == { i \in Plain(rows, "user") : rows[i].text \notin Brief }
  IN  IF prompts = {} THEN None ELSE TaskCut[Head(rows[Least(prompts)].text)]

(* extract_next_action: the last answer that says something outside its code; a
   tool whose answers are not stored leaves only the last prompt.  Of several
   lines the section takes the first. *)
NextAction(rows) ==
  LET answers == { i \in DOMAIN rows :
                     rows[i].role = "assistant" /\ rows[i].form # "tools"
                     /\ Strip(rows[i].text) # << >> }
      prompts == Plain(rows, "user")
  IN  IF answers # {} THEN <<Head(Strip(rows[Greatest(answers)].text))>>
      ELSE IF prompts # {} THEN <<"Continue", Head(rows[Greatest(prompts)].text)>>
      ELSE None

(* Mutants of Distinct: no cap; nothing told apart; the latest items kept. *)
Uncapped(items, n) ==
  FoldLeft(LAMBDA acc, x : IF Contains(acc, x) THEN acc ELSE Append(acc, x), << >>, items)
Repeating(items, n) ==
  FoldLeft(LAMBDA acc, x : IF Len(acc) < n THEN Append(acc, x) ELSE acc, << >>, items)
LatestDistinct(items, n) ==
  LET Push(acc, x) == IF Contains(acc, x) THEN acc
                      ELSE IF Len(acc) < n THEN Append(acc, x) ELSE Append(Tail(acc), x)
  IN  FoldLeft(Push, << >>, items)

(* push_bullet: each item once, and no more than n. *)
Distinct(items, n) ==
  LET Push(acc, x) == IF Len(acc) < n /\ ~Contains(acc, x) THEN Append(acc, x) ELSE acc
  IN  FoldLeft(Push, << >>, items)

(* The questions that a row asks, in its prose. *)
Asks(r) ==
  IF \/ r.role = "user" /\ r.form = "plain"
     \/ r.role = "assistant" /\ r.form # "tools"
  THEN FlattenSeq([i \in DOMAIN r.text |-> Asked[r.text[i]]])
  ELSE << >>

(* extract_open_questions: questions are told apart before they are cut. *)
OpenQuestions(rows) ==
  LET all == Distinct(FlattenSeq([i \in DOMAIN rows |-> Asks(rows[i])]), MaxQuestions)
  IN  [i \in DOMAIN all |-> QuestionCut[all[i]]]

(* What a row says of a failure: its first line, or the whole of an array, which is
   one line. *)
Fails(r) ==
  LET Has(words) == \E i \in DOMAIN r.text : r.text[i] \in words
  IN  IF \/ r.role = "tool_result" /\ Has(Failing)
         \/ r.role = "assistant" /\ Has(Retrying)
      THEN <<IF r.form = "plain" THEN <<Head(r.text)>> ELSE r.text>>
      ELSE << >>

(* extract_failed_approaches: that a line is cut for the list is left out. *)
FailedApproaches(rows) ==
  IF \A i \in DOMAIN rows : ~rows[i].calls THEN << >>
  ELSE Distinct(FlattenSeq([i \in DOMAIN rows |-> Fails(rows[i])]), MaxFailed)

(* extract_recent_files: the latest first, those of one row in any order. *)
Touched(rows) == UNION { rows[i].paths : i \in DOMAIN rows }
LastTouch(rows, f) == Greatest({ i \in DOMAIN rows : f \in rows[i].paths })

RecentFiles(rows) ==
  LET Sorted(l) == \A i, j \in DOMAIN l : i < j => LastTouch(rows, l[i]) >= LastTouch(rows, l[j])
      all       == { l \in SetToSeqs(Touched(rows)) : Sorted(l) }
  IN  { SubSeq(l, 1, IF Len(l) < MaxPaths THEN Len(l) ELSE MaxPaths) : l \in all }
-----------------------------------------------------------------------------
(***************************************************************************)
(* The handoff.                                                            *)
(***************************************************************************)

(* No handoff: its sections read as empty. *)
Blank == [from |-> None, task |-> << >>, next |-> << >>, questions |-> << >>,
          failed |-> << >>, files |-> << >>, activity |-> None]

(* Mutant of Accumulate: an old entry is moved to the top. *)
AccumulateMoves(section, value) ==
  IF value = None THEN section
  ELSE <<value>> \o SelectSeq(section, LAMBDA v : v # value)

(* accumulate_section: what is new goes on top; what the section has already,
   anywhere, stays where it is. *)
Accumulate(section, value) ==
  IF value = None \/ Contains(section, value) THEN section ELSE <<value>> \o section

(* query_session: the rows of s by timestamp, those with the same one in the
   order in which they were inserted. *)
Query(s) ==
  LET Before(i, j) == LET a == Stamp[s][ledger[s][i]]  b == Stamp[s][ledger[s][j]]
                      IN  a < b \/ (a = b /\ i < j)
      Rank(i) == Cardinality({ j \in DOMAIN ledger[s] : Before(j, i) })
      Nth(k)  == CHOOSE i \in DOMAIN ledger[s] : Rank(i) = k - 1
  IN  [k \in DOMAIN ledger[s] |-> said[s][ledger[s][Nth(k)]]]

Init ==
  /\ said = [s \in Session |-> << >>]
  /\ mark = [s \in Session |-> 0]
  /\ ledger = [s \in Session |-> << >>]
  /\ sheet = Blank
  /\ shown = [s \in Session |-> 0]
  /\ pc = "idle" /\ cur = None

(* A tool writes a record into the transcript of s. *)
Say(s, r) ==
  /\ Len(said[s]) < Limit[s]
  /\ Cardinality({ p \in Session \X (1..MaxRecords) : p[2] \in DOMAIN said[p[1]] }) < MaxRecords
  /\ said' = [said EXCEPT ![s] = Append(@, r)]
  /\ UNCHANGED <<mark, ledger, sheet, shown, pc, cur>>

(* What is new in the transcript of s is inserted, in one transaction. *)
Insert(s) ==
  /\ pc = "idle"
  /\ mark[s] < Len(said[s])
  /\ Len(ledger[s]) + Len(said[s]) - mark[s] <= Limit[s] + MaxRepeat
  /\ ledger' = [ledger EXCEPT ![s] = @ \o [i \in 1..(Len(said[s]) - mark[s]) |-> mark[s] + i]]
  /\ pc' = "save" /\ cur' = s
  /\ UNCHANGED <<said, mark, sheet, shown>>

(* The cursor is saved behind what was inserted. *)
SaveCursor ==
  /\ pc = "save"
  /\ mark' = [mark EXCEPT ![cur] = ledger[cur][Len(ledger[cur])]]
  /\ pc' = "publish"
  /\ UNCHANGED <<said, ledger, sheet, shown, cur>>

(* distill_and_publish: a scan that reports nothing leaves the activity as it
   was. *)
Publish ==
  /\ pc = "publish"
  /\ LET rows == Query(cur) IN
     \E files \in RecentFiles(rows), scan \in Activity \cup {None} :
       sheet' = [from      |-> cur,
                 task      |-> Accumulate(sheet.task, Task(rows)),
                 next      |-> Accumulate(sheet.next, NextAction(rows)),
                 questions |-> OpenQuestions(rows),
                 failed    |-> FailedApproaches(rows),
                 files     |-> files,
                 activity  |-> IF scan = None THEN sheet.activity ELSE scan]
  /\ shown' = [shown EXCEPT ![cur] = Greatest(ToSet(ledger[cur]))]
  /\ pc' = "idle" /\ cur' = None
  /\ UNCHANGED <<said, mark, ledger>>

(* A read finds nothing new: refresh_session_activity replaces that section of
   an existing handoff, or puts one in. *)
RefreshActivity ==
  /\ pc = "idle" /\ sheet # Blank
  /\ \E s \in Session : mark[s] = Len(said[s])
  /\ \E scan \in Activity : sheet' = [sheet EXCEPT !.activity = scan]
  /\ UNCHANGED <<said, mark, ledger, shown, pc, cur>>

(* The daemon dies and is started again, or an error ends the event before the
   handoff is written; nothing is tried again. *)
CutShort ==
  /\ "cut" \in Fault /\ pc # "idle"
  /\ pc' = "idle" /\ cur' = None
  /\ UNCHANGED <<said, mark, ledger, sheet, shown>>

(* A rescan forgets the cursor. *)
Rescan(s) ==
  /\ "rescan" \in Fault /\ pc = "idle"
  /\ mark' = [mark EXCEPT ![s] = 0]
  /\ UNCHANGED <<said, ledger, sheet, shown, pc, cur>>
-----------------------------------------------------------------------------
Next ==
  \/ \E s \in Session, r \in Record : Say(s, r)
  \/ \E s \in Session : Insert(s) \/ Rescan(s)
  \/ SaveCursor \/ Publish
  \/ RefreshActivity
  \/ CutShort

Spec == Init /\ [][Next]_vars
-----------------------------------------------------------------------------
TypeOK ==
  /\ said \in [Session -> Seq(Record)]
  /\ mark \in [Session -> Nat] /\ shown \in [Session -> Nat]
  /\ \A s \in Session :
       /\ mark[s] <= Len(said[s]) /\ shown[s] <= Len(said[s])
       /\ ToSet(ledger[s]) = 1..Cardinality(ToSet(ledger[s]))
       /\ ToSet(ledger[s]) \subseteq DOMAIN said[s]
  /\ sheet.from \in Session \cup {None} /\ sheet.activity \in Activity \cup {None}
  /\ Len(sheet.questions) <= MaxQuestions /\ Len(sheet.failed) <= MaxFailed
  /\ Len(sheet.files) <= MaxPaths /\ ToSet(sheet.files) \subseteq Path
  /\ pc \in {"idle", "save", "publish"} /\ cur \in Session \cup {None}

(* What of the transcript of s the handoff was made from, each record once. *)
Told(s) == SubSeq(said[s], 1, shown[s])

Times(section, value) == Cardinality({ i \in DOMAIN section : section[i] = value })

(* However the sessions take turns, whatever publishes are cut and however often
   records are read again: once a session was published, its first prompt that
   is not a trifle is listed under Task (extract_task: "original intent of the
   session", task.rs:11), and exactly once: "Dedupe checks the full list, not
   just the latest entry" (CHANGELOG.md:19, and the comment at
   pipeline.rs:596-599).  The one at 563-566, which skips a value only "if [it]
   matches the most recent entry", disagrees: it would list a task again when its
   session goes on after another one. *)
TaskListed ==
  \A s \in Session :
    LET Prompt(i) == /\ Told(s)[i].role = "user" /\ Told(s)[i].form = "plain"
                     /\ Told(s)[i].text # << >> /\ Told(s)[i].text \notin Brief
    IN  \A i \in 1..shown[s] :
          Prompt(i) /\ (\A j \in 1..(i - 1) : ~Prompt(j)) =>
            Times(sheet.task, TaskCut[Told(s)[i].text[1]]) = 1

(* The lines of an answer outside its code: a fence hides what follows it if
   another fence closes it (next_action.rs:99-106). *)
Outside(text) ==
  LET Fences(a, b) == { i \in a..b : text[i] = Fence }
      Out(i) == /\ text[i] # Fence
                /\ Fences(i, Len(text)) = {} \/ Cardinality(Fences(1, i)) % 2 = 0
  IN  { i \in DOMAIN text : Out(i) }

(* The last answer with something to say outside its code is what the Next
   action section tells, exactly once, for every session since its last publish
   (next_action.rs:24-63).  What it tells of that answer is the first line
   outside the code (pipeline.rs:594), and not "the final actionable sentence"
   (next_action.rs:1-2, 11, 19-22) nor the "full last assistant response block"
   (CHANGELOG.md:44). *)
NextListed ==
  \A s \in Session :
    LET Says(i) == /\ Told(s)[i].role = "assistant" /\ Told(s)[i].form # "tools"
                   /\ Outside(Told(s)[i].text) # {}
        answers == { i \in 1..shown[s] : Says(i) }
        last    == Told(s)[Greatest(answers)].text
    IN  answers # {} => Times(sheet.next, <<last[Least(Outside(last))]>>) = 1

(* That the ledger holds some records several times does not show: the lists of
   the handoff are those of the transcript (insert_batch and save_cursor are two
   transactions, pipeline.rs:243-245, and a rescan reads all again). *)
RereadHarmless ==
  LET rows == Told(sheet.from) IN
  sheet # Blank =>
    /\ sheet.questions = OpenQuestions(rows)
    /\ sheet.failed = FailedApproaches(rows)
    /\ sheet.files \in RecentFiles(rows)

(* From one handoff to the next, what Task and Next action list stays, in its
   order and below what is new, and there is no way back to having no activity:
   "Never delete what's already there" (pipeline.rs:351-353), "newest at top"
   (publish/handoff.rs:66). *)
Below(old, new) ==
  /\ Len(old) <= Len(new)
  /\ \A i \in 1..Len(old) : new[i + (Len(new) - Len(old))] = old[i]

NothingDeleted ==
  [][ /\ Below(sheet.task, sheet'.task)
      /\ Below(sheet.next, sheet'.next)
      /\ sheet.activity # None => sheet'.activity # None ]_vars

(* While one session goes on, the handoff's questions and failed approaches stay
   where they are and more come behind them, up to the cap: nothing that was
   read again or came late moves them (open_questions.rs:27-62). *)
ListsStand ==
  [][ sheet.from = sheet'.from =>
        /\ IsPrefix(sheet.questions, sheet'.questions)
        /\ IsPrefix(sheet.failed, sheet'.failed) ]_vars
=============================================================================
