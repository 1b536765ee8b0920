---------------------------- MODULE CursorIngest ----------------------------
(***************************************************************************)
(* The capture path for Cursor, the editor (src/src/adapters/cursor.rs,    *)
(* current schema).  The editor keeps, for each workspace, a list of the   *)
(* latest prompts in a database: a new prompt is appended and, when the    *)
(* list is full, the oldest is dropped.  Prompts have no id.  The adapter  *)
(* remembers the text of the last prompt it has read of each workspace and *)
(* takes what follows it; when it is no longer in the list, all of it.     *)
(*                                                                         *)
(* One read goes through the most recently used composers and opens the    *)
(* database of each one's workspace, while the editor goes on writing.     *)
(* Then the rows are inserted and the cursor is saved, as for Claude Code. *)
(* There is one cursor: the hooks installed for Cursor carry no session id *)
(* (src/src/cli/hooks_writer.rs:213).                                      *)
(***************************************************************************)
EXTENDS Naturals, Sequences

CONSTANTS
  Workspace,   \* Cursor's workspaces, each with a database of its own
  Composer,    \* conversations, listed in the global database
  Place,       \* Place[c]: the workspace of c
  Text,        \* what can be typed
  Nothing,     \* no text: the adapter has no mark for the workspace
  Keep,        \* prompts the editor keeps per workspace
  MaxPrompts,  \* bound: prompts typed in any one workspace
  Limit,       \* bound: Limit[w] prompts are typed in w
  MaxScan,     \* composers one read looks at (MAX_WORKSPACES_PER_POLL)
  MaxQueue,    \* bound: events waiting
  Fault,       \* which of "crash", "io", "rescan" happen
  Repeat       \* may the same text be typed twice in a workspace?

ASSUME CursorAssumption ==
  /\ Place \in [Composer -> Workspace]
  /\ Nothing \notin Text
  /\ Keep \in Nat \ {0} /\ MaxPrompts \in Nat /\ MaxScan \in Nat /\ MaxQueue \in Nat
  /\ Limit \in [Workspace -> 0..MaxPrompts]
  /\ Fault \subseteq {"crash", "io", "rescan"}
  /\ Repeat \in BOOLEAN

VARIABLES
  typed,    \* typed[w]: every prompt ever typed in w
  rank,     \* rank[c]: c's place among the composers by lastUpdatedAt, 1 for the
            \* latest; 0 when it is not listed
  mark,     \* the stored cursor: mark[w] is the last prompt read of w
  ledger,   \* the events table, as the set of its rows <<workspace, number>>
  again,    \* rows that were inserted more than once
  due,      \* rows that lost the cursor that would have kept them from it
  up,       \* the daemon is running
  queue,    \* events not yet processed
  pc,       \* what the drain task does next
  held,     \* the cursor in hand
  todo,     \* composers this read has yet to look at
  batch     \* the rows it found

editor == <<typed, rank>>
disk   == <<mark, ledger, again, due>>
work   == <<pc, held, todo, batch>>
vars   == <<typed, rank, mark, ledger, again, due,
            up, queue, pc, held, todo, batch>>

Row == Workspace \X (1..MaxPrompts)

(* An event: a hook or a change; or the loss of reports of changes. *)
Event == {"change", "rescan"}

(* A mark: the text the cursor stores and, for the properties only, the number
   of the prompt it was taken from. *)
Mark   == [text : Text \cup {Nothing}, pos : 0..MaxPrompts]
Unread == [w \in Workspace |-> [text |-> Nothing, pos |-> 0]]
-----------------------------------------------------------------------------
(* The numbers of the prompts that are in w's list. *)
Listed(w) == { i \in 1..Len(typed[w]) : i + Keep > Len(typed[w]) }

(* The prompts of w behind the last one that reads t: all of them if none does. *)
After(w, t) == { i \in Listed(w) : \A j \in Listed(w) : typed[w][j] = t => j < i }

(* The MaxScan most recently used composers. *)
Recent == { c \in Composer : rank[c] \in 1..MaxScan }
-----------------------------------------------------------------------------
Init ==
  /\ typed = [w \in Workspace |-> << >>]
  /\ rank = [c \in Composer |-> 0]
  /\ mark = Unread
  /\ ledger = {} /\ again = {} /\ due = {}
  /\ up = TRUE /\ queue = << >>
  /\ pc = "idle" /\ held = Unread /\ todo = {} /\ batch = {}

(* The user types t into composer c. *)
Type(c, t) ==
  LET w == Place[c] IN
  /\ Len(typed[w]) < Limit[w]
  /\ Repeat \/ \A i \in 1..Len(typed[w]) : typed[w][i] # t
  /\ typed' = [typed EXCEPT ![w] = Append(@, t)]
  /\ UNCHANGED <<rank, disk, up, queue, work>>

(* Composer c becomes the most recently used one. *)
Use(c) ==
  /\ rank' = [d \in Composer |->
       IF d = c THEN 1
       ELSE IF rank[d] # 0 /\ (rank[c] = 0 \/ rank[d] < rank[c]) THEN rank[d] + 1
       ELSE rank[d]]
  /\ UNCHANGED <<typed, disk, up, queue, work>>

(* A hook of the editor, or the watcher's report of a change to any tool's files
   or of a loss of such reports, is queued. *)
Enqueue(e) ==
  /\ up /\ Len(queue) < MaxQueue
  /\ e = "rescan" => "rescan" \in Fault
  /\ queue' = Append(queue, e)
  /\ UNCHANGED <<editor, disk, up, work>>
-----------------------------------------------------------------------------
Finish ==
  /\ pc' = "idle" /\ held' = Unread /\ todo' = {} /\ batch' = {}

(* An event is taken up; a rescan forgets the cursor. *)
Take ==
  /\ up /\ pc = "idle" /\ queue # << >>
  /\ mark' = IF Head(queue) = "rescan" THEN Unread ELSE mark
  /\ due' = IF Head(queue) = "rescan" THEN ledger ELSE due
  /\ held' = mark'
  /\ queue' = Tail(queue)
  /\ pc' = "list"
  /\ UNCHANGED <<editor, ledger, again, up, todo, batch>>

(* The global database says which composers there are. *)
ListComposers ==
  /\ pc = "list"
  /\ todo' = Recent
  /\ pc' = "scan"
  /\ UNCHANGED <<editor, disk, up, queue, held, batch>>

(* Mutants of ReadWorkspace: as many prompts are skipped as have been read; the
   first new prompt is marked; the mark's number is one too high. *)
ReadByCount(c) ==
  LET w == Place[c] IN
  /\ pc = "scan" /\ c \in todo
  /\ batch' = batch \cup
       { <<w, i>> : i \in { j \in Listed(w) : \E k \in Listed(w) : j = k + held[w].pos } }
  /\ held' = [held EXCEPT ![w] =
       IF typed[w] = << >> THEN @
       ELSE [text |-> typed[w][Len(typed[w])], pos |-> Len(typed[w])]]
  /\ todo' = todo \ {c}
  /\ UNCHANGED <<editor, disk, up, queue, pc>>
ReadMarksFirst(c) ==
  LET w == Place[c] IN
  /\ pc = "scan" /\ c \in todo
  /\ batch' = batch \cup { <<w, i>> : i \in After(w, held[w].text) }
  /\ \/ After(w, held[w].text) = {} /\ UNCHANGED held
     \/ \E i \in After(w, held[w].text) :
          /\ \A j \in After(w, held[w].text) : i <= j
          /\ held' = [held EXCEPT ![w] = [text |-> typed[w][i], pos |-> i]]
  /\ todo' = todo \ {c}
  /\ UNCHANGED <<editor, disk, up, queue, pc>>
ReadMarksNext(c) ==
  LET w == Place[c] IN
  /\ pc = "scan" /\ c \in todo
  /\ batch' = batch \cup { <<w, i>> : i \in After(w, held[w].text) }
  /\ held' = [held EXCEPT ![w] =
       IF typed[w] = << >> THEN @
       ELSE [text |-> typed[w][Len(typed[w])], pos |-> Len(typed[w]) + 1]]
  /\ todo' = todo \ {c}
  /\ UNCHANGED <<editor, disk, up, queue, pc>>

(* The prompts of a composer's workspace behind its mark; the mark moves to the
   last prompt of the list, whether there were new ones or not. *)
ReadWorkspace(c) ==
  LET w == Place[c] IN
  /\ pc = "scan" /\ c \in todo
  /\ batch' = batch \cup { <<w, i>> : i \in After(w, held[w].text) }
  /\ held' = [held EXCEPT ![w] =
       IF typed[w] = << >> THEN @
       ELSE [text |-> typed[w][Len(typed[w])], pos |-> Len(typed[w])]]
  /\ todo' = todo \ {c}
  /\ UNCHANGED <<editor, disk, up, queue, pc>>

(* A database that is missing or does not open is passed over. *)
SkipWorkspace(c) ==
  /\ "io" \in Fault
  /\ pc = "scan" /\ c \in todo
  /\ todo' = todo \ {c}
  /\ UNCHANGED <<editor, disk, up, queue, pc, held, batch>>

(* The rows are inserted; without rows only the cursor is saved. *)
Insert ==
  /\ pc = "scan" /\ todo = {}
  /\ ledger' = ledger \cup batch
  /\ again' = again \cup (ledger \cap batch)
  /\ pc' = "save"
  /\ UNCHANGED <<editor, mark, due, up, queue, held, todo, batch>>

(* What follows, publishing the batch, is the subject of Publish. *)
SaveCursor ==
  /\ pc = "save"
  /\ mark' = held
  /\ Finish
  /\ UNCHANGED <<editor, ledger, again, due, up, queue>>

(* A database, the ledger or the disk refuses: the event is done with. *)
StepFails ==
  /\ "io" \in Fault /\ pc # "idle"
  /\ due' = IF pc = "save" THEN due \cup batch ELSE due
  /\ Finish
  /\ UNCHANGED <<editor, mark, ledger, again, up, queue>>

Crash ==
  /\ "crash" \in Fault /\ up
  /\ up' = FALSE /\ queue' = << >>
  /\ due' = IF pc = "save" THEN due \cup batch ELSE due
  /\ Finish
  /\ UNCHANGED <<editor, mark, ledger, again>>

Restart ==
  /\ ~up /\ up' = TRUE
  /\ UNCHANGED <<editor, disk, queue, work>>

Read == ListComposers \/ \E c \in Composer : ReadWorkspace(c) \/ SkipWorkspace(c)

Next ==
  \/ \E c \in Composer : Use(c) \/ \E t \in Text : Type(c, t)
  \/ \E e \in Event : Enqueue(e)
  \/ Take \/ Read \/ Insert \/ SaveCursor
  \/ StepFails \/ Crash \/ Restart

Spec == Init /\ [][Next]_vars
-----------------------------------------------------------------------------
TypeOK ==
  /\ typed \in [Workspace -> Seq(Text)]
  /\ \A w \in Workspace : Len(typed[w]) <= MaxPrompts
  /\ rank \in [Composer -> Nat]
  /\ mark \in [Workspace -> Mark]
  /\ ledger \subseteq Row /\ again \subseteq ledger /\ due \subseteq Row
  /\ up \in BOOLEAN /\ queue \in Seq(Event)
  /\ pc \in {"idle", "list", "scan", "save"}
  /\ held \in [Workspace -> Mark]
  /\ todo \subseteq Composer /\ batch \subseteq Row

(* No prompt is passed over: whatever is in a workspace's list up to the prompt
   its mark was taken from is in the ledger, although the list loses its head
   in the meantime (cursor.rs:55-63) and a read can die half-way. *)
PromptBacked ==
  \A w \in Workspace : \A i \in Listed(w) : i <= mark[w].pos => <<w, i>> \in ledger

(* A prompt is inserted a second time only after a rescan or after its batch
   was inserted and the cursor not saved: a mark that has dropped out of the
   list does not bring back what was read before it (cursor.rs:61-63 expects
   duplicates here). *)
NoRepeat == again \subseteq due
=============================================================================
