------------------------- MODULE CursorIngestProofs -------------------------
(***************************************************************************)
(* Proofs about CursorIngest, for any workspaces, texts and list length:   *)
(* type correctness; prompts are inserted twice only when a cursor was     *)
(* lost; and, if no text is typed twice in a workspace, none is passed     *)
(* over.                                                                   *)
(***************************************************************************)
EXTENDS CursorIngest, TLAPS

(* A mark names the prompt it was taken from. *)
Names(w, m) ==
  /\ m.pos <= Len(typed[w])
  /\ m.pos = 0 => m.text = Nothing
  /\ m.pos > 0 => m.text = typed[w][m.pos]

(* The cursor in hand starts as the stored one and moves ahead of it where this
   read has been, by the rows it found. *)
Ahead ==
  /\ \A w \in Workspace : Names(w, mark[w]) /\ Names(w, held[w])
  /\ pc = "idle" => held = Unread /\ batch = {} /\ todo = {}
  /\ pc = "list" => batch = {} /\ held = mark
  /\ pc # "idle" =>
       \A w \in Workspace :
         /\ mark[w].pos <= held[w].pos
         /\ \A i \in 1..MaxPrompts :
              <<w, i>> \in batch => mark[w].pos < i /\ i <= held[w].pos

(* The rows in the ledger are below their marks, or due a second time, or those
   of the batch whose cursor is being saved. *)
Below ==
  \A w \in Workspace, i \in 1..MaxPrompts :
    <<w, i>> \in ledger =>
      \/ i <= mark[w].pos
      \/ <<w, i>> \in due
      \/ pc = "save" /\ <<w, i>> \in batch

IInv == TypeOK /\ Ahead /\ Below /\ NoRepeat

(* A mark hides only prompts up to the one it was taken from. *)
LEMMA AfterMark ==
  ASSUME TypeOK, NEW w \in Workspace, NEW m \in Mark, Names(w, m),
         NEW i \in After(w, m.text)
  PROVE  i \in 1..MaxPrompts /\ m.pos < i /\ i <= Len(typed[w])
<1>1. i \in 1..Len(typed[w]) /\ i + Keep > Len(typed[w])
  BY DEF After, Listed
<1>2. Len(typed[w]) \in Nat /\ Len(typed[w]) <= MaxPrompts /\ MaxPrompts \in Nat
      /\ Keep \in Nat /\ m.pos \in Nat /\ m.pos <= Len(typed[w])
  BY CursorAssumption DEF TypeOK, Mark, Names
<1>3. m.pos < i
  <2> SUFFICES ASSUME i <= m.pos PROVE FALSE
    BY <1>1, <1>2
  <2>1. m.pos \in Listed(w)
    BY <1>1, <1>2 DEF Listed
  <2>2. typed[w][m.pos] = m.text
    BY <1>1, <1>2 DEF Names
  <2> QED
    BY <2>1, <2>2, <1>1, <1>2 DEF After
<1> QED
  BY <1>1, <1>2, <1>3

LEMMA InitIInv == Init => IInv
<1> SUFFICES ASSUME Init PROVE IInv
  OBVIOUS
<1>1. TypeOK
  BY CursorAssumption DEF Init, TypeOK, Unread, Mark
<1>2. Ahead
  BY CursorAssumption DEF Init, Ahead, Names, Unread
<1> QED
  BY <1>1, <1>2 DEF Init, IInv, Below, NoRepeat

LEMMA TypeStep == IInv /\ [Next]_vars => TypeOK'
<1> SUFFICES ASSUME IInv, [Next]_vars PROVE TypeOK'
  OBVIOUS
<1> USE DEF IInv
<1>0. Unread \in [Workspace -> Mark]
  BY CursorAssumption DEF Unread, Mark
<1>1. ASSUME NEW c \in Composer, NEW t \in Text, Type(c, t) PROVE TypeOK'
  <2>1. Place[c] \in Workspace
    BY CursorAssumption
  <2>2. typed' \in [Workspace -> Seq(Text)]
    BY <1>1, <2>1 DEF Type, TypeOK
  <2>3. \A w \in Workspace : Len(typed'[w]) <= MaxPrompts
    <3> SUFFICES ASSUME NEW w \in Workspace PROVE Len(typed'[w]) <= MaxPrompts
      OBVIOUS
    <3>1. CASE w = Place[c]
      <4>3. Limit[w] \in Nat /\ Limit[w] <= MaxPrompts
        BY CursorAssumption
      <4>1. typed'[w] = Append(typed[w], t) /\ Len(typed[w]) < Limit[w]
        BY <1>1, <3>1, <2>1 DEF Type, TypeOK
      <4>2. Len(typed'[w]) = Len(typed[w]) + 1 /\ Len(typed[w]) \in Nat
        BY <4>1 DEF TypeOK
      <4> QED
        BY <4>1, <4>2, <4>3, CursorAssumption
    <3>2. CASE w # Place[c]
      BY <1>1, <3>2 DEF Type, TypeOK
    <3> QED
      BY <3>1, <3>2
  <2> QED
    BY <1>1, <2>2, <2>3 DEF Type, TypeOK, disk, work
<1>2. ASSUME NEW e \in Event, Enqueue(e) PROVE TypeOK'
  BY <1>2 DEF Enqueue, TypeOK, editor, disk, work
<1>3. CASE Take
  <2>1. queue' \in Seq(Event)
    BY <1>3 DEF Take, TypeOK
  <2>2. mark' \in [Workspace -> Mark] /\ held' \in [Workspace -> Mark]
    <3>1. mark' = mark \/ mark' = Unread
      BY <1>3 DEF Take
    <3> QED
      BY <1>0, <1>3, <3>1 DEF Take, TypeOK
  <2>3. due' \subseteq Row
    BY <1>3, Zenon DEF Take, TypeOK
  <2> QED
    BY <1>3, <2>1, <2>2, <2>3 DEF Take, TypeOK, editor
<1>4. CASE ListComposers
  BY <1>4, CursorAssumption DEF ListComposers, Recent, TypeOK, editor, disk
<1>5. ASSUME NEW c \in Composer, NEW w \in Workspace, w = Place[c], ReadWorkspace(c)
      PROVE  TypeOK'
  <2>1. \A i \in After(w, held[w].text) : i \in 1..MaxPrompts
    BY AfterMark DEF TypeOK, Ahead
  <2>2. batch' \subseteq Row
    BY <1>5, <2>1 DEF ReadWorkspace, TypeOK, Row
  <2>3. held' \in [Workspace -> Mark]
    <3>1. CASE typed[w] = << >>
      BY <1>5, <3>1 DEF ReadWorkspace, TypeOK
    <3>2. CASE typed[w] # << >>
      <4>1. Len(typed[w]) \in 0..MaxPrompts /\ typed[w][Len(typed[w])] \in Text
        BY <3>2, CursorAssumption DEF TypeOK
      <4> QED
        BY <1>5, <3>2, <4>1 DEF ReadWorkspace, TypeOK, Mark
    <3> QED
      BY <3>1, <3>2
  <2> QED
    BY <1>5, <2>2, <2>3 DEF ReadWorkspace, TypeOK, editor, disk
<1>6. ASSUME NEW c \in Composer, SkipWorkspace(c) PROVE TypeOK'
  BY <1>6 DEF SkipWorkspace, TypeOK, editor, disk
<1>7. CASE Insert
  BY <1>7 DEF Insert, TypeOK, editor
<1>8. CASE SaveCursor
  BY <1>0, <1>8 DEF SaveCursor, Finish, TypeOK, editor
<1>9. CASE StepFails
  BY <1>0, <1>9 DEF StepFails, Finish, TypeOK, editor
<1>10. CASE Crash
  <2>1. queue' \in Seq(Event)
    <3>1. queue' = << >>
      BY <1>10 DEF Crash
    <3> QED
      BY <3>1
  <2>3. up' \in BOOLEAN
    BY <1>10, Zenon DEF Crash
  <2>2. due' \subseteq Row
    BY <1>10 DEF Crash, TypeOK
  <2> QED
    BY <1>0, <1>10, <2>1, <2>2, <2>3 DEF Crash, Finish, TypeOK, editor
<1>11. CASE Restart
  BY <1>11 DEF Restart, TypeOK, editor, disk, work
<1>12. CASE UNCHANGED vars
  BY <1>12 DEF vars, TypeOK
<1>13. ASSUME NEW c \in Composer, Use(c) PROVE TypeOK'
  <2>1. rank' \in [Composer -> Nat]
    BY <1>13 DEF Use, TypeOK
  <2> QED
    BY <1>13, <2>1 DEF Use, TypeOK, disk, work
<1> QED
  BY <1>1, <1>2, <1>3, <1>4, <1>5, <1>6, <1>7, <1>8, <1>9, <1>10, <1>11, <1>12,
     <1>13, CursorAssumption DEF Next, Read

(* What has been typed stays. *)
LEMMA TypedGrows ==
  ASSUME TypeOK, [Next]_vars, NEW w \in Workspace
  PROVE  /\ Len(typed[w]) \in Nat /\ Len(typed'[w]) \in Nat
         /\ Len(typed[w]) <= Len(typed'[w])
         /\ \A i \in 1..Len(typed[w]) : typed'[w][i] = typed[w][i]
<1>1. ASSUME NEW c \in Composer, NEW t \in Text, Type(c, t), w = Place[c]
      PROVE  /\ typed[w] \in Seq(Text) /\ t \in Text
             /\ typed'[w] = Append(typed[w], t)
  BY <1>1 DEF Type, TypeOK
<1>2. ASSUME NEW c \in Composer, NEW t \in Text, Type(c, t), w # Place[c]
      PROVE  typed'[w] = typed[w]
  BY <1>2 DEF Type, TypeOK
<1>3. \/ typed'[w] = typed[w]
      \/ \E t \in Text : typed'[w] = Append(typed[w], t)
  BY <1>1, <1>2 DEF Next, vars, Use, Enqueue, Take, Read, ListComposers, ReadWorkspace,
     SkipWorkspace, Insert, SaveCursor, StepFails, Crash, Restart, editor
<1>4. typed[w] \in Seq(Text)
  BY DEF TypeOK
<1> QED
  BY <1>3, <1>4

(* So a mark goes on naming its prompt. *)
LEMMA NamesKept ==
  ASSUME TypeOK, [Next]_vars, NEW w \in Workspace, NEW m \in Mark, Names(w, m)
  PROVE  /\ m.pos <= Len(typed'[w])
         /\ m.pos = 0 => m.text = Nothing
         /\ m.pos > 0 => m.text = typed'[w][m.pos]
<1>1. m.pos \in Nat
  BY CursorAssumption DEF Mark
<1> QED
  BY <1>1, TypedGrows DEF Names

LEMMA AheadStep == IInv /\ [Next]_vars => Ahead'
<1> SUFFICES ASSUME IInv, [Next]_vars PROVE Ahead'
  OBVIOUS
<1> USE DEF IInv
<1>0. \A w \in Workspace :
        /\ mark[w] \in Mark /\ held[w] \in Mark /\ Unread[w] \in Mark
        /\ mark[w].pos \in Nat /\ held[w].pos \in Nat
        /\ Unread[w].pos = 0 /\ Unread[w].text = Nothing
        /\ Len(typed[w]) \in Nat
  BY CursorAssumption DEF TypeOK, Mark, Unread
<1>a. \A w \in Workspace : Names(w, mark[w]) /\ Names(w, held[w]) /\ Names(w, Unread[w])
  BY <1>0 DEF Ahead, Names
<1>b. \A w \in Workspace, m \in Mark : Names(w, m) =>
        /\ m.pos <= Len(typed'[w])
        /\ m.pos = 0 => m.text = Nothing
        /\ m.pos > 0 => m.text = typed'[w][m.pos]
  BY NamesKept
<1>n. ASSUME mark' \in {mark, held, Unread}, held' \in {mark, held, Unread}
      PROVE  \A w \in Workspace : Names(w, mark[w])' /\ Names(w, held[w])'
  BY <1>n, <1>0, <1>a, <1>b DEF Names
<1>1. ASSUME NEW c \in Composer, NEW t \in Text, Type(c, t) PROVE Ahead'
  BY <1>1, <1>n DEF Type, Ahead, disk, work
<1>2. ASSUME NEW e \in Event, Enqueue(e) PROVE Ahead'
  BY <1>2, <1>n DEF Enqueue, Ahead, editor, disk, work
<1>3. CASE Take
  <2>1. /\ batch' = {} /\ pc' = "list" /\ held' = mark' /\ mark' \in {mark, Unread}
    BY <1>3 DEF Take, Ahead
  <2>2. \A w \in Workspace : mark'[w].pos \in Nat
    BY <2>1, <1>0
  <2> QED
    BY <2>1, <2>2, <1>n DEF Ahead
<1>4. CASE ListComposers
  BY <1>4, <1>n, <1>0 DEF ListComposers, Ahead, editor, disk
<1>5. ASSUME NEW c \in Composer, NEW w \in Workspace, w = Place[c], ReadWorkspace(c)
      PROVE  Ahead'
  <2>1. /\ typed' = typed /\ mark' = mark /\ pc = "scan" /\ pc' = "scan"
        /\ mark[w].pos <= held[w].pos
        /\ mark \in [Workspace -> Mark] /\ held \in [Workspace -> Mark]
        /\ typed[w] \in Seq(Text)
    BY <1>5 DEF ReadWorkspace, Ahead, editor, disk, TypeOK
  <2>2. \A v \in Workspace : v # w => held'[v] = held[v]
    BY <1>5, <2>1 DEF ReadWorkspace
  <2>3. \A i \in After(w, held[w].text) :
          i \in 1..MaxPrompts /\ held[w].pos < i /\ i <= Len(typed[w])
    BY <1>0, <1>a, AfterMark
  <2>4. /\ typed[w] = << >> => held'[w] = held[w]
        /\ typed[w] # << >> =>
             held'[w] = [text |-> typed[w][Len(typed[w])], pos |-> Len(typed[w])]
    BY <1>5, <2>1 DEF ReadWorkspace
  <2>5. \A i \in After(w, held[w].text) : held'[w].pos = Len(typed[w])
    <3>1. ASSUME typed[w] = << >> PROVE After(w, held[w].text) = {}
      BY <3>1, CursorAssumption DEF After, Listed
    <3> QED
      BY <3>1, <2>4
  <2>6. held[w].pos <= held'[w].pos
    BY <2>4, <1>0, <1>a DEF Names
  <2>7. Names(w, held[w])'
    <3>1. CASE typed[w] = << >>
      BY <3>1, <2>1, <2>4, <1>a DEF Names
    <3>2. CASE typed[w] # << >>
      <4>1. Len(typed[w]) \in Nat /\ Len(typed[w]) > 0
        BY <3>2, <2>1
      <4> QED
        BY <3>2, <4>1, <2>1, <2>4 DEF Names
    <3> QED
      BY <3>1, <3>2
  <2>8. \A v \in Workspace : Names(v, mark[v])' /\ Names(v, held[v])'
    BY <2>1, <2>2, <2>7, <1>a DEF Names
  <2>9. ASSUME NEW v \in Workspace
        PROVE  /\ mark'[v].pos <= held'[v].pos
               /\ \A i \in 1..MaxPrompts :
                    <<v, i>> \in batch' => mark'[v].pos < i /\ i <= held'[v].pos
    <3>1. CASE v # w
      <4>1. \A i : <<v, i>> \in batch' => <<v, i>> \in batch
        BY <1>5, <3>1 DEF ReadWorkspace
      <4> QED
        BY <3>1, <4>1, <2>1, <2>2 DEF Ahead
    <3>2. CASE v = w
      <4>1. \A i : <<w, i>> \in batch' => <<w, i>> \in batch \/ i \in After(w, held[w].text)
        BY <1>5 DEF ReadWorkspace
      <4>2. \A i \in 1..MaxPrompts :
              <<w, i>> \in batch => mark[w].pos < i /\ i <= held[w].pos
        BY <2>1 DEF Ahead
      <4>3. held'[w].pos \in Nat
        BY <2>4, <1>0
      <4>4. \A i \in 1..MaxPrompts : <<w, i>> \in batch' => mark[w].pos < i /\ i <= held'[w].pos
        <5> SUFFICES ASSUME NEW i \in 1..MaxPrompts, <<w, i>> \in batch'
                     PROVE  mark[w].pos < i /\ i <= held'[w].pos
          OBVIOUS
        <5>1. i \in Nat
          BY CursorAssumption
        <5>2. CASE <<w, i>> \in batch
          BY <5>1, <5>2, <4>2, <4>3, <2>6, <1>0
        <5>3. CASE i \in After(w, held[w].text)
          BY <5>1, <5>3, <2>1, <2>3, <2>5, <1>0
        <5> QED
          BY <5>2, <5>3, <4>1
      <4> QED
        BY <3>2, <4>3, <4>4, <2>1, <2>6, <1>0
    <3> QED
      BY <3>1, <3>2
  <2> QED
    BY <2>1, <2>8, <2>9 DEF Ahead
<1>6. ASSUME NEW c \in Composer, SkipWorkspace(c) PROVE Ahead'
  BY <1>6, <1>n DEF SkipWorkspace, Ahead, editor, disk
<1>7. CASE Insert
  BY <1>7, <1>n DEF Insert, Ahead, editor
<1>8. CASE SaveCursor
  BY <1>8, <1>n DEF SaveCursor, Finish, Ahead, editor
<1>9. CASE StepFails
  BY <1>9, <1>n DEF StepFails, Finish, Ahead, editor
<1>10. CASE Crash
  BY <1>10, <1>n DEF Crash, Finish, Ahead, editor
<1>11. CASE Restart
  BY <1>11, <1>n DEF Restart, Ahead, editor, disk, work
<1>12. CASE UNCHANGED vars
  BY <1>12 DEF vars, Ahead, Names
<1>13. ASSUME NEW c \in Composer, Use(c) PROVE Ahead'
  BY <1>13, <1>n DEF Use, Ahead, disk, work
<1> QED
  BY <1>1, <1>2, <1>3, <1>4, <1>5, <1>6, <1>7, <1>8, <1>9, <1>10, <1>11, <1>12,
     <1>13, CursorAssumption DEF Next, Read

(* The ledger only grows by the batch, and what it holds already is inserted a
   second time only when it is due. *)
LEMMA BelowStep == IInv /\ [Next]_vars => Below' /\ NoRepeat'
<1> SUFFICES ASSUME IInv, [Next]_vars PROVE Below' /\ NoRepeat'
  OBVIOUS
<1> USE DEF IInv
<1>0. \A w \in Workspace :
        mark[w].pos \in Nat /\ held[w].pos \in Nat /\ Unread[w].pos = 0
  BY CursorAssumption DEF TypeOK, Mark, Unread
<1>1. ASSUME NEW c \in Composer, NEW t \in Text, Type(c, t)
      PROVE  Below' /\ NoRepeat'
  BY <1>1 DEF Type, Below, NoRepeat, disk, work
<1>2. ASSUME NEW e \in Event, Enqueue(e) PROVE Below' /\ NoRepeat'
  BY <1>2 DEF Enqueue, Below, NoRepeat, disk, work
<1>3. CASE Take
  <2>1. CASE Head(queue) = "rescan"
    BY <1>3, <2>1 DEF Take, Below, NoRepeat, TypeOK
  <2>2. CASE Head(queue) # "rescan"
    BY <1>3, <2>2 DEF Take, Below, NoRepeat, TypeOK
  <2> QED
    BY <2>1, <2>2
<1>4. CASE ListComposers
  BY <1>4 DEF ListComposers, Below, NoRepeat, disk
<1>5. ASSUME NEW c \in Composer, NEW w \in Workspace, w = Place[c], ReadWorkspace(c)
      PROVE  Below' /\ NoRepeat'
  BY <1>5 DEF ReadWorkspace, Below, NoRepeat, disk
<1>6. ASSUME NEW c \in Composer, SkipWorkspace(c) PROVE Below' /\ NoRepeat'
  BY <1>6 DEF SkipWorkspace, Below, NoRepeat, disk
<1>7. CASE Insert
  <2>1. Below'
    BY <1>7 DEF Insert, Below
  <2>2. ledger \cap batch \subseteq due
    <3> SUFFICES ASSUME NEW r \in ledger \cap batch PROVE r \in due
      OBVIOUS
    <3>1. PICK w \in Workspace, i \in 1..MaxPrompts : r = <<w, i>>
      BY DEF TypeOK, Row
    <3>2. mark[w].pos < i
      BY <3>1, <1>7 DEF Insert, Ahead
    <3>3. i \in Nat
      BY CursorAssumption
    <3> QED
      BY <3>1, <3>2, <3>3, <1>0, <1>7 DEF Insert, Below
  <2> QED
    BY <1>7, <2>1, <2>2 DEF Insert, NoRepeat
<1>8. CASE SaveCursor
  <2>1. Below'
    <3> SUFFICES ASSUME NEW w \in Workspace, NEW i \in 1..MaxPrompts, <<w, i>> \in ledger
                 PROVE  i <= held[w].pos \/ <<w, i>> \in due
      BY <1>8 DEF SaveCursor, Finish, Below
    <3>1. mark[w].pos <= held[w].pos /\ (<<w, i>> \in batch => i <= held[w].pos)
      BY <1>8 DEF SaveCursor, Ahead
    <3>2. i \in Nat
      BY CursorAssumption
    <3> QED
      BY <3>1, <3>2, <1>0 DEF Below
  <2> QED
    BY <1>8, <2>1 DEF SaveCursor, NoRepeat
<1>9. CASE StepFails
  BY <1>9 DEF StepFails, Finish, Below, NoRepeat
<1>10. CASE Crash
  BY <1>10 DEF Crash, Finish, Below, NoRepeat
<1>11. CASE Restart
  BY <1>11 DEF Restart, Below, NoRepeat, disk, work
<1>12. CASE UNCHANGED vars
  BY <1>12 DEF vars, Below, NoRepeat
<1>13. ASSUME NEW c \in Composer, Use(c) PROVE Below' /\ NoRepeat'
  BY <1>13 DEF Use, Below, NoRepeat, disk, work
<1> QED
  BY <1>1, <1>2, <1>3, <1>4, <1>5, <1>6, <1>7, <1>8, <1>9, <1>10, <1>11, <1>12,
     <1>13, CursorAssumption DEF Next, Read

(* The inductive invariant holds throughout: the cursor in hand and the stored
   one name prompts, and the rows lie on the right side of them. *)
THEOREM CursorInductive == Spec => []IInv
<1>1. IInv /\ [Next]_vars => IInv'
  BY TypeStep, AheadStep, BelowStep DEF IInv
<1> QED
  BY InitIInv, <1>1, PTL DEF Spec

(* Every state of the Cursor capture path has the types of cursor.rs's cursor,
   the ledger's rows and the drain task's locals. *)
THEOREM CursorTypeCorrect == Spec => []TypeOK
<1>1. IInv => TypeOK
  BY DEF IInv
<1> QED
  BY CursorInductive, <1>1, PTL

(* A prompt is inserted twice only after its cursor was lost: repeated texts and
   a list that loses its head do not bring rows back (cursor.rs:355-381). *)
THEOREM NeverTwice == Spec => []NoRepeat
<1>1. IInv => NoRepeat
  BY DEF IInv
<1> QED
  BY CursorInductive, <1>1, PTL

-----------------------------------------------------------------------------
(* Without repetition in what is typed, no two prompts of a workspace share a
   text. *)
Distinct ==
  \A w \in Workspace : \A i, j \in 1..Len(typed[w]) :
    typed[w][i] = typed[w][j] => i = j

(* What the list still holds below the stored mark is in the ledger; below the
   mark in hand it is in the ledger or in the batch. *)
Backed ==
  \A w \in Workspace : \A i \in Listed(w) :
    /\ i <= mark[w].pos => <<w, i>> \in ledger
    /\ pc = "list" /\ i <= held[w].pos => <<w, i>> \in ledger
    /\ pc = "scan" /\ i <= held[w].pos => <<w, i>> \in ledger \cup batch
    /\ pc = "save" /\ i <= held[w].pos => <<w, i>> \in ledger

LEMMA DistinctStep ==
  ASSUME ~Repeat PROVE IInv /\ Distinct /\ [Next]_vars => Distinct'
<1> SUFFICES ASSUME IInv, Distinct, [Next]_vars PROVE Distinct'
  OBVIOUS
<1>1. ASSUME NEW c \in Composer, NEW t \in Text, Type(c, t) PROVE Distinct'
  <2> SUFFICES ASSUME NEW w \in Workspace, NEW i \in 1..Len(typed'[w]),
                      NEW j \in 1..Len(typed'[w]), typed'[w][i] = typed'[w][j]
               PROVE  i = j
    BY DEF Distinct
  <2>1. typed[w] \in Seq(Text) /\ typed \in [Workspace -> Seq(Text)]
    BY DEF IInv, TypeOK
  <2>2. CASE w = Place[c]
    <3>1. typed'[w] = Append(typed[w], t)
      BY <1>1, <2>1, <2>2 DEF Type
    <3>2. \A k \in 1..Len(typed[w]) : typed[w][k] # t
      BY <1>1, <2>2 DEF Type
    <3>3. /\ Len(typed'[w]) = Len(typed[w]) + 1 /\ Len(typed[w]) \in Nat
          /\ \A k \in 1..Len(typed[w]) : typed'[w][k] = typed[w][k]
          /\ typed'[w][Len(typed[w]) + 1] = t
      BY <2>1, <3>1
    <3>4. i \in 1..Len(typed[w]) \/ i = Len(typed[w]) + 1
      BY <3>3
    <3>5. j \in 1..Len(typed[w]) \/ j = Len(typed[w]) + 1
      BY <3>3
    <3>6. CASE i \in 1..Len(typed[w]) /\ j \in 1..Len(typed[w])
      <4>1. typed[w][i] = typed[w][j]
        BY <3>3, <3>6
      <4> QED
        BY <4>1, <3>6 DEF Distinct
    <3>7. CASE i \in 1..Len(typed[w]) /\ j = Len(typed[w]) + 1
      BY <3>2, <3>3, <3>7
    <3>8. CASE i = Len(typed[w]) + 1 /\ j \in 1..Len(typed[w])
      BY <3>2, <3>3, <3>8
    <3> QED
      BY <3>4, <3>5, <3>6, <3>7, <3>8
  <2>3. CASE w # Place[c]
    BY <1>1, <2>1, <2>3 DEF Type, Distinct
  <2> QED
    BY <2>2, <2>3
<1>2. CASE typed' = typed
  BY <1>2 DEF Distinct
<1> QED
  BY <1>1, <1>2 DEF Next, vars, Use, Enqueue, Take, Read, ListComposers, ReadWorkspace,
     SkipWorkspace, Insert, SaveCursor, StepFails, Crash, Restart, editor

(* Where the mark is read again, nothing behind the last prompt read is left
   out: a text that is found is found where the mark was taken. *)
LEMMA BehindMark ==
  ASSUME IInv, Distinct, NEW w \in Workspace, NEW i \in Listed(w),
         i \notin After(w, held[w].text)
  PROVE  i <= held[w].pos
<1>1. PICK j \in Listed(w) : typed[w][j] = held[w].text /\ ~(j < i)
  BY DEF After
<1>2. /\ i \in Nat /\ j \in 1..Len(typed[w]) /\ Len(typed[w]) \in Nat
      /\ typed[w] \in Seq(Text)
  BY DEF Listed, IInv, TypeOK
<1>3. held[w].pos \in Nat /\ Names(w, held[w])
  BY CursorAssumption DEF IInv, TypeOK, Ahead, Mark
<1>4. held[w].text # Nothing
  BY <1>1, <1>2, CursorAssumption
<1>5. held[w].pos \in 1..Len(typed[w]) /\ held[w].text = typed[w][held[w].pos]
  BY <1>3, <1>4, <1>2 DEF Names
<1>6. j = held[w].pos
  BY <1>1, <1>2, <1>5 DEF Distinct
<1> QED
  BY <1>1, <1>2, <1>6

LEMMA BackedStep == IInv /\ Distinct /\ Backed /\ [Next]_vars => Backed'
<1> SUFFICES ASSUME IInv, Distinct, Backed, [Next]_vars PROVE Backed'
  OBVIOUS
<1>0. \A w \in Workspace :
        /\ mark[w].pos \in Nat /\ held[w].pos \in Nat /\ Unread[w].pos = 0
        /\ Len(typed[w]) \in Nat
        /\ mark[w].pos <= Len(typed[w]) /\ held[w].pos <= Len(typed[w])
        /\ \A i \in Listed(w) : i \in Nat /\ i > 0
  BY CursorAssumption DEF IInv, TypeOK, Mark, Unread, Ahead, Names, Listed
<1>1. ASSUME NEW c \in Composer, NEW t \in Text, Type(c, t) PROVE Backed'
  <2> SUFFICES ASSUME NEW w \in Workspace, NEW i \in Listed(w)',
                      i <= mark[w].pos \/ i <= held[w].pos
               PROVE  i \in Listed(w)
    BY <1>1 DEF Type, Backed, disk, work
  <2>1. /\ Len(typed[w]) <= Len(typed'[w]) /\ Len(typed'[w]) \in Nat
    BY TypedGrows DEF IInv
  <2> QED
    BY <2>1, <1>0, CursorAssumption DEF Listed
<1>2. ASSUME NEW e \in Event, Enqueue(e) PROVE Backed'
  BY <1>2 DEF Enqueue, Backed, Listed, editor, disk, work
<1>3. CASE Take
  <2>1. /\ typed' = typed /\ pc' = "list" /\ held' = mark' /\ ledger' = ledger
        /\ mark' \in {mark, Unread}
    BY <1>3 DEF Take, editor
  <2>2. \A w \in Workspace : \A i \in Listed(w) : i <= mark'[w].pos => i <= mark[w].pos
    BY <2>1, <1>0
  <2> QED
    BY <2>1, <2>2 DEF Backed, Listed
<1>4. CASE ListComposers
  BY <1>4 DEF ListComposers, Backed, Listed, editor, disk
<1>5. ASSUME NEW c \in Composer, NEW w \in Workspace, w = Place[c], ReadWorkspace(c)
      PROVE  Backed'
  <2>1. /\ typed' = typed /\ mark' = mark /\ ledger' = ledger
        /\ pc = "scan" /\ pc' = "scan"
    BY <1>5 DEF ReadWorkspace, editor, disk
  <2>2. /\ \A v \in Workspace : v # w => held'[v] = held[v]
        /\ batch \subseteq batch'
        /\ \A i \in After(w, held[w].text) : <<w, i>> \in batch'
    BY <1>5 DEF ReadWorkspace, IInv, TypeOK
  <2>3. ASSUME NEW v \in Workspace, NEW i \in Listed(v), i <= held'[v].pos
        PROVE  <<v, i>> \in ledger \cup batch'
    <3>1. CASE v = w /\ i \in After(w, held[w].text)
      BY <3>1, <2>2
    <3>2. CASE v = w /\ i \notin After(w, held[w].text)
      BY <3>2, <2>1, <2>2, BehindMark DEF Backed
    <3>3. CASE v # w
      BY <3>3, <2>1, <2>2, <2>3 DEF Backed
    <3> QED
      BY <3>1, <3>2, <3>3
  <2> QED
    BY <2>1, <2>3 DEF Backed, Listed
<1>6. ASSUME NEW c \in Composer, SkipWorkspace(c) PROVE Backed'
  BY <1>6 DEF SkipWorkspace, Backed, Listed, editor, disk
<1>7. CASE Insert
  BY <1>7 DEF Insert, Backed, Listed, editor
<1>8. CASE SaveCursor
  BY <1>8 DEF SaveCursor, Finish, Backed, Listed, editor
<1>9. CASE StepFails
  BY <1>9 DEF StepFails, Finish, Backed, Listed, editor
<1>10. CASE Crash
  BY <1>10 DEF Crash, Finish, Backed, Listed, editor
<1>11. CASE Restart
  BY <1>11 DEF Restart, Backed, Listed, editor, disk, work
<1>12. CASE UNCHANGED vars
  BY <1>12 DEF vars, Backed, Listed
<1>13. ASSUME NEW c \in Composer, Use(c) PROVE Backed'
  BY <1>13 DEF Use, Backed, Listed, disk, work
<1> QED
  BY <1>1, <1>2, <1>3, <1>4, <1>5, <1>6, <1>7, <1>8, <1>9, <1>10, <1>11, <1>12,
     <1>13, CursorAssumption DEF Next, Read

(* If no text is typed twice in a workspace, the mark in cursor.rs:355-361 is as
   good as a position: no prompt that is still listed is passed over. *)
THEOREM NonePassedOver == ASSUME ~Repeat PROVE Spec => []PromptBacked
<1>1. Init => IInv /\ Distinct /\ Backed
  <2> SUFFICES ASSUME Init PROVE Distinct /\ Backed
    BY InitIInv
  <2>1. \A w \in Workspace : Len(typed[w]) = 0
    BY DEF Init
  <2> QED
    BY <2>1 DEF Distinct, Backed, Listed
<1>2. IInv /\ Distinct /\ Backed /\ [Next]_vars => (IInv /\ Distinct /\ Backed)'
  BY TypeStep, AheadStep, BelowStep, DistinctStep, BackedStep DEF IInv
<1>3. Backed => PromptBacked
  BY DEF Backed, PromptBacked
<1> QED
  BY <1>1, <1>2, <1>3, PTL DEF Spec
=============================================================================
