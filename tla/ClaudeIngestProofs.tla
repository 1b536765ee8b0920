------------------------- MODULE ClaudeIngestProofs -------------------------
(***************************************************************************)
(* For any projects, transcripts, session ids, bounds and faults: the      *)
(* state of ClaudeIngest is well typed, no turn is lost below a cursor,    *)
(* and the ledger implements Capture.  And, for many projects and sessions *)
(* that go through one default cursor: no cursor loses its place to the    *)
(* others, no project's handoff is made from another's transcripts, and a  *)
(* session id whose cursor stays with a transcript takes no row twice.     *)
(***************************************************************************)
EXTENDS ClaudeIngest, SequenceTheorems, TLAPS

USE IngestAssumption DEF IngestAssumption

(* The inductive invariant.  CursorBacked is not inductive by itself: what
   SaveCursor stores is the cursor in hand, so WorkBacked has to say that the
   batch before that cursor is in the ledger; and the types come along since
   the rows of a batch are rows only while the cursor in hand is in a file. *)
IInv == TypeOK /\ CursorBacked /\ WorkBacked

(* Lines and rows are only ever added: what a cursor relied on stays. *)
Grows ==
  /\ ledger \subseteq ledger'
  /\ \A f \in File :
       /\ Len(lines[f]) <= Len(lines'[f])
       /\ \A i \in 1..Len(lines[f]) : lines'[f][i] = lines[f][i]
-----------------------------------------------------------------------------
(* A position all of whose turns are captured stays one. *)
LEMMA BackedStable ==
  ASSUME TypeOK, TypeOK', Grows, NEW f \in File, NEW n \in Nat, Backed(f, n)
  PROVE  Backed(f, n)'
<1>1. /\ Len(lines[f]) \in Nat /\ Len(lines'[f]) \in Nat
      /\ n <= Len(lines'[f])
      /\ \A i \in 1..n : lines'[f][i] = lines[f][i]
  BY DEF TypeOK, Grows, Backed
<1>2. (Turns(f, 0, n) \subseteq ledger)'
  BY <1>1 DEF Turns, Backed, Grows
<1>3. Abs!Readable(f, n)'
  BY <1>1 DEF Abs!Readable, Backed
<1> QED
  BY <1>1, <1>2, <1>3 DEF Backed

(* The turns of a batch are what is missing between the two offsets. *)
LEMMA TurnsSplit ==
  ASSUME NEW f \in File, NEW n \in Nat, NEW m \in Nat
  PROVE  Turns(f, 0, n) \subseteq Turns(f, 0, m) \cup Turns(f, m, n)
<1> SUFFICES ASSUME NEW i \in 1..n, lines[f][i] = "turn"
             PROVE  <<f, i>> \in Turns(f, 0, m) \cup Turns(f, m, n)
  BY DEF Turns
<1>1. i \in 1..m \/ i \in (m + 1)..n
  OBVIOUS
<1> QED
  BY <1>1 DEF Turns

(* What the cursors table held before the step is still backed after it. *)
LEMMA CursorsStable ==
  ASSUME TypeOK, TypeOK', Grows, CursorBacked, UNCHANGED cursor
  PROVE  CursorBacked'
<1> SUFFICES ASSUME NEW s \in Session, cursor[s].at \in File
             PROVE  Backed(cursor[s].at, cursor[s].off)'
  BY DEF CursorBacked
<1>1. cursor[s].off \in Nat /\ Backed(cursor[s].at, cursor[s].off)
  BY DEF CursorBacked, TypeOK, Cursor
<1> QED
  BY <1>1, BackedStable
-----------------------------------------------------------------------------
LEMMA InitIInv == Init => IInv
<1> SUFFICES ASSUME Init PROVE IInv
  OBVIOUS
<1>1. TypeOK
  <2>1. NoCursor \in Cursor
    BY DEF NoCursor, CursorAt, Cursor, Dir
  <2>2. << >> \in Seq(Kind) /\ << >> \in Seq(Hook) /\ << >> \in Seq(BOOLEAN)
    BY EmptySeq
  <2>3. \A f \in File : Len(lines[f]) <= MaxLines
    BY EmptySeq DEF Init
  <2>4. /\ lines \in [File -> Seq(Kind)] /\ taken \in [Session -> SUBSET Row] /\ tail \in [File -> BOOLEAN]
        /\ mtime \in [File -> Nat] /\ cursor \in [Session -> Cursor]
        /\ shown \in [Dir -> SUBSET Row]
    BY <2>1, <2>2 DEF Init
  <2>5. /\ clock \in Nat /\ ledger \subseteq Row
        /\ up \in BOOLEAN /\ dirty \in BOOLEAN
        /\ hooks \in Seq(Hook) /\ watch \in Seq(BOOLEAN)
    BY <2>2 DEF Init
  <2>6. /\ pc \in {"idle", "load", "read", "insert", "save", "merge", "publish"}
        /\ sess \in Session /\ dir \in Dir /\ pos \in Cursor /\ from \in 0..MaxLines
    BY <2>1 DEF Init, Dir
  <2>7. hurt \in BOOLEAN
    BY DEF Init
  <2> QED
    BY <2>3, <2>4, <2>5, <2>6, <2>7 DEF TypeOK
<1>2. NoCursor.at \notin File
  BY DEF NoCursor, CursorAt
<1>3. CursorBacked
  BY <1>2 DEF Init, CursorBacked
<1>4. WorkBacked
  BY DEF Init, WorkBacked
<1> QED
  BY <1>1, <1>3, <1>4 DEF IInv

(* The rows of the batch in hand are rows of the events table. *)
LEMMA BatchRows ==
  ASSUME TypeOK, WorkBacked, pc \in {"insert", "save", "merge", "publish"}
  PROVE  Batch \subseteq Row
BY DEF TypeOK, WorkBacked, Batch, Turns, Row, Cursor

LEMMA FinishType == ASSUME Finish PROVE
    /\ pc' = "idle" /\ sess' \in Session /\ dir' \in Dir
    /\ pos' \in Cursor /\ from' \in 0..MaxLines
BY DEF Finish, NoCursor, CursorAt, Cursor, Dir

(* What every way to merge project_dir has in common. *)
LEMMA MergeDoes ==
  ASSUME MergeProjectDir
  PROVE  /\ pc = "merge" /\ pc' = "publish"
         /\ UNCHANGED <<files, ledger, shown, events, sess, dir, pos, from>>
         /\ Excused \/ UNCHANGED env
BY DEF MergeProjectDir, MergeStored, MergeUnread, MergeUnsaved, disk, env, files

(* The cursor that a merge leaves in the default's place. *)
LEMMA MergeWrites ==
  ASSUME TypeOK, MergeProjectDir
  PROVE  \/ UNCHANGED cursor
         \/ \E c \in Cursor :
              /\ cursor' = [cursor EXCEPT ![Default] = c] /\ c.dir = dir
              /\ \/ MergeUnread /\ c.at = Absent
                 \/ c.at = cursor[Default].at /\ c.off = cursor[Default].off
<1>1. CASE MergeStored
  <2>1. [cursor[Default] EXCEPT !.dir = dir] \in Cursor
    BY DEF TypeOK, Cursor
  <2> QED
    BY <1>1, <2>1 DEF MergeStored, TypeOK, Cursor
<1>2. CASE MergeUnread
  <2> DEFINE c == [NoCursor EXCEPT !.dir = dir]
  <2>1. c \in Cursor /\ c.dir = dir /\ c.at = Absent
    <3>1. c = [at |-> Absent, off |-> 0, dir |-> dir]
      BY DEF NoCursor, CursorAt
    <3>2. dir \in Dir /\ 0 \in 0..MaxLines
      BY DEF TypeOK
    <3> QED
      BY <3>1, <3>2 DEF Cursor
  <2>2. cursor' = [cursor EXCEPT ![Default] = c]
    BY <1>2 DEF MergeUnread
  <2> HIDE DEF c
  <2> QED
    BY <1>2, <2>1, <2>2
<1>3. CASE MergeUnsaved
  BY <1>3 DEF MergeUnsaved, disk
<1> QED
  BY <1>1, <1>2, <1>3 DEF MergeProjectDir

LEMMA ExcusedType ==
  ASSUME Excused PROVE hurt' \in BOOLEAN /\ taken' \in [Session -> SUBSET Row]
BY DEF Excused

(* Where a read starts is a cursor into a transcript. *)
LEMMA SourceType ==
  ASSUME TypeOK, NEW c \in Source(pos)
  PROVE  c \in Cursor /\ c.at \in File
<1>1. CASE pos.at \in File /\ Exists(pos.at)
  BY <1>1 DEF TypeOK, Source, CursorAt, Cursor, Dir
<1>2. CASE ~(pos.at \in File /\ Exists(pos.at))
  BY <1>2 DEF Source, CursorAt, Cursor, Dir, Newest
<1> QED
  BY <1>1, <1>2

LEMMA ReseedType ==
  ASSUME NEW c \in Cursor, NEW d \in Dir, NEW x \in Reseed(c, d)
  PROVE  x \in Cursor /\ (x = c \/ (x.at \in File /\ x.off = 0))
<1> DEFINE current == IF d = Home THEN {} ELSE Newest(FilesOf(d))
<1>1. current \subseteq File
  BY DEF Newest, FilesOf
<1>2. x = c \/ \E f \in current : x = CursorAt(f, 0)
  BY DEF Reseed
<1> QED
  BY <1>1, <1>2 DEF CursorAt, Cursor, Dir

(* A step keeps the state well typed. *)
LEMMA TypeStep == IInv /\ [Next]_vars => TypeOK'
<1> SUFFICES ASSUME IInv, [Next]_vars PROVE TypeOK'
  OBVIOUS
<1> USE DEF IInv
<1>1. ASSUME NEW f \in File, StartLine(f) PROVE TypeOK'
  BY <1>1 DEF StartLine, Touch, TypeOK, disk, work
<1>2. ASSUME NEW f \in File, Delete(f) PROVE TypeOK'
  BY <1>2, ExcusedType DEF Delete, TypeOK, disk, work
<1>3. ASSUME NEW f \in File, NEW k \in Kind, WriteLine(f, k) PROVE TypeOK'
  <2>1. /\ Append(lines[f], k) \in Seq(Kind)
        /\ Len(Append(lines[f], k)) = Len(lines[f]) + 1
    BY AppendProperties DEF TypeOK
  <2>2. lines' \in [File -> Seq(Kind)]
    BY <1>3, <2>1 DEF WriteLine, TypeOK
  <2>3. \A g \in File : Len(lines'[g]) <= MaxLines
    BY <1>3, <2>1, LenProperties DEF WriteLine, TypeOK
  <2> QED
    BY <1>3, <2>2, <2>3 DEF WriteLine, Touch, TypeOK, disk, work
<1>4. ASSUME OtherToolWrites PROVE TypeOK'
  BY <1>4 DEF OtherToolWrites, TypeOK, env, files, disk, work
<1>5. ASSUME NEW s \in Session, NEW d \in Dir, PostHook(s, d) PROVE TypeOK'
  <2>1. hooks' \in Seq(Hook)
    <3>1. [sess |-> s, dir |-> d] \in Hook
      BY DEF Hook
    <3> QED
      BY <1>5, <3>1, AppendProperties DEF PostHook, TypeOK
  <2> QED
    BY <1>5, <2>1 DEF PostHook, TypeOK, env, files, disk, work
<1>6. ASSUME NEW r \in BOOLEAN, Notify(r) PROVE TypeOK'
  <2>1. watch' \in Seq(BOOLEAN)
    BY <1>6, AppendProperties DEF Notify, TypeOK
  <2> QED
    BY <1>6, <2>1 DEF Notify, TypeOK, env, files, disk, work
<1>7. ASSUME TakeHook PROVE TypeOK'
  <2>1. Head(hooks) \in Hook /\ hooks' \in Seq(Hook)
    BY <1>7, HeadTailProperties DEF TakeHook, TypeOK
  <2> QED
    BY <1>7, <2>1 DEF TakeHook, TypeOK, env, files, disk, Hook
<1>8. ASSUME TakeWatch PROVE TypeOK'
  <2>1. watch' \in Seq(BOOLEAN)
    BY <1>8, HeadTailProperties DEF TakeWatch, TypeOK
  <2>2. cursor' \in [Session -> Cursor]
    <3>1. NoCursor \in Cursor
      BY DEF NoCursor, CursorAt, Cursor, Dir
    <3> QED
      BY <1>8, <3>1 DEF TakeWatch, TypeOK
  <2>3. dir' \in Dir
    <3>1. PICK c \in Cursor : c = cursor'[Default]
      BY <2>2
    <3>2. InferDir(c) \in Dir /\ Home \in Dir
      BY DEF InferDir, Cursor, Dir
    <3>3. dir' \in {InferDir(c), Home}
      BY <1>8, <3>1 DEF TakeWatch
    <3> QED
      BY <3>2, <3>3
  <2>4. hurt' \in BOOLEAN /\ taken' \in [Session -> SUBSET Row]
    <3>1. Excused \/ UNCHANGED <<hurt, taken>>
      BY <1>8, Zenon DEF TakeWatch
    <3> QED
      BY <3>1, ExcusedType DEF TypeOK
  <2>5. sess' \in Session /\ pc' = "load" /\ UNCHANGED <<files, ledger, shown, up, dirty,
                                                        hooks, pos, from>>
    BY <1>8 DEF TakeWatch
  <2> QED
    BY <2>1, <2>2, <2>3, <2>4, <2>5 DEF TypeOK, files
<1>9. ASSUME Load PROVE TypeOK'
  <2>1. pos' \in Cursor
    BY <1>9, ReseedType DEF Load, TypeOK
  <2> QED
    BY <1>9, <2>1 DEF Load, TypeOK, env, files, disk, events
<1>10. ASSUME ReadRejected PROVE TypeOK'
  BY <1>10, FinishType DEF ReadRejected, TypeOK, env, files, disk, events
<1>11. ASSUME ReadNothing PROVE TypeOK'
  <2>1. cursor' \in [Session -> Cursor]
    <3>1. CursorAt(Blank, 0) \in Cursor
      BY DEF CursorAt, Cursor, Dir
    <3>2. PICK c \in Cursor : cursor' = [cursor EXCEPT ![sess] = c]
      BY <1>11, <3>1, SourceType DEF ReadNothing
    <3> QED
      BY <3>2 DEF TypeOK
  <2>2. taken' \in [Session -> SUBSET Row]
    BY <1>11 DEF ReadNothing, Of, TypeOK
  <2> QED
    BY <1>11, <2>1, <2>2, FinishType DEF ReadNothing, TypeOK, files, events
<1>12. ASSUME ReadPoison PROVE TypeOK'
  BY <1>12, FinishType DEF ReadPoison, TypeOK, env, files, disk, events
<1>13. ASSUME ReadLines PROVE TypeOK'
  <2> PICK c \in Source(pos) : \E e \in (c.off + 1)..Len(lines[c.at]) :
        pos' = CursorAt(c.at, e) /\ from' = c.off
    BY <1>13 DEF ReadLines
  <2>1. PICK e \in (c.off + 1)..Len(lines[c.at]) :
          pos' = CursorAt(c.at, e) /\ from' = c.off
    OBVIOUS
  <2>2. c \in Cursor /\ c.at \in File
    BY SourceType
  <2>3. Len(lines[c.at]) \in Nat /\ Len(lines[c.at]) <= MaxLines
    BY <2>2, LenProperties DEF TypeOK
  <2>4. pos' \in Cursor /\ from' \in 0..MaxLines
    BY <2>1, <2>2, <2>3 DEF CursorAt, Cursor, Dir
  <2> QED
    BY <1>13, <2>4 DEF ReadLines, TypeOK, env, files, disk, events
<1>14. ASSUME InsertBatch PROVE TypeOK'
  <2>1. Batch \subseteq Row /\ Of(pos.at) \subseteq Row
    BY <1>14, BatchRows DEF InsertBatch, Of, TypeOK
  <2>2. taken' \in [Session -> SUBSET Row]
    BY <1>14, <2>1 DEF InsertBatch, TypeOK
  <2> QED
    BY <1>14, <2>1, <2>2 DEF InsertBatch, TypeOK, files, events
<1>15. ASSUME SaveCursor PROVE TypeOK'
  BY <1>15 DEF SaveCursor, TypeOK, env, files, events
<1>16. ASSUME MergeProjectDir PROVE TypeOK'
  <2>1. cursor' \in [Session -> Cursor]
    BY <1>16, MergeWrites DEF TypeOK
  <2>2. hurt' \in BOOLEAN /\ taken' \in [Session -> SUBSET Row]
    BY <1>16, MergeDoes, ExcusedType DEF TypeOK, env
  <2> QED
    BY <1>16, <2>1, <2>2, MergeDoes DEF TypeOK, files, events
<1>17. ASSUME Publish PROVE TypeOK'
  <2>1. shown' \in [Dir -> SUBSET Row]
    <3>1. PICK rows \in SUBSET Row :
            shown' = [shown EXCEPT ![Home] = rows, ![dir] = rows]
      BY <1>17 DEF Publish, TypeOK
    <3> QED
      BY <3>1 DEF TypeOK
  <2> QED
    BY <1>17, <2>1, FinishType DEF Publish, TypeOK, env, files, events
<1>18. ASSUME StepFails PROVE TypeOK'
  BY <1>18, FinishType, ExcusedType DEF StepFails, TypeOK, files, disk, events
<1>19. ASSUME Crash PROVE TypeOK'
  BY <1>19, FinishType, ExcusedType, EmptySeq DEF Crash, TypeOK, files, disk
<1>20. ASSUME Restart PROVE TypeOK'
  BY <1>20 DEF Restart, TypeOK, env, files, disk, work
<1>21. ASSUME UNCHANGED vars PROVE TypeOK'
  BY <1>21 DEF vars, TypeOK
<1> QED
  BY <1>1, <1>2, <1>3, <1>4, <1>5, <1>6, <1>7, <1>8, <1>9, <1>10, <1>11, <1>12,
     <1>13, <1>14, <1>15, <1>16, <1>17, <1>18, <1>19, <1>20, <1>21
  DEF Next, Environment, Drain, Ingest, Read
-----------------------------------------------------------------------------
LEMMA StepGrows == IInv /\ TypeOK' /\ [Next]_vars => Grows
<1> SUFFICES ASSUME IInv, TypeOK', [Next]_vars PROVE Grows
  OBVIOUS
<1>1. ASSUME UNCHANGED lines, ledger \subseteq ledger' PROVE Grows
  BY <1>1, LenProperties DEF Grows, IInv, TypeOK
<1>2. ASSUME NEW f \in File, NEW k \in Kind, WriteLine(f, k) PROVE Grows
  BY <1>2, AppendProperties, LenProperties
  DEF WriteLine, Touch, disk, Grows, IInv, TypeOK
<1> QED
  BY <1>1, <1>2, MergeDoes
  DEF Next, Environment, StartLine, Delete, Touch, OtherToolWrites, PostHook,
      Notify, Drain, TakeHook, TakeWatch, Ingest, Load, Read, ReadRejected,
      ReadNothing, ReadPoison, ReadLines, InsertBatch, SaveCursor, Publish, StepFails, Crash, Restart, env, files, disk, vars

(* Reading takes only lines the adapter can take. *)
LEMMA ReadsReadable ==
  ASSUME TypeOK, NEW f \in File, NEW m \in Nat, NEW e \in m..Len(lines[f]),
         Abs!Readable(f, m), ReadsTo(f, m, e), Parses(f, m, e)
  PROVE  Abs!Readable(f, e)
BY LenProperties DEF TypeOK, Abs!Readable, ReadsTo, Parses

(* Nothing at all lies before offset 0. *)
LEMMA StartBacked ==
  ASSUME TypeOK, NEW f \in File
  PROVE  Backed(f, 0)
BY LenProperties DEF TypeOK, Backed, Turns, Abs!Readable

(* A read starts behind captured turns only. *)
LEMMA SourceBacked ==
  ASSUME TypeOK, WorkBacked, pc = "read", NEW c \in Source(pos)
  PROVE  Backed(c.at, c.off)
<1>1. CASE pos.at \in File /\ Exists(pos.at)
  BY <1>1 DEF Source, CursorAt, WorkBacked
<1>2. CASE ~(pos.at \in File /\ Exists(pos.at))
  BY <1>2, StartBacked DEF Source, CursorAt, Newest
<1> QED
  BY <1>1, <1>2

(* A step keeps the cursors in the table backed. *)
LEMMA CursorStep == IInv /\ TypeOK' /\ [Next]_vars => CursorBacked'
<1> SUFFICES ASSUME IInv, TypeOK', [Next]_vars PROVE CursorBacked'
  OBVIOUS
<1> USE DEF IInv
<1>1. Grows
  BY StepGrows
<1>2. CASE UNCHANGED cursor
  BY <1>1, <1>2, CursorsStable
(* It is enough to look at the cursors the step writes. *)
<1>3. ASSUME NEW c \in Cursor, NEW s \in Session, cursor' = [cursor EXCEPT ![s] = c],
             c.at \in File => Backed(c.at, c.off)
      PROVE  CursorBacked'
  <2> SUFFICES ASSUME NEW t \in Session, (cursor[t].at \in File)'
               PROVE  Backed(cursor[t].at, cursor[t].off)'
    BY DEF CursorBacked
  <2>1. PICK x \in Cursor : x = cursor'[t] /\ x = IF t = s THEN c ELSE cursor[t]
    BY <1>3 DEF TypeOK
  <2>2. x.at \in File /\ x.off \in Nat /\ Backed(x.at, x.off)
    BY <1>3, <2>1 DEF CursorBacked, TypeOK, Cursor
  <2>3. Backed(x.at, x.off)'
    BY <1>1, <2>2, BackedStable
  <2> QED
    BY <2>1, <2>3
<1>4. CASE TakeWatch
  <2>1. NoCursor \in Cursor /\ NoCursor.at \notin File
    BY DEF NoCursor, CursorAt, Cursor, Dir
  <2> QED
    BY <1>2, <1>3, <1>4, <2>1 DEF TakeWatch
<1>5. CASE ReadNothing
  <2>1. CursorAt(Blank, 0) \in Cursor /\ CursorAt(Blank, 0).at \notin File
    BY DEF CursorAt, Cursor, Dir
  <2>2. pc = "read" /\ sess \in Session
    BY <1>5 DEF ReadNothing, TypeOK
  <2> QED
    BY <1>3, <1>5, <2>1, <2>2, SourceType, SourceBacked DEF ReadNothing
<1>6. CASE SaveCursor
  BY <1>3, <1>6 DEF SaveCursor, WorkBacked, TypeOK
<1>7. CASE MergeProjectDir
  <2>1. Absent \notin File
    OBVIOUS
  <2>2. cursor[Default].at \in File => Backed(cursor[Default].at, cursor[Default].off)
    BY DEF CursorBacked
  <2> QED
    BY <1>2, <1>3, <1>7, <2>1, <2>2, MergeWrites
<1> QED
  BY <1>2, <1>4, <1>5, <1>6, <1>7
  DEF Next, Environment, StartLine, WriteLine, Delete, Touch, OtherToolWrites,
      PostHook, Notify, Drain, TakeHook, Ingest, Load, Read, ReadRejected,
      ReadPoison, ReadLines, InsertBatch, Publish, StepFails, Crash, Restart,
      disk, vars
-----------------------------------------------------------------------------
(* The same for lines the adapter can take. *)
LEMMA ReadableStable ==
  ASSUME TypeOK, TypeOK', Grows, NEW f \in File, NEW n \in Nat,
         n <= Len(lines[f]), Abs!Readable(f, n)
  PROVE  n <= Len(lines'[f]) /\ Abs!Readable(f, n)'
<1>1. /\ Len(lines[f]) \in Nat /\ Len(lines'[f]) \in Nat
      /\ n <= Len(lines'[f])
      /\ \A i \in 1..n : lines'[f][i] = lines[f][i]
  BY DEF TypeOK, Grows
<1> QED
  BY <1>1 DEF Abs!Readable

(* While the drain task is elsewhere, the cursor it has in hand stays good. *)
LEMMA WorkStable ==
  ASSUME TypeOK, TypeOK', Grows, WorkBacked, UNCHANGED work
  PROVE  WorkBacked'
<1> PICK x \in Cursor : x = pos /\ x = pos'
  BY DEF TypeOK, work
<1> PICK m \in 0..MaxLines : m = from /\ m = from'
  BY DEF TypeOK, work
<1>1. pc' = pc /\ x.off \in Nat /\ m \in Nat
  BY DEF work, Cursor
<1>2. x.at \in File /\ Backed(x.at, x.off) => Backed(x.at, x.off)'
  BY <1>1, BackedStable
<1>3. x.at \in File /\ Backed(x.at, m) => Backed(x.at, m)'
  BY <1>1, BackedStable
<1>4. x.at \in File /\ x.off <= Len(lines[x.at]) /\ Abs!Readable(x.at, x.off)
      => x.off <= Len(lines'[x.at]) /\ Abs!Readable(x.at, x.off)'
  BY <1>1, ReadableStable
<1>5. (pc = "read" /\ pos.at \in File => Backed(pos.at, pos.off))'
  BY <1>1, <1>2 DEF WorkBacked
<1>6. (pc \in {"insert", "save", "merge", "publish"} =>
         /\ pos.at \in File
         /\ from <= pos.off /\ pos.off <= Len(lines[pos.at])
         /\ Backed(pos.at, from)
         /\ Abs!Readable(pos.at, pos.off))'
  BY <1>1, <1>3, <1>4 DEF WorkBacked
<1>7. (pc \in {"save", "merge", "publish"} => Backed(pos.at, pos.off))'
  BY <1>1, <1>2 DEF WorkBacked
<1> QED
  BY <1>5, <1>6, <1>7 DEF WorkBacked

(* A step keeps the cursor in hand backed. *)
LEMMA WorkStep == IInv /\ TypeOK' /\ [Next]_vars => WorkBacked'
<1> SUFFICES ASSUME IInv, TypeOK', [Next]_vars PROVE WorkBacked'
  OBVIOUS
<1> USE DEF IInv
<1>1. Grows
  BY StepGrows
<1>2. CASE UNCHANGED work
  BY <1>1, <1>2, WorkStable
<1>3. CASE pc' \in {"idle", "load"}
  BY <1>3 DEF WorkBacked
<1>4. CASE Load
  <2>1. PICK x \in Reseed(cursor[sess], dir) : pos' = x
    BY <1>4 DEF Load
  <2>2. x \in Cursor /\ (x = cursor[sess] \/ (x.at \in File /\ x.off = 0))
    BY ReseedType DEF TypeOK
  <2>3. x.off \in Nat /\ (x.at \in File => Backed(x.at, x.off))
    <3>1. x.off \in Nat
      BY <2>2 DEF Cursor
    <3>2. x = cursor[sess] => (x.at \in File => Backed(x.at, x.off))
      BY DEF CursorBacked, TypeOK
    <3>3. x.at \in File => Backed(x.at, 0)
      BY StartBacked
    <3> QED
      BY <2>2, <3>1, <3>2, <3>3
  <2>4. x.at \in File => Backed(x.at, x.off)'
    BY <1>1, <2>3, BackedStable
  <2> QED
    BY <1>4, <2>1, <2>4 DEF Load, WorkBacked
<1>5. CASE ReadLines
  <2>1. PICK c \in Source(pos) : \E e \in (c.off + 1)..Len(lines[c.at]) :
          /\ ReadsTo(c.at, c.off, e) /\ Parses(c.at, c.off, e)
          /\ pos' = CursorAt(c.at, e) /\ from' = c.off
    BY <1>5 DEF ReadLines
  <2>2. PICK e \in (c.off + 1)..Len(lines[c.at]) :
          /\ ReadsTo(c.at, c.off, e) /\ Parses(c.at, c.off, e)
          /\ pos' = CursorAt(c.at, e) /\ from' = c.off
    BY <2>1
  <2>3. c.at \in File /\ c.off \in Nat /\ Backed(c.at, c.off)
    BY <1>5, SourceType, SourceBacked DEF ReadLines, Cursor
  <2>4. Len(lines[c.at]) \in Nat
    BY <2>3, LenProperties DEF TypeOK
  <2>5. e \in Nat /\ c.off <= e /\ e <= Len(lines[c.at]) /\ Abs!Readable(c.at, e)
    BY <2>2, <2>3, <2>4, ReadsReadable DEF Backed
  <2>6. Backed(c.at, c.off)' /\ e <= Len(lines'[c.at]) /\ Abs!Readable(c.at, e)'
    BY <1>1, <2>3, <2>5, BackedStable, ReadableStable
  <2>7. pc' = "insert" /\ pos'.at = c.at /\ pos'.off = e /\ from' = c.off
    BY <1>5, <2>2 DEF ReadLines, CursorAt
  <2> QED
    BY <2>3, <2>5, <2>6, <2>7 DEF WorkBacked
(* The batch is what was missing between the two offsets. *)
<1>6. CASE InsertBatch
  <2> PICK x \in Cursor : x = pos /\ x = pos'
    BY <1>6 DEF InsertBatch, TypeOK
  <2> PICK m \in 0..MaxLines : m = from /\ m = from'
    BY <1>6 DEF InsertBatch, TypeOK
  <2>1. /\ x.at \in File /\ x.off \in Nat /\ m \in Nat
        /\ m <= x.off /\ x.off <= Len(lines[x.at])
        /\ Backed(x.at, m) /\ Abs!Readable(x.at, x.off)
    BY <1>6 DEF InsertBatch, WorkBacked, Cursor
  <2>2. lines' = lines /\ ledger' = ledger \cup Turns(x.at, m, x.off) /\ pc' = "save"
    <3>1. lines' = lines /\ pc' = "save"
      BY <1>6 DEF InsertBatch, files
    <3>2. ledger' = ledger \cup Turns(pos.at, from, pos.off)
      BY <1>6 DEF InsertBatch, Batch
    <3> QED
      BY <3>1, <3>2
  <2>3. Turns(x.at, 0, x.off) \subseteq Turns(x.at, 0, m) \cup Turns(x.at, m, x.off)
    BY <2>1, TurnsSplit
  <2>4. Turns(x.at, 0, x.off) \subseteq ledger'
    BY <2>1, <2>2, <2>3 DEF Backed
  <2>5. Backed(x.at, x.off)'
    BY <2>1, <2>2, <2>4 DEF Backed, Turns, Abs!Readable
  <2>6. Backed(x.at, m)' /\ Abs!Readable(x.at, x.off)'
    BY <1>1, <2>1, BackedStable, ReadableStable
  <2> QED
    BY <2>1, <2>2, <2>5, <2>6 DEF WorkBacked
<1>7. CASE SaveCursor \/ MergeProjectDir
  <2> PICK x \in Cursor : x = pos /\ x = pos'
    BY <1>7, MergeDoes DEF SaveCursor, TypeOK
  <2> PICK m \in 0..MaxLines : m = from /\ m = from'
    BY <1>7, MergeDoes DEF SaveCursor, TypeOK
  <2>1. pc \in {"save", "merge"} /\ pc' \in {"merge", "publish"}
    BY <1>7, MergeDoes DEF SaveCursor
  <2>2. /\ x.at \in File /\ x.off \in Nat /\ m \in Nat
        /\ m <= x.off /\ x.off <= Len(lines[x.at])
        /\ Backed(x.at, m) /\ Backed(x.at, x.off) /\ Abs!Readable(x.at, x.off)
    BY <2>1 DEF WorkBacked, Cursor
  <2>3. /\ Backed(x.at, m)' /\ Backed(x.at, x.off)'
        /\ x.off <= Len(lines'[x.at]) /\ Abs!Readable(x.at, x.off)'
    BY <1>1, <2>2, BackedStable, ReadableStable
  <2> QED
    BY <2>1, <2>2, <2>3 DEF WorkBacked
(* Every other step leaves the drain task alone, or takes it to "idle" or "load". *)
<1>8. CASE Environment \/ (\E r \in BOOLEAN : Notify(r)) \/ Restart \/ UNCHANGED vars
  <2>1. UNCHANGED work
    BY <1>8 DEF Environment, StartLine, WriteLine, Delete, Touch, OtherToolWrites,
                PostHook, Notify, Restart, vars, work
  <2> QED
    BY <1>2, <2>1
<1>9. CASE TakeHook \/ TakeWatch \/ Publish \/ StepFails \/ Crash
           \/ ReadRejected \/ ReadNothing \/ ReadPoison
  <2>1. pc' \in {"idle", "load"}
    BY <1>9 DEF TakeHook, TakeWatch, Publish, StepFails, Crash, ReadRejected,
                ReadNothing, ReadPoison, Finish
  <2> QED
    BY <1>3, <2>1
<1> QED
  BY <1>4, <1>5, <1>6, <1>7, <1>8, <1>9 DEF Next, Drain, Ingest, Read
-----------------------------------------------------------------------------
LEMMA IInvStep == IInv /\ [Next]_vars => IInv'
BY TypeStep, CursorStep, WorkStep DEF IInv

(* IInv holds throughout every execution, whatever fails. *)
THEOREM Inductive == Spec => []IInv
<1>1. Init => IInv
  BY InitIInv
<1>2. IInv /\ [Next]_vars => IInv'
  BY IInvStep
<1> QED
  BY <1>1, <1>2, PTL DEF Spec

(* Every reachable state is well typed: in particular the cursor never points
   past MaxLines and every ledger row is a line some transcript can have. *)
THEOREM TypeCorrect == Spec => []TypeOK
<1>1. IInv => TypeOK
  BY DEF IInv
<1> QED
  BY <1>1, Inductive, PTL

(* No crash, failing step, rescan, deleted transcript or interleaving of hooks
   makes a stored cursor skip a turn (pipeline.rs:242-244). *)
THEOREM NoTurnLost == Spec => []CursorBacked
<1>1. IInv => CursorBacked
  BY DEF IInv
<1> QED
  BY <1>1, Inductive, PTL

(* Nor does the cursor the drain task has in hand between those steps. *)
THEOREM WorkNeverSkips == Spec => []WorkBacked
<1>1. IInv => WorkBacked
  BY DEF IInv
<1> QED
  BY <1>1, Inductive, PTL

(* What a batch is published with is its whole session up to there, also when
   part of it came with other events or before a crash (pipeline.rs:311-312). *)
THEOREM WholeSession == Spec => HandoffWhole
<1> DEFINE Whole == Turns(pos.at, 0, pos.off) \subseteq shown'[Home] \cap shown'[dir]
           Shows == pc = "publish" /\ up' /\ shown' # shown /\ Batch # {} => Whole
<1>1. IInv /\ [Next]_vars => [Shows]_vars
  <2> SUFFICES ASSUME IInv, Next, pc = "publish", shown' # shown, Batch # {}
               PROVE  Whole
    OBVIOUS
  <2>1. Publish
    BY MergeDoes
    DEF Next, Environment, StartLine, WriteLine, Delete, Touch, OtherToolWrites,
        PostHook, Notify, Drain, TakeHook, TakeWatch, Ingest, Load, Read,
        ReadRejected, ReadNothing, ReadPoison, ReadLines, InsertBatch, SaveCursor,
        StepFails, Crash, Restart, disk
  <2>2. shown' = [shown EXCEPT ![Home] = { r \in ledger : r[1] = pos.at },
                               ![dir] = { r \in ledger : r[1] = pos.at }]
    BY <2>1 DEF Publish
  <2>3. shown'[Home] = { r \in ledger : r[1] = pos.at } /\ shown'[dir] = shown'[Home]
    BY <2>2 DEF IInv, TypeOK, Dir
  <2>4. Turns(pos.at, 0, pos.off) \subseteq { r \in ledger : r[1] = pos.at }
    BY DEF IInv, WorkBacked, Backed, Turns
  <2> QED
    BY <2>3, <2>4
<1> QED
  BY <1>1, Inductive, PTL DEF Spec, HandoffWhole
-----------------------------------------------------------------------------
(* Every step of the daemon and of the tool is one of Capture's, or changes
   neither transcripts nor ledger. *)
LEMMA RefinementStep == IInv /\ [Next]_vars => [Abs!Next]_(Abs!vars)
<1> SUFFICES ASSUME IInv, [Next]_vars PROVE Abs!Next \/ UNCHANGED <<lines, ledger>>
  BY DEF Abs!vars
<1> USE DEF IInv
<1>1. CASE UNCHANGED <<lines, ledger>>
  BY <1>1
<1>2. ASSUME NEW f \in File, NEW k \in Kind, WriteLine(f, k) PROVE Abs!Next
  BY <1>2 DEF WriteLine, Touch, disk, Abs!Next, Abs!Append1
<1>3. CASE InsertBatch
  <2>1. pos.at \in File /\ pos.off \in 0..Len(lines[pos.at])
    BY <1>3, LenProperties DEF InsertBatch, WorkBacked, TypeOK, Cursor
  <2>2. Abs!Readable(pos.at, pos.off)
    BY <1>3 DEF InsertBatch, WorkBacked
  <2>3. ledger' = ledger \cup Abs!TurnsUpTo(pos.at, pos.off)
    <3>1. from \in Nat /\ Turns(pos.at, 0, from) \subseteq ledger
      BY <1>3 DEF InsertBatch, WorkBacked, Backed, TypeOK
    <3>2. /\ Abs!TurnsUpTo(pos.at, pos.off) \subseteq Turns(pos.at, 0, from) \cup Batch
          /\ Batch \subseteq Abs!TurnsUpTo(pos.at, pos.off)
      BY <2>1, <3>1 DEF Abs!TurnsUpTo, Turns, Batch
    <3>3. ledger' = ledger \cup Batch
      BY <1>3 DEF InsertBatch
    <3> QED
      BY <3>1, <3>2, <3>3
  <2>4. Abs!CatchUp(pos.at, pos.off)
    BY <1>3, <2>2, <2>3 DEF Abs!CatchUp, InsertBatch, env, files
  <2> QED
    BY <2>1, <2>4 DEF Abs!Next
<1> QED
  BY <1>1, <1>2, <1>3, MergeDoes
  DEF Next, Environment, StartLine, Delete, Touch, OtherToolWrites, PostHook,
      Notify, Drain, TakeHook, TakeWatch, Ingest, Load, Read, ReadRejected,
      ReadNothing, ReadPoison, ReadLines, SaveCursor, Publish,
      StepFails, Crash, Restart, env, files, disk, vars

(* The capture path implements Capture: whatever happens to the daemon, the
   ledger only ever catches up with whole, readable prefixes of transcripts
   and forgets nothing. *)
THEOREM Refinement == Spec => ImplementsCapture
<1>1. Init => Abs!Init
  BY DEF Init, Abs!Init
<1>2. IInv /\ [Next]_vars => [Abs!Next]_(Abs!vars)
  BY RefinementStep
<1> QED
  BY <1>1, <1>2, Inductive, PTL DEF Spec, ImplementsCapture, Abs!Spec
-----------------------------------------------------------------------------
(***************************************************************************)
(* Many projects and sessions share one default cursor.  As long as        *)
(* no transcript is deleted, no cursor loses its place to the others       *)
(* (KeepsPlace), and, if hooks come from directories that have a           *)
(* transcript and no slug decodes to another project's directory, no       *)
(* project's handoff is made from another's transcripts                    *)
(* (PublishedToOwner).  A session id whose cursor stays with a transcript  *)
(* takes no row twice (NoRepeat), unless something befalls the daemon.     *)
(***************************************************************************)

(* The tool deletes no transcript. *)
Lasting == "delete" \notin Fault

(* Hooks come from directories with a transcript, and a slug decodes to its own
   directory or to none. *)
Routed == Lasting /\ ~HookFirst /\ \A d \in Dir : Decoded[d] \in {d, Home}

Reading == pc \in {"read", "insert", "save", "merge", "publish"}

(* Cursors, stored and in hand, point into transcripts that are there. *)
Standing ==
  /\ \A s \in Session : cursor[s].at \in File => Exists(cursor[s].at)
  /\ Reading /\ pos.at \in File => Exists(pos.at)

(* The cursor in hand is the stored one or points elsewhere, and from there it
   only moves ahead. *)
Ahead ==
  /\ pc = "read" => pos.at \in File \/ pos = cursor[sess]
  /\ pc \in {"read", "insert", "save"} /\ pos.at = cursor[sess].at => cursor[sess].off <= pos.off

(* Steps that touch neither cursors, nor the drain task, nor what is published:
   the tools', the hooks', the debouncer's, and the restart. *)
Outside == Environment \/ (\E r \in BOOLEAN : Notify(r)) \/ Restart \/ UNCHANGED vars

LEMMA OutsideLeaves == ASSUME Outside PROVE UNCHANGED <<disk, work>>
BY DEF Outside, Environment, StartLine, WriteLine, Delete, Touch, OtherToolWrites, PostHook,
       Notify, Restart, vars, disk, work

(* Only the tool changes when files were written. *)
LEMMA DrainLeavesFiles ==
  ASSUME Drain \/ StepFails \/ Crash PROVE UNCHANGED <<mtime, clock>>
BY MergeDoes
DEF Drain, TakeHook, TakeWatch, Ingest, Load, Read, ReadRejected, ReadNothing, ReadPoison,
    ReadLines, InsertBatch, SaveCursor, Publish, StepFails, Crash, env, files

(* What a write does to the files' times. *)
LEMMA Written1 ==
  ASSUME TypeOK, NEW f \in File, Touch(f)
  PROVE  /\ clock' \in Nat /\ clock <= clock' /\ clock' > 0 /\ (clock' = clock => Exists(f))
         /\ mtime' = [mtime EXCEPT ![f] = clock']
BY DEF Touch, TypeOK, Exists

(* No transcript goes away, or the step that deletes it is on record. *)
LEMMA ExistsStable ==
  ASSUME Lasting \/ ~hurt', IInv, [Next]_vars PROVE \A f \in File : Exists(f) => Exists(f)'
<1>1. ASSUME NEW g \in File, Touch(g) PROVE \A f \in File : Exists(f) => Exists(f)'
  BY <1>1, Written1 DEF IInv, TypeOK, Exists
<1>2. CASE UNCHANGED mtime
  BY <1>2 DEF Exists
<1> QED
  BY <1>1, <1>2, DrainLeavesFiles
  DEF Next, Environment, StartLine, WriteLine, Delete, Excused, OtherToolWrites, PostHook,
      Notify, Restart, env, vars, Lasting
-----------------------------------------------------------------------------
(* A read starts where the cursor in hand points, if that is a file at all. *)
LEMMA SourceInHand ==
  ASSUME Standing, Reading, pos.at \in File
  PROVE  Source(pos) = {CursorAt(pos.at, pos.off)}
BY DEF Standing, Source

(* Wherever it starts, there is a file. *)
LEMMA SourceExists == ASSUME NEW c \in Source(pos) PROVE Exists(c.at)
BY DEF Source, CursorAt, Newest

(* Merging project_dir leaves the place of every cursor alone, unless the default
   cursor cannot be loaded. *)
LEMMA MergeLeavesPlaces ==
  ASSUME TypeOK, MergeProjectDir, ~MergeUnread
  PROVE  \A s \in Session : cursor'[s].at = cursor[s].at /\ cursor'[s].off = cursor[s].off
BY MergeWrites DEF TypeOK

LEMMA InitStanding == Init => Standing /\ Ahead
BY DEF Init, Standing, Ahead, Reading, NoCursor, CursorAt

(* Standing is kept: what is stored or taken in hand is there, and stays. *)
LEMMA StandingStep ==
  ASSUME Lasting \/ ~hurt', IInv, Standing, [Next]_vars PROVE Standing'
<1>1. \A f \in File : Exists(f) => Exists(f)'
  BY ExistsStable
<1>2. ASSUME UNCHANGED cursor
      PROVE  (\A s \in Session : cursor[s].at \in File => Exists(cursor[s].at))'
  BY <1>1, <1>2 DEF Standing
<1>3. ASSUME NEW s \in Session, NEW c, cursor' = [cursor EXCEPT ![s] = c],
             c.at \in File => Exists(c.at)
      PROVE  (\A t \in Session : cursor[t].at \in File => Exists(cursor[t].at))'
  BY <1>1, <1>3 DEF Standing, IInv, TypeOK
<1>4. ASSUME UNCHANGED <<pc, pos>> PROVE (Reading /\ pos.at \in File => Exists(pos.at))'
  BY <1>1, <1>4 DEF Standing, Reading
<1>5. ASSUME pc' \in {"idle", "load"} PROVE ~Reading'
  BY <1>5 DEF Reading
<1>6. NoCursor.at \notin File /\ CursorAt(Blank, 0).at \notin File
  BY DEF NoCursor, CursorAt
<1>7. CASE Outside
  <2>1. UNCHANGED <<cursor, pc, pos>>
    BY <1>7, OutsideLeaves DEF disk, work
  <2> QED  BY <2>1, <1>2, <1>4 DEF Standing
<1>8. CASE TakeHook \/ ReadRejected \/ ReadPoison \/ Publish \/ StepFails \/ Crash
  <2>1. UNCHANGED cursor /\ pc' \in {"idle", "load"}
    BY <1>8 DEF TakeHook, ReadRejected, ReadPoison, Publish, StepFails, Crash, Finish, disk
  <2> QED  BY <2>1, <1>2, <1>5 DEF Standing
<1>9. CASE TakeWatch
  <2>1. pc' = "load" /\ (cursor' = [cursor EXCEPT ![Default] = NoCursor] \/ UNCHANGED cursor)
    BY <1>9 DEF TakeWatch
  <2> QED  BY <2>1, <1>2, <1>3, <1>5, <1>6 DEF Standing
<1>10. CASE Load
  <2>1. UNCHANGED cursor
    BY <1>10 DEF Load, disk
  <2>2. PICK c \in Reseed(cursor[sess], dir) : pos' = c
    BY <1>10 DEF Load
  <2>3. c = cursor[sess] \/ \E f \in FilesOf(dir) : c = CursorAt(f, 0)
    BY DEF Reseed, Newest
  <2>4. c.at \in File => Exists(c.at)
    BY <2>3 DEF Standing, IInv, TypeOK, FilesOf, CursorAt
  <2> QED  BY <2>1, <2>2, <2>4, <1>1, <1>2 DEF Standing
<1>11. CASE ReadNothing
  <2>1. pc' = "idle" /\ sess \in Session
    BY <1>11 DEF ReadNothing, Finish, IInv, TypeOK
  <2>2. PICK c : /\ cursor' = [cursor EXCEPT ![sess] = c]
                 /\ c.at \in File => Exists(c.at)
    BY <1>11, <1>6, SourceExists DEF ReadNothing
  <2> QED  BY <2>1, <2>2, <1>3, <1>5 DEF Standing
<1>12. CASE ReadLines
  <2>1. UNCHANGED cursor
    BY <1>12 DEF ReadLines, disk
  <2>2. PICK c \in Source(pos) : pos'.at = c.at
    BY <1>12 DEF ReadLines, CursorAt
  <2> QED  BY <2>1, <2>2, <1>1, <1>2, SourceExists DEF Standing
<1>13. CASE InsertBatch
  BY <1>13, <1>1, <1>2 DEF InsertBatch, Standing, Reading
<1>14. CASE SaveCursor
  <2>1. /\ cursor' = [cursor EXCEPT ![sess] = pos] /\ sess \in Session
        /\ pos' = pos /\ Reading
    BY <1>14 DEF SaveCursor, IInv, TypeOK, Reading
  <2> QED  BY <2>1, <1>1, <1>3 DEF Standing
<1>15. CASE MergeProjectDir
  <2>1. pos' = pos /\ Reading
    BY <1>15, MergeDoes DEF Reading
  <2>2. Absent \notin File
    OBVIOUS
  <2>3. (\A s \in Session : cursor[s].at \in File => Exists(cursor[s].at))'
    BY <1>2, <1>3, <1>15, <2>2, MergeWrites DEF Standing, IInv
  <2>4. (Reading /\ pos.at \in File => Exists(pos.at))'
    BY <2>1, <1>1 DEF Standing
  <2> QED  BY <2>3, <2>4 DEF Standing
<1> QED
  BY <1>7, <1>8, <1>9, <1>10, <1>11, <1>12, <1>13, <1>14, <1>15
  DEF Next, Outside, Drain, Ingest, Read

(* The cursor in hand stays ahead of the stored one. *)
LEMMA AheadStep ==
  ASSUME IInv, Standing, Ahead, [Next]_vars PROVE Ahead'
<1>1. ASSUME pc' \notin {"read", "insert", "save"} PROVE Ahead'
  BY <1>1 DEF Ahead
<1>2. CASE Outside
  <2>1. UNCHANGED <<cursor, pc, sess, pos>>
    BY <1>2, OutsideLeaves DEF disk, work
  <2> QED  BY <2>1 DEF Ahead
<1>3. CASE TakeHook \/ TakeWatch \/ ReadRejected \/ ReadNothing \/ ReadPoison \/ Publish
           \/ StepFails \/ Crash \/ SaveCursor \/ MergeProjectDir
  <2>1. pc' \notin {"read", "insert", "save"}
    BY <1>3, MergeDoes
    DEF TakeHook, TakeWatch, ReadRejected, ReadNothing, ReadPoison, Publish, StepFails,
        Crash, SaveCursor, Finish
  <2> QED  BY <2>1, <1>1
<1>4. CASE Load
  <2>1. UNCHANGED <<cursor, sess>> /\ pc' = "read"
    BY <1>4 DEF Load, disk
  <2>2. PICK c \in Reseed(cursor[sess], dir) : pos' = c
    BY <1>4 DEF Load
  <2>3. c = cursor[sess] \/ (c.at \in File /\ c.at # cursor[sess].at)
    BY <2>2 DEF Reseed, Newest, FilesOf, CursorAt
  <2>4. cursor[sess].off \in Nat
    BY DEF IInv, TypeOK, Cursor
  <2> QED  BY <2>1, <2>2, <2>3, <2>4 DEF Ahead
<1>5. CASE ReadLines
  <2>1. UNCHANGED <<cursor, sess>> /\ pc = "read" /\ pc' = "insert"
    BY <1>5 DEF ReadLines, disk
  <2>2. PICK c \in Source(pos) : /\ pos'.at = c.at
                                 /\ \E e \in (c.off + 1)..Len(lines[c.at]) : pos'.off = e
    BY <1>5 DEF ReadLines, CursorAt
  <2>3. c \in Cursor /\ c.at \in File
    BY SourceType DEF IInv
  <2>4. c.off \in Nat /\ pos'.off \in Int /\ c.off <= pos'.off
    BY <2>2, <2>3 DEF Cursor
  <2>5. CASE pos.at \in File
    <3>1. c.at = pos.at /\ c.off = pos.off
      BY <2>1, <2>5, SourceInHand DEF Reading, CursorAt
    <3>2. cursor[sess].off \in Nat
      BY DEF IInv, TypeOK, Cursor
    <3> QED  BY <2>1, <2>2, <2>4, <3>1, <3>2 DEF Ahead
  <2>6. CASE pos.at \notin File
    <3>1. pos = cursor[sess]
      BY <2>1, <2>6 DEF Ahead
    <3> QED  BY <2>1, <2>2, <2>3, <2>6, <3>1 DEF Ahead
  <2> QED  BY <2>5, <2>6
<1>6. CASE InsertBatch
  BY <1>6 DEF InsertBatch, Ahead
<1> QED
  BY <1>2, <1>3, <1>4, <1>5, <1>6 DEF Next, Outside, Drain, Ingest, Read

(* No step but a rescan, and a merge that cannot load the default cursor, moves a
   cursor back or makes it lose its place. *)
LEMMA PlaceStep ==
  ASSUME Lasting, IInv, Standing, Ahead, [Next]_vars, TakeWatch => UNCHANGED cursor,
         ~MergeUnread, NEW s \in Session, cursor[s].at \in File
  PROVE  /\ cursor'[s].at \in File
         /\ cursor'[s].at = cursor[s].at => cursor'[s].off >= cursor[s].off
<1>1. cursor[s].off \in Nat
  BY DEF IInv, TypeOK, Cursor
<1>2. CASE cursor'[s] = cursor[s]
  BY <1>1, <1>2
<1>3. CASE ReadNothing
  <2>1. pc = "read" /\ sess \in Session
    BY <1>3 DEF ReadNothing, IInv, TypeOK
  <2>2. PICK c : cursor' = [cursor EXCEPT ![sess] = c] /\ (c \in Source(pos) \/ Source(pos) = {})
    BY <1>3 DEF ReadNothing
  <2>3. CASE s = sess
    <3>1. pos.at \in File
      BY <2>1, <2>3 DEF Ahead
    <3>2. c = CursorAt(pos.at, pos.off)
      BY <2>1, <2>2, <3>1, SourceInHand DEF Reading
    <3>3. cursor'[s] = c
      BY <2>1, <2>2, <2>3 DEF IInv, TypeOK
    <3>4. pos.off \in Nat /\ (pos.at = cursor[s].at => cursor[s].off <= pos.off)
      BY <2>1, <2>3 DEF Ahead, IInv, TypeOK, Cursor
    <3> QED  BY <1>1, <3>1, <3>2, <3>3, <3>4 DEF CursorAt
  <2> QED  BY <1>2, <2>2, <2>3 DEF IInv, TypeOK
<1>4. CASE SaveCursor
  <2>1. /\ pc = "save" /\ sess \in Session /\ pos.off \in Nat /\ pos.at \in File
        /\ cursor' = [cursor EXCEPT ![sess] = pos]
    BY <1>4 DEF SaveCursor, IInv, TypeOK, WorkBacked, Cursor
  <2>2. CASE s = sess
    BY <1>1, <2>1, <2>2 DEF Ahead, IInv, TypeOK
  <2> QED  BY <1>2, <2>1, <2>2 DEF IInv, TypeOK
<1>5. CASE MergeProjectDir
  BY <1>1, <1>5, MergeLeavesPlaces DEF IInv
<1>6. CASE Outside \/ TakeHook \/ TakeWatch \/ ReadRejected \/ ReadPoison \/ Publish \/ StepFails
           \/ Crash \/ Load \/ ReadLines \/ InsertBatch
  <2>1. UNCHANGED cursor
    BY <1>6, OutsideLeaves DEF TakeHook, TakeWatch, ReadRejected, ReadPoison, Publish, StepFails,
                Crash, Load, ReadLines, InsertBatch, disk
  <2> QED  BY <1>2, <2>1
<1> QED
  BY <1>3, <1>4, <1>5, <1>6 DEF Next, Outside, Drain, Ingest, Read

(* However many sessions and projects share it, and whatever fails or dies, the
   stored cursor stays in its transcript or goes on to another one: it forgets only
   by a rescan, or by a merge of project_dir that cannot load it
   (pipeline.rs:271-297).  Not so if a transcript can be deleted while it is read:
   the adapter then starts the newest one over. *)
THEOREM PlaceKept == ASSUME Lasting PROVE Spec => KeepsPlace
<1> DEFINE Kept == \A s \in Session :
        /\ cursor[s].at \in File /\ Exists(cursor[s].at)
        /\ ~(watch # << >> /\ Head(watch) /\ watch' = Tail(watch))
        /\ ~MergeUnread
        => /\ cursor'[s].at \in File
           /\ cursor'[s].at = cursor[s].at => cursor'[s].off >= cursor[s].off
<1>1. Init => Standing /\ Ahead
  BY InitStanding
<1>2. IInv /\ Standing /\ Ahead /\ [Next]_vars => (Standing /\ Ahead)'
  BY StandingStep, AheadStep
<1>3. IInv /\ Standing /\ Ahead /\ [Next]_vars => [Kept]_vars
  <2> SUFFICES ASSUME IInv, Standing, Ahead, [Next]_vars PROVE Kept
    OBVIOUS
  <2>1. ASSUME ~(watch # << >> /\ Head(watch) /\ watch' = Tail(watch)), TakeWatch
        PROVE  UNCHANGED cursor
    BY <2>1, Zenon DEF TakeWatch
  <2> QED  BY <2>1, PlaceStep, Zenon
<1> QED
  BY <1>1, <1>2, <1>3, Inductive, PTL DEF Spec, KeepsPlace
-----------------------------------------------------------------------------
(* Of the transcripts of a directory that has any, one is the newest. *)
Aged ==
  /\ \A f \in File : mtime[f] <= clock
  /\ \A d \in Dir : FilesOf(d) # {} => Newest(FilesOf(d)) # {}

(* What names a project names one that has a transcript: a hook, a stored or held
   cursor's project_dir, and what is being ingested. *)
Claimed(d) == d \in Project => FilesOf(d) # {}
Announced ==
  /\ \A i \in 1..Len(hooks) : Claimed(hooks[i].dir)
  /\ \A s \in Session : Claimed(cursor[s].dir)
  /\ Claimed(dir) /\ Claimed(pos.dir)

(* A project is only ever read for from its own transcripts. *)
OfOwner == Reading /\ dir \in Project => pos.at \in FilesOf(dir)

Sharing == Aged /\ Announced /\ OfOwner /\ PublishedToOwner

LEMMA InitSharing == Init => Sharing
<1> SUFFICES ASSUME Init PROVE Sharing
  OBVIOUS
<1>1. \A d \in Dir : FilesOf(d) = {}
  BY DEF Init, FilesOf, Exists
<1>2. Aged
  BY <1>1 DEF Init, Aged
<1>3. Home \notin Project /\ NoCursor.dir = Home
  BY DEF NoCursor, CursorAt
<1>4. Announced
  BY <1>3 DEF Init, Announced, Claimed
<1>5. OfOwner /\ PublishedToOwner
  BY DEF Init, OfOwner, Reading, PublishedToOwner, Dir
<1> QED  BY <1>2, <1>4, <1>5 DEF Sharing

LEMMA AgedStep == ASSUME Lasting, IInv, Aged, [Next]_vars PROVE Aged'
<1>1. CASE UNCHANGED <<mtime, clock>>
  BY <1>1 DEF Aged, FilesOf, Newest, Exists
<1>2. ASSUME NEW f \in File, Touch(f) PROVE Aged'
  <2>1. /\ clock \in Nat /\ clock' \in Nat /\ clock <= clock' /\ clock' > 0
        /\ mtime' = [mtime EXCEPT ![f] = clock'] /\ mtime \in [File -> Nat]
    BY <1>2, Written1 DEF IInv, TypeOK
  <2>2. \A g \in File : mtime'[g] <= clock' /\ mtime'[g] \in Nat
    BY <2>1 DEF Aged
  <2>3. ASSUME NEW d \in Dir, FilesOf(d)' # {} PROVE Newest(FilesOf(d))' # {}
    <3>1. CASE Owner[f] = d
      <4>1. f \in FilesOf(d)' /\ FilesOf(d)' \subseteq File
        BY <2>1, <3>1 DEF FilesOf, Exists
      <4>2. f \in Newest(FilesOf(d))'
        BY <2>1, <2>2, <4>1 DEF Newest
      <4> QED  BY <4>2
    <3>2. CASE Owner[f] # d
      <4>1. \A g \in File : Owner[g] = d => mtime'[g] = mtime[g]
        BY <2>1, <3>2
      <4>2. FilesOf(d)' = FilesOf(d)
        BY <4>1 DEF FilesOf, Exists
      <4>3. PICK g \in FilesOf(d) : \A h \in FilesOf(d) : mtime[h] <= mtime[g]
        BY <2>3, <4>2 DEF Aged, Newest
      <4>4. g \in Newest(FilesOf(d))'
        BY <4>1, <4>2, <4>3 DEF Newest, FilesOf
      <4> QED  BY <4>4
    <3> QED  BY <3>1, <3>2
  <2> QED  BY <2>2, <2>3 DEF Aged
<1> QED
  BY <1>1, <1>2, DrainLeavesFiles
  DEF Next, Environment, StartLine, WriteLine, Delete, OtherToolWrites, PostHook, Notify,
      Restart, env, vars, Lasting

(* What is claimed stays so. *)
LEMMA ClaimedStable ==
  ASSUME Lasting, IInv, [Next]_vars, NEW d \in Dir
  PROVE  FilesOf(d) \subseteq FilesOf(d)' /\ (Claimed(d) => Claimed(d)')
BY ExistsStable DEF FilesOf, Claimed

(* Nothing but what is claimed comes to be named. *)
LEMMA NamesStep ==
  ASSUME Routed, IInv, Standing, Announced, [Next]_vars
  PROVE  /\ \A i \in 1..Len(hooks') : Claimed(hooks'[i].dir)
         /\ \A s \in Session : cursor'[s].dir \in Dir /\ Claimed(cursor'[s].dir)
         /\ Claimed(dir') /\ Claimed(pos'.dir)
<1>1. Claimed(Home) /\ Home \notin Project /\ NoCursor.dir = Home
  BY DEF Claimed, NoCursor, CursorAt
<1>2. IInv' /\ hooks \in Seq(Hook) /\ cursor \in [Session -> Cursor] /\ sess \in Session
      /\ Default \in Session
  BY IInvStep DEF IInv, TypeOK
<1>3. \A s \in Session : cursor'[s].dir \in Dir
  BY <1>2 DEF IInv, TypeOK, Cursor
<1>4. \A i \in 1..Len(hooks') : Claimed(hooks'[i].dir)
  <2>1. CASE UNCHANGED hooks
    BY <2>1 DEF Announced
  <2>2. ASSUME NEW s \in Session, NEW d \in Dir, PostHook(s, d)
        PROVE  \A i \in 1..Len(hooks') : Claimed(hooks'[i].dir)
    <3>1. Claimed(d) /\ [sess |-> s, dir |-> d] \in Hook
      BY <2>2 DEF PostHook, Routed, Claimed, Hook
    <3>2. /\ hooks' = Append(hooks, [sess |-> s, dir |-> d])
          /\ Len(hooks') = Len(hooks) + 1 /\ Len(hooks) \in Nat
          /\ \A i \in 1..Len(hooks) : hooks'[i] = hooks[i]
          /\ hooks'[Len(hooks) + 1] = [sess |-> s, dir |-> d]
      BY <1>2, <2>2, <3>1, AppendProperties DEF PostHook
    <3> QED  BY <3>1, <3>2 DEF Announced
  <2>3. CASE TakeHook
    <3>1. /\ hooks # << >> /\ hooks' = Tail(hooks)
          /\ Len(hooks') = Len(hooks) - 1 /\ Len(hooks) \in Nat
          /\ \A i \in 1..Len(hooks') : hooks'[i] = hooks[i + 1]
      BY <1>2, <2>3, HeadTailProperties DEF TakeHook
    <3> QED  BY <3>1 DEF Announced
  <2>4. CASE Crash
    BY <2>4 DEF Crash
  <2> QED
    BY <2>1, <2>2, <2>3, <2>4, MergeDoes
    DEF Next, Environment, StartLine, WriteLine, Delete, Touch, OtherToolWrites, Notify, Restart,
        Drain, TakeWatch, Ingest, Load, Read, ReadRejected, ReadNothing, ReadPoison, ReadLines,
        InsertBatch, SaveCursor, Publish, StepFails, events, vars
<1>5. \A c \in Source(pos) : c.dir = Home
  <2>1. \A f, n : CursorAt(f, n).dir = Home
    BY DEF CursorAt
  <2>2. ASSUME NEW c \in Source(pos) PROVE \E f, n : c = CursorAt(f, n)
    <3>1. CASE pos.at \in File /\ Exists(pos.at)
      BY <3>1 DEF Source
    <3>2. CASE ~(pos.at \in File /\ Exists(pos.at))
      BY <3>2 DEF Source
    <3> QED  BY <3>1, <3>2
  <2> QED  BY <2>1, <2>2
<1>6. \A s \in Session : Claimed(cursor'[s].dir)
  <2>1. CASE UNCHANGED cursor
    BY <2>1 DEF Announced
  <2>2. ASSUME NEW s \in Session, NEW c, cursor' = [cursor EXCEPT ![s] = c], Claimed(c.dir)
        PROVE  \A t \in Session : Claimed(cursor'[t].dir)
    BY <1>2, <2>2 DEF Announced
  <2>3. CASE TakeWatch
    BY <1>1, <1>2, <2>1, <2>2, <2>3 DEF TakeWatch
  <2>4. CASE ReadNothing
    <3>0. CursorAt(Blank, 0).dir = Home
      BY DEF CursorAt
    <3>1. PICK c : cursor' = [cursor EXCEPT ![sess] = c] /\ c.dir = Home
      BY <1>5, <2>4, <3>0, Zenon DEF ReadNothing
    <3> QED  BY <1>1, <1>2, <2>2, <3>1
  <2>5. CASE SaveCursor
    BY <1>2, <2>2, <2>5 DEF SaveCursor, Announced
  <2>6. CASE MergeProjectDir
    BY <2>1, <2>2, <2>6, MergeWrites DEF IInv, Announced
  <2>7. CASE Outside \/ TakeHook \/ ReadRejected \/ ReadPoison \/ Publish \/ StepFails
             \/ Crash \/ Load \/ ReadLines \/ InsertBatch
    <3>1. UNCHANGED cursor
      BY <2>7, OutsideLeaves DEF TakeHook, ReadRejected, ReadPoison, Publish, StepFails,
                  Crash, Load, ReadLines, InsertBatch, disk
    <3> QED  BY <2>1, <3>1
  <2> QED
    BY <2>3, <2>4, <2>5, <2>6, <2>7 DEF Next, Outside, Drain, Ingest, Read
<1>7. Claimed(dir')
  <2>1. CASE dir' \in {dir, Home}
    BY <1>1, <2>1 DEF Announced
  <2>2. CASE TakeHook
    <3>1. hooks # << >> /\ Head(hooks) = hooks[1] /\ 1 \in 1..Len(hooks) /\ dir' = Head(hooks).dir
      BY <1>2, <2>2, HeadTailProperties DEF TakeHook
    <3> QED  BY <3>1 DEF Announced
  <2>3. CASE TakeWatch
    <3>1. PICK c \in Cursor : c = cursor'[Default] /\ dir' \in {InferDir(c), Home}
      BY <1>2, <2>3 DEF TakeWatch, IInv, TypeOK
    <3>2. Claimed(c.dir)
      BY <1>2, <1>6, <3>1
    <3>3. c.at \in File => Exists(c.at)
      BY <1>2, <2>3, <3>1 DEF TakeWatch, Standing, NoCursor, CursorAt
    <3>4. ASSUME c.dir = Home, c.at \in File PROVE Claimed(Decoded[Owner[c.at]])
      <4>1. c.at \in FilesOf(Owner[c.at])
        BY <3>3, <3>4 DEF FilesOf
      <4>2. Decoded[Owner[c.at]] \in {Owner[c.at], Home}
        BY <3>4 DEF Routed
      <4> QED  BY <1>1, <4>1, <4>2 DEF Claimed
    <3> QED  BY <1>1, <3>1, <3>2, <3>4 DEF InferDir
  <2> QED
    BY <2>1, <2>2, <2>3, OutsideLeaves, MergeDoes
    DEF Next, Outside, Drain, Ingest, Load, Read, ReadRejected, ReadNothing, ReadPoison,
        ReadLines, InsertBatch, SaveCursor, Publish, StepFails, Crash,
        Finish, work
<1>8. Claimed(pos'.dir)
  <2>1. CASE UNCHANGED pos \/ pos'.dir = Home
    BY <1>1, <2>1 DEF Announced
  <2>2. CASE Load
    <3>1. pos' = cursor[sess] \/ pos'.dir = Home
      BY <2>2 DEF Load, Reseed, CursorAt
    <3> QED  BY <1>1, <1>2, <3>1 DEF Announced
  <2>3. CASE Finish \/ ReadLines
    BY <1>1, <2>1, <2>3 DEF Finish, ReadLines, CursorAt
  <2>4. CASE Outside
    BY <2>1, <2>4, OutsideLeaves DEF work
  <2> QED
    BY <2>1, <2>2, <2>3, <2>4, MergeDoes
    DEF Next, Outside, Drain, TakeHook, TakeWatch, Ingest, Read, ReadRejected, ReadNothing,
        ReadPoison, InsertBatch, SaveCursor, Publish, StepFails, Crash
<1> QED  BY <1>3, <1>4, <1>6, <1>7, <1>8

LEMMA AnnouncedStep ==
  ASSUME Routed, IInv, Standing, Announced, [Next]_vars PROVE Announced'
<1>1. IInv' /\ \A d \in Dir : Claimed(d) => Claimed(d)'
  BY IInvStep, ClaimedStable DEF Routed
<1>2. /\ \A i \in 1..Len(hooks') : hooks'[i].dir \in Dir
      /\ dir' \in Dir /\ pos'.dir \in Dir
  <2>1. hooks' \in Seq(Hook) /\ dir' \in Dir /\ pos' \in Cursor
    BY <1>1 DEF IInv, TypeOK
  <2>2. \A i \in 1..Len(hooks') : hooks'[i] \in Hook
    BY <2>1
  <2> QED  BY <2>1, <2>2 DEF Hook, Cursor
<1> QED  BY <1>1, <1>2, NamesStep DEF Announced

(* Reading for a project begins in its newest transcript and stays in it. *)
LEMMA OfOwnerStep ==
  ASSUME Routed, IInv, Standing, Aged, Announced, OfOwner, [Next]_vars PROVE OfOwner'
<1>1. \A d \in Dir : FilesOf(d) \subseteq FilesOf(d)'
  BY ClaimedStable DEF Routed
<1>2. ASSUME ~Reading' PROVE OfOwner'
  BY <1>2 DEF OfOwner
<1>3. ASSUME Reading, dir' = dir, pos'.at = pos.at PROVE OfOwner'
  BY <1>1, <1>3 DEF OfOwner, Dir
<1>4. CASE Outside
  <2>1. UNCHANGED <<pc, dir, pos>>
    BY <1>4, OutsideLeaves DEF work
  <2> QED  BY <2>1, <1>2, <1>3 DEF Reading
<1>5. CASE TakeHook \/ TakeWatch \/ ReadRejected \/ ReadNothing \/ ReadPoison \/ Publish
           \/ StepFails \/ Crash
  <2>1. pc' \in {"idle", "load"}
    BY <1>5 DEF TakeHook, TakeWatch, ReadRejected, ReadNothing, ReadPoison, Publish, StepFails,
                Crash, Finish
  <2> QED  BY <2>1, <1>2 DEF Reading
<1>6. CASE Load
  <2> SUFFICES ASSUME dir' \in Project PROVE (pos.at \in FilesOf(dir))'
    BY DEF OfOwner
  <2>1. dir' = dir /\ dir \in Dir /\ dir # Home
    BY <1>6 DEF Load, Dir
  <2>2. Newest(FilesOf(dir)) # {}
    BY <2>1 DEF Announced, Claimed, Aged
  <2>3. PICK c \in Reseed(cursor[sess], dir) : pos' = c
    BY <1>6 DEF Load
  <2>4. c.at \in Newest(FilesOf(dir))
    BY <2>1, <2>2, <2>3 DEF Reseed, CursorAt
  <2>5. pos'.at \in FilesOf(dir)
    BY <2>3, <2>4 DEF Newest
  <2> QED  BY <1>1, <2>1, <2>5
<1>7. CASE ReadLines
  <2> SUFFICES ASSUME dir' \in Project PROVE (pos.at \in FilesOf(dir))'
    BY DEF OfOwner
  <2>1. dir' = dir /\ dir \in Dir /\ Reading
    BY <1>7 DEF ReadLines, Dir, Reading
  <2>2. pos.at \in FilesOf(dir) /\ pos.at \in File
    BY <2>1 DEF OfOwner, FilesOf
  <2>3. pos'.at = pos.at
    BY <1>7, <2>1, <2>2, SourceInHand DEF ReadLines, CursorAt
  <2> QED  BY <1>1, <2>1, <2>2, <2>3
<1>8. CASE InsertBatch \/ SaveCursor \/ MergeProjectDir
  BY <1>3, <1>8, MergeDoes DEF InsertBatch, SaveCursor, Reading
<1> QED
  BY <1>4, <1>5, <1>6, <1>7, <1>8 DEF Next, Outside, Drain, Ingest, Read

LEMMA PublishedStep ==
  ASSUME IInv, OfOwner, PublishedToOwner, [Next]_vars PROVE PublishedToOwner'
<1>1. CASE Publish
  <2> SUFFICES ASSUME NEW p \in Project, NEW r \in shown'[p] PROVE Owner[r[1]] = p
    BY DEF PublishedToOwner
  <2>1. PICK rows : /\ shown' = [shown EXCEPT ![Home] = rows, ![dir] = rows]
                    /\ \A x \in rows : x[1] = pos.at
    BY <1>1 DEF Publish
  <2>2. shown \in [Dir -> SUBSET Row] /\ p \in Dir /\ p # Home
    BY DEF IInv, TypeOK, Dir
  <2>3. CASE p = dir
    <3>1. pos.at \in FilesOf(p)
      BY <1>1, <2>3 DEF Publish, OfOwner, Reading
    <3>2. r \in rows
      BY <2>1, <2>2, <2>3
    <3> QED  BY <2>1, <3>1, <3>2 DEF FilesOf
  <2>4. CASE p # dir
    BY <2>1, <2>2, <2>4 DEF PublishedToOwner
  <2> QED  BY <2>3, <2>4
<1>2. CASE UNCHANGED shown
  BY <1>2 DEF PublishedToOwner
<1>3. \/ Publish
      \/ UNCHANGED shown
  BY OutsideLeaves, MergeDoes
  DEF Next, Outside, Drain, TakeHook, TakeWatch, Ingest, Load, Read, ReadRejected, ReadNothing,
      ReadPoison, ReadLines, InsertBatch, SaveCursor, StepFails, Crash, disk
<1> QED  BY <1>1, <1>2, <1>3

(* No project's handoff is ever made from another project's transcripts, whatever
   goes through the default cursor in between, if hooks come from directories that
   have a transcript, none is deleted and no slug decodes to another project
   (pipeline.rs:130-181). *)
THEOREM OwnerOnly == ASSUME Routed PROVE Spec => []PublishedToOwner
<1>1. Init => Standing /\ Sharing
  BY InitStanding, InitSharing
<1>2. IInv /\ Standing /\ Sharing /\ [Next]_vars => (Standing /\ Sharing)'
  BY StandingStep, AgedStep, AnnouncedStep, OfOwnerStep, PublishedStep DEF Sharing, Routed
<1>3. Sharing => PublishedToOwner
  BY DEF Sharing
<1> QED
  BY <1>1, <1>2, <1>3, Inductive, PTL DEF Spec
-----------------------------------------------------------------------------
(* The rows taken under s of the transcript f are on its first n lines. *)
UpTo(s, f, n) == \A r \in taken[s] : r[1] = f => r[2] <= n

(* What was taken under a session id is of the transcript its cursor points into
   and lies below the cursor; while the drain task works under that id, below
   where it goes on. *)
Unrepeated ==
  /\ \A s \in Session : ~(pc = "save" /\ s = sess) =>
       /\ \A r \in taken[s] : r[1] = cursor[s].at
       /\ UpTo(s, cursor[s].at, cursor[s].off)
  /\ pc = "read" => UpTo(sess, pos.at, pos.off)
  /\ pc = "insert" => UpTo(sess, pos.at, from)
  /\ pc = "save" => (\A r \in taken[sess] : r[1] = pos.at) /\ UpTo(sess, pos.at, pos.off)

(* As long as nothing befalls the daemon; then no record is kept any more. *)
Unhurt == IF hurt THEN \A s \in Session : taken[s] = {}
                  ELSE Standing /\ Ahead /\ Unrepeated

LEMMA InitUnhurt == Init => Unhurt
BY InitStanding DEF Init, Unhurt, Unrepeated, UpTo

(* Wherever a read starts, what was taken under the id in hand lies before it:
   with a cursor that points nowhere nothing was taken. *)
LEMMA SourceUpTo ==
  ASSUME IInv, Standing, Ahead, Unrepeated, pc = "read", NEW c \in Source(pos)
  PROVE  UpTo(sess, c.at, c.off)
<1>1. CASE pos.at \in File
  BY <1>1, SourceInHand DEF Reading, CursorAt, Unrepeated
<1>2. CASE pos.at \notin File
  <2>1. pos = cursor[sess] /\ sess \in Session
    BY <1>2 DEF Ahead, IInv, TypeOK
  <2>2. \A r \in taken[sess] : r[1] \in File /\ r[1] = pos.at
    BY <2>1 DEF Unrepeated, IInv, TypeOK, Row
  <2> QED  BY <1>2, <2>2 DEF UpTo
<1> QED  BY <1>1, <1>2

(* What becomes of the record in a step. *)
LEMMA RecordStep ==
  ASSUME [Next]_vars
  PROVE  \/ Excused \/ UNCHANGED <<hurt, taken>>
         \/ UNCHANGED hurt /\ (ReadNothing \/ InsertBatch)
<1>1. CASE Environment \/ (\E r \in BOOLEAN : Notify(r)) \/ Restart \/ Crash \/ StepFails
           \/ UNCHANGED vars
  BY <1>1 DEF Environment, StartLine, WriteLine, Delete, Touch, OtherToolWrites, PostHook, Notify,
              Restart, Crash, StepFails, env, vars
<1>2. CASE TakeWatch
  BY <1>2, Zenon DEF TakeWatch
<1>3. CASE MergeProjectDir
  BY <1>3, MergeDoes DEF env
<1>4. CASE TakeHook \/ Load \/ ReadRejected \/ ReadPoison \/ ReadLines \/ SaveCursor \/ Publish
  BY <1>4 DEF TakeHook, Load, ReadRejected, ReadPoison, ReadLines, SaveCursor, Publish, env
<1>5. CASE ReadNothing \/ InsertBatch
  BY <1>5 DEF ReadNothing, InsertBatch
<1> QED
  BY <1>1, <1>2, <1>3, <1>4, <1>5 DEF Next, Drain, Ingest, Read

(* What befalls the daemon ends the record, and it is not taken up again. *)
LEMMA RecordEnds ==
  ASSUME IInv, [Next]_vars, hurt', hurt => \A s \in Session : taken[s] = {}
  PROVE  \A s \in Session : taken'[s] = {}
<1>1. CASE Excused
  BY <1>1 DEF Excused
<1>2. CASE UNCHANGED <<hurt, taken>>
  BY <1>2
<1>3. CASE UNCHANGED hurt /\ (ReadNothing \/ InsertBatch)
  <2>1. \A f : Of(f) = {}
    BY <1>3 DEF Of, IInv, TypeOK
  <2>2. taken' = [taken EXCEPT ![sess] = {}]
    BY <1>3, <2>1 DEF ReadNothing, InsertBatch
  <2> QED  BY <1>3, <2>2 DEF IInv, TypeOK
<1> QED
  BY <1>1, <1>2, <1>3, RecordStep

(* Nor is what befell it forgotten. *)
LEMMA HurtStays == ASSUME [Next]_vars, hurt PROVE hurt'
BY RecordStep DEF Excused

(* One case per kind of step: what it does to the record, the stored cursor and
   the cursor in hand. *)
LEMMA UnrepeatedStep ==
  ASSUME IInv, Standing, Ahead, Unrepeated, [Next]_vars, ~hurt'
  PROVE  Unrepeated'
<1>1. /\ cursor \in [Session -> Cursor] /\ sess \in Session /\ Default \in Session
      /\ taken \in [Session -> SUBSET Row]
  BY DEF IInv, TypeOK
<1>2. ASSUME UNCHANGED taken PROVE \A s, f, n : UpTo(s, f, n) => UpTo(s, f, n)'
  BY <1>2 DEF UpTo
<1>3. CASE Outside
  <2>1. UNCHANGED <<cursor, taken, pc, sess, pos, from>>
    BY <1>3, OutsideLeaves
    DEF Outside, Environment, StartLine, WriteLine, Delete, Touch, Excused, OtherToolWrites,
        PostHook, Notify, Restart, vars, env, disk, work
  <2> QED  BY <2>1, <1>2 DEF Unrepeated
<1>4. CASE TakeHook \/ TakeWatch \/ ReadRejected \/ ReadPoison \/ Publish
  <2>1. UNCHANGED <<cursor, taken>> /\ pc' \in {"idle", "load"} /\ pc # "save"
    BY <1>4 DEF TakeHook, TakeWatch, ReadRejected, ReadPoison, Publish, Finish, Excused, disk, env
  <2> QED  BY <2>1, <1>2 DEF Unrepeated
<1>5. CASE Load
  <2>1. UNCHANGED <<cursor, taken, sess>> /\ pc = "load" /\ pc' = "read"
    BY <1>5 DEF Load, disk, env
  <2>2. PICK x \in Reseed(cursor[sess], dir) : pos' = x
    BY <1>5 DEF Load
  <2>3. x = cursor[sess] \/ x.at # cursor[sess].at
    BY DEF Reseed, CursorAt
  <2>4. UpTo(sess, x.at, x.off)
    BY <1>1, <2>1, <2>3 DEF Unrepeated, UpTo
  <2> QED  BY <2>1, <2>2, <2>4, <1>2 DEF Unrepeated
<1>6. CASE ReadNothing
  <2>1. pc = "read" /\ pc' = "idle"
    BY <1>6 DEF ReadNothing, Finish
  <2>2. PICK x : /\ cursor' = [cursor EXCEPT ![sess] = x]
                 /\ taken' = [taken EXCEPT ![sess] = Of(cursor'[sess].at)]
                 /\ UpTo(sess, x.at, x.off)
    <3>1. ASSUME Source(pos) = {} PROVE UpTo(sess, Blank, 0)
      BY <1>1 DEF UpTo, Row
    <3>2. CursorAt(Blank, 0).at = Blank /\ CursorAt(Blank, 0).off = 0
      BY DEF CursorAt
    <3> QED  BY <1>6, <2>1, <3>1, <3>2, SourceUpTo DEF ReadNothing
  <2>3. cursor'[sess] = x /\ taken'[sess] = Of(x.at)
    BY <1>1, <2>2
  <2>4. ASSUME NEW s \in Session
        PROVE  (\A r \in taken'[s] : r[1] = cursor'[s].at) /\ UpTo(s, cursor[s].at, cursor[s].off)'
    <3>1. CASE s = sess
      BY <2>2, <2>3, <3>1 DEF Of, UpTo
    <3>2. CASE s # sess
      <4>1. cursor'[s] = cursor[s] /\ taken'[s] = taken[s]
        BY <1>1, <2>2, <3>2
      <4> QED  BY <2>1, <4>1 DEF Unrepeated, UpTo
    <3> QED  BY <3>1, <3>2
  <2> QED  BY <2>1, <2>4 DEF Unrepeated
<1>7. CASE ReadLines
  <2>1. UNCHANGED <<cursor, taken, sess>> /\ pc = "read" /\ pc' = "insert"
    BY <1>7 DEF ReadLines, disk, env
  <2>2. PICK x \in Source(pos) : pos'.at = x.at /\ from' = x.off
    BY <1>7 DEF ReadLines, CursorAt
  <2>3. UpTo(sess, x.at, x.off)
    BY <2>1, SourceUpTo
  <2> QED  BY <2>1, <2>2, <2>3, <1>2 DEF Unrepeated
<1>8. CASE InsertBatch
  <2>1. /\ pc = "insert" /\ pc' = "save" /\ UNCHANGED <<cursor, sess, pos>>
        /\ taken' = [taken EXCEPT ![sess] = Of(pos.at) \cup Batch]
    BY <1>8, HurtStays DEF InsertBatch
  <2>2. /\ UpTo(sess, pos.at, from) /\ from \in Nat /\ pos.off \in Nat /\ from <= pos.off
    BY <2>1 DEF Unrepeated, IInv, WorkBacked, TypeOK, Cursor
  <2>3. taken'[sess] = Of(pos.at) \cup Batch /\ \A s \in Session \ {sess} : taken'[s] = taken[s]
    BY <1>1, <2>1
  <2>4. \A r \in Batch : r[1] = pos.at /\ r[2] <= pos.off
    BY <2>2 DEF Batch, Turns
  <2>5. \A r \in Of(pos.at) : r[1] = pos.at /\ r[2] <= pos.off
    <3>1. \A r \in Of(pos.at) : r[1] = pos.at /\ r[2] \in Nat /\ r[2] <= from
      BY <1>1, <2>2 DEF Of, UpTo, Row
    <3> QED  BY <2>2, <3>1
  <2>6. (\A r \in taken[sess] : r[1] = pos.at)' /\ UpTo(sess, pos.at, pos.off)'
    BY <2>1, <2>3, <2>4, <2>5 DEF UpTo
  <2>7. ASSUME NEW s \in Session, s # sess
        PROVE  (\A r \in taken'[s] : r[1] = cursor'[s].at) /\ UpTo(s, cursor[s].at, cursor[s].off)'
    BY <2>1, <2>3, <2>7 DEF Unrepeated, UpTo
  <2> QED  BY <2>1, <2>6, <2>7 DEF Unrepeated
<1>9. CASE SaveCursor
  <2>1. /\ UNCHANGED <<taken, pos, sess>> /\ pc = "save" /\ pc' \in {"merge", "publish"}
        /\ cursor' = [cursor EXCEPT ![sess] = pos]
    BY <1>9 DEF SaveCursor, env
  <2>2. cursor'[sess] = pos /\ \A s \in Session \ {sess} : cursor'[s] = cursor[s]
    BY <1>1, <2>1
  <2> QED  BY <2>1, <2>2, <1>2 DEF Unrepeated
<1>10. CASE MergeProjectDir
  <2>1. UNCHANGED taken /\ pc = "merge" /\ pc' = "publish" /\ ~MergeUnread
    BY <1>10, MergeDoes DEF MergeUnread, Excused, env
  <2>2. \A s \in Session : cursor'[s].at = cursor[s].at /\ cursor'[s].off = cursor[s].off
    BY <1>10, <2>1, MergeLeavesPlaces DEF IInv
  <2> QED  BY <2>1, <2>2 DEF Unrepeated, UpTo
<1>11. ~StepFails /\ ~Crash
  BY DEF StepFails, Crash, Excused
<1> QED
  BY <1>3, <1>4, <1>5, <1>6, <1>7, <1>8, <1>9, <1>10, <1>11
  DEF Next, Outside, Drain, Ingest, Read

(* Whatever is about to be inserted lies behind what was taken. *)
LEMMA UnhurtOnce == ASSUME IInv, Unhurt PROVE NoRepeat
<1> SUFFICES ASSUME pc = "insert" PROVE taken[sess] \cap Batch = {}
  BY DEF NoRepeat
<1>1. sess \in Session /\ taken[sess] \subseteq Row
  BY DEF IInv, TypeOK
<1>2. CASE hurt
  BY <1>1, <1>2 DEF Unhurt
<1>3. CASE ~hurt
  <2>1. UpTo(sess, pos.at, from) /\ from \in Nat /\ pos.off \in Nat
    BY <1>3 DEF Unhurt, Unrepeated, IInv, WorkBacked, TypeOK, Cursor
  <2>2. \A r \in Batch : r[1] = pos.at /\ r[2] \in Nat /\ r[2] > from
    BY <2>1 DEF Batch, Turns
  <2> QED  BY <2>1, <2>2 DEF UpTo
<1> QED  BY <1>2, <1>3

(* However hooks and watch events repeat, race and pile up, and however many
   projects, transcripts and session ids there are: as long as nothing befalls the
   daemon, an id whose cursor stays with a transcript takes none of its rows twice.
   Nothing looks for duplicates (pipeline.rs:236-245): what keeps them out is that
   no cursor falls behind what was inserted under it. *)
THEOREM OnceEach == Spec => []NoRepeat
<1>1. Init => Unhurt
  BY InitUnhurt
<1>2. IInv /\ Unhurt /\ [Next]_vars => Unhurt'
  <2> SUFFICES ASSUME IInv, Unhurt, [Next]_vars PROVE Unhurt'
    OBVIOUS
  <2>1. CASE hurt'
    BY <2>1, RecordEnds DEF Unhurt
  <2>2. CASE ~hurt'
    <3>1. Standing /\ Ahead /\ Unrepeated
      BY <2>2, HurtStays DEF Unhurt
    <3> QED  BY <2>2, <3>1, StandingStep, AheadStep, UnrepeatedStep DEF Unhurt
  <2> QED  BY <2>1, <2>2
<1>3. IInv /\ Unhurt => NoRepeat
  BY UnhurtOnce
<1> QED
  BY <1>1, <1>2, <1>3, Inductive, PTL DEF Spec
=============================================================================
