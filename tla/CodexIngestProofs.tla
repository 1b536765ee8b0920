------------------------- MODULE CodexIngestProofs --------------------------
(***************************************************************************)
(* Proofs about CodexIngest, for any projects, rollouts, contents, cap and *)
(* faults: type correctness; nothing is missing below the two offsets of   *)
(* the stored cursor; neither offset goes back; and the project a cursor   *)
(* names is its rollout's.                                                 *)
(***************************************************************************)
EXTENDS CodexIngest, TLAPS

Named(c) == c.at \in File => c.dir \in {Home, Owner[c.at]}

(* The cursor in hand: what it started from is backed, and is the stored cursor
   unless it is pointed at another rollout; it only moves ahead, up to what has
   been written; and once the batch is inserted it is backed as well. *)
InHand ==
  /\ pc # "idle" => Backed(from) /\ Named(from) /\ Named(pos) /\ from.at = pos.at
  /\ pc = "rollout" => pos = from
  /\ pc = "history" => pos.hist = from.hist
  /\ pc \in {"rollout", "history", "insert", "save"} /\ from.at = cursor.at
       => from.off = cursor.off /\ from.hist = cursor.hist
  /\ pc \in {"history", "insert", "save", "publish"} =>
       /\ pos.at \in File
       /\ from.off <= pos.off /\ pos.off <= lines[pos.at]
       /\ from.hist <= pos.hist /\ pos.hist <= lines[History]
  /\ pc \in {"save", "publish"} => Backed(pos)

IInv == TypeOK /\ CursorBacked /\ KnowsProject /\ InHand

LEMMA CursorFacts ==
  ASSUME NEW c \in Cursor
  PROVE  /\ c.off \in Nat /\ c.off <= MaxLines /\ c.hist \in Nat /\ c.hist <= MaxLines
         /\ c.at \in File \cup {Blank} /\ c.dir \in Dir
BY CodexAssumption DEF Cursor

LEMMA NoCursorFacts ==
  /\ NoCursor \in Cursor /\ NoCursor.at \notin File /\ NoCursor.off = 0 /\ NoCursor.hist = 0
BY CodexAssumption DEF NoCursor, Cursor, Dir

LEMMA LinesFacts ==
  ASSUME TypeOK
  PROVE  \A g \in Log : lines[g] \in Nat /\ lines[g] <= MaxLines
BY CodexAssumption DEF TypeOK

(* What an event starts from. *)
LEMMA Start ==
  ASSUME TypeOK, NEW c \in Cursor, NEW d \in Dir, NEW e \in Reseed(c, d), Backed(c), Named(c)
  PROVE  e \in Cursor /\ Backed(e) /\ Named(e) /\ (e = c \/ e.at # c.at)
<1>1. CASE e = c
  BY <1>1
<1>2. CASE e # c
  <2>1. PICK f \in Candidate(d) : e = [NoCursor EXCEPT !.at = f] /\ f # c.at
    BY <1>2 DEF Reseed
  <2>2. f \in File
    BY DEF Candidate, Newest
  <2>3. e \in Cursor /\ e.at = f /\ e.off = 0 /\ e.hist = 0 /\ e.dir = Home
    <3>1. e = [at |-> f, off |-> 0, hist |-> 0, dir |-> Home]
      BY <2>1 DEF NoCursor
    <3>2. 0 \in 0..MaxLines /\ Home \in Dir
      BY CodexAssumption DEF Dir
    <3> QED
      BY <3>1, <3>2, <2>2 DEF Cursor
  <2>4. Backed(e)
    <3>1. \A i \in Says[f] : i > 0 /\ i \in Nat
      BY <2>2, CodexAssumption
    <3>2. lines[f] \in Nat /\ lines[History] \in Nat
      BY <2>2, LinesFacts DEF Log
    <3> QED
      BY <2>2, <2>3, <3>1, <3>2 DEF Backed
  <2> QED
    BY <2>1, <2>3, <2>4 DEF Named
<1> QED
  BY <1>1, <1>2

(* A batch are rows, and it is what lies between two cursors. *)
LEMMA BetweenRows ==
  ASSUME NEW a \in Cursor, NEW b \in Cursor, b.at \in File
  PROVE  Between(a, b) \subseteq Row
<1>1. \A i \in Says[b.at] : i \in 1..MaxLines
  BY CodexAssumption
<1>2. \A i \in (a.hist + 1)..b.hist : i \in 1..MaxLines
  BY CursorFacts, CodexAssumption
<1> QED
  BY <1>1, <1>2 DEF Between, Row, Log

LEMMA InitIInv == Init => IInv
<1> SUFFICES ASSUME Init PROVE IInv
  OBVIOUS
<1>1. TypeOK
  BY CodexAssumption, NoCursorFacts DEF Init, TypeOK, Dir
<1>2. CursorBacked /\ KnowsProject
  BY NoCursorFacts DEF Init, CursorBacked, KnowsProject, Backed, Log
<1>3. InHand
  BY DEF Init, InHand
<1> QED
  BY <1>1, <1>2, <1>3 DEF IInv

LEMMA TypeStep == IInv /\ [Next]_vars => TypeOK'
<1> SUFFICES ASSUME IInv, [Next]_vars PROVE TypeOK'
  OBVIOUS
<1> USE DEF IInv
<1>0. NoCursor \in Cursor /\ Home \in Dir
  BY NoCursorFacts DEF Dir
<1>a. ASSUME NEW g \in Log, Touch(g)
      PROVE  /\ rank' \in [File -> Nat]
             /\ cursor' = cursor /\ ledger' = ledger /\ shown' = shown
             /\ pc' = pc /\ dir' = dir /\ from' = from /\ pos' = pos
  BY <1>a DEF Touch, TypeOK, disk, work
<1>b. ASSUME NEW c \in Cursor, NEW d \in Dir, Load(c, d), Backed(c), Named(c)
      PROVE  from' \in Cursor /\ pos' \in Cursor /\ dir' \in Dir /\ pc' = "rollout"
  BY <1>b, Start DEF Load
<1>c. ASSUME Finish PROVE from' \in Cursor /\ pos' \in Cursor /\ dir' \in Dir /\ pc' = "idle"
  BY <1>0, <1>c DEF Finish
<1>1. ASSUME NEW f \in File, Create(f) PROVE TypeOK'
  <2>1. f \in Log
    BY DEF Log
  <2> QED
    BY <1>1, <2>1, <1>a DEF Create, TypeOK
<1>2. ASSUME NEW g \in Log, StartLine(g) PROVE TypeOK'
  <2>1. tail' \in [Log -> BOOLEAN]
    BY <1>2 DEF StartLine, TypeOK
  <2> QED
    BY <1>2, <2>1, <1>a DEF StartLine, TypeOK
<1>3. ASSUME NEW g \in Log, WriteLine(g) PROVE TypeOK'
  <2>1. tail' \in [Log -> BOOLEAN]
    BY <1>3 DEF WriteLine, TypeOK
  <2>2. lines[g] + 1 \in 0..MaxLines
    BY <1>3, LinesFacts, CodexAssumption DEF WriteLine
  <2>3. lines' \in [Log -> 0..MaxLines]
    BY <1>3, <2>2 DEF WriteLine, TypeOK
  <2> QED
    BY <1>3, <2>1, <2>3, <1>a DEF WriteLine, TypeOK
<1>4. ASSUME NEW f \in File, Delete(f) PROVE TypeOK'
  <2>1. rank' \in [File -> Nat]
    BY <1>4 DEF Delete, TypeOK
  <2> QED
    BY <1>4, <2>1 DEF Delete, TypeOK, disk, work
<1>5. CASE TakeWatch
  <2>1. cursor.dir \in Dir
    BY CursorFacts DEF TypeOK
  <2> QED
    BY <1>5, <2>1, <1>b DEF TakeWatch, TypeOK, env, disk, CursorBacked, KnowsProject, Named
<1>6. CASE TakeRescan
  <2>1. Backed(NoCursor) /\ Named(NoCursor)
    BY NoCursorFacts, LinesFacts DEF Backed, Named, Log
  <2> QED
    BY <1>6, <2>1, <1>0, <1>b DEF TakeRescan, TypeOK, env
<1>7. ASSUME NEW d \in Dir, TakeHook(d) PROVE TypeOK'
  BY <1>7, <1>b DEF TakeHook, TypeOK, env, disk, CursorBacked, KnowsProject, Named
<1>8. CASE ReadNowhere
  BY <1>8, <1>c DEF ReadNowhere, TypeOK, env, disk
<1>9. CASE ReadFails
  BY <1>9, <1>c DEF ReadFails, TypeOK, env, disk
<1>10. CASE ReadRollout
  <2>1. PICK e \in Ends(pos.at, pos.off) : pos' = [pos EXCEPT !.off = e]
    BY <1>10 DEF ReadRollout
  <2>2. e \in 0..MaxLines
    <3>1. pos.off \in Nat /\ lines[pos.at] \in Nat /\ lines[pos.at] <= MaxLines
      BY <1>10, CursorFacts, LinesFacts DEF ReadRollout, TypeOK, Log
    <3>2. e \in pos.off..lines[pos.at]
      BY <2>1 DEF Ends
    <3> QED
      BY <3>1, <3>2, CodexAssumption
  <2>3. pos' \in Cursor
    BY <2>1, <2>2 DEF Cursor, TypeOK
  <2> QED
    BY <1>10, <2>3 DEF ReadRollout, TypeOK, env, disk
<1>d. ASSUME NEW h \in 0..MaxLines, pc = "history" PROVE Advanced(h) \in Cursor
  <2>1. pos.at \in File /\ Owner[pos.at] \in Dir
    BY <1>d, CodexAssumption DEF InHand
  <2> QED
    BY <2>1 DEF Advanced, Cursor, TypeOK
<1>11. CASE ReadNothing
  BY <1>11, <1>c, <1>d DEF ReadNothing, TypeOK, env
<1>12. CASE ReadHistory
  <2>1. pos' \in Cursor
    BY <1>12, <1>d DEF ReadHistory
  <2> QED
    BY <1>12, <2>1 DEF ReadHistory, TypeOK, env, disk
<1>13. CASE Insert
  <2>1. ledger' \subseteq Row
    BY <1>13, BetweenRows DEF Insert, TypeOK, InHand
  <2> QED
    BY <1>13, <2>1 DEF Insert, TypeOK, env
<1>14. CASE SaveCursor
  BY <1>14 DEF SaveCursor, TypeOK, env
<1>15. CASE Publish
  <2>1. FirstOf(Between(from, pos)) \subseteq File
    <3>1. pos.at \in File
      BY <1>15 DEF Publish, InHand
    <3>2. \A r \in Between(from, pos) : r \in Row
      BY <3>1, BetweenRows DEF TypeOK
    <3>3. \A r \in Row : By[r[2]] \in File
      BY CodexAssumption DEF Row
    <3> QED
      BY <3>1, <3>2, <3>3 DEF FirstOf
  <2>2. shown' \in [Dir -> SUBSET File]
    BY <1>15, <2>1 DEF Publish, TypeOK
  <2> QED
    BY <1>15, <2>2, <1>c DEF Publish, TypeOK, env
<1>16. CASE Stop
  BY <1>16, <1>c DEF Stop, TypeOK, env, disk
<1>17. CASE UNCHANGED vars
  BY <1>17 DEF vars, TypeOK
<1> QED
  BY <1>1, <1>2, <1>3, <1>4, <1>5, <1>6, <1>7, <1>8, <1>9, <1>10, <1>11, <1>12, <1>13,
     <1>14, <1>15, <1>16, <1>17 DEF Next, Codex, Take, Read

(* Logs and the ledger only grow, and what is backed stays so. *)
LEMMA BackedStays ==
  ASSUME TypeOK, [Next]_vars, NEW c \in Cursor, Backed(c)
  PROVE  /\ \A g \in Log : lines[g] <= lines'[g] /\ lines'[g] \in Nat
         /\ c.at \in File => /\ c.off <= lines'[c.at]
                             /\ \A i \in Says[c.at] : i <= c.off => <<c.at, i>> \in ledger'
         /\ c.hist <= lines'[History]
         /\ \A i \in 1..c.hist : <<History, i>> \in ledger'
<1>1. \A g \in Log : lines[g] <= lines'[g] /\ lines'[g] \in Nat
  <2>1. ASSUME NEW h \in Log, lines' = [lines EXCEPT ![h] = @ + 1]
        PROVE  \A g \in Log : lines[g] <= lines'[g] /\ lines'[g] \in Nat
    BY <2>1, LinesFacts DEF TypeOK
  <2>2. ASSUME lines' = lines
        PROVE  \A g \in Log : lines[g] <= lines'[g] /\ lines'[g] \in Nat
    BY <2>2, LinesFacts
  <2>3. lines' = lines \/ \E h \in Log : lines' = [lines EXCEPT ![h] = @ + 1]
    BY DEF Next, Codex, Take, Read, Create, StartLine, WriteLine, Delete, TakeWatch,
       TakeRescan, TakeHook, ReadNowhere, ReadFails, ReadRollout, ReadNothing, ReadHistory,
       Insert, SaveCursor, Publish, Stop, env, vars
  <2> QED
    BY <2>1, <2>2, <2>3
<1>2. ledger \subseteq ledger'
  BY DEF Next, Codex, Take, Read, Create, StartLine, WriteLine, Delete, Touch, TakeWatch,
     TakeRescan, TakeHook, ReadNowhere, ReadFails, ReadRollout, ReadNothing, ReadHistory,
     Insert, SaveCursor, Publish, Stop, disk, vars
<1>3. /\ c.off \in Nat /\ c.hist \in Nat
      /\ \A g \in Log : lines[g] \in Nat
      /\ c.at \in File => c.at \in Log
      /\ History \in Log
  BY CursorFacts, LinesFacts DEF Log
<1> QED
  BY <1>1, <1>2, <1>3 DEF Backed

LEMMA BackedStep == IInv /\ [Next]_vars => CursorBacked' /\ KnowsProject'
<1> SUFFICES ASSUME IInv, [Next]_vars PROVE CursorBacked' /\ KnowsProject'
  OBVIOUS
<1> USE DEF IInv
<1>1. cursor \in Cursor /\ from \in Cursor /\ pos \in Cursor /\ NoCursor \in Cursor
  BY NoCursorFacts DEF TypeOK
<1>2. Backed(NoCursor) /\ Named(NoCursor)
  BY NoCursorFacts, LinesFacts DEF Backed, Named, Log
<1>3. \/ cursor' = cursor
      \/ cursor' = NoCursor
      \/ pc = "save" /\ cursor' = pos
      \/ /\ pc = "history" /\ pos.at = from.at /\ pos.off = from.off
         /\ cursor' = Advanced(pos.hist)
  BY DEF Next, Codex, Take, Read, Create, StartLine, WriteLine, Delete, Touch, TakeWatch,
     TakeRescan, TakeHook, ReadNowhere, ReadFails, ReadRollout, ReadNothing, ReadHistory,
     Insert, SaveCursor, Publish, Stop, disk, vars, InHand
<1>4. CASE cursor' \in {cursor, NoCursor}
  <2>1. Backed(cursor') /\ Named(cursor')
    BY <1>2, <1>4 DEF CursorBacked, KnowsProject, Named
  <2> QED
    BY <1>1, <1>4, <2>1, BackedStays DEF CursorBacked, Backed, KnowsProject, Named
<1>5. CASE pc = "save" /\ cursor' = pos
  BY <1>1, <1>5, BackedStays DEF InHand, CursorBacked, Backed, KnowsProject, Named
<1>6. CASE /\ pc = "history" /\ pos.at = from.at /\ pos.off = from.off
           /\ cursor' = Advanced(pos.hist)
  <2>1. /\ cursor'.at = pos.at /\ cursor'.off = pos.off /\ cursor'.hist = pos.hist
        /\ cursor'.dir \in {pos.dir, Owner[pos.at]}
    BY <1>1, <1>6 DEF Advanced, Cursor
  <2>2. Backed(cursor')
    BY <1>6, <2>1 DEF InHand, Backed
  <2>3. cursor' \in Cursor
    BY TypeStep DEF TypeOK
  <2> QED
    BY <1>6, <2>1, <2>2, <2>3, BackedStays
    DEF CursorBacked, Backed, KnowsProject, InHand, Named
<1> QED
  BY <1>3, <1>4, <1>5, <1>6

(* Where a read of the history gets to. *)
LEMMA ThroughBounds ==
  ASSUME TypeOK, NEW h \in 0..MaxLines, Through(h), pos.hist <= lines[History]
  PROVE  pos.hist <= h /\ h <= lines[History]
<1>1. pos.hist \in Nat /\ lines[History] \in Nat /\ h \in Nat
  BY CursorFacts, LinesFacts DEF TypeOK, Log
<1>2. CASE h \in Ends(History, pos.hist)
  BY <1>1, <1>2 DEF Ends
<1>3. CASE h = pos.hist
  BY <1>1, <1>3
<1> QED
  BY <1>2, <1>3 DEF Through

(* A batch that is inserted backs the cursor it was read for. *)
LEMMA BatchBacks ==
  ASSUME NEW a \in Cursor, NEW b \in Cursor, a.at = b.at, b.at \in File, Backed(a),
         a.off <= b.off, b.off <= lines[b.at], a.hist <= b.hist, b.hist <= lines[History],
         NEW rows, rows = ledger \cup Between(a, b)
  PROVE  /\ \A i \in Says[b.at] : i <= b.off => <<b.at, i>> \in rows
         /\ \A i \in 1..b.hist : <<History, i>> \in rows
<1>1. ASSUME NEW i \in Says[b.at], i <= b.off PROVE <<b.at, i>> \in rows
  <2>1. i \in Nat /\ a.off \in Nat
    BY CursorFacts, CodexAssumption
  <2> QED
    BY <1>1, <2>1 DEF Backed, Between
<1>2. ASSUME NEW i \in 1..b.hist PROVE <<History, i>> \in rows
  <2>1. i \in Nat /\ a.hist \in Nat /\ b.hist \in Nat
    BY CursorFacts
  <2> QED
    BY <1>2, <2>1 DEF Backed, Between
<1> QED
  BY <1>1, <1>2

LEMMA InHandStep == IInv /\ [Next]_vars => InHand'
<1> SUFFICES ASSUME IInv, [Next]_vars PROVE InHand'
  OBVIOUS
<1> USE DEF IInv
<1>1. cursor \in Cursor /\ from \in Cursor /\ pos \in Cursor /\ NoCursor \in Cursor
  BY NoCursorFacts DEF TypeOK
<1>2. Backed(cursor) /\ Named(cursor) /\ Backed(NoCursor) /\ Named(NoCursor)
  BY NoCursorFacts, LinesFacts DEF CursorBacked, KnowsProject, Backed, Named, Log
<1>3. \A g \in Log : lines[g] \in Nat /\ lines'[g] \in Nat /\ lines[g] <= lines'[g]
  BY <1>1, <1>2, LinesFacts, BackedStays
<1>4. \A c \in Cursor : Backed(c) =>
        /\ c.at \in File => /\ c.off <= lines'[c.at]
                            /\ \A i \in Says[c.at] : i <= c.off => <<c.at, i>> \in ledger'
        /\ c.hist <= lines'[History]
        /\ \A i \in 1..c.hist : <<History, i>> \in ledger'
  BY BackedStays
<1>5. /\ from.off \in Nat /\ from.hist \in Nat /\ pos.off \in Nat /\ pos.hist \in Nat
      /\ from.at \in File => from.at \in Log
      /\ History \in Log
  BY <1>1, CursorFacts DEF Log
<1>a. ASSUME pc' = "idle" PROVE InHand'
  BY <1>a DEF InHand
<1>b. ASSUME pc' = pc, from' = from, pos' = pos, cursor' = cursor PROVE InHand'
  BY <1>b, <1>1, <1>3, <1>4, <1>5 DEF InHand, Backed, Named
<1>c. ASSUME NEW c \in Cursor, NEW d \in Dir, Load(c, d), Backed(c), Named(c), cursor' = c
      PROVE  InHand'
  <2>1. /\ from' \in Cursor /\ Backed(from') /\ Named(from') /\ pos' = from'
        /\ from' = c \/ from'.at # c.at
        /\ pc' = "rollout"
    BY <1>c, Start DEF Load
  <2> QED
    BY <1>c, <2>1, <1>4 DEF InHand, Backed, Named
<1>6. CASE TakeWatch
  <2>1. cursor.dir \in Dir
    BY <1>1, CursorFacts
  <2> QED
    BY <1>6, <2>1, <1>1, <1>2, <1>c DEF TakeWatch, disk
<1>7. CASE TakeRescan
  BY <1>7, <1>1, <1>2, <1>c DEF TakeRescan, Dir
<1>8. ASSUME NEW d \in Dir, TakeHook(d) PROVE InHand'
  BY <1>8, <1>1, <1>2, <1>c DEF TakeHook, disk
<1>9. CASE ReadRollout
  <2>1. PICK e \in Ends(pos.at, pos.off) : pos' = [pos EXCEPT !.off = e]
    BY <1>9 DEF ReadRollout
  <2>2. /\ pos'.at = pos.at /\ pos'.off = e /\ pos'.hist = pos.hist /\ pos'.dir = pos.dir
    BY <2>1, <1>1 DEF Cursor
  <2>3. /\ pc = "rollout" /\ pc' = "history" /\ pos.at \in File
        /\ from' = from /\ cursor' = cursor /\ lines' = lines /\ ledger' = ledger
    BY <1>9 DEF ReadRollout, env, disk
  <2>4. pos.off <= e /\ e <= lines[pos.at]
    <3>1. e \in pos.off..lines[pos.at]
      BY <2>1 DEF Ends
    <3> QED
      BY <3>1, <1>3, <1>5, <2>3 DEF Log
  <2> QED
    BY <2>2, <2>3, <2>4, <1>3, <1>5 DEF InHand, Backed, Named
<1>10. CASE ReadHistory
  <2>1. PICK h \in 0..MaxLines : Through(h) /\ pos' = Advanced(h)
    BY <1>10 DEF ReadHistory
  <2>2. /\ pos'.at = pos.at /\ pos'.off = pos.off /\ pos'.hist = h
        /\ pos'.dir \in {pos.dir, Owner[pos.at]}
    BY <2>1, <1>1 DEF Advanced, Cursor
  <2>3. /\ pc = "history" /\ pc' = "insert"
        /\ from' = from /\ cursor' = cursor /\ lines' = lines /\ ledger' = ledger
    BY <1>10 DEF ReadHistory, env, disk
  <2>4. pos.hist <= h /\ h <= lines[History]
    BY <2>1, <2>3, ThroughBounds DEF InHand
  <2> QED
    BY <2>2, <2>3, <2>4, <1>3, <1>5 DEF InHand, Backed, Named
<1>11. CASE Insert
  <2>1. /\ pc = "insert" /\ pc' = "save" /\ ledger' = ledger \cup Between(from, pos)
        /\ from' = from /\ pos' = pos /\ cursor' = cursor /\ lines' = lines
    BY <1>11 DEF Insert, env
  <2>2. /\ \A i \in Says[pos.at] : i <= pos.off => <<pos.at, i>> \in ledger'
        /\ \A i \in 1..pos.hist : <<History, i>> \in ledger'
    BY <2>1, <1>1, BatchBacks DEF InHand
  <2> QED
    BY <2>1, <2>2, <1>4, <1>1 DEF InHand, Backed, Named
<1>12. CASE SaveCursor
  <2>1. /\ pc = "save" /\ pc' = "publish" /\ ledger' = ledger
        /\ from' = from /\ pos' = pos /\ lines' = lines
    BY <1>12 DEF SaveCursor, env
  <2> QED
    BY <2>1 DEF InHand, Backed, Named
<1>13. CASE Codex
  BY <1>13, <1>b DEF Codex, Create, StartLine, WriteLine, Delete, Touch, disk, work
<1>14. CASE ReadNowhere \/ ReadFails \/ ReadNothing \/ Publish \/ Stop
  BY <1>14, <1>a DEF ReadNowhere, ReadFails, ReadNothing, Publish, Stop, Finish
<1>15. CASE UNCHANGED vars
  BY <1>15, <1>b DEF vars
<1> QED
  BY <1>6, <1>7, <1>8, <1>9, <1>10, <1>11, <1>12, <1>13, <1>14, <1>15 DEF Next, Take, Read

LEMMA Inductive == Spec => []IInv
<1>1. IInv /\ [Next]_vars => IInv'
  BY TypeStep, BackedStep, InHandStep DEF IInv
<1> QED
  BY InitIInv, <1>1, PTL DEF Spec

(* Every reachable state is well typed. *)
THEOREM CodexTypeCorrect == Spec => []TypeOK
<1>1. IInv => TypeOK
  BY DEF IInv
<1> QED
  BY Inductive, <1>1, PTL

(* Neither log has a row below its offset that the ledger lacks: the insert
   comes before the save (pipeline.rs:242-244). *)
THEOREM NothingMissing == Spec => []CursorBacked
<1>1. IInv => CursorBacked
  BY DEF IInv
<1> QED
  BY Inductive, <1>1, PTL

(* The cursor names its own rollout's project or none (codex.rs:222-224). *)
THEOREM NamesItsProject == Spec => []KnowsProject
<1>1. IInv => KnowsProject
  BY DEF IInv
<1> QED
  BY Inductive, <1>1, PTL

(* The offsets never go back within a rollout (adapters/mod.rs:124-125). *)
THEOREM NeverBack == Spec => Monotonic
<1> DEFINE Ahead == cursor.at \in File /\ cursor'.at = cursor.at
                      => cursor'.off >= cursor.off /\ cursor'.hist >= cursor.hist
<1>1. IInv /\ [Next]_vars => [Ahead]_vars
  <2> SUFFICES ASSUME IInv, [Next]_vars PROVE Ahead
    OBVIOUS
  <2>1. cursor \in Cursor /\ pos \in Cursor
    BY DEF IInv, TypeOK
  <2>2. \/ cursor' = cursor
        \/ cursor' = NoCursor
        \/ pc = "save" /\ cursor' = pos
        \/ pc = "history" /\ pos.off = from.off /\ cursor' = Advanced(pos.hist)
    BY DEF Next, Codex, Take, Read, Create, StartLine, WriteLine, Delete, Touch, TakeWatch,
       TakeRescan, TakeHook, ReadNowhere, ReadFails, ReadRollout, ReadNothing, ReadHistory,
       Insert, SaveCursor, Publish, Stop, disk, vars
  <2>3. /\ cursor.off \in Nat /\ cursor.hist \in Nat /\ NoCursor.at \notin File
        /\ pos.off \in Nat /\ pos.hist \in Nat
    BY <2>1, CursorFacts, NoCursorFacts
  <2>4. CASE pc = "save" /\ cursor' = pos
    BY <2>3, <2>4 DEF IInv, InHand
  <2>5. CASE pc = "history" /\ pos.off = from.off /\ cursor' = Advanced(pos.hist)
    <3>1. cursor'.at = pos.at /\ cursor'.off = pos.off /\ cursor'.hist = pos.hist
      BY <2>1, <2>5 DEF Advanced, Cursor
    <3> QED
      BY <2>3, <2>5, <3>1 DEF IInv, InHand
  <2> QED
    BY <2>2, <2>3, <2>4, <2>5
<1> QED
  BY Inductive, <1>1, PTL DEF Spec, Monotonic
=============================================================================
