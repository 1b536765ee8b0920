--------------------------- MODULE PublishProofs ---------------------------
(***************************************************************************)
(* For any projects, any number of batches and any combination of faults:  *)
(* no `git add -A` takes a project's handoff along, a project's pointer    *)
(* blocks lead to a handoff, projects do not see each other's history,     *)
(* what was published is never forgotten and every batch whose publish was *)
(* not cut is shown, but for histories lost in a torn rewrite or an        *)
(* unreadable file, and the drain task dies of somebody's edit only.       *)
(***************************************************************************)
EXTENDS Publish, TLAPS

USE PublishAssumption DEF PublishAssumption

(* What the drain task has behind it, by where it is. *)
PastIgnore  == {"user", "project", "progress", "verify", "agents", "claude", "global"}
PastUser    == PastIgnore \ {"user"}
PastProject == PastUser \ {"project"}
Rendered    == {"ignore", "user", "project", "progress"}

(* NothingCaptured is not inductive: .gitignore must cover whatever is there
   and, between STEP 1 and STEP 3, what is about to be there. *)
Covered ==
  /\ NothingCaptured
  /\ \A p \in Project : handoff[p] # Missing \/ progress[p] # {} => ignored[p]
  /\ pc \in PastIgnore => ignored[dir]
  /\ pc = "refill" => handoff[dir] # Missing

(* Behind a project's pointer block, and behind the steps that come before it,
   there is a handoff. *)
Pointed ==
  /\ PointerResolves
  /\ pc \in PastUser => handoff[Home] # Missing
  /\ pc \in PastProject => handoff[dir] # Missing

(* What is about to be written into a project's files is that project's. *)
Own ==
  /\ OwnHistory
  /\ pc \in {"distill"} \cup Rendered => batch \in taken[dir]
  /\ pc \in Rendered /\ dir \in Project =>
       text.tasks \cup text.log \cup log \subseteq taken[dir]
  /\ pc = "refill" /\ dir \in Project => text.tasks \cup text.log \subseteq taken[dir]

IInv == TypeOK /\ Covered /\ Pointed /\ Own
-----------------------------------------------------------------------------
LEMMA HandoffParts ==
  ASSUME NEW h \in Handoff
  PROVE  /\ h # Missing
         /\ h.tasks \subseteq Batch /\ h.log \subseteq Batch /\ h.note \in BOOLEAN
BY DEF Handoff

LEMMA EmptiedType == Emptied \in Handoff
BY DEF Emptied, Handoff

LEMMA RenderType ==
  ASSUME NEW t \in SUBSET Batch, NEW e \in SUBSET Batch
  PROVE  /\ Render(t, e) \in Handoff
         /\ Render(t, e).tasks = t /\ Render(t, e).log \subseteq e
BY DEF Render, Oldest, Handoff

(* Distilling adds the batch to some part of what the project's files hold, its
   entry unless it comes late. *)
LEMMA DistillText ==
  ASSUME TypeOK, pc = "distill", batch \in taken[dir], Distill
  PROVE  \E tasks \in SUBSET OldTasks, entries \in SUBSET (progress[dir] \cup {batch}) :
           /\ text' = Render(tasks \cup {batch}, entries)
           /\ log' = entries
           /\ tasks \cup {batch} \in SUBSET Batch
           /\ entries \in SUBSET Batch
<1>1. dir \in Dir /\ progress[dir] \subseteq Batch /\ taken[dir] \subseteq Batch
  BY DEF TypeOK
<1>2. OldTasks \subseteq Batch
  BY <1>1, HandoffParts DEF OldTasks, TypeOK
<1>3. PICK tasks \in Readings(OldTasks), entries \in Readings(progress[dir]) :
        /\ log' = Logged(entries, batch)
        /\ text' = Render(tasks \cup {batch}, log')
  BY DEF Distill
<1>4. tasks \subseteq OldTasks /\ entries \subseteq progress[dir]
  BY <1>3 DEF Readings
<1>5. log' \subseteq progress[dir] \cup {batch} /\ text' = Render(tasks \cup {batch}, log')
  BY <1>3, <1>4 DEF Logged
<1>6. tasks \cup {batch} \subseteq Batch /\ log' \subseteq Batch
  BY <1>1, <1>2, <1>4, <1>5
<1> QED
  BY <1>4, <1>5, <1>6

LEMMA EditKeeps ==
  ASSUME TypeOK, NEW d \in Dir, Edit(d)
  PROVE  /\ handoff' \in [Dir -> Handoff \cup {Missing}]
         /\ \A e \in Dir : /\ handoff'[e] = Missing <=> handoff[e] = Missing
                           /\ handoff[e] # Missing =>
                                /\ handoff'[e].tasks = handoff[e].tasks
                                /\ handoff'[e].log = handoff[e].log
<1>1. handoff[d] \in Handoff
  BY DEF TypeOK, Edit
<1>2. /\ [handoff[d] EXCEPT !.note = TRUE] \in Handoff
      /\ [handoff[d] EXCEPT !.note = TRUE].tasks = handoff[d].tasks
      /\ [handoff[d] EXCEPT !.note = TRUE].log = handoff[d].log
  BY <1>1 DEF Handoff
<1>3. handoff' = [handoff EXCEPT ![d] = [handoff[d] EXCEPT !.note = TRUE]]
  BY DEF Edit, TypeOK
<1> DEFINE h == [handoff[d] EXCEPT !.note = TRUE]
<1>4. h \in Handoff /\ h.tasks = handoff[d].tasks /\ h.log = handoff[d].log /\ h # Missing
  BY <1>2, HandoffParts
<1>5. handoff' = [handoff EXCEPT ![d] = h]
  BY <1>3
<1> HIDE DEF h
<1>6. handoff' \in [Dir -> Handoff \cup {Missing}]
  BY <1>4, <1>5 DEF TypeOK
<1>7. \A e \in Dir : handoff'[e] = IF e = d THEN h ELSE handoff[e]
  BY <1>5 DEF TypeOK
<1> QED
  BY <1>1, <1>4, <1>6, <1>7, HandoffParts
-----------------------------------------------------------------------------
LEMMA InitIInv == Init => IInv
<1> SUFFICES ASSUME Init PROVE IInv
  OBVIOUS
<1>1. TypeOK
  BY EmptiedType DEF Init, TypeOK, Dir
<1>2. Covered
  BY DEF Init, Covered, NothingCaptured, PastIgnore, Dir
<1>3. Pointed
  BY DEF Init, Pointed, PointerResolves, PastUser, PastProject, PastIgnore, Dir
<1>4. Own
  BY DEF Init, Own, OwnHistory, Rendered, Dir
<1> QED
  BY <1>1, <1>2, <1>3, <1>4 DEF IInv

-----------------------------------------------------------------------------
(* Steps that touch no more than the drain task's place, or the captured set. *)
Quiet == Verify \/ Restart \/ \E p \in Project : GitAdd(p)

(* What the installer does in the home directory concerns no project. *)
Install == \E doc \in Doc : Installer(doc)

LEMMA InstallMeans ==
  ASSUME TypeOK, Install
  PROVE  /\ pointer' \in [Dir -> SUBSET Doc]
         /\ \A p \in Project : pointer'[p] = pointer[p]
         /\ UNCHANGED <<ignored, handoff, progress, past, taken, done, work>>
<1>1. PICK w \in SUBSET Doc : pointer' = [pointer EXCEPT ![Home] = w]
  BY DEF Install, Installer, TypeOK, Dir
<1> QED
  BY <1>1 DEF Install, Installer, TypeOK, Dir

(* Steps that give up what the drain task has in hand. *)
Cut == StepFails \/ Crash

LEMMA CutMeans ==
  ASSUME TypeOK, Own, Cut
  PROVE  /\ pc' \in {"idle", "down"} /\ dir' = Home /\ text' = Emptied /\ log' = {}
         /\ UNCHANGED <<ignored, handoff, progress, pointer, captured, taken, done, batch>>
         /\ missed' = IF pc \in Unwritten THEN missed \cup {batch} ELSE missed
         /\ wiped' = IF pc = "refill" THEN wiped \cup {dir} ELSE wiped
         /\ missed' \subseteq Batch /\ wiped' \subseteq Dir
<1>1. dir \in Dir /\ taken[dir] \subseteq Batch
  BY DEF TypeOK
<1>2. pc \in Unwritten => batch \in Batch
  BY <1>1 DEF Own, Rendered, Unwritten
<1> QED
  BY <1>1, <1>2 DEF Cut, StepFails, Crash, CutShort, Leave, files, TypeOK

LEMMA TypeStep == IInv /\ [Next]_vars => TypeOK'
<1> SUFFICES ASSUME IInv, [Next]_vars PROVE TypeOK'
  OBVIOUS
<1> USE DEF IInv
<1>1. ASSUME NEW d \in Dir, TakeBatch(d) PROVE TypeOK'
  <2>1. batch' \in Batch
    BY <1>1 DEF TakeBatch, TypeOK, Batch
  <2>2. taken' \in [Dir -> SUBSET Batch]
    BY <1>1, <2>1 DEF TakeBatch, TypeOK
  <2>3. batch' \in 0..MaxBatch
    BY <2>1 DEF Batch
  <2>4. UNCHANGED <<ignored, handoff, progress, pointer, captured, done, missed, wiped, text, log>>
        /\ pc' = "distill" /\ dir' \in Dir
    BY <1>1 DEF TakeBatch, files, past
  <2> QED
    BY <2>2, <2>3, <2>4 DEF TypeOK
<1>2. CASE Distill
  <2>1. pc = "distill" /\ batch \in taken[dir]
    BY <1>2 DEF Distill, Own
  <2>2. PICK tasks \in SUBSET OldTasks, entries \in SUBSET (progress[dir] \cup {batch}) :
          /\ text' = Render(tasks \cup {batch}, entries)
          /\ log' = entries
          /\ tasks \cup {batch} \in SUBSET Batch
          /\ entries \in SUBSET Batch
    BY <1>2, <2>1, DistillText
  <2>3. text' \in Handoff /\ log' \subseteq Batch
    BY <2>2, RenderType
  <2>4. wiped' \subseteq Dir
    BY <1>2 DEF Distill, TypeOK
  <2> QED
    BY <1>2, <2>3, <2>4 DEF Distill, TypeOK, files
<1>3. CASE EnsureIgnored
  BY <1>3 DEF EnsureIgnored, TypeOK, past
<1>4. CASE WriteUser
  <2>1. handoff' \in [Dir -> Handoff \cup {Missing}]
    BY <1>4 DEF WriteUser, TypeOK
  <2> QED
    BY <1>4, <2>1 DEF WriteUser, TypeOK, past
<1>5. CASE WriteProject
  <2>1. handoff' \in [Dir -> Handoff \cup {Missing}]
    BY <1>5 DEF WriteProject, TypeOK
  <2> QED
    BY <1>5, <2>1 DEF WriteProject, TypeOK, past
<1>6. CASE WriteProgress
  <2>1. progress' \in [Dir -> SUBSET Batch]
    BY <1>6 DEF WriteProgress, TypeOK
  <2>2. pc = "progress" /\ dir \in Dir /\ taken[dir] \subseteq Batch
    BY <1>6 DEF WriteProgress, TypeOK
  <2>3. done' \in [Dir -> SUBSET Batch]
    <3>1. batch \in Batch
      BY <2>2 DEF Own, Rendered
    <3> QED
      BY <1>6, <3>1 DEF WriteProgress, TypeOK
  <2> QED
    BY <1>6, <2>1, <2>3 DEF WriteProgress, TypeOK, past
<1>7. CASE PointAgents \/ PointClaude \/ PointHome
  <2>1. pointer' \in [Dir -> SUBSET Doc]
    <3>1. PICK d \in Dir, w \in SUBSET Doc : pointer' = [pointer EXCEPT ![d] = @ \cup w]
      BY <1>7 DEF PointAgents, PointClaude, PointHome, Doc, TypeOK, Dir
    <3> QED
      BY <3>1 DEF TypeOK
  <2>2. /\ UNCHANGED <<ignored, handoff, progress, captured, missed, wiped, taken, done, batch>>
        /\ pc' \in {"claude", "global", "idle"}
    BY <1>7 DEF PointAgents, PointClaude, PointHome, Leave, past
  <2>3. dir' \in Dir /\ text' \in Handoff /\ log' \subseteq Batch
    BY <1>7, EmptiedType DEF PointAgents, PointClaude, PointHome, Leave, TypeOK, Dir
  <2> QED
    BY <2>1, <2>2, <2>3 DEF TypeOK
<1>8. ASSUME NEW d \in Dir, Refresh(d) PROVE TypeOK'
  <2>1. text' \in Handoff
    BY <1>8 DEF Refresh, TypeOK
  <2>2. handoff' \in [Dir -> Handoff \cup {Missing}]
    BY <1>8, EmptiedType DEF Refresh, TypeOK
  <2> QED
    BY <1>8, <2>1, <2>2 DEF Refresh, TypeOK, past
<1>9. CASE Refill
  <2>1. handoff' \in [Dir -> Handoff \cup {Missing}]
    BY <1>9 DEF Refill, TypeOK
  <2> QED
    BY <1>9, <2>1, EmptiedType DEF Refill, Leave, TypeOK, Dir, past
<1>10. ASSUME NEW d \in Dir, Edit(d) PROVE TypeOK'
  BY <1>10, EditKeeps DEF Edit, TypeOK, work, past
<1>11. CASE Quiet
  BY <1>11 DEF Quiet, Verify, Restart, GitAdd, TypeOK, Dir, files, work, past
<1>12. CASE Cut
  <2>1. Emptied \in Handoff /\ Home \in Dir
    BY EmptiedType DEF Dir
  <2> QED
    BY <1>12, <2>1, CutMeans DEF TypeOK
<1>13. CASE UNCHANGED vars
  BY <1>13 DEF vars, TypeOK
<1>14. CASE Install
  BY <1>14, InstallMeans DEF TypeOK, past, work
<1> QED
  BY <1>1, <1>2, <1>3, <1>4, <1>5, <1>6, <1>7, <1>8, <1>9, <1>10, <1>11, <1>12, <1>13, <1>14
  DEF Next, Drain, Write, Point, Quiet, Cut, Install

LEMMA CoveredStep == IInv /\ TypeOK' /\ [Next]_vars => Covered'
<1> SUFFICES ASSUME IInv, TypeOK', [Next]_vars PROVE Covered'
  OBVIOUS
<1> USE DEF IInv, Covered, NothingCaptured, PastIgnore
<1>1. dir \in Dir /\ text \in Handoff /\ text # Missing /\ Emptied # Missing
  BY HandoffParts, EmptiedType DEF TypeOK
<1>2. ASSUME NEW d \in Dir, TakeBatch(d) PROVE Covered'
  BY <1>2 DEF past, TakeBatch, files
<1>3. CASE Distill
  BY <1>3 DEF past, Distill, files
<1>4. CASE EnsureIgnored
  BY <1>1, <1>4 DEF past, EnsureIgnored, TypeOK, Dir
<1>5. CASE WriteUser
  BY <1>1, <1>5 DEF past, WriteUser, TypeOK, Dir
<1>6. CASE WriteProject
  BY <1>1, <1>6 DEF past, WriteProject, TypeOK, Dir
<1>7. CASE WriteProgress
  BY <1>1, <1>7 DEF past, WriteProgress, TypeOK, Dir
<1>8. CASE PointAgents \/ PointClaude \/ PointHome
  BY <1>8 DEF PointAgents, PointClaude, PointHome, Leave, past
<1>9. ASSUME NEW d \in Dir, Refresh(d) PROVE Covered'
  BY <1>1, <1>9 DEF past, Refresh, TypeOK, Dir
<1>10. CASE Refill
  BY <1>1, <1>10 DEF Refill, Leave, TypeOK, Dir, past
<1>11. ASSUME NEW d \in Dir, Edit(d) PROVE Covered'
  BY <1>1, <1>11, EditKeeps DEF past, Edit, work, Dir
<1>12. CASE Quiet
  <2>1. CASE Verify \/ Restart
    BY <2>1 DEF Verify, Restart, files, work, past
  <2>2. ASSUME NEW p \in Project, GitAdd(p) PROVE Covered'
    <3>1. ignored[p] /\ p \in Dir
      BY <2>2 DEF GitAdd, Dir
    <3>2. captured' = captured
      BY <2>2, <3>1 DEF GitAdd
    <3> QED
      BY <2>2, <3>2 DEF GitAdd, files, work
  <2> QED
    BY <1>12, <2>1, <2>2 DEF Quiet
<1>13. CASE Cut
  BY <1>13, CutMeans
<1>14. CASE UNCHANGED vars
  BY <1>14 DEF vars
<1>15. CASE Install
  BY <1>15, InstallMeans DEF past, work
<1> QED
  BY <1>2, <1>3, <1>4, <1>5, <1>6, <1>7, <1>8, <1>9, <1>10, <1>11, <1>12, <1>13, <1>14, <1>15
  DEF Next, Drain, Write, Point, Quiet, Cut, Install

LEMMA PointedStep == IInv /\ TypeOK' /\ [Next]_vars => Pointed'
<1> SUFFICES ASSUME IInv, TypeOK', [Next]_vars PROVE Pointed'
  OBVIOUS
<1> USE DEF IInv, Pointed, PointerResolves, PastIgnore, PastUser, PastProject
<1>1. /\ dir \in Dir /\ Home \in Dir /\ Project \subseteq Dir
      /\ text \in Handoff /\ text # Missing /\ Emptied # Missing
  BY HandoffParts, EmptiedType DEF TypeOK, Dir
<1>2. ASSUME NEW d \in Dir, TakeBatch(d) PROVE Pointed'
  BY <1>2 DEF past, TakeBatch, files
<1>3. CASE Distill \/ EnsureIgnored
  BY <1>3 DEF past, Distill, EnsureIgnored, files
<1>4. CASE WriteUser
  BY <1>1, <1>4 DEF past, WriteUser, TypeOK
<1>5. CASE WriteProject
  BY <1>1, <1>5 DEF past, WriteProject, TypeOK
<1>6. CASE WriteProgress
  BY <1>6 DEF past, WriteProgress
<1>7. CASE PointAgents \/ PointClaude \/ PointHome
  <2>1. PICK d \in {dir, Home} : \A e \in Dir : e # d => pointer'[e] = pointer[e]
    BY <1>1, <1>7 DEF PointAgents, PointClaude, PointHome, TypeOK
  <2>2. handoff[d] # Missing /\ handoff' = handoff
    BY <1>7, <2>1 DEF PointAgents, PointClaude, PointHome, Leave, past
  <2>3. PointerResolves'
    BY <1>1, <2>1, <2>2
  <2> QED
    BY <1>7, <2>2, <2>3 DEF PointAgents, PointClaude, PointHome, Leave, past
<1>8. ASSUME NEW d \in Dir, Refresh(d) PROVE Pointed'
  BY <1>1, <1>8 DEF past, Refresh, TypeOK
<1>9. CASE Refill
  BY <1>1, <1>9 DEF Refill, Leave, TypeOK
<1>10. ASSUME NEW d \in Dir, Edit(d) PROVE Pointed'
  BY <1>1, <1>10, EditKeeps DEF past, Edit, work
<1>11. CASE Quiet
  BY <1>11 DEF Quiet, Verify, Restart, GitAdd, files, work, past
<1>12. CASE Cut
  BY <1>12, CutMeans
<1>13. CASE UNCHANGED vars
  BY <1>13 DEF vars
<1>14. CASE Install
  BY <1>1, <1>14, InstallMeans DEF past, work
<1> QED
  BY <1>2, <1>3, <1>4, <1>5, <1>6, <1>7, <1>8, <1>9, <1>10, <1>11, <1>12, <1>13, <1>14
  DEF Next, Drain, Write, Point, Quiet, Cut, Install

LEMMA OwnStep == IInv /\ TypeOK' /\ [Next]_vars => Own'
<1> SUFFICES ASSUME IInv, TypeOK', [Next]_vars PROVE Own'
  OBVIOUS
<1> USE DEF IInv, Own, OwnHistory, Rendered
<1>1. /\ dir \in Dir /\ Project \subseteq Dir /\ Home \in Dir /\ Home \notin Project
      /\ text \in Handoff /\ text # Missing
  BY HandoffParts DEF TypeOK, Dir
<1>2. ASSUME NEW d \in Dir, TakeBatch(d) PROVE Own'
  BY <1>1, <1>2 DEF past, TakeBatch, TypeOK, files
<1>3. CASE Distill
  <2>1. pc = "distill" /\ batch \in taken[dir] /\ UNCHANGED <<files, taken, dir>>
    BY <1>3 DEF past, Distill
  <2>2. dir \in Project => OldTasks \cup progress[dir] \subseteq taken[dir]
    BY DEF OldTasks
  <2>3. PICK tasks \in SUBSET OldTasks, entries \in SUBSET (progress[dir] \cup {batch}) :
          /\ text' = Render(tasks \cup {batch}, entries)
          /\ log' = entries
          /\ tasks \cup {batch} \in SUBSET Batch
          /\ entries \in SUBSET Batch
    BY <1>3, <2>1, DistillText
  <2>4. text'.tasks = tasks \cup {batch} /\ text'.log \subseteq entries
    BY <2>3, RenderType
  <2>5. dir \in Project => text'.tasks \cup text'.log \cup log' \subseteq taken[dir]
    BY <2>1, <2>2, <2>3, <2>4
  <2> QED
    BY <1>3, <2>1, <2>5 DEF past, Distill, files
<1>4. CASE EnsureIgnored
  BY <1>4 DEF past, EnsureIgnored
<1>5. CASE WriteUser
  BY <1>1, <1>5 DEF past, WriteUser, TypeOK
<1>6. CASE WriteProject
  BY <1>1, <1>6 DEF past, WriteProject, TypeOK
<1>7. CASE WriteProgress
  BY <1>1, <1>7 DEF past, WriteProgress, TypeOK
<1>8. CASE PointAgents \/ PointClaude \/ PointHome
  BY <1>8 DEF PointAgents, PointClaude, PointHome, Leave, past
<1>9. ASSUME NEW d \in Dir, Refresh(d) PROVE Own'
  <2>1. Emptied.tasks = {} /\ Emptied.log = {}
    BY DEF Emptied
  <2> QED
    BY <1>1, <1>9, <2>1 DEF past, Refresh, TypeOK
<1>10. CASE Refill
  BY <1>1, <1>10 DEF Refill, Leave, TypeOK
<1>11. ASSUME NEW d \in Dir, Edit(d) PROVE Own'
  BY <1>1, <1>11, EditKeeps DEF past, Edit, work
<1>12. CASE Quiet
  BY <1>12 DEF Quiet, Verify, Restart, GitAdd, files, work, past
<1>13. CASE Cut
  BY <1>13, CutMeans
<1>14. CASE UNCHANGED vars
  BY <1>14 DEF vars
<1>15. CASE Install
  BY <1>15, InstallMeans DEF past, work
<1> QED
  BY <1>2, <1>3, <1>4, <1>5, <1>6, <1>7, <1>8, <1>9, <1>10, <1>11, <1>12, <1>13, <1>14, <1>15
  DEF Next, Drain, Write, Point, Quiet, Cut, Install

LEMMA IInvStep == IInv /\ [Next]_vars => IInv'
BY TypeStep, CoveredStep, PointedStep, OwnStep DEF IInv
-----------------------------------------------------------------------------
(* IInv holds throughout every execution, whatever fails. *)
THEOREM Inductive == Spec => []IInv
<1>1. Init => IInv
  BY InitIInv
<1>2. IInv /\ [Next]_vars => IInv'
  BY IInvStep
<1> QED
  BY <1>1, <1>2, PTL DEF Spec

(* Every reachable state of the files and of the drain task is well typed; in
   particular what is written back is always a handoff (pipeline.rs:361-381). *)
THEOREM PublishTypeCorrect == Spec => []TypeOK
<1>1. IInv => TypeOK
  BY DEF IInv
<1> QED
  BY <1>1, Inductive, PTL

(* ORDER IS LOAD-BEARING: at no moment, not even after a crash between two of
   publish's steps, does `git add -A` in a project take its handoff or its
   progress log along (publish/mod.rs:11-15). *)
THEOREM NeverCaptured == Spec => []NothingCaptured
<1>1. IInv => NothingCaptured
  BY DEF IInv, Covered
<1> QED
  BY <1>1, Inductive, PTL

(* Wherever a pointer block is in a project there is a handoff it leads to, whatever
   failed or was cut; the blocks of the home directory come from the installer, and
   promise nothing (publish/mod.rs:98-147, cli/install.rs:105-113). *)
THEOREM PointersResolve == Spec => []PointerResolves
<1>1. IInv => PointerResolves
  BY DEF IInv, Pointed
<1> QED
  BY <1>1, Inductive, PTL

(* Projects share the user handoff and the drain task, and never each other's
   tasks or progress entries (pipeline.rs:323-345). *)
THEOREM HistoriesApart == Spec => []OwnHistory
<1>1. IInv => OwnHistory
  BY DEF IInv, Own
<1> QED
  BY <1>1, Inductive, PTL
-----------------------------------------------------------------------------
(* What a handoff h of project p has to hold: all that was published, and the
   oldest entries of the log. *)
Holds(h, p) ==
  /\ done[p] # {} => h # Missing /\ done[p] \subseteq h.tasks
  /\ progress[p] # {} => h # Missing /\ Oldest(progress[p], Room) \subseteq h.log

(* Why what was published is not forgotten: batches are numbered as they come,
   all that was published is in the text in hand before the project's files are
   overwritten with it, and a batch that is neither published nor cut is the one
   in hand. *)
Counted ==
  /\ pc = "distill" /\ dir \in Project => batch \notin progress[dir]
  /\ \A p \in Project :
       /\ done[p] \subseteq taken[p] /\ \A b \in taken[p] : b <= batch
       /\ (taken[p] \ missed) \ (IF pc \in Unwritten /\ dir = p THEN {batch} ELSE {}) \subseteq done[p]

InHand ==
  /\ {batch} \cup done[dir] \subseteq text.tasks
  /\ ({batch} \cup done[dir]) \cap Timely(dir) \subseteq log
  /\ text.log = Oldest(log, Room) /\ Oldest(progress[dir], Room) \subseteq text.log

Keep ==
  /\ Counted
  /\ \A p \in Project \ wiped :
       /\ done[p] \cap Timely(p) \subseteq progress[p]
       /\ ~(pc = "refill" /\ dir = p) => Holds(handoff[p], p)
  /\ dir \in Project \ wiped =>
       /\ pc = "refill" => Holds(text, dir)
       /\ pc \in Rendered => InHand
       /\ pc = "progress" =>
            /\ handoff[dir] # Missing /\ batch \in handoff[dir].tasks
            /\ text.log \subseteq handoff[dir].log

(* An entry that is later than all others does not push them out. *)
LEMMA OldestGrows ==
  ASSUME NEW S \in SUBSET Nat, NEW T \in SUBSET Nat, NEW b \in Nat,
         S \subseteq T, T \subseteq S \cup {b}, \A e \in S : e < b
  PROVE  Oldest(S, Room) \subseteq Oldest(T, Room)
<1> SUFFICES ASSUME NEW k \in Oldest(S, Room) PROVE k \in Oldest(T, Room)
  OBVIOUS
<1>1. k \in S /\ k \in T /\ k < b
  BY DEF Oldest
<1>2. ASSUME NEW j \in T, j < k PROVE j \in S
  <2>1. ~(b < k) /\ j \in Nat
    BY <1>1, <1>2
  <2> QED
    BY <2>1, <1>2
<1>3. { j \in T : j < k } = { j \in S : j < k }
  BY <1>2
<1> QED
  BY <1>1, <1>3 DEF Oldest

LEMMA CountedStep ==
  ASSUME IInv, TypeOK', Counted, [Next]_vars
  PROVE  Counted'
<1> USE DEF Counted, Unwritten
<1>1. /\ dir \in Dir /\ Project \subseteq Dir /\ TypeOK /\ Own
      /\ batch \in Nat /\ Home \notin Project
  BY DEF TypeOK, Dir, IInv
<1>2. ASSUME NEW d \in Dir, TakeBatch(d) PROVE Counted'
  <2>1. /\ UNCHANGED <<progress, done, missed>> /\ batch' = batch + 1 /\ pc' = "distill"
        /\ pc = "idle" /\ dir' = d /\ taken' = [taken EXCEPT ![d] = @ \cup {batch'}]
    BY <1>1, <1>2 DEF TakeBatch, files, TypeOK, past
  <2>2. \A p \in Project : taken[p] \subseteq taken'[p] /\ taken'[p] \subseteq taken[p] \cup {batch'}
    BY <2>1, <1>1 DEF TypeOK
  <2>3. \A p \in Project : taken[p] \subseteq Nat
    BY <1>1 DEF TypeOK, Batch
  <2>4. \A p \in Project : done[p] \subseteq taken'[p] /\ \A b \in taken'[p] : b <= batch'
    BY <1>1, <2>1, <2>2, <2>3
  <2>5. d \in Project => batch' \notin progress[d]
    BY <1>1, <2>1, <2>3 DEF Own, OwnHistory
  <2> QED
    BY <2>1, <2>2, <2>4, <2>5
<1>3. CASE Distill \/ EnsureIgnored \/ WriteUser \/ WriteProject
  BY <1>3 DEF Distill, EnsureIgnored, WriteUser, WriteProject, files, past
<1>4. CASE WriteProgress
  <2>1. batch \in taken[dir]
    BY <1>4 DEF WriteProgress, IInv, Own, Rendered
  <2>2. /\ pc = "progress" /\ pc' = "verify" /\ UNCHANGED <<taken, missed, batch, dir>>
        /\ \A e \in Dir : done'[e] = IF e = dir THEN done[e] \cup {batch} ELSE done[e]
    BY <1>1, <1>4 DEF WriteProgress, past, TypeOK
  <2> QED
    BY <1>1, <2>1, <2>2
<1>5. CASE PointAgents \/ PointClaude \/ PointHome
  BY <1>5 DEF PointAgents, PointClaude, PointHome, Leave, past
<1>6. ASSUME NEW d \in Dir, Refresh(d) \/ Edit(d) PROVE Counted'
  BY <1>6 DEF Refresh, Edit, work, past
<1>7. CASE Refill
  BY <1>7 DEF Refill, Leave, past
<1>8. CASE Quiet
  BY <1>8 DEF Quiet, Verify, Restart, GitAdd, files, work, past
<1>9. CASE Cut
  BY <1>1, <1>9, CutMeans
<1>10. CASE UNCHANGED vars
  BY <1>10 DEF vars
<1>11. CASE Install
  BY <1>1, <1>11, InstallMeans DEF past, work
<1> QED
  BY <1>2, <1>3, <1>4, <1>5, <1>6, <1>7, <1>8, <1>9, <1>10, <1>11
  DEF Next, Drain, Write, Point, Quiet, Cut, Install

LEMMA KeepStep ==
  ASSUME IInv, TypeOK', Keep, [Next]_vars
  PROVE  Keep'
<1> USE DEF Keep, Rendered, Holds, InHand
<1>1. /\ dir \in Dir /\ Project \subseteq Dir /\ Home \in Dir /\ Home \notin Project
      /\ text \in Handoff /\ text # Missing /\ TypeOK /\ Own
  BY HandoffParts DEF TypeOK, Dir, IInv
<1>a. taken' = taken => \A p \in Project : Timely(p)' = Timely(p)
  BY DEF Timely
<1>b. Counted'
  BY CountedStep
<1>2. ASSUME NEW d \in Dir, TakeBatch(d) PROVE Keep'
  <2>1. /\ UNCHANGED <<handoff, progress, done, wiped>> /\ pc' = "distill" /\ pc = "idle"
        /\ batch' = batch + 1 /\ batch \in Nat
        /\ taken' = [taken EXCEPT ![d] = @ \cup {batch'}]
    BY <1>1, <1>2 DEF TakeBatch, files, TypeOK, past
  <2>2. \A p \in Project : taken[p] \subseteq taken'[p]
    BY <2>1, <1>1 DEF TypeOK
  <2>3. \A p \in Project : done[p] \subseteq taken[p]
    BY DEF Counted
  <2>4. \A p \in Project : done[p] \cap Timely(p)' \subseteq Timely(p)
    BY <2>2, <2>3 DEF Timely
  <2> QED
    BY <2>1, <2>4, <1>b
<1>3. CASE Distill
  <2>1. /\ pc = "distill" /\ dir \in Dir /\ pc' = "ignore" /\ wiped \subseteq wiped'
        /\ UNCHANGED <<handoff, progress, taken, done, dir, batch>>
    BY <1>1, <1>3 DEF Distill, files
  <2>2. ASSUME dir \in Project \ wiped' PROVE InHand'
    <3>1. text' = Render(OldTasks \cup {batch}, log') /\ log' = Logged(progress[dir], batch)
      BY <1>3, <2>2 DEF Distill, Readings
    <3>2. text'.tasks = OldTasks \cup {batch} /\ text'.log = Oldest(log', Room)
      BY <3>1 DEF Render
    <3>3. done[dir] \subseteq OldTasks
      BY <2>1, <2>2 DEF OldTasks
    <3>4. \A e \in progress[dir] : e \in taken[dir] /\ e # batch /\ e <= batch /\ e \in Nat
      BY <1>1, <2>1, <2>2 DEF Own, OwnHistory, TypeOK, Batch, Counted
    <3>5. batch \in Nat
      BY <1>1 DEF TypeOK
    <3>6. ASSUME batch \in Timely(dir) PROVE batch \in log'
      <4>1. \A e \in progress[dir] : Second[e] < Second[batch]
        BY <3>4, <3>5, <3>6 DEF Timely
      <4> QED
        BY <3>1, <4>1 DEF Logged
    <3>7. ({batch} \cup done[dir]) \cap Timely(dir) \subseteq log'
      BY <2>1, <2>2, <3>1, <3>6 DEF Logged
    <3>8. progress[dir] \subseteq log' /\ log' \subseteq progress[dir] \cup {batch}
      BY <3>1 DEF Logged
    <3>9. Oldest(progress[dir], Room) \subseteq Oldest(log', Room)
      <4>1. progress[dir] \in SUBSET Nat /\ log' \in SUBSET Nat /\ \A e \in progress[dir] : e < batch
        BY <3>4, <3>5, <3>8
      <4> QED
        BY <4>1, <3>5, <3>8, OldestGrows
    <3> QED
      BY <2>1, <2>2, <3>2, <3>3, <3>7, <3>9, <1>a
  <2> QED
    BY <2>1, <2>2, <1>a, <1>b
<1>4. CASE EnsureIgnored
  BY <1>4, <1>a, <1>b DEF EnsureIgnored, past
<1>5. CASE WriteUser
  BY <1>1, <1>5, <1>a, <1>b DEF WriteUser, TypeOK, past
<1>6. CASE WriteProject
  <2>1. /\ pc = "project" /\ pc' = "progress"
        /\ UNCHANGED <<progress, taken, done, wiped, dir, batch, text, log>>
        /\ \A e \in Dir : handoff'[e] = IF e = dir THEN text ELSE handoff[e]
    BY <1>1, <1>6 DEF WriteProject, TypeOK, past
  <2> QED
    BY <1>1, <2>1, <1>a, <1>b
<1>7. CASE WriteProgress
  <2>1. /\ pc = "progress" /\ pc' = "verify"
        /\ UNCHANGED <<handoff, taken, wiped, dir, batch>>
        /\ \A e \in Dir : /\ progress'[e] = IF e = dir THEN log ELSE progress[e]
                          /\ done'[e] = IF e = dir THEN done[e] \cup {batch} ELSE done[e]
    BY <1>1, <1>7 DEF WriteProgress, TypeOK, past
  <2>2. ASSUME NEW p \in Project \ wiped'
        PROVE  /\ done'[p] \cap Timely(p)' \subseteq progress'[p] /\ Holds(handoff[p], p)'
    <3>1. p \in Project \ wiped /\ p \in Dir /\ Timely(p)' = Timely(p)
      BY <1>1, <1>a, <2>1, <2>2
    <3>2. CASE p # dir
      BY <2>1, <3>1, <3>2
    <3>3. CASE p = dir
      <4>1. /\ handoff'[p] = handoff[p] /\ handoff[p] # Missing
            /\ progress'[p] = log /\ done'[p] = done[p] \cup {batch}
        BY <2>1, <3>1, <3>3
      <4>2. done'[p] \cap Timely(p)' \subseteq progress'[p]
        BY <2>1, <3>1, <3>3, <4>1
      <4>3. done'[p] \subseteq handoff[p].tasks
        BY <2>1, <3>1, <3>3, <4>1
      <4>4. Oldest(progress'[p], Room) \subseteq handoff[p].log
        BY <2>1, <3>1, <3>3, <4>1
      <4> QED
        BY <4>1, <4>2, <4>3, <4>4
    <3> QED
      BY <3>2, <3>3
  <2> QED
    BY <2>1, <2>2, <1>b
<1>8. CASE PointAgents \/ PointClaude \/ PointHome
  BY <1>1, <1>8, <1>a, <1>b DEF PointAgents, PointClaude, PointHome, Leave, past
<1>9. ASSUME NEW d \in Dir, Refresh(d) PROVE Keep'
  <2>1. /\ pc = "idle" /\ pc' = "refill" /\ dir' = d /\ text' = handoff[d]
        /\ UNCHANGED <<progress, taken, done, wiped>>
        /\ \A e \in Dir : e # d => handoff'[e] = handoff[e]
    BY <1>1, <1>9 DEF Refresh, TypeOK, past
  <2> QED
    BY <1>1, <2>1, <1>a, <1>b
<1>10. CASE Refill
  <2>1. /\ pc = "refill" /\ pc' = "idle" /\ dir' = Home
        /\ UNCHANGED <<progress, taken, done, wiped>>
        /\ \A e \in Dir : handoff'[e] = IF e = dir THEN text ELSE handoff[e]
    BY <1>1, <1>10 DEF Refill, Leave, TypeOK, past
  <2> QED
    BY <1>1, <2>1, <1>a, <1>b
<1>11. ASSUME NEW d \in Dir, Edit(d) PROVE Keep'
  <2>1. UNCHANGED <<progress, taken, done, wiped, pc, dir, batch, text, log>>
    BY <1>11 DEF Edit, work, past
  <2> QED
    BY <1>1, <1>11, <2>1, <1>a, <1>b, EditKeeps
<1>12. CASE Quiet
  BY <1>12, <1>a, <1>b DEF Quiet, Verify, Restart, GitAdd, files, work, past
<1>13. CASE Cut
  BY <1>1, <1>13, <1>a, <1>b, CutMeans
<1>14. CASE UNCHANGED vars
  BY <1>14, <1>a, <1>b DEF vars
<1>15. CASE Install
  BY <1>1, <1>a, <1>b, <1>15, InstallMeans DEF past, work
<1> QED
  BY <1>2, <1>3, <1>4, <1>5, <1>6, <1>7, <1>8, <1>9, <1>10, <1>11, <1>12, <1>13, <1>14, <1>15
  DEF Next, Drain, Write, Point, Quiet, Cut, Install

LEMMA Keeping == Spec => []Keep
<1>1. Init => Keep
  BY DEF Init, Keep, Counted, Holds, Rendered, Dir
<1>2. IInv /\ IInv' /\ Keep /\ [Next]_vars => Keep'
  BY KeepStep DEF IInv
<1> QED
  BY <1>1, <1>2, Inductive, PTL DEF Spec

(* But for histories that a torn rewrite or an unreadable file destroyed, what a
   publish put into a project's files stays there, through crashes, failing
   steps, rewrites and edits (CHANGELOG.md:14, 19). *)
THEOREM NothingForgotten == Spec => []Remembered
<1>1. Keep => Remembered
  BY DEF Keep, Remembered, Holds
<1> QED
  BY <1>1, Keeping, PTL

(* And nothing is passed over: a batch that is not in its project's files when
   the drain task is idle is one whose own publish was cut (CHANGELOG.md, 0.1.2). *)
THEOREM EverythingShown == Spec => []AllShown
<1>1. Keep => AllShown
  <2> SUFFICES ASSUME Keep, pc = "idle", NEW p \in Project \ wiped
               PROVE  LET due == taken[p] \ missed
                      IN  /\ due # {} => handoff[p] # Missing /\ due \subseteq handoff[p].tasks
                          /\ due \cap Timely(p) \subseteq progress[p]
                          /\ progress[p] # {} => /\ handoff[p] # Missing
                                                 /\ Oldest(progress[p], Room) \subseteq handoff[p].log
    BY DEF AllShown
  <2>1. taken[p] \ missed \subseteq done[p]
    BY DEF Keep, Counted, Unwritten
  <2> QED
    BY <2>1 DEF Keep, Holds
<1> QED
  BY <1>1, Keeping, PTL
-----------------------------------------------------------------------------
(* The copies the drain task compares are both the text it wrote, or somebody
   has edited one of them since. *)
Alike(d) == handoff[d] # Missing /\ (handoff[d] = text \/ handoff[d].note)

Edited == \E d \in {Home, dir} : handoff[d] # Missing /\ handoff[d].note

Compared ==
  /\ pc \in {"project", "progress"} => Alike(Home)
  /\ pc = "progress" => Alike(dir)
  /\ pc = "verify" => handoff[Home] = handoff[dir] \/ Edited
  /\ pc = "dead" => Edited

LEMMA EditMarks ==
  ASSUME TypeOK, NEW d \in Dir, Edit(d)
  PROVE  /\ handoff'[d] # Missing /\ handoff'[d].note
         /\ \A e \in Dir : e # d => handoff'[e] = handoff[e]
         /\ UNCHANGED <<pc, dir, text>>
<1>1. handoff[d] \in Handoff
  BY DEF TypeOK, Edit
<1>2. [handoff[d] EXCEPT !.note = TRUE] \in Handoff /\ [handoff[d] EXCEPT !.note = TRUE].note = TRUE
  BY <1>1 DEF Handoff
<1>3. handoff'[d] = [handoff[d] EXCEPT !.note = TRUE]
  BY DEF Edit, TypeOK
<1>4. handoff'[d] # Missing /\ handoff'[d].note
  BY <1>2, <1>3, HandoffParts
<1>5. \A e \in Dir : e # d => handoff'[e] = handoff[e]
  BY DEF Edit, TypeOK
<1> QED
  BY <1>4, <1>5 DEF Edit, work

LEMMA ComparedStep ==
  ASSUME IInv, TypeOK', Compared, [Next]_vars
  PROVE  Compared'
<1> USE DEF Compared, Alike, Edited
<1>1. /\ dir \in Dir /\ Home \in Dir /\ text # Missing /\ TypeOK /\ Own
  BY HandoffParts DEF TypeOK, Dir, IInv
<1>2. ASSUME NEW d \in Dir, TakeBatch(d) PROVE Compared'
  BY <1>2 DEF TakeBatch
<1>3. CASE Distill \/ EnsureIgnored
  BY <1>3 DEF Distill, EnsureIgnored
<1>4. CASE WriteUser
  BY <1>1, <1>4 DEF WriteUser, TypeOK
<1>5. CASE WriteProject
  BY <1>1, <1>5 DEF WriteProject, TypeOK
<1>6. CASE WriteProgress
  BY <1>1, <1>6 DEF WriteProgress
<1>7. CASE Verify
  BY <1>1, <1>7 DEF Verify, files
<1>8. CASE PointAgents \/ PointClaude \/ PointHome
  BY <1>8 DEF PointAgents, PointClaude, PointHome, Leave
<1>9. ASSUME NEW d \in Dir, Refresh(d) PROVE Compared'
  BY <1>9 DEF Refresh
<1>10. CASE Refill
  BY <1>10 DEF Refill, Leave
<1>11. ASSUME NEW d \in Dir, Edit(d) PROVE Compared'
  BY <1>1, <1>11, EditMarks
<1>12. CASE Restart \/ \E p \in Project : GitAdd(p)
  BY <1>12 DEF Restart, GitAdd, files, work
<1>13. CASE Cut
  BY <1>1, <1>13, CutMeans
<1>14. CASE UNCHANGED vars
  BY <1>14 DEF vars
<1>15. CASE Install
  BY <1>1, <1>15, InstallMeans DEF past, work
<1> QED
  BY <1>2, <1>3, <1>4, <1>5, <1>6, <1>7, <1>8, <1>9, <1>10, <1>11, <1>12, <1>13, <1>14, <1>15
  DEF Next, Drain, Write, Point, Cut, Install

(* The drain task only dies by the panic of the comparison, and that only after
   somebody's edit (publish/mod.rs:108-113). *)
THEOREM DiesByEditOnly == Spec => []DrainAlive
<1>1. Init => Compared
  BY DEF Init, Compared
<1>2. IInv /\ IInv' /\ Compared /\ [Next]_vars => Compared'
  BY ComparedStep DEF IInv
<1>3. Compared => DrainAlive
  BY DEF Compared, Edited, DrainAlive
<1> QED
  BY <1>1, <1>2, <1>3, Inductive, PTL DEF Spec
=============================================================================
