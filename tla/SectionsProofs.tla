---------------------------- MODULE SectionsProofs ----------------------------
(***************************************************************************)
(* What the handoff says, whatever the sessions, the records, the caps and *)
(* the faults are: entries of Task and Next action stay, the first prompt  *)
(* and the last answer are listed once, and what the daemon reads again    *)
(* does not show.                                                          *)
(*                                                                         *)
(* The rows that a query returns are Telling: every record has a row,      *)
(* behind every row there is one of each later record and before it one of *)
(* each earlier record.  What a distiller makes of such rows is what it    *)
(* makes of the records, each once; how Distinct, FlattenSeq and Strip run *)
(* through a sequence is shown by induction over numbers and sequences.    *)
(***************************************************************************)
EXTENDS Sections, Inductions, FiniteSetTheorems

(* Accumulating puts at most one value on top of a section. *)
LEMMA AccumulateBelow ==
  ASSUME NEW V, NEW section \in Seq(V), NEW value
  PROVE  /\ Accumulate(section, value) \in Seq(V \cup {value})
         /\ Below(section, Accumulate(section, value))
<1>1. section \in Seq(V \cup {value})
  OBVIOUS
<1>2. CASE value = None \/ Contains(section, value)
  <2>1. Accumulate(section, value) = section
    BY <1>2 DEF Accumulate
  <2> QED  BY <1>1, <2>1 DEF Below
<1>3. CASE ~(value = None \/ Contains(section, value))
  <2> DEFINE new == <<value>> \o section
  <2>1. Accumulate(section, value) = new
    BY <1>3 DEF Accumulate
  <2>2. <<value>> \in Seq(V \cup {value})
    OBVIOUS
  <2>3. /\ new \in Seq(V \cup {value}) /\ Len(new) = Len(section) + 1
        /\ \A i \in 1..Len(section) : new[i + 1] = section[i]
    BY <1>1, <2>2
  <2>4. \A i \in 1..Len(section) : new[i + (Len(new) - Len(section))] = section[i]
    <3>1. Len(section) \in Nat /\ Len(new) - Len(section) = 1
      BY <2>3
    <3> HIDE DEF new
    <3> QED  BY <2>3, <3>1
  <2> HIDE DEF new
  <2> QED  BY <2>1, <2>3, <2>4 DEF Below
<1> QED  BY <1>2, <1>3

LEMMA BelowItself ==
  ASSUME NEW V, NEW section \in Seq(V)
  PROVE  Below(section, section)
BY DEF Below

(* The two sections are sequences. *)
Lists ==
  /\ {"task", "next", "activity"} \subseteq DOMAIN sheet
  /\ \E V : sheet.task \in Seq(V)
  /\ \E V : sheet.next \in Seq(V)

LEMMA ListsInit == Init => Lists
<1> SUFFICES ASSUME Init PROVE Lists
  OBVIOUS
<1>1. sheet = Blank
  BY DEF Init
<1>2. Blank.task \in Seq({}) /\ Blank.next \in Seq({})
  BY DEF Blank
<1>3. {"task", "next", "activity"} \subseteq DOMAIN Blank
  BY DEF Blank
<1> QED  BY <1>1, <1>2, <1>3 DEF Lists

Deletes == ~(/\ Below(sheet.task, sheet'.task) /\ Below(sheet.next, sheet'.next)
             /\ (sheet.activity # None => sheet'.activity # None))

(* Every step: only a publish touches the two sections, through Accumulate. *)
LEMMA StepKeeps ==
  ASSUME SectionsAssumption, Lists, [Next]_vars
  PROVE  Lists' /\ ~Deletes
<1>0. PICK V : sheet.task \in Seq(V)
  BY DEF Lists
<1>00. PICK W : sheet.next \in Seq(W)
  BY DEF Lists
<1>1. CASE sheet' = sheet
  <2>1. Below(sheet.task, sheet'.task) /\ Below(sheet.next, sheet'.next)
    BY <1>0, <1>00, <1>1, BelowItself
  <2> QED  BY <1>1, <2>1 DEF Lists, Deletes
<1>2. CASE Publish
  <2> DEFINE t == Task(Query(cur))
             n == NextAction(Query(cur))
  <2>1. PICK files \in RecentFiles(Query(cur)), scan \in Activity \cup {None} :
          sheet' = [from      |-> cur,
                    task      |-> Accumulate(sheet.task, t),
                    next      |-> Accumulate(sheet.next, n),
                    questions |-> OpenQuestions(Query(cur)),
                    failed    |-> FailedApproaches(Query(cur)),
                    files     |-> files,
                    activity  |-> IF scan = None THEN sheet.activity ELSE scan]
    BY <1>2, Zenon DEF Publish
  <2> HIDE DEF t, n
  <2>2. /\ sheet'.task = Accumulate(sheet.task, t)
        /\ sheet'.next = Accumulate(sheet.next, n)
        /\ sheet'.activity = (IF scan = None THEN sheet.activity ELSE scan)
        /\ {"task", "next", "activity"} \subseteq DOMAIN sheet'
    BY <2>1
  <2>a. /\ Accumulate(sheet.task, t) \in Seq(V \cup {t})
        /\ Below(sheet.task, Accumulate(sheet.task, t))
    BY <1>0, AccumulateBelow, Zenon
  <2>b. /\ Accumulate(sheet.next, n) \in Seq(W \cup {n})
        /\ Below(sheet.next, Accumulate(sheet.next, n))
    BY <1>00, AccumulateBelow, Zenon
  <2>3. /\ sheet'.task \in Seq(V \cup {t})
        /\ Below(sheet.task, sheet'.task)
    BY <2>2, <2>a, Zenon
  <2>4. /\ sheet'.next \in Seq(W \cup {n})
        /\ Below(sheet.next, sheet'.next)
    BY <2>2, <2>b, Zenon
  <2>5. sheet.activity # None => sheet'.activity # None
    BY <2>2 DEF SectionsAssumption
  <2> QED  BY <2>2, <2>3, <2>4, <2>5 DEF Lists, Deletes
<1>3. CASE RefreshActivity
  <2>1. PICK scan \in Activity : sheet' = [sheet EXCEPT !.activity = scan]
    BY <1>3 DEF RefreshActivity
  <2>2. /\ sheet'.task = sheet.task /\ sheet'.next = sheet.next
        /\ sheet'.activity = scan /\ DOMAIN sheet' = DOMAIN sheet
    BY <2>1 DEF Lists
  <2>3. Below(sheet.task, sheet'.task) /\ Below(sheet.next, sheet'.next)
    BY <1>0, <1>00, <2>2, BelowItself
  <2>4. sheet'.activity # None
    BY <2>2 DEF SectionsAssumption
  <2> QED  BY <2>2, <2>3, <2>4 DEF Lists, Deletes
<1>4. sheet' = sheet \/ Publish \/ RefreshActivity
  BY DEF Next, Say, Insert, Rescan, SaveCursor, CutShort, vars
<1> QED  BY <1>1, <1>2, <1>3, <1>4

(* For any number of sessions, with any transcripts, faults and repeated reads:
   no publish or refresh drops, moves or reorders an entry of Task or Next
   action, nor empties the activity (pipeline.rs:351-353, 561-615). *)
THEOREM EntriesStay == Spec => NothingDeleted
<1>1. Init => Lists
  BY ListsInit
<1>2. Lists /\ [Next]_vars => Lists' /\ ~Deletes
  BY StepKeeps, SectionsAssumption
<1>3. ~Deletes => /\ Below(sheet.task, sheet'.task)
                  /\ Below(sheet.next, sheet'.next)
                  /\ (sheet.activity # None => sheet'.activity # None)
  BY DEF Deletes
<1>4. Lists /\ [Next]_vars =>
        [ /\ Below(sheet.task, sheet'.task)
          /\ Below(sheet.next, sheet'.next)
          /\ (sheet.activity # None => sheet'.activity # None) ]_vars
  BY <1>2, <1>3
<1> QED  BY <1>1, <1>2, <1>4, PTL DEF Spec, NothingDeleted
-----------------------------------------------------------------------------
(***************************************************************************)
(* Distinct, item by item.                                                 *)
(***************************************************************************)

(* One more item: what FoldLeft does with it. *)
Pushed(acc, x, n) == IF Len(acc) < n /\ ~Contains(acc, x) THEN Append(acc, x) ELSE acc

(* g pushes the items of s at the positions D, the last one last. *)
Pushes(g, D, s, n) ==
  g = [d \in SUBSET D |-> IF d = {} THEN << >> ELSE Pushed(g[d \ {Max(d)}], s[Max(d)], n)]

LEMMA PushesExist ==
  ASSUME NEW V, NEW n, NEW s \in Seq(V) PROVE \E g : Pushes(g, 1..Len(s), s, n)
<1> DEFINE m == Len(s)
           A == Seq(V)
           b == << >>
           T == [p \in (1..m) \X A |-> Pushed(p[2], s[p[1]], n)]
<1>1. m \in Nat /\ b \in A /\ \A k \in 1..m, t \in A : Pushed(t, s[k], n) \in A
  BY DEF Pushed
<1>2. T \in [(1..m) \X A -> A]
  <2> HIDE DEF A, m
  <2> QED  BY <1>1
<1>3. \A k \in 1..m, t \in A : T[<<k, t>>] = Pushed(t, s[k], n)
  <2> HIDE DEF A, m
  <2> QED  OBVIOUS
<1> HIDE DEF m, A, b, T
<1>4. PICK g \in [SUBSET (1..m) -> A] : Folding(g, m, b, T)
  BY <1>1, <1>2, FoldExists
<1>5. ASSUME NEW d \in SUBSET (1..m), d # {}
      PROVE  T[<<Max(d), g[d \ {Max(d)}]>>] = Pushed(g[d \ {Max(d)}], s[Max(d)], n)
  <2>1. Max(d) \in 1..m
    BY <1>1, <1>5, MaxIn
  <2>2. g[d \ {Max(d)}] \in A
    OBVIOUS
  <2> QED  BY <1>3, <2>1, <2>2
<1>6. g = [d \in SUBSET (1..m) |-> g[d]]
  OBVIOUS
<1>7. Pushes(g, 1..m, s, n)
  BY <1>4, <1>5, <1>6 DEF Pushes, Folding, b
<1> QED  BY <1>7 DEF m

(* h[k] is what Distinct has of the first k items. *)
PushSteps(h, s, n) ==
  /\ h[0] = << >>
  /\ \A k \in 1..Len(s) : h[k] = Pushed(h[k - 1], s[k], n)

LEMMA DistinctSteps ==
  ASSUME NEW V, NEW n, NEW s \in Seq(V)
  PROVE  \E h : PushSteps(h, s, n) /\ Distinct(s, n) = h[Len(s)]
<1> DEFINE D  == DOMAIN s
           it == CHOOSE g : Pushes(g, D, s, n)
           h  == [k \in 0..Len(s) |-> it[1..k]]
<1>1. D = 1..Len(s) /\ Len(s) \in Nat
  OBVIOUS
<1>2. Pushes(it, D, s, n)
  <2>1. \E g : Pushes(g, D, s, n)
    BY <1>1, PushesExist
  <2> QED  BY <2>1, Zenon
<1>3. Distinct(s, n) = it[D]
  BY DEF Distinct, FoldLeft, MapThenFoldSet, Pushes, Pushed
<1> HIDE DEF it
<1>4. h[0] = << >>
  <2>1. 1..0 = {} /\ {} \in SUBSET D
    OBVIOUS
  <2>2. it[{}] = << >>
    BY <1>2, <2>1 DEF Pushes
  <2> QED  BY <1>1, <2>1, <2>2
<1>5. ASSUME NEW k \in 1..Len(s) PROVE h[k] = Pushed(h[k - 1], s[k], n)
  <2> DEFINE d == 1..k
  <2>1. d \in SUBSET D /\ d # {} /\ Max(d) = k /\ d \ {Max(d)} = 1..(k - 1)
    BY <1>1, UpToLast
  <2>2. it[d] = Pushed(it[d \ {Max(d)}], s[Max(d)], n)
    <3> HIDE DEF d
    <3> QED  BY <1>2, <2>1 DEF Pushes
  <2>3. it[1..k] = Pushed(it[1..(k - 1)], s[k], n)
    BY <2>1, <2>2
  <2>4. h[k] = it[1..k] /\ h[k - 1] = it[1..(k - 1)]
    BY <1>1
  <2> QED  BY <2>3, <2>4
<1>6. h[Len(s)] = it[D]
  BY <1>1
<1> HIDE DEF h
<1> QED  BY <1>3, <1>4, <1>5, <1>6 DEF PushSteps

LEMMA DistinctEmpty == ASSUME NEW n PROVE Distinct(<< >>, n) = << >>
<1>1. << >> \in Seq({}) /\ Len(<< >>) = 0
  OBVIOUS
<1>2. PICK h : PushSteps(h, << >>, n) /\ Distinct(<< >>, n) = h[Len(<< >>)]
  BY <1>1, DistinctSteps, Zenon
<1> QED  BY <1>1, <1>2 DEF PushSteps

LEMMA DistinctAppend ==
  ASSUME NEW V, NEW n, NEW s \in Seq(V), NEW e \in V
  PROVE  Distinct(Append(s, e), n) = Pushed(Distinct(s, n), e, n)
<1> DEFINE t == Append(s, e)
           m == Len(s)
<1>1. /\ t \in Seq(V) /\ m \in Nat /\ Len(t) = m + 1 /\ t[m + 1] = e
      /\ \A k \in 1..m : t[k] = s[k]
  OBVIOUS
<1>2. PICK h : PushSteps(h, s, n) /\ Distinct(s, n) = h[m]
  BY DistinctSteps
<1> HIDE DEF t, m
<1>3. PICK g : PushSteps(g, t, n) /\ Distinct(t, n) = g[m + 1]
  BY <1>1, DistinctSteps
<1>4. g[m] = h[m]
  <2> DEFINE P == { k \in 0..m : g[k] = h[k] }
  <2>1. 0 \in P
    BY <1>1, <1>2, <1>3 DEF PushSteps
  <2>2. ASSUME NEW k \in 1..m, k - 1 \in P PROVE k \in P
    <3>1. h[k] = Pushed(h[k - 1], s[k], n)
      BY <1>2 DEF PushSteps, m
    <3>2. g[k] = Pushed(g[k - 1], t[k], n)
      BY <1>1, <1>3 DEF PushSteps
    <3> QED  BY <1>1, <2>2, <3>1, <3>2
  <2>3. \A k \in 1..m : k - 1 \in P => k \in P
    BY <2>2
  <2>4. 0..m \subseteq P
    <3> HIDE DEF P
    <3> QED  BY <1>1, <2>1, <2>3, Counting, Zenon
  <2> QED  BY <1>1, <2>4
<1>5. g[m + 1] = Pushed(g[m], e, n)
  BY <1>1, <1>3 DEF PushSteps
<1> QED  BY <1>2, <1>3, <1>4, <1>5 DEF t

LEMMA AppendToSet ==
  ASSUME NEW V, NEW s \in Seq(V), NEW e \in V
  PROVE  ToSet(Append(s, e)) = ToSet(s) \cup {e}
<1> DEFINE t == Append(s, e)
<1>1. /\ DOMAIN s = 1..Len(s) /\ DOMAIN t = 1..(Len(s) + 1) /\ Len(s) \in Nat
      /\ t[Len(s) + 1] = e /\ \A i \in 1..Len(s) : t[i] = s[i]
  OBVIOUS
<1> HIDE DEF t
<1>2. \A i \in DOMAIN t : t[i] \in ToSet(s) \cup {e}
  <2>1. \A i \in DOMAIN t : i \in DOMAIN s \/ i = Len(s) + 1
    BY <1>1
  <2> QED  BY <1>1, <2>1 DEF ToSet
<1>3. \A i \in DOMAIN s : s[i] \in ToSet(t)
  <2>1. \A i \in DOMAIN s : i \in DOMAIN t /\ t[i] = s[i]
    BY <1>1
  <2> QED  BY <2>1 DEF ToSet
<1>4. e \in ToSet(t)
  <2>1. Len(s) + 1 \in DOMAIN t
    BY <1>1
  <2> QED  BY <1>1, <2>1 DEF ToSet
<1>5. ToSet(t) = ToSet(s) \cup {e}
  BY <1>2, <1>3, <1>4, Zenon DEF ToSet
<1> QED  BY <1>5 DEF t

(* t is s and more. *)
Begins(V, s, t) == \E w \in Seq(V) : t = s \o w

LEMMA BeginsItself == ASSUME NEW V, NEW s \in Seq(V) PROVE Begins(V, s, s)
<1> DEFINE none == << >>
<1>1. none \in Seq(V) /\ s = s \o none
  OBVIOUS
<1> HIDE DEF none
<1> QED  BY <1>1 DEF Begins

LEMMA BeginsMore ==
  ASSUME NEW V, NEW s \in Seq(V), NEW t \in Seq(V), NEW q \in Seq(V), Begins(V, s, t)
  PROVE  Begins(V, s, t \o q)
<1>1. PICK w \in Seq(V) : t = s \o w
  BY DEF Begins
<1> DEFINE r == w \o q
<1>2. r \in Seq(V)
  OBVIOUS
<1>3. (s \o w) \o q = s \o r
  BY ConcatAssociative, SMTT(30)
<1>4. t \o q = s \o r
  BY <1>1, <1>3
<1> HIDE DEF r
<1> QED  BY <1>2, <1>4 DEF Begins

LEMMA ConcatToSet ==
  ASSUME NEW V, NEW s \in Seq(V), NEW t \in Seq(V)
  PROVE  ToSet(s) \subseteq ToSet(s \o t) /\ ToSet(t) \subseteq ToSet(s \o t)
<1> DEFINE u == s \o t
<1>1. /\ DOMAIN s = 1..Len(s) /\ DOMAIN t = 1..Len(t) /\ DOMAIN u = 1..(Len(s) + Len(t))
      /\ Len(s) \in Nat /\ Len(t) \in Nat
      /\ \A i \in 1..Len(s) : u[i] = s[i]
      /\ \A i \in 1..Len(t) : u[Len(s) + i] = t[i]
  OBVIOUS
<1> HIDE DEF u
<1>2. \A i \in DOMAIN s : i \in DOMAIN u /\ u[i] = s[i]
  BY <1>1
<1>3. \A i \in DOMAIN t : Len(s) + i \in DOMAIN u /\ u[Len(s) + i] = t[i]
  BY <1>1
<1>4. ToSet(s) \subseteq ToSet(u) /\ ToSet(t) \subseteq ToSet(u)
  BY <1>2, <1>3 DEF ToSet
<1> QED  BY <1>4 DEF u

(* What Distinct has is of s, no more than n, and all of s if it is less than n. *)
Picked(d, s, n) ==
  /\ Len(d) <= n
  /\ \A x \in ToSet(d) : x \in ToSet(s)
  /\ Len(d) < n => \A x \in ToSet(s) : x \in ToSet(d)

LEMMA DistinctType ==
  ASSUME NEW V, NEW n \in Nat, NEW s \in Seq(V)
  PROVE  Distinct(s, n) \in Seq(V) /\ Picked(Distinct(s, n), s, n)
<1> DEFINE P == { t \in Seq(V) : Distinct(t, n) \in Seq(V) /\ Picked(Distinct(t, n), t, n) }
<1>1. << >> \in P
  <2>1. << >> \in Seq(V) /\ Picked(<< >>, << >>, n)
    BY DEF Picked, ToSet
  <2> QED  BY <2>1, DistinctEmpty, Zenon
<1>2. ASSUME NEW t \in Seq(V), NEW e \in V, t \in P PROVE Append(t, e) \in P
  <2> DEFINE d == Distinct(t, n)
             u == Append(t, e)
             c == Pushed(d, e, n)
  <2>1. Distinct(u, n) = c /\ u \in Seq(V)
    BY DistinctAppend
  <2>2. d \in Seq(V) /\ Picked(d, t, n)
    BY <1>2
  <2>3. ToSet(u) = ToSet(t) \cup {e}
    BY AppendToSet
  <2> HIDE DEF d, u
  <2>4. CASE Len(d) < n /\ ~Contains(d, e)
    <3>1. c = Append(d, e)
      BY <2>4 DEF Pushed
    <3>2. ToSet(c) = ToSet(d) \cup {e} /\ Len(c) = Len(d) + 1 /\ c \in Seq(V)
      BY <2>2, <3>1, AppendToSet
    <3> HIDE DEF c
    <3>3. Len(c) <= n
      BY <2>2, <2>4, <3>2
    <3>4. Picked(c, u, n)
      BY <2>2, <2>3, <2>4, <3>2, <3>3 DEF Picked
    <3>5. Distinct(u, n) \in Seq(V) /\ Picked(Distinct(u, n), u, n)
      BY <2>1, <3>2, <3>4, Zenon
    <3> QED  BY <2>1, <3>5 DEF u
  <2>5. CASE ~(Len(d) < n /\ ~Contains(d, e))
    <3>1. c = d
      BY <2>5 DEF Pushed
    <3>2. Len(d) < n => e \in ToSet(d)
      BY <2>2, <2>5 DEF Contains, ToSet
    <3> HIDE DEF c
    <3>3. Picked(c, u, n)
      BY <2>2, <2>3, <3>1, <3>2 DEF Picked
    <3>4. Distinct(u, n) \in Seq(V) /\ Picked(Distinct(u, n), u, n)
      BY <2>1, <2>2, <3>1, <3>3, Zenon
    <3> QED  BY <2>1, <3>4 DEF u
  <2> QED  BY <2>4, <2>5
<1> HIDE DEF P
<1>3. s \in P
  BY <1>1, <1>2, SeqInduction
<1> QED  BY <1>3 DEF P

(* What is there already does not count again. *)
LEMMA PushedAgain ==
  ASSUME NEW V, NEW n \in Nat, NEW s \in Seq(V), NEW e \in ToSet(s)
  PROVE  Pushed(Distinct(s, n), e, n) = Distinct(s, n)
<1> DEFINE d == Distinct(s, n)
<1>1. d \in Seq(V) /\ Picked(d, s, n)
  BY DistinctType
<1> HIDE DEF d
<1>2. Len(d) < n => Contains(d, e)
  BY <1>1 DEF Picked, Contains, ToSet
<1>3. Pushed(d, e, n) = d
  BY <1>2 DEF Pushed
<1> QED  BY <1>3 DEF d

LEMMA DistinctConcat ==
  ASSUME NEW V, NEW n \in Nat, NEW s \in Seq(V), NEW t \in Seq(V), NEW u \in Seq(V),
         Distinct(s, n) = Distinct(t, n)
  PROVE  Distinct(s \o u, n) = Distinct(t \o u, n)
<1> DEFINE P == { x \in Seq(V) : Distinct(s \o x, n) = Distinct(t \o x, n) }
<1>1. << >> \in P
  OBVIOUS
<1>2. ASSUME NEW x \in Seq(V), NEW e \in V, x \in P PROVE Append(x, e) \in P
  <2>1. /\ s \o Append(x, e) = Append(s \o x, e) /\ s \o x \in Seq(V)
        /\ t \o Append(x, e) = Append(t \o x, e) /\ t \o x \in Seq(V)
        /\ Append(x, e) \in Seq(V)
    BY SMTT(30)
  <2>2. Distinct(Append(s \o x, e), n) = Pushed(Distinct(s \o x, n), e, n)
    BY <2>1, DistinctAppend
  <2>3. Distinct(Append(t \o x, e), n) = Pushed(Distinct(t \o x, n), e, n)
    BY <2>1, DistinctAppend
  <2>4. Distinct(s \o x, n) = Distinct(t \o x, n)
    BY <1>2
  <2>5. Distinct(s \o Append(x, e), n) = Distinct(t \o Append(x, e), n)
    BY <2>1, <2>2, <2>3, <2>4, Zenon
  <2> QED  BY <2>1, <2>5
<1> HIDE DEF P
<1>3. u \in P
  BY <1>1, <1>2, SeqInduction
<1> QED  BY <1>3 DEF P

LEMMA DistinctAgain ==
  ASSUME NEW V, NEW n \in Nat, NEW s \in Seq(V), NEW u \in Seq(V), ToSet(u) \subseteq ToSet(s)
  PROVE  Distinct(s \o u, n) = Distinct(s, n)
<1> DEFINE P == { x \in Seq(V) : ToSet(x) \subseteq ToSet(s) =>
                                   Distinct(s \o x, n) = Distinct(s, n) }
<1>1. << >> \in P
  OBVIOUS
<1>2. ASSUME NEW x \in Seq(V), NEW e \in V, x \in P PROVE Append(x, e) \in P
  <2>1. /\ s \o Append(x, e) = Append(s \o x, e) /\ s \o x \in Seq(V)
        /\ Append(x, e) \in Seq(V)
    OBVIOUS
  <2>2. ToSet(Append(x, e)) = ToSet(x) \cup {e}
    BY AppendToSet
  <2>3. ASSUME ToSet(Append(x, e)) \subseteq ToSet(s)
        PROVE  Distinct(s \o Append(x, e), n) = Distinct(s, n)
    <3>1. Distinct(s \o x, n) = Distinct(s, n) /\ e \in ToSet(s)
      BY <1>2, <2>2, <2>3
    <3>2. Distinct(Append(s \o x, e), n) = Pushed(Distinct(s \o x, n), e, n)
      BY <2>1, DistinctAppend
    <3>3. Pushed(Distinct(s, n), e, n) = Distinct(s, n)
      BY <3>1, PushedAgain
    <3> QED  BY <2>1, <3>1, <3>2, <3>3, Zenon
  <2> QED  BY <2>1, <2>3
<1> HIDE DEF P
<1>3. u \in P
  BY <1>1, <1>2, SeqInduction
<1> QED  BY <1>3 DEF P

LEMMA DistinctGrows ==
  ASSUME NEW V, NEW n \in Nat, NEW s \in Seq(V), NEW u \in Seq(V)
  PROVE  IsPrefix(Distinct(s, n), Distinct(s \o u, n))
<1> DEFINE d == Distinct(s, n)
           P == { x \in Seq(V) : IsPrefix(d, Distinct(s \o x, n)) }
<1>0. d \in Seq(V)
  BY DistinctType
<1>1. << >> \in P
  <2>1. s \o << >> = s /\ << >> \in Seq(V)
    OBVIOUS
  <2>2. IsPrefix(d, d)
    <3> HIDE DEF d
    <3> QED  BY <1>0 DEF IsPrefix
  <2> QED  BY <2>1, <2>2
<1>2. ASSUME NEW x \in Seq(V), NEW e \in V, x \in P PROVE Append(x, e) \in P
  <2> DEFINE c == Distinct(s \o x, n)
  <2>1. /\ s \o Append(x, e) = Append(s \o x, e) /\ s \o x \in Seq(V)
        /\ Append(x, e) \in Seq(V)
    OBVIOUS
  <2>2. Distinct(Append(s \o x, e), n) = Pushed(c, e, n) /\ c \in Seq(V)
    BY <2>1, DistinctAppend, DistinctType
  <2>3. IsPrefix(d, c)
    BY <1>2
  <2> HIDE DEF d, c
  <2>4. IsPrefix(d, Append(c, e))
    <3>1. Len(d) \in Nat /\ Len(c) \in Nat /\ Len(d) <= Len(c) /\ Append(c, e) \in Seq(V)
      BY <1>0, <2>2, <2>3 DEF IsPrefix
    <3>2. \A i \in 1..Len(d) : Append(c, e)[i] = c[i]
      BY <2>2, <3>1
    <3>3. SubSeq(Append(c, e), 1, Len(d)) = SubSeq(c, 1, Len(d))
      BY <2>2, <3>1, <3>2
    <3> QED  BY <2>2, <2>3, <3>1, <3>3 DEF IsPrefix
  <2>5. IsPrefix(d, Pushed(c, e, n))
    BY <2>3, <2>4 DEF Pushed
  <2> QED  BY <2>1, <2>2, <2>5
<1> HIDE DEF P
<1>3. u \in P
  BY <1>1, <1>2, SeqInduction
<1> QED  BY <1>3 DEF P, d
-----------------------------------------------------------------------------
(***************************************************************************)
(* What the rows say, one after the other.                                 *)
(***************************************************************************)

(* h[k] is what the first k of the texts X say. *)
Flats(h, X, n) ==
  /\ h[0] = << >>
  /\ \A k \in 1..n : h[k] = h[k - 1] \o X[k]

LEMMA FlatsExist ==
  ASSUME NEW V, NEW n \in Nat, NEW X \in [1..n -> Seq(V)]
  PROVE  \E h \in [0..n -> Seq(V)] : Flats(h, X, n)
<1> DEFINE P == { k \in 0..n : \E h \in [0..k -> Seq(V)] : Flats(h, X, k) }
<1>1. 0 \in P
  <2> DEFINE h == [k \in 0..0 |-> << >>]
  <2>1. h \in [0..0 -> Seq(V)] /\ Flats(h, X, 0)
    BY DEF Flats
  <2>2. \E f \in [0..0 -> Seq(V)] : Flats(f, X, 0)
    <3> HIDE DEF h
    <3> QED  BY <2>1
  <2> QED  BY <2>2
<1>2. ASSUME NEW k \in 1..n, k - 1 \in P PROVE k \in P
  <2>1. PICK h \in [0..(k - 1) -> Seq(V)] : Flats(h, X, k - 1)
    BY <1>2
  <2> DEFINE g == [i \in 0..k |-> IF i = k THEN h[k - 1] \o X[k] ELSE h[i]]
  <2>2. h[k - 1] \in Seq(V) /\ X[k] \in Seq(V) /\ h[k - 1] \o X[k] \in Seq(V)
    OBVIOUS
  <2>3. g \in [0..k -> Seq(V)]
    <3>1. \A i \in 0..k : i # k => i \in 0..(k - 1)
      OBVIOUS
    <3> QED  BY <2>2, <3>1
  <2>4. Flats(g, X, k)
    <3>1. g[0] = h[0] /\ g[k] = h[k - 1] \o X[k] /\ g[k - 1] = h[k - 1]
      OBVIOUS
    <3>2. \A i \in 1..(k - 1) : g[i] = h[i] /\ g[i - 1] = h[i - 1]
      OBVIOUS
    <3>3. \A i \in 1..k : i = k \/ i \in 1..(k - 1)
      OBVIOUS
    <3> HIDE DEF g
    <3> QED  BY <2>1, <3>1, <3>2, <3>3 DEF Flats
  <2> HIDE DEF g
  <2> QED  BY <2>3, <2>4
<1>3. \A k \in 1..n : k - 1 \in P => k \in P
  BY <1>2
<1>4. 0..n \subseteq P
  <2> HIDE DEF P
  <2> QED  BY <1>1, <1>3, Counting, Zenon
<1> QED  BY <1>4

(* The recursion in FlattenSeq defines something, which is that. *)
Flattens(f, X, n) ==
  f = [i \in 1..n |-> IF i = 1 THEN X[i] ELSE f[i - 1] \o X[i]]

LEMMA FlattenIs ==
  ASSUME NEW V, NEW n \in Nat, NEW X \in [1..n -> Seq(V)],
         NEW h \in [0..n -> Seq(V)], Flats(h, X, n)
  PROVE  FlattenSeq(X) = h[n]
<1>0. Len(X) = n /\ X \in Seq(Seq(V))
  OBVIOUS
<1>h. h[0] = << >> /\ \A k \in 1..n : h[k] = h[k - 1] \o X[k]
  BY DEF Flats
<1>e. n # 0 => h[1] = X[1]
  <2>1. ASSUME n # 0 PROVE h[1] = X[1]
    <3>1. 1 \in 1..n /\ 1 - 1 = 0
      BY <2>1
    <3>2. h[1] = h[1 - 1] \o X[1]
      BY <1>h, <3>1
    <3>3. X[1] \in Seq(V)
      BY <3>1
    <3>4. << >> \o X[1] = X[1]
      BY <3>3
    <3> QED  BY <1>h, <3>1, <3>2, <3>4
  <2> QED  BY <2>1
<1>1. CASE n = 0
  <2>1. X = << >>
    BY <1>0, <1>1
  <2> QED  BY <1>0, <1>1, <2>1 DEF FlattenSeq, Flats
<1>2. CASE n # 0
  <2> DEFINE f == CHOOSE g : Flattens(g, X, n)
  <2>1. Flattens(f, X, n)
    <3> DEFINE g == [i \in 1..n |-> h[i]]
    <3>1. ASSUME NEW i \in 1..n
          PROVE  g[i] = IF i = 1 THEN X[i] ELSE g[i - 1] \o X[i]
      <4>1. g[i] = h[i] /\ h[i] = h[i - 1] \o X[i]
        BY <1>h
      <4>2. i # 1 => g[i - 1] = h[i - 1]
        OBVIOUS
      <4>3. i = 1 => h[i] = X[i]
        BY <1>2, <1>e
      <4> HIDE DEF g
      <4> QED  BY <4>1, <4>2, <4>3
    <3>2. g = [i \in 1..n |-> g[i]]
      OBVIOUS
    <3>3. Flattens(g, X, n)
      <4> HIDE DEF g
      <4> QED  BY <3>1, <3>2 DEF Flattens
    <3> HIDE DEF g
    <3> QED  BY <3>3, Zenon
  <2>2. FlattenSeq(X) = f[n]
    BY <1>0, <1>2 DEF FlattenSeq, Flattens
  <2> HIDE DEF f
  <2> DEFINE P == { k \in 0..n : k = 0 \/ f[k] = h[k] }
  <2>3. 0 \in P
    OBVIOUS
  <2>4. ASSUME NEW k \in 1..n, k - 1 \in P PROVE k \in P
    <3>1. f[k] = IF k = 1 THEN X[k] ELSE f[k - 1] \o X[k]
      BY <2>1 DEF Flattens
    <3>2. h[k] = h[k - 1] \o X[k]
      BY <1>h
    <3>3. k = 1 => h[k] = X[k]
      BY <1>2, <1>e
    <3>4. k # 1 => f[k - 1] = h[k - 1]
      BY <2>4
    <3>5. f[k] = h[k]
      BY <3>1, <3>2, <3>3, <3>4, Zenon
    <3> QED  BY <3>5
  <2>5. \A k \in 1..n : k - 1 \in P => k \in P
    BY <2>4
  <2>6. 0..n \subseteq P
    <3> HIDE DEF P
    <3> QED  BY <2>3, <2>5, Counting, Zenon
  <2> QED  BY <1>2, <2>2, <2>6
<1> QED  BY <1>1, <1>2

LEMMA FlattenType ==
  ASSUME NEW V, NEW n \in Nat, NEW X \in [1..n -> Seq(V)]
  PROVE  FlattenSeq(X) \in Seq(V)
<1>1. PICK h \in [0..n -> Seq(V)] : Flats(h, X, n)
  BY FlatsExist
<1>2. FlattenSeq(X) = h[n]
  BY <1>1, FlattenIs
<1> QED  BY <1>2

(* Further texts leave what was said before. *)
LEMMA FlatHas ==
  ASSUME NEW V, NEW n \in Nat, NEW X \in [1..n -> Seq(V)],
         NEW h \in [0..n -> Seq(V)], Flats(h, X, n),
         NEW m \in 0..n, NEW a \in 1..m
  PROVE  ToSet(X[a]) \subseteq ToSet(h[m])
<1> DEFINE P == { k \in 0..n : a <= k => ToSet(X[a]) \subseteq ToSet(h[k]) }
<1>1. 0 \in P
  OBVIOUS
<1>2. ASSUME NEW k \in 1..n, k - 1 \in P PROVE k \in P
  <2>1. h[k] = h[k - 1] \o X[k]
    BY DEF Flats
  <2>0. X[k] \in Seq(V) /\ h[k - 1] \in Seq(V)
    OBVIOUS
  <2>2. ToSet(h[k - 1]) \subseteq ToSet(h[k]) /\ ToSet(X[k]) \subseteq ToSet(h[k])
    BY <2>0, <2>1, ConcatToSet
  <2>3. a <= k => a = k \/ a <= k - 1
    OBVIOUS
  <2> QED  BY <1>2, <2>2, <2>3
<1>3. \A k \in 1..n : k - 1 \in P => k \in P
  BY <1>2
<1>4. 0..n \subseteq P
  <2> HIDE DEF P
  <2> QED  BY <1>1, <1>3, Counting, Zenon
<1> QED  BY <1>4
-----------------------------------------------------------------------------
(***************************************************************************)
(* Rows in the order in which a session query returns them.                *)
(***************************************************************************)

(* The n rows are of the records 1 to top, rec[k] the record of the kth: every
   record has a row, behind every row there is one of each later record, and
   before it one of each earlier record. *)
Telling(rec, n, top) ==
  /\ n \in Nat /\ top \in Nat /\ rec \in [1..n -> 1..top]
  /\ \A a \in 1..top : \E k \in 1..n : rec[k] = a
  /\ \A k \in 1..n, b \in 1..top : rec[k] < b => \E j \in 1..n : k < j /\ rec[j] = b
  /\ \A k \in 1..n, a \in 1..top : a < rec[k] => \E j \in 1..n : j < k /\ rec[j] = a

RowsOf(t, rec, n) == [k \in 1..n |-> t[rec[k]]]

(* What is told apart in the rows is what is told apart in the records. *)
LEMMA Reread ==
  ASSUME NEW V, NEW c \in Nat, NEW n \in Nat, NEW top \in Nat, NEW rec, Telling(rec, n, top),
         NEW Y \in [1..top -> Seq(V)]
  PROVE  Distinct(FlattenSeq(RowsOf(Y, rec, n)), c) = Distinct(FlattenSeq(Y), c)
<1> DEFINE X == RowsOf(Y, rec, n)
<1>0. rec \in [1..n -> 1..top]
  BY DEF Telling
<1>1. X \in [1..n -> Seq(V)] /\ \A k \in 1..n : X[k] = Y[rec[k]]
  BY <1>0 DEF RowsOf
<1> HIDE DEF X
<1>2. PICK h \in [0..n -> Seq(V)] : Flats(h, X, n)
  BY <1>1, FlatsExist
<1>3. PICK g \in [0..top -> Seq(V)] : Flats(g, Y, top)
  BY FlatsExist
<1>4. FlattenSeq(X) = h[n] /\ FlattenSeq(Y) = g[top]
  BY <1>1, <1>2, <1>3, FlattenIs
<1> DEFINE Reached(k, m) == /\ \A j \in 1..k : rec[j] <= m
                            /\ Distinct(h[k], c) = Distinct(g[m], c)
           P == { k \in 0..n : \E m \in 0..top : Reached(k, m) }
<1>5. 0 \in P
  <2>1. h[0] = << >> /\ g[0] = << >>
    BY <1>2, <1>3 DEF Flats
  <2>2. Reached(0, 0)
    BY <2>1
  <2>3. \E m \in 0..top : Reached(0, m)
    <3> HIDE DEF Reached
    <3> QED  BY <2>2
  <2> HIDE DEF Reached
  <2> QED  BY <2>3
<1>6. ASSUME NEW k \in 1..n, k - 1 \in P PROVE k \in P
  <2>1. PICK m \in 0..top : Reached(k - 1, m)
    BY <1>6
  <2> DEFINE a == rec[k]
             y == Y[a]
  <2>2. a \in 1..top /\ y \in Seq(V) /\ h[k - 1] \in Seq(V) /\ g[m] \in Seq(V)
    BY <1>0
  <2>3. h[k] = h[k - 1] \o y
    <3>1. h[k] = h[k - 1] \o X[k] /\ X[k] = y
      BY <1>1, <1>2 DEF Flats
    <3> QED  BY <3>1, Zenon
  <2>4. Distinct(h[k - 1], c) = Distinct(g[m], c)
    BY <2>1
  <2>5. Distinct(h[k], c) = Distinct(g[m] \o y, c)
    <3> HIDE DEF y, Reached
    <3>1. Distinct(h[k - 1] \o y, c) = Distinct(g[m] \o y, c)
      BY <2>2, <2>4, DistinctConcat
    <3> QED  BY <2>3, <3>1
  <2>6. CASE a <= m
    <3>0. a \in 1..m
      BY <2>2, <2>6
    <3>1. ToSet(Y[a]) \subseteq ToSet(g[m])
      <4> HIDE DEF a
      <4> QED  BY <1>3, <3>0, FlatHas
    <3>b. ToSet(y) \subseteq ToSet(g[m])
      BY <3>1
    <3>2. Distinct(g[m] \o y, c) = Distinct(g[m], c)
      <4> HIDE DEF y
      <4> QED  BY <2>2, <3>b, DistinctAgain
    <3>3. \A j \in 1..k : rec[j] <= m
      <4>1. \A j \in 1..k : j = k \/ j \in 1..(k - 1)
        OBVIOUS
      <4> QED  BY <2>1, <2>6, <4>1
    <3>4. Reached(k, m)
      BY <2>5, <3>2, <3>3
    <3> HIDE DEF Reached
    <3> QED  BY <3>4
  <2>7. CASE m < a
    <3>1. a = m + 1
      <4> HIDE DEF a
      <4>1. ASSUME m + 1 < a PROVE FALSE
        <5>1. m + 1 \in 1..top
          BY <2>2, <4>1
        <5>2. PICK j \in 1..n : j < k /\ rec[j] = m + 1
          BY <4>1, <5>1 DEF Telling, a
        <5>3. j \in 1..(k - 1)
          BY <5>2
        <5>4. rec[j] <= m
          BY <2>1, <5>3
        <5> QED  BY <5>2, <5>4
      <4> QED  BY <2>2, <2>7, <4>1
    <3>2. m + 1 \in 1..top /\ (m + 1) - 1 = m
      BY <2>2, <3>1
    <3>3. g[m + 1] = g[m] \o Y[m + 1]
      BY <1>3, <3>2 DEF Flats
    <3>4. Distinct(h[k], c) = Distinct(g[m + 1], c)
      BY <2>5, <3>1, <3>3
    <3>5. \A j \in 1..k : rec[j] <= m + 1
      <4>1. \A j \in 1..k : j = k \/ j \in 1..(k - 1)
        OBVIOUS
      <4>2. \A j \in 1..(k - 1) : rec[j] <= m
        BY <2>1
      <4>3. \A j \in 1..k : rec[j] \in Nat
        <5>1. \A j \in 1..k : j \in 1..n
          OBVIOUS
        <5>2. \A j \in 1..n : rec[j] \in 1..top
          BY <1>0
        <5> QED  BY <5>1, <5>2
      <4>4. \A j \in 1..(k - 1) : j \in 1..k
        OBVIOUS
      <4>5. rec[k] = m + 1
        BY <3>1
      <4> HIDE DEF Reached, P, a, y
      <4>6. ASSUME NEW j \in 1..k PROVE rec[j] <= m + 1
        <5>1. CASE j = k
          BY <4>5, <5>1
        <5>2. CASE j \in 1..(k - 1)
          BY <4>2, <4>3, <5>2
        <5> QED  BY <4>1, <5>1, <5>2
      <4> QED  BY <4>6
    <3>6. Reached(k, m + 1)
      BY <3>4, <3>5
    <3>7. m + 1 \in 0..top
      BY <3>2
    <3> HIDE DEF Reached
    <3> QED  BY <3>6, <3>7
  <2> QED  BY <2>2, <2>6, <2>7
<1>7. \A k \in 1..n : k - 1 \in P => k \in P
  BY <1>6
<1>8. 0..n \subseteq P
  <2> HIDE DEF P
  <2> QED  BY <1>5, <1>7, Counting, Zenon
<1>9. PICK m \in 0..top : Reached(n, m)
  <2>1. n \in P
    BY <1>8
  <2> QED  BY <2>1
<1>10. m = top
  <2> SUFFICES ASSUME m # top PROVE FALSE
    OBVIOUS
  <2>1. top \in 1..top
    OBVIOUS
  <2>2. PICK k \in 1..n : rec[k] = top
    BY <2>1 DEF Telling
  <2> QED  BY <1>9, <2>2
<1> QED  BY <1>4, <1>9, <1>10 DEF X

(* More records say more behind what was told apart before. *)
LEMMA FlatGrows ==
  ASSUME NEW V, NEW c \in Nat, NEW m \in Nat, NEW n \in Nat, m <= n,
         NEW X \in [1..m -> Seq(V)], NEW Y \in [1..n -> Seq(V)],
         \A a \in 1..m : X[a] = Y[a]
  PROVE  IsPrefix(Distinct(FlattenSeq(X), c), Distinct(FlattenSeq(Y), c))
<1>1. PICK h \in [0..m -> Seq(V)] : Flats(h, X, m)
  BY FlatsExist
<1>2. PICK g \in [0..n -> Seq(V)] : Flats(g, Y, n)
  BY FlatsExist
<1>3. FlattenSeq(X) = h[m] /\ FlattenSeq(Y) = g[n]
  BY <1>1, <1>2, FlattenIs
<1>4. h[m] = g[m]
  <2> DEFINE P == { k \in 0..m : h[k] = g[k] }
  <2>1. 0 \in P
    BY <1>1, <1>2 DEF Flats
  <2>2. ASSUME NEW k \in 1..m, k - 1 \in P PROVE k \in P
    <3>1. h[k] = h[k - 1] \o X[k]
      BY <1>1 DEF Flats
    <3>2. k \in 1..n
      OBVIOUS
    <3>3. g[k] = g[k - 1] \o Y[k]
      BY <1>2, <3>2 DEF Flats
    <3>4. h[k - 1] = g[k - 1] /\ X[k] = Y[k]
      BY <2>2
    <3>5. h[k] = g[k]
      BY <3>1, <3>3, <3>4, Zenon
    <3> QED  BY <3>5
  <2>3. \A k \in 1..m : k - 1 \in P => k \in P
    BY <2>2
  <2>4. 0..m \subseteq P
    <3> HIDE DEF P
    <3> QED  BY <2>1, <2>3, Counting, Zenon
  <2> QED  BY <2>4
<1>5. Begins(V, g[m], g[n])
  <2> DEFINE P == { k \in 0..n : k < m \/ Begins(V, g[m], g[k]) }
  <2>0. g[m] \in Seq(V) /\ Begins(V, g[m], g[m])
    BY BeginsItself
  <2>1. 0 \in P
    BY <2>0
  <2>2. ASSUME NEW k \in 1..n, k - 1 \in P PROVE k \in P
    <3>1. CASE m <= k - 1
      <4>1. Begins(V, g[m], g[k - 1])
        BY <2>2, <3>1
      <4>2. g[k] = g[k - 1] \o Y[k]
        BY <1>2 DEF Flats
      <4>3. Y[k] \in Seq(V) /\ g[k - 1] \in Seq(V)
        OBVIOUS
      <4>4. Begins(V, g[m], g[k])
        BY <2>0, <4>1, <4>2, <4>3, BeginsMore
      <4> QED  BY <4>4
    <3>2. CASE k <= m
      BY <2>0, <3>2
    <3> HIDE DEF P
    <3> QED  BY <3>1, <3>2
  <2>3. \A k \in 1..n : k - 1 \in P => k \in P
    BY <2>2
  <2>4. 0..n \subseteq P
    <3> HIDE DEF P
    <3> QED  BY <2>1, <2>3, Counting, Zenon
  <2> QED  BY <2>4
<1>6. PICK u \in Seq(V) : g[n] = g[m] \o u
  BY <1>5 DEF Begins
<1>7. g[m] \in Seq(V)
  OBVIOUS
<1>8. IsPrefix(Distinct(g[m], c), Distinct(g[m] \o u, c))
  BY <1>7, DistinctGrows
<1> QED  BY <1>3, <1>4, <1>6, <1>8
-----------------------------------------------------------------------------
(***************************************************************************)
(* The ledger.                                                             *)
(***************************************************************************)

(* Inserting what is behind a mark that is not ahead of the ledger. *)
More(l, m, len) == l \o [i \in 1..(len - m) |-> m + i]

LEMMA TellingMore ==
  ASSUME NEW l \in Seq(Nat), NEW top \in Nat, Telling(l, Len(l), top),
         NEW m \in 0..top, NEW len \in Nat, top <= len
  PROVE  /\ More(l, m, len) \in Seq(Nat)
         /\ Telling(More(l, m, len), Len(More(l, m, len)), len)
         /\ m < len => More(l, m, len) # << >>
<1> DEFINE n   == Len(l)
           d   == len - m
           q   == [i \in 1..d |-> m + i]
           new == l \o q
<1>1. n \in Nat /\ d \in Nat /\ m \in Nat /\ q \in Seq(Nat) /\ Len(q) = d /\ m + d = len
  OBVIOUS
<1>2. new \in Seq(Nat) /\ Len(new) = n + d /\ \A i \in 1..n : new[i] = l[i]
  BY <1>1
<1>3. \A i \in 1..d : new[n + i] = m + i
  BY <1>1
<1>4. l \in [1..n -> 1..top] /\ \A a \in 1..top : \E k \in 1..n : l[k] = a
  BY DEF Telling
<1>5. \A k \in 1..n, b \in 1..top : l[k] < b => \E j \in 1..n : k < j /\ l[j] = b
  BY DEF Telling
<1>6. \A k \in 1..n, a \in 1..top : a < l[k] => \E j \in 1..n : j < k /\ l[j] = a
  BY DEF Telling
<1> HIDE DEF n, q, new
<1>7. \A k \in 1..(n + d) : k \in 1..n \/ \E i \in 1..d : k = n + i
  <2> SUFFICES ASSUME NEW k \in 1..(n + d), k \notin 1..n PROVE \E i \in 1..d : k = n + i
    OBVIOUS
  <2>1. k - n \in 1..d /\ k = n + (k - n)
    BY <1>1
  <2> QED  BY <2>1
<1>8. \A i \in 1..d : n + i \in 1..(n + d)
  BY <1>1
<1>9. \A b \in (m + 1)..len : \E i \in 1..d : b = m + i
  <2> SUFFICES ASSUME NEW b \in (m + 1)..len PROVE \E i \in 1..d : b = m + i
    OBVIOUS
  <2>1. b - m \in 1..d /\ b = m + (b - m)
    BY <1>1
  <2> QED  BY <2>1
<1> HIDE DEF d
<1>10. new \in [1..(n + d) -> 1..len]
  <2>1. ASSUME NEW k \in 1..(n + d) PROVE new[k] \in 1..len
    <3>1. CASE k \in 1..n
      BY <1>1, <1>2, <1>4, <3>1, SMTT(30)
    <3>2. CASE \E i \in 1..d : k = n + i
      <4>1. PICK i \in 1..d : k = n + i
        BY <3>2
      <4>2. new[k] = m + i
        BY <1>3, <4>1
      <4> QED  BY <1>1, <4>2
    <3> QED  BY <1>7, <3>1, <3>2
  <2> QED  BY <1>1, <1>2, <2>1
<1>11. ASSUME NEW a \in 1..len PROVE \E k \in 1..(n + d) : new[k] = a
  <2>1. CASE a \in 1..top
    <3>1. PICK k \in 1..n : l[k] = a
      BY <1>4, <2>1
    <3> QED  BY <1>1, <1>2, <3>1
  <2>2. CASE a \in (m + 1)..len
    <3>1. PICK i \in 1..d : a = m + i
      BY <1>9, <2>2
    <3> QED  BY <1>3, <1>8, <3>1
  <2> QED  BY <2>1, <2>2
<1>12. ASSUME NEW k \in 1..(n + d), NEW b \in 1..len, new[k] < b
       PROVE  \E j \in 1..(n + d) : k < j /\ new[j] = b
  <2>1. CASE k \in 1..n /\ b \in 1..m
    <3>1. l[k] < b /\ b \in 1..top
      BY <1>2, <1>12, <2>1
    <3>2. PICK j \in 1..n : k < j /\ l[j] = b
      BY <1>5, <2>1, <3>1
    <3> QED  BY <1>1, <1>2, <3>2
  <2>2. CASE k \in 1..n /\ b \in (m + 1)..len
    <3>1. PICK i \in 1..d : b = m + i
      BY <1>9, <2>2
    <3>2. k < n + i
      BY <1>1, <2>2
    <3> QED  BY <1>3, <1>8, <3>1, <3>2
  <2>3. CASE \E i \in 1..d : k = n + i
    <3>1. PICK i \in 1..d : k = n + i
      BY <2>3
    <3>2. new[k] = m + i
      BY <1>3, <3>1
    <3>3. b \in (m + 1)..len
      BY <1>1, <1>12, <3>2
    <3>4. PICK j \in 1..d : b = m + j
      BY <1>9, <3>3
    <3>5. k < n + j
      BY <1>1, <1>12, <3>1, <3>2, <3>4
    <3> QED  BY <1>3, <1>8, <3>4, <3>5
  <2>4. b \in 1..m \/ b \in (m + 1)..len
    BY <1>1
  <2> QED  BY <1>7, <2>1, <2>2, <2>3, <2>4
<1>13. ASSUME NEW k \in 1..(n + d), NEW a \in 1..len, a < new[k]
       PROVE  \E j \in 1..(n + d) : j < k /\ new[j] = a
  <2>1. CASE k \in 1..n
    <3>1. l[k] \in 1..top /\ a < l[k]
      BY <1>2, <1>4, <1>13, <2>1
    <3>2. a \in 1..top
      BY <3>1
    <3>3. PICK j \in 1..n : j < k /\ l[j] = a
      BY <1>6, <2>1, <3>1, <3>2
    <3> QED  BY <1>1, <1>2, <3>3
  <2>2. CASE \E i \in 1..d : k = n + i
    <3>1. PICK i \in 1..d : k = n + i
      BY <2>2
    <3>2. new[k] = m + i
      BY <1>3, <3>1
    <3>3. CASE a \in 1..m
      <4>1. PICK j \in 1..n : l[j] = a
        BY <1>4, <3>3
      <4>2. j < k /\ j \in 1..(n + d) /\ new[j] = a
        BY <1>1, <1>2, <3>1, <4>1
      <4> QED  BY <4>2
    <3>4. CASE a \in (m + 1)..len
      <4>1. PICK j \in 1..d : a = m + j
        BY <1>9, <3>4
      <4>2. n + j < k
        BY <1>1, <1>13, <3>1, <3>2, <4>1
      <4> QED  BY <1>3, <1>8, <4>1, <4>2
    <3>5. a \in 1..m \/ a \in (m + 1)..len
      BY <1>1
    <3> QED  BY <3>3, <3>4, <3>5
  <2> QED  BY <1>7, <2>1, <2>2
<1>14. Telling(new, Len(new), len)
  BY <1>1, <1>2, <1>10, <1>11, <1>12, <1>13 DEF Telling
<1>15. m < len => new # << >>
  <2>1. m < len => Len(new) # 0
    BY <1>1, <1>2
  <2> QED  BY <2>1
<1>16. More(l, m, len) = new
  BY DEF More, new, q, d
<1> QED  BY <1>2, <1>14, <1>15, <1>16

(* The places 1 to n, ordered by t and then by number, each have their own rank
   from 0 to n - 1. *)
Earlier(t, i, j) == t[i] < t[j] \/ (t[i] = t[j] /\ i < j)
RankOf(t, n, i)  == Cardinality({ j \in 1..n : Earlier(t, j, i) })

LEMMA Ranks ==
  ASSUME NEW n \in Nat, NEW t \in [1..n -> Nat]
  PROVE  /\ \A i, j \in 1..n : Earlier(t, i, j) <=> RankOf(t, n, i) < RankOf(t, n, j)
         /\ \A i, j \in 1..n : RankOf(t, n, i) = RankOf(t, n, j) => i = j
         /\ \A i \in 1..n : RankOf(t, n, i) \in 0..(n - 1)
         /\ \A k \in 1..n : \E i \in 1..n : RankOf(t, n, i) = k - 1
<1> DEFINE B(i) == { j \in 1..n : Earlier(t, j, i) }
           R    == [i \in 1..n |-> RankOf(t, n, i)]
<1>1. IsFiniteSet(1..n) /\ Cardinality(1..n) = n
  BY FS_Interval
<1>2. ASSUME NEW i \in 1..n
      PROVE  IsFiniteSet(B(i)) /\ Cardinality(B(i)) \in 0..(n - 1)
  <2>1. B(i) \in SUBSET (1..n) /\ i \notin B(i)
    BY DEF Earlier
  <2> HIDE DEF B
  <2>2. IsFiniteSet(B(i)) /\ Cardinality(B(i)) <= n /\ Cardinality(B(i)) # n
    BY <1>1, <2>1, FS_Subset
  <2>3. Cardinality(B(i)) \in Nat
    BY <2>2, FS_CardinalityType
  <2> QED  BY <2>2, <2>3
<1>3. ASSUME NEW i \in 1..n, NEW j \in 1..n, Earlier(t, i, j)
      PROVE  RankOf(t, n, i) < RankOf(t, n, j)
  <2>1. B(i) \subseteq B(j)
    <3> SUFFICES ASSUME NEW x \in 1..n, Earlier(t, x, i) PROVE Earlier(t, x, j)
      OBVIOUS
    <3> QED  BY <1>3 DEF Earlier
  <2>2. i \in B(j) /\ i \notin B(i)
    BY <1>3 DEF Earlier
  <2>3. IsFiniteSet(B(i)) /\ Cardinality(B(i)) \in Nat
        /\ IsFiniteSet(B(j)) /\ Cardinality(B(j)) \in Nat
    <3>1. \A k \in 1..n : IsFiniteSet(B(k)) /\ Cardinality(B(k)) \in 0..(n - 1)
      BY <1>2
    <3> HIDE DEF B
    <3> QED  BY <3>1
  <2>4. RankOf(t, n, i) = Cardinality(B(i)) /\ RankOf(t, n, j) = Cardinality(B(j))
    BY DEF RankOf
  <2> HIDE DEF B
  <2>5. Cardinality(B(i)) <= Cardinality(B(j)) /\ Cardinality(B(j)) # Cardinality(B(i))
    BY <2>1, <2>2, <2>3, FS_Subset
  <2> QED  BY <2>3, <2>4, <2>5
<1>4. \A i \in 1..n : RankOf(t, n, i) \in 0..(n - 1)
  BY <1>2 DEF RankOf
<1>5. \A i, j \in 1..n : i = j \/ Earlier(t, i, j) \/ Earlier(t, j, i)
  BY DEF Earlier
<1>6. \A i, j \in 1..n : Earlier(t, i, j) => RankOf(t, n, i) < RankOf(t, n, j)
  BY <1>3
<1>7. \A i, j \in 1..n : RankOf(t, n, i) = RankOf(t, n, j) => i = j
  BY <1>4, <1>5, <1>6, SMTT(30)
<1>8. \A i, j \in 1..n : RankOf(t, n, i) < RankOf(t, n, j) => Earlier(t, i, j)
  <2>1. \A i \in 1..n : RankOf(t, n, i) \in Int
    BY <1>4
  <2> QED  BY <2>1, <1>5, <1>6
<1>9. R \in Injection(1..n, 0..(n - 1))
  <2>1. R \in [1..n -> 0..(n - 1)]
    BY <1>4
  <2>2. \A i, j \in 1..n : R[i] = R[j] => i = j
    BY <1>7
  <2> QED  BY <2>1, <2>2 DEF Injection, IsInjective
<1>10. R \in Surjection(1..n, 0..(n - 1))
  <2>1. IsFiniteSet(0..(n - 1)) /\ Cardinality(0..(n - 1)) = n
    <3> HIDE DEF R
    <3> DEFINE m == n - 1
    <3>1. m \in Int /\ 0 \in Int
      OBVIOUS
    <3>2. (0 > m <=> n = 0) /\ m - 0 + 1 = n
      OBVIOUS
    <3> HIDE DEF m
    <3>3. IsFiniteSet(0..m) /\ Cardinality(0..m) = IF 0 > m THEN 0 ELSE m - 0 + 1
      BY <3>1, FS_Interval, Zenon
    <3>4. IsFiniteSet(0..m) /\ Cardinality(0..m) = n
      BY <3>2, <3>3
    <3> QED  BY <3>4 DEF m
  <2> HIDE DEF R
  <2> QED  BY <1>1, <1>9, <2>1, FS_Injection
<1>11. ASSUME NEW k \in 1..n PROVE \E i \in 1..n : RankOf(t, n, i) = k - 1
  <2>1. k - 1 \in 0..(n - 1)
    OBVIOUS
  <2>2. \E i \in 1..n : R[i] = k - 1
    <3> HIDE DEF R
    <3> QED  BY <1>10, <2>1 DEF Surjection
  <2> QED  BY <2>2
<1> QED  BY <1>4, <1>6, <1>7, <1>8, <1>11

(* A query returns the rows so that they are Telling, as the ledger is. *)
LEMMA QueryTells ==
  ASSUME SectionsAssumption, NEW s \in Session, NEW top \in 0..MaxRecords,
         ledger[s] \in Seq(Nat), Telling(ledger[s], Len(ledger[s]), top)
  PROVE  \E rec : /\ Telling(rec, Len(ledger[s]), top)
                  /\ Query(s) = [k \in 1..Len(ledger[s]) |-> said[s][rec[k]]]
<1> DEFINE l == ledger[s]
           n == Len(ledger[s])
           t == [i \in 1..n |-> Stamp[s][l[i]]]
           Before(i, j) == LET a == Stamp[s][l[i]]  b == Stamp[s][l[j]]
                           IN  a < b \/ (a = b /\ i < j)
           Rank(i) == Cardinality({ j \in DOMAIN l : Before(j, i) })
           Nth(k)  == CHOOSE i \in DOMAIN l : Rank(i) = k - 1
           rec     == [k \in 1..n |-> l[Nth(k)]]
<1>1. n \in Nat /\ DOMAIN l = 1..n
  OBVIOUS
<1>2. Query(s) = [k \in DOMAIN l |-> said[s][l[Nth(k)]]]
  BY DEF Query
<1>3. l \in [1..n -> 1..top] /\ \A a \in 1..top : \E k \in 1..n : l[k] = a
  BY DEF Telling
<1>4. \A k \in 1..n, b \in 1..top : l[k] < b => \E j \in 1..n : k < j /\ l[j] = b
  BY DEF Telling
<1>5. \A k \in 1..n, a \in 1..top : a < l[k] => \E j \in 1..n : j < k /\ l[j] = a
  BY DEF Telling
<1>6. /\ \A a \in 1..top : Stamp[s][a] \in Nat
      /\ \A a, b \in 1..top : a < b => Stamp[s][a] <= Stamp[s][b]
  <2>1. Stamp[s] \in [1..MaxRecords -> Nat] /\ MaxRecords \in Nat
    BY DEF SectionsAssumption
  <2>2. \A a \in 1..top : a \in 1..MaxRecords
    BY <2>1
  <2>3. \A a, b \in 1..MaxRecords : a < b => Stamp[s][a] <= Stamp[s][b]
    BY DEF SectionsAssumption
  <2> QED  BY <2>1, <2>2, <2>3
<1> HIDE DEF l, n
<1>7. t \in [1..n -> Nat] /\ \A i \in 1..n : t[i] = Stamp[s][l[i]]
  BY <1>3, <1>6
<1>8. ASSUME NEW i \in 1..n PROVE Rank(i) = RankOf(t, n, i)
  <2>1. \A j \in 1..n : Before(j, i) <=> Earlier(t, j, i)
    BY <1>7 DEF Earlier
  <2> HIDE DEF Before, t
  <2>2. { j \in DOMAIN l : Before(j, i) } = { j \in 1..n : Earlier(t, j, i) }
    BY <1>1, <2>1
  <2> QED  BY <2>2 DEF RankOf
<1> HIDE DEF Rank, t
<1>9. /\ \A i, j \in 1..n : Earlier(t, i, j) <=> RankOf(t, n, i) < RankOf(t, n, j)
      /\ \A i, j \in 1..n : RankOf(t, n, i) = RankOf(t, n, j) => i = j
      /\ \A i \in 1..n : RankOf(t, n, i) \in 0..(n - 1)
      /\ \A k \in 1..n : \E i \in 1..n : RankOf(t, n, i) = k - 1
  BY <1>1, <1>7, Ranks
<1>10. \A k \in 1..n : Nth(k) \in 1..n /\ RankOf(t, n, Nth(k)) = k - 1
  <2> SUFFICES ASSUME NEW k \in 1..n
               PROVE  Nth(k) \in 1..n /\ RankOf(t, n, Nth(k)) = k - 1
    OBVIOUS
  <2>1. \E i \in DOMAIN l : Rank(i) = k - 1
    BY <1>1, <1>8, <1>9
  <2>2. Nth(k) \in DOMAIN l /\ Rank(Nth(k)) = k - 1
    BY <2>1, Zenon
  <2> HIDE DEF Nth
  <2> QED  BY <1>1, <1>8, <2>2
<1> HIDE DEF Nth
<1>11. \A i \in 1..n : RankOf(t, n, i) + 1 \in 1..n /\ Nth(RankOf(t, n, i) + 1) = i
  <2> SUFFICES ASSUME NEW i \in 1..n
               PROVE  RankOf(t, n, i) + 1 \in 1..n /\ Nth(RankOf(t, n, i) + 1) = i
    OBVIOUS
  <2> DEFINE k == RankOf(t, n, i) + 1
  <2>1. k \in 1..n /\ k - 1 = RankOf(t, n, i)
    BY <1>1, <1>9
  <2> HIDE DEF k
  <2>2. Nth(k) \in 1..n /\ RankOf(t, n, Nth(k)) = k - 1
    BY <1>10, <2>1
  <2>3. Nth(k) = i
    BY <1>9, <2>1, <2>2
  <2> QED  BY <2>1, <2>3 DEF k
<1>12. rec \in [1..n -> 1..top]
  BY <1>3, <1>10
<1>13. \A k \in 1..n : rec[k] = l[Nth(k)]
  OBVIOUS
<1> HIDE DEF rec
<1>14. ASSUME NEW a \in 1..top PROVE \E k \in 1..n : rec[k] = a
  <2>1. PICK i \in 1..n : l[i] = a
    BY <1>3
  <2> QED  BY <1>11, <1>13, <2>1
<1>15. ASSUME NEW k \in 1..n, NEW b \in 1..top, rec[k] < b
       PROVE  \E j \in 1..n : k < j /\ rec[j] = b
  <2> DEFINE i == Nth(k)
  <2>1. i \in 1..n /\ l[i] = rec[k] /\ RankOf(t, n, i) = k - 1
    BY <1>10, <1>13
  <2> HIDE DEF i
  <2>2. PICK j \in 1..n : i < j /\ l[j] = b
    BY <1>4, <1>15, <2>1
  <2>3. t[i] <= t[j] /\ t[i] \in Nat /\ t[j] \in Nat
    <3>1. t[i] = Stamp[s][rec[k]] /\ t[j] = Stamp[s][b] /\ j \in 1..n
      BY <1>7, <2>1, <2>2
    <3>2. rec[k] \in 1..top
      BY <1>12
    <3>3. Stamp[s][rec[k]] <= Stamp[s][b]
      BY <1>6, <1>15, <3>2
    <3> QED  BY <1>6, <3>1, <3>2, <3>3
  <2>4. Earlier(t, i, j)
    BY <2>2, <2>3 DEF Earlier
  <2>5. RankOf(t, n, i) < RankOf(t, n, j)
    BY <1>9, <2>1, <2>4
  <2> DEFINE m == RankOf(t, n, j) + 1
  <2>6. m \in 1..n /\ Nth(m) = j
    BY <1>11
  <2>7. k < m
    BY <1>1, <1>9, <2>1, <2>5
  <2> HIDE DEF m
  <2>8. rec[m] = b
    BY <1>13, <2>2, <2>6
  <2> QED  BY <2>6, <2>7, <2>8
<1>16. ASSUME NEW k \in 1..n, NEW a \in 1..top, a < rec[k]
       PROVE  \E j \in 1..n : j < k /\ rec[j] = a
  <2> DEFINE i == Nth(k)
  <2>1. i \in 1..n /\ l[i] = rec[k] /\ RankOf(t, n, i) = k - 1
    BY <1>10, <1>13
  <2> HIDE DEF i
  <2>2. PICK j \in 1..n : j < i /\ l[j] = a
    BY <1>5, <1>16, <2>1
  <2>3. t[j] <= t[i] /\ t[i] \in Nat /\ t[j] \in Nat
    <3>1. t[i] = Stamp[s][rec[k]] /\ t[j] = Stamp[s][a] /\ j \in 1..n
      BY <1>7, <2>1, <2>2
    <3>2. rec[k] \in 1..top
      BY <1>12
    <3>3. Stamp[s][a] <= Stamp[s][rec[k]]
      BY <1>6, <1>16, <3>2
    <3> QED  BY <1>6, <3>1, <3>2, <3>3
  <2>4. Earlier(t, j, i)
    BY <2>2, <2>3 DEF Earlier
  <2>5. RankOf(t, n, j) < RankOf(t, n, i)
    BY <1>9, <2>1, <2>4
  <2> DEFINE m == RankOf(t, n, j) + 1
  <2>6. m \in 1..n /\ Nth(m) = j
    BY <1>11
  <2>7. m < k
    BY <1>1, <1>9, <2>1, <2>5
  <2> HIDE DEF m
  <2>8. rec[m] = a
    BY <1>13, <2>2, <2>6
  <2> QED  BY <2>6, <2>7, <2>8
<1>17. top \in Nat
  BY DEF SectionsAssumption
<1>18. Telling(rec, n, top)
  BY <1>1, <1>12, <1>14, <1>15, <1>16, <1>17 DEF Telling
<1>19. Query(s) = [k \in 1..n |-> said[s][rec[k]]]
  BY <1>1, <1>2, <1>13
<1> QED  BY <1>18, <1>19 DEF n

(* The ledger of s holds what a cursor, a handoff or a query relies on. *)
Holds(s, top) ==
  /\ mark[s] <= top /\ shown[s] <= top
  /\ Telling(ledger[s], Len(ledger[s]), top)

Ledgers ==
  /\ said \in [Session -> Seq(Record)]
  /\ mark \in [Session -> Nat] /\ shown \in [Session -> Nat]
  /\ ledger \in [Session -> Seq(Nat)]
  /\ \A s \in Session :
       Len(said[s]) <= MaxRecords /\ \E top \in 0..Len(said[s]) : Holds(s, top)
  /\ pc \in {"idle", "save", "publish"} /\ cur \in Session \cup {None}
  /\ pc # "idle" => cur \in Session /\ ledger[cur] # << >>

(* The records of the rows are the first so many of the transcript. *)
LEMMA TellingTop ==
  ASSUME NEW l \in Seq(Nat), NEW top \in Nat, Telling(l, Len(l), top)
  PROVE  /\ ToSet(l) = 1..top
         /\ l # << >> => top \in 1..top /\ Greatest(ToSet(l)) = top /\ l[Len(l)] \in 1..top
<1>1. /\ DOMAIN l = 1..Len(l) /\ Len(l) \in Nat /\ \A k \in 1..Len(l) : l[k] \in 1..top
      /\ \A a \in 1..top : \E k \in 1..Len(l) : l[k] = a
  BY DEF Telling
<1>2. ToSet(l) = 1..top
  <2>1. \A a \in ToSet(l) : a \in 1..top
    BY <1>1 DEF ToSet
  <2>2. \A a \in 1..top : a \in ToSet(l)
    BY <1>1 DEF ToSet
  <2> QED  BY <2>1, <2>2
<1>3. ASSUME l # << >>
      PROVE  top \in 1..top /\ Greatest(1..top) = top /\ l[Len(l)] \in 1..top
  <2>1. Len(l) \in 1..Len(l)
    BY <1>3
  <2>2. l[Len(l)] \in 1..top
    BY <1>1, <2>1
  <2>3. top \in 1..top /\ \A a \in 1..top : a <= top
    BY <2>2
  <2>4. \A a \in 1..top : (\A b \in 1..top : b <= a) => a = top
    BY <2>3
  <2>5. Greatest(1..top) = top
    BY <2>3, <2>4 DEF Greatest
  <2> QED  BY <2>2, <2>3, <2>5
<1> QED  BY <1>2, <1>3

LEMMA LedgersInit == ASSUME SectionsAssumption, Init PROVE Ledgers
<1>1. /\ said = [s \in Session |-> << >>] /\ ledger = [s \in Session |-> << >>]
      /\ mark = [s \in Session |-> 0] /\ shown = [s \in Session |-> 0]
      /\ pc = "idle" /\ cur = None
  BY DEF Init
<1>2. said \in [Session -> Seq(Record)] /\ ledger \in [Session -> Seq(Nat)]
  <2>1. << >> \in Seq(Record) /\ << >> \in Seq(Nat)
    OBVIOUS
  <2> QED  BY <1>1, <2>1
<1>3. ASSUME NEW s \in Session PROVE Len(said[s]) <= MaxRecords /\ Holds(s, 0) /\ 0 \in 0..Len(said[s])
  <2>1. said[s] = << >> /\ ledger[s] = << >> /\ mark[s] = 0 /\ shown[s] = 0
    BY <1>1
  <2>2. Len(said[s]) = 0 /\ Len(ledger[s]) = 0
    BY <2>1
  <2>3. Telling(ledger[s], 0, 0)
    BY <2>1 DEF Telling
  <2>4. MaxRecords \in Nat
    BY DEF SectionsAssumption
  <2> QED  BY <2>1, <2>2, <2>3, <2>4 DEF Holds
<1>4. mark \in [Session -> Nat] /\ shown \in [Session -> Nat]
  BY <1>1
<1> QED  BY <1>1, <1>2, <1>3, <1>4 DEF Ledgers

LEMMA LedgersStep == ASSUME SectionsAssumption, Ledgers, [Next]_vars PROVE Ledgers'
<1>0. /\ said \in [Session -> Seq(Record)]
      /\ mark \in [Session -> Nat] /\ shown \in [Session -> Nat]
      /\ ledger \in [Session -> Seq(Nat)]
      /\ \A s \in Session : Len(said[s]) <= MaxRecords /\ \E top \in 0..Len(said[s]) : Holds(s, top)
      /\ pc \in {"idle", "save", "publish"} /\ cur \in Session \cup {None}
      /\ pc # "idle" => cur \in Session /\ ledger[cur] # << >>
  BY DEF Ledgers
<1>1. ASSUME NEW s \in Session, NEW r \in Record, Say(s, r) PROVE Ledgers'
  <2>1. /\ Len(said[s]) < Limit[s] /\ said' = [said EXCEPT ![s] = Append(@, r)]
        /\ UNCHANGED <<mark, ledger, sheet, shown, pc, cur>>
    BY <1>1 DEF Say
  <2>2. said' \in [Session -> Seq(Record)]
    BY <1>0, <2>1
  <2>3. ASSUME NEW x \in Session
        PROVE  Len(said'[x]) <= MaxRecords /\ \E top \in 0..Len(said'[x]) : Holds(x, top)'
    <3>1. PICK top \in 0..Len(said[x]) : Holds(x, top)
      BY <1>0
    <3>2. Holds(x, top)'
      BY <2>1, <3>1 DEF Holds
    <3>3. Len(said'[x]) \in Nat /\ Len(said[x]) \in Nat /\ Len(said[x]) <= Len(said'[x])
      <4>1. said[x] \in Seq(Record)
        BY <1>0
      <4>2. said'[x] = said[x] \/ said'[x] = Append(said[x], r)
        BY <1>0, <2>1
      <4>3. Len(Append(said[x], r)) = Len(said[x]) + 1 /\ Len(said[x]) \in Nat
        BY <4>1
      <4> QED  BY <4>2, <4>3
    <3>4. Limit[s] \in 0..MaxRecords /\ MaxRecords \in Nat
      BY DEF SectionsAssumption
    <3>5. Len(said'[x]) <= MaxRecords
      <4>1. CASE x = s
        <5>1. Len(said'[s]) = Len(said[s]) + 1 /\ Len(said[s]) \in Nat
          BY <1>0, <2>1
        <5> QED  BY <2>1, <3>4, <4>1, <5>1
      <4>2. CASE x # s
        BY <1>0, <2>1, <4>2
      <4> QED  BY <4>1, <4>2
    <3> QED  BY <3>2, <3>3, <3>5
  <2> QED  BY <1>0, <2>1, <2>2, <2>3 DEF Ledgers
<1>2. ASSUME NEW s \in Session, Insert(s) PROVE Ledgers'
  <2> DEFINE new == ledger[s] \o [i \in 1..(Len(said[s]) - mark[s]) |-> mark[s] + i]
  <2>1. /\ mark[s] < Len(said[s]) /\ ledger' = [ledger EXCEPT ![s] = new]
        /\ pc' = "save" /\ cur' = s /\ UNCHANGED <<said, mark, sheet, shown>>
    BY <1>2 DEF Insert
  <2>2. PICK top \in 0..Len(said[s]) : Holds(s, top)
    BY <1>0
  <2>3. new \in Seq(Nat) /\ Telling(new, Len(new), Len(said[s])) /\ new # << >>
    <3>1. /\ ledger[s] \in Seq(Nat) /\ top \in Nat /\ Telling(ledger[s], Len(ledger[s]), top)
          /\ mark[s] \in 0..top /\ Len(said[s]) \in Nat /\ top <= Len(said[s])
      BY <1>0, <2>2 DEF Holds
    <3>2. new = More(ledger[s], mark[s], Len(said[s]))
      BY DEF More
    <3> HIDE DEF new
    <3>3. /\ More(ledger[s], mark[s], Len(said[s])) \in Seq(Nat)
          /\ Telling(More(ledger[s], mark[s], Len(said[s])),
                     Len(More(ledger[s], mark[s], Len(said[s]))), Len(said[s]))
          /\ mark[s] < Len(said[s]) => More(ledger[s], mark[s], Len(said[s])) # << >>
      BY <3>1, TellingMore
    <3>4. /\ new \in Seq(Nat) /\ Telling(new, Len(new), Len(said[s]))
          /\ mark[s] < Len(said[s]) => new # << >>
      BY <3>2, <3>3, Zenon
    <3> QED  BY <2>1, <3>4
  <2> HIDE DEF new
  <2>4. ledger' \in [Session -> Seq(Nat)] /\ ledger'[s] = new
        /\ \A x \in Session : x # s => ledger'[x] = ledger[x]
    BY <1>0, <2>1, <2>3
  <2>5. ASSUME NEW x \in Session PROVE \E m \in 0..Len(said[x]) : Holds(x, m)'
    <3>1. CASE x = s
      <4>0. Len(said[s]) \in Nat /\ mark[s] \in Nat /\ shown[s] \in Nat
        BY <1>0
      <4>1. /\ Len(said[s]) \in Nat /\ mark[s] <= Len(said[s]) /\ shown[s] <= Len(said[s])
        BY <2>2, <4>0 DEF Holds
      <4>2. Holds(s, Len(said[s]))'
        BY <2>1, <2>3, <2>4, <4>1 DEF Holds
      <4> QED  BY <2>1, <3>1, <4>1, <4>2
    <3>2. CASE x # s
      <4>1. PICK m \in 0..Len(said[x]) : Holds(x, m)
        BY <1>0
      <4> QED  BY <2>1, <2>4, <3>2, <4>1 DEF Holds
    <3> QED  BY <3>1, <3>2
  <2> QED  BY <1>0, <2>1, <2>3, <2>4, <2>5 DEF Ledgers
<1>3. ASSUME NEW s \in Session, Rescan(s) PROVE Ledgers'
  <2>1. mark' = [mark EXCEPT ![s] = 0] /\ UNCHANGED <<said, ledger, sheet, shown, pc, cur>>
    BY <1>3 DEF Rescan
  <2>2. mark' \in [Session -> Nat] /\ \A x \in Session : mark'[x] <= mark[x] /\ mark'[x] \in Nat
    BY <1>0, <2>1
  <2>3. ASSUME NEW x \in Session PROVE \E m \in 0..Len(said[x]) : Holds(x, m)'
    <3>1. PICK m \in 0..Len(said[x]) : Holds(x, m)
      BY <1>0
    <3>2. mark'[x] <= m
      BY <1>0, <2>2, <3>1, SMTT(30) DEF Holds
    <3> QED  BY <2>1, <3>1, <3>2 DEF Holds
  <2> QED  BY <1>0, <2>1, <2>2, <2>3 DEF Ledgers
<1>4. CASE SaveCursor
  <2> DEFINE last == ledger[cur][Len(ledger[cur])]
  <2>1. /\ pc = "save" /\ mark' = [mark EXCEPT ![cur] = last]
        /\ pc' = "publish" /\ UNCHANGED <<said, ledger, sheet, shown, cur>>
    BY <1>4 DEF SaveCursor
  <2>2. cur \in Session /\ ledger[cur] # << >> /\ ledger[cur] \in Seq(Nat)
    BY <1>0, <2>1
  <2>3. PICK top \in 0..Len(said[cur]) : Holds(cur, top)
    BY <1>0, <2>2
  <2>4. last \in 1..top
    BY <2>2, <2>3, TellingTop DEF Holds
  <2> HIDE DEF last
  <2>5. mark' \in [Session -> Nat] /\ mark'[cur] = last
        /\ \A x \in Session : x # cur => mark'[x] = mark[x]
    BY <1>0, <2>1, <2>2, <2>4
  <2>6. ASSUME NEW x \in Session PROVE \E m \in 0..Len(said[x]) : Holds(x, m)'
    <3>1. CASE x = cur
      <4>1. Holds(cur, top)'
        BY <2>1, <2>3, <2>4, <2>5 DEF Holds
      <4> QED  BY <2>1, <2>3, <3>1, <4>1
    <3>2. CASE x # cur
      <4>1. PICK m \in 0..Len(said[x]) : Holds(x, m)
        BY <1>0
      <4> QED  BY <2>1, <2>5, <3>2, <4>1 DEF Holds
    <3> QED  BY <3>1, <3>2
  <2> QED  BY <1>0, <2>1, <2>2, <2>5, <2>6 DEF Ledgers
<1>5. CASE Publish
  <2> DEFINE top1 == Greatest(ToSet(ledger[cur]))
  <2>1. /\ pc = "publish" /\ shown' = [shown EXCEPT ![cur] = top1]
        /\ pc' = "idle" /\ cur' = None /\ UNCHANGED <<said, mark, ledger>>
    BY <1>5 DEF Publish
  <2>2. cur \in Session /\ ledger[cur] # << >> /\ ledger[cur] \in Seq(Nat)
    BY <1>0, <2>1
  <2>3. PICK top \in 0..Len(said[cur]) : Holds(cur, top)
    BY <1>0, <2>2
  <2>4. top1 = top
    BY <2>2, <2>3, TellingTop DEF Holds
  <2> HIDE DEF top1
  <2>5. shown' \in [Session -> Nat] /\ shown'[cur] = top
        /\ \A x \in Session : x # cur => shown'[x] = shown[x]
    BY <1>0, <2>1, <2>2, <2>3, <2>4
  <2>6. ASSUME NEW x \in Session PROVE \E m \in 0..Len(said[x]) : Holds(x, m)'
    <3>1. CASE x = cur
      <4>1. Holds(x, top)'
        BY <2>1, <2>3, <2>5, <3>1 DEF Holds
      <4> QED  BY <2>1, <2>3, <3>1, <4>1
    <3>2. CASE x # cur
      <4>1. PICK m \in 0..Len(said[x]) : Holds(x, m)
        BY <1>0
      <4> QED  BY <2>1, <2>5, <3>2, <4>1 DEF Holds
    <3> QED  BY <3>1, <3>2
  <2> QED  BY <1>0, <2>1, <2>5, <2>6 DEF Ledgers
<1>6. CASE UNCHANGED <<said, mark, ledger, shown>> /\ ((pc' = "idle" /\ cur' = None) \/ UNCHANGED <<pc, cur>>)
  BY <1>0, <1>6 DEF Ledgers, Holds
<1>7. RefreshActivity \/ CutShort \/ UNCHANGED vars =>
        UNCHANGED <<said, mark, ledger, shown>> /\ ((pc' = "idle" /\ cur' = None) \/ UNCHANGED <<pc, cur>>)
  BY DEF RefreshActivity, CutShort, vars
<1> QED  BY <1>1, <1>2, <1>3, <1>4, <1>5, <1>6, <1>7 DEF Next
-----------------------------------------------------------------------------
(***************************************************************************)
(* Strip, line by line.                                                    *)
(***************************************************************************)

StripState == [kept : Seq(Line), held : Seq(Line), inside : BOOLEAN]
StripStart == [kept |-> << >>, held |-> << >>, inside |-> FALSE]

(* What one line does to the three parts. *)
LEMMA FenceStepIs ==
  ASSUME NEW st \in StripState, NEW l \in Line
  PROVE  /\ FenceStep(st, l) \in StripState
         /\ l = Fence => /\ FenceStep(st, l).kept = st.kept /\ FenceStep(st, l).held = << >>
                         /\ FenceStep(st, l).inside = ~st.inside
         /\ l # Fence => FenceStep(st, l).inside = st.inside
         /\ l # Fence /\ st.inside => /\ FenceStep(st, l).kept = st.kept
                                      /\ FenceStep(st, l).held = Append(st.held, l)
         /\ l # Fence /\ ~st.inside => /\ FenceStep(st, l).kept = Append(st.kept, l)
                                       /\ FenceStep(st, l).held = st.held
<1>1. /\ st.kept \in Seq(Line) /\ st.held \in Seq(Line) /\ st.inside \in BOOLEAN
      /\ Append(st.kept, l) \in Seq(Line) /\ Append(st.held, l) \in Seq(Line)
      /\ << >> \in Seq(Line)
  BY DEF StripState
<1>2. CASE l = Fence
  BY <1>1, <1>2 DEF FenceStep, StripState
<1>3. CASE l # Fence /\ st.inside
  BY <1>1, <1>3 DEF FenceStep, StripState
<1>4. CASE l # Fence /\ ~st.inside
  BY <1>1, <1>4 DEF FenceStep, StripState
<1> QED  BY <1>2, <1>3, <1>4

(* g strips the lines of s at the positions D, the last one last. *)
Strips(g, D, s) ==
  g = [d \in SUBSET D |-> IF d = {} THEN StripStart ELSE FenceStep(g[d \ {Max(d)}], s[Max(d)])]

LEMMA StripsExist ==
  ASSUME NEW s \in Seq(Line) PROVE \E g \in [SUBSET (1..Len(s)) -> StripState] : Strips(g, 1..Len(s), s)
<1> DEFINE m == Len(s)
           A == StripState
           b == StripStart
           T == [p \in (1..m) \X A |-> FenceStep(p[2], s[p[1]])]
<1>1. m \in Nat /\ b \in A /\ \A k \in 1..m, t \in A : FenceStep(t, s[k]) \in A
  <2>1. b \in A
    BY DEF StripState, StripStart
  <2>2. \A k \in 1..m, t \in A : FenceStep(t, s[k]) \in A
    BY FenceStepIs
  <2> QED  BY <2>1, <2>2
<1>2. T \in [(1..m) \X A -> A]
  <2> HIDE DEF A, m
  <2> QED  BY <1>1
<1>3. \A k \in 1..m, t \in A : T[<<k, t>>] = FenceStep(t, s[k])
  <2> HIDE DEF A, m
  <2> QED  OBVIOUS
<1> HIDE DEF m, A, b, T
<1>4. PICK g \in [SUBSET (1..m) -> A] : Folding(g, m, b, T)
  BY <1>1, <1>2, FoldExists
<1>5. ASSUME NEW d \in SUBSET (1..m), d # {}
      PROVE  T[<<Max(d), g[d \ {Max(d)}]>>] = FenceStep(g[d \ {Max(d)}], s[Max(d)])
  <2>1. Max(d) \in 1..m
    BY <1>1, <1>5, MaxIn
  <2>2. g[d \ {Max(d)}] \in A
    OBVIOUS
  <2> QED  BY <1>3, <2>1, <2>2
<1>6. g = [d \in SUBSET (1..m) |-> g[d]]
  OBVIOUS
<1>7. Strips(g, 1..m, s)
  BY <1>4, <1>5, <1>6 DEF Strips, Folding, b
<1> QED  BY <1>4, <1>7 DEF m, A

(* h[k] is what there is of the first k lines. *)
StripSteps(h, s) ==
  /\ h \in [0..Len(s) -> StripState] /\ h[0] = StripStart
  /\ \A k \in 1..Len(s) : h[k] = FenceStep(h[k - 1], s[k])

LEMMA StripIs ==
  ASSUME NEW s \in Seq(Line)
  PROVE  \E h : StripSteps(h, s) /\ Strip(s) = h[Len(s)].kept \o h[Len(s)].held
<1> DEFINE D  == DOMAIN s
           it == CHOOSE g : Strips(g, D, s)
           h  == [k \in 0..Len(s) |-> it[1..k]]
<1>1. D = 1..Len(s) /\ Len(s) \in Nat
  OBVIOUS
<1>2. Strips(it, D, s)
  <2>1. \E g : Strips(g, D, s)
    BY <1>1, StripsExist
  <2> QED  BY <2>1, Zenon
<1>3. FoldLeft(FenceStep, StripStart, s) = it[D]
  BY DEF FoldLeft, MapThenFoldSet, Strips
<1>4. Strip(s) = it[D].kept \o it[D].held
  BY <1>3 DEF Strip, StripStart
<1> HIDE DEF it
<1>5. h[0] = StripStart
  <2>1. 1..0 = {} /\ {} \in SUBSET D
    OBVIOUS
  <2>2. it[{}] = StripStart
    BY <1>2, <2>1 DEF Strips
  <2> QED  BY <1>1, <2>1, <2>2
<1>6. ASSUME NEW k \in 1..Len(s) PROVE h[k] = FenceStep(h[k - 1], s[k])
  <2> DEFINE d == 1..k
  <2>1. d \in SUBSET D /\ d # {} /\ Max(d) = k /\ d \ {Max(d)} = 1..(k - 1)
    BY <1>1, UpToLast
  <2>2. it[d] = FenceStep(it[d \ {Max(d)}], s[Max(d)])
    <3> HIDE DEF d
    <3> QED  BY <1>2, <2>1 DEF Strips
  <2>3. it[1..k] = FenceStep(it[1..(k - 1)], s[k])
    BY <2>1, <2>2
  <2>4. h[k] = it[1..k] /\ h[k - 1] = it[1..(k - 1)]
    BY <1>1
  <2> QED  BY <2>3, <2>4
<1>7. h[Len(s)] = it[D] /\ h = [k \in 0..Len(s) |-> h[k]]
  BY <1>1
<1> HIDE DEF h
<1>8. \A k \in 0..Len(s) : h[k] \in StripState
  <2> DEFINE P == { k \in 0..Len(s) : h[k] \in StripState }
  <2>1. 0 \in P
    <3>1. StripStart \in StripState
      BY DEF StripState, StripStart
    <3> QED  BY <1>1, <1>5, <3>1
  <2>2. ASSUME NEW k \in 1..Len(s), k - 1 \in P PROVE k \in P
    <3>1. h[k - 1] \in StripState /\ s[k] \in Line
      BY <2>2
    <3>2. FenceStep(h[k - 1], s[k]) \in StripState
      BY <3>1, FenceStepIs
    <3> QED  BY <1>6, <3>2
  <2>3. \A k \in 1..Len(s) : k - 1 \in P => k \in P
    BY <2>2
  <2>4. 0..Len(s) \subseteq P
    <3> HIDE DEF P
    <3> QED  BY <1>1, <2>1, <2>3, Counting, Zenon
  <2> QED  BY <2>4
<1>9. h \in [0..Len(s) -> StripState]
  BY <1>7, <1>8
<1>10. StripSteps(h, s)
  BY <1>5, <1>6, <1>9 DEF StripSteps
<1> QED  BY <1>4, <1>7, <1>10

(* Whether the first k lines leave a fence open. *)
LEMMA Parity ==
  ASSUME NEW s \in Seq(Line), NEW h, StripSteps(h, s), NEW k \in 0..Len(s)
  PROVE  h[k].inside <=> Cardinality({ i \in 1..k : s[i] = Fence }) % 2 # 0
<1> DEFINE F(m) == { i \in 1..m : s[i] = Fence }
           Fits(m) == /\ IsFiniteSet(F(m)) /\ Cardinality(F(m)) \in Nat
                      /\ h[m].inside \in BOOLEAN
                      /\ h[m].inside <=> Cardinality(F(m)) % 2 # 0
           P == { m \in 0..Len(s) : Fits(m) }
<1>0. /\ h \in [0..Len(s) -> StripState] /\ h[0] = StripStart
      /\ \A m \in 1..Len(s) : h[m] = FenceStep(h[m - 1], s[m])
  BY DEF StripSteps
<1>1. 0 \in P
  <2>1. F(0) = {}
    OBVIOUS
  <2>2. ~h[0].inside /\ h[0].inside \in BOOLEAN
    BY <1>0 DEF StripStart
  <2> HIDE DEF F
  <2>3. Cardinality(F(0)) = 0 /\ IsFiniteSet(F(0))
    BY <2>1, FS_EmptySet
  <2>4. Fits(0)
    BY <2>2, <2>3
  <2> QED  BY <2>4
<1>2. ASSUME NEW m \in 1..Len(s), m - 1 \in P PROVE m \in P
  <2>1. Fits(m - 1)
    BY <1>2
  <2>2. h[m - 1] \in StripState /\ s[m] \in Line /\ h[m] = FenceStep(h[m - 1], s[m])
    BY <1>0
  <2>3. CASE s[m] = Fence
    <3>1. F(m) = F(m - 1) \cup {m} /\ m \notin F(m - 1)
      BY <2>3
    <3>2. h[m].inside = ~h[m - 1].inside
      BY <2>2, <2>3, FenceStepIs, SMTT(30)
    <3> HIDE DEF F
    <3>3. IsFiniteSet(F(m)) /\ Cardinality(F(m)) = Cardinality(F(m - 1)) + 1
      BY <2>1, <3>1, FS_AddElement, SMTT(30)
    <3> DEFINE c == Cardinality(F(m - 1))
    <3>4. c \in Nat /\ (h[m - 1].inside <=> c % 2 # 0) /\ h[m - 1].inside \in BOOLEAN
      BY <2>1
    <3> HIDE DEF c
    <3>5. (c + 1) % 2 # 0 <=> c % 2 = 0
      BY <3>4
    <3>6. Cardinality(F(m)) = c + 1
      BY <3>3 DEF c
    <3>7. h[m].inside \in BOOLEAN /\ (h[m].inside <=> ~h[m - 1].inside)
      BY <3>2, <3>4, Zenon
    <3>8. h[m].inside <=> Cardinality(F(m)) % 2 # 0
      BY <3>4, <3>5, <3>6, <3>7, Zenon
    <3>9. Cardinality(F(m)) \in Nat
      BY <3>4, <3>6
    <3>10. Fits(m)
      BY <3>3, <3>7, <3>8, <3>9, Zenon
    <3> HIDE DEF Fits
    <3> QED  BY <3>10
  <2>4. CASE s[m] # Fence
    <3>1. F(m) = F(m - 1)
      BY <2>4
    <3>2. h[m].inside = h[m - 1].inside
      BY <2>2, <2>4, FenceStepIs
    <3> HIDE DEF F
    <3>3. Fits(m)
      BY <2>1, <3>1, <3>2
    <3> HIDE DEF Fits
    <3> QED  BY <3>3
  <2> QED  BY <2>3, <2>4
<1>3. \A m \in 1..Len(s) : m - 1 \in P => m \in P
  BY <1>2
<1>4. 0..Len(s) \subseteq P
  <2> HIDE DEF P
  <2>1. Len(s) \in Nat
    OBVIOUS
  <2> QED  BY <1>1, <1>3, <2>1, Counting, Zenon
<1>5. Fits(k)
  <2> HIDE DEF Fits
  <2> QED  BY <1>4
<1> QED  BY <1>5

(* The lines that are kept and those that are held back, after k lines. *)
Free(h, s, k) == { i \in 1..k : s[i] # Fence /\ ~h[i].inside }
Held(h, s, k) == { i \in 1..k : s[i] # Fence /\ h[i].inside /\ \A j \in i..k : s[j] # Fence }

(* q begins with the first of the lines D of s. *)
FirstOf(q, D, s) ==
  \/ D = {} /\ q = << >>
  \/ q # << >> /\ \E i \in D : q[1] = s[i] /\ \A j \in D : i <= j

LEMMA FirstMore ==
  ASSUME NEW s \in Seq(Line), NEW k \in 1..Len(s), NEW D \in SUBSET (1..(k - 1)),
         NEW q \in Seq(Line), FirstOf(q, D, s)
  PROVE  FirstOf(Append(q, s[k]), D \cup {k}, s)
<1>1. s[k] \in Line /\ Append(q, s[k]) # << >> /\ \A j \in D : j < k
  <2>1. s[k] \in Line /\ \A j \in D : j < k
    OBVIOUS
  <2>2. Len(Append(q, s[k])) = Len(q) + 1 /\ Len(q) \in Nat
    OBVIOUS
  <2>3. Len(Append(q, s[k])) # 0
    BY <2>2
  <2> QED  BY <2>1, <2>3
<1>2. CASE D = {} /\ q = << >>
  <2>1. Append(q, s[k])[1] = s[k]
    BY <1>2
  <2> QED  BY <1>1, <1>2, <2>1 DEF FirstOf
<1>3. CASE q # << >> /\ \E i \in D : q[1] = s[i] /\ \A j \in D : i <= j
  <2>1. PICK i \in D : q[1] = s[i] /\ \A j \in D : i <= j
    BY <1>3
  <2>2. Append(q, s[k])[1] = q[1]
    BY <1>3
  <2>3. i \in D \cup {k} /\ \A j \in D \cup {k} : i <= j
    BY <1>1, <2>1
  <2> QED  BY <1>1, <2>1, <2>2, <2>3 DEF FirstOf
<1> QED  BY <1>2, <1>3 DEF FirstOf

LEMMA StripParts ==
  ASSUME NEW s \in Seq(Line), NEW h, StripSteps(h, s)
  PROVE  /\ FirstOf(h[Len(s)].kept, Free(h, s, Len(s)), s)
         /\ FirstOf(h[Len(s)].held, Held(h, s, Len(s)), s)
         /\ \A i \in Free(h, s, Len(s)), j \in Held(h, s, Len(s)) : i < j
<1> DEFINE Fits(k) == /\ FirstOf(h[k].kept, Free(h, s, k), s)
                      /\ FirstOf(h[k].held, Held(h, s, k), s)
                      /\ \A i \in Free(h, s, k), j \in Held(h, s, k) : i < j
                      /\ Held(h, s, k) # {} => h[k].inside
           P == { k \in 0..Len(s) : Fits(k) }
<1>0. /\ h \in [0..Len(s) -> StripState] /\ h[0] = StripStart
      /\ \A m \in 1..Len(s) : h[m] = FenceStep(h[m - 1], s[m])
  BY DEF StripSteps
<1>1. 0 \in P
  <2>1. Free(h, s, 0) = {} /\ Held(h, s, 0) = {}
    BY DEF Free, Held
  <2>2. h[0].kept = << >> /\ h[0].held = << >>
    BY <1>0 DEF StripStart
  <2>3. Fits(0)
    BY <2>1, <2>2 DEF FirstOf
  <2> HIDE DEF Fits
  <2> QED  BY <2>3
<1>2. ASSUME NEW k \in 1..Len(s), k - 1 \in P PROVE k \in P
  <2>1. Fits(k - 1)
    BY <1>2
  <2> DEFINE st  == h[k - 1]
             new == h[k]
             K   == Free(h, s, k - 1)
             H   == Held(h, s, k - 1)
  <2>2. st \in StripState /\ s[k] \in Line /\ new = FenceStep(st, s[k])
    BY <1>0
  <2>3. st.kept \in Seq(Line) /\ st.held \in Seq(Line)
    BY <2>2 DEF StripState
  <2>f. /\ s[k] = Fence => new.kept = st.kept /\ new.held = << >>
        /\ s[k] # Fence => new.inside = st.inside
        /\ s[k] # Fence /\ st.inside => new.kept = st.kept /\ new.held = Append(st.held, s[k])
        /\ s[k] # Fence /\ ~st.inside => new.kept = Append(st.kept, s[k]) /\ new.held = st.held
    <3> HIDE DEF st, new
    <3> QED  BY <2>2, FenceStepIs
  <2>4. K \in SUBSET (1..(k - 1)) /\ H \in SUBSET (1..(k - 1))
    BY DEF Free, Held
  <2>5. /\ FirstOf(st.kept, K, s) /\ FirstOf(st.held, H, s)
        /\ \A i \in K, j \in H : i < j
        /\ H # {} => st.inside
    BY <2>1
  <2>6. CASE s[k] = Fence
    <3>1. Free(h, s, k) = K
      BY <2>6 DEF Free
    <3>2. Held(h, s, k) = {}
      BY <2>6 DEF Held
    <3>3. new.kept = st.kept /\ new.held = << >>
      BY <2>6, <2>f, Zenon
    <3> HIDE DEF st, K, H
    <3>4. FirstOf(<< >>, {}, s)
      BY DEF FirstOf
    <3>5. Fits(k)
      BY <2>5, <3>1, <3>2, <3>3, <3>4
    <3> HIDE DEF Fits
    <3> QED  BY <3>5
  <2>7. CASE s[k] # Fence /\ st.inside
    <3>1. new.inside /\ new.kept = st.kept /\ new.held = Append(st.held, s[k])
      BY <2>7, <2>f, Zenon
    <3>2. Free(h, s, k) = K
      BY <2>7, <3>1 DEF Free
    <3>3. Held(h, s, k) = H \cup {k}
      <4>1. \A i \in 1..(k - 1) : (\A j \in i..k : s[j] # Fence)
                                    <=> (\A j \in i..(k - 1) : s[j] # Fence)
        BY <2>7
      <4> QED  BY <2>7, <3>1, <4>1 DEF Held
    <3> HIDE DEF st, K, H
    <3>4. FirstOf(Append(st.held, s[k]), H \cup {k}, s)
      BY <2>3, <2>4, <2>5, FirstMore
    <3>5. \A i \in K, j \in H \cup {k} : i < j
      BY <2>4, <2>5
    <3>6. Fits(k)
      BY <2>5, <3>1, <3>2, <3>3, <3>4, <3>5
    <3> HIDE DEF Fits
    <3> QED  BY <3>6
  <2>8. CASE s[k] # Fence /\ ~st.inside
    <3>1. ~new.inside /\ new.kept = Append(st.kept, s[k]) /\ new.held = st.held
      BY <2>8, <2>f, Zenon
    <3>2. Free(h, s, k) = K \cup {k}
      BY <2>8, <3>1 DEF Free
    <3>3. H = {}
      BY <2>5, <2>8
    <3>4. Held(h, s, k) = {}
      <4>1. \A i \in 1..(k - 1) : (\A j \in i..k : s[j] # Fence)
                                    => (\A j \in i..(k - 1) : s[j] # Fence)
        OBVIOUS
      <4> QED  BY <3>1, <3>3, <4>1 DEF Held
    <3> HIDE DEF st, K, H
    <3>5. FirstOf(Append(st.kept, s[k]), K \cup {k}, s)
      BY <2>3, <2>4, <2>5, FirstMore
    <3>6. Fits(k)
      BY <2>5, <3>1, <3>2, <3>3, <3>4, <3>5
    <3> HIDE DEF Fits
    <3> QED  BY <3>6
  <2> QED  BY <2>6, <2>7, <2>8
<1>3. \A k \in 1..Len(s) : k - 1 \in P => k \in P
  BY <1>2
<1>4. 0..Len(s) \subseteq P
  <2> HIDE DEF P
  <2>1. Len(s) \in Nat
    OBVIOUS
  <2> QED  BY <1>1, <1>3, <2>1, Counting, Zenon
<1>5. Fits(Len(s))
  <2> HIDE DEF Fits
  <2>1. Len(s) \in 0..Len(s)
    OBVIOUS
  <2> QED  BY <1>4, <2>1
<1> QED  BY <1>5

(* The number that Least and Greatest choose. *)
LEMMA LeastIs ==
  ASSUME NEW S \in SUBSET Nat, NEW i \in S, \A j \in S : i <= j PROVE Least(S) = i
<1>1. \A k \in S : (\A j \in S : k <= j) => k = i
  OBVIOUS
<1> QED  BY <1>1 DEF Least

LEMMA GreatestIs ==
  ASSUME NEW S \in SUBSET Nat, NEW i \in S, \A j \in S : j <= i PROVE Greatest(S) = i
<1>1. \A k \in S : (\A j \in S : j <= k) => k = i
  OBVIOUS
<1> QED  BY <1>1 DEF Greatest

(* Strip leaves something just where a line is outside code, and the first such
   line comes first. *)
LEMMA StripSays ==
  ASSUME NEW s \in Seq(Line)
  PROVE  /\ Strip(s) # << >> <=> Outside(s) # {}
         /\ Outside(s) # {} => Head(Strip(s)) = s[Least(Outside(s))]
<1>1. PICK h : StripSteps(h, s) /\ Strip(s) = h[Len(s)].kept \o h[Len(s)].held
  BY StripIs
<1> DEFINE n == Len(s)
           K == Free(h, s, n)
           H == Held(h, s, n)
           kept == h[n].kept
           held == h[n].held
<1>2. /\ FirstOf(kept, K, s) /\ FirstOf(held, H, s) /\ \A i \in K, j \in H : i < j
  BY <1>1, StripParts
<1>3. n \in Nat /\ kept \in Seq(Line) /\ held \in Seq(Line) /\ Strip(s) = kept \o held
  BY <1>1 DEF StripSteps, StripState
<1>4. \A i \in 1..n : h[i].inside <=> Cardinality({ j \in 1..i : s[j] = Fence }) % 2 # 0
  BY <1>1, <1>3, Parity
<1>5. Outside(s) = K \cup H
  <2> DEFINE Even(i) == Cardinality({ j \in 1..i : s[j] = Fence }) % 2 = 0
             Ends(i) == { j \in i..n : s[j] = Fence } = {}
  <2>1. Outside(s) = { i \in 1..n : s[i] # Fence /\ (Ends(i) \/ Even(i)) }
    BY DEF Outside
  <2>2. \A i \in 1..n : h[i].inside <=> ~Even(i)
    BY <1>4
  <2> HIDE DEF Even
  <2>3. \A i \in 1..n : Ends(i) <=> \A j \in i..n : s[j] # Fence
    OBVIOUS
  <2> HIDE DEF Ends
  <2>4. K = { i \in 1..n : s[i] # Fence /\ Even(i) }
    BY <2>2 DEF Free
  <2>5. H = { i \in 1..n : s[i] # Fence /\ ~Even(i) /\ Ends(i) }
    BY <2>2, <2>3 DEF Held
  <2> HIDE DEF K, H
  <2> QED  BY <2>1, <2>4, <2>5
<1>6. K \subseteq 1..n /\ H \subseteq 1..n
  BY DEF Free, Held
<1> HIDE DEF K, H, kept, held, n
<1>7. CASE K = {} /\ H = {}
  <2>1. kept = << >> /\ held = << >>
    BY <1>2, <1>7 DEF FirstOf
  <2> QED  BY <1>3, <1>5, <1>7, <2>1
<1>8. CASE K # {}
  <2>1. kept # << >>
    BY <1>2, <1>8 DEF FirstOf
  <2>2. PICK i \in K : kept[1] = s[i] /\ \A j \in K : i <= j
    BY <1>2, <2>1 DEF FirstOf
  <2>3. Outside(s) \in SUBSET Nat /\ i \in Outside(s) /\ \A j \in Outside(s) : i <= j
    <3>1. i \in Nat /\ K \subseteq Nat /\ H \subseteq Nat
      BY <1>6, <2>2
    <3>2. \A j \in H : i <= j
      BY <1>2, <2>2, <3>1
    <3> QED  BY <1>5, <2>2, <3>1, <3>2
  <2>4. Least(Outside(s)) = i
    BY <2>3, LeastIs
  <2>5. Len(kept \o held) = Len(kept) + Len(held) /\ Len(kept) # 0 /\ Len(kept) \in Nat /\ Len(held) \in Nat
    BY <1>3, <2>1
  <2>6. kept \o held # << >> /\ Head(kept \o held) = kept[1]
    <3>1. Len(kept \o held) # 0 /\ 1 \in 1..Len(kept)
      BY <2>5
    <3>2. (kept \o held)[1] = kept[1]
      BY <1>3, <3>1
    <3>3. kept \o held \in Seq(Line)
      BY <1>3
    <3> DEFINE both == kept \o held
    <3>4. both # << >> /\ Head(both) = both[1]
      <4> HIDE DEF both
      <4>1. both \in Seq(Line) /\ Len(both) # 0
        BY <3>1, <3>3 DEF both
      <4> QED  BY <4>1
    <3> QED  BY <3>2, <3>4
  <2> QED  BY <1>3, <2>2, <2>3, <2>4, <2>6
<1>9. CASE K = {} /\ H # {}
  <2>1. kept = << >> /\ held # << >>
    BY <1>2, <1>9 DEF FirstOf
  <2>2. PICK i \in H : held[1] = s[i] /\ \A j \in H : i <= j
    BY <1>2, <2>1 DEF FirstOf
  <2>3. Outside(s) \in SUBSET Nat /\ i \in Outside(s) /\ \A j \in Outside(s) : i <= j
    <3>1. i \in Nat /\ H \subseteq Nat
      BY <1>6, <2>2
    <3>2. Outside(s) = H
      BY <1>5, <1>9
    <3> QED  BY <2>2, <3>1, <3>2
  <2>4. Least(Outside(s)) = i
    BY <2>3, LeastIs
  <2>5. kept \o held = held /\ Head(held) = held[1]
    BY <1>3, <2>1
  <2> QED  BY <1>3, <2>1, <2>2, <2>3, <2>4, <2>5
<1> QED  BY <1>7, <1>8, <1>9
-----------------------------------------------------------------------------
(***************************************************************************)
(* The Task and Next action of a session's rows.                           *)
(***************************************************************************)

LEMMA LeastIn ==
  ASSUME NEW S \in SUBSET Nat, S # {} PROVE Least(S) \in S /\ \A j \in S : Least(S) <= j
<1>1. \E i \in S : \A j \in S : i <= j
  BY LeastOf
<1> QED  BY <1>1 DEF Least

LEMMA GreatestIn ==
  ASSUME NEW n \in Nat, NEW S \in SUBSET (1..n), S # {}
  PROVE  Greatest(S) \in S /\ \A j \in S : j <= Greatest(S)
<1> DEFINE above == { m \in 0..n : \A j \in S : j <= m }
<1>1. above \in SUBSET Nat /\ n \in above
  OBVIOUS
<1>2. PICK m \in above : \A k \in above : m <= k
  <2> HIDE DEF above
  <2>1. above # {}
    BY <1>1
  <2> QED  BY <1>1, <2>1, LeastOf, Zenon
<1>3. m \in S
  <2> SUFFICES ASSUME m \notin S PROVE FALSE
    OBVIOUS
  <2>1. PICK j \in S : TRUE
    OBVIOUS
  <2>2. m \in 1..n /\ \A i \in S : i <= m - 1
    BY <1>2, <2>1
  <2>3. m - 1 \in above
    BY <2>2
  <2> HIDE DEF above
  <2> QED  BY <1>2, <2>2, <2>3
<1>4. m \in S /\ \A j \in S : j <= m
  BY <1>2, <1>3
<1> QED  BY <1>4, Zenon DEF Greatest

Prompt(r) == /\ r.role = "user" /\ r.form = "plain" /\ r.text # << >> /\ r.text \notin Brief
Answer(r) == /\ r.role = "assistant" /\ r.form # "tools" /\ Outside(r.text) # {}

(* What Task and Next action say of such a record. *)
TaskOf(r) == TaskCut[r.text[1]]
NextOf(r) == <<r.text[Least(Outside(r.text))]>>

(* Of the first n records of t, the ith is the first prompt, or the last answer. *)
FirstPrompt(t, n, i) == i \in 1..n /\ Prompt(t[i]) /\ \A j \in 1..n : j < i => ~Prompt(t[j])
LastAnswer(t, n, i)  == i \in 1..n /\ Answer(t[i]) /\ \A j \in 1..n : i < j => ~Answer(t[j])

LEMMA TaskTells ==
  ASSUME SectionsAssumption, NEW n \in Nat, NEW rows \in [1..n -> Record],
         NEW k, FirstPrompt(rows, n, k)
  PROVE  Task(rows) = TaskOf(rows[k])
<1> DEFINE S == { i \in Plain(rows, "user") : rows[i].text \notin Brief }
<1>1. \A i \in 1..n : rows[i] \in RecordType /\ rows[i].text \in Seq(Line)
  <2>1. Record \subseteq RecordType
    BY DEF SectionsAssumption
  <2> QED  BY <2>1 DEF RecordType
<1>2. S = { i \in 1..n : Prompt(rows[i]) }
  BY DEF Plain, Prompt
<1> HIDE DEF S
<1>3. S \in SUBSET Nat /\ k \in S /\ \A j \in S : k <= j
  BY <1>2 DEF FirstPrompt
<1>4. Least(S) = k
  BY <1>3, LeastIs
<1>5. Head(rows[k].text) = rows[k].text[1]
  BY <1>1, <1>3 DEF FirstPrompt, Prompt
<1>6. S # {} /\ Task(rows) = IF S = {} THEN None ELSE TaskCut[Head(rows[Least(S)].text)]
  BY <1>3 DEF Task, S
<1> QED  BY <1>4, <1>5, <1>6 DEF TaskOf

LEMMA NextTells ==
  ASSUME SectionsAssumption, NEW n \in Nat, NEW rows \in [1..n -> Record],
         NEW k, LastAnswer(rows, n, k)
  PROVE  NextAction(rows) = NextOf(rows[k])
<1> DEFINE S == { i \in DOMAIN rows : rows[i].role = "assistant" /\ rows[i].form # "tools"
                                      /\ Strip(rows[i].text) # << >> }
<1>1. \A i \in 1..n : rows[i].text \in Seq(Line)
  <2>1. Record \subseteq RecordType
    BY DEF SectionsAssumption
  <2> QED  BY <2>1 DEF RecordType
<1>2. \A i \in 1..n : Strip(rows[i].text) # << >> <=> Outside(rows[i].text) # {}
  BY <1>1, StripSays
<1>3. S = { i \in 1..n : Answer(rows[i]) }
  BY <1>2 DEF Answer
<1> HIDE DEF S
<1>4. S \in SUBSET Nat /\ k \in S /\ \A j \in S : j <= k
  BY <1>3 DEF LastAnswer
<1>5. Greatest(S) = k
  BY <1>4, GreatestIs
<1>6. rows[k].text \in Seq(Line) /\ Outside(rows[k].text) # {}
  BY <1>1 DEF LastAnswer, Answer
<1>7. Head(Strip(rows[k].text)) = rows[k].text[Least(Outside(rows[k].text))]
  BY <1>6, StripSays
<1>8. NextAction(rows) = IF S # {} THEN <<Head(Strip(rows[Greatest(S)].text))>>
                         ELSE IF Plain(rows, "user") # {}
                         THEN <<"Continue", Head(rows[Greatest(Plain(rows, "user"))].text)>>
                         ELSE None
  BY DEF NextAction, S
<1> QED  BY <1>4, <1>5, <1>7, <1>8 DEF NextOf

(* In rows that are Telling, the first prompt and the last answer are those of
   the records. *)
LEMMA PromptTold ==
  ASSUME NEW n \in Nat, NEW top \in Nat, NEW rec, Telling(rec, n, top), NEW t,
         NEW i, FirstPrompt(t, top, i)
  PROVE  \E k \in 1..n : rec[k] = i /\ FirstPrompt(RowsOf(t, rec, n), n, k)
<1> DEFINE S == { k \in 1..n : Prompt(t[rec[k]]) }
<1>1. /\ rec \in [1..n -> 1..top] /\ \E k \in 1..n : rec[k] = i
      /\ \A k \in 1..n, a \in 1..top : a < rec[k] => \E j \in 1..n : j < k /\ rec[j] = a
  BY DEF Telling, FirstPrompt
<1>2. i \in 1..top /\ Prompt(t[i]) /\ \A j \in 1..top : j < i => ~Prompt(t[j])
  BY DEF FirstPrompt
<1>3. PICK k \in S : \A j \in S : k <= j
  <2>1. S \in SUBSET Nat /\ S # {}
    BY <1>1, <1>2
  <2> HIDE DEF S
  <2> QED  BY <2>1, LeastOf
<1>4. k \in 1..n /\ Prompt(t[rec[k]]) /\ rec[k] \in 1..top
  BY <1>1, <1>3
<1>5. \A j \in 1..n : j < k => ~Prompt(t[rec[j]])
  BY <1>3, <1>4
<1>6. ~(rec[k] < i)
  BY <1>2, <1>4
<1>7. ~(i < rec[k])
  BY <1>1, <1>2, <1>4, <1>5
<1>8. rec[k] = i
  BY <1>2, <1>4, <1>6, <1>7
<1> QED  BY <1>4, <1>5, <1>8 DEF FirstPrompt, RowsOf

LEMMA AnswerTold ==
  ASSUME NEW n \in Nat, NEW top \in Nat, NEW rec, Telling(rec, n, top), NEW t,
         NEW i, LastAnswer(t, top, i)
  PROVE  \E k \in 1..n : rec[k] = i /\ LastAnswer(RowsOf(t, rec, n), n, k)
<1> DEFINE S == { k \in 1..n : Answer(t[rec[k]]) }
<1>1. /\ rec \in [1..n -> 1..top] /\ \E k \in 1..n : rec[k] = i
      /\ \A k \in 1..n, b \in 1..top : rec[k] < b => \E j \in 1..n : k < j /\ rec[j] = b
  BY DEF Telling, LastAnswer
<1>2. i \in 1..top /\ Answer(t[i]) /\ \A j \in 1..top : i < j => ~Answer(t[j])
  BY DEF LastAnswer
<1>3. PICK k \in S : \A j \in S : j <= k
  <2>1. S \in SUBSET (1..n) /\ S # {}
    BY <1>1, <1>2
  <2> HIDE DEF S
  <2> QED  BY <2>1, GreatestIn
<1>4. k \in 1..n /\ Answer(t[rec[k]]) /\ rec[k] \in 1..top
  BY <1>1, <1>3
<1>5. \A j \in 1..n : k < j => ~Answer(t[rec[j]])
  BY <1>3, <1>4
<1>6. ~(i < rec[k])
  BY <1>2, <1>4
<1>7. ~(rec[k] < i)
  BY <1>1, <1>2, <1>4, <1>5
<1>8. rec[k] = i
  BY <1>2, <1>4, <1>6, <1>7
<1> QED  BY <1>4, <1>5, <1>8 DEF LastAnswer, RowsOf
-----------------------------------------------------------------------------
(***************************************************************************)
(* What the sections consist of.                                           *)
(***************************************************************************)

Tasks == { TaskCut[l] : l \in Line }
Nexts == { <<l>> : l \in Line } \cup { <<"Continue", l>> : l \in Line }
Cuts  == { QuestionCut[q] : q \in Question }

LEMMA RecordText ==
  ASSUME SectionsAssumption, NEW r \in Record
  PROVE  /\ r.text \in Seq(Line) /\ DOMAIN r.text = 1..Len(r.text) /\ Len(r.text) \in Nat
         /\ r.text # << >> => Head(r.text) = r.text[1] /\ r.text[1] \in Line
<1>1. r \in RecordType
  BY DEF SectionsAssumption
<1>2. r.text \in Seq(Line)
  BY <1>1 DEF RecordType
<1> QED  BY <1>2

LEMMA TaskType ==
  ASSUME SectionsAssumption, NEW n \in Nat, NEW rows \in [1..n -> Record]
  PROVE  Task(rows) \in Tasks \cup {None}
<1> DEFINE S == { i \in Plain(rows, "user") : rows[i].text \notin Brief }
<1>1. S \in SUBSET (1..n) /\ \A i \in S : rows[i].text # << >>
  BY DEF Plain
<1>2. Task(rows) = IF S = {} THEN None ELSE TaskCut[Head(rows[Least(S)].text)]
  BY DEF Task
<1> HIDE DEF S
<1>3. ASSUME S # {} PROVE TaskCut[Head(rows[Least(S)].text)] \in Tasks
  <2>1. S \in SUBSET Nat
    BY <1>1
  <2>2. Least(S) \in S
    BY <1>3, <2>1, LeastIn
  <2>3. rows[Least(S)] \in Record /\ rows[Least(S)].text # << >>
    BY <1>1, <2>2
  <2>4. Head(rows[Least(S)].text) \in Line
    BY <2>3, RecordText
  <2> QED  BY <2>4 DEF Tasks
<1> QED  BY <1>2, <1>3

LEMMA OutsideIn ==
  ASSUME NEW s \in Seq(Line), Outside(s) # {}
  PROVE  Least(Outside(s)) \in 1..Len(s) /\ s[Least(Outside(s))] \in Line
<1>1. Outside(s) \in SUBSET (1..Len(s)) /\ Outside(s) \in SUBSET Nat
  BY DEF Outside
<1>2. Least(Outside(s)) \in 1..Len(s)
  BY <1>1, LeastIn
<1> QED  BY <1>2

LEMMA NextType ==
  ASSUME SectionsAssumption, NEW n \in Nat, NEW rows \in [1..n -> Record]
  PROVE  NextAction(rows) \in Nexts \cup {None}
<1> DEFINE S == { i \in DOMAIN rows : rows[i].role = "assistant" /\ rows[i].form # "tools"
                                      /\ Strip(rows[i].text) # << >> }
           P == Plain(rows, "user")
<1>1. /\ S \in SUBSET (1..n) /\ \A i \in S : Strip(rows[i].text) # << >>
      /\ P \in SUBSET (1..n) /\ \A i \in P : rows[i].text # << >>
  BY DEF Plain
<1>2. NextAction(rows) = IF S # {} THEN <<Head(Strip(rows[Greatest(S)].text))>>
                         ELSE IF P # {} THEN <<"Continue", Head(rows[Greatest(P)].text)>>
                         ELSE None
  BY DEF NextAction
<1> HIDE DEF S, P
<1>3. ASSUME S # {} PROVE <<Head(Strip(rows[Greatest(S)].text))>> \in Nexts
  <2> DEFINE text == rows[Greatest(S)].text
  <2>1. Greatest(S) \in S
    BY <1>1, <1>3, GreatestIn
  <2>2. rows[Greatest(S)] \in Record /\ Strip(text) # << >>
    BY <1>1, <2>1
  <2>3. text \in Seq(Line)
    BY <2>2, RecordText
  <2> HIDE DEF text
  <2>4. Outside(text) # {} /\ Head(Strip(text)) = text[Least(Outside(text))]
    BY <2>2, <2>3, StripSays
  <2>5. Head(Strip(text)) \in Line
    BY <2>3, <2>4, OutsideIn
  <2> QED  BY <2>5 DEF Nexts, text
<1>4. ASSUME P # {} PROVE <<"Continue", Head(rows[Greatest(P)].text)>> \in Nexts
  <2>1. Greatest(P) \in P
    BY <1>1, <1>4, GreatestIn
  <2>2. rows[Greatest(P)] \in Record /\ rows[Greatest(P)].text # << >>
    BY <1>1, <2>1
  <2>3. Head(rows[Greatest(P)].text) \in Line
    BY <2>2, RecordText
  <2> QED  BY <2>3 DEF Nexts
<1> QED  BY <1>2, <1>3, <1>4

(* What a record asks, and what it says of a failure. *)
LEMMA AsksType == ASSUME SectionsAssumption, NEW r \in Record PROVE Asks(r) \in Seq(Question)
<1> DEFINE X == [i \in 1..Len(r.text) |-> Asked[r.text[i]]]
<1>1. DOMAIN r.text = 1..Len(r.text) /\ Len(r.text) \in Nat /\ r.text \in Seq(Line)
  BY RecordText
<1>2. X \in [1..Len(r.text) -> Seq(Question)]
  <2>1. \A i \in 1..Len(r.text) : r.text[i] \in Line
    BY <1>1
  <2>2. \A l \in Line : Asked[l] \in Seq(Question)
    BY DEF SectionsAssumption
  <2> QED  BY <2>1, <2>2
<1>3. FlattenSeq(X) \in Seq(Question)
  <2> HIDE DEF X
  <2> QED  BY <1>1, <1>2, FlattenType
<1>4. Asks(r) = FlattenSeq(X) \/ Asks(r) = << >>
  BY <1>1 DEF Asks
<1>5. << >> \in Seq(Question)
  OBVIOUS
<1> HIDE DEF X
<1> QED  BY <1>3, <1>4, <1>5, Zenon

LEMMA FailsType == ASSUME SectionsAssumption, NEW r \in Record PROVE Fails(r) \in Seq(Seq(Line))
<1> DEFINE e == IF r.form = "plain" THEN <<Head(r.text)>> ELSE r.text
<1>1. r.text \in Seq(Line) /\ Fence \in Line
  BY RecordText DEF SectionsAssumption
<1>2. ASSUME Fails(r) # << >> PROVE r.text # << >>
  <2>1. \E i \in DOMAIN r.text : TRUE
    BY <1>2 DEF Fails
  <2> QED  BY <2>1
<1>3. ASSUME r.text # << >> PROVE <<e>> \in Seq(Seq(Line))
  <2>1. Head(r.text) \in Line
    BY <1>3, RecordText
  <2>2. <<Head(r.text)>> \in Seq(Line)
    BY <2>1
  <2>3. e \in Seq(Line)
    BY <1>1, <2>2
  <2> HIDE DEF e
  <2> QED  BY <2>3
<1>4. Fails(r) = <<e>> \/ Fails(r) = << >>
  BY DEF Fails
<1>5. << >> \in Seq(Seq(Line))
  OBVIOUS
<1> HIDE DEF e
<1> QED  BY <1>2, <1>3, <1>4, <1>5

LEMMA SeqIs ==
  ASSUME NEW V, NEW m \in Nat, NEW f \in [1..m -> V] PROVE f \in Seq(V) /\ Len(f) = m
OBVIOUS

(* The two capped lists, of n records. *)
LEMMA ListsType ==
  ASSUME SectionsAssumption, NEW n \in Nat, NEW rows \in [1..n -> Record]
  PROVE  /\ OpenQuestions(rows) \in Seq(Cuts) /\ Len(OpenQuestions(rows)) <= MaxQuestions
         /\ FailedApproaches(rows) \in Seq(Seq(Line)) /\ Len(FailedApproaches(rows)) <= MaxFailed
<1> DEFINE X   == [i \in DOMAIN rows |-> Asks(rows[i])]
           Y   == [i \in DOMAIN rows |-> Fails(rows[i])]
           all == Distinct(FlattenSeq(X), MaxQuestions)
<1>1. MaxQuestions \in Nat /\ MaxFailed \in Nat
  BY DEF SectionsAssumption
<1>2. X \in [1..n -> Seq(Question)] /\ Y \in [1..n -> Seq(Seq(Line))]
  <2>1. \A i \in 1..n : Asks(rows[i]) \in Seq(Question)
    BY AsksType
  <2>2. \A i \in 1..n : Fails(rows[i]) \in Seq(Seq(Line))
    BY FailsType
  <2> QED  BY <2>1, <2>2
<1> HIDE DEF X, Y
<1>3. FlattenSeq(X) \in Seq(Question)
  BY <1>2, FlattenType
<1>4. FlattenSeq(Y) \in Seq(Seq(Line))
  BY <1>2, FlattenType
<1>5. all \in Seq(Question) /\ Len(all) <= MaxQuestions
  BY <1>1, <1>3, DistinctType DEF Picked
<1>6. /\ Distinct(FlattenSeq(Y), MaxFailed) \in Seq(Seq(Line))
      /\ Len(Distinct(FlattenSeq(Y), MaxFailed)) <= MaxFailed
  BY <1>1, <1>4, DistinctType DEF Picked
<1>7. OpenQuestions(rows) = [i \in DOMAIN all |-> QuestionCut[all[i]]]
  BY DEF OpenQuestions, X
<1> HIDE DEF all
<1>8. OpenQuestions(rows) \in Seq(Cuts) /\ Len(OpenQuestions(rows)) = Len(all)
  <2>1. Len(all) \in Nat /\ DOMAIN all = 1..Len(all) /\ \A i \in 1..Len(all) : all[i] \in Question
    BY <1>5
  <2>2. \A i \in 1..Len(all) : QuestionCut[all[i]] \in Cuts
    BY <2>1 DEF Cuts
  <2> DEFINE cut == [i \in DOMAIN all |-> QuestionCut[all[i]]]
  <2>3. cut \in [1..Len(all) -> Cuts]
    BY <2>1, <2>2
  <2> HIDE DEF cut
  <2>4. cut \in Seq(Cuts) /\ Len(cut) = Len(all)
    BY <2>1, <2>3, SeqIs
  <2> QED  BY <1>7, <2>4 DEF cut
<1>9. FailedApproaches(rows) = << >> \/ FailedApproaches(rows) = Distinct(FlattenSeq(Y), MaxFailed)
  BY DEF FailedApproaches, Y
<1>10. << >> \in Seq(Seq(Line)) /\ Len(<< >>) <= MaxFailed
  BY <1>1
<1> QED  BY <1>5, <1>6, <1>8, <1>9, <1>10, Zenon

(* The files are touched, and there are no more than the list holds. *)
LEMMA FilesType ==
  ASSUME SectionsAssumption, NEW n \in Nat, NEW rows \in [1..n -> Record],
         NEW files \in RecentFiles(rows)
  PROVE  files \in Seq(Path) /\ Len(files) <= MaxPaths
<1>1. PICK l \in SetToSeqs(Touched(rows)) :
        files = SubSeq(l, 1, IF Len(l) < MaxPaths THEN Len(l) ELSE MaxPaths)
  BY DEF RecentFiles
<1>2. Touched(rows) \subseteq Path
  <2>1. \A i \in 1..n : rows[i].paths \subseteq Path
    BY DEF SectionsAssumption, RecordType
  <2> QED  BY <2>1 DEF Touched
<1>3. Cardinality(Touched(rows)) \in Nat
  <2>1. IsFiniteSet(Path)
    BY DEF SectionsAssumption
  <2> QED  BY <1>2, <2>1, FS_Subset, FS_CardinalityType
<1> DEFINE c == Cardinality(Touched(rows))
<1>4. l \in [1..c -> Path]
  BY <1>2 DEF SetToSeqs
<1> HIDE DEF c
<1>5. l \in Seq(Path) /\ Len(l) = c
  BY <1>3, <1>4, SeqIs DEF c
<1>6. MaxPaths \in Nat
  BY DEF SectionsAssumption
<1> DEFINE m == IF Len(l) < MaxPaths THEN Len(l) ELSE MaxPaths
<1>7. m \in 0..Len(l) /\ m <= MaxPaths
  BY <1>5, <1>6
<1> HIDE DEF m
<1>8. SubSeq(l, 1, m) \in Seq(Path) /\ Len(SubSeq(l, 1, m)) = m
  BY <1>5, <1>7
<1>9. files = SubSeq(l, 1, m)
  BY <1>1 DEF m
<1> QED  BY <1>7, <1>8, <1>9
-----------------------------------------------------------------------------
(***************************************************************************)
(* Rows of the records 1 to top say what those records say, once each.     *)
(***************************************************************************)

LEMMA QuestionsReread ==
  ASSUME NEW n \in Nat, NEW top \in Nat, NEW rec, Telling(rec, n, top), NEW t, DOMAIN t = 1..top,
         MaxQuestions \in Nat, \A a \in 1..top : Asks(t[a]) \in Seq(Question)
  PROVE  OpenQuestions(RowsOf(t, rec, n)) = OpenQuestions(t)
<1> DEFINE rows == RowsOf(t, rec, n)
           X    == [i \in DOMAIN rows |-> Asks(rows[i])]
           Y    == [i \in DOMAIN t |-> Asks(t[i])]
<1>1. rec \in [1..n -> 1..top]
  BY DEF Telling
<1>2. Y \in [1..top -> Seq(Question)]
  OBVIOUS
<1>3. X = RowsOf(Y, rec, n)
  BY <1>1 DEF RowsOf
<1>4. /\ OpenQuestions(rows) = LET all == Distinct(FlattenSeq(X), MaxQuestions)
                               IN  [i \in DOMAIN all |-> QuestionCut[all[i]]]
      /\ OpenQuestions(t) = LET all == Distinct(FlattenSeq(Y), MaxQuestions)
                            IN  [i \in DOMAIN all |-> QuestionCut[all[i]]]
  BY DEF OpenQuestions
<1> HIDE DEF rows, X, Y
<1>5. Distinct(FlattenSeq(X), MaxQuestions) = Distinct(FlattenSeq(Y), MaxQuestions)
  BY <1>2, <1>3, Reread
<1>6. OpenQuestions(rows) = OpenQuestions(t)
  BY <1>4, <1>5
<1> QED  BY <1>6 DEF rows

LEMMA FailedReread ==
  ASSUME NEW n \in Nat, NEW top \in Nat, NEW rec, Telling(rec, n, top), NEW t, DOMAIN t = 1..top,
         MaxFailed \in Nat, \A a \in 1..top : Fails(t[a]) \in Seq(Seq(Line))
  PROVE  FailedApproaches(RowsOf(t, rec, n)) = FailedApproaches(t)
<1> DEFINE rows == RowsOf(t, rec, n)
           X    == [i \in DOMAIN rows |-> Fails(rows[i])]
           Y    == [i \in DOMAIN t |-> Fails(t[i])]
<1>1. rec \in [1..n -> 1..top] /\ \A a \in 1..top : \E k \in 1..n : rec[k] = a
  BY DEF Telling
<1>2. Y \in [1..top -> Seq(Seq(Line))]
  OBVIOUS
<1>3. X = RowsOf(Y, rec, n)
  BY <1>1 DEF RowsOf
<1>4. (\A i \in DOMAIN rows : ~rows[i].calls) <=> (\A i \in DOMAIN t : ~t[i].calls)
  <2>1. \A i \in 1..n : rows[i] = t[rec[i]] /\ rec[i] \in 1..top
    BY <1>1 DEF RowsOf
  <2>2. DOMAIN rows = 1..n /\ DOMAIN t = 1..top
    BY DEF RowsOf
  <2> HIDE DEF rows
  <2>3. ASSUME \A i \in 1..n : ~rows[i].calls, NEW a \in 1..top PROVE ~t[a].calls
    <3>1. PICK k \in 1..n : rec[k] = a
      BY <1>1
    <3>2. ~rows[k].calls
      BY <2>3
    <3>3. rows[k] = t[a]
      BY <2>1, <3>1
    <3> QED  BY <3>2, <3>3, Zenon
  <2>4. ASSUME \A a \in 1..top : ~t[a].calls, NEW i \in 1..n PROVE ~rows[i].calls
    <3>1. ~t[rec[i]].calls
      BY <2>1, <2>4
    <3> QED  BY <2>1, <3>1, Zenon
  <2> QED  BY <2>2, <2>3, <2>4, Zenon
<1>5. /\ FailedApproaches(rows) = IF \A i \in DOMAIN rows : ~rows[i].calls THEN << >>
                                  ELSE Distinct(FlattenSeq(X), MaxFailed)
      /\ FailedApproaches(t) = IF \A i \in DOMAIN t : ~t[i].calls THEN << >>
                               ELSE Distinct(FlattenSeq(Y), MaxFailed)
  BY DEF FailedApproaches
<1> HIDE DEF rows, X, Y
<1>6. Distinct(FlattenSeq(X), MaxFailed) = Distinct(FlattenSeq(Y), MaxFailed)
  BY <1>2, <1>3, Reread
<1>7. FailedApproaches(rows) = FailedApproaches(t)
  <2>1. CASE \A i \in DOMAIN t : ~t[i].calls
    BY <1>4, <1>5, <2>1, Zenon
  <2>2. CASE ~(\A i \in DOMAIN t : ~t[i].calls)
    BY <1>4, <1>5, <1>6, <2>2, Zenon
  <2> QED  BY <2>1, <2>2
<1> QED  BY <1>7 DEF rows

(* The last row that touches a file is of the last record that does. *)
LEMMA LastTouchReread ==
  ASSUME NEW n \in Nat, NEW top \in Nat, NEW rec, Telling(rec, n, top),
         NEW t, DOMAIN t = 1..top, NEW f \in Touched(t)
  PROVE  /\ LastTouch(RowsOf(t, rec, n), f) \in 1..n
         /\ rec[LastTouch(RowsOf(t, rec, n), f)] = LastTouch(t, f)
         /\ \A j \in 1..n : f \in t[rec[j]].paths => j <= LastTouch(RowsOf(t, rec, n), f)
<1> DEFINE rows == RowsOf(t, rec, n)
           S == { k \in 1..n : f \in t[rec[k]].paths }
           A == { a \in 1..top : f \in t[a].paths }
<1>1. /\ rec \in [1..n -> 1..top] /\ \A a \in 1..top : \E k \in 1..n : rec[k] = a
      /\ \A k \in 1..n, b \in 1..top : rec[k] < b => \E j \in 1..n : k < j /\ rec[j] = b
  BY DEF Telling
<1>2. LastTouch(rows, f) = Greatest(S) /\ LastTouch(t, f) = Greatest(A)
  BY DEF LastTouch, RowsOf
<1>3. A # {} /\ A \in SUBSET (1..top) /\ S \in SUBSET (1..n)
  BY DEF Touched
<1>4. S # {}
  BY <1>1, <1>3
<1>5. \A k \in S : rec[k] \in A
  BY <1>1
<1>6. \A k \in 1..n : rec[k] \in A => k \in S
  OBVIOUS
<1> HIDE DEF S, A, rows
<1>7. Greatest(S) \in S /\ \A j \in S : j <= Greatest(S)
  BY <1>3, <1>4, GreatestIn
<1>8. Greatest(A) \in A /\ \A j \in A : j <= Greatest(A)
  BY <1>3, GreatestIn
<1> DEFINE k == Greatest(S)
           a == Greatest(A)
<1>9. k \in 1..n /\ a \in 1..top /\ rec[k] \in 1..top /\ rec[k] <= a
  BY <1>1, <1>3, <1>5, <1>7, <1>8
<1>10. ~(rec[k] < a)
  <2> SUFFICES ASSUME rec[k] < a PROVE FALSE
    OBVIOUS
  <2>1. PICK j \in 1..n : k < j /\ rec[j] = a
    BY <1>1, <1>9
  <2>2. j \in S
    BY <1>6, <1>8, <2>1
  <2> HIDE DEF k
  <2>3. j <= k
    BY <1>7, <2>2 DEF k
  <2> QED  BY <1>9, <2>1, <2>3
<1>11. rec[k] = a
  <2> HIDE DEF k, a
  <2> QED  BY <1>9, <1>10
<1>12. \A j \in 1..n : f \in t[rec[j]].paths => j <= k
  BY <1>7 DEF S
<1> QED  BY <1>2, <1>9, <1>11, <1>12 DEF rows

LEMMA FilesReread ==
  ASSUME NEW n \in Nat, NEW top \in Nat, NEW rec, Telling(rec, n, top),
         NEW t, DOMAIN t = 1..top
  PROVE  RecentFiles(RowsOf(t, rec, n)) \subseteq RecentFiles(t)
<1> DEFINE rows == RowsOf(t, rec, n)
           Sorted(r, l) == \A i, j \in DOMAIN l : i < j => LastTouch(r, l[i]) >= LastTouch(r, l[j])
           Cut(l) == SubSeq(l, 1, IF Len(l) < MaxPaths THEN Len(l) ELSE MaxPaths)
<1>1. /\ rec \in [1..n -> 1..top] /\ \A a \in 1..top : \E k \in 1..n : rec[k] = a
      /\ \A k \in 1..n, b \in 1..top : rec[k] < b => \E j \in 1..n : k < j /\ rec[j] = b
  BY DEF Telling
<1>2. Touched(rows) = Touched(t)
  <2>1. DOMAIN rows = 1..n /\ \A k \in 1..n : rows[k] = t[rec[k]] /\ rec[k] \in 1..top
    BY <1>1 DEF RowsOf
  <2> HIDE DEF rows
  <2>2. \A f \in Touched(rows) : f \in Touched(t)
    BY <2>1 DEF Touched
  <2>3. \A f \in Touched(t) : f \in Touched(rows)
    BY <1>1, <2>1 DEF Touched
  <2> QED  BY <2>2, <2>3
<1>3. /\ RecentFiles(rows) = { Cut(l) : l \in { x \in SetToSeqs(Touched(rows)) : Sorted(rows, x) } }
      /\ RecentFiles(t) = { Cut(l) : l \in { x \in SetToSeqs(Touched(t)) : Sorted(t, x) } }
  BY DEF RecentFiles
<1>4. ASSUME NEW f \in Touched(t), NEW g \in Touched(t), LastTouch(rows, f) >= LastTouch(rows, g)
      PROVE  LastTouch(t, f) >= LastTouch(t, g)
  <2> DEFINE k == LastTouch(rows, f)
             m == LastTouch(rows, g)
  <2>1. /\ k \in 1..n /\ rec[k] = LastTouch(t, f)
        /\ \A j \in 1..n : f \in t[rec[j]].paths => j <= k
    BY LastTouchReread
  <2>2. /\ m \in 1..n /\ rec[m] = LastTouch(t, g)
        /\ \A j \in 1..n : g \in t[rec[j]].paths => j <= m
    BY LastTouchReread
  <2>3. m <= k
    BY <1>4, <2>1, <2>2
  <2>4. g \in t[LastTouch(t, g)].paths /\ LastTouch(t, g) \in 1..top
    <3> DEFINE A == { a \in 1..top : g \in t[a].paths }
    <3>1. A # {} /\ A \in SUBSET (1..top) /\ LastTouch(t, g) = Greatest(A)
      BY DEF Touched, LastTouch
    <3> HIDE DEF A
    <3>2. LastTouch(t, g) \in A
      BY <3>1, GreatestIn
    <3> QED  BY <3>2 DEF A
  <2> HIDE DEF k, m
  <2>5. ~(rec[k] < rec[m])
    <3> SUFFICES ASSUME rec[k] < rec[m] PROVE FALSE
      OBVIOUS
    <3>1. PICK j \in 1..n : k < j /\ rec[j] = rec[m]
      BY <1>1, <2>1, <2>2
    <3>2. j <= m
      BY <2>2, <2>4, <3>1
    <3> QED  BY <2>1, <2>2, <2>3, <3>1, <3>2
  <2>6. rec[k] \in 1..top /\ rec[m] \in 1..top
    BY <1>1, <2>1, <2>2
  <2>7. rec[k] >= rec[m]
    BY <2>5, <2>6
  <2> QED  BY <2>1, <2>2, <2>7
<1>5. ASSUME NEW l \in SetToSeqs(Touched(t)), Sorted(rows, l) PROVE Sorted(t, l)
  <2>1. \A i \in DOMAIN l : l[i] \in Touched(t)
    BY DEF SetToSeqs
  <2> HIDE DEF rows
  <2> QED  BY <1>4, <1>5, <2>1
<1> HIDE DEF rows, Sorted, Cut
<1>6. RecentFiles(rows) \subseteq RecentFiles(t)
  BY <1>2, <1>3, <1>5
<1> QED  BY <1>6 DEF rows
-----------------------------------------------------------------------------
(***************************************************************************)
(* The handoff.                                                            *)
(***************************************************************************)

Once(list) == \A i, j \in 1..Len(list) : list[i] = list[j] => i = j

(* A section that tells each entry once still does, of the old and the new. *)
LEMMA AccumulateOnce ==
  ASSUME NEW V, NEW list \in Seq(V), Once(list), NEW value
  PROVE  /\ Once(Accumulate(list, value))
         /\ \A x : Contains(list, x) => Contains(Accumulate(list, value), x)
         /\ value # None => Contains(Accumulate(list, value), value)
<1>1. CASE value = None \/ Contains(list, value)
  <2>1. Accumulate(list, value) = list
    BY <1>1 DEF Accumulate
  <2> QED  BY <1>1, <2>1
<1>2. CASE ~(value = None \/ Contains(list, value))
  <2> DEFINE new == <<value>> \o list
             n   == Len(list)
  <2>1. Accumulate(list, value) = new
    BY <1>2 DEF Accumulate
  <2>2. n \in Nat /\ Len(new) = n + 1 /\ new[1] = value /\ \A i \in 1..n : new[i + 1] = list[i]
    <3>1. <<value>> \in Seq(V \cup {value}) /\ list \in Seq(V \cup {value})
      OBVIOUS
    <3> QED  BY <3>1
  <2>3. \A i \in 1..n : list[i] # value
    BY <1>2 DEF Contains
  <2>4. \A i, j \in 1..n : list[i] = list[j] => i = j
    BY DEF Once
  <2> HIDE DEF new, n
  <2>5. \A i \in 2..(n + 1) : i - 1 \in 1..n /\ new[i] = list[i - 1]
    <3> SUFFICES ASSUME NEW i \in 2..(n + 1) PROVE i - 1 \in 1..n /\ new[i] = list[i - 1]
      OBVIOUS
    <3>1. i - 1 \in 1..n /\ (i - 1) + 1 = i
      BY <2>2
    <3> QED  BY <2>2, <3>1
  <2>6. Once(new)
    <3> SUFFICES ASSUME NEW i \in 1..(n + 1), NEW j \in 1..(n + 1), new[i] = new[j] PROVE i = j
      BY <2>2 DEF Once
    <3>1. CASE i = 1 \/ j = 1
      <4>1. i # 1 => i \in 2..(n + 1)
        BY <2>2
      <4>2. j # 1 => j \in 2..(n + 1)
        BY <2>2
      <4> QED  BY <2>2, <2>3, <2>5, <3>1, <4>1, <4>2
    <3>2. CASE i # 1 /\ j # 1
      <4>1. i \in 2..(n + 1) /\ j \in 2..(n + 1)
        BY <2>2, <3>2
      <4>2. list[i - 1] = list[j - 1] /\ i - 1 \in 1..n /\ j - 1 \in 1..n
        BY <2>5, <4>1
      <4>3. i - 1 = j - 1
        BY <2>4, <4>2
      <4> QED  BY <4>3
    <3> QED  BY <3>1, <3>2
  <2>7. ASSUME NEW x, Contains(list, x) PROVE Contains(new, x)
    <3>1. PICK i \in 1..n : list[i] = x
      BY <2>7 DEF Contains, n
    <3>2. i + 1 \in 1..(n + 1) /\ new[i + 1] = x
      BY <2>2, <3>1
    <3> QED  BY <2>2, <3>2 DEF Contains
  <2>8. Contains(new, value)
    <3>1. 1 \in 1..(n + 1)
      BY <2>2
    <3> QED  BY <2>2, <3>1 DEF Contains
  <2> QED  BY <2>1, <2>6, <2>7, <2>8
<1> QED  BY <1>1, <1>2

LEMMA TimesOne ==
  ASSUME NEW V, NEW list \in Seq(V), Once(list), NEW v, Contains(list, v)
  PROVE  Times(list, v) = 1
<1>1. PICK i \in 1..Len(list) : list[i] = v
  BY DEF Contains
<1>2. { j \in DOMAIN list : list[j] = v } = {i}
  BY <1>1 DEF Once
<1>3. Cardinality({i}) = 1
  BY FS_Singleton
<1> QED  BY <1>2, <1>3 DEF Times

(* Each section is a sequence of what it may list, within its cap. *)
SheetKind ==
  [from : Session \cup {None}, task : Seq(Tasks), next : Seq(Nexts), questions : Seq(Cuts),
   failed : Seq(Seq(Line)), files : Seq(Path), activity : Activity \cup {None}]

SheetOK ==
  /\ sheet \in SheetKind
  /\ Len(sheet.questions) <= MaxQuestions /\ Len(sheet.failed) <= MaxFailed
  /\ Len(sheet.files) <= MaxPaths

(* The two sections in which entries pile up have what they should have. *)
Listed ==
  /\ Once(sheet.task) /\ Once(sheet.next)
  /\ \A s \in Session, i \in Nat :
       /\ FirstPrompt(Told(s), shown[s], i) => Contains(sheet.task, TaskOf(Told(s)[i]))
       /\ LastAnswer(Told(s), shown[s], i) => Contains(sheet.next, NextOf(Told(s)[i]))

(* The lists are those of the session that was published last. *)
Reflects ==
  sheet # Blank =>
    /\ sheet.from \in Session
    /\ sheet.questions = OpenQuestions(Told(sheet.from))
    /\ sheet.failed = FailedApproaches(Told(sheet.from))
    /\ sheet.files \in RecentFiles(Told(sheet.from))

(* What publishing s does: the n rows of its first top records, rec[k] the record
   of the kth, make the sections. *)
Publishing(s, n, top, rec, files, scan) ==
  /\ s \in Session /\ n \in Nat /\ top \in Nat /\ Telling(rec, n, top)
  /\ shown[s] <= top /\ top <= Len(said[s])
  /\ said' = said /\ shown' = [shown EXCEPT ![s] = top]
  /\ Told(s)' \in [1..top -> Record] /\ \A i \in 1..top : Told(s)'[i] = said[s][i]
  /\ RowsOf(Told(s)', rec, n) \in [1..n -> Record]
  /\ files \in RecentFiles(RowsOf(Told(s)', rec, n)) /\ scan \in Activity \cup {None}
  /\ sheet' = [from      |-> s,
               task      |-> Accumulate(sheet.task, Task(RowsOf(Told(s)', rec, n))),
               next      |-> Accumulate(sheet.next, NextAction(RowsOf(Told(s)', rec, n))),
               questions |-> OpenQuestions(RowsOf(Told(s)', rec, n)),
               failed    |-> FailedApproaches(RowsOf(Told(s)', rec, n)),
               files     |-> files,
               activity  |-> IF scan = None THEN sheet.activity ELSE scan]

LEMMA SubSeqIs ==
  ASSUME NEW V, NEW q \in Seq(V), NEW m \in 0..Len(q)
  PROVE  /\ SubSeq(q, 1, m) \in [1..m -> V] /\ SubSeq(q, 1, m) \in Seq(V) /\ Len(SubSeq(q, 1, m)) = m
         /\ \A i \in 1..m : SubSeq(q, 1, m)[i] = q[i]
<1>1. SubSeq(q, 1, m) \in Seq(V) /\ Len(SubSeq(q, 1, m)) = m
  OBVIOUS
<1>2. \A i \in 1..m : SubSeq(q, 1, m)[i] = q[i]
  OBVIOUS
<1> DEFINE b == SubSeq(q, 1, m)
<1>3. b \in [1..m -> V]
  <2> HIDE DEF b
  <2>1. b \in Seq(V) /\ Len(b) = m
    BY <1>1 DEF b
  <2> QED  BY <2>1
<1> QED  BY <1>1, <1>2, <1>3

LEMMA Publishes ==
  ASSUME SectionsAssumption, Ledgers, Publish
  PROVE  \E s, n, top, rec, files, scan : Publishing(s, n, top, rec, files, scan)
<1>1. /\ pc = "publish" /\ cur \in Session /\ ledger[cur] # << >> /\ ledger[cur] \in Seq(Nat)
      /\ said[cur] \in Seq(Record) /\ Len(said[cur]) <= MaxRecords
      /\ shown \in [Session -> Nat]
  BY DEF Publish, Ledgers
<1>2. PICK top \in 0..Len(said[cur]) : Holds(cur, top)
  BY <1>1 DEF Ledgers
<1> DEFINE n == Len(ledger[cur])
           t == SubSeq(said[cur], 1, top)
<1>3. top \in Nat /\ Telling(ledger[cur], n, top) /\ shown[cur] <= top /\ top \in 0..MaxRecords
  <2>1. MaxRecords \in Nat /\ Len(said[cur]) \in Nat
    BY <1>1 DEF SectionsAssumption
  <2> QED  BY <1>1, <1>2, <2>1 DEF Holds
<1>4. PICK rec : /\ Telling(rec, n, top)
                 /\ Query(cur) = [k \in 1..n |-> said[cur][rec[k]]]
  BY <1>1, <1>3, QueryTells, ZenonT(30)
<1>5. rec \in [1..n -> 1..top] /\ n \in Nat
  BY <1>4 DEF Telling
<1>6. t \in [1..top -> Record] /\ \A i \in 1..top : t[i] = said[cur][i]
  BY <1>1, SubSeqIs
<1>7. /\ said' = said
      /\ shown' = [shown EXCEPT ![cur] = Greatest(ToSet(ledger[cur]))]
  BY DEF Publish
<1>8. shown' = [shown EXCEPT ![cur] = top]
  <2>1. Greatest(ToSet(ledger[cur])) = top
    BY <1>1, <1>3, TellingTop
  <2> QED  BY <1>7, <2>1
<1> HIDE DEF t
<1>9. Query(cur) = RowsOf(t, rec, n)
  <2>1. \A k \in 1..n : said[cur][rec[k]] = t[rec[k]]
    BY <1>5, <1>6
  <2> HIDE DEF n
  <2> QED  BY <1>4, <2>1 DEF RowsOf
<1>10. RowsOf(t, rec, n) \in [1..n -> Record]
  <2>1. \A k \in 1..n : t[rec[k]] \in Record
    BY <1>5, <1>6
  <2> HIDE DEF n
  <2> QED  BY <2>1 DEF RowsOf
<1>11. PICK files \in RecentFiles(Query(cur)), scan \in Activity \cup {None} :
         sheet' = [from      |-> cur,
                   task      |-> Accumulate(sheet.task, Task(Query(cur))),
                   next      |-> Accumulate(sheet.next, NextAction(Query(cur))),
                   questions |-> OpenQuestions(Query(cur)),
                   failed    |-> FailedApproaches(Query(cur)),
                   files     |-> files,
                   activity  |-> IF scan = None THEN sheet.activity ELSE scan]
  BY Zenon DEF Publish
<1>12. PICK x \in Session : x = cur
  BY <1>1
<1>13. Told(x)' = t
  <2>1. shown'[x] = top
    BY <1>1, <1>8, <1>12
  <2>2. Told(x)' = SubSeq(said'[x], 1, shown'[x])
    BY DEF Told
  <2> QED  BY <1>7, <1>12, <2>1, <2>2 DEF t
<1>14. shown[x] <= top /\ top <= Len(said[x])
  BY <1>1, <1>3, <1>12
<1> HIDE DEF n, t
<1>15. Publishing(x, n, top, rec, files, scan)
  BY <1>3, <1>4, <1>5, <1>6, <1>7, <1>8, <1>9, <1>10, <1>11, <1>12, <1>13, <1>14, Zenon DEF Publishing
<1> QED  BY <1>15

(* What was told of a session is told again unless the session is published. *)
LEMMA SaidGrows ==
  ASSUME Ledgers, [Next]_vars, NEW s \in Session
  PROVE  /\ said[s] \in Seq(Record) /\ said'[s] \in Seq(Record)
         /\ Len(said[s]) <= Len(said'[s]) /\ \A i \in 1..Len(said[s]) : said'[s][i] = said[s][i]
<1>1. said \in [Session -> Seq(Record)] /\ said[s] \in Seq(Record)
  BY DEF Ledgers
<1>2. CASE said' = said
  BY <1>1, <1>2
<1>3. CASE \E x \in Session, r \in Record : Say(x, r)
  <2>1. PICK x \in Session, r \in Record : said' = [said EXCEPT ![x] = Append(@, r)]
    BY <1>3 DEF Say
  <2>2. said'[s] = said[s] \/ said'[s] = Append(said[s], r)
    BY <1>1, <2>1
  <2>3. /\ Append(said[s], r) \in Seq(Record) /\ Len(Append(said[s], r)) = Len(said[s]) + 1
        /\ Len(said[s]) \in Nat /\ \A i \in 1..Len(said[s]) : Append(said[s], r)[i] = said[s][i]
    BY <1>1
  <2>4. CASE said'[s] = said[s]
    BY <1>1, <2>4
  <2>5. CASE said'[s] = Append(said[s], r)
    BY <1>1, <2>3, <2>5
  <2> QED  BY <2>2, <2>4, <2>5
<1> QED  BY <1>2, <1>3 DEF Next, Insert, Rescan, SaveCursor, Publish, RefreshActivity, CutShort, vars

LEMMA ToldIs ==
  ASSUME Ledgers, NEW s \in Session
  PROVE  /\ shown[s] \in 0..Len(said[s]) /\ Told(s) \in [1..shown[s] -> Record]
         /\ Told(s) \in Seq(Record) /\ Len(Told(s)) = shown[s]
         /\ \A i \in 1..shown[s] : Told(s)[i] = said[s][i]
<1>1. said[s] \in Seq(Record) /\ shown[s] \in Nat
  BY DEF Ledgers
<1>2. PICK top \in 0..Len(said[s]) : Holds(s, top)
  BY DEF Ledgers
<1>3. shown[s] \in 0..Len(said[s])
  BY <1>1, <1>2 DEF Holds
<1> QED  BY <1>1, <1>3, SubSeqIs DEF Told

(* Two sequences with the same elements are the same. *)
LEMMA SameFunction ==
  ASSUME NEW V, NEW m \in Nat, NEW f \in [1..m -> V], NEW g \in [1..m -> V],
         \A i \in 1..m : f[i] = g[i]
  PROVE  f = g
OBVIOUS

LEMMA ToldKept ==
  ASSUME Ledgers, Ledgers', [Next]_vars, NEW s \in Session, shown'[s] = shown[s]
  PROVE  Told(s)' = Told(s)
<1>1. /\ shown[s] \in 0..Len(said[s]) /\ Told(s) \in [1..shown[s] -> Record]
      /\ \A i \in 1..shown[s] : Told(s)[i] = said[s][i]
  BY ToldIs
<1>2. /\ said[s] \in Seq(Record) /\ said'[s] \in Seq(Record)
      /\ Len(said[s]) <= Len(said'[s]) /\ \A i \in 1..Len(said[s]) : said'[s][i] = said[s][i]
  BY SaidGrows
<1>3. Len(said[s]) \in Nat /\ Len(said'[s]) \in Nat
  BY <1>2
<1> DEFINE m == shown[s]
           b == SubSeq(said'[s], 1, m)
<1>4. m \in 0..Len(said'[s]) /\ m \in Nat
  BY <1>1, <1>2, <1>3
<1>5. b \in [1..m -> Record] /\ \A i \in 1..m : b[i] = said'[s][i]
  <2> HIDE DEF m
  <2> QED  BY <1>2, <1>4, SubSeqIs
<1>6. \A i \in 1..m : b[i] = Told(s)[i]
  BY <1>1, <1>2, <1>3, <1>5
<1>7. Told(s)' = b
  BY DEF Told
<1>8. Told(s) \in [1..m -> Record]
  BY <1>1
<1> HIDE DEF b, m
<1>9. b = Told(s)
  BY <1>4, <1>5, <1>6, <1>8, SameFunction, ZenonT(30)
<1> QED  BY <1>7, <1>9

LEMMA OtherSteps ==
  ASSUME [Next]_vars, ~Publish, ~RefreshActivity PROVE UNCHANGED <<sheet, shown>>
BY DEF Next, Say, Insert, Rescan, SaveCursor, CutShort, vars

(* Of the handoff, refreshing changes the activity only. *)
LEMMA Refreshes ==
  ASSUME SheetOK, RefreshActivity
  PROVE  /\ sheet' \in SheetKind /\ sheet # Blank /\ shown' = shown
         /\ sheet'.from = sheet.from /\ sheet'.task = sheet.task /\ sheet'.next = sheet.next
         /\ sheet'.questions = sheet.questions /\ sheet'.failed = sheet.failed
         /\ sheet'.files = sheet.files
<1>1. PICK scan \in Activity : sheet' = [sheet EXCEPT !.activity = scan]
  BY DEF RefreshActivity
<1>2. sheet \in SheetKind
  BY DEF SheetOK
<1> QED  BY <1>1, <1>2 DEF SheetKind, RefreshActivity

LEMMA SheetInit == ASSUME SectionsAssumption, Init PROVE SheetOK
<1>1. sheet = Blank /\ MaxQuestions \in Nat /\ MaxFailed \in Nat /\ MaxPaths \in Nat
  BY DEF Init, SectionsAssumption
<1>2. Blank \in SheetKind
  BY DEF Blank, SheetKind
<1>3. Len(Blank.questions) = 0 /\ Len(Blank.failed) = 0 /\ Len(Blank.files) = 0
  BY DEF Blank
<1> QED  BY <1>1, <1>2, <1>3 DEF SheetOK

LEMMA AccumulateType ==
  ASSUME NEW V, NEW list \in Seq(V), NEW value \in V \cup {None}
  PROVE  Accumulate(list, value) \in Seq(V)
<1>1. CASE value = None \/ Contains(list, value)
  BY <1>1 DEF Accumulate
<1>2. CASE ~(value = None \/ Contains(list, value))
  <2>1. value \in V /\ Accumulate(list, value) = <<value>> \o list
    BY <1>2 DEF Accumulate
  <2>2. <<value>> \in Seq(V)
    BY <2>1
  <2> QED  BY <2>1, <2>2
<1> QED  BY <1>1, <1>2

LEMMA SheetStep ==
  ASSUME SectionsAssumption, Ledgers, SheetOK, [Next]_vars PROVE SheetOK'
<1>1. CASE Publish
  <2>1. PICK s, n, top, rec, files, scan : Publishing(s, n, top, rec, files, scan)
    BY <1>1, Publishes
  <2> DEFINE rows == RowsOf(Told(s)', rec, n)
  <2>2. n \in Nat /\ rows \in [1..n -> Record] /\ files \in RecentFiles(rows) /\ s \in Session
    BY <2>1 DEF Publishing
  <2>3. /\ sheet'.from = s /\ sheet'.files = files
        /\ sheet' = [from      |-> s,
                     task      |-> Accumulate(sheet.task, Task(rows)),
                     next      |-> Accumulate(sheet.next, NextAction(rows)),
                     questions |-> OpenQuestions(rows),
                     failed    |-> FailedApproaches(rows),
                     files     |-> files,
                     activity  |-> IF scan = None THEN sheet.activity ELSE scan]
    BY <2>1 DEF Publishing
  <2>4. /\ sheet.task \in Seq(Tasks) /\ sheet.next \in Seq(Nexts)
        /\ sheet.activity \in Activity \cup {None}
    BY DEF SheetOK, SheetKind
  <2> HIDE DEF rows
  <2>5. Accumulate(sheet.task, Task(rows)) \in Seq(Tasks)
    BY <2>2, <2>4, TaskType, AccumulateType
  <2>6. Accumulate(sheet.next, NextAction(rows)) \in Seq(Nexts)
    BY <2>2, <2>4, NextType, AccumulateType
  <2>7. /\ OpenQuestions(rows) \in Seq(Cuts) /\ Len(OpenQuestions(rows)) <= MaxQuestions
        /\ FailedApproaches(rows) \in Seq(Seq(Line)) /\ Len(FailedApproaches(rows)) <= MaxFailed
    BY <2>2, ListsType
  <2>8. files \in Seq(Path) /\ Len(files) <= MaxPaths
    BY <2>2, FilesType
  <2> DEFINE act == IF scan = None THEN sheet.activity ELSE scan
  <2>9. act \in Activity \cup {None}
    BY <2>1, <2>4 DEF Publishing
  <2>10. sheet' \in SheetKind
    <3> HIDE DEF act
    <3>1. sheet' = [from      |-> s,
                    task      |-> Accumulate(sheet.task, Task(rows)),
                    next      |-> Accumulate(sheet.next, NextAction(rows)),
                    questions |-> OpenQuestions(rows),
                    failed    |-> FailedApproaches(rows),
                    files     |-> files,
                    activity  |-> act]
      BY <2>3 DEF act
    <3> QED  BY <2>2, <2>5, <2>6, <2>7, <2>8, <2>9, <3>1 DEF SheetKind
  <2>11. sheet'.questions = OpenQuestions(rows) /\ sheet'.failed = FailedApproaches(rows)
    BY <2>3
  <2> QED  BY <2>3, <2>7, <2>8, <2>10, <2>11 DEF SheetOK
<1>2. CASE RefreshActivity
  BY <1>2, Refreshes DEF SheetOK
<1>3. CASE UNCHANGED <<sheet, shown>>
  BY <1>3 DEF SheetOK
<1> QED  BY <1>1, <1>2, <1>3, OtherSteps

(* What piles up. *)
LEMMA ListedInit == ASSUME SectionsAssumption, Init PROVE Listed
<1>1. sheet = Blank /\ \A s \in Session : shown[s] = 0
  BY DEF Init
<1>2. Once(Blank.task) /\ Once(Blank.next)
  BY DEF Blank, Once
<1>3. \A s \in Session, i \in Nat : ~FirstPrompt(Told(s), shown[s], i) /\ ~LastAnswer(Told(s), shown[s], i)
  BY <1>1 DEF FirstPrompt, LastAnswer
<1> QED  BY <1>1, <1>2, <1>3 DEF Listed

LEMMA ValueSome ==
  ASSUME SectionsAssumption, NEW r \in Record
  PROVE  /\ Prompt(r) => TaskOf(r) # None
         /\ Answer(r) => NextOf(r) # None
<1>1. \A l \in Line : TaskCut[l] # None /\ <<l>> # None
  BY DEF SectionsAssumption
<1>2. ASSUME Prompt(r) PROVE TaskOf(r) # None
  <2>1. r.text[1] \in Line
    BY <1>2, RecordText DEF Prompt
  <2> QED  BY <1>1, <2>1 DEF TaskOf
<1>3. ASSUME Answer(r) PROVE NextOf(r) # None
  <2>1. r.text \in Seq(Line) /\ Outside(r.text) # {}
    BY <1>3, RecordText DEF Answer
  <2>2. r.text[Least(Outside(r.text))] \in Line
    BY <2>1, OutsideIn
  <2> QED  BY <1>1, <2>2 DEF NextOf
<1> QED  BY <1>2, <1>3

(* Publishing s lists its first prompt and its last answer. *)
LEMMA PublishLists ==
  ASSUME SectionsAssumption, SheetOK, Listed, NEW s, NEW n, NEW top, NEW rec, NEW files, NEW scan,
         Publishing(s, n, top, rec, files, scan), NEW i
  PROVE  /\ FirstPrompt(Told(s)', top, i) => Contains(sheet'.task, TaskOf(Told(s)'[i]))
         /\ LastAnswer(Told(s)', top, i) => Contains(sheet'.next, NextOf(Told(s)'[i]))
<1> DEFINE t    == Told(s)'
           rows == RowsOf(t, rec, n)
<1>1. /\ n \in Nat /\ top \in Nat /\ Telling(rec, n, top) /\ t \in [1..top -> Record]
      /\ rows \in [1..n -> Record] /\ rec \in [1..n -> 1..top]
  BY DEF Publishing, Telling
<1>2. sheet'.task = Accumulate(sheet.task, Task(rows)) /\ sheet'.next = Accumulate(sheet.next, NextAction(rows))
  BY DEF Publishing
<1>3. /\ sheet.task \in Seq(Tasks) /\ sheet.next \in Seq(Nexts)
      /\ Once(sheet.task) /\ Once(sheet.next)
  BY DEF SheetOK, SheetKind, Listed
<1> HIDE DEF t
<1>4. \A k \in 1..n : rows[k] = t[rec[k]]
  BY DEF RowsOf
<1>5. \A k : /\ FirstPrompt(rows, n, k) => Task(rows) = TaskOf(rows[k])
             /\ LastAnswer(rows, n, k) => NextAction(rows) = NextOf(rows[k])
  BY <1>1, TaskTells, NextTells
<1>6. ASSUME FirstPrompt(t, top, i) PROVE Contains(sheet'.task, TaskOf(t[i]))
  <2>1. PICK k \in 1..n : rec[k] = i /\ FirstPrompt(rows, n, k)
    BY <1>1, <1>6, PromptTold
  <2>2. Task(rows) = TaskOf(t[i])
    <3>1. Task(rows) = TaskOf(rows[k])
      BY <1>5, <2>1
    <3>2. rows[k] = t[i]
      BY <1>4, <2>1
    <3> QED  BY <3>1, <3>2, Zenon
  <2>3. t[i] \in Record /\ Prompt(t[i])
    <3>1. i \in 1..top /\ Prompt(t[i])
      BY <1>6, Zenon DEF FirstPrompt
    <3> QED  BY <1>1, <3>1
  <2>4. Task(rows) # None
    BY <2>2, <2>3, ValueSome
  <2>5. Contains(Accumulate(sheet.task, Task(rows)), Task(rows))
    BY <1>3, <2>4, AccumulateOnce
  <2> QED  BY <1>2, <2>2, <2>5
<1>7. ASSUME LastAnswer(t, top, i) PROVE Contains(sheet'.next, NextOf(t[i]))
  <2>1. PICK k \in 1..n : rec[k] = i /\ LastAnswer(rows, n, k)
    BY <1>1, <1>7, AnswerTold
  <2>2. NextAction(rows) = NextOf(t[i])
    <3>1. NextAction(rows) = NextOf(rows[k])
      BY <1>5, <2>1
    <3>2. rows[k] = t[i]
      BY <1>4, <2>1
    <3> QED  BY <3>1, <3>2, Zenon
  <2>3. t[i] \in Record /\ Answer(t[i])
    <3>1. i \in 1..top /\ Answer(t[i])
      BY <1>7, Zenon DEF LastAnswer
    <3> QED  BY <1>1, <3>1
  <2>4. NextAction(rows) # None
    BY <2>2, <2>3, ValueSome
  <2>5. Contains(Accumulate(sheet.next, NextAction(rows)), NextAction(rows))
    BY <1>3, <2>4, AccumulateOnce
  <2> QED  BY <1>2, <2>2, <2>5
<1> QED  BY <1>6, <1>7 DEF t

LEMMA ListedStep ==
  ASSUME SectionsAssumption, Ledgers, Ledgers', SheetOK, Listed, [Next]_vars PROVE Listed'
<1>0. shown \in [Session -> Nat]
  BY DEF Ledgers
<1>1. CASE Publish
  <2>1. PICK s, n, top, rec, files, scan : Publishing(s, n, top, rec, files, scan)
    BY <1>1, Publishes
  <2> DEFINE rows == RowsOf(Told(s)', rec, n)
  <2>2. /\ sheet'.task = Accumulate(sheet.task, Task(rows))
        /\ sheet'.next = Accumulate(sheet.next, NextAction(rows))
        /\ s \in Session /\ shown' = [shown EXCEPT ![s] = top]
    BY <2>1 DEF Publishing
  <2>3. /\ sheet.task \in Seq(Tasks) /\ sheet.next \in Seq(Nexts)
        /\ Once(sheet.task) /\ Once(sheet.next)
    BY DEF SheetOK, SheetKind, Listed
  <2> HIDE DEF rows
  <2>4. Once(sheet'.task) /\ \A x : Contains(sheet.task, x) => Contains(sheet'.task, x)
    BY <2>2, <2>3, AccumulateOnce
  <2>5. Once(sheet'.next) /\ \A x : Contains(sheet.next, x) => Contains(sheet'.next, x)
    BY <2>2, <2>3, AccumulateOnce
  <2>6. ASSUME NEW x \in Session, NEW i \in Nat
        PROVE  /\ FirstPrompt(Told(x)', shown'[x], i) => Contains(sheet'.task, TaskOf(Told(x)'[i]))
               /\ LastAnswer(Told(x)', shown'[x], i) => Contains(sheet'.next, NextOf(Told(x)'[i]))
    <3>1. CASE x = s
      <4>1. shown'[x] = top
        BY <1>0, <2>2, <3>1
      <4>2. Told(x)' = Told(s)'
        BY <3>1, Zenon DEF Told
      <4>3. /\ FirstPrompt(Told(s)', top, i) => Contains(sheet'.task, TaskOf(Told(s)'[i]))
            /\ LastAnswer(Told(s)', top, i) => Contains(sheet'.next, NextOf(Told(s)'[i]))
        BY <2>1, PublishLists
      <4> QED  BY <4>1, <4>2, <4>3, Zenon
    <3>2. CASE x # s
      <4>1. shown'[x] = shown[x]
        BY <1>0, <2>2, <3>2
      <4>2. Told(x)' = Told(x)
        BY <4>1, ToldKept
      <4>3. /\ FirstPrompt(Told(x), shown[x], i) => Contains(sheet.task, TaskOf(Told(x)[i]))
            /\ LastAnswer(Told(x), shown[x], i) => Contains(sheet.next, NextOf(Told(x)[i]))
        BY DEF Listed
      <4> QED  BY <2>4, <2>5, <4>1, <4>2, <4>3, Zenon
    <3> QED  BY <3>1, <3>2
  <2> QED  BY <2>4, <2>5, <2>6 DEF Listed
<1>2. CASE shown' = shown /\ sheet'.task = sheet.task /\ sheet'.next = sheet.next
  <2>1. \A s \in Session : Told(s)' = Told(s)
    BY <1>2, ToldKept
  <2> QED  BY <1>2, <2>1 DEF Listed
<1>3. RefreshActivity => shown' = shown /\ sheet'.task = sheet.task /\ sheet'.next = sheet.next
  BY Refreshes
<1> QED  BY <1>1, <1>2, <1>3, OtherSteps
-----------------------------------------------------------------------------
(* What is made anew. *)
LEMMA PublishReflects ==
  ASSUME MaxQuestions \in Nat, MaxFailed \in Nat, \A r \in Record : Asks(r) \in Seq(Question),
         \A r \in Record : Fails(r) \in Seq(Seq(Line)), NEW s, NEW n, NEW top, NEW rec, NEW files, NEW scan,
         Publishing(s, n, top, rec, files, scan)
  PROVE  /\ s \in Session /\ sheet'.from = s
         /\ sheet'.questions = OpenQuestions(Told(s)')
         /\ sheet'.failed = FailedApproaches(Told(s)')
         /\ sheet'.files \in RecentFiles(Told(s)')
<1> DEFINE t    == Told(s)'
           rows == RowsOf(t, rec, n)
<1>1. /\ n \in Nat /\ top \in Nat /\ Telling(rec, n, top) /\ t \in [1..top -> Record]
      /\ files \in RecentFiles(rows) /\ s \in Session
  BY DEF Publishing
<1>2. /\ sheet'.questions = OpenQuestions(rows) /\ sheet'.failed = FailedApproaches(rows)
      /\ sheet'.files = files /\ sheet'.from = s
  BY DEF Publishing
<1> HIDE DEF t
<1>4. \A a \in 1..top : Asks(t[a]) \in Seq(Question)
  BY <1>1
<1>5. \A a \in 1..top : Fails(t[a]) \in Seq(Seq(Line))
  BY <1>1
<1>6. DOMAIN t = 1..top
  BY <1>1
<1>7. OpenQuestions(rows) = OpenQuestions(t)
  BY <1>1, <1>4, <1>6, QuestionsReread
<1>8. FailedApproaches(rows) = FailedApproaches(t)
  BY <1>1, <1>5, <1>6, FailedReread
<1>9. RecentFiles(rows) \subseteq RecentFiles(t)
  BY <1>1, <1>6, FilesReread
<1> HIDE DEF rows
<1>10. files \in RecentFiles(t)
  BY <1>1, <1>9
<1> QED  BY <1>1, <1>2, <1>7, <1>8, <1>10 DEF t

LEMMA ReflectsStep ==
  ASSUME SectionsAssumption, Ledgers, Ledgers', SheetOK, Reflects, [Next]_vars PROVE Reflects'
<1>1. CASE Publish
  <2>1. PICK s, n, top, rec, files, scan : Publishing(s, n, top, rec, files, scan)
    BY <1>1, Publishes
  <2>2. /\ s \in Session /\ sheet'.from = s
        /\ sheet'.questions = OpenQuestions(Told(s)')
        /\ sheet'.failed = FailedApproaches(Told(s)')
        /\ sheet'.files \in RecentFiles(Told(s)')
    <3>1. MaxQuestions \in Nat /\ MaxFailed \in Nat
      BY DEF SectionsAssumption
    <3>2. \A r \in Record : Asks(r) \in Seq(Question)
      BY AsksType
    <3>3. \A r \in Record : Fails(r) \in Seq(Seq(Line))
      BY FailsType
    <3> QED  BY <2>1, <3>1, <3>2, <3>3, PublishReflects
  <2>3. Told(sheet.from)' = Told(s)'
    BY <2>2, Zenon DEF Told
  <2> QED  BY <2>2, <2>3 DEF Reflects
<1>2. CASE shown' = shown /\ sheet # Blank /\ sheet'.from = sheet.from /\ sheet'.questions = sheet.questions
           /\ sheet'.failed = sheet.failed /\ sheet'.files = sheet.files
  <2>1. sheet.from \in Session
    BY <1>2 DEF Reflects
  <2>2. Told(sheet.from)' = Told(sheet.from)
    <3>1. PICK s \in Session : s = sheet.from
      BY <2>1
    <3>2. Told(s)' = Told(s)
      BY <1>2, ToldKept
    <3>3. Told(sheet.from)' = Told(s)'
      BY <1>2, <3>1, Zenon DEF Told
    <3> QED  BY <3>1, <3>2, <3>3, Zenon
  <2> QED  BY <1>2, <2>1, <2>2 DEF Reflects
<1>3. CASE sheet' = Blank
  BY <1>3 DEF Reflects, Blank
<1>4. RefreshActivity => shown' = shown /\ sheet # Blank /\ sheet'.from = sheet.from
           /\ sheet'.questions = sheet.questions /\ sheet'.failed = sheet.failed /\ sheet'.files = sheet.files
  BY Refreshes
<1>5. CASE UNCHANGED <<sheet, shown>>
  BY <1>2, <1>3, <1>5
<1> QED  BY <1>1, <1>2, <1>4, <1>5, OtherSteps

(* More records leave what the lists have, and put more behind it. *)
LEMMA PrefixIs ==
  ASSUME NEW V, NEW a \in Seq(V), NEW b \in Seq(V)
  PROVE  IsPrefix(a, b) <=> Len(a) <= Len(b) /\ \A i \in 1..Len(a) : a[i] = b[i]
<1> DEFINE m == Len(a)
           p == SubSeq(a, 1, m)
           q == SubSeq(b, 1, m)
<1>1. m \in Nat /\ m \in 0..Len(a) /\ Len(b) \in Nat
  OBVIOUS
<1>2. p \in [1..m -> V] /\ \A i \in 1..m : p[i] = a[i]
  BY <1>1, SubSeqIs
<1>3. ASSUME m <= Len(b) PROVE q \in [1..m -> V] /\ \A i \in 1..m : q[i] = b[i]
  <2>1. m \in 0..Len(b)
    BY <1>1, <1>3
  <2> HIDE DEF m
  <2> QED  BY <2>1, SubSeqIs
<1>4. IsPrefix(a, b) <=> m <= Len(b) /\ p = q
  BY DEF IsPrefix
<1> HIDE DEF m, p, q
<1>5. ASSUME m <= Len(b) PROVE p = q <=> \A i \in 1..m : a[i] = b[i]
  <2>1. q \in [1..m -> V] /\ \A i \in 1..m : q[i] = b[i]
    BY <1>3, <1>5
  <2>2. p = q => \A i \in 1..m : a[i] = b[i]
    BY <1>2, <2>1
  <2>3. ASSUME \A i \in 1..m : a[i] = b[i] PROVE p = q
    <3>1. \A i \in 1..m : p[i] = q[i]
      BY <1>2, <2>1, <2>3
    <3> QED  BY <1>1, <1>2, <2>1, <3>1, SameFunction, ZenonT(30)
  <2> QED  BY <2>2, <2>3
<1> QED  BY <1>4, <1>5 DEF m

LEMMA QuestionsGrow ==
  ASSUME MaxQuestions \in Nat, \A r \in Record : Asks(r) \in Seq(Question),
         NEW m \in Nat, NEW n \in Nat, m <= n,
         NEW t \in [1..m -> Record], NEW u \in [1..n -> Record], \A i \in 1..m : t[i] = u[i]
  PROVE  IsPrefix(OpenQuestions(t), OpenQuestions(u))
<1> DEFINE X == [i \in DOMAIN t |-> Asks(t[i])]
           Y == [i \in DOMAIN u |-> Asks(u[i])]
           a == Distinct(FlattenSeq(X), MaxQuestions)
           b == Distinct(FlattenSeq(Y), MaxQuestions)
           cut(d) == [i \in DOMAIN d |-> QuestionCut[d[i]]]
<1>1. /\ X \in [1..m -> Seq(Question)] /\ Y \in [1..n -> Seq(Question)]
      /\ \A i \in 1..m : X[i] = Y[i]
  OBVIOUS
<1>2. OpenQuestions(t) = cut(a) /\ OpenQuestions(u) = cut(b)
  BY DEF OpenQuestions
<1> HIDE DEF X, Y
<1>3. IsPrefix(a, b)
  BY <1>1, FlatGrows
<1>4. a \in Seq(Question)
  <2>1. FlattenSeq(X) \in Seq(Question)
    BY <1>1, FlattenType
  <2> QED  BY <2>1, DistinctType
<1>5. b \in Seq(Question)
  <2>1. FlattenSeq(Y) \in Seq(Question)
    BY <1>1, FlattenType
  <2> QED  BY <2>1, DistinctType
<1> HIDE DEF a, b
<1>6. Len(a) <= Len(b) /\ \A i \in 1..Len(a) : a[i] = b[i]
  BY <1>3, <1>4, <1>5, PrefixIs
<1>7. ASSUME NEW d \in Seq(Question)
      PROVE  /\ cut(d) \in Seq(Cuts) /\ Len(cut(d)) = Len(d)
             /\ \A i \in 1..Len(d) : cut(d)[i] = QuestionCut[d[i]]
  <2> DEFINE k == Len(d)
             f == cut(d)
  <2>1. k \in Nat /\ DOMAIN d = 1..k /\ \A i \in 1..k : d[i] \in Question
    OBVIOUS
  <2> HIDE DEF k
  <2>2. f \in [1..k -> Cuts] /\ \A i \in 1..k : f[i] = QuestionCut[d[i]]
    BY <2>1 DEF Cuts
  <2> HIDE DEF f, cut
  <2>3. f \in Seq(Cuts) /\ Len(f) = k
    BY <2>1, <2>2, SeqIs
  <2> QED  BY <2>2, <2>3 DEF k, f
<1> HIDE DEF cut
<1>8. /\ cut(a) \in Seq(Cuts) /\ cut(b) \in Seq(Cuts) /\ Len(cut(a)) = Len(a) /\ Len(cut(b)) = Len(b)
      /\ \A i \in 1..Len(a) : cut(a)[i] = QuestionCut[a[i]]
      /\ \A i \in 1..Len(b) : cut(b)[i] = QuestionCut[b[i]]
  BY <1>4, <1>5, <1>7
<1>9. \A i \in 1..Len(a) : cut(a)[i] = cut(b)[i]
  <2>1. Len(a) \in Nat /\ Len(b) \in Nat
    BY <1>4, <1>5
  <2> SUFFICES ASSUME NEW i \in 1..Len(a) PROVE cut(a)[i] = cut(b)[i]
    OBVIOUS
  <2>2. i \in 1..Len(b) /\ a[i] = b[i]
    BY <1>6, <2>1
  <2>3. cut(a)[i] = QuestionCut[a[i]] /\ cut(b)[i] = QuestionCut[b[i]]
    BY <1>8, <2>2
  <2> QED  BY <2>2, <2>3
<1>10. IsPrefix(cut(a), cut(b))
  BY <1>6, <1>8, <1>9, PrefixIs
<1> QED  BY <1>2, <1>10

LEMMA FailedGrow ==
  ASSUME MaxFailed \in Nat, \A r \in Record : Fails(r) \in Seq(Seq(Line)),
         NEW m \in Nat, NEW n \in Nat, m <= n,
         NEW t \in [1..m -> Record], NEW u \in [1..n -> Record], \A i \in 1..m : t[i] = u[i]
  PROVE  IsPrefix(FailedApproaches(t), FailedApproaches(u))
<1> DEFINE X == [i \in DOMAIN t |-> Fails(t[i])]
           Y == [i \in DOMAIN u |-> Fails(u[i])]
           a == Distinct(FlattenSeq(X), MaxFailed)
           b == Distinct(FlattenSeq(Y), MaxFailed)
           none(q) == \A i \in DOMAIN q : ~q[i].calls
<1>1. /\ X \in [1..m -> Seq(Seq(Line))] /\ Y \in [1..n -> Seq(Seq(Line))]
      /\ \A i \in 1..m : X[i] = Y[i]
  OBVIOUS
<1>2. /\ FailedApproaches(t) = IF none(t) THEN << >> ELSE a
      /\ FailedApproaches(u) = IF none(u) THEN << >> ELSE b
  BY DEF FailedApproaches
<1>3. none(u) => none(t)
  <2> SUFFICES ASSUME none(u), NEW i \in DOMAIN t PROVE ~t[i].calls
    OBVIOUS
  <2>1. i \in DOMAIN u /\ t[i] = u[i]
    OBVIOUS
  <2>2. ~u[i].calls
    BY <2>1
  <2> QED  BY <2>1, <2>2, Zenon
<1> HIDE DEF X, Y, none
<1>4. IsPrefix(a, b)
  BY <1>1, FlatGrows
<1>5. b \in Seq(Seq(Line))
  <2>1. FlattenSeq(Y) \in Seq(Seq(Line))
    BY <1>1, FlattenType
  <2> QED  BY <2>1, DistinctType
<1> HIDE DEF a, b
<1>6. ASSUME NEW q \in Seq(Seq(Line)) PROVE IsPrefix(<< >>, q)
  <2>1. Len(<< >>) = 0 /\ 0 <= Len(q)
    OBVIOUS
  <2>2. SubSeq(<< >>, 1, 0) = << >> /\ SubSeq(q, 1, 0) = << >>
    BY SubSeqEmpty
  <2> QED  BY <2>1, <2>2 DEF IsPrefix
<1>7. IsPrefix(<< >>, << >>) /\ IsPrefix(<< >>, b)
  <2>1. << >> \in Seq(Seq(Line))
    OBVIOUS
  <2> QED  BY <1>5, <1>6, <2>1
<1>8. CASE none(t) /\ none(u)
  BY <1>2, <1>7, <1>8, Zenon
<1>9. CASE none(t) /\ ~none(u)
  BY <1>2, <1>7, <1>9, Zenon
<1>10. CASE ~none(t) /\ ~none(u)
  BY <1>2, <1>4, <1>10, Zenon
<1> QED  BY <1>3, <1>8, <1>9, <1>10

(* For the same session, a step only adds to the lists that are made anew. *)
ListsKept ==
  sheet.from = sheet'.from =>
    /\ IsPrefix(sheet.questions, sheet'.questions)
    /\ IsPrefix(sheet.failed, sheet'.failed)

LEMMA ListsStep ==
  ASSUME SectionsAssumption, Ledgers, Ledgers', SheetOK, SheetOK', Reflects, [Next]_vars
  PROVE  ListsKept
<1>0. /\ sheet.questions \in Seq(Cuts) /\ sheet.failed \in Seq(Seq(Line))
      /\ shown \in [Session -> Nat]
  BY DEF SheetOK, SheetKind, Ledgers
<1>1. ASSUME Publish, sheet.from = sheet'.from
      PROVE  /\ IsPrefix(sheet.questions, sheet'.questions)
             /\ IsPrefix(sheet.failed, sheet'.failed)
  <2>1. PICK s, n, top, rec, files, scan : Publishing(s, n, top, rec, files, scan)
    BY <1>1, Publishes
  <2>a. MaxQuestions \in Nat /\ MaxFailed \in Nat
    BY DEF SectionsAssumption
  <2>b. \A r \in Record : Asks(r) \in Seq(Question)
    BY AsksType
  <2>c. \A r \in Record : Fails(r) \in Seq(Seq(Line))
    BY FailsType
  <2>2. /\ s \in Session /\ sheet'.from = s
        /\ sheet'.questions = OpenQuestions(Told(s)')
        /\ sheet'.failed = FailedApproaches(Told(s)')
    BY <2>1, <2>a, <2>b, <2>c, PublishReflects
  <2>3. sheet # Blank
    <3>1. Blank.from = None /\ None \notin Session
      BY DEF Blank, SectionsAssumption
    <3> QED  BY <1>1, <2>2, <3>1
  <2>4. sheet.questions = OpenQuestions(Told(s)) /\ sheet.failed = FailedApproaches(Told(s))
    BY <1>1, <2>2, <2>3 DEF Reflects
  <2> DEFINE m == shown[s]
             t == Told(s)
             u == Told(s)'
  <2>5. m \in Nat /\ t \in [1..m -> Record] /\ \A i \in 1..m : t[i] = said[s][i]
    BY <1>0, <2>2, ToldIs
  <2>6. top \in Nat /\ m <= top /\ u \in [1..top -> Record]
    BY <2>1 DEF Publishing
  <2>7. \A i \in 1..top : u[i] = said[s][i]
    BY <2>1 DEF Publishing
  <2> HIDE DEF m, t, u
  <2>8. \A i \in 1..m : t[i] = u[i]
    <3> SUFFICES ASSUME NEW i \in 1..m PROVE t[i] = u[i]
      OBVIOUS
    <3>1. i \in 1..top
      BY <2>5, <2>6
    <3> QED  BY <2>5, <2>7, <3>1
  <2>9. IsPrefix(OpenQuestions(t), OpenQuestions(u))
    BY <2>a, <2>b, <2>5, <2>6, <2>8, QuestionsGrow
  <2>10. IsPrefix(FailedApproaches(t), FailedApproaches(u))
    BY <2>a, <2>c, <2>5, <2>6, <2>8, FailedGrow
  <2> QED  BY <2>2, <2>4, <2>9, <2>10 DEF t, u
<1>2. IsPrefix(sheet.questions, sheet.questions) /\ IsPrefix(sheet.failed, sheet.failed)
  <2>1. \A V : \A q \in Seq(V) : IsPrefix(q, q)
    BY DEF IsPrefix
  <2> QED  BY <1>0, <2>1
<1>3. RefreshActivity => sheet'.questions = sheet.questions /\ sheet'.failed = sheet.failed
  BY Refreshes
<1>4. CASE sheet'.questions = sheet.questions /\ sheet'.failed = sheet.failed
  BY <1>2, <1>4 DEF ListsKept
<1>5. CASE Publish
  BY <1>1, <1>5 DEF ListsKept
<1> QED  BY <1>3, <1>4, <1>5, OtherSteps
-----------------------------------------------------------------------------
(***************************************************************************)
(* What holds of every handoff.                                            *)
(***************************************************************************)

Handoff == Ledgers /\ SheetOK /\ Listed /\ Reflects

LEMMA HandoffHolds == Spec => []Handoff
<1>1. Init => Handoff
  <2> SUFFICES ASSUME Init PROVE Handoff
    OBVIOUS
  <2>1. Ledgers /\ SheetOK /\ Listed
    BY SectionsAssumption, LedgersInit, SheetInit, ListedInit
  <2>2. Reflects
    BY DEF Init, Reflects
  <2> QED  BY <2>1, <2>2 DEF Handoff
<1>2. Handoff /\ [Next]_vars => Handoff'
  <2> SUFFICES ASSUME Handoff, [Next]_vars PROVE Handoff'
    OBVIOUS
  <2>1. Ledgers /\ SheetOK /\ Listed /\ Reflects
    BY DEF Handoff
  <2>2. Ledgers'
    BY <2>1, SectionsAssumption, LedgersStep
  <2>3. SheetOK' /\ Listed' /\ Reflects'
    BY <2>1, <2>2, SectionsAssumption, SheetStep, ListedStep, ReflectsStep
  <2> QED  BY <2>2, <2>3 DEF Handoff
<1> QED  BY <1>1, <1>2, PTL DEF Spec

(* Every section is within its cap and of its kind; of each session the ledger
   holds the first so many records, none left out, and neither the cursor nor
   what was published is beyond the transcript. *)
THEOREM HandoffTyped == Spec => []TypeOK
<1>1. Handoff => TypeOK
  <2> SUFFICES ASSUME Handoff PROVE TypeOK
    OBVIOUS
  <2>1. Ledgers /\ SheetOK
    BY DEF Handoff
  <2>2. /\ said \in [Session -> Seq(Record)] /\ mark \in [Session -> Nat] /\ shown \in [Session -> Nat]
        /\ ledger \in [Session -> Seq(Nat)]
        /\ pc \in {"idle", "save", "publish"} /\ cur \in Session \cup {None}
    BY <2>1 DEF Ledgers
  <2>3. ASSUME NEW s \in Session
        PROVE  /\ mark[s] <= Len(said[s]) /\ shown[s] <= Len(said[s])
               /\ ToSet(ledger[s]) = 1..Cardinality(ToSet(ledger[s]))
               /\ ToSet(ledger[s]) \subseteq DOMAIN said[s]
    <3>1. PICK top \in 0..Len(said[s]) : Holds(s, top)
      BY <2>1 DEF Ledgers
    <3>2. Len(said[s]) \in Nat /\ DOMAIN said[s] = 1..Len(said[s]) /\ ledger[s] \in Seq(Nat)
      BY <2>2
    <3>3. mark[s] <= top /\ shown[s] <= top /\ mark[s] \in Nat /\ shown[s] \in Nat
      BY <2>2, <3>1 DEF Holds
    <3>4. ToSet(ledger[s]) = 1..top
      BY <3>1, <3>2, TellingTop DEF Holds
    <3>5. Cardinality(1..top) = top
      BY <3>1, <3>2, FS_Interval
    <3>6. ToSet(ledger[s]) \subseteq DOMAIN said[s]
      BY <3>1, <3>2, <3>4
    <3>7. ToSet(ledger[s]) = 1..Cardinality(ToSet(ledger[s]))
      BY <3>4, <3>5
    <3>8. mark[s] <= Len(said[s]) /\ shown[s] <= Len(said[s])
      BY <3>1, <3>2, <3>3
    <3> QED  BY <3>6, <3>7, <3>8
  <2>4. /\ sheet.from \in Session \cup {None} /\ sheet.activity \in Activity \cup {None}
        /\ Len(sheet.questions) <= MaxQuestions /\ Len(sheet.failed) <= MaxFailed
        /\ Len(sheet.files) <= MaxPaths /\ sheet.files \in Seq(Path)
    BY <2>1 DEF SheetOK, SheetKind
  <2>5. ToSet(sheet.files) \subseteq Path
    BY <2>4 DEF ToSet
  <2> QED  BY <2>2, <2>3, <2>4, <2>5 DEF TypeOK
<1> QED  BY <1>1, HandoffHolds, PTL

(* For any number of sessions, however they take turns, whatever publishes are
   cut and however often records are read again: the first prompt of a published
   session that is not a trifle is listed under Task, once. *)
THEOREM PromptsListed == Spec => []TaskListed
<1>1. Handoff => TaskListed
  <2> SUFFICES ASSUME Handoff, NEW s \in Session, NEW i \in 1..shown[s],
                      Prompt(Told(s)[i]), \A j \in 1..(i - 1) : ~Prompt(Told(s)[j])
               PROVE  Times(sheet.task, TaskCut[Told(s)[i].text[1]]) = 1
    BY Zenon DEF TaskListed, Prompt
  <2>1. Listed /\ SheetOK /\ Ledgers
    BY DEF Handoff
  <2>2. shown[s] \in Nat
    BY <2>1 DEF Ledgers
  <2>3. i \in Nat /\ \A j \in 1..shown[s] : j < i => j \in 1..(i - 1)
    BY <2>2
  <2>4. FirstPrompt(Told(s), shown[s], i)
    BY <2>3 DEF FirstPrompt
  <2>5. Contains(sheet.task, TaskOf(Told(s)[i]))
    BY <2>1, <2>3, <2>4 DEF Listed
  <2>6. sheet.task \in Seq(Tasks) /\ Once(sheet.task)
    BY <2>1 DEF SheetOK, SheetKind, Listed
  <2>7. Times(sheet.task, TaskOf(Told(s)[i])) = 1
    BY <2>5, <2>6, TimesOne
  <2> QED  BY <2>7 DEF TaskOf
<1> QED  BY <1>1, HandoffHolds, PTL

(* Likewise the last answer of a published session that says something outside its
   code is what Next action tells, once: what strip_code_fences leaves of it
   begins with that line. *)
THEOREM AnswersListed == Spec => []NextListed
<1>1. Handoff => NextListed
  <2> DEFINE Answers(s) == { i \in 1..shown[s] : Answer(Told(s)[i]) }
  <2> SUFFICES ASSUME Handoff, NEW s \in Session, Answers(s) # {}
               PROVE  Times(sheet.next, NextOf(Told(s)[Greatest(Answers(s))])) = 1
    BY Zenon DEF NextListed, Answer, NextOf
  <2> DEFINE i == Greatest(Answers(s))
  <2>1. Listed /\ SheetOK /\ Ledgers
    BY DEF Handoff
  <2>2. shown[s] \in Nat
    BY <2>1 DEF Ledgers
  <2>3. i \in Answers(s) /\ \A j \in Answers(s) : j <= i
    <3>1. Answers(s) \in SUBSET (1..shown[s])
      OBVIOUS
    <3> HIDE DEF Answers
    <3> QED  BY <2>2, <3>1, GreatestIn
  <2>4. LastAnswer(Told(s), shown[s], i)
    <3> HIDE DEF i
    <3>1. i \in 1..shown[s] /\ Answer(Told(s)[i])
      BY <2>3
    <3>2. \A j \in 1..shown[s] : i < j => ~Answer(Told(s)[j])
      BY <2>2, <2>3
    <3> QED  BY <3>1, <3>2 DEF LastAnswer
  <2>5. i \in Nat
    BY <2>2, <2>3
  <2> HIDE DEF i
  <2>6. Contains(sheet.next, NextOf(Told(s)[i]))
    BY <2>1, <2>4, <2>5 DEF Listed
  <2>7. sheet.next \in Seq(Nexts) /\ Once(sheet.next)
    BY <2>1 DEF SheetOK, SheetKind, Listed
  <2>8. Times(sheet.next, NextOf(Told(s)[i])) = 1
    BY <2>6, <2>7, TimesOne
  <2> QED  BY <2>8 DEF i
<1> QED  BY <1>1, HandoffHolds, PTL

(* Whatever is read again, the questions, the failed approaches and the files of the
   handoff are those of the transcript of the session published last. *)
THEOREM RereadsDoNotShow == Spec => []RereadHarmless
<1>1. Handoff => RereadHarmless
  BY DEF Handoff, Reflects, RereadHarmless
<1> QED  BY <1>1, HandoffHolds, PTL

(* While one session goes on, what its questions and failed approaches list stays
   where it is. *)
THEOREM ListsGrow == Spec => ListsStand
<1>1. Handoff /\ Handoff' /\ [Next]_vars => ListsKept
  BY SectionsAssumption, ListsStep DEF Handoff
<1>2. Handoff /\ Handoff' /\ [Next]_vars =>
        [ sheet.from = sheet'.from =>
            /\ IsPrefix(sheet.questions, sheet'.questions)
            /\ IsPrefix(sheet.failed, sheet'.failed) ]_vars
  BY <1>1 DEF ListsKept
<1> QED  BY <1>2, HandoffHolds, PTL DEF Spec, ListsStand
=============================================================================
