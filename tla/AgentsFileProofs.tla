-------------------------- MODULE AgentsFileProofs --------------------------
(***************************************************************************)
(* What publishing and uninstalling do to a file that the user goes on     *)
(* editing, for any lines and any length: what the user wrote stays        *)
(* (Kept), one block is in it and the next publish leaves it alone         *)
(* (Settles), and uninstalling takes all of it out (Clean, NoGrowth).  The  *)
(* user leaves the block's own lines alone.                                *)
(***************************************************************************)
EXTENDS AgentsFile, Inductions, FiniteSetTheorems

(***************************************************************************)
(* Only.                                                                   *)
(***************************************************************************)

(* One more line: what FoldLeft does with it. *)
Step(t, l, S) == IF l \in S THEN Append(t, l) ELSE t

(* g folds the lines of s at the positions D, the last one last. *)
Folds(g, D, s, S) ==
  g = [d \in SUBSET D |-> IF d = {} THEN << >>
                          ELSE Step(g[d \ {Max(d)}], s[Max(d)], S)]

(* There is such a g: the recursion in FoldLeft defines something. *)
LEMMA FoldsExist ==
  ASSUME NEW V, NEW S, NEW s \in Seq(V) PROVE \E g : Folds(g, 1..Len(s), s, S)
<1> DEFINE n == Len(s)
           A == Seq(V)
           b == << >>
           T == [p \in (1..n) \X A |-> Step(p[2], s[p[1]], S)]
<1>1. n \in Nat /\ b \in A /\ \A k \in 1..n, t \in A : Step(t, s[k], S) \in A
  BY DEF Step
<1>2. T \in [(1..n) \X A -> A]
  <2> HIDE DEF A, n
  <2> QED  BY <1>1
<1>3. \A k \in 1..n, t \in A : T[<<k, t>>] = Step(t, s[k], S)
  <2> HIDE DEF A, n
  <2> QED  OBVIOUS
<1> HIDE DEF n, A, b, T
<1>4. PICK g \in [SUBSET (1..n) -> A] : Folding(g, n, b, T)
  BY <1>1, <1>2, FoldExists
<1>5. ASSUME NEW d \in SUBSET (1..n), d # {}
      PROVE  T[<<Max(d), g[d \ {Max(d)}]>>] = Step(g[d \ {Max(d)}], s[Max(d)], S)
  <2>1. Max(d) \in 1..n
    BY <1>1, <1>5, MaxIn
  <2>2. g[d \ {Max(d)}] \in A
    OBVIOUS
  <2> QED  BY <1>3, <2>1, <2>2
<1>6. g = [d \in SUBSET (1..n) |-> g[d]]
  OBVIOUS
<1>7. Folds(g, 1..n, s, S)
  BY <1>4, <1>5, <1>6 DEF Folds, Folding, b
<1> QED  BY <1>7 DEF n

(* h[k] is what Only has of the first k lines. *)
Steps(h, s, S) ==
  /\ h[0] = << >>
  /\ \A k \in 1..Len(s) : h[k] = Step(h[k - 1], s[k], S)

LEMMA OnlySteps ==
  ASSUME NEW V, NEW S, NEW s \in Seq(V)
  PROVE  \E h : Steps(h, s, S) /\ Only(s, S) = h[Len(s)]
<1> DEFINE D  == DOMAIN s
           it == CHOOSE g : Folds(g, D, s, S)
           h  == [k \in 0..Len(s) |-> it[1..k]]
<1>1. D = 1..Len(s) /\ Len(s) \in Nat
  OBVIOUS
<1>2. Folds(it, D, s, S)
  <2>1. \E g : Folds(g, D, s, S)
    BY <1>1, FoldsExist
  <2> QED  BY <2>1, Zenon
<1>3. Only(s, S) = it[D]
  BY DEF Only, FoldLeft, MapThenFoldSet, Folds, Step
<1> HIDE DEF it
<1>4. h[0] = << >>
  <2>1. 1..0 = {} /\ {} \in SUBSET D
    OBVIOUS
  <2>2. it[{}] = << >>
    BY <1>2, <2>1 DEF Folds
  <2> QED  BY <1>1, <2>1, <2>2
<1>5. ASSUME NEW k \in 1..Len(s) PROVE h[k] = Step(h[k - 1], s[k], S)
  <2> DEFINE d == 1..k
  <2>1. d \in SUBSET D /\ d # {} /\ Max(d) = k /\ d \ {Max(d)} = 1..(k - 1)
    BY <1>1, UpToLast
  <2>3. it[d] = Step(it[d \ {Max(d)}], s[Max(d)], S)
    <3> HIDE DEF d
    <3> QED  BY <1>2, <2>1 DEF Folds
  <2>4. it[1..k] = Step(it[1..(k - 1)], s[k], S)
    BY <2>1, <2>3
  <2>5. h[k] = it[1..k] /\ h[k - 1] = it[1..(k - 1)]
    BY <1>1
  <2> QED  BY <2>4, <2>5
<1>6. h[Len(s)] = it[D]
  BY <1>1
<1> HIDE DEF h
<1> QED  BY <1>3, <1>4, <1>5, <1>6 DEF Steps

LEMMA OnlyEmpty == ASSUME NEW S PROVE Only(<< >>, S) = << >>
<1>1. << >> \in Seq({}) /\ Len(<< >>) = 0
  OBVIOUS
<1>2. PICK h : Steps(h, << >>, S) /\ Only(<< >>, S) = h[Len(<< >>)]
  BY <1>1, OnlySteps, Zenon
<1> QED  BY <1>1, <1>2 DEF Steps

LEMMA OnlyAppend ==
  ASSUME NEW V, NEW S, NEW s \in Seq(V), NEW e \in V
  PROVE  Only(Append(s, e), S) = Step(Only(s, S), e, S)
<1> DEFINE t == Append(s, e)
           n == Len(s)
<1>1. /\ t \in Seq(V) /\ n \in Nat /\ Len(t) = n + 1 /\ t[n + 1] = e
      /\ \A k \in 1..n : t[k] = s[k]
  OBVIOUS
<1>2. PICK h : Steps(h, s, S) /\ Only(s, S) = h[n]
  BY OnlySteps
<1> HIDE DEF t, n
<1>3. PICK g : Steps(g, t, S) /\ Only(t, S) = g[n + 1]
  BY <1>1, OnlySteps
<1>4. g[n] = h[n]
  <2> DEFINE P == { k \in 0..n : g[k] = h[k] }
  <2>1. 0 \in P
    BY <1>1, <1>2, <1>3 DEF Steps
  <2>2. ASSUME NEW k \in 1..n, k - 1 \in P PROVE k \in P
    <3>1. h[k] = Step(h[k - 1], s[k], S)
      BY <1>2 DEF Steps, n
    <3>2. g[k] = Step(g[k - 1], t[k], S)
      BY <1>1, <1>3 DEF Steps
    <3> QED  BY <1>1, <2>2, <3>1, <3>2
  <2>3. \A k \in 1..n : k - 1 \in P => k \in P
    BY <2>2
  <2>4. 0..n \subseteq P
    <3> HIDE DEF P
    <3> QED  BY <1>1, <2>1, <2>3, Counting, Zenon
  <2> QED  BY <1>1, <2>4
<1>5. g[n + 1] = Step(g[n], e, S)
  BY <1>1, <1>3 DEF Steps
<1> QED  BY <1>2, <1>3, <1>4, <1>5 DEF t

(* What Only has comes from s and is in S. *)
LEMMA OnlyType ==
  ASSUME NEW V, NEW S, NEW s \in Seq(V)
  PROVE  Only(s, S) \in Seq(V \cap S) /\ Only(s, S) \in Seq(V)
<1> DEFINE W == V \cap S
           P == { t \in Seq(V) : Only(t, S) \in Seq(W) }
<1>1. << >> \in P
  <2>1. << >> \in Seq(V) /\ << >> \in Seq(W)
    OBVIOUS
  <2> QED  BY <2>1, OnlyEmpty, Zenon
<1>2. ASSUME NEW t \in Seq(V), NEW e \in V, t \in P PROVE Append(t, e) \in P
  <2>1. Only(Append(t, e), S) = Step(Only(t, S), e, S) /\ Append(t, e) \in Seq(V)
    BY OnlyAppend
  <2>2. Only(t, S) \in Seq(W) /\ (e \in S => e \in W)
    BY <1>2
  <2>3. Step(Only(t, S), e, S) \in Seq(W)
    <3> HIDE DEF W
    <3> QED  BY <2>2 DEF Step
  <2> QED  BY <2>1, <2>3
<1> HIDE DEF P
<1>3. s \in P
  BY <1>1, <1>2, SeqInduction
<1>4. Only(s, S) \in Seq(W)
  BY <1>3 DEF P
<1> QED  BY <1>4, SeqMonotonic

LEMMA OnlyConcat ==
  ASSUME NEW V, NEW S, NEW s \in Seq(V), NEW t \in Seq(V)
  PROVE  Only(s \o t, S) = Only(s, S) \o Only(t, S)
<1> DEFINE P == { u \in Seq(V) : Only(s \o u, S) = Only(s, S) \o Only(u, S) }
<1>0. Only(s, S) \in Seq(V)
  BY OnlyType
<1>1. << >> \in P
  <2>1. << >> \in Seq(V) /\ s \o << >> = s /\ Only(s, S) \o << >> = Only(s, S)
    BY <1>0
  <2> QED  BY <2>1, OnlyEmpty, Zenon
<1>2. ASSUME NEW u \in Seq(V), NEW e \in V, u \in P PROVE Append(u, e) \in P
  <2>1. s \o Append(u, e) = Append(s \o u, e) /\ s \o u \in Seq(V)
    OBVIOUS
  <2>2. Only(u, S) \in Seq(V)
    BY OnlyType
  <2>3. Only(Append(s \o u, e), S) = Step(Only(s \o u, S), e, S)
    BY <2>1, OnlyAppend
  <2>4. Only(Append(u, e), S) = Step(Only(u, S), e, S)
    BY OnlyAppend
  <2>5. Only(s \o u, S) = Only(s, S) \o Only(u, S)
    BY <1>2
  <2>6. Append(Only(s, S) \o Only(u, S), e) = Only(s, S) \o Append(Only(u, S), e)
    <3> DEFINE a == Only(s, S)
               b == Only(u, S)
    <3>1. a \in Seq(V) /\ b \in Seq(V)
      BY <1>0, <2>2
    <3> HIDE DEF a, b
    <3>2. Append(a \o b, e) = a \o Append(b, e)
      <4>1. a \o b \in Seq(V) /\ <<e>> \in Seq(V)
        BY <3>1
      <4>2. Append(a \o b, e) = (a \o b) \o <<e>> /\ Append(b, e) = b \o <<e>>
        BY <3>1, <4>1, AppendIsConcat
      <4>3. (a \o b) \o <<e>> = a \o (b \o <<e>>)
        BY <3>1, <4>1, ConcatAssociative, SMTT(30)
      <4> QED  BY <4>2, <4>3
    <3> QED  BY <3>2 DEF a, b
  <2>7. Step(Only(s, S) \o Only(u, S), e, S) = Only(s, S) \o Step(Only(u, S), e, S)
    BY <2>6, Zenon DEF Step
  <2>8. Append(u, e) \in Seq(V)
    OBVIOUS
  <2> QED  BY <2>1, <2>3, <2>4, <2>5, <2>7, <2>8, Zenon
<1> HIDE DEF P
<1>3. t \in P
  BY <1>1, <1>2, SeqInduction
<1> QED  BY <1>3 DEF P

(* Where all lines are in S, Only keeps all; where none is, nothing. *)
LEMMA OnlyAll == ASSUME NEW S, NEW s \in Seq(S) PROVE Only(s, S) = s
<1> DEFINE P == { t \in Seq(S) : Only(t, S) = t }
<1>1. << >> \in P
  <2>1. << >> \in Seq(S)
    OBVIOUS
  <2> QED  BY <2>1, OnlyEmpty, Zenon
<1>2. ASSUME NEW t \in Seq(S), NEW e \in S, t \in P PROVE Append(t, e) \in P
  BY <1>2, OnlyAppend DEF Step
<1> HIDE DEF P
<1>3. s \in P
  BY <1>1, <1>2, SeqInduction
<1> QED  BY <1>3 DEF P

LEMMA OnlyNone ==
  ASSUME NEW V, NEW S, V \cap S = {}, NEW s \in Seq(V) PROVE Only(s, S) = << >>
<1>1. Only(s, S) \in Seq(V \cap S)
  BY OnlyType
<1> QED  BY <1>1, ElementOfSeq
-----------------------------------------------------------------------------
(***************************************************************************)
(* Editing a sequence.                                                     *)
(***************************************************************************)

(* r is s with t behind it. *)
Joined(r, s, t, V) ==
  /\ r \in Seq(V) /\ Len(r) = Len(s) + Len(t) /\ Len(s) \in Nat /\ Len(t) \in Nat
  /\ \A j \in 1..Len(s) : r[j] = s[j]
  /\ \A j \in 1..Len(t) : r[Len(s) + j] = t[j]

LEMMA ConcatAt ==
  ASSUME NEW V, NEW s \in Seq(V), NEW t \in Seq(V) PROVE Joined(s \o t, s, t, V)
<1>1. Len(s) \in Nat /\ Len(t) \in Nat
  OBVIOUS
<1>2. /\ s \o t \in Seq(V) /\ Len(s \o t) = Len(s) + Len(t)
      /\ \A j \in 1..(Len(s) + Len(t)) :
           (s \o t)[j] = IF j <= Len(s) THEN s[j] ELSE t[j - Len(s)]
  BY ConcatProperties
<1>3. ASSUME NEW j \in 1..Len(s) PROVE (s \o t)[j] = s[j]
  BY <1>1, <1>2
<1>4. ASSUME NEW j \in 1..Len(t) PROVE (s \o t)[Len(s) + j] = t[j]
  <2> DEFINE m == Len(s)
             k == m + j
  <2>1. k \in 1..(Len(s) + Len(t)) /\ ~(k <= Len(s)) /\ k - Len(s) = j
    BY <1>1
  <2> HIDE DEF k
  <2>2. (s \o t)[k] = t[j]
    BY <1>2, <2>1, Zenon
  <2> QED  BY <2>2 DEF k
<1> QED  BY <1>1, <1>2, <1>3, <1>4 DEF Joined

LEMMA InsertAtIs ==
  ASSUME NEW V, NEW s \in Seq(V), NEW i \in 1..(Len(s) + 1), NEW e \in V
  PROVE  /\ InsertAt(s, i, e) \in Seq(V) /\ Len(InsertAt(s, i, e)) = Len(s) + 1
         /\ \A j \in 1..(Len(s) + 1) :
              InsertAt(s, i, e)[j] = IF j < i THEN s[j] ELSE IF j = i THEN e ELSE s[j - 1]
<1> DEFINE x == SubSeq(s, 1, i - 1)
           y == SubSeq(s, i, Len(s))
<1>1. Len(s) \in Nat /\ \A j \in 1..Len(s) : s[j] \in V
  OBVIOUS
<1>2. x \in Seq(V) /\ Len(x) = i - 1 /\ \A j \in 1..(i - 1) : x[j] = s[j]
  BY <1>1, SubSeqProperties
<1>3. /\ y \in Seq(V) /\ Len(y) = Len(s) - i + 1
      /\ \A j \in 1..(Len(s) - i + 1) : y[j] = s[i + j - 1]
  BY <1>1, SubSeqProperties
<1>4. <<e>> \in Seq(V) /\ Len(<<e>>) = 1 /\ <<e>>[1] = e
  OBVIOUS
<1> HIDE DEF x, y
<1>5. /\ x \o <<e>> \in Seq(V) /\ Len(x \o <<e>>) = i
      /\ \A j \in 1..i : (x \o <<e>>)[j] = IF j < i THEN s[j] ELSE e
  BY <1>1, <1>2, <1>4
<1> DEFINE z == x \o <<e>>
<1> HIDE DEF z
<1>6. /\ z \o y \in Seq(V) /\ Len(z \o y) = Len(s) + 1
      /\ \A j \in 1..(Len(s) + 1) :
           (z \o y)[j] = IF j < i THEN s[j] ELSE IF j = i THEN e ELSE s[j - 1]
  <2>1. z \in Seq(V) /\ Len(z) = i /\ \A j \in 1..i : z[j] = IF j < i THEN s[j] ELSE e
    BY <1>5 DEF z
  <2>0. /\ z \o y \in Seq(V) /\ Len(z \o y) = Len(z) + Len(y)
        /\ \A j \in 1..(Len(z) + Len(y)) :
             (z \o y)[j] = IF j <= Len(z) THEN z[j] ELSE y[j - Len(z)]
    BY <1>3, <2>1, ConcatProperties
  <2>2. /\ z \o y \in Seq(V) /\ Len(z \o y) = Len(s) + 1
        /\ \A j \in 1..(Len(s) + 1) : (z \o y)[j] = IF j <= i THEN z[j] ELSE y[j - i]
    <3>1. Len(z) = i /\ Len(z) + Len(y) = Len(s) + 1
      BY <1>1, <1>3, <2>1
    <3> QED  BY <2>0, <3>1
  <2>3. ASSUME NEW j \in 1..(Len(s) + 1)
        PROVE  (z \o y)[j] = IF j < i THEN s[j] ELSE IF j = i THEN e ELSE s[j - 1]
    <3>1. CASE j <= i
      BY <2>1, <2>2, <3>1
    <3>2. CASE j > i
      <4>1. j - i \in 1..(Len(s) - i + 1) /\ i + (j - i) - 1 = j - 1
        BY <1>1, <3>2
      <4>2. y[j - i] = s[i + (j - i) - 1]
        BY <1>3, <4>1
      <4>3. (z \o y)[j] = y[j - i]
        <5>1. ~(j <= i)
          BY <1>1, <3>2
        <5> QED  BY <2>2, <5>1, Zenon
      <4>4. (z \o y)[j] = s[j - 1]
        BY <4>1, <4>2, <4>3, Zenon
      <4>5. ~(j < i) /\ j # i
        BY <1>1, <3>2
      <4> QED  BY <4>4, <4>5, Zenon
    <3>3. j <= i \/ j > i
      BY <1>1
    <3> QED  BY <3>1, <3>2, <3>3, Zenon
  <2> QED  BY <1>1, <2>2, <2>3
<1> QED  BY <1>6 DEF x, y, z, InsertAt

LEMMA RemoveAtIs ==
  ASSUME NEW V, NEW s \in Seq(V), NEW i \in 1..Len(s)
  PROVE  /\ RemoveAt(s, i) \in Seq(V) /\ Len(RemoveAt(s, i)) = Len(s) - 1
         /\ \A j \in 1..(Len(s) - 1) : RemoveAt(s, i)[j] = IF j < i THEN s[j] ELSE s[j + 1]
<1> DEFINE x == SubSeq(s, 1, i - 1)
           y == SubSeq(s, i + 1, Len(s))
<1>1. Len(s) \in Nat /\ \A j \in 1..Len(s) : s[j] \in V
  OBVIOUS
<1>2. x \in Seq(V) /\ Len(x) = i - 1 /\ \A j \in 1..(i - 1) : x[j] = s[j]
  BY <1>1, SubSeqProperties
<1>3. /\ y \in Seq(V) /\ Len(y) = Len(s) - i
      /\ \A j \in 1..(Len(s) - i) : y[j] = s[i + j]
  <2>1. \A j \in (i + 1)..Len(s) : s[j] \in V
    BY <1>1
  <2>2. /\ y \in Seq(V) /\ Len(y) = IF i + 1 <= Len(s) THEN Len(s) - (i + 1) + 1 ELSE 0
        /\ \A j \in 1..(Len(s) - (i + 1) + 1) : y[j] = s[(i + 1) + j - 1]
    BY <1>1, <2>1, SubSeqProperties
  <2> QED  BY <1>1, <2>2
<1> HIDE DEF x, y
<1>4. /\ x \o y \in Seq(V) /\ Len(x \o y) = Len(s) - 1
      /\ \A j \in 1..(Len(s) - 1) : (x \o y)[j] = IF j <= i - 1 THEN x[j] ELSE y[j - (i - 1)]
  <2>1. /\ x \o y \in Seq(V) /\ Len(x \o y) = Len(x) + Len(y)
        /\ \A j \in 1..(Len(x) + Len(y)) :
             (x \o y)[j] = IF j <= Len(x) THEN x[j] ELSE y[j - Len(x)]
    BY <1>2, <1>3, ConcatProperties
  <2>2. Len(x) = i - 1 /\ Len(x) + Len(y) = Len(s) - 1
    BY <1>1, <1>2, <1>3
  <2> QED  BY <2>1, <2>2
<1>5. ASSUME NEW j \in 1..(Len(s) - 1) PROVE (x \o y)[j] = IF j < i THEN s[j] ELSE s[j + 1]
  <2>1. CASE j < i
    BY <1>2, <1>4, <2>1
  <2>2. CASE j >= i
    <3>1. j - (i - 1) \in 1..(Len(s) - i) /\ i + (j - (i - 1)) = j + 1
      BY <1>1, <2>2
    <3>2. y[j - (i - 1)] = s[i + (j - (i - 1))]
      BY <1>3, <3>1
    <3>3. ~(j <= i - 1) /\ ~(j < i)
      BY <1>1, <2>2
    <3>4. (x \o y)[j] = y[j - (i - 1)]
      BY <1>4, <3>3, Zenon
    <3>5. (x \o y)[j] = s[j + 1]
      BY <3>1, <3>2, <3>4, Zenon
    <3> QED  BY <3>3, <3>5, Zenon
  <2>3. j < i \/ j >= i
    BY <1>1
  <2> QED  BY <2>1, <2>2, <2>3, Zenon
<1>6. RemoveAt(s, i) = x \o y
  BY DEF x, y, RemoveAt
<1> QED  BY <1>1, <1>4, <1>5, <1>6
-----------------------------------------------------------------------------
(***************************************************************************)
(* The file: the user's lines and blank ones, and one block in it or none. *)
(***************************************************************************)

Text == Own \cup {"blank"}

With(a, b) == a \o Block \o b

LEMMA TextLines ==
  Text \subseteq Line /\ "blank" \in Text /\ Text \cap {"start", "body", "end"} = {}
  /\ Text \cap Own = Own /\ Line \cap Own = Own /\ {"blank"} \cap Own = {}
BY AgentsAssumption DEF Text, Line

LEMMA BlockAt ==
  Block \in Seq(Line) /\ Len(Block) = 3
  /\ Block[1] = "start" /\ Block[2] = "body" /\ Block[3] = "end"
BY DEF Block, Line

LEMMA WithAt ==
  ASSUME NEW a \in Seq(Line), NEW b \in Seq(Line)
  PROVE  /\ With(a, b) \in Seq(Line)
         /\ Len(a) \in Nat /\ Len(b) \in Nat /\ Len(With(a, b)) = Len(a) + 3 + Len(b)
         /\ \A j \in 1..Len(a) : With(a, b)[j] = a[j]
         /\ With(a, b)[Len(a) + 1] = "start"
         /\ With(a, b)[Len(a) + 2] = "body"
         /\ With(a, b)[Len(a) + 3] = "end"
         /\ \A j \in 1..Len(b) : With(a, b)[Len(a) + 3 + j] = b[j]
<1> DEFINE h == a \o Block
<1>1. Joined(h, a, Block, Line) /\ h \in Seq(Line)
  <2>1. Joined(h, a, Block, Line)
    BY BlockAt, ConcatAt
  <2> QED  BY <2>1 DEF Joined
<1>2. With(a, b) = h \o b
  BY DEF With
<1> HIDE DEF h
<1>3. Joined(With(a, b), h, b, Line)
  BY <1>1, <1>2, ConcatAt
<1>4. Len(h) = Len(a) + 3 /\ Len(a) \in Nat /\ Len(b) \in Nat
  BY <1>1, <1>3, BlockAt DEF Joined
<1>5. ASSUME NEW j \in 1..Len(a) PROVE With(a, b)[j] = a[j]
  <2>1. j \in 1..Len(h) /\ h[j] = a[j]
    BY <1>1, <1>4 DEF Joined
  <2> QED  BY <1>3, <2>1 DEF Joined
<1>6. ASSUME NEW j \in 1..3 PROVE With(a, b)[Len(a) + j] = Block[j]
  <2>1. Len(a) + j \in 1..Len(h) /\ h[Len(a) + j] = Block[j]
    BY <1>1, <1>4, BlockAt DEF Joined
  <2> QED  BY <1>3, <2>1 DEF Joined
<1>7. \A j \in 1..Len(b) : With(a, b)[Len(a) + 3 + j] = b[j]
  BY <1>3, <1>4 DEF Joined
<1>8. With(a, b) \in Seq(Line) /\ Len(With(a, b)) = Len(a) + 3 + Len(b)
  BY <1>3, <1>4 DEF Joined
<1> QED  BY <1>4, <1>5, <1>6, <1>7, <1>8, BlockAt

LEMMA TextAt ==
  ASSUME NEW s \in Seq(Text)
  PROVE  s \in Seq(Line)
         /\ \A j \in 1..Len(s) : s[j] # "start" /\ s[j] # "body" /\ s[j] # "end"
<1>1. \A j \in 1..Len(s) : s[j] \in Text
  OBVIOUS
<1> QED  BY <1>1, TextLines, SeqMonotonic

LEMMA NoBounds == ASSUME NEW s \in Seq(Text) PROVE Bounds(s) = {}
BY TextAt DEF Bounds, FirstStart

(* The block is found where it is, with the lines on either side of it. *)
LEMMA BlockBounds ==
  ASSUME NEW a \in Seq(Text), NEW b \in Seq(Text)
  PROVE  /\ Bounds(With(a, b)) = {<<Len(a) + 1, Len(a) + 3>>}
         /\ Before(With(a, b), <<Len(a) + 1, Len(a) + 3>>) = a
         /\ Behind(With(a, b), <<Len(a) + 1, Len(a) + 3>>) = b
<1> DEFINE s == With(a, b)
           n == Len(a)
<1>1. a \in Seq(Line) /\ b \in Seq(Line) /\ n \in Nat /\ Len(b) \in Nat
  BY TextAt
<1>2. /\ s \in Seq(Line) /\ Len(s) = n + 3 + Len(b)
      /\ \A j \in 1..n : s[j] = a[j]
      /\ s[n + 1] = "start" /\ s[n + 2] = "body" /\ s[n + 3] = "end"
      /\ \A j \in 1..Len(b) : s[n + 3 + j] = b[j]
  BY <1>1, WithAt
<1>3. \A j \in 1..n : a[j] # "start"
  BY TextAt
<1> HIDE DEF s, n
<1>4. FirstStart(s) = {n + 1}
  <2>1. n + 1 \in FirstStart(s)
    BY <1>1, <1>2, <1>3 DEF FirstStart
  <2>2. ASSUME NEW i \in FirstStart(s) PROVE i = n + 1
    <3>1. i \in 1..Len(s) /\ s[i] = "start" /\ \A j \in 1..(i - 1) : s[j] # "start"
      BY DEF FirstStart
    <3>2. ~(i <= n)
      BY <1>1, <1>2, <1>3, <3>1
    <3>3. ~(n + 1 \in 1..(i - 1))
      BY <1>2, <3>1
    <3> QED  BY <1>1, <3>1, <3>2, <3>3
  <2> QED  BY <2>1, <2>2
<1>5. Bounds(s) = {<<n + 1, n + 3>>}
  <2>1. <<n + 1, n + 3>> \in Bounds(s)
    BY <1>1, <1>2, <1>4 DEF Bounds
  <2>2. ASSUME NEW c \in Bounds(s) PROVE c = <<n + 1, n + 3>>
    <3>1. /\ c \in {n + 1} \X (1..Len(s)) /\ c[1] < c[2] /\ s[c[2]] = "end"
          /\ \A j \in (c[1] + 1)..(c[2] - 1) : s[j] # "end"
      BY <1>4 DEF Bounds
    <3>2. c = <<c[1], c[2]>> /\ c[1] = n + 1 /\ c[2] \in 1..Len(s) /\ c[2] > n + 1
      BY <3>1
    <3>3. c[2] # n + 2
      BY <1>2, <3>1
    <3>4. n + 3 \notin (n + 2)..(c[2] - 1)
      <4>1. c[1] + 1 = n + 2
        BY <1>1, <3>2
      <4> QED  BY <1>2, <3>1, <4>1, Zenon
    <3>5. c[2] = n + 3
      BY <1>1, <1>2, <3>2, <3>3, <3>4, SMTT(30)
    <3> QED  BY <3>2, <3>5
  <2> QED  BY <2>1, <2>2
<1>6. Before(s, <<n + 1, n + 3>>) = a
  <2>1. Before(s, <<n + 1, n + 3>>) = SubSeq(s, 1, n)
    BY <1>1 DEF Before
  <2>2. \A j \in 1..n : s[j] \in Line
    BY <1>1, <1>2
  <2>3. /\ SubSeq(s, 1, n) \in Seq(Line) /\ Len(SubSeq(s, 1, n)) = n
        /\ \A j \in 1..n : SubSeq(s, 1, n)[j] = s[j]
    BY <1>1, <2>2, SubSeqProperties
  <2>4. Len(a) = n /\ \A j \in 1..n : SubSeq(s, 1, n)[j] = a[j]
    BY <1>2, <2>3 DEF n
  <2>5. SubSeq(s, 1, n) = a
    BY <1>1, <2>3, <2>4, SeqEqual, Zenon
  <2> QED  BY <2>1, <2>5
<1>7. Behind(s, <<n + 1, n + 3>>) = b
  <2>1. Behind(s, <<n + 1, n + 3>>) = SubSeq(s, n + 4, Len(s))
    BY <1>1 DEF Behind
  <2>2. \A j \in (n + 4)..Len(s) : s[j] \in Line
    BY <1>1, <1>2
  <2>3. /\ SubSeq(s, n + 4, Len(s)) \in Seq(Line) /\ Len(SubSeq(s, n + 4, Len(s))) = Len(b)
        /\ \A j \in 1..Len(b) : SubSeq(s, n + 4, Len(s))[j] = s[n + 4 + j - 1]
    BY <1>1, <1>2, <2>2, SubSeqProperties
  <2>4. \A j \in 1..Len(b) : SubSeq(s, n + 4, Len(s))[j] = b[j]
    <3> SUFFICES ASSUME NEW j \in 1..Len(b) PROVE SubSeq(s, n + 4, Len(s))[j] = b[j]
      OBVIOUS
    <3>1. n + 4 + j - 1 = n + 3 + j
      BY <1>1
    <3> QED  BY <1>2, <2>3, <3>1, Zenon
  <2> QED  BY <1>1, <2>1, <2>3, <2>4, SeqEqual
<1> QED  BY <1>5, <1>6, <1>7 DEF s, n
-----------------------------------------------------------------------------
(***************************************************************************)
(* Trimmed.                                                                *)
(***************************************************************************)

(* The lines of s behind the n-th are blank, the n-th is not. *)
Cut(s, n) ==
  /\ n \in 0..Len(s)
  /\ \A j \in (n + 1)..Len(s) : s[j] = "blank"
  /\ n = 0 \/ s[n] # "blank"

LEMMA TrimmedIs ==
  ASSUME NEW V, NEW s \in Seq(V)
  PROVE  /\ \E n : Cut(s, n)
         /\ \A n : Cut(s, n) => Trimmed(s) = SubSeq(s, 1, n)
<1>0. Len(s) \in Nat
  OBVIOUS
<1> DEFINE P == { n \in 0..Len(s) : \A j \in (n + 1)..Len(s) : s[j] = "blank" }
<1>1. \E n : Cut(s, n)
  <2>1. P \in SUBSET Nat /\ Len(s) \in P
    BY <1>0
  <2>2. PICK n \in P : \A m \in P : n <= m
    BY <2>1, LeastOf
  <2>3. ASSUME n # 0, s[n] = "blank" PROVE FALSE
    <3>1. n \in 1..Len(s) /\ \A j \in (n + 1)..Len(s) : s[j] = "blank"
      BY <1>0, <2>2, <2>3
    <3>2. \A j \in n..Len(s) : s[j] = "blank"
      BY <1>0, <2>3, <3>1
    <3>3. n - 1 \in P
      BY <1>0, <3>1, <3>2
    <3>4. n <= n - 1
      BY <2>2, <3>3, Zenon
    <3> QED  BY <1>0, <3>1, <3>4
  <2> QED  BY <2>2, <2>3 DEF Cut
<1>2. ASSUME NEW n, Cut(s, n), NEW m, Cut(s, m) PROVE m = n
  BY <1>0, <1>2 DEF Cut
<1>3. ASSUME NEW n, Cut(s, n) PROVE Trimmed(s) = SubSeq(s, 1, n)
  <2> DEFINE c == CHOOSE m \in 0..Len(s) : /\ \A j \in (m + 1)..Len(s) : s[j] = "blank"
                                           /\ m = 0 \/ s[m] # "blank"
  <2>1. Cut(s, c)
    BY <1>3 DEF Cut
  <2>2. Trimmed(s) = SubSeq(s, 1, c)
    BY DEF Trimmed
  <2> HIDE DEF c
  <2>3. c = n
    BY <1>2, <1>3, <2>1
  <2> QED  BY <2>2, <2>3
<1> QED  BY <1>1, <1>3

(* What is cut off is blank. *)
LEMMA TrimmedCut ==
  ASSUME NEW V, NEW s \in Seq(V)
  PROVE  \E n \in 0..Len(s) :
           /\ Cut(s, n) /\ Trimmed(s) = SubSeq(s, 1, n)
           /\ Trimmed(s) \in Seq(V) /\ Len(Trimmed(s)) = n
           /\ \A j \in 1..n : Trimmed(s)[j] = s[j]
           /\ \E r \in Seq({"blank"}) : s = Trimmed(s) \o r
<1>0. Len(s) \in Nat /\ \A j \in 1..Len(s) : s[j] \in V
  OBVIOUS
<1>1. PICK n : Cut(s, n) /\ Trimmed(s) = SubSeq(s, 1, n)
  BY TrimmedIs
<1>2. n \in 0..Len(s) /\ \A j \in (n + 1)..Len(s) : s[j] \in {"blank"}
  BY <1>1 DEF Cut
<1>3. /\ SubSeq(s, 1, n) \in Seq(V) /\ Len(SubSeq(s, 1, n)) = n
      /\ \A j \in 1..n : SubSeq(s, 1, n)[j] = s[j]
  <2>1. \A j \in 1..n : s[j] \in V
    BY <1>0, <1>2
  <2> QED  BY <1>0, <1>2, <2>1, SubSeqProperties
<1> DEFINE r == SubSeq(s, n + 1, Len(s))
<1>4. r \in Seq({"blank"})
  BY <1>0, <1>2, SubSeqProperties
<1>5. s = SubSeq(s, 1, n) \o r
  <2>1. 1 \in 1..(Len(s) + 1) /\ n \in (1 - 1)..Len(s) /\ Len(s) \in n..Len(s)
    BY <1>0, <1>2
  <2>2. SubSeq(s, 1, n) \o SubSeq(s, n + 1, Len(s)) = SubSeq(s, 1, Len(s))
    BY <2>1, ConcatAdjacentSubSeq, Zenon
  <2> QED  BY <2>2, SubSeqFull
<1> QED  BY <1>1, <1>2, <1>3, <1>4, <1>5

LEMMA TrimmedOnly ==
  ASSUME NEW s \in Seq(Text)
  PROVE  Trimmed(s) \in Seq(Text) /\ Only(Trimmed(s), Own) = Only(s, Own)
<1>1. PICK r \in Seq({"blank"}) : s = Trimmed(s) \o r /\ Trimmed(s) \in Seq(Text)
  BY TrimmedCut
<1>2. r \in Seq(Text) /\ Only(r, Own) = << >>
  <2>1. {"blank"} \subseteq Text /\ {"blank"} \cap Own = {}
    BY TextLines
  <2>2. r \in Seq(Text)
    BY <2>1, SeqMonotonic
  <2>3. Only(r, Own) = << >>
    <3> DEFINE B == {"blank"}
    <3>1. r \in Seq(B) /\ B \cap Own = {}
      BY <2>1
    <3> HIDE DEF B
    <3> QED  BY <3>1, OnlyNone
  <2> QED  BY <2>2, <2>3
<1>3. Only(s, Own) = Only(Trimmed(s), Own) \o Only(r, Own)
  BY <1>1, <1>2, OnlyConcat
<1>4. Only(Trimmed(s), Own) \in Seq(Text)
  BY <1>1, OnlyType
<1> QED  BY <1>1, <1>2, <1>3, <1>4, ConcatEmptySeq

LEMMA TrimmedTwice ==
  ASSUME NEW V, NEW s \in Seq(V) PROVE Trimmed(Trimmed(s)) = Trimmed(s)
<1> DEFINE t == Trimmed(s)
<1>1. PICK n \in 0..Len(s) :
        Cut(s, n) /\ t \in Seq(V) /\ Len(t) = n /\ \A j \in 1..n : t[j] = s[j]
  BY TrimmedCut
<1> HIDE DEF t
<1>2. Cut(t, n)
  BY <1>1 DEF Cut
<1>3. Trimmed(t) = SubSeq(t, 1, n)
  BY <1>1, <1>2, TrimmedIs
<1> QED  BY <1>1, <1>3, SubSeqFull DEF t

LEMMA TrimmedBlank ==
  ASSUME NEW s \in Seq(Text) PROVE Trimmed(s \o <<"blank">>) = Trimmed(s)
<1> DEFINE t == s \o <<"blank">>
<1>1. /\ t \in Seq(Text) /\ Len(s) \in Nat /\ Len(t) = Len(s) + 1 /\ t[Len(s) + 1] = "blank"
      /\ \A j \in 1..Len(s) : t[j] = s[j]
  BY TextLines
<1> HIDE DEF t
<1>2. PICK n \in 0..Len(s) : Cut(s, n) /\ Trimmed(s) = SubSeq(s, 1, n)
  BY TrimmedCut
<1>3. Cut(t, n)
  BY <1>1, <1>2 DEF Cut
<1>4. Trimmed(t) = SubSeq(t, 1, n)
  BY <1>1, <1>3, TrimmedIs
<1>5. SubSeq(t, 1, n) = SubSeq(s, 1, n)
  <2>1. \A j \in 1..n : s[j] \in Text /\ t[j] \in Text /\ s[j] = t[j]
    BY <1>1
  <2>2. /\ SubSeq(s, 1, n) \in Seq(Text) /\ Len(SubSeq(s, 1, n)) = n
        /\ \A j \in 1..n : SubSeq(s, 1, n)[j] = s[j]
    BY <1>1, <2>1, SubSeqProperties
  <2>3. /\ SubSeq(t, 1, n) \in Seq(Text) /\ Len(SubSeq(t, 1, n)) = n
        /\ \A j \in 1..n : SubSeq(t, 1, n)[j] = t[j]
    BY <1>1, <2>1, SubSeqProperties
  <2>4. \A j \in 1..n : SubSeq(t, 1, n)[j] = SubSeq(s, 1, n)[j]
    BY <2>1, <2>2, <2>3
  <2> QED  BY <2>2, <2>3, <2>4, SeqEqual, Zenon
<1> QED  BY <1>2, <1>4, <1>5 DEF t
-----------------------------------------------------------------------------
(***************************************************************************)
(* Publishing and uninstalling.                                            *)
(***************************************************************************)

LEMMA OnlyWith ==
  ASSUME NEW a \in Seq(Text), NEW b \in Seq(Text)
  PROVE  Only(With(a, b), Own) = Only(a, Own) \o Only(b, Own)
<1>1. a \in Seq(Line) /\ b \in Seq(Line) /\ Block \in Seq(Line)
  BY TextAt, BlockAt
<1>2. Only(Block, Own) = << >>
  <2> DEFINE marks == {"start", "body", "end"}
  <2>1. Block \in Seq(marks)
    BY DEF Block
  <2>2. marks \cap Own = {}
    BY AgentsAssumption
  <2> HIDE DEF marks
  <2> QED  BY <2>1, <2>2, OnlyNone
<1>3. Only(a \o Block, Own) = Only(a, Own)
  <2>1. Only(a, Own) \in Seq(Line)
    BY <1>1, OnlyType
  <2>2. Only(a \o Block, Own) = Only(a, Own) \o Only(Block, Own)
    BY <1>1, OnlyConcat
  <2> QED  BY <1>2, <2>1, <2>2, ConcatEmptySeq
<1> DEFINE h == a \o Block
<1>4. h \in Seq(Line) /\ With(a, b) = h \o b
  BY <1>1 DEF With
<1> HIDE DEF h
<1>5. Only(With(a, b), Own) = Only(h, Own) \o Only(b, Own)
  BY <1>1, <1>4, OnlyConcat
<1> QED  BY <1>3, <1>5 DEF h

LEMMA OnlyBlank ==
  ASSUME NEW s \in Seq(Text)
  PROVE  s \o <<"blank">> \in Seq(Text) /\ Only(s \o <<"blank">>, Own) = Only(s, Own)
<1>1. "blank" \in Text /\ "blank" \notin Own
  BY TextLines
<1>2. s \o <<"blank">> = Append(s, "blank") /\ Append(s, "blank") \in Seq(Text)
  BY <1>1, AppendIsConcat
<1>3. Only(Append(s, "blank"), Own) = Only(s, Own)
  BY <1>1, OnlyAppend DEF Step
<1> QED  BY <1>2, <1>3

(* A file without the block gets it at the end, behind what was there and at most
   one blank line. *)
LEMMA EnsuredText ==
  ASSUME NEW s \in Seq(Text)
  PROVE  \E a \in Seq(Text) : /\ Ensured(s) = With(a, << >>)
                              /\ Only(a, Own) = Only(s, Own)
                              /\ Trimmed(a) = Trimmed(s)
<1>1. Bounds(s) = {}
  BY NoBounds
<1>2. s \o <<"blank">> \in Seq(Text) /\ <<"blank">> \in Seq(Text) /\ << >> \in Seq(Line)
  BY TextLines
<1>3. \A a \in Seq(Text) : a \o Block = With(a, << >>)
  <2> SUFFICES ASSUME NEW a \in Seq(Text) PROVE a \o Block = With(a, << >>)
    OBVIOUS
  <2>1. a \o Block \in Seq(Line)
    BY TextAt, BlockAt
  <2> QED  BY <2>1, ConcatEmptySeq DEF With
<1>4. Ensured(s) = s \o Block \/ Ensured(s) = s \o <<"blank">> \o Block
  BY <1>1 DEF Ensured
<1>5. CASE Ensured(s) = s \o Block
  BY <1>3, <1>5
<1>6. CASE Ensured(s) = s \o <<"blank">> \o Block
  <2> DEFINE a == s \o <<"blank">>
  <2>1. Ensured(s) = With(a, << >>)
    BY <1>2, <1>3, <1>6
  <2>2. Only(a, Own) = Only(s, Own)
    BY OnlyBlank
  <2>3. Trimmed(a) = Trimmed(s)
    BY TrimmedBlank
  <2> QED  BY <1>2, <2>1, <2>2, <2>3
<1> QED  BY <1>4, <1>5, <1>6

(* A file with the block in it stays as it is. *)
LEMMA EnsuredWith ==
  ASSUME NEW a \in Seq(Text), NEW b \in Seq(Text) PROVE Ensured(With(a, b)) = With(a, b)
<1> DEFINE c == <<Len(a) + 1, Len(a) + 3>>
           s == With(a, b)
<1>1. Bounds(s) = {c} /\ Before(s, c) = a /\ Behind(s, c) = b
  BY BlockBounds
<1> HIDE DEF c, s
<1>2. Ensured(s) = Before(s, c) \o Block \o Behind(s, c)
  BY <1>1 DEF Ensured
<1> QED  BY <1>1, <1>2 DEF s, With

(* Uninstalling takes out the block, and nothing but blank lines with it. *)
LEMMA RemovedText == ASSUME NEW s \in Seq(Text) PROVE Removed(s) = s
BY NoBounds DEF Removed

LEMMA RemovedWith ==
  ASSUME NEW a \in Seq(Text), NEW b \in Seq(Text)
  PROVE  /\ Removed(With(a, b)) \in Seq(Text)
         /\ Only(Removed(With(a, b)), Own) = Only(a, Own) \o Only(b, Own)
         /\ b = << >> => Removed(With(a, b)) = Trimmed(a)
<1> DEFINE c == <<Len(a) + 1, Len(a) + 3>>
           s == With(a, b)
           t == Trimmed(a)
           u == IF t = << >> THEN <<"blank">> ELSE t
           v == u \o <<"blank">>
           A == Only(a, Own)
<1>1. Bounds(s) = {c} /\ Before(s, c) = a /\ Behind(s, c) = b
  BY BlockBounds
<1>2. Removed(s) = IF Trimmed(b) = << >> THEN t ELSE v \o b
  <2> HIDE DEF c, s
  <2> QED  BY <1>1 DEF Removed
<1>3. <<"blank">> \in Seq(Text) /\ Only(<<"blank">>, Own) = << >>
  <2>1. << >> \in Seq(Text) /\ << >> \o <<"blank">> = <<"blank">>
    BY TextLines
  <2> QED  BY <2>1, OnlyBlank, OnlyEmpty, Zenon
<1>4. t \in Seq(Text) /\ Only(t, Own) = A /\ A \in Seq(Text)
  BY TrimmedOnly, OnlyType
<1> HIDE DEF t, s, c
<1>5. u \in Seq(Text) /\ Only(u, Own) = A
  BY <1>3, <1>4, OnlyEmpty
<1> HIDE DEF u
<1>6. v \in Seq(Text) /\ Only(v, Own) = A
  BY <1>5, OnlyBlank
<1> HIDE DEF v
<1>7. CASE Trimmed(b) = << >>
  <2>1. Only(b, Own) = << >>
    BY <1>7, TrimmedOnly, OnlyEmpty
  <2>2. Removed(s) = t /\ A \o Only(b, Own) = A
    <3> HIDE DEF A
    <3> QED  BY <1>2, <1>4, <1>7, <2>1, ConcatEmptySeq
  <2> QED  BY <1>4, <2>2 DEF s, t
<1>8. CASE Trimmed(b) # << >>
  <2>1. b # << >>
    <3>1. Trimmed(<< >>) = << >>
      <4>1. << >> \in Seq(Text) /\ Len(<< >>) = 0
        OBVIOUS
      <4>2. Trimmed(<< >>) \in Seq(Text) /\ Len(Trimmed(<< >>)) = 0
        <5> DEFINE e == << >>
        <5>1. e \in Seq(Text) /\ Len(e) = 0
          BY <4>1
        <5> HIDE DEF e
        <5>2. Trimmed(e) \in Seq(Text) /\ Len(Trimmed(e)) = 0
          <6>1. PICK n \in 0..Len(e) : Trimmed(e) \in Seq(Text) /\ Len(Trimmed(e)) = n
            BY <5>1, TrimmedCut
          <6> QED  BY <5>1, <6>1
        <5> QED  BY <5>2 DEF e
      <4> QED  BY <4>2, EmptySeq
    <3> QED  BY <1>8, <3>1
  <2>2. Removed(s) = v \o b /\ v \o b \in Seq(Text)
    BY <1>2, <1>6, <1>8
  <2>3. Only(v \o b, Own) = Only(v, Own) \o Only(b, Own)
    BY <1>6, OnlyConcat
  <2> QED  BY <1>6, <2>1, <2>2, <2>3 DEF s
<1> QED  BY <1>7, <1>8
-----------------------------------------------------------------------------
(***************************************************************************)
(* The user's edits.                                                       *)
(***************************************************************************)

(* The block is behind the n-th line of s, all other lines are the user's or
   blank. *)
BlockIn(s, n) ==
  /\ n \in Nat /\ n + 3 <= Len(s)
  /\ s[n + 1] = "start" /\ s[n + 2] = "body" /\ s[n + 3] = "end"
  /\ \A j \in 1..Len(s) : j <= n \/ j > n + 3 => s[j] \in Text

LEMMA BlockInWith ==
  ASSUME NEW a \in Seq(Text), NEW b \in Seq(Text)
  PROVE  With(a, b) \in Seq(Line) /\ BlockIn(With(a, b), Len(a))
<1> DEFINE s == With(a, b)
<1>1. /\ s \in Seq(Line) /\ Len(a) \in Nat /\ Len(b) \in Nat /\ Len(s) = Len(a) + 3 + Len(b)
      /\ \A j \in 1..Len(a) : s[j] = a[j]
      /\ s[Len(a) + 1] = "start" /\ s[Len(a) + 2] = "body" /\ s[Len(a) + 3] = "end"
      /\ \A j \in 1..Len(b) : s[Len(a) + 3 + j] = b[j]
  <2>1. a \in Seq(Line) /\ b \in Seq(Line)
    BY TextAt
  <2> QED  BY <2>1, WithAt, ZenonT(30)
<1>2. (\A j \in 1..Len(a) : a[j] \in Text) /\ (\A j \in 1..Len(b) : b[j] \in Text)
  OBVIOUS
<1> HIDE DEF s
<1>3. ASSUME NEW j \in 1..Len(s), j > Len(a) + 3 PROVE s[j] \in Text
  <2> DEFINE k == j - (Len(a) + 3)
  <2>1. k \in 1..Len(b) /\ j = Len(a) + 3 + k
    BY <1>1, <1>3
  <2> HIDE DEF k
  <2> QED  BY <1>1, <1>2, <2>1
<1>4. ASSUME NEW j \in 1..Len(s), j <= Len(a) PROVE s[j] \in Text
  <2>1. j \in 1..Len(a)
    BY <1>1, <1>4
  <2> QED  BY <1>1, <1>2, <2>1, Zenon
<1>5. BlockIn(s, Len(a))
  BY <1>1, <1>3, <1>4 DEF BlockIn
<1> QED  BY <1>1, <1>5 DEF s

LEMMA WithBlockIn ==
  ASSUME NEW s \in Seq(Line), NEW n, BlockIn(s, n)
  PROVE  \E a \in Seq(Text), b \in Seq(Text) : s = With(a, b) /\ Len(a) = n
<1> DEFINE a == SubSeq(s, 1, n)
           b == SubSeq(s, n + 4, Len(s))
<1>1. /\ n \in Nat /\ Len(s) \in Nat /\ n + 3 <= Len(s)
      /\ s[n + 1] = "start" /\ s[n + 2] = "body" /\ s[n + 3] = "end"
      /\ \A j \in 1..n : s[j] \in Text
      /\ \A j \in (n + 4)..Len(s) : s[j] \in Text
  BY DEF BlockIn
<1>2. a \in Seq(Text) /\ Len(a) = n /\ \A j \in 1..n : a[j] = s[j]
  BY <1>1, SubSeqProperties
<1>3. /\ b \in Seq(Text) /\ Len(b) = Len(s) - (n + 3)
      /\ \A j \in 1..(Len(s) - (n + 3)) : b[j] = s[n + 3 + j]
  <2>1. /\ b \in Seq(Text)
        /\ Len(b) = IF n + 4 <= Len(s) THEN Len(s) - (n + 4) + 1 ELSE 0
        /\ \A j \in 1..(Len(s) - (n + 4) + 1) : b[j] = s[n + 4 + j - 1]
    BY <1>1, SubSeqProperties
  <2> HIDE DEF b
  <2> QED  BY <1>1, <2>1
<1> HIDE DEF a, b
<1> DEFINE t == With(a, b)
<1>4. /\ t \in Seq(Line) /\ Len(t) = Len(s)
      /\ \A j \in 1..n : t[j] = a[j]
      /\ t[n + 1] = "start" /\ t[n + 2] = "body" /\ t[n + 3] = "end"
      /\ \A j \in 1..(Len(s) - (n + 3)) : t[n + 3 + j] = b[j]
  <2>1. a \in Seq(Line) /\ b \in Seq(Line)
    BY <1>2, <1>3, TextAt
  <2>2. /\ t \in Seq(Line) /\ Len(t) = Len(a) + 3 + Len(b)
        /\ \A j \in 1..Len(a) : t[j] = a[j]
        /\ t[Len(a) + 1] = "start" /\ t[Len(a) + 2] = "body" /\ t[Len(a) + 3] = "end"
        /\ \A j \in 1..Len(b) : t[Len(a) + 3 + j] = b[j]
    BY <2>1, WithAt, ZenonT(30)
  <2> HIDE DEF t
  <2> QED  BY <1>1, <1>2, <1>3, <2>2
<1> HIDE DEF t
<1>5. ASSUME NEW j \in 1..Len(s) PROVE t[j] = s[j]
  <2>1. CASE j <= n
    BY <1>1, <1>2, <1>4, <2>1
  <2>2. CASE j \in {n + 1, n + 2, n + 3}
    BY <1>1, <1>4, <2>2
  <2>3. CASE j > n + 3
    <3> DEFINE k == j - (n + 3)
    <3>1. k \in 1..(Len(s) - (n + 3)) /\ j = n + 3 + k
      BY <1>1, <2>3
    <3> HIDE DEF k
    <3> QED  BY <1>3, <1>4, <3>1
  <2> QED  BY <1>1, <2>1, <2>2, <2>3
<1>6. t = s
  BY <1>4, <1>5, SeqEqual
<1> QED  BY <1>2, <1>3, <1>6 DEF t

LEMMA InsertText ==
  ASSUME NEW s \in Seq(Text), NEW i \in 1..(Len(s) + 1), NEW e \in Text
  PROVE  InsertAt(s, i, e) \in Seq(Text)
BY InsertAtIs

LEMMA InsertBlockIn ==
  ASSUME NEW s \in Seq(Line), NEW n, BlockIn(s, n),
         NEW i \in 1..(Len(s) + 1), i <= n + 1 \/ i > n + 3, NEW e \in Text
  PROVE  InsertAt(s, i, e) \in Seq(Line)
         /\ \E m : BlockIn(InsertAt(s, i, e), m)
<1> DEFINE t == InsertAt(s, i, e)
<1>1. /\ t \in Seq(Line) /\ Len(t) = Len(s) + 1 /\ Len(s) \in Nat
      /\ \A j \in 1..(Len(s) + 1) : t[j] = IF j < i THEN s[j] ELSE IF j = i THEN e ELSE s[j - 1]
  BY InsertAtIs, TextLines
<1> HIDE DEF t
<1>2. /\ \A j \in 1..(Len(s) + 1) : j < i => t[j] = s[j]
      /\ t[i] = e
      /\ \A j \in 1..Len(s) : j >= i => t[j + 1] = s[j]
  <2>1. ASSUME NEW j \in 1..Len(s), j >= i PROVE t[j + 1] = s[j]
    <3> DEFINE k == j + 1
    <3>1. k \in 1..(Len(s) + 1) /\ ~(k < i) /\ k # i /\ k - 1 = j
      BY <1>1, <2>1
    <3> HIDE DEF k
    <3>2. t[k] = s[j]
      BY <1>1, <3>1, Zenon
    <3> QED  BY <3>2 DEF k
  <2> QED  BY <1>1, <2>1
<1>3. /\ n \in Nat /\ n + 3 <= Len(s)
      /\ s[n + 1] = "start" /\ s[n + 2] = "body" /\ s[n + 3] = "end"
      /\ \A j \in 1..Len(s) : j <= n \/ j > n + 3 => s[j] \in Text
  BY DEF BlockIn
<1>4. \A j \in 1..Len(t) : j < i \/ j = i \/ (j - 1 \in 1..Len(s) /\ j - 1 >= i /\ t[j] = s[j - 1])
  <2> SUFFICES ASSUME NEW j \in 1..Len(t), j > i
               PROVE  j - 1 \in 1..Len(s) /\ j - 1 >= i /\ t[j] = s[j - 1]
    BY <1>1
  <2> DEFINE k == j - 1
  <2>1. k \in 1..Len(s) /\ k >= i /\ j = k + 1
    BY <1>1
  <2> HIDE DEF k
  <2>2. t[k + 1] = s[k]
    BY <1>2, <2>1
  <2>3. t[j] = s[k]
    BY <2>1, <2>2
  <2> QED  BY <2>1, <2>3 DEF k
<1>5. CASE i <= n + 1
  <2>1. t[n + 2] = "start" /\ t[n + 3] = "body" /\ t[n + 4] = "end"
    <3>1. /\ n + 1 \in 1..Len(s) /\ n + 1 >= i /\ n + 1 + 1 = n + 2
          /\ n + 2 \in 1..Len(s) /\ n + 2 >= i /\ n + 2 + 1 = n + 3
          /\ n + 3 \in 1..Len(s) /\ n + 3 >= i /\ n + 3 + 1 = n + 4
      BY <1>1, <1>3, <1>5
    <3> QED  BY <1>2, <1>3, <3>1
  <2>2. ASSUME NEW j \in 1..Len(t), j <= n + 1 \/ j > n + 4 PROVE t[j] \in Text
    <3>1. CASE j < i
      <4>1. j \in 1..(Len(s) + 1) /\ j \in 1..Len(s) /\ j <= n
        BY <1>1, <1>3, <1>5, <3>1
      <4> QED  BY <1>2, <1>3, <3>1, <4>1
    <3>2. CASE j = i
      BY <1>2, <3>2
    <3>3. CASE j - 1 \in 1..Len(s) /\ j - 1 >= i /\ t[j] = s[j - 1]
      <4>1. j - 1 <= n \/ j - 1 > n + 3
        BY <1>3, <2>2, <3>3
      <4> QED  BY <1>3, <3>3, <4>1
    <3> QED  BY <1>4, <3>1, <3>2, <3>3
  <2>3. BlockIn(t, n + 1)
    BY <1>1, <1>3, <2>1, <2>2 DEF BlockIn
  <2> QED  BY <1>1, <2>3 DEF t
<1>6. CASE i > n + 3
  <2>1. t[n + 1] = "start" /\ t[n + 2] = "body" /\ t[n + 3] = "end"
    <3>1. /\ n + 1 \in 1..(Len(s) + 1) /\ n + 1 < i
          /\ n + 2 \in 1..(Len(s) + 1) /\ n + 2 < i
          /\ n + 3 \in 1..(Len(s) + 1) /\ n + 3 < i
      BY <1>1, <1>3, <1>6
    <3> QED  BY <1>2, <1>3, <3>1
  <2>2. ASSUME NEW j \in 1..Len(t), j <= n \/ j > n + 3 PROVE t[j] \in Text
    <3>1. CASE j < i
      BY <1>1, <1>2, <1>3, <2>2, <3>1
    <3>2. CASE j = i
      BY <1>2, <3>2
    <3>3. CASE j - 1 \in 1..Len(s) /\ j - 1 >= i /\ t[j] = s[j - 1]
      <4>1. j - 1 > n + 3
        BY <1>3, <1>6, <3>3
      <4> QED  BY <1>3, <3>3, <4>1
    <3> QED  BY <1>4, <3>1, <3>2, <3>3
  <2>3. BlockIn(t, n)
    BY <1>1, <1>3, <2>1, <2>2 DEF BlockIn
  <2> QED  BY <1>1, <2>3 DEF t
<1> QED  BY <1>5, <1>6

LEMMA RemoveText ==
  ASSUME NEW s \in Seq(Text), NEW i \in 1..Len(s) PROVE RemoveAt(s, i) \in Seq(Text)
BY RemoveAtIs

LEMMA RemoveBlockIn ==
  ASSUME NEW s \in Seq(Line), NEW n, BlockIn(s, n), NEW i \in 1..Len(s), s[i] \in Text
  PROVE  RemoveAt(s, i) \in Seq(Line) /\ \E m : BlockIn(RemoveAt(s, i), m)
<1> DEFINE t == RemoveAt(s, i)
<1>1. /\ t \in Seq(Line) /\ Len(t) = Len(s) - 1 /\ Len(s) \in Nat
      /\ \A j \in 1..(Len(s) - 1) : t[j] = IF j < i THEN s[j] ELSE s[j + 1]
  BY RemoveAtIs
<1> HIDE DEF t
<1>2. /\ n \in Nat /\ n + 3 <= Len(s)
      /\ s[n + 1] = "start" /\ s[n + 2] = "body" /\ s[n + 3] = "end"
      /\ \A j \in 1..Len(s) : j <= n \/ j > n + 3 => s[j] \in Text
  BY DEF BlockIn
<1>3. i <= n \/ i > n + 3
  <2>1. i # n + 1 /\ i # n + 2 /\ i # n + 3
    BY <1>2, TextLines
  <2> QED  BY <1>1, <1>2, <2>1
<1>4. /\ \A j \in 1..(Len(s) - 1) : j < i => t[j] = s[j]
      /\ \A j \in 1..(Len(s) - 1) : j >= i => j + 1 \in 1..Len(s) /\ t[j] = s[j + 1]
  <2>1. ASSUME NEW j \in 1..(Len(s) - 1), j >= i PROVE t[j] = s[j + 1]
    <3>1. ~(j < i)
      BY <1>1, <2>1
    <3> QED  BY <1>1, <3>1, Zenon
  <2> QED  BY <1>1, <2>1
<1>5. CASE i <= n
  <2> DEFINE m == n - 1
  <2>1. /\ m \in Nat /\ m + 1 = n /\ m + 2 = n + 1 /\ m + 3 = n + 2 /\ m + 3 <= Len(s) - 1
        /\ m + 1 + 1 = n + 1 /\ m + 2 + 1 = n + 2 /\ m + 3 + 1 = n + 3
        /\ m + 1 \in 1..(Len(s) - 1) /\ m + 1 >= i
        /\ m + 2 \in 1..(Len(s) - 1) /\ m + 2 >= i
        /\ m + 3 \in 1..(Len(s) - 1) /\ m + 3 >= i
    BY <1>1, <1>2, <1>5
  <2> HIDE DEF m
  <2>2. t[m + 1] = "start" /\ t[m + 2] = "body" /\ t[m + 3] = "end"
    BY <1>2, <1>4, <2>1
  <2>3. ASSUME NEW j \in 1..Len(t), j <= m \/ j > m + 3 PROVE t[j] \in Text
    <3>1. CASE j < i
      BY <1>1, <1>2, <1>4, <1>5, <3>1
    <3>2. CASE j >= i
      <4>1. j + 1 \in 1..Len(s) /\ t[j] = s[j + 1]
        BY <1>1, <1>4, <3>2
      <4>2. j + 1 <= n \/ j + 1 > n + 3
        BY <1>2, <2>1, <2>3
      <4> QED  BY <1>2, <4>1, <4>2
    <3> QED  BY <1>1, <3>1, <3>2
  <2>4. BlockIn(t, m)
    BY <1>1, <2>1, <2>2, <2>3 DEF BlockIn
  <2> QED  BY <1>1, <2>4 DEF t
<1>6. CASE i > n + 3
  <2>1. t[n + 1] = "start" /\ t[n + 2] = "body" /\ t[n + 3] = "end" /\ n + 3 <= Len(t)
    BY <1>1, <1>2, <1>4, <1>6
  <2>2. ASSUME NEW j \in 1..Len(t), j <= n \/ j > n + 3 PROVE t[j] \in Text
    <3>1. CASE j < i
      BY <1>1, <1>2, <1>4, <2>2, <3>1
    <3>2. CASE j >= i
      <4>1. j + 1 \in 1..Len(s) /\ t[j] = s[j + 1]
        BY <1>1, <1>4, <3>2
      <4>2. j + 1 > n + 3
        BY <1>2, <1>6, <3>2
      <4> QED  BY <1>2, <4>1, <4>2
    <3> QED  BY <1>1, <3>1, <3>2
  <2>3. BlockIn(t, n)
    BY <1>1, <1>2, <2>1, <2>2 DEF BlockIn
  <2> QED  BY <1>1, <2>3 DEF t
<1> QED  BY <1>3, <1>5, <1>6

(* No line is twice in s. *)
Once(s) == \A i, j \in 1..Len(s) : s[i] = s[j] => i = j

LEMMA BetweenAt ==
  ASSUME NEW V, NEW p \in Seq(V), NEW q \in Seq(V), NEW e \in V
  PROVE  /\ p \o <<e>> \o q \in Seq(V) /\ Len(p) \in Nat /\ Len(q) \in Nat
         /\ Len(p \o <<e>> \o q) = Len(p) + 1 + Len(q)
         /\ \A j \in 1..Len(p) : (p \o <<e>> \o q)[j] = p[j]
         /\ (p \o <<e>> \o q)[Len(p) + 1] = e
         /\ \A j \in 1..Len(q) : (p \o <<e>> \o q)[Len(p) + 1 + j] = q[j]
<1> DEFINE h == p \o <<e>>
<1>1. /\ h \in Seq(V) /\ Len(h) = Len(p) + 1 /\ Len(p) \in Nat
      /\ h[Len(p) + 1] = e /\ \A j \in 1..Len(p) : h[j] = p[j]
  OBVIOUS
<1> HIDE DEF h
<1>2. Joined(h \o q, h, q, V)
  BY <1>1, ConcatAt
<1> DEFINE r == h \o q
<1> HIDE DEF r
<1>3. /\ r \in Seq(V) /\ Len(r) = Len(h) + Len(q) /\ Len(h) \in Nat /\ Len(q) \in Nat
      /\ \A j \in 1..Len(h) : r[j] = h[j]
      /\ \A j \in 1..Len(q) : r[Len(h) + j] = q[j]
  BY <1>2 DEF Joined, r
<1>4. /\ r \in Seq(V) /\ Len(p) \in Nat /\ Len(q) \in Nat
      /\ Len(r) = Len(p) + 1 + Len(q)
      /\ \A j \in 1..Len(p) : r[j] = p[j]
      /\ r[Len(p) + 1] = e
      /\ \A j \in 1..Len(q) : r[Len(p) + 1 + j] = q[j]
  BY <1>1, <1>3
<1> QED  BY <1>4 DEF r, h

LEMMA OnceInsert ==
  ASSUME NEW V, NEW e \in V, NEW p \in Seq(V \ {e}), NEW q \in Seq(V \ {e}), Once(p \o q)
  PROVE  Once(p \o <<e>> \o q)
<1> DEFINE r == p \o <<e>> \o q
           s == p \o q
           n == Len(p)
<1>0. p \in Seq(V) /\ q \in Seq(V)
  BY SeqMonotonic
<1>1. /\ n \in Nat /\ Len(q) \in Nat /\ Len(r) = n + 1 + Len(q)
      /\ \A j \in 1..n : r[j] = p[j]
      /\ r[n + 1] = e
      /\ \A j \in 1..Len(q) : r[n + 1 + j] = q[j]
  BY <1>0, BetweenAt
<1>2. /\ Len(s) = n + Len(q)
      /\ \A j \in 1..n : s[j] = p[j]
      /\ \A j \in 1..Len(q) : s[n + j] = q[j]
  BY <1>0, ConcatAt DEF Joined
<1>3. (\A j \in 1..n : p[j] # e) /\ (\A j \in 1..Len(q) : q[j] # e)
  OBVIOUS
<1> HIDE DEF r, s, n
<1>4. ASSUME NEW k \in 1..Len(r), k # n + 1
      PROVE  r[k] # e /\ \E c \in 1..Len(s) : /\ r[k] = s[c]
                                              /\ k <= n => c = k
                                              /\ k > n + 1 => c = k - 1 /\ c > n
  <2>1. CASE k <= n
    <3>1. k \in 1..n /\ k \in 1..Len(s) /\ ~(k > n + 1)
      BY <1>1, <1>2, <2>1
    <3> QED  BY <1>1, <1>2, <1>3, <3>1
  <2>2. CASE k > n + 1
    <3> DEFINE j == k - (n + 1)
    <3>1. /\ j \in 1..Len(q) /\ k = n + 1 + j /\ n + j \in 1..Len(s) /\ n + j = k - 1
          /\ n + j > n /\ ~(k <= n)
      BY <1>1, <1>2, <2>2
    <3> HIDE DEF j
    <3>2. r[k] = q[j] /\ s[n + j] = q[j] /\ q[j] # e
      BY <1>1, <1>2, <1>3, <3>1
    <3> QED  BY <3>1, <3>2
  <2> QED  BY <1>1, <1>4, <2>1, <2>2
<1>5. Once(s)
  BY DEF s
<1>6. ASSUME NEW i \in 1..Len(r), NEW j \in 1..Len(r), r[i] = r[j] PROVE i = j
  <2>1. CASE i = n + 1 \/ j = n + 1
    BY <1>1, <1>4, <1>6, <2>1
  <2>2. CASE i # n + 1 /\ j # n + 1
    <3>1. PICK c \in 1..Len(s) : /\ r[i] = s[c] /\ (i <= n => c = i)
                                 /\ i > n + 1 => c = i - 1 /\ c > n
      BY <1>4, <2>2
    <3>2. PICK d \in 1..Len(s) : /\ r[j] = s[d] /\ (j <= n => d = j)
                                 /\ j > n + 1 => d = j - 1 /\ d > n
      BY <1>4, <2>2
    <3>3. c = d
      BY <1>5, <1>6, <3>1, <3>2 DEF Once
    <3> QED  BY <1>1, <2>2, <3>1, <3>2, <3>3
  <2> QED  BY <2>1, <2>2
<1> QED  BY <1>6 DEF Once, r

LEMMA OnceRemove ==
  ASSUME NEW V, NEW e \in V, NEW p \in Seq(V), NEW q \in Seq(V), Once(p \o <<e>> \o q)
  PROVE  Once(p \o q) /\ p \in Seq(V \ {e}) /\ q \in Seq(V \ {e})
<1> DEFINE r == p \o <<e>> \o q
           s == p \o q
           n == Len(p)
<1>1. /\ n \in Nat /\ Len(q) \in Nat /\ Len(r) = n + 1 + Len(q)
      /\ \A j \in 1..n : r[j] = p[j]
      /\ r[n + 1] = e
      /\ \A j \in 1..Len(q) : r[n + 1 + j] = q[j]
  BY BetweenAt
<1>2. /\ Len(s) = n + Len(q)
      /\ \A j \in 1..n : s[j] = p[j]
      /\ \A j \in 1..Len(q) : s[n + j] = q[j]
  BY ConcatAt DEF Joined
<1>3. Once(r)
  OBVIOUS
<1> HIDE DEF r, s
<1>4. ASSUME NEW k \in 1..Len(s)
      PROVE  \E c \in 1..Len(r) : s[k] = r[c] /\ (k <= n => c = k) /\ (k > n => c = k + 1)
  <2>1. CASE k <= n
    <3>1. k \in 1..n /\ k \in 1..Len(r) /\ ~(k > n)
      BY <1>1, <1>2, <2>1
    <3> QED  BY <1>1, <1>2, <3>1
  <2>2. CASE k > n
    <3> DEFINE j == k - n
    <3>1. /\ j \in 1..Len(q) /\ k = n + j /\ n + 1 + j \in 1..Len(r) /\ n + 1 + j = k + 1
          /\ ~(k <= n)
      BY <1>1, <1>2, <2>2
    <3> HIDE DEF j
    <3> QED  BY <1>1, <1>2, <3>1
  <2> QED  BY <1>1, <1>2, <2>1, <2>2
<1>5. ASSUME NEW i \in 1..Len(s), NEW j \in 1..Len(s), s[i] = s[j] PROVE i = j
  <2>1. PICK c \in 1..Len(r) : s[i] = r[c] /\ (i <= n => c = i) /\ (i > n => c = i + 1)
    BY <1>4
  <2>2. PICK d \in 1..Len(r) : s[j] = r[d] /\ (j <= n => d = j) /\ (j > n => d = j + 1)
    BY <1>4
  <2>3. c = d
    BY <1>3, <1>5, <2>1, <2>2 DEF Once
  <2> QED  BY <1>1, <1>2, <2>1, <2>2, <2>3
<1>6. \A j \in 1..n : p[j] \in V \ {e}
  <2> SUFFICES ASSUME NEW j \in 1..n PROVE p[j] # e
    OBVIOUS
  <2>1. j \in 1..Len(r) /\ n + 1 \in 1..Len(r) /\ j # n + 1
    BY <1>1
  <2> QED  BY <1>1, <1>3, <2>1 DEF Once
<1>7. \A j \in 1..Len(q) : q[j] \in V \ {e}
  <2> SUFFICES ASSUME NEW j \in 1..Len(q) PROVE q[j] # e
    OBVIOUS
  <2>1. n + 1 + j \in 1..Len(r) /\ n + 1 \in 1..Len(r) /\ n + 1 + j # n + 1
    BY <1>1
  <2> QED  BY <1>1, <1>3, <2>1 DEF Once
<1>8. Once(s)
  BY <1>5, Zenon DEF Once
<1>9. p \in Seq(V \ {e}) /\ q \in Seq(V \ {e})
  BY <1>6, <1>7 DEF n
<1> QED  BY <1>8, <1>9 DEF s

(* The user's lines of a file in which each is once. *)
LEMMA OnceOnly ==
  ASSUME NEW s \in Seq(Text),
         \A i, j \in 1..Len(s) : s[i] = s[j] /\ s[i] # "blank" => i = j
  PROVE  Once(Only(s, Own))
<1> DEFINE Fresh(t) == \A i, j \in 1..Len(t) : t[i] = t[j] /\ t[i] # "blank" => i = j
           P == { t \in Seq(Text) : Fresh(t) => Once(Only(t, Own)) }
<1>1. << >> \in P
  <2>1. << >> \in Seq(Text) /\ Once(<< >>)
    BY DEF Once
  <2> QED  BY <2>1, OnlyEmpty, Zenon
<1>2. ASSUME NEW t \in Seq(Text), NEW e \in Text, t \in P PROVE Append(t, e) \in P
  <2> DEFINE u == Append(t, e)
  <2>0. /\ u \in Seq(Text) /\ Len(t) \in Nat /\ Len(u) = Len(t) + 1 /\ u[Len(t) + 1] = e
        /\ \A j \in 1..Len(t) : u[j] = t[j]
    OBVIOUS
  <2>1. Only(u, Own) = Step(Only(t, Own), e, Own)
    BY OnlyAppend
  <2> HIDE DEF u
  <2>2. ASSUME Fresh(u) PROVE Once(Only(u, Own))
    <3>1. Fresh(t)
      BY <2>0, <2>2
    <3>2. Once(Only(t, Own))
      BY <1>2, <3>1
    <3>3. CASE e \notin Own
      BY <2>1, <3>2, <3>3 DEF Step
    <3>4. CASE e \in Own
      <4>1. e # "blank"
        BY <3>4, TextLines
      <4>2. \A j \in 1..Len(t) : t[j] # e
        BY <2>0, <2>2, <4>1
      <4>3. t \in Seq(Text \ {e})
        <5>1. \A j \in 1..Len(t) : t[j] \in Text \ {e}
          BY <4>2
        <5> QED  BY <5>1
      <4>4. Only(t, Own) \in Seq(Text \ {e})
        BY <4>3, OnlyType
      <4> DEFINE o == Only(t, Own)
      <4>5. o \in Seq(Text \ {e}) /\ << >> \in Seq(Text \ {e}) /\ Once(o)
        BY <3>2, <4>4
      <4> HIDE DEF o
      <4>6. o \o << >> = o
        BY <4>5
      <4>7. Once(o \o <<e>> \o << >>)
        BY <4>5, <4>6, OnceInsert
      <4>8. o \o <<e>> \o << >> = Append(o, e)
        BY <4>5
      <4> QED  BY <2>1, <3>4, <4>7, <4>8 DEF Step, o
    <3> QED  BY <3>3, <3>4
  <2> QED  BY <2>0, <2>2 DEF u
<1> HIDE DEF P
<1>3. s \in P
  BY <1>1, <1>2, SeqInduction
<1> QED  BY <1>3 DEF P

(* An edit does to the user's lines what it does to the file. *)
LEMMA InsertOnly ==
  ASSUME NEW s \in Seq(Line), NEW i \in 1..(Len(s) + 1), NEW e \in Text,
         e \in Own => \A j \in 1..Len(s) : s[j] # e,
         Once(Only(s, Own))
  PROVE  Once(Only(InsertAt(s, i, e), Own))
<1> DEFINE x == SubSeq(s, 1, i - 1)
           y == SubSeq(s, i, Len(s))
           p == Only(x, Own)
           q == Only(y, Own)
<1>0. Len(s) \in Nat /\ \A j \in 1..Len(s) : s[j] \in Line
  OBVIOUS
<1>1. x \in Seq(Line) /\ y \in Seq(Line)
  BY <1>0, SubSeqProperties
<1>2. x \o y = s
  <2>1. 1 \in 1..(Len(s) + 1) /\ i - 1 \in (1 - 1)..Len(s) /\ Len(s) \in (i - 1)..Len(s)
        /\ i - 1 + 1 = i
    BY <1>0
  <2>2. SubSeq(s, 1, i - 1) \o SubSeq(s, i - 1 + 1, Len(s)) = SubSeq(s, 1, Len(s))
    BY <2>1, ConcatAdjacentSubSeq, Zenon
  <2> QED  BY <2>1, <2>2, SubSeqFull
<1>3. <<e>> \in Seq(Line) /\ e \in Line /\ InsertAt(s, i, e) = x \o <<e>> \o y
  BY TextLines DEF InsertAt
<1>4. ASSUME e \in Own PROVE x \in Seq(Line \ {e}) /\ y \in Seq(Line \ {e})
  <2>1. \A j \in 1..Len(s) : s[j] \in Line \ {e}
    BY <1>0, <1>4
  <2> QED  BY <1>0, <2>1, SubSeqProperties
<1> HIDE DEF x, y
<1>5. p \in Seq(Line) /\ q \in Seq(Line) /\ Only(s, Own) = p \o q
  <2>1. Only(x \o y, Own) = Only(x, Own) \o Only(y, Own)
    BY <1>1, OnlyConcat
  <2>2. Only(x, Own) \in Seq(Line) /\ Only(y, Own) \in Seq(Line)
    BY <1>1, OnlyType
  <2> QED  BY <1>2, <2>1, <2>2
<1>6. x \o <<e>> = Append(x, e) /\ Append(x, e) \in Seq(Line)
  BY <1>1, <1>3, AppendIsConcat
<1>7. Only(InsertAt(s, i, e), Own) = Step(p, e, Own) \o q
  <2> DEFINE h == x \o <<e>>
  <2>1. h \in Seq(Line) /\ Only(h, Own) = Step(p, e, Own) /\ InsertAt(s, i, e) = h \o y
    BY <1>1, <1>3, <1>6, OnlyAppend
  <2> HIDE DEF h
  <2>2. Only(h \o y, Own) = Only(h, Own) \o Only(y, Own)
    BY <1>1, <2>1, OnlyConcat
  <2> QED  BY <2>1, <2>2, Zenon
<1>8. CASE e \notin Own
  BY <1>5, <1>7, <1>8 DEF Step
<1>9. CASE e \in Own
  <2>1. p \in Seq(Line \ {e}) /\ q \in Seq(Line \ {e})
    BY <1>4, <1>9, OnlyType
  <2>2. Step(p, e, Own) = p \o <<e>>
    BY <1>3, <1>5, <1>9, AppendIsConcat DEF Step
  <2> HIDE DEF p, q
  <2>3. Once(p \o <<e>> \o q)
    BY <1>3, <1>5, <2>1, OnceInsert
  <2> QED  BY <1>7, <2>2, <2>3
<1> QED  BY <1>8, <1>9

LEMMA RemoveOnly ==
  ASSUME NEW s \in Seq(Line), NEW i \in 1..Len(s), s[i] \in Text, Once(Only(s, Own))
  PROVE  /\ Once(Only(RemoveAt(s, i), Own))
         /\ Only(Only(s, Own), Own \ {s[i]}) = Only(RemoveAt(s, i), Own)
<1> DEFINE x == SubSeq(s, 1, i - 1)
           z == SubSeq(s, 1, i)
           y == SubSeq(s, i + 1, Len(s))
           e == s[i]
           p == Only(x, Own)
           q == Only(y, Own)
<1>0. Len(s) \in Nat /\ \A j \in 1..Len(s) : s[j] \in Line
  OBVIOUS
<1>1. x \in Seq(Line) /\ y \in Seq(Line) /\ z \in Seq(Line) /\ e \in Line
  BY <1>0, SubSeqProperties
<1>2. z \o y = s
  <2>1. 1 \in 1..(Len(s) + 1) /\ i \in (1 - 1)..Len(s) /\ Len(s) \in i..Len(s)
    BY <1>0
  <2>2. SubSeq(s, 1, i) \o SubSeq(s, i + 1, Len(s)) = SubSeq(s, 1, Len(s))
    BY <2>1, ConcatAdjacentSubSeq, Zenon
  <2> QED  BY <2>1, <2>2, SubSeqFull
<1>3. z = x \o <<e>>
  <2>1. 1 \in 1..Len(s) /\ i \in 1..Len(s)
    BY <1>0
  <2> QED  BY <2>1, SubSeqRecursiveSecond, Zenon
<1>4. RemoveAt(s, i) = x \o y
  BY DEF RemoveAt
<1> HIDE DEF x, y, z
<1>5. z = Append(x, e)
  BY <1>1, <1>3, AppendIsConcat
<1>6. p \in Seq(Own) /\ q \in Seq(Own) /\ Only(RemoveAt(s, i), Own) = p \o q
  <2>1. Only(x \o y, Own) = Only(x, Own) \o Only(y, Own)
    BY <1>1, OnlyConcat
  <2>2. Only(x, Own) \in Seq(Line \cap Own) /\ Only(y, Own) \in Seq(Line \cap Own)
    BY <1>1, OnlyType
  <2> QED  BY <1>4, <2>1, <2>2, TextLines, SMTT(30)
<1>7. Only(s, Own) = Step(p, e, Own) \o q
  <2>1. Only(s, Own) = Only(z, Own) \o Only(y, Own)
    BY <1>1, <1>2, OnlyConcat
  <2>2. Only(z, Own) = Step(p, e, Own)
    BY <1>1, <1>5, OnlyAppend
  <2> QED  BY <2>1, <2>2
<1>8. CASE e \notin Own
  <2>1. Own \ {e} = Own /\ Only(s, Own) = p \o q
    BY <1>7, <1>8 DEF Step
  <2>2. p \o q \in Seq(Own)
    BY <1>6
  <2>3. Only(p \o q, Own) = p \o q
    BY <2>2, OnlyAll
  <2> QED  BY <1>6, <2>1, <2>3
<1>9. CASE e \in Own
  <2>1. Step(p, e, Own) = p \o <<e>> /\ <<e>> \in Seq(Own)
    BY <1>6, <1>9, AppendIsConcat DEF Step
  <2> HIDE DEF p, q, e
  <2>2. Once(p \o <<e>> \o q)
    BY <1>7, <2>1 DEF e
  <2>3. Once(p \o q) /\ p \in Seq(Own \ {e}) /\ q \in Seq(Own \ {e})
    BY <1>6, <1>9, <2>2, OnceRemove
  <2> DEFINE h == p \o <<e>>
             S == Own \ {e}
  <2>4. h = Append(p, e) /\ h \in Seq(Own)
    BY <1>6, <1>9, <2>1, AppendIsConcat
  <2>5. Only(p, S) = p /\ Only(q, S) = q
    BY <2>3, OnlyAll
  <2> HIDE DEF S, h
  <2>6. Only(h, S) = p
    BY <1>6, <1>9, <2>4, <2>5, OnlyAppend DEF Step, S
  <2>7. Only(h \o q, S) = p \o q
    <3>1. Only(h \o q, S) = Only(h, S) \o Only(q, S)
      BY <1>6, <2>4, OnlyConcat
    <3> QED  BY <2>5, <2>6, <3>1
  <2> QED  BY <1>6, <1>7, <2>1, <2>3, <2>7 DEF h, S, e
<1> QED  BY <1>8, <1>9
-----------------------------------------------------------------------------
(***************************************************************************)
(* The inductive invariant.                                                *)
(***************************************************************************)

(* The file has the whole block once or no line of it. *)
Whole == file \in Seq(Line) /\ (file \in Seq(Text) \/ \E n : BlockIn(file, n))

IInv == Whole /\ Kept /\ Once(mine)

(* The two forms of the file. *)
LEMMA Forms ==
  ASSUME Whole
  PROVE  file \in Seq(Text) \/ \E a, b \in Seq(Text) : file = With(a, b)
BY WithBlockIn DEF Whole

LEMMA InitIInv == Init => IInv
<1> SUFFICES ASSUME Init PROVE IInv
  OBVIOUS
<1>1. PICK n \in 0..2 : file \in [1..n -> Own \cup {"blank"}]
  BY DEF Init
<1>2. file \in Seq(Text)
  BY <1>1 DEF Text
<1>3. Whole
  BY <1>2, TextAt DEF Whole
<1>4. \A i, j \in 1..Len(file) : file[i] = file[j] /\ file[i] # "blank" => i = j
  BY <1>2 DEF Init
<1> QED  BY <1>2, <1>3, <1>4, OnceOnly DEF IInv, Init, Kept

LEMMA NextIInv == ~Breaks /\ IInv /\ [Next]_vars => IInv'
<1> SUFFICES ASSUME ~Breaks, IInv, [Next]_vars PROVE IInv'
  OBVIOUS
<1>0. file \in Seq(Line) /\ Whole /\ Kept /\ Once(mine)
  BY DEF IInv, Whole
<1>1. ASSUME NEW i \in 1..(Len(file) + 1), NEW l \in Own \cup {"blank"}, WriteLine(i, l)
      PROVE  IInv'
  <2>1. /\ l \in Text /\ file' = InsertAt(file, i, l) /\ mine' = Only(file', Own)
        /\ l \in Own => \A j \in 1..Len(file) : file[j] # l
        /\ \A b \in Bounds(file) : i <= b[1] \/ i > b[2]
    BY <1>1 DEF WriteLine, Text
  <2>2. Whole'
    <3>1. CASE file \in Seq(Text)
      BY <2>1, <3>1, InsertText, TextAt DEF Whole
    <3>2. ASSUME NEW n, BlockIn(file, n) PROVE Whole'
      <4>1. PICK a \in Seq(Text), b \in Seq(Text) : file = With(a, b) /\ Len(a) = n
        BY <1>0, <3>2, WithBlockIn
      <4>2. Bounds(file) = {<<n + 1, n + 3>>}
        BY <4>1, BlockBounds
      <4>3. i <= n + 1 \/ i > n + 3
        BY <2>1, <4>2
      <4> QED  BY <1>0, <2>1, <3>2, <4>3, InsertBlockIn DEF Whole
    <3> QED  BY <1>0, <3>1, <3>2 DEF Whole
  <2>3. Once(mine')
    BY <1>0, <2>1, InsertOnly DEF Kept
  <2> QED  BY <2>1, <2>2, <2>3 DEF IInv, Kept, Once
<1>2. ASSUME NEW i \in 1..Len(file), DeleteLine(i) PROVE IInv'
  <2>1. /\ file[i] \in Text /\ file' = RemoveAt(file, i)
        /\ mine' = Only(mine, Own \ {file[i]})
    BY <1>2 DEF DeleteLine, Text
  <2>2. Whole'
    <3>1. CASE file \in Seq(Text)
      BY <2>1, <3>1, RemoveText, TextAt DEF Whole
    <3>2. ASSUME NEW n, BlockIn(file, n) PROVE Whole'
      BY <1>0, <2>1, <3>2, RemoveBlockIn DEF Whole
    <3> QED  BY <1>0, <3>1, <3>2 DEF Whole
  <2>3. Once(Only(file', Own)) /\ mine' = Only(file', Own)
    BY <1>0, <2>1, RemoveOnly DEF Kept
  <2> QED  BY <2>2, <2>3 DEF IInv, Kept, Once
<1>3. CASE EnsureBlock
  <2>1. file' = Ensured(file) /\ mine' = mine
    BY <1>3 DEF EnsureBlock
  <2>2. Whole' /\ Only(file', Own) = Only(file, Own)
    <3>1. CASE file \in Seq(Text)
      <4>1. PICK a \in Seq(Text) : Ensured(file) = With(a, << >>)
                                   /\ Only(a, Own) = Only(file, Own)
        BY <3>1, EnsuredText
      <4> DEFINE e == << >>
      <4>2. e \in Seq(Text) /\ Only(e, Own) = << >>
        BY OnlyEmpty
      <4> HIDE DEF e
      <4>3. With(a, e) \in Seq(Line) /\ BlockIn(With(a, e), Len(a))
        BY <4>2, BlockInWith
      <4>4. Only(With(a, e), Own) = Only(a, Own) \o Only(e, Own)
        BY <4>2, OnlyWith
      <4>5. Only(a, Own) \in Seq(Text)
        BY OnlyType
      <4>6. Only(a, Own) \o Only(e, Own) = Only(a, Own)
        BY <4>2, <4>5, ConcatEmptySeq
      <4> QED  BY <2>1, <4>1, <4>3, <4>4, <4>6 DEF Whole, e
    <3>2. ASSUME NEW a \in Seq(Text), NEW b \in Seq(Text), file = With(a, b)
          PROVE  Whole' /\ Only(file', Own) = Only(file, Own)
      <4>1. file' = file
        BY <2>1, <3>2, EnsuredWith
      <4> QED  BY <1>0, <4>1 DEF Whole
    <3> QED  BY <1>0, <3>1, <3>2, Forms
  <2> QED  BY <1>0, <2>1, <2>2 DEF IInv, Kept, Once
<1>4. CASE RemoveBlock
  <2>1. file' = Removed(file) /\ mine' = mine
    BY <1>4 DEF RemoveBlock
  <2>2. file' \in Seq(Text) /\ Only(file', Own) = Only(file, Own)
    <3>1. CASE file \in Seq(Text)
      BY <2>1, <3>1, RemovedText
    <3>2. ASSUME NEW a \in Seq(Text), NEW b \in Seq(Text), file = With(a, b)
          PROVE  file' \in Seq(Text) /\ Only(file', Own) = Only(file, Own)
      <4>1. Removed(With(a, b)) \in Seq(Text)
            /\ Only(Removed(With(a, b)), Own) = Only(a, Own) \o Only(b, Own)
        BY RemovedWith
      <4>2. Only(With(a, b), Own) = Only(a, Own) \o Only(b, Own)
        BY OnlyWith
      <4> QED  BY <2>1, <3>2, <4>1, <4>2
    <3> QED  BY <1>0, <3>1, <3>2, Forms
  <2>3. Whole'
    BY <2>2, TextAt DEF Whole
  <2> QED  BY <1>0, <2>1, <2>2, <2>3 DEF IInv, Kept, Once
<1>5. CASE UNCHANGED vars
  BY <1>0, <1>5 DEF IInv, Whole, Kept, Once, vars
<1> QED  BY <1>1, <1>2, <1>3, <1>4, <1>5 DEF Next

(* The file stays in one of its two forms. *)
THEOREM Forming == ASSUME ~Breaks PROVE Spec => []IInv
<1>1. ~Breaks
  OBVIOUS
<1>2. IInv /\ [Next]_vars => IInv'
  BY <1>1, NextIInv
<1> QED  BY <1>2, InitIInv, PTL DEF Spec

(* What the user wrote is in the file, in the user's order, whatever is published
   and uninstalled between the edits, if the user leaves the block's lines alone
   (pointer.rs:83-126). *)
THEOREM Keeping == ASSUME ~Breaks PROVE Spec => []Kept
<1>1. ~Breaks
  OBVIOUS
<1>2. IInv => Kept
  BY DEF IInv
<1> QED  BY <1>1, <1>2, Forming, PTL

(* The publish after a publish does not change the file (pointer.rs:110-126). *)
THEOREM Settling == ASSUME ~Breaks PROVE Spec => []Settles
<1>1. ~Breaks
  OBVIOUS
<1>2. IInv => Settles
  <2> SUFFICES ASSUME IInv PROVE Ensured(Ensured(file)) = Ensured(file)
    BY DEF Settles
  <2>1. CASE file \in Seq(Text)
    <3> DEFINE e == << >>
    <3>1. e \in Seq(Text)
      OBVIOUS
    <3>2. PICK a \in Seq(Text) : Ensured(file) = With(a, e)
      BY <2>1, EnsuredText
    <3> HIDE DEF e
    <3> QED  BY <3>1, <3>2, EnsuredWith
  <2>2. ASSUME NEW a \in Seq(Text), NEW b \in Seq(Text), file = With(a, b)
        PROVE  Ensured(Ensured(file)) = Ensured(file)
    BY <2>2, EnsuredWith
  <2> QED  BY <2>1, <2>2, Forms DEF IInv
<1> QED  BY <1>1, <1>2, Forming, PTL

(* What uninstalling leaves. *)
LEMMA RemovedFile == ASSUME Whole PROVE Removed(file) \in Seq(Text)
<1>1. CASE file \in Seq(Text)
  BY <1>1, RemovedText
<1>2. ASSUME NEW a \in Seq(Text), NEW b \in Seq(Text), file = With(a, b)
      PROVE  Removed(file) \in Seq(Text)
  BY <1>2, RemovedWith
<1> QED  BY <1>1, <1>2, Forms

(* Uninstalling leaves no line of the block (pointer.rs:94-106). *)
THEOREM Cleaning == ASSUME ~Breaks PROVE Spec => []Clean
<1>1. ~Breaks
  OBVIOUS
<1>2. IInv => Clean
  <2> SUFFICES ASSUME IInv PROVE Clean
    OBVIOUS
  <2>1. Removed(file) \in Seq(Text)
    BY RemovedFile DEF IInv
  <2>2. \A i \in 1..Len(Removed(file)) : Removed(file)[i] \in Text
    BY <2>1, ElementOfSeq
  <2> QED  BY <2>2 DEF Clean, Text
<1> QED  BY <1>1, <1>2, Forming, PTL

(* Installing and uninstalling again leaves what uninstalling left, but for blank
   lines at its end (pointer.rs:94-126). *)
THEOREM NoGrowing == ASSUME ~Breaks PROVE Spec => []NoGrowth
<1>1. ~Breaks
  OBVIOUS
<1>2. IInv => NoGrowth
  <2> SUFFICES ASSUME IInv PROVE NoGrowth
    OBVIOUS
  <2> DEFINE r == Removed(file)
             e == << >>
  <2>1. r \in Seq(Text)
    BY RemovedFile DEF IInv
  <2> HIDE DEF r
  <2>2. PICK a \in Seq(Text) : Ensured(r) = With(a, e) /\ Trimmed(a) = Trimmed(r)
    BY <2>1, EnsuredText
  <2>3. e \in Seq(Text)
    OBVIOUS
  <2> HIDE DEF e
  <2>4. Removed(With(a, e)) = Trimmed(a)
    BY <2>3, RemovedWith DEF e
  <2>5. Trimmed(Trimmed(a)) = Trimmed(a)
    BY TrimmedTwice
  <2> QED  BY <2>2, <2>4, <2>5 DEF NoGrowth, r
<1> QED  BY <1>1, <1>2, Forming, PTL
=============================================================================
