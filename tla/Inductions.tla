------------------------------ MODULE Inductions ------------------------------
(***************************************************************************)
(* Induction over numbers, sequences and folds, with sets and functions in *)
(* place of predicates and operators.                                      *)
(***************************************************************************)
EXTENDS Integers, Sequences, SequencesExt, SequenceTheorems, WellFoundedInduction, TLAPS

Lower == { p \in Nat \X Nat : p[1] < p[2] }

(* A set of numbers has a least element. *)
LEMMA LeastOf ==
  ASSUME NEW S \in SUBSET Nat, S # {} PROVE \E n \in S : \A m \in S : n <= m
<1>1. OpToRel(<, Nat) = Lower
  BY DEF OpToRel, Lower
<1>2. IsWellFoundedOn(Lower, Nat)
  BY <1>1, NatLessThanWellFounded
<1>3. PICK n \in S : \A m \in S : <<m, n>> \notin Lower
  BY <1>2, WFMin, Zenon
<1>4. \A m \in S : ~(m < n)
  <2> SUFFICES ASSUME NEW m \in S, m < n PROVE FALSE
    OBVIOUS
  <2>1. <<m, n>> \in Nat \X Nat /\ <<m, n>>[1] < <<m, n>>[2]
    OBVIOUS
  <2> QED  BY <1>3, <2>1 DEF Lower
<1> QED  BY <1>4

(* What holds of 0 and goes on from n to n + 1 holds up to any number. *)
LEMMA Counting ==
  ASSUME NEW n \in Nat, NEW P, 0 \in P, \A k \in 1..n : k - 1 \in P => k \in P
  PROVE  0..n \subseteq P
<1> SUFFICES ASSUME ~(0..n \subseteq P) PROVE FALSE
  OBVIOUS
<1> DEFINE S == { k \in 0..n : k \notin P }
<1>1. S \in SUBSET Nat /\ S # {}
  OBVIOUS
<1>2. PICK k \in S : \A m \in S : k <= m
  BY <1>1, LeastOf, Zenon
<1>3. k \in 1..n /\ k - 1 \in 0..n /\ ~(k <= k - 1)
  BY <1>2
<1>4. k - 1 \in P
  BY <1>2, <1>3
<1> QED  BY <1>2, <1>3, <1>4

(* What holds of << >> and is kept by Append holds of all sequences. *)
LEMMA SeqInduction ==
  ASSUME NEW V, NEW P, << >> \in P, \A s \in Seq(V), e \in V : s \in P => Append(s, e) \in P
  PROVE  Seq(V) \subseteq P
<1> SUFFICES ASSUME NEW s \in Seq(V) PROVE s \in P
  OBVIOUS
<1> DEFINE begin == [k \in 0..Len(s) |-> SubSeq(s, 1, k)]
           Q     == { k \in 0..Len(s) : begin[k] \in P }
<1>1. Len(s) \in Nat /\ SubSeq(s, 1, Len(s)) = s
  BY SubSeqFull
<1>2. 0 \in Q
  <2>1. SubSeq(s, 1, 0) = << >>
    BY SubSeqEmpty
  <2>2. begin[0] = << >> /\ 0 \in 0..Len(s)
    BY <1>1, <2>1
  <2> QED  BY <2>2, Zenon
<1>3. ASSUME NEW k \in 1..Len(s), k - 1 \in Q PROVE k \in Q
  <2>0. begin[k] = SubSeq(s, 1, k) /\ begin[k - 1] = SubSeq(s, 1, k - 1) /\ k \in 0..Len(s)
    BY <1>1
  <2>1. SubSeq(s, 1, k) = SubSeq(s, 1, k - 1) \o <<s[k]>>
    BY <1>1, SubSeqRecursiveSecond
  <2>2. s[k] \in V /\ \A i \in 1..(k - 1) : s[i] \in V
    BY <1>1
  <2>3. SubSeq(s, 1, k - 1) \in Seq(V)
    BY <1>1, <2>2, SubSeqProperties
  <2>4. SubSeq(s, 1, k) = Append(SubSeq(s, 1, k - 1), s[k])
    BY <2>1, <2>2, <2>3, AppendIsConcat
  <2>5. SubSeq(s, 1, k - 1) \in P
    BY <1>3, <2>0
  <2>6. Append(SubSeq(s, 1, k - 1), s[k]) \in P
    BY <2>2, <2>3, <2>5
  <2> QED  BY <2>0, <2>4, <2>6, Zenon
<1>4. 0..Len(s) \subseteq Q
  <2> HIDE DEF Q
  <2>1. \A k \in 1..Len(s) : k - 1 \in Q => k \in Q
    BY <1>3
  <2> QED  BY <1>1, <1>2, <2>1, Counting, Zenon
<1>5. Len(s) \in 0..Len(s) /\ begin[Len(s)] = s
  BY <1>1
<1> QED  BY <1>4, <1>5, Zenon
-----------------------------------------------------------------------------
(***************************************************************************)
(* FoldLeft.  Its definition chooses a function on the sets of positions,  *)
(* which takes the last position of a set last.                            *)
(***************************************************************************)

LEMMA MaxUpTo ==
  ASSUME NEW n \in Nat, NEW d \in SUBSET (1..n), n \in d PROVE Max(d) = n
<1>1. \A x \in d : n >= x
  OBVIOUS
<1>2. \A y \in d : (\A x \in d : y >= x) => y = n
  OBVIOUS
<1> QED  BY <1>1, <1>2 DEF Max

LEMMA MaxIn ==
  ASSUME NEW n \in Nat, NEW d \in SUBSET (1..n), d # {} PROVE Max(d) \in d
<1> DEFINE S == { k \in 0..n : \A x \in d : x <= k }
<1>1. S \in SUBSET Nat /\ S # {}
  <2>1. n \in S
    OBVIOUS
  <2> QED  BY <2>1
<1>2. PICK k \in S : \A m \in S : k <= m
  BY <1>1, LeastOf, Zenon
<1>3. k \in d
  <2> SUFFICES ASSUME k \notin d PROVE FALSE
    OBVIOUS
  <2>1. PICK x : x \in d
    OBVIOUS
  <2>2. k \in Nat /\ \A y \in d : y \in Nat /\ y < k
    OBVIOUS
  <2>3. k - 1 \in S
    BY <2>1, <2>2
  <2> QED  BY <1>2, <2>2, <2>3
<1>4. \A x \in d : k >= x
  OBVIOUS
<1> QED  BY <1>3, <1>4 DEF Max

LEMMA UpToLast ==
  ASSUME NEW n \in Nat, NEW k \in 1..n
  PROVE  /\ 1..k \in SUBSET (1..n) /\ 1..k # {} /\ Max(1..k) = k
         /\ (1..k) \ {Max(1..k)} = 1..(k - 1)
<1>1. Max(1..k) = k
  BY MaxUpTo
<1>2. \A x : x \in (1..k) \ {k} <=> x \in 1..(k - 1)
  OBVIOUS
<1>3. \A x \in 1..k : x \in 1..n
  OBVIOUS
<1>4. k \in 1..k
  OBVIOUS
<1> QED  BY <1>1, <1>2, <1>3, <1>4, Zenon

(* g folds the positions 1..n from b with the step T. *)
Folding(g, n, b, T) ==
  \A d \in SUBSET (1..n) : g[d] = IF d = {} THEN b ELSE T[<<Max(d), g[d \ {Max(d)}]>>]

(* A step T that stays in A can be folded over n positions. *)
LEMMA FoldExists ==
  ASSUME NEW n \in Nat, NEW A, NEW b \in A, NEW T \in [(1..n) \X A -> A]
  PROVE  \E g \in [SUBSET (1..n) -> A] : Folding(g, n, b, T)
<1> DEFINE Fold(g, k) ==
             /\ g \in [SUBSET (1..k) -> A]
             /\ \A d \in SUBSET (1..k) :
                  g[d] = IF d = {} THEN b ELSE T[<<Max(d), g[d \ {Max(d)}]>>]
           P == { k \in 0..n : \E g : Fold(g, k) }
<1>1. 0 \in P
  <2> DEFINE g == [d \in SUBSET (1..0) |-> b]
  <2>1. SUBSET (1..0) = {{}}
    OBVIOUS
  <2>2. Fold(g, 0)
    BY <2>1
  <2>3. \E f : Fold(f, 0)
    <3> HIDE DEF Fold, g
    <3> QED  BY <2>2
  <2> HIDE DEF Fold
  <2> QED  BY <2>3
<1>2. ASSUME NEW k \in 1..n, k - 1 \in P PROVE k \in P
  <2>1. PICK g : Fold(g, k - 1)
    BY <1>2
  <2> DEFINE h == [d \in SUBSET (1..k) |-> IF k \in d THEN T[<<k, g[d \ {k}]>>] ELSE g[d]]
  <2>2. ASSUME NEW d \in SUBSET (1..k)
        PROVE  h[d] \in A /\ h[d] = IF d = {} THEN b ELSE T[<<Max(d), h[d \ {Max(d)}]>>]
    <3>0. ASSUME NEW c \in SUBSET (1..k), k \notin c
          PROVE  c \in SUBSET (1..(k - 1)) /\ h[c] = g[c]
      <4>1. ASSUME NEW x \in c PROVE x \in 1..(k - 1)
        BY <3>0
      <4> QED  BY <3>0, <4>1
    <3>1. CASE k \in d
      <4>1. Max(d) = k
        BY <3>1, MaxUpTo
      <4>2. d \ {k} \in SUBSET (1..k) /\ k \notin d \ {k}
        OBVIOUS
      <4>3. d \ {k} \in SUBSET (1..(k - 1)) /\ h[d \ {k}] = g[d \ {k}]
        BY <3>0, <4>2, Zenon
      <4>4. h[d] = T[<<k, g[d \ {k}]>>] /\ d # {}
        BY <3>1
      <4>5. g[d \ {k}] \in A
        BY <2>1, <4>3
      <4>6. T[<<k, g[d \ {k}]>>] \in A
        BY <4>5
      <4> HIDE DEF h
      <4> QED  BY <4>1, <4>3, <4>4, <4>6
    <3>2. CASE k \notin d
      <4>1. d \in SUBSET (1..(k - 1)) /\ h[d] = g[d]
        BY <3>0, <3>2, Zenon
      <4>2. d \ {Max(d)} \in SUBSET (1..k) /\ k \notin d \ {Max(d)}
        BY <3>2
      <4>3. h[d \ {Max(d)}] = g[d \ {Max(d)}]
        BY <3>0, <4>2, Zenon
      <4>4. g[d] \in A /\ g[d] = IF d = {} THEN b ELSE T[<<Max(d), g[d \ {Max(d)}]>>]
        BY <2>1, <4>1
      <4> HIDE DEF h
      <4> QED  BY <4>1, <4>3, <4>4
    <3> QED  BY <3>1, <3>2
  <2>3. h \in [SUBSET (1..k) -> A]
    <3>1. h = [d \in SUBSET (1..k) |-> h[d]]
      OBVIOUS
    <3> HIDE DEF h
    <3> QED  BY <2>2, <3>1
  <2>4. Fold(h, k)
    <3> HIDE DEF h
    <3> QED  BY <2>2, <2>3
  <2> HIDE DEF Fold, h
  <2> QED  BY <2>4
<1>3. \A k \in 1..n : k - 1 \in P => k \in P
  BY <1>2
<1>4. 0..n \subseteq P
  <2> HIDE DEF P
  <2> QED  BY <1>1, <1>3, Counting, Zenon
<1>5. \E g : Fold(g, n)
  <2> HIDE DEF Fold
  <2>1. n \in 0..n
    OBVIOUS
  <2> QED  BY <1>4, <2>1
<1> QED  BY <1>5, Zenon DEF Folding
=============================================================================
