------------------------- MODULE PolicyEngineProofs -------------------------
(***************************************************************************)
(* Lemmas about the operators of PolicyEngine, on which the proofs about   *)
(* the engine, the adapter and the experiments rest.                       *)
(*                                                                         *)
(* The sorts and the admission loop are folds.  FoldExists and LeftFold    *)
(* give such a fold the sequence of its intermediate results, and          *)
(* Induction then carries a fact from one of them to the next:             *)
(* InsertionRun for a sort, AdmissionRun for the loop.  DecisionDerived    *)
(* puts the runs behind a decision together, and DecideSound says what a   *)
(* caller may rely on.  The last section is about what the ranking orders  *)
(* the candidates by, and when it is an order at all.                      *)
(***************************************************************************)
EXTENDS PolicyEngine, FiniteSetTheorems, SequenceTheorems, TLAPS

\* A set of naturals that is not empty has a least element.
LEMMA LeastNatural ==
    ASSUME NEW S \in SUBSET Nat, S # {}
    PROVE  \E least \in S : \A m \in S : least <= m
<1>1. IsWellFoundedOn(OpToRel(<, Nat), Nat)
  BY NatLessThanWellFounded
<1>2. PICK least \in S : \A m \in S : ~(<<m, least>> \in OpToRel(<, Nat))
  BY <1>1, WFMin
<1>3. \A m \in S : ~(m < least)
  BY <1>2 DEF OpToRel
<1> QED
  BY <1>3

\* A set of naturals with an upper bound has its greatest element as its Max.
LEMMA GreatestBelow ==
    ASSUME NEW n \in Nat, NEW S \in SUBSET (0..n), S # {}
    PROVE  Max(S) \in S /\ \A m \in S : Max(S) >= m
<1> DEFINE gaps == {n - m : m \in S}
<1>1. gaps \in SUBSET Nat /\ gaps # {}
  <2>1. \A m \in S : m \in 0..n /\ n - m \in Nat
    OBVIOUS
  <2> QED
    BY <2>1
<1>2. PICK least \in gaps : \A g \in gaps : least <= g
  BY <1>1, LeastNatural
<1>3. \E greatest \in S : \A m \in S : greatest >= m
  <2>1. PICK greatest \in S : least = n - greatest
    BY <1>2
  <2>2. ASSUME NEW m \in S PROVE greatest >= m
    <3>1. n - greatest <= n - m /\ m \in 0..n /\ greatest \in 0..n
      BY <1>2, <2>1
    <3> QED
      BY <3>1
  <2> QED
    BY <2>2
<1> QED
  BY <1>3 DEF Max

LEMMA MaxInRange ==
    ASSUME NEW n \in Nat
    PROVE  \A t \in SUBSET (1..n) : t # {} => /\ Max(t) \in t /\ Max(t) \in 1..n
                                              /\ t \ {Max(t)} \in SUBSET (1..n)
<1>1. \A t \in SUBSET (1..n) : t \in SUBSET (0..n)
  OBVIOUS
<1> QED
  BY <1>1, GreatestBelow

\* What holds at 0 and is handed on by every step holds up to n.
LEMMA Induction ==
    ASSUME NEW n \in Nat, NEW Q, 0 \in Q, \A i \in 0..(n - 1) : i \in Q => i + 1 \in Q
    PROVE  \A i \in 0..n : i \in Q
<1> DEFINE failing == {i \in 0..n : i \notin Q}
<1>1. SUFFICES ASSUME failing # {} PROVE FALSE
  OBVIOUS
<1>2. PICK least \in failing : \A m \in failing : least <= m
  <2>1. failing \in SUBSET Nat
    OBVIOUS
  <2> QED
    BY <1>1, <2>1, LeastNatural
<1>3. least # 0 /\ least - 1 \in 0..(n - 1) /\ least - 1 \notin failing
  BY <1>2
<1> QED
  BY <1>2, <1>3

\* A finite set, a choice of an element of each of its subsets, and a step that
\* takes the element chosen and what was computed of the others.
Foldable(S, A, base, pick, step) ==
    /\ IsFiniteSet(S) /\ base \in A
    /\ \A s \in SUBSET S : s # {} => pick[s] \in s
    /\ \A x \in S, a \in A : step[<<x, a>>] \in A

\* f follows the steps through all the subsets.
FoldedBy(f, S, A, base, pick, step) ==
    /\ f \in [SUBSET S -> A]
    /\ \A s \in SUBSET S : f[s] = IF s = {} THEN base
                                  ELSE step[<<pick[s], f[s \ {pick[s]}]>>]

LEMMA FoldExists ==
    ASSUME NEW S, NEW A, NEW base, NEW pick, NEW step, Foldable(S, A, base, pick, step)
    PROVE  \E f : FoldedBy(f, S, A, base, pick, step)
<1>0. /\ IsFiniteSet(S) /\ base \in A
      /\ \A s \in SUBSET S : s # {} => pick[s] \in s
      /\ \A x \in S, a \in A : step[<<x, a>>] \in A
  BY DEF Foldable
<1> DEFINE Upto(k) == {s \in SUBSET S : Cardinality(s) <= k}
           Follows(f, k) ==
               /\ f \in [SUBSET S -> A]
               /\ \A s \in Upto(k) : f[s] = IF s = {} THEN base
                                            ELSE step[<<pick[s], f[s \ {pick[s]}]>>]
           Q == {k \in Nat : \E f \in [SUBSET S -> A] : Follows(f, k)}
<1>1. Cardinality(S) \in Nat
      /\ \A s \in SUBSET S : IsFiniteSet(s) /\ Cardinality(s) \in 0..Cardinality(S)
  BY <1>0, FS_Subset, FS_CardinalityType
<1>2. \A s \in SUBSET S : s # {} => /\ pick[s] \in S /\ s \ {pick[s]} \in SUBSET S
                                   /\ Cardinality(s \ {pick[s]}) = Cardinality(s) - 1
  BY <1>0, <1>1, FS_RemoveElement
<1>3. 0 \in Q
  <2> DEFINE f == [s \in SUBSET S |-> base]
  <2>1. \A s \in Upto(0) : s = {}
    BY <1>1, FS_EmptySet
  <2>2. Follows(f, 0)
    BY <1>0, <2>1
  <2> QED
    BY <2>2
<1>4. ASSUME NEW k \in 0..(Cardinality(S) - 1), k \in Q
      PROVE  k + 1 \in Q
  <2>1. PICK f \in [SUBSET S -> A] : Follows(f, k)
    BY <1>4
  <2> DEFINE g == [s \in SUBSET S |-> IF s \in Upto(k) THEN f[s]
                                      ELSE step[<<pick[s], f[s \ {pick[s]}]>>]]
  <2>2. \A s \in SUBSET S : s \notin Upto(k) => s # {}
    BY <1>1, FS_EmptySet
  <2>3. g \in [SUBSET S -> A]
    BY <1>0, <1>2, <2>2
  <2>4. \A s \in Upto(k + 1) : s # {} => s \ {pick[s]} \in Upto(k)
    BY <1>1, <1>2
  <2>5. \A s \in Upto(k) : g[s] = f[s]
    OBVIOUS
  <2>6. \A s \in Upto(k + 1) : g[s] = IF s = {} THEN base
                                       ELSE step[<<pick[s], g[s \ {pick[s]}]>>]
    BY <2>1, <2>2, <2>4, <2>5
  <2>7. Follows(g, k + 1)
    BY <2>3, <2>6
  <2> HIDE DEF g, Follows
  <2> QED
    BY <2>3, <2>7
<1>5. Cardinality(S) \in Q
  <2> HIDE DEF Q
  <2> QED
    BY <1>1, <1>3, <1>4, Induction
<1>6. PICK f \in [SUBSET S -> A] : Follows(f, Cardinality(S))
  BY <1>5
<1>7. \A s \in SUBSET S : f[s] = IF s = {} THEN base
                                  ELSE step[<<pick[s], f[s \ {pick[s]}]>>]
  BY <1>1, <1>6
<1> QED
  BY <1>7 DEF FoldedBy

\* What holds of a set if it holds of the set without any one of its elements.
LEMMA SubsetInduction ==
    ASSUME NEW S, IsFiniteSet(S), NEW Q,
           \A s \in SUBSET S : (\A x \in s : s \ {x} \in Q) => s \in Q
    PROVE  \A s \in SUBSET S : s \in Q
<1> DEFINE Small == {k \in Nat : \A s \in SUBSET S : Cardinality(s) <= k => s \in Q}
<1>1. Cardinality(S) \in Nat
      /\ \A s \in SUBSET S : IsFiniteSet(s) /\ Cardinality(s) \in 0..Cardinality(S)
  BY FS_Subset, FS_CardinalityType
<1>2. \A s \in SUBSET S : \A x \in s : /\ s \ {x} \in SUBSET S
                                     /\ Cardinality(s \ {x}) = Cardinality(s) - 1
  BY <1>1, FS_RemoveElement
<1>3. 0 \in Small
  <2>1. \A s \in SUBSET S : Cardinality(s) <= 0 => s = {}
    BY <1>1, FS_EmptySet
  <2> QED
    BY <2>1
<1>4. ASSUME NEW k \in 0..(Cardinality(S) - 1), k \in Small
      PROVE  k + 1 \in Small
  BY <1>1, <1>2, <1>4
<1>5. Cardinality(S) \in Small
  <2> HIDE DEF Small
  <2> QED
    BY <1>1, <1>3, <1>4, Induction
<1> QED
  BY <1>1, <1>5

\* The fold over the elements of 1..n, the greatest last: f for all sets of them,
\* r for the prefixes.
LeftFoldable(n, A, base, step) ==
    /\ n \in Nat /\ base \in A
    /\ \A x \in 1..n, a \in A : step[<<x, a>>] \in A

LeftFolded(f, r, n, A, base, step) ==
    /\ f \in [SUBSET (1..n) -> A] /\ r \in [0..n -> A]
    /\ f[{}] = base
    /\ \A t \in SUBSET (1..n) : t # {} => f[t] = step[<<Max(t), f[t \ {Max(t)}]>>]
    /\ r[0] = base /\ r[n] = f[1..n]
    /\ \A i \in 1..n : r[i] = step[<<i, r[i - 1]>>]

LEMMA LeftFold ==
    ASSUME NEW n, NEW A, NEW base, NEW step, LeftFoldable(n, A, base, step)
    PROVE  \E f, r : LeftFolded(f, r, n, A, base, step)
<1>0. n \in Nat /\ base \in A /\ \A x \in 1..n, a \in A : step[<<x, a>>] \in A
  BY DEF LeftFoldable
<1> DEFINE pick == [t \in SUBSET (1..n) |-> Max(t)]
<1>1. \A t \in SUBSET (1..n) : t # {} => pick[t] \in t /\ pick[t] = Max(t)
  BY <1>0, MaxInRange
<1>2. Foldable(1..n, A, base, pick, step)
  <2>1. IsFiniteSet(1..n)
    BY <1>0, FS_Interval
  <2> HIDE DEF pick
  <2> QED
    BY <1>0, <1>1, <2>1 DEF Foldable
<1>3. PICK f : FoldedBy(f, 1..n, A, base, pick, step)
  <2> HIDE DEF pick
  <2> QED
    BY <1>2, FoldExists
<1>4. /\ f[{}] = base
      /\ \A t \in SUBSET (1..n) : t # {} => f[t] = step[<<Max(t), f[t \ {Max(t)}]>>]
      /\ f \in [SUBSET (1..n) -> A]
  <2> HIDE DEF pick
  <2> QED
    BY <1>1, <1>3 DEF FoldedBy
<1> DEFINE r == [i \in 0..n |-> f[1..i]]
<1>5. \A i \in 0..n : 1..i \in SUBSET (1..n)
  BY <1>0
<1>6. r \in [0..n -> A] /\ \A i \in 0..n : r[i] = f[1..i]
  BY <1>4, <1>5
<1>7. r[0] = base /\ r[n] = f[1..n]
  <2>1. 1..0 = {} /\ 0 \in 0..n /\ n \in 0..n
    BY <1>0
  <2> QED
    BY <1>4, <1>6, <2>1
<1>8. ASSUME NEW i \in 1..n PROVE r[i] = step[<<i, r[i - 1]>>]
  <2>1. Max(1..i) = i
    BY DEF Max
  <2>2. (1..i) \ {i} = 1..(i - 1) /\ 1..i # {} /\ i - 1 \in 0..n /\ i \in 0..n
    BY <1>0
  <2>3. f[1..i] = step[<<Max(1..i), f[(1..i) \ {Max(1..i)}]>>]
    BY <1>4, <1>5, <2>2
  <2> QED
    BY <1>6, <2>1, <2>2, <2>3
<1> HIDE DEF r
<1>9. LeftFolded(f, r, n, A, base, step)
  BY <1>4, <1>6, <1>7, <1>8 DEF LeftFolded
<1> QED
  BY <1>9

\* Whatever takes the same steps as long as it stays within A computes the same.
Agrees(g, n, A, base, step) ==
    /\ g[{}] = base
    /\ \A t \in SUBSET (1..n) : t # {} /\ g[t \ {Max(t)}] \in A =>
           g[t] = step[<<Max(t), g[t \ {Max(t)}]>>]

LEMMA FoldsAgree ==
    ASSUME NEW n, NEW A, NEW base, NEW step, LeftFoldable(n, A, base, step),
           NEW f, NEW r, LeftFolded(f, r, n, A, base, step),
           NEW g, Agrees(g, n, A, base, step)
    PROVE  g[1..n] = r[n]
<1>0. n \in Nat
  BY DEF LeftFoldable
<1>1. /\ f \in [SUBSET (1..n) -> A] /\ f[{}] = base /\ r[n] = f[1..n]
      /\ \A t \in SUBSET (1..n) : t # {} => f[t] = step[<<Max(t), f[t \ {Max(t)}]>>]
  BY DEF LeftFolded
<1>2. \A t \in SUBSET (1..n) : t # {} => Max(t) \in t /\ t \ {Max(t)} \in SUBSET (1..n)
  BY <1>0, MaxInRange
<1> DEFINE Q == {t \in SUBSET (1..n) : g[t] = f[t]}
<1>3. ASSUME NEW t \in SUBSET (1..n), \A x \in t : t \ {x} \in Q
      PROVE  t \in Q
  BY <1>1, <1>2, <1>3 DEF Agrees
<1>4. IsFiniteSet(1..n)
  BY <1>0, FS_Interval
<1> HIDE DEF Q
<1>5. \A t \in SUBSET (1..n) : t \in Q
  BY <1>3, <1>4, SubsetInduction
<1>6. 1..n \in Q
  BY <1>5
<1> QED
  BY <1>1, <1>6 DEF Q

-----------------------------------------------------------------------------
(* Insertion sorts, by any relation R: <<c, d>> \in R when c is less than d.  *)

\* Inserting an element moves the elements from its position on by one place.
LEMMA InsertAtShape ==
    ASSUME NEW S, NEW s \in Seq(S), NEW e \in S, NEW p \in 1..(Len(s) + 1)
    PROVE  /\ InsertAt(s, p, e) \in Seq(S)
           /\ Len(InsertAt(s, p, e)) = Len(s) + 1
           /\ \A i \in 1..(Len(s) + 1) :
                InsertAt(s, p, e)[i] = IF i < p THEN s[i] ELSE IF i = p THEN e ELSE s[i - 1]
<1> DEFINE a == SubSeq(s, 1, p - 1)
           b == SubSeq(s, p, Len(s))
<1>1. Len(s) \in Nat
  BY LenProperties
<1>2. /\ a \in Seq(S) /\ Len(a) = p - 1
      /\ \A i \in 1..(p - 1) : a[i] = s[i]
  <2>1. \A i \in 1..(p - 1) : s[i] \in S
    BY <1>1, ElementOfSeq
  <2> QED
    BY <1>1, <2>1, SubSeqProperties
<1>3. /\ b \in Seq(S) /\ Len(b) = Len(s) + 1 - p
      /\ \A i \in 1..(Len(s) + 1 - p) : b[i] = s[p + i - 1]
  <2>1. \A i \in p..Len(s) : s[i] \in S
    BY <1>1, ElementOfSeq
  <2> QED
    BY <1>1, <2>1, SubSeqProperties
<1> HIDE DEF a, b
<1>4. /\ a \o <<e>> \in Seq(S) /\ Len(a \o <<e>>) = p
      /\ \A i \in 1..p : (a \o <<e>>)[i] = IF i < p THEN s[i] ELSE e
  BY <1>1, <1>2
<1> DEFINE c == a \o <<e>>
<1> HIDE DEF c
<1>5. c \in Seq(S) /\ Len(c) = p /\ \A i \in 1..p : c[i] = IF i < p THEN s[i] ELSE e
  BY <1>4 DEF c
<1>6. /\ c \o b \in Seq(S) /\ Len(c \o b) = Len(s) + 1
      /\ \A i \in 1..(Len(s) + 1) : (c \o b)[i] = IF i <= p THEN c[i] ELSE b[i - p]
  <2>1. /\ c \o b \in Seq(S) /\ Len(c \o b) = Len(c) + Len(b)
        /\ \A i \in 1..(Len(c) + Len(b)) : (c \o b)[i] = IF i <= Len(c) THEN c[i] ELSE b[i - Len(c)]
    BY <1>3, <1>5, ConcatProperties
  <2> QED
    BY <1>1, <1>3, <1>5, <2>1
<1>7. InsertAt(s, p, e) = c \o b
  BY DEF InsertAt, a, b, c
<1>8. ASSUME NEW i \in 1..(Len(s) + 1)
      PROVE  (c \o b)[i] = IF i < p THEN s[i] ELSE IF i = p THEN e ELSE s[i - 1]
  <2>1. CASE i <= p
    <3>1. (c \o b)[i] = c[i] /\ i \in 1..p /\ (i < p \/ i = p)
      BY <1>6, <2>1
    <3>2. c[i] = IF i < p THEN s[i] ELSE e
      BY <1>5, <3>1
    <3> QED
      BY <3>1, <3>2
  <2>2. CASE ~(i <= p)
    <3>1. (c \o b)[i] = b[i - p]
      BY <1>6, <2>2
    <3>3. i - p \in 1..(Len(s) + 1 - p) /\ p + (i - p) - 1 = i - 1 /\ ~(i < p) /\ i # p
      BY <1>1, <2>2
    <3>2. b[i - p] = s[i - 1]
      BY <1>3, <3>3
    <3> QED
      BY <3>1, <3>3, <3>2
  <2> QED
    BY <2>1, <2>2
<1> QED
  BY <1>6, <1>7, <1>8

\* The same as one fact, for a step that needs it whole.
Inserted(u, s, p, e) ==
    /\ Len(u) = Len(s) + 1
    /\ \A i \in 1..(Len(s) + 1) : u[i] = IF i < p THEN s[i] ELSE IF i = p THEN e ELSE s[i - 1]

LEMMA InsertAtInserts ==
    ASSUME NEW S, NEW s \in Seq(S), NEW e \in S, NEW p \in 1..(Len(s) + 1)
    PROVE  Inserted(InsertAt(s, p, e), s, p, e)
BY InsertAtShape DEF Inserted

\* The elements that c moves past, and where it ends.
Passed(R, s, c)   == {p \in DOMAIN s : \A q \in p..Len(s) : <<c, s[q]>> \in R}
Position(R, s, c) == Len(s) + 1 - Cardinality(Passed(R, s, c))

\* c comes to stand before elements it is less than, next to one it is not less than.
LEMMA PositionDivides ==
    ASSUME NEW A, NEW s \in Seq(A), NEW c, NEW R
    PROVE  /\ Position(R, s, c) \in 1..(Len(s) + 1)
           /\ \A q \in Position(R, s, c)..Len(s) : <<c, s[q]>> \in R
           /\ Position(R, s, c) > 1 => <<c, s[Position(R, s, c) - 1]>> \notin R
<1> DEFINE n == Len(s)
           P == Passed(R, s, c)
<1>1. n \in Nat /\ DOMAIN s = 1..n
  BY LenProperties
<1>2. P \in SUBSET (1..n) /\ \A p \in 1..n : p \in P <=> \A q \in p..n : <<c, s[q]>> \in R
  BY <1>1 DEF Passed
<1>3. Position(R, s, c) = n + 1 - Cardinality(P)
  BY DEF Position
<1> HIDE DEF P, n
<1>4. CASE P = {}
  <2>1. Cardinality(P) = 0
    BY <1>4, FS_EmptySet
  <2>2. n > 0 => <<c, s[n]>> \notin R
    <3>1. n > 0 => n \in 1..n /\ n..n = {n}
      BY <1>1
    <3> QED
      BY <1>2, <1>4, <3>1
  <2> QED
    BY <1>1, <1>3, <2>1, <2>2 DEF n
<1>5. CASE P # {}
  <2>1. PICK k \in P : \A m \in P : k <= m
    BY <1>1, <1>2, <1>5, LeastNatural
  <2>2. k \in 1..n /\ \A q \in k..n : <<c, s[q]>> \in R
    BY <1>2, <2>1
  <2>3. P = k..n
    <3>1. \A p \in P : p \in k..n
      BY <1>1, <1>2, <2>1, <2>2
    <3>2. ASSUME NEW p \in k..n PROVE p \in P
      <4>1. p \in 1..n /\ \A q \in p..n : q \in k..n
        BY <1>1, <2>2
      <4> QED
        BY <1>2, <2>2, <4>1
    <3> QED
      BY <3>1, <3>2
  <2>4. Cardinality(P) = n - k + 1
    BY <1>1, <2>2, <2>3, FS_Interval
  <2>5. Position(R, s, c) = k
    BY <1>1, <1>3, <2>2, <2>4
  <2>6. ASSUME k > 1, <<c, s[k - 1]>> \in R PROVE FALSE
    <3>1. k - 1 \in 1..n /\ \A q \in (k - 1)..n : q = k - 1 \/ q \in k..n
      BY <1>1, <2>2, <2>6
    <3>2. k - 1 \in P
      BY <1>2, <2>2, <2>6, <3>1
    <3> QED
      BY <1>1, <2>1, <2>2, <3>2
  <2> QED
    BY <1>1, <2>2, <2>5, <2>6 DEF n
<1> QED
  BY <1>4, <1>5

\* What the elements of a sequence satisfy two by two, the first before the second.
Orders(R, A) ==
    /\ \A c, d \in A : <<c, d>> \in R => <<d, c>> \notin R
    /\ \A c, d, e \in A : <<c, d>> \notin R /\ <<d, e>> \notin R => <<c, e>> \notin R

Sorted(R, s) == \A k, l \in 1..Len(s) : k < l => <<s[l], s[k]>> \notin R

LEMMA InsertKeepsSorted ==
    ASSUME NEW A, NEW s \in Seq(A), NEW c \in A, NEW R, Orders(R, A), Sorted(R, s)
    PROVE  Sorted(R, InsertAt(s, Position(R, s, c), c))
<1> DEFINE n == Len(s)
           p == Position(R, s, c)
           t == InsertAt(s, p, c)
<1>1. n \in Nat /\ p \in 1..(n + 1)
  BY LenProperties, PositionDivides
<1>2. /\ \A q \in p..n : <<c, s[q]>> \in R
      /\ p > 1 => <<c, s[p - 1]>> \notin R
  BY PositionDivides
<1>3. \A i \in 1..n : s[i] \in A
  BY ElementOfSeq
<1> HIDE DEF p
<1> HIDE DEF t
<1>4. /\ Len(t) = n + 1
      /\ \A i \in 1..(n + 1) : t[i] = IF i < p THEN s[i] ELSE IF i = p THEN c ELSE s[i - 1]
  <2>1. p \in 1..(Len(s) + 1) /\ t = InsertAt(s, p, c)
    BY <1>1 DEF t
  <2>2. Inserted(t, s, p, c)
    BY <2>1, InsertAtInserts
  <2> QED
    BY <2>2 DEF Inserted
<1> HIDE DEF t
<1>5. \A k, l \in 1..n : k < l => <<s[l], s[k]>> \notin R
  BY DEF Sorted
<1> HIDE DEF n
<1>6. ASSUME NEW k \in 1..n, k < p PROVE <<c, s[k]>> \notin R
  <2>1. CASE k = p - 1
    BY <1>1, <1>2, <1>6, <2>1
  <2>2. CASE k < p - 1
    <3>1. p - 1 \in 1..n /\ p > 1
      BY <1>1, <1>6, <2>2
    <3>2. <<c, s[p - 1]>> \notin R /\ <<s[p - 1], s[k]>> \notin R
      BY <1>2, <1>5, <2>2, <3>1
    <3> QED
      BY <1>3, <3>1, <3>2 DEF Orders
  <2> QED
    BY <1>1, <1>6, <2>1, <2>2
<1>7. ASSUME NEW l \in p..n PROVE <<s[l], c>> \notin R
  <2>1. l \in 1..n
    BY <1>1
  <2> QED
    BY <1>2, <1>3, <2>1 DEF Orders
<1>8. ASSUME NEW k \in 1..(n + 1), NEW l \in 1..(n + 1), k < l
      PROVE  <<t[l], t[k]>> \notin R
  <2>1. CASE l < p
    BY <1>1, <1>4, <1>5, <1>8, <2>1
  <2>2. CASE l = p
    BY <1>1, <1>4, <1>6, <1>8, <2>2
  <2>3. CASE l > p /\ k < p
    BY <1>1, <1>4, <1>5, <1>8, <2>3
  <2>4. CASE l > p /\ k = p
    BY <1>1, <1>4, <1>7, <1>8, <2>4
  <2>5. CASE l > p /\ k > p
    BY <1>1, <1>4, <1>5, <1>8, <2>5
  <2> QED
    BY <1>1, <2>1, <2>2, <2>3, <2>4, <2>5
<1> QED
  BY <1>4, <1>8 DEF Sorted, t, p

\* The sort of s, one element after the other.
InsertionRun(r, R, A, s) ==
    /\ r \in [0..Len(s) -> Seq(A)]
    /\ r[0] = <<>>
    /\ \A i \in 1..Len(s) : r[i] = InsertAt(r[i - 1], Position(R, r[i - 1], s[i]), s[i])

LEMMA RunKeepsSorted ==
    ASSUME NEW A, NEW R, NEW s \in Seq(A), NEW r, InsertionRun(r, R, A, s), Orders(R, A)
    PROVE  \A i \in 0..Len(s) : Sorted(R, r[i])
<1> DEFINE n == Len(s)
           Q == {i \in 0..n : Sorted(R, r[i])}
<1>1. n \in Nat /\ r \in [0..n -> Seq(A)] /\ \A i \in 1..n : s[i] \in A
  BY LenProperties, ElementOfSeq DEF InsertionRun
<1>2. 0 \in Q
  BY <1>1 DEF InsertionRun, Sorted
<1>3. ASSUME NEW i \in 0..(n - 1), i \in Q PROVE i + 1 \in Q
  <2>1. /\ i + 1 \in 1..n /\ i + 1 \in 0..n /\ (i + 1) - 1 = i /\ r[i] \in Seq(A)
    BY <1>1
  <2>2. r[i + 1] = InsertAt(r[i], Position(R, r[i], s[i + 1]), s[i + 1])
    BY <2>1 DEF InsertionRun
  <2>3. Sorted(R, r[i])
    BY <1>3
  <2> QED
    BY <1>1, <2>1, <2>2, <2>3, InsertKeepsSorted
<1> HIDE DEF Q
<1>4. \A i \in 0..n : i \in Q
  BY <1>1, <1>2, <1>3, Induction
<1> QED
  BY <1>4 DEF Q

\* t holds the first i elements of s, each of them once.
Rearranges(t, s, i) ==
    /\ Len(t) = i
    /\ \E from \in [1..i -> 1..i] :
           /\ \A j \in 1..i : \E k \in 1..i : from[k] = j
           /\ \A k, l \in 1..i : from[k] = from[l] => k = l
           /\ \A k \in 1..i : t[k] = s[from[k]]

LEMMA InsertRearranges ==
    ASSUME NEW A, NEW t \in Seq(A), NEW s, NEW i \in Nat, Rearranges(t, s, i), s[i + 1] \in A,
           NEW p \in 1..(i + 1)
    PROVE  Rearranges(InsertAt(t, p, s[i + 1]), s, i + 1)
<1> DEFINE c == s[i + 1]
           u == InsertAt(t, p, c)
<1>1. /\ Len(u) = i + 1
      /\ \A k \in 1..(i + 1) : u[k] = IF k < p THEN t[k] ELSE IF k = p THEN c ELSE t[k - 1]
  <2>1. p \in 1..(Len(t) + 1) /\ Len(t) = i /\ u = InsertAt(t, p, c) /\ c \in A
    BY DEF Rearranges
  <2> HIDE DEF u, c
  <2>2. c \in A /\ p \in 1..(Len(t) + 1)
    BY <2>1
  <2>3. /\ InsertAt(t, p, c) \in Seq(A)
        /\ Len(InsertAt(t, p, c)) = Len(t) + 1
        /\ \A k \in 1..(Len(t) + 1) :
              InsertAt(t, p, c)[k] = IF k < p THEN t[k] ELSE IF k = p THEN c ELSE t[k - 1]
    BY <2>2, InsertAtShape
  <2> QED
    BY <2>1, <2>3
<1>2. PICK from \in [1..i -> 1..i] :
           /\ \A j \in 1..i : \E k \in 1..i : from[k] = j
           /\ \A k, l \in 1..i : from[k] = from[l] => k = l
           /\ \A k \in 1..i : t[k] = s[from[k]]
  BY ZenonT(30) DEF Rearranges
<1> DEFINE f == [k \in 1..(i + 1) |-> IF k < p THEN from[k] ELSE IF k = p THEN i + 1 ELSE from[k - 1]]
<1>3. ASSUME NEW k \in 1..i PROVE from[k] \in 1..i /\ from[k] \in Nat /\ from[k] # i + 1
  <2>1. from[k] \in 1..i
    BY <1>2
  <2> QED
    BY <2>1
<1>4. \A k \in 1..(i + 1) : /\ k < p => k \in 1..i
                            /\ k > p => k - 1 \in 1..i
  OBVIOUS
<1>5. \A k \in 1..(i + 1) : f[k] = IF k < p THEN from[k] ELSE IF k = p THEN i + 1 ELSE from[k - 1]
  OBVIOUS
<1>6. f \in [1..(i + 1) -> 1..(i + 1)]
  BY <1>3, <1>4
<1> HIDE DEF f, u
<1>7. ASSUME NEW j \in 1..(i + 1) PROVE \E k \in 1..(i + 1) : f[k] = j
  <2>1. CASE j = i + 1
    <3>1. f[p] = i + 1
      BY <1>5
    <3> QED
      BY <2>1, <3>1
  <2>2. CASE j # i + 1
    <3>1. PICK k \in 1..i : from[k] = j
      BY <1>2, <2>2
    <3>2. k \in 1..(i + 1) /\ k + 1 \in 1..(i + 1) /\ (k + 1) - 1 = k
      OBVIOUS
    <3>3. k < p => f[k] = j
      BY <1>5, <3>1, <3>2
    <3>4. ~(k < p) => f[k + 1] = j
      <4>1. ~(k < p) => f[k + 1] = from[(k + 1) - 1]
        <5>1. ASSUME ~(k < p) PROVE k + 1 > p /\ ~(k + 1 < p) /\ k + 1 # p
          BY <5>1
        <5> HIDE DEF f
        <5> QED
          BY <1>5, <3>2, <5>1
      <4> QED
        BY <3>1, <3>2, <4>1
    <3> QED
      BY <3>2, <3>3, <3>4
  <2> QED
    BY <2>1, <2>2
<1>8. ASSUME NEW k \in 1..(i + 1), NEW l \in 1..(i + 1), f[k] = f[l] PROVE k = l
  <2>1. CASE k = p \/ l = p
    BY <1>3, <1>4, <1>5, <1>8, <2>1
  <2>2. CASE k < p /\ l < p
    <3>1. from[k] = from[l] /\ k \in 1..i /\ l \in 1..i
      BY <1>4, <1>5, <1>8, <2>2
    <3> QED
      BY <1>2, <3>1
  <2>3. CASE k < p /\ l > p
    <3>1. from[k] = from[l - 1] /\ k \in 1..i /\ l - 1 \in 1..i
      BY <1>4, <1>5, <1>8, <2>3
    <3>2. k = l - 1
      BY <1>2, <3>1
    <3> QED
      BY <2>3, <3>2
  <2>4. CASE k > p /\ l < p
    <3>1. from[k - 1] = from[l] /\ k - 1 \in 1..i /\ l \in 1..i
      BY <1>4, <1>5, <1>8, <2>4
    <3>2. k - 1 = l
      BY <1>2, <3>1
    <3> QED
      BY <2>4, <3>2
  <2>5. CASE k > p /\ l > p
    <3>1. from[k - 1] = from[l - 1] /\ k - 1 \in 1..i /\ l - 1 \in 1..i
      BY <1>4, <1>5, <1>8, <2>5
    <3>2. k - 1 = l - 1
      BY <1>2, <3>1
    <3> QED
      BY <3>2
  <2> QED
    BY <2>1, <2>2, <2>3, <2>4, <2>5
<1>9. ASSUME NEW k \in 1..(i + 1) PROVE u[k] = s[f[k]]
  <2>1. CASE k = p
    BY <1>1, <1>5, <2>1
  <2>2. CASE k < p
    <3>1. k \in 1..i /\ u[k] = t[k] /\ f[k] = from[k]
      BY <1>1, <1>4, <1>5, <2>2
    <3> QED
      BY <1>2, <3>1
  <2>3. CASE k > p
    <3>1. k - 1 \in 1..i /\ u[k] = t[k - 1] /\ f[k] = from[k - 1]
      BY <1>1, <1>4, <1>5, <2>3
    <3> QED
      BY <1>2, <3>1
  <2> QED
    BY <2>1, <2>2, <2>3
<1> QED
  BY <1>1, <1>6, <1>7, <1>8, <1>9 DEF Rearranges, u

LEMMA RunRearranges ==
    ASSUME NEW A, NEW R, NEW s \in Seq(A), NEW r, InsertionRun(r, R, A, s)
    PROVE  \A i \in 0..Len(s) : Rearranges(r[i], s, i)
<1> DEFINE n == Len(s)
           Q == {i \in 0..n : Rearranges(r[i], s, i)}
<1>1. n \in Nat /\ r \in [0..n -> Seq(A)] /\ \A i \in 1..n : s[i] \in A
  BY LenProperties, ElementOfSeq DEF InsertionRun
<1>2. 0 \in Q
  <2>1. Len(r[0]) = 0 /\ 1..0 = {} /\ 0 \in 0..n
    BY <1>1 DEF InsertionRun
  <2>2. [x \in 1..0 |-> x] \in [1..0 -> 1..0]
    BY <2>1
  <2> QED
    BY <2>1, <2>2 DEF Rearranges
<1>3. ASSUME NEW i \in 0..(n - 1), i \in Q PROVE i + 1 \in Q
  <2>1. i + 1 \in 1..n /\ i + 1 \in 0..n /\ (i + 1) - 1 = i /\ r[i] \in Seq(A) /\ i \in Nat
    BY <1>1
  <2>2. r[i + 1] = InsertAt(r[i], Position(R, r[i], s[i + 1]), s[i + 1])
    BY <2>1 DEF InsertionRun
  <2>3. Rearranges(r[i], s, i) /\ Len(r[i]) = i
    BY <1>3 DEF Rearranges
  <2>4. Position(R, r[i], s[i + 1]) \in 1..(i + 1)
    BY <2>1, <2>3, PositionDivides
  <2>5. Rearranges(InsertAt(r[i], Position(R, r[i], s[i + 1]), s[i + 1]), s, i + 1)
    BY <1>1, <2>1, <2>3, <2>4, InsertRearranges
  <2> QED
    BY <2>1, <2>2, <2>5
<1> HIDE DEF Q
<1>4. \A i \in 0..n : i \in Q
  BY <1>1, <1>2, <1>3, Induction
<1> QED
  BY <1>4 DEF Q

\* The two orders the engine sorts by, on the candidates of A.
AheadOn(A)   == {p \in A \X A : Ahead(p[1], p[2])}
SmallerOn(A) == {p \in A \X A : SmallerID(p[1], p[2])}

\* The ranking is such a sort.
LEMMA AheadSortPosition ==
    ASSUME NEW A, NEW t \in Seq(A), NEW c \in A
    PROVE  InsertPosition(Ahead, t, c) = Position(AheadOn(A), t, c)
<1> DEFINE n == Len(t)
<1>1. n \in Nat /\ DOMAIN t = 1..n /\ \A q \in 1..n : t[q] \in A
  BY LenProperties, ElementOfSeq
<1>2. \A q \in 1..n : <<c, t[q]>> \in AheadOn(A) <=> Ahead(c, t[q])
  BY <1>1 DEF AheadOn
<1>3. \A p \in 1..n : \A q \in p..n : q \in 1..n
  BY <1>1
<1> HIDE DEF n
<1>4. \A p \in 1..n : (\A q \in p..n : <<c, t[q]>> \in AheadOn(A)) <=> \A q \in p..n : Ahead(c, t[q])
  BY <1>2, <1>3
<1>5. Passed(AheadOn(A), t, c) = {p \in DOMAIN t : \A q \in p..n : Ahead(c, t[q])}
  <2> DEFINE left  == {p \in 1..n : \A q \in p..n : <<c, t[q]>> \in AheadOn(A)}
             right == {p \in 1..n : \A q \in p..n : Ahead(c, t[q])}
  <2>1. left = right
    BY <1>4
  <2> QED
    BY <1>1, <2>1 DEF Passed, n
<1> QED
  BY <1>5 DEF InsertPosition, Position, n

LEMMA AheadSort ==
    ASSUME NEW A, NEW s \in Seq(A)
    PROVE  \E r : InsertionRun(r, AheadOn(A), A, s) /\ StableSort(Ahead, s) = r[Len(s)]
<1> DEFINE n == Len(s)
           D == Seq(A)
           Into(c, sorted) == InsertAt(sorted, InsertPosition(Ahead, sorted, c), c)
           step == [p \in (1..n) \X D |-> Into(s[p[1]], p[2])]
           Follows(g) == g = [t \in SUBSET DOMAIN s |->
                                 IF t = {} THEN <<>> ELSE Into(s[Max(t)], g[t \ {Max(t)}])]
           fold == CHOOSE g : Follows(g)
<1>1. StableSort(Ahead, s) = fold[DOMAIN s]
  BY DEF StableSort, FoldLeft, MapThenFoldSet
<1>2. n \in Nat /\ DOMAIN s = 1..n /\ \A i \in 1..n : s[i] \in A
  BY LenProperties, ElementOfSeq
<1>3. \A c \in A, t \in D : Into(c, t) = InsertAt(t, Position(AheadOn(A), t, c), c)
  BY AheadSortPosition
<1>4. \A c \in A, t \in D : Into(c, t) \in D
  <2>1. \A c \in A, t \in D : Position(AheadOn(A), t, c) \in 1..(Len(t) + 1)
    BY PositionDivides
  <2>2. \A c \in A, t \in D : \A p \in 1..(Len(t) + 1) : InsertAt(t, p, c) \in D
    BY InsertAtShape
  <2> HIDE DEF Into, D
  <2> QED
    BY <1>3, <2>1, <2>2
<1>5. <<>> \in D
  OBVIOUS
<1> HIDE DEF n, D, Into
<1>6. \A x \in 1..n, a \in D : step[<<x, a>>] = Into(s[x], a)
  OBVIOUS
<1> HIDE DEF step
<1>7. LeftFoldable(n, D, <<>>, step)
  BY <1>2, <1>4, <1>5, <1>6 DEF LeftFoldable
<1>8. PICK f, r : LeftFolded(f, r, n, D, <<>>, step)
  BY <1>7, LeftFold
<1>9. /\ f \in [SUBSET (1..n) -> D] /\ r \in [0..n -> D]
      /\ f[{}] = <<>> /\ r[0] = <<>>
      /\ \A t \in SUBSET (1..n) : t # {} => f[t] = step[<<Max(t), f[t \ {Max(t)}]>>]
      /\ \A i \in 1..n : r[i] = step[<<i, r[i - 1]>>]
  BY <1>8 DEF LeftFolded
<1>10. \A t \in SUBSET (1..n) : t # {} => Max(t) \in 1..n /\ t \ {Max(t)} \in SUBSET (1..n)
  BY <1>2, MaxInRange
<1>11. Follows(fold)
  <2>1. ASSUME NEW t \in SUBSET (1..n), t # {}
        PROVE  f[t] = Into(s[Max(t)], f[t \ {Max(t)}])
    <3>1. Max(t) \in 1..n /\ f[t \ {Max(t)}] \in D
      BY <1>9, <1>10, <2>1
    <3> QED
      BY <1>6, <1>9, <2>1, <3>1
  <2>2. Follows(f)
    BY <1>2, <1>9, <2>1
  <2> HIDE DEF Follows
  <2> QED
    BY <2>2
<1> HIDE DEF fold
<1>12. Agrees(fold, n, D, <<>>, step)
  <2>1. \A t \in SUBSET (1..n) :
            fold[t] = IF t = {} THEN <<>> ELSE Into(s[Max(t)], fold[t \ {Max(t)}])
    BY <1>2, <1>11
  <2> QED
    BY <1>6, <1>10, <2>1 DEF Agrees
<1>13. StableSort(Ahead, s) = r[n]
  BY <1>1, <1>2, <1>7, <1>8, <1>12, FoldsAgree
<1>14. ASSUME NEW i \in 1..n
       PROVE  r[i] = InsertAt(r[i - 1], Position(AheadOn(A), r[i - 1], s[i]), s[i])
  <2>1. i - 1 \in 0..n
    BY <1>2
  <2>2. r[i - 1] \in D
    BY <1>9, <2>1
  <2> QED
    BY <1>2, <1>3, <1>6, <1>9, <2>2
<1>15. InsertionRun(r, AheadOn(A), A, s)
  BY <1>9, <1>14 DEF InsertionRun, n, D
<1> QED
  BY <1>13, <1>15 DEF n

\* And so is the sort of the report.
LEMMA SmallerIDSortPosition ==
    ASSUME NEW A, NEW t \in Seq(A), NEW c \in A
    PROVE  InsertPosition(SmallerID, t, c) = Position(SmallerOn(A), t, c)
<1> DEFINE n == Len(t)
<1>1. n \in Nat /\ DOMAIN t = 1..n /\ \A q \in 1..n : t[q] \in A
  BY LenProperties, ElementOfSeq
<1>2. \A q \in 1..n : <<c, t[q]>> \in SmallerOn(A) <=> SmallerID(c, t[q])
  BY <1>1 DEF SmallerOn
<1>3. \A p \in 1..n : \A q \in p..n : q \in 1..n
  BY <1>1
<1> HIDE DEF n
<1>4. \A p \in 1..n : (\A q \in p..n : <<c, t[q]>> \in SmallerOn(A)) <=> \A q \in p..n : SmallerID(c, t[q])
  BY <1>2, <1>3
<1>5. Passed(SmallerOn(A), t, c) = {p \in DOMAIN t : \A q \in p..n : SmallerID(c, t[q])}
  <2> DEFINE left  == {p \in 1..n : \A q \in p..n : <<c, t[q]>> \in SmallerOn(A)}
             right == {p \in 1..n : \A q \in p..n : SmallerID(c, t[q])}
  <2>1. left = right
    BY <1>4
  <2> QED
    BY <1>1, <2>1 DEF Passed, n
<1> QED
  BY <1>5 DEF InsertPosition, Position, n

LEMMA SmallerIDSort ==
    ASSUME NEW A, NEW s \in Seq(A)
    PROVE  \E r : InsertionRun(r, SmallerOn(A), A, s) /\ StableSort(SmallerID, s) = r[Len(s)]
<1> DEFINE n == Len(s)
           D == Seq(A)
           Into(c, sorted) == InsertAt(sorted, InsertPosition(SmallerID, sorted, c), c)
           step == [p \in (1..n) \X D |-> Into(s[p[1]], p[2])]
           Follows(g) == g = [t \in SUBSET DOMAIN s |->
                                 IF t = {} THEN <<>> ELSE Into(s[Max(t)], g[t \ {Max(t)}])]
           fold == CHOOSE g : Follows(g)
<1>1. StableSort(SmallerID, s) = fold[DOMAIN s]
  BY DEF StableSort, FoldLeft, MapThenFoldSet
<1>2. n \in Nat /\ DOMAIN s = 1..n /\ \A i \in 1..n : s[i] \in A
  BY LenProperties, ElementOfSeq
<1>3. \A c \in A, t \in D : Into(c, t) = InsertAt(t, Position(SmallerOn(A), t, c), c)
  BY SmallerIDSortPosition
<1>4. \A c \in A, t \in D : Into(c, t) \in D
  <2>1. \A c \in A, t \in D : Position(SmallerOn(A), t, c) \in 1..(Len(t) + 1)
    BY PositionDivides
  <2>2. \A c \in A, t \in D : \A p \in 1..(Len(t) + 1) : InsertAt(t, p, c) \in D
    BY InsertAtShape
  <2> HIDE DEF Into, D
  <2> QED
    BY <1>3, <2>1, <2>2
<1>5. <<>> \in D
  OBVIOUS
<1> HIDE DEF n, D, Into
<1>6. \A x \in 1..n, a \in D : step[<<x, a>>] = Into(s[x], a)
  OBVIOUS
<1> HIDE DEF step
<1>7. LeftFoldable(n, D, <<>>, step)
  BY <1>2, <1>4, <1>5, <1>6 DEF LeftFoldable
<1>8. PICK f, r : LeftFolded(f, r, n, D, <<>>, step)
  BY <1>7, LeftFold
<1>9. /\ f \in [SUBSET (1..n) -> D] /\ r \in [0..n -> D]
      /\ f[{}] = <<>> /\ r[0] = <<>>
      /\ \A t \in SUBSET (1..n) : t # {} => f[t] = step[<<Max(t), f[t \ {Max(t)}]>>]
      /\ \A i \in 1..n : r[i] = step[<<i, r[i - 1]>>]
  BY <1>8 DEF LeftFolded
<1>10. \A t \in SUBSET (1..n) : t # {} => Max(t) \in 1..n /\ t \ {Max(t)} \in SUBSET (1..n)
  BY <1>2, MaxInRange
<1>11. Follows(fold)
  <2>1. ASSUME NEW t \in SUBSET (1..n), t # {}
        PROVE  f[t] = Into(s[Max(t)], f[t \ {Max(t)}])
    <3>1. Max(t) \in 1..n /\ f[t \ {Max(t)}] \in D
      BY <1>9, <1>10, <2>1
    <3> QED
      BY <1>6, <1>9, <2>1, <3>1
  <2>2. Follows(f)
    BY <1>2, <1>9, <2>1
  <2> HIDE DEF Follows
  <2> QED
    BY <2>2
<1> HIDE DEF fold
<1>12. Agrees(fold, n, D, <<>>, step)
  <2>1. \A t \in SUBSET (1..n) :
            fold[t] = IF t = {} THEN <<>> ELSE Into(s[Max(t)], fold[t \ {Max(t)}])
    BY <1>2, <1>11
  <2> QED
    BY <1>6, <1>10, <2>1 DEF Agrees
<1>13. StableSort(SmallerID, s) = r[n]
  BY <1>1, <1>2, <1>7, <1>8, <1>12, FoldsAgree
<1>14. ASSUME NEW i \in 1..n
       PROVE  r[i] = InsertAt(r[i - 1], Position(SmallerOn(A), r[i - 1], s[i]), s[i])
  <2>1. i - 1 \in 0..n
    BY <1>2
  <2>2. r[i - 1] \in D
    BY <1>9, <2>1
  <2> QED
    BY <1>2, <1>3, <1>6, <1>9, <2>2
<1>15. InsertionRun(r, SmallerOn(A), A, s)
  BY <1>9, <1>14 DEF InsertionRun, n, D
<1> QED
  BY <1>13, <1>15 DEF n

-----------------------------------------------------------------------------
(* The ranking order.                                                        *)

\* No two candidates of A have scores that differ and still count as equal.
Exact(A) == \A c, d \in A : AlmostEqual(c.score, d.score) => c.score = d.score

\* What the order compares, one after the other, when the scores are exact.
RankKey == [rejected : Int, score : Int, undue : Int, deadline : Int, enqueued : Int, id : Int]

KeyOf(c) == [rejected |-> IF c.outcome = "rejected" THEN 1 ELSE 0,
             score    |-> c.score,
             undue    |-> IF c.hasDeadline THEN 0 ELSE 1,
             deadline |-> IF c.hasDeadline THEN c.deadline ELSE 0,
             enqueued |-> c.task.enqueued,
             id       |-> c.task.id]

KeyAhead(k, l) ==
    \/ k.rejected < l.rejected
    \/ k.rejected = l.rejected /\ k.score > l.score
    \/ /\ k.rejected = l.rejected /\ k.score = l.score
       /\ \/ k.undue < l.undue
          \/ k.undue = l.undue /\ k.deadline < l.deadline
          \/ /\ k.undue = l.undue /\ k.deadline = l.deadline
             /\ \/ k.enqueued < l.enqueued
                \/ k.enqueued = l.enqueued /\ k.id < l.id

LEMMA KeyOrders ==
    \A k, l, m \in RankKey :
        /\ KeyAhead(k, l) => ~KeyAhead(l, k)
        /\ ~KeyAhead(k, l) /\ ~KeyAhead(l, m) => ~KeyAhead(k, m)
        /\ k.id # l.id => KeyAhead(k, l) \/ KeyAhead(l, k)
  BY DEF RankKey, KeyAhead

LEMMA AheadByKey ==
    ASSUME NEW A \in SUBSET Candidate, Exact(A), NEW c \in A, NEW d \in A
    PROVE  /\ KeyOf(c) \in RankKey /\ KeyOf(c).id = c.task.id
           /\ Ahead(c, d) <=> KeyAhead(KeyOf(c), KeyOf(d))
<1>1. /\ c.score \in Int /\ c.hasDeadline \in BOOLEAN /\ c.deadline \in Int
      /\ c.task.enqueued \in Int /\ c.task.id \in Int
      /\ d.score \in Int /\ d.hasDeadline \in BOOLEAN
  BY DEF Candidate, Task
<1>2. AlmostEqual(c.score, d.score) <=> c.score = d.score
  BY <1>1, ToleranceAssumption DEF Exact, AlmostEqual
<1> DEFINE k == KeyOf(c)
           l == KeyOf(d)
<1>3. /\ k.rejected = (IF c.outcome = "rejected" THEN 1 ELSE 0)
      /\ l.rejected = (IF d.outcome = "rejected" THEN 1 ELSE 0)
      /\ k.score = c.score /\ l.score = d.score
      /\ k.undue = (IF c.hasDeadline THEN 0 ELSE 1) /\ l.undue = (IF d.hasDeadline THEN 0 ELSE 1)
      /\ k.deadline = (IF c.hasDeadline THEN c.deadline ELSE 0)
      /\ l.deadline = (IF d.hasDeadline THEN d.deadline ELSE 0)
      /\ k.enqueued = c.task.enqueued /\ l.enqueued = d.task.enqueued
      /\ k.id = c.task.id /\ l.id = d.task.id
  BY DEF KeyOf
<1>4. k \in RankKey
  BY <1>1 DEF KeyOf, RankKey
<1>9. SUFFICES Ahead(c, d) <=> KeyAhead(k, l)
  BY <1>3, <1>4
<1> HIDE DEF k, l
<1>5. CASE c.outcome = "rejected" /\ d.outcome # "rejected"
  BY <1>3, <1>5 DEF Ahead, KeyAhead
<1>6. CASE c.outcome # "rejected" /\ d.outcome = "rejected"
  BY <1>3, <1>6 DEF Ahead, KeyAhead
<1>7. CASE c.outcome = "rejected" <=> d.outcome = "rejected"
  <2>1. k.rejected = l.rejected /\ ~(k.rejected < l.rejected)
    BY <1>3, <1>7
  <2>2. (c.outcome = "rejected") = (d.outcome = "rejected")
    BY <1>7
  <2>3. CASE c.hasDeadline /\ d.hasDeadline
    BY <1>1, <1>2, <1>3, <1>7, <2>1, <2>2, <2>3 DEF Ahead, KeyAhead
  <2>4. CASE c.hasDeadline /\ ~d.hasDeadline
    <3>1. c.hasDeadline # d.hasDeadline
      BY <2>4
    <3>2. KeyAhead(k, l) <=> c.score >= d.score
      BY <1>1, <1>3, <2>1, <2>4 DEF KeyAhead
    <3>3. Ahead(c, d) <=> (~AlmostEqual(c.score, d.score) /\ c.score > d.score) \/ AlmostEqual(c.score, d.score)
      BY <2>2, <2>4, <3>1, Zenon DEF Ahead
    <3> QED
      BY <1>1, <1>2, <3>2, <3>3
  <2>5. CASE ~c.hasDeadline /\ d.hasDeadline
    <3>1. c.hasDeadline # d.hasDeadline
      BY <2>5
    <3>2. KeyAhead(k, l) <=> c.score > d.score
      BY <1>1, <1>3, <2>1, <2>5 DEF KeyAhead
    <3>3. Ahead(c, d) <=> (~AlmostEqual(c.score, d.score) /\ c.score > d.score)
      BY <2>2, <2>5, <3>1, Zenon DEF Ahead
    <3> QED
      BY <1>1, <1>2, <3>2, <3>3
  <2>6. CASE ~c.hasDeadline /\ ~d.hasDeadline
    BY <1>1, <1>2, <1>3, <1>7, <2>1, <2>2, <2>6 DEF Ahead, KeyAhead
  <2> QED
    BY <1>1, <2>3, <2>4, <2>5, <2>6
<1> QED
  BY <1>5, <1>6, <1>7

\* With exact scores the ranking is a strict order, total on distinct IDs.
LEMMA AheadOrders ==
    ASSUME NEW A \in SUBSET Candidate, Exact(A)
    PROVE  /\ Orders(AheadOn(A), A)
           /\ \A c, d \in A : c.task.id # d.task.id => Ahead(c, d) \/ Ahead(d, c)
<1>1. \A c, d \in A : <<c, d>> \in AheadOn(A) <=> Ahead(c, d)
  BY DEF AheadOn
<1>2. \A c, d \in A : /\ KeyOf(c) \in RankKey /\ KeyOf(c).id = c.task.id
                      /\ Ahead(c, d) <=> KeyAhead(KeyOf(c), KeyOf(d))
  BY AheadByKey
<1>3. ASSUME NEW c \in A, NEW d \in A
      PROVE  /\ Ahead(c, d) => ~Ahead(d, c)
             /\ c.task.id # d.task.id => Ahead(c, d) \/ Ahead(d, c)
  BY <1>2, KeyOrders
<1>4. ASSUME NEW c \in A, NEW d \in A, NEW e \in A, ~Ahead(c, d), ~Ahead(d, e)
      PROVE  ~Ahead(c, e)
  BY <1>2, <1>4, KeyOrders
<1> QED
  BY <1>1, <1>3, <1>4 DEF Orders

LEMMA SmallerOrders ==
    ASSUME NEW A, \A c \in A : c.task.id \in Int
    PROVE  Orders(SmallerOn(A), A)
  BY DEF Orders, SmallerOn, SmallerID

-----------------------------------------------------------------------------
(* The values the engine computes.                                           *)

LEMMA ConfigTypes ==
    /\ Config.maxConcurrent \in Nat /\ Config.maxGPU \in Nat
    /\ Config.defaultPriority \in Int /\ Config.defaultSuccess \in Int
    /\ Config.defaultEstimated \in Durations /\ Config.defaultLatency \in Durations
    /\ Config.agingHorizon \in Int /\ Config.slackHorizon \in Int
    /\ Config.weightPriority \in Int /\ Config.weightSlack \in Int
    /\ Config.weightAge \in Int /\ Config.weightReliability \in Int
<1>1. Config.maxConcurrent \in 1..1024
  BY ConfigAssumption DEF ValidConfig
<1>2. Config.maxConcurrent \in Nat
  BY <1>1
<1>3. Config.maxGPU \in Nat
  BY <1>2, ConfigAssumption DEF ValidConfig
<1>4. Config.defaultPriority \in Int /\ Config.defaultSuccess \in Int
  BY ConfigAssumption DEF ValidConfig
<1>5. {Config.weightPriority, Config.weightSlack, Config.weightAge,
       Config.weightReliability} \subseteq Nat
  BY ConfigAssumption DEF ValidConfig
<1>6. {Config.defaultEstimated, Config.defaultLatency, Config.agingHorizon,
       Config.slackHorizon} \subseteq 1..MaxDuration
  BY ConfigAssumption DEF ValidConfig
<1>7. 1..MaxDuration \subseteq Durations /\ 1..MaxDuration \subseteq Int
  BY WidthAssumption DEF Durations
<1> QED
  BY <1>2, <1>3, <1>4, <1>5, <1>6, <1>7

\* Neither the saturating nor the wrapping difference leaves the width of a Duration.
LEMMA DifferenceType ==
    /\ \A later, earlier \in Int : Sub(later, earlier) \in Durations
    /\ \A left, right \in Durations : Minus(left, right) \in Durations
    /\ Durations \subseteq Int
  BY WidthAssumption DEF Sub, Minus, Durations

LEMMA ClampType == ASSUME NEW v \in Int, NEW top \in Nat
                   PROVE  Clamp(v, top) \in 0..top
  BY DEF Clamp

LEMMA ScoreType ==
    ASSUME NEW task, task.priority \in Int, task.success \in Int \cup {Nil},
           NEW age \in Int, NEW slack \in Int
    PROVE  Score(task, age, slack) \in Int
<1> DEFINE ageScore   == Clamp(100 * age, 100 * Config.agingHorizon)
           slackScore == IF slack > 0
                         THEN Clamp(100 * (Config.slackHorizon - slack), 100 * Config.slackHorizon)
                         ELSE 100 * Config.slackHorizon
<1>1. ageScore \in Int /\ slackScore \in Int /\ SuccessRate(task) \in Int
  BY ConfigTypes DEF Clamp, SuccessRate, Or
<1> HIDE DEF ageScore, slackScore
<1>2. Score(task, age, slack) =
        Config.weightPriority * task.priority * Config.agingHorizon * Config.slackHorizon
          + Config.weightSlack * slackScore * Config.agingHorizon
          + Config.weightAge * ageScore * Config.slackHorizon
          + Config.weightReliability * SuccessRate(task) * Config.agingHorizon * Config.slackHorizon
  BY DEF Score, ageScore, slackScore
<1> QED
  BY <1>1, <1>2, ConfigTypes

\* A candidate that Engine.rank scores.
Ranked(t, due, total, left) ==
    [task |-> t, deadline |-> due, hasDeadline |-> TRUE, score |-> total,
     slack |-> left, miss |-> left <= 0, outcome |-> Undecided, reason |-> ""]

LEMMA RankedType ==
    ASSUME NEW t \in Task, NEW due \in Int, NEW total \in Int, NEW left \in Durations
    PROVE  /\ Ranked(t, due, total, left) \in Candidate
           /\ Ranked(t, due, total, left).task = t
<1>1. (left <= 0) \in BOOLEAN
  BY DifferenceType
<1> QED
  BY <1>1 DEF Ranked, Candidate, Outcomes, Reasons, Undecided

\* Ranking keeps the ID, and what it ranks is well typed.
LEMMA RankType ==
    ASSUME NEW now \in Int, NEW raw \in Task
    PROVE  Rank(now, raw) \in Candidate /\ Rank(now, raw).task.id = raw.id
<1> DEFINE task     == Normalized(now, raw)
           deadline == Or(task.deadline, task.enqueued + task.latency)
           slack    == Minus(Sub(deadline, now), task.estimated)
<1>1. task \in Task /\ task.id = raw.id /\ task.priority \in Int
  <2>1. /\ Or(raw.priority, Config.defaultPriority) \in Int
        /\ OrWhenZero(raw.enqueued, now) \in Int
        /\ OrWhenZero(raw.estimated, Config.defaultEstimated) \in Durations
        /\ OrWhenZero(raw.latency, Config.defaultLatency) \in Durations
    BY ConfigTypes DEF Task, Or, OrWhenZero
  <2>2. RequiresGPU(raw) \in BOOLEAN
    BY DEF RequiresGPU, Task
  <2> QED
    BY <2>1, <2>2 DEF Normalized, Task
<1>2. Rejected(raw) \in Candidate /\ Rejected(task) \in Candidate
  BY <1>1 DEF Rejected, Candidate, Outcomes, Reasons, ZeroTime
<1>3. ASSUME ~Unrankable(now, task)
      PROVE  deadline \in Int /\ slack \in Durations
  <2>1. task.enqueued \in Int /\ task.estimated \in Durations /\ task.latency \in Int
        /\ task.deadline \in Int \cup {Nil}
    BY <1>1, DifferenceType DEF Task
  <2>2. task.deadline = Nil => task.latency > 0
    BY <1>3, <2>1 DEF Unrankable
  <2> HIDE DEF task
  <2>3. deadline \in Int
    BY <2>1, <2>2 DEF Or
  <2> HIDE DEF deadline
  <2>4. Sub(deadline, now) \in Durations
    BY <2>3, DifferenceType
  <2>5. Minus(Sub(deadline, now), task.estimated) \in Durations
    BY <2>1, <2>4, DifferenceType
  <2> QED
    BY <2>3, <2>5
<1>4. ASSUME ~MalformedTask(raw), ~Unrankable(now, task)
      PROVE  Rank(now, raw) \in Candidate /\ Rank(now, raw).task.id = raw.id
  <2>1. deadline \in Int /\ slack \in Durations
    BY <1>3, <1>4
  <2>2. Sub(now, task.enqueued) \in Int /\ slack \in Int /\ task.success \in Int \cup {Nil}
    <3>1. task.enqueued \in Int /\ task.success \in Int \cup {Nil}
      BY <1>1 DEF Task
    <3> HIDE DEF task, slack
    <3>2. Sub(now, task.enqueued) \in Durations
      BY <3>1, DifferenceType
    <3> QED
      BY <2>1, <3>1, <3>2, DifferenceType
  <2>3. Score(task, Sub(now, task.enqueued), slack) \in Int
    BY <1>1, <2>2, ScoreType
  <2>4. Rank(now, raw) = Ranked(task, deadline, Score(task, Sub(now, task.enqueued), slack), slack)
    BY <1>4 DEF Rank, Ranked
  <2> HIDE DEF task, deadline, slack
  <2> QED
    BY <1>1, <2>1, <2>3, <2>4, RankedType
<1>5. Rank(now, raw) \in {Rejected(raw), Rejected(task)}
      \/ (~MalformedTask(raw) /\ ~Unrankable(now, task))
  BY DEF Rank
<1>6. Rejected(raw).task = raw /\ Rejected(task).task = task
  BY DEF Rejected
<1> HIDE DEF task, deadline, slack
<1> QED
  BY <1>1, <1>2, <1>4, <1>5, <1>6

\* What the screening lets through undecided has an ID of its own, that of no
\* task listed before it and of no running one.
LEMMA ScreenType ==
    ASSUME NEW snap \in Snapshot, NEW seen, NEW raw \in Task
    PROVE  /\ Screen(snap, seen, raw) \in Candidate
           /\ Screen(snap, seen, raw).task.id = raw.id
           /\ Screen(snap, seen, raw).outcome = Undecided =>
                  raw.id \notin seen /\ raw.id \notin IDs(snap.running)
<1> DEFINE c == Rank(snap.at, raw)
<1>1. c \in Candidate /\ c.task.id = raw.id
  BY RankType DEF Snapshot
<1> HIDE DEF c
<1>2. \/ Screen(snap, seen, raw) = [c EXCEPT !.outcome = "rejected", !.reason = "invalid_task"]
      \/ Screen(snap, seen, raw) = [c EXCEPT !.outcome = "deferred", !.reason = "already_running"]
      \/ /\ Screen(snap, seen, raw) = c
         /\ raw.id # EmptyID /\ raw.id \notin seen
         /\ raw.id \notin IDs(snap.running) \/ c.outcome = "rejected"
  BY DEF Screen, c
<1> QED
  BY <1>1, <1>2 DEF Candidate, Outcomes, Reasons, Undecided

LEMMA VerdictType ==
    ASSUME NEW c \in Candidate, NEW outcome \in Outcomes, NEW reason \in Reasons
    PROVE  /\ Verdict(c, outcome, reason) \in Candidate
           /\ Verdict(c, outcome, reason).task = c.task
           /\ Verdict(c, outcome, reason).outcome = outcome
  BY DEF Verdict, Candidate

Budget == [slots : Nat, gpuInUse : Nat, available : Resources]

LEMMA GPUCountType == ASSUME NEW tasks \in Seq(Task)
                      PROVE  GPUCount(tasks) \in Nat
<1>1. IsFiniteSet(1..Len(tasks)) /\ DOMAIN tasks = 1..Len(tasks)
  BY LenProperties, FS_Interval
<1>2. IsFiniteSet({i \in DOMAIN tasks : RequiresGPU(tasks[i])})
  BY <1>1, FS_Subset
<1> QED
  BY <1>2, FS_CardinalityType DEF GPUCount

LEMMA InitialBudgetType == ASSUME NEW snap \in Snapshot
                           PROVE  InitialBudget(snap) \in Budget
<1>1. Len(snap.running) \in Nat /\ GPUCount(snap.running) \in Nat
  BY GPUCountType, LenProperties DEF Snapshot
<1>2. Clamp(Config.maxConcurrent - Len(snap.running), Config.maxConcurrent) \in Nat
  <2>1. Config.maxConcurrent - Len(snap.running) \in Int /\ Config.maxConcurrent \in Nat
    BY <1>1, ConfigTypes
  <2>2. Clamp(Config.maxConcurrent - Len(snap.running), Config.maxConcurrent)
            \in 0..Config.maxConcurrent
    BY <2>1, ClampType
  <2> QED
    BY <2>1, <2>2
<1>3. Or(snap.available, NoResources) \in Resources
  BY DEF Snapshot, Or, NoResources, Resources
<1> QED
  BY <1>1, <1>2, <1>3 DEF InitialBudget, Budget

LEMMA ChargeType ==
    ASSUME NEW b \in Budget, b.slots # 0, NEW t \in Task
    PROVE  Charge(b, t) \in Budget
<1>1. b.slots - 1 \in Nat /\ b.gpuInUse \in Nat /\ b.gpuInUse + 1 \in Nat
  BY DEF Budget
<1>2. b.available \in Resources /\ Subtract(b.available, t.resources) \in Resources
  BY DEF Budget, Task, Resources, Subtract
<1> QED
  BY <1>1, <1>2 DEF Charge, Budget

LEMMA ObstacleType == \A t, b : Obstacle(t, b) \in Reasons
  BY DEF Obstacle, Reasons

\* One more task adds one to the count when it requires a GPU.
LEMMA GPUCountAppend ==
    ASSUME NEW tasks \in Seq(Task), NEW t \in Task
    PROVE  GPUCount(Append(tasks, t)) = GPUCount(tasks) + (IF RequiresGPU(t) THEN 1 ELSE 0)
<1> DEFINE n   == Len(tasks)
           old == {i \in DOMAIN tasks : RequiresGPU(tasks[i])}
           new == {i \in DOMAIN Append(tasks, t) : RequiresGPU(Append(tasks, t)[i])}
<1>1. n \in Nat /\ DOMAIN tasks = 1..n
  BY LenProperties
<1>2. /\ Append(tasks, t) \in Seq(Task) /\ Len(Append(tasks, t)) = n + 1
      /\ \A i \in 1..n : Append(tasks, t)[i] = tasks[i]
      /\ Append(tasks, t)[n + 1] = t
  BY AppendProperties
<1>3. DOMAIN Append(tasks, t) = 1..(n + 1)
  BY <1>2, LenProperties
<1>4. IsFiniteSet(old) /\ n + 1 \notin old
  <2>1. IsFiniteSet(1..n)
    BY <1>1, FS_Interval
  <2>2. old \subseteq 1..n
    BY <1>1
  <2> QED
    BY <1>1, <2>1, <2>2, FS_Subset
<1>5. new = IF RequiresGPU(t) THEN old \cup {n + 1} ELSE old
  BY <1>1, <1>2, <1>3
<1>6. Cardinality(old) \in Nat
  BY <1>4, FS_CardinalityType
<1>7. Cardinality(old \cup {n + 1}) = Cardinality(old) + 1
  BY <1>4, FS_AddElement
<1>8. GPUCount(tasks) = Cardinality(old) /\ GPUCount(Append(tasks, t)) = Cardinality(new)
  BY DEF GPUCount
<1> HIDE DEF old, new, n
<1> QED
  BY <1>5, <1>6, <1>7, <1>8

LEMMA NoGPUs == GPUCount(<<>>) = 0
<1>1. {i \in DOMAIN <<>> : RequiresGPU(<<>>[i])} = {}
  OBVIOUS
<1> QED
  BY <1>1, FS_EmptySet DEF GPUCount

-----------------------------------------------------------------------------
(* The admission loop.                                                       *)

Accounts == [budget : Budget, selected : Seq(Task), decided : Seq(Candidate)]

LEMMA AdmitType ==
    ASSUME NEW acc \in Accounts, NEW c \in Candidate
    PROVE  AdmitInto(acc, c) \in Accounts
<1> DEFINE obstacle == Obstacle(c.task, acc.budget)
<1>1. acc.budget \in Budget /\ acc.selected \in Seq(Task) /\ acc.decided \in Seq(Candidate)
  BY DEF Accounts
<1>2. c.task \in Task
  BY DEF Candidate
<1>3. Append(acc.selected, c.task) \in Seq(Task)
  BY <1>1, <1>2, AppendProperties
<1>4. \A d \in Candidate : Append(acc.decided, d) \in Seq(Candidate)
  BY <1>1, AppendProperties
<1>5. obstacle \in Reasons /\ "deferred" \in Outcomes /\ "selected" \in Outcomes
      /\ "selected" \in Reasons
  BY ObstacleType DEF Outcomes, Reasons
<1>6. obstacle = "" => Charge(acc.budget, c.task) \in Budget
  BY <1>1, <1>2, ChargeType DEF Obstacle
<1> HIDE DEF obstacle
<1>7. /\ Verdict(c, "deferred", obstacle) \in Candidate
      /\ Verdict(c, "selected", "selected") \in Candidate
  BY <1>5, VerdictType
<1>8. CASE c.outcome # Undecided
  <2>1. AdmitInto(acc, c) = [acc EXCEPT !.decided = Append(@, c)]
    BY <1>8 DEF AdmitInto
  <2> QED
    BY <1>4, <2>1 DEF Accounts
<1>9. CASE c.outcome = Undecided /\ obstacle # ""
  <2>1. AdmitInto(acc, c) = [acc EXCEPT !.decided = Append(@, Verdict(c, "deferred", obstacle))]
    BY <1>9 DEF AdmitInto, obstacle
  <2> QED
    BY <1>4, <1>7, <2>1 DEF Accounts
<1>10. CASE c.outcome = Undecided /\ obstacle = ""
  <2>1. AdmitInto(acc, c) =
            [budget   |-> Charge(acc.budget, c.task),
             selected |-> Append(acc.selected, c.task),
             decided  |-> Append(acc.decided, Verdict(c, "selected", "selected"))]
    BY <1>10 DEF AdmitInto, obstacle
  <2>2. /\ Charge(acc.budget, c.task) \in Budget
        /\ Append(acc.decided, Verdict(c, "selected", "selected")) \in Seq(Candidate)
    BY <1>4, <1>6, <1>7, <1>10
  <2> QED
    BY <1>3, <2>1, <2>2 DEF Accounts
<1> QED
  BY <1>8, <1>9, <1>10

\* The accounts after every turn of the loop.
AdmissionRun(r, start, s) ==
    /\ r \in [0..Len(s) -> Accounts]
    /\ r[0] = start
    /\ \A i \in 1..Len(s) : r[i] = AdmitInto(r[i - 1], s[i])

LEMMA AdmissionFolds ==
    ASSUME NEW s \in Seq(Candidate), NEW start \in Accounts
    PROVE  \E r : AdmissionRun(r, start, s) /\ FoldLeft(AdmitInto, start, s) = r[Len(s)]
<1> DEFINE n == Len(s)
           step == [p \in (1..n) \X Accounts |-> AdmitInto(p[2], s[p[1]])]
           Follows(g) == g = [t \in SUBSET DOMAIN s |->
                                 IF t = {} THEN start ELSE AdmitInto(g[t \ {Max(t)}], s[Max(t)])]
           fold == CHOOSE g : Follows(g)
<1>1. FoldLeft(AdmitInto, start, s) = fold[DOMAIN s]
  BY DEF FoldLeft, MapThenFoldSet
<1>2. n \in Nat /\ DOMAIN s = 1..n /\ \A i \in 1..n : s[i] \in Candidate
  BY LenProperties, ElementOfSeq
<1> HIDE DEF n
<1>3. \A x \in 1..n, a \in Accounts : step[<<x, a>>] = AdmitInto(a, s[x])
  OBVIOUS
<1> HIDE DEF step
<1>4. LeftFoldable(n, Accounts, start, step)
  <2>1. \A x \in 1..n, a \in Accounts : AdmitInto(a, s[x]) \in Accounts
    BY <1>2, AdmitType
  <2> QED
    BY <1>2, <1>3, <2>1 DEF LeftFoldable
<1>5. PICK f, r : LeftFolded(f, r, n, Accounts, start, step)
  BY <1>4, LeftFold
<1>6. /\ f \in [SUBSET (1..n) -> Accounts] /\ r \in [0..n -> Accounts]
      /\ f[{}] = start /\ r[0] = start
      /\ \A t \in SUBSET (1..n) : t # {} => f[t] = step[<<Max(t), f[t \ {Max(t)}]>>]
      /\ \A i \in 1..n : r[i] = step[<<i, r[i - 1]>>]
  BY <1>5 DEF LeftFolded
<1>7. \A t \in SUBSET (1..n) : t # {} => Max(t) \in 1..n /\ t \ {Max(t)} \in SUBSET (1..n)
  BY <1>2, MaxInRange
<1>8. Follows(fold)
  <2>1. ASSUME NEW t \in SUBSET (1..n), t # {}
        PROVE  f[t] = AdmitInto(f[t \ {Max(t)}], s[Max(t)])
    <3>1. Max(t) \in 1..n /\ f[t \ {Max(t)}] \in Accounts
      BY <1>6, <1>7, <2>1
    <3> QED
      BY <1>3, <1>6, <2>1, <3>1
  <2>2. Follows(f)
    BY <1>2, <1>6, <2>1
  <2> HIDE DEF Follows
  <2> QED
    BY <2>2
<1> HIDE DEF fold
<1>9. Agrees(fold, n, Accounts, start, step)
  <2>1. \A t \in SUBSET (1..n) :
            fold[t] = IF t = {} THEN start ELSE AdmitInto(fold[t \ {Max(t)}], s[Max(t)])
    BY <1>2, <1>8
  <2> QED
    BY <1>3, <1>7, <2>1 DEF Agrees
<1>10. FoldLeft(AdmitInto, start, s) = r[n]
  BY <1>1, <1>2, <1>4, <1>5, <1>9, FoldsAgree
<1>11. ASSUME NEW i \in 1..n PROVE r[i] = AdmitInto(r[i - 1], s[i])
  <2>1. i - 1 \in 0..n
    BY <1>2
  <2>2. r[i - 1] \in Accounts
    BY <1>6, <2>1
  <2> QED
    BY <1>3, <1>6, <2>2
<1>12. AdmissionRun(r, start, s)
  BY <1>6, <1>11 DEF AdmissionRun, n
<1> QED
  BY <1>10, <1>12 DEF n

\* The turn of s[k]: whether it is admitted, and what is decided about it.
Admits(r, s, k) == s[k].outcome = Undecided /\ Obstacle(s[k].task, r[k - 1].budget) = ""

Judgment(r, s, k) ==
    IF s[k].outcome # Undecided THEN s[k]
    ELSE IF Admits(r, s, k) THEN Verdict(s[k], "selected", "selected")
    ELSE Verdict(s[k], "deferred", Obstacle(s[k].task, r[k - 1].budget))

LEMMA AdmissionTurn ==
    ASSUME NEW s \in Seq(Candidate), NEW r, NEW start, AdmissionRun(r, start, s), NEW k \in 1..Len(s)
    PROVE  /\ s[k] \in Candidate /\ s[k].task \in Task
           /\ r[k - 1].budget \in Budget /\ r[k - 1].selected \in Seq(Task)
           /\ r[k - 1].decided \in Seq(Candidate) /\ r[k] \in Accounts
           /\ Judgment(r, s, k) \in Candidate
           /\ r[k].decided = Append(r[k - 1].decided, Judgment(r, s, k))
           /\ IF Admits(r, s, k)
              THEN /\ r[k].budget = Charge(r[k - 1].budget, s[k].task)
                   /\ r[k].selected = Append(r[k - 1].selected, s[k].task)
              ELSE r[k].budget = r[k - 1].budget /\ r[k].selected = r[k - 1].selected
<1> DEFINE a == r[k - 1]
           obstacle == Obstacle(s[k].task, a.budget)
<1>1. Len(s) \in Nat /\ k - 1 \in 0..Len(s) /\ k \in 0..Len(s)
  BY LenProperties
<1>2. a \in Accounts /\ r[k] \in Accounts /\ r[k] = AdmitInto(a, s[k])
  BY <1>1 DEF AdmissionRun
<1>3. s[k] \in Candidate /\ s[k].task \in Task
  <2>1. s[k] \in Candidate
    BY ElementOfSeq
  <2> QED
    BY <2>1 DEF Candidate
<1>4. obstacle \in Reasons /\ "deferred" \in Outcomes /\ "selected" \in Outcomes
      /\ "selected" \in Reasons
  BY ObstacleType DEF Outcomes, Reasons
<1>5. /\ Verdict(s[k], "deferred", obstacle) \in Candidate
      /\ Verdict(s[k], "selected", "selected") \in Candidate
  <2> HIDE DEF obstacle
  <2> QED
    BY <1>3, <1>4, VerdictType
<1>6. Judgment(r, s, k) \in Candidate
  BY <1>3, <1>5 DEF Judgment, Admits
<1>7. /\ a.budget \in Budget /\ a.selected \in Seq(Task) /\ a.decided \in Seq(Candidate)
      /\ a = [budget |-> a.budget, selected |-> a.selected, decided |-> a.decided]
  BY <1>2 DEF Accounts
<1>8. /\ r[k].decided = Append(a.decided, Judgment(r, s, k))
      /\ IF Admits(r, s, k)
         THEN /\ r[k].budget = Charge(a.budget, s[k].task)
              /\ r[k].selected = Append(a.selected, s[k].task)
         ELSE r[k].budget = a.budget /\ r[k].selected = a.selected
  <2>1. CASE s[k].outcome # Undecided
    <3>1. r[k] = [a EXCEPT !.decided = Append(@, s[k])]
      BY <1>2, <2>1 DEF AdmitInto
    <3>2. Judgment(r, s, k) = s[k] /\ ~Admits(r, s, k)
      BY <2>1 DEF Judgment, Admits
    <3> HIDE DEF a
    <3> QED
      BY <1>7, <3>1, <3>2
  <2>2. CASE s[k].outcome = Undecided /\ obstacle # ""
    <3>1. r[k] = [a EXCEPT !.decided = Append(@, Verdict(s[k], "deferred", obstacle))]
      BY <1>2, <2>2 DEF AdmitInto
    <3>2. Judgment(r, s, k) = Verdict(s[k], "deferred", obstacle) /\ ~Admits(r, s, k)
      BY <2>2 DEF Judgment, Admits
    <3> HIDE DEF a, obstacle
    <3> QED
      BY <1>7, <3>1, <3>2
  <2>3. CASE s[k].outcome = Undecided /\ obstacle = ""
    <3>1. r[k] = [budget   |-> Charge(a.budget, s[k].task),
                  selected |-> Append(a.selected, s[k].task),
                  decided  |-> Append(a.decided, Verdict(s[k], "selected", "selected"))]
      BY <1>2, <2>3 DEF AdmitInto
    <3>2. Judgment(r, s, k) = Verdict(s[k], "selected", "selected") /\ Admits(r, s, k)
      BY <2>3 DEF Judgment, Admits
    <3> HIDE DEF a, obstacle
    <3> QED
      BY <3>1, <3>2
  <2> QED
    BY <2>1, <2>2, <2>3
<1> HIDE DEF a, obstacle
<1> QED
  BY <1>2, <1>3, <1>6, <1>7, <1>8 DEF a

\* The loop decides about the candidates one by one and never revises a judgment.
LEMMA Judgments ==
    ASSUME NEW s \in Seq(Candidate), NEW r, NEW start, AdmissionRun(r, start, s),
           start.decided = <<>>
    PROVE  \A i \in 0..Len(s) : /\ Len(r[i].decided) = i
                                /\ \A k \in 1..i : r[i].decided[k] = Judgment(r, s, k)
<1> DEFINE n == Len(s)
           Q == {i \in 0..n : /\ Len(r[i].decided) = i
                              /\ \A k \in 1..i : r[i].decided[k] = Judgment(r, s, k)}
<1>1. n \in Nat
  BY LenProperties
<1>2. 0 \in Q
  BY <1>1 DEF AdmissionRun
<1>3. ASSUME NEW i \in 0..(n - 1), i \in Q PROVE i + 1 \in Q
  <2> DEFINE d == Judgment(r, s, i + 1)
  <2>1. i + 1 \in 1..n /\ i + 1 \in 0..n /\ (i + 1) - 1 = i
    BY <1>1
  <2>2. /\ r[i].decided \in Seq(Candidate) /\ d \in Candidate
        /\ r[i + 1].decided = Append(r[i].decided, d)
    BY <2>1, AdmissionTurn
  <2> HIDE DEF d
  <2>3. Len(r[i].decided) = i /\ \A k \in 1..i : r[i].decided[k] = Judgment(r, s, k)
    BY <1>3
  <2>4. /\ Len(r[i + 1].decided) = i + 1 /\ r[i + 1].decided[i + 1] = d
        /\ \A k \in 1..i : r[i + 1].decided[k] = r[i].decided[k]
    BY <2>2, <2>3, AppendProperties
  <2>5. \A k \in 1..(i + 1) : r[i + 1].decided[k] = Judgment(r, s, k)
    BY <2>1, <2>3, <2>4 DEF d
  <2> QED
    BY <2>1, <2>4, <2>5
<1> HIDE DEF Q
<1>4. \A i \in 0..n : i \in Q
  BY <1>1, <1>2, <1>3, Induction
<1> QED
  BY <1>4 DEF Q

\* The m-th task selected is that of s[at[m]].
SelectedAt(at, chosen, r, s, i) ==
    /\ at \in [1..Len(chosen) -> 1..i]
    /\ \A m \in 1..Len(chosen) : chosen[m] = s[at[m]].task /\ Admits(r, s, at[m])
    /\ \A l, m \in 1..Len(chosen) : l < m => at[l] < at[m]
    /\ \A k \in 1..i : Admits(r, s, k) => \E m \in 1..Len(chosen) : at[m] = k

LEMMA Selections ==
    ASSUME NEW s \in Seq(Candidate), NEW r, NEW start, AdmissionRun(r, start, s),
           start.selected = <<>>
    PROVE  \A i \in 0..Len(s) : \E at : SelectedAt(at, r[i].selected, r, s, i)
<1> DEFINE n == Len(s)
           Q == {i \in 0..n : \E at : SelectedAt(at, r[i].selected, r, s, i)}
<1>1. n \in Nat
  BY LenProperties
<1>2. 0 \in Q
  <2>1. Len(r[0].selected) = 0 /\ 1..0 = {}
    BY DEF AdmissionRun
  <2>2. [m \in 1..0 |-> m] \in [1..0 -> 1..0]
    BY <2>1
  <2>3. SelectedAt([m \in 1..0 |-> m], r[0].selected, r, s, 0)
    BY <2>1, <2>2 DEF SelectedAt
  <2> QED
    BY <1>1, <2>3
<1>3. ASSUME NEW i \in 0..(n - 1), i \in Q PROVE i + 1 \in Q
  <2> DEFINE old == r[i].selected
             new == r[i + 1].selected
  <2>1. i + 1 \in 1..n /\ i + 1 \in 0..n /\ (i + 1) - 1 = i /\ i \in Nat
    BY <1>1
  <2>2. /\ old \in Seq(Task) /\ s[i + 1].task \in Task
        /\ new = IF Admits(r, s, i + 1) THEN Append(old, s[i + 1].task) ELSE old
    BY <2>1, AdmissionTurn
  <2>3. PICK at : SelectedAt(at, old, r, s, i)
    BY <1>3
  <2> HIDE DEF old, new
  <2>4. CASE ~Admits(r, s, i + 1)
    <3>1. \A k \in 1..(i + 1) : Admits(r, s, k) => k \in 1..i
      BY <2>1, <2>4
    <3>2. 1..i \subseteq 1..(i + 1)
      BY <2>1
    <3>3. SelectedAt(at, new, r, s, i + 1)
      BY <2>2, <2>3, <2>4, <3>1, <3>2 DEF SelectedAt
    <3> QED
      BY <2>1, <3>3 DEF new
  <2>5. CASE Admits(r, s, i + 1)
    <3> DEFINE m1 == Len(old) + 1
               to == [m \in 1..m1 |-> IF m = m1 THEN i + 1 ELSE at[m]]
    <3>1. /\ Len(old) \in Nat /\ Len(new) = m1
          /\ new[m1] = s[i + 1].task /\ \A m \in 1..Len(old) : new[m] = old[m]
      BY <2>2, <2>5, AppendProperties, LenProperties
    <3>2. /\ \A m \in 1..Len(old) : at[m] \in 1..i /\ old[m] = s[at[m]].task /\ Admits(r, s, at[m])
          /\ \A l, m \in 1..Len(old) : l < m => at[l] < at[m]
          /\ \A k \in 1..i : Admits(r, s, k) => \E m \in 1..Len(old) : at[m] = k
      BY <2>3 DEF SelectedAt
    <3>3. /\ \A m \in 1..m1 : m = m1 \/ m \in 1..Len(old)
          /\ m1 \in 1..m1 /\ m1 \notin 1..Len(old) /\ 1..Len(old) \subseteq 1..m1
      BY <3>1
    <3>4. to[m1] = i + 1 /\ \A m \in 1..Len(old) : to[m] = at[m]
      BY <3>3
    <3>5. to \in [1..m1 -> 1..(i + 1)]
      BY <2>1, <3>2, <3>3
    <3> HIDE DEF to, m1
    <3>6. \A m \in 1..m1 : new[m] = s[to[m]].task /\ Admits(r, s, to[m])
      BY <2>5, <3>1, <3>2, <3>3, <3>4
    <3>7. ASSUME NEW l \in 1..m1, NEW m \in 1..m1, l < m PROVE to[l] < to[m]
      <4>1. l \in 1..Len(old) /\ to[l] = at[l] /\ at[l] \in 1..i
        BY <3>1, <3>2, <3>4, <3>7 DEF m1
      <4>2. CASE m = m1
        BY <2>1, <3>4, <4>1, <4>2
      <4>3. CASE m \in 1..Len(old)
        BY <3>2, <3>4, <3>7, <4>1, <4>3
      <4> QED
        BY <3>3, <4>2, <4>3
    <3>8. ASSUME NEW k \in 1..(i + 1), Admits(r, s, k) PROVE \E m \in 1..m1 : to[m] = k
      <4>1. CASE k = i + 1
        BY <3>3, <3>4, <4>1
      <4>2. CASE k \in 1..i
        <5>1. PICK m \in 1..Len(old) : at[m] = k
          BY <3>2, <3>8, <4>2
        <5> QED
          BY <3>3, <3>4, <5>1
      <4> QED
        BY <2>1, <4>1, <4>2
    <3>9. SelectedAt(to, new, r, s, i + 1)
      BY <3>1, <3>5, <3>6, <3>7, <3>8 DEF SelectedAt
    <3> QED
      BY <2>1, <3>9 DEF new
  <2> QED
    BY <2>4, <2>5
<1> HIDE DEF Q
<1>4. \A i \in 0..n : i \in Q
  BY <1>1, <1>2, <1>3, Induction
<1> QED
  BY <1>4 DEF Q

\* Where the slots and the GPU slots of the budget have gone.
Spent(acc, start) ==
    /\ acc.budget.slots + Len(acc.selected) = start.budget.slots
    /\ acc.budget.gpuInUse = start.budget.gpuInUse + GPUCount(acc.selected)
    /\ GPUCount(acc.selected) > 0 => acc.budget.gpuInUse <= Config.maxGPU

LEMMA BudgetSpent ==
    ASSUME NEW s \in Seq(Candidate), NEW r, NEW start, AdmissionRun(r, start, s),
           start.selected = <<>>
    PROVE  \A i \in 0..Len(s) : Spent(r[i], start)
<1> DEFINE n == Len(s)
           Q == {i \in 0..n : Spent(r[i], start)}
<1>1. n \in Nat /\ 0 \in 0..n
  BY LenProperties
<1>2. 0 \in Q
  <2>1. r[0] = start /\ start \in Accounts
    BY <1>1 DEF AdmissionRun
  <2>2. Len(start.selected) = 0 /\ GPUCount(start.selected) = 0
    BY NoGPUs
  <2>3. start.budget.slots \in Nat /\ start.budget.gpuInUse \in Nat
    BY <2>1 DEF Accounts, Budget
  <2> QED
    BY <1>1, <2>1, <2>2, <2>3 DEF Spent
<1>3. ASSUME NEW i \in 0..(n - 1), i \in Q PROVE i + 1 \in Q
  <2> DEFINE b == r[i].budget
             t == s[i + 1].task
             chosen == r[i].selected
  <2>1. i + 1 \in 1..n /\ i + 1 \in 0..n /\ (i + 1) - 1 = i /\ Spent(r[i], start)
    BY <1>1, <1>3
  <2>2. /\ b \in Budget /\ chosen \in Seq(Task) /\ t \in Task
        /\ IF Admits(r, s, i + 1)
           THEN /\ r[i + 1].budget = Charge(b, t)
                /\ r[i + 1].selected = Append(chosen, t)
           ELSE r[i + 1].budget = b /\ r[i + 1].selected = chosen
    BY <2>1, AdmissionTurn, ZenonT(30)
  <2>3. b.slots \in Nat /\ b.gpuInUse \in Nat /\ Config.maxGPU \in Nat
        /\ GPUCount(chosen) \in Nat /\ Len(chosen) \in Nat
    BY <2>2, ConfigTypes, GPUCountType, LenProperties DEF Budget
  <2>4. start.budget.slots \in Nat /\ start.budget.gpuInUse \in Nat
    BY <1>1 DEF AdmissionRun, Accounts, Budget
  <2>5. CASE ~Admits(r, s, i + 1)
    BY <2>1, <2>2, <2>5 DEF Spent
  <2>6. CASE Admits(r, s, i + 1)
    <3>1. Obstacle(t, b) = ""
      BY <2>1, <2>6 DEF Admits
    <3>2. RequiresGPU(t) => ~(b.gpuInUse >= Config.maxGPU)
      BY <3>1 DEF Obstacle
    <3>3. /\ r[i + 1].budget.slots = b.slots - 1
          /\ r[i + 1].budget.gpuInUse = IF RequiresGPU(t) THEN b.gpuInUse + 1 ELSE b.gpuInUse
      BY <2>2, <2>6 DEF Charge
    <3>4. /\ GPUCount(r[i + 1].selected) = GPUCount(chosen) + (IF RequiresGPU(t) THEN 1 ELSE 0)
          /\ Len(r[i + 1].selected) = Len(chosen) + 1
      <4>1. chosen \in Seq(Task) /\ t \in Task /\ r[i + 1].selected = Append(chosen, t)
        BY <2>2, <2>6
      <4> HIDE DEF chosen, t
      <4>2. GPUCount(Append(chosen, t)) = GPUCount(chosen) + (IF RequiresGPU(t) THEN 1 ELSE 0)
        BY <4>1, GPUCountAppend
      <4>3. Len(Append(chosen, t)) = Len(chosen) + 1
        BY <4>1, AppendProperties
      <4> QED
        BY <4>1, <4>2, <4>3
    <3> HIDE DEF t
    <3>5. /\ b.slots + Len(chosen) = start.budget.slots
          /\ b.gpuInUse = start.budget.gpuInUse + GPUCount(chosen)
          /\ GPUCount(chosen) > 0 => b.gpuInUse <= Config.maxGPU
      BY <2>1 DEF Spent
    <3> HIDE DEF b, chosen
    <3> DEFINE slots == r[i + 1].budget.slots
               inUse == r[i + 1].budget.gpuInUse
               count == GPUCount(r[i + 1].selected)
               len   == Len(r[i + 1].selected)
    <3> HIDE DEF slots, inUse, count, len
    <3>6. slots + len = start.budget.slots
      <4> DEFINE old    == b.slots
                 before == Len(chosen)
      <4>1. old \in Nat /\ before \in Nat /\ old + before = start.budget.slots
        BY <2>3, <3>5
      <4>2. slots = old - 1 /\ len = before + 1
        BY <3>3, <3>4 DEF slots, len
      <4> HIDE DEF old, before
      <4> QED
        BY <4>1, <4>2
    <3>7. inUse = start.budget.gpuInUse + count
      <4> DEFINE old     == b.gpuInUse
                 before  == GPUCount(chosen)
                 initial == start.budget.gpuInUse
                 more    == IF RequiresGPU(t) THEN 1 ELSE 0
      <4>1. old \in Nat /\ before \in Nat /\ initial \in Nat /\ more \in Nat
        BY <2>3, <2>4
      <4>2. old = initial + before /\ count = before + more
        BY <3>4, <3>5 DEF count
      <4>3. inUse = old + more
        <5>1. inUse = IF RequiresGPU(t) THEN old + 1 ELSE old
          BY <3>3 DEF inUse
        <5>2. old + 0 = old
          BY <4>1
        <5> QED
          BY <5>1, <5>2
      <4> HIDE DEF old, before, initial, more
      <4>4. inUse = initial + count
        BY <4>1, <4>2, <4>3
      <4> QED
        BY <4>4 DEF initial
    <3>8. count > 0 => inUse <= Config.maxGPU
      <4>1. CASE RequiresGPU(t)
        BY <2>3, <3>2, <3>3, <4>1 DEF inUse
      <4>2. CASE ~RequiresGPU(t)
        BY <2>3, <3>3, <3>4, <3>5, <4>2 DEF inUse, count
      <4> QED
        BY <4>1, <4>2
    <3>9. Spent(r[i + 1], start)
      BY <3>6, <3>7, <3>8 DEF Spent, slots, inUse, count, len
    <3> QED
      BY <2>1, <3>9
  <2> QED
    BY <2>5, <2>6
<1> HIDE DEF Q
<1>4. \A i \in 0..n : i \in Q
  BY <1>1, <1>2, <1>3, Induction
<1> QED
  BY <1>4 DEF Q

\* A request that fits what a valid one leaves behind would have fitted before.
LEMMA FitsShrinks ==
    ASSUME NEW before \in Resources, NEW taken \in Resources, NEW request \in Resources,
           Valid(taken), Fits(Subtract(before, taken), request)
    PROVE  Fits(before, request)
<1> DEFINE left == Subtract(before, taken)
<1>1. /\ before.cpu \in Int /\ before.memory \in Int /\ before.gpus \in Int
      /\ taken.cpu \in Int /\ taken.memory \in Int /\ taken.gpus \in Int
      /\ request.cpu \in Int /\ request.memory \in Int /\ request.gpus \in Int
  BY DEF Resources
<1>2. /\ left.cpu = before.cpu - taken.cpu
      /\ left.memory = before.memory - taken.memory
      /\ left.gpus = before.gpus - taken.gpus
  BY DEF Subtract
<1>3. taken.cpu >= 0 /\ taken.memory >= 0 /\ taken.gpus >= 0
  BY DEF Valid
<1>4. left.cpu >= request.cpu /\ left.memory >= request.memory /\ left.gpus >= request.gpus
  BY DEF Fits
<1> HIDE DEF left
<1>5. before.cpu >= request.cpu /\ before.memory >= request.memory /\ before.gpus >= request.gpus
  BY <1>1, <1>2, <1>3, <1>4
<1> QED
  BY <1>5 DEF Fits

\* The budget keeps the task out.
Blocked(task, b) == Obstacle(task, b) # ""

\* What keeps a task out keeps it out, since the budget only shrinks.
LEMMA ObstaclePersists ==
    ASSUME NEW b \in Budget, NEW t \in Task, NEW u \in Task, Valid(u.resources), b.slots # 0,
           Blocked(t, b)
    PROVE  Obstacle(t, b) # "concurrency_limit" /\ Blocked(t, Charge(b, u))
<1>1. /\ b.gpuInUse \in Nat /\ Config.maxGPU \in Nat /\ b.available \in Resources
      /\ t.resources \in Resources /\ u.resources \in Resources
  BY ConfigTypes DEF Budget, Task
<1> DEFINE c == Charge(b, u)
<1>2. /\ c.gpuInUse = IF RequiresGPU(u) THEN b.gpuInUse + 1 ELSE b.gpuInUse
      /\ c.available = IF Config.enforceFit THEN Subtract(b.available, u.resources) ELSE b.available
  BY DEF Charge
<1> HIDE DEF c
<1>3. ASSUME Config.enforceFit, ~Fits(b.available, t.resources)
      PROVE  ~Fits(c.available, t.resources)
  <2>1. c.available = Subtract(b.available, u.resources)
    BY <1>2, <1>3
  <2> QED
    BY <1>1, <1>3, <2>1, FitsShrinks
<1>4. ASSUME b.gpuInUse >= Config.maxGPU PROVE c.gpuInUse >= Config.maxGPU
  <2> DEFINE old == b.gpuInUse
             new == c.gpuInUse
             max == Config.maxGPU
  <2>1. old \in Nat /\ max \in Nat /\ old >= max /\ (new = old \/ new = old + 1)
    BY <1>1, <1>2, <1>4
  <2> HIDE DEF old, new, max
  <2>2. new >= max
    BY <2>1
  <2> QED
    BY <2>2 DEF new, max
<1>5. \/ SuccessRate(t) < Config.minimumSuccess
      \/ RequiresGPU(t) /\ b.gpuInUse >= Config.maxGPU
      \/ Config.enforceFit /\ ~Fits(b.available, t.resources)
  BY DEF Blocked, Obstacle
<1>6. Blocked(t, c)
  BY <1>3, <1>4, <1>5 DEF Blocked, Obstacle
<1>7. Obstacle(t, b) # "concurrency_limit"
  BY DEF Obstacle
<1> QED
  BY <1>6, <1>7 DEF c

\* A task the run did not admit at its turn would not be admitted at any later one.
LEMMA DeferralsLast ==
    ASSUME NEW s \in Seq(Candidate), NEW r, NEW start, AdmissionRun(r, start, s),
           \A k \in 1..Len(s) : s[k].outcome = Undecided => Valid(s[k].task.resources)
    PROVE  \A i \in 0..Len(s) : \A k \in 1..i :
               s[k].outcome = Undecided /\ ~Admits(r, s, k) => Blocked(s[k].task, r[i].budget)
<1> DEFINE n == Len(s)
           Kept(i, k) == s[k].outcome = Undecided /\ ~Admits(r, s, k) =>
                             Blocked(s[k].task, r[i].budget)
           Q == {i \in 0..n : \A k \in 1..i : Kept(i, k)}
<1>1. n \in Nat /\ 0 \in 0..n /\ 1..0 = {}
  BY LenProperties
<1>2. 0 \in Q
  <2> HIDE DEF Kept
  <2> QED
    BY <1>1
<1>3. ASSUME NEW i \in 0..(n - 1), i \in Q PROVE i + 1 \in Q
  <2> DEFINE b == r[i].budget
             u == s[i + 1].task
  <2>1. i + 1 \in 1..n /\ i + 1 \in 0..n /\ (i + 1) - 1 = i
    BY <1>1
  <2>2. /\ b \in Budget /\ u \in Task
        /\ IF Admits(r, s, i + 1) THEN r[i + 1].budget = Charge(b, u) ELSE r[i + 1].budget = b
    BY <2>1, AdmissionTurn
  <2>3. \A k \in 1..i : Kept(i, k)
    <3> HIDE DEF Kept
    <3> QED
      BY <1>3
  <2>4. ASSUME NEW k \in 1..(i + 1), s[k].outcome = Undecided, ~Admits(r, s, k)
        PROVE  Blocked(s[k].task, r[i + 1].budget)
    <3>1. CASE k = i + 1
      <4>1. r[i + 1].budget = b
        BY <2>2, <2>4, <3>1
      <4>2. ~(s[k].outcome = Undecided /\ Obstacle(s[k].task, b) = "")
        BY <2>1, <2>4, <3>1 DEF Admits
      <4>3. Blocked(s[k].task, b)
        BY <2>4, <4>2 DEF Blocked
      <4> QED
        BY <4>1, <4>3
    <3>2. CASE k \in 1..i
      <4>1. Kept(i, k)
        BY <2>3, <3>2
      <4>2. Blocked(s[k].task, b)
        BY <2>4, <4>1
      <4>3. k \in 1..n
        BY <1>1, <3>2
      <4>4. s[k].task \in Task
        BY <4>3, AdmissionTurn
      <4>5. CASE Admits(r, s, i + 1)
        <5>1. Obstacle(u, b) = "" /\ s[i + 1].outcome = Undecided
          BY <2>1, <4>5 DEF Admits
        <5>2. b.slots # 0
          BY <5>1 DEF Obstacle
        <5>3. Valid(u.resources)
          BY <2>1, <5>1
        <5>4. r[i + 1].budget = Charge(b, u)
          BY <2>2, <4>5
        <5> HIDE DEF b, u
        <5> QED
          BY <2>2, <4>2, <4>4, <5>2, <5>3, <5>4, ObstaclePersists
      <4>6. CASE ~Admits(r, s, i + 1)
        BY <2>2, <4>2, <4>6
      <4> QED
        BY <4>5, <4>6
    <3>3. k = i + 1 \/ k \in 1..i
      BY <1>1
    <3> QED
      BY <3>1, <3>2, <3>3
  <2> QED
    BY <2>1, <2>4
<1> HIDE DEF Q
<1>4. \A i \in 0..n : i \in Q
  BY <1>1, <1>2, <1>3, Induction
<1> QED
  BY <1>4 DEF Q

-----------------------------------------------------------------------------
(* A decision.                                                               *)

\* The loop over the ready tasks leaves candidates that are undecided, rejected
\* or deferred, and undecided ones have IDs of their own.
LEMMA ScreenedType ==
    ASSUME NEW snap \in Snapshot
    PROVE  /\ Screened(snap) \in Seq(Candidate)
           /\ Len(Screened(snap)) = Len(snap.ready) /\ Len(snap.ready) \in Nat
           /\ \A i \in 1..Len(snap.ready) :
                  LET c == Screened(snap)[i]
                  IN  /\ c \in Candidate /\ c.task \in Task /\ c.task.id = snap.ready[i].id
                      /\ c.outcome \in {Undecided, "rejected", "deferred"}
                      /\ c.outcome = Undecided =>
                             /\ c.task.id \notin IDs(snap.running)
                             /\ \A j \in 1..(i - 1) : snap.ready[j].id # c.task.id
<1> DEFINE n == Len(snap.ready)
           seen(i) == {snap.ready[j].id : j \in 1..(i - 1)}
           s == Screened(snap)
<1>1. n \in Nat /\ DOMAIN snap.ready = 1..n /\ \A i \in 1..n : snap.ready[i] \in Task
  BY LenProperties, ElementOfSeq DEF Snapshot
<1> HIDE DEF n
<1>2. s = [i \in 1..n |-> Screen(snap, seen(i), snap.ready[i])]
  BY <1>1 DEF Screened
<1> HIDE DEF s, seen
<1>3. ASSUME NEW i \in 1..n
      PROVE  /\ s[i] \in Candidate /\ s[i].task \in Task /\ s[i].task.id = snap.ready[i].id
             /\ s[i].outcome \in {Undecided, "rejected", "deferred"}
             /\ s[i].outcome = Undecided =>
                    /\ s[i].task.id \notin IDs(snap.running)
                    /\ \A j \in 1..(i - 1) : snap.ready[j].id # s[i].task.id
  <2> DEFINE c == Screen(snap, seen(i), snap.ready[i])
             k == Rank(snap.at, snap.ready[i])
  <2>1. s[i] = c
    BY <1>2
  <2>2. /\ c \in Candidate /\ c.task.id = snap.ready[i].id
        /\ c.outcome = Undecided =>
               snap.ready[i].id \notin seen(i) /\ snap.ready[i].id \notin IDs(snap.running)
    BY <1>1, ScreenType
  <2>3. k \in Candidate
    BY <1>1, RankType DEF Snapshot
  <2>4. k.outcome \in {Undecided, "rejected"}
    BY DEF Rank, Rejected
  <2>5. \/ c = [k EXCEPT !.outcome = "rejected", !.reason = "invalid_task"]
        \/ c = [k EXCEPT !.outcome = "deferred", !.reason = "already_running"]
        \/ c = k
    BY DEF Screen
  <2>6. k.outcome \in {Undecided, "rejected", "deferred"}
    BY <2>4
  <2> HIDE DEF c, k
  <2>7. c.outcome \in {Undecided, "rejected", "deferred"}
    BY <2>3, <2>5, <2>6 DEF Candidate
  <2>8. c.task \in Task
    BY <2>2 DEF Candidate
  <2>9. \A j \in 1..(i - 1) : snap.ready[j].id \in seen(i)
    BY DEF seen
  <2> QED
    BY <2>1, <2>2, <2>7, <2>8, <2>9
<1>4. \A i \in 1..n : s[i] \in Candidate
  BY <1>3
<1>5. s \in Seq(Candidate) /\ Len(s) = n
  <2>1. s \in [1..n -> Candidate]
    BY <1>2, <1>4
  <2> QED
    BY <1>1, <2>1, SeqDef, LenProperties
<1> QED
  BY <1>1, <1>3, <1>5 DEF n, s

\* What the engine makes of a ready task that it does not reject.
Accepted(snap, raw, c) ==
    LET t    == Normalized(snap.at, raw)
        due  == Or(t.deadline, t.enqueued + t.latency)
        left == Minus(Sub(due, snap.at), t.estimated)
    IN  /\ ~MalformedTask(raw) /\ ~Unrankable(snap.at, t)
        /\ c.task = t /\ c.deadline = due /\ c.hasDeadline /\ c.slack = left
        /\ c.score = Score(t, Sub(snap.at, t.enqueued), left)
        /\ c.miss <=> left <= 0

LEMMA ScreenedRanked ==
    ASSUME NEW snap \in Snapshot, NEW i \in 1..Len(snap.ready)
    PROVE  /\ Screened(snap)[i].outcome # "rejected" =>
                  Accepted(snap, snap.ready[i], Screened(snap)[i])
           /\ /\ ~MalformedTask(snap.ready[i])
              /\ ~Unrankable(snap.at, Normalized(snap.at, snap.ready[i]))
              /\ \A j \in 1..(i - 1) : snap.ready[j].id # snap.ready[i].id
              => Screened(snap)[i].outcome # "rejected"
<1> DEFINE n == Len(snap.ready)
           raw == snap.ready[i]
           seen == {snap.ready[j].id : j \in 1..(i - 1)}
           k == Rank(snap.at, raw)
           c == Screened(snap)[i]
           t == Normalized(snap.at, raw)
           due == Or(t.deadline, t.enqueued + t.latency)
           left == Minus(Sub(due, snap.at), t.estimated)
           total == Score(t, Sub(snap.at, t.enqueued), left)
           refused == MalformedTask(raw) \/ Unrankable(snap.at, t)
<1>1. c = Screen(snap, seen, raw)
  <2>1. DOMAIN snap.ready = 1..n
    BY LenProperties DEF Snapshot
  <2> QED
    BY <2>1 DEF Screened
<1>2. IF refused THEN k.outcome = "rejected" ELSE k = Ranked(t, due, total, left)
  BY DEF Rank, Rejected, Ranked
<1>3. k \in Candidate
  <2>1. raw \in Task /\ snap.at \in Int
    BY ElementOfSeq DEF Snapshot
  <2> QED
    BY <2>1, RankType
<1>4. /\ c.outcome # "rejected" => k.outcome # "rejected"
      /\ c.outcome # "rejected" =>
             c = k \/ c = [k EXCEPT !.outcome = "deferred", !.reason = "already_running"]
      /\ k.outcome # "rejected" /\ raw.id # EmptyID /\ raw.id \notin seen => c.outcome # "rejected"
  <2>1. k \in [task : Task, deadline : Int, hasDeadline : BOOLEAN, score : Int,
               slack : Durations \cup {Nil}, miss : BOOLEAN, outcome : Outcomes, reason : Reasons]
    BY <1>3 DEF Candidate
  <2>2. IF raw.id = EmptyID \/ raw.id \in seen
        THEN c = [k EXCEPT !.outcome = "rejected", !.reason = "invalid_task"]
        ELSE IF raw.id \in IDs(snap.running) \ {EmptyID} /\ k.outcome # "rejected"
        THEN c = [k EXCEPT !.outcome = "deferred", !.reason = "already_running"]
        ELSE c = k
    BY <1>1 DEF Screen
  <2> HIDE DEF c, k, seen, raw
  <2> QED
    BY <2>1, <2>2
<1>5. ASSUME c.outcome # "rejected" PROVE Accepted(snap, raw, c)
  <2>1. ~refused /\ k = Ranked(t, due, total, left)
    BY <1>2, <1>4, <1>5
  <2>2. /\ k.task = t /\ k.deadline = due /\ k.hasDeadline /\ k.slack = left /\ k.score = total
        /\ k.miss <=> left <= 0
    <3> HIDE DEF t, due, left, total, k
    <3> QED
      BY <2>1 DEF Ranked
  <2>3. /\ c.task = k.task /\ c.deadline = k.deadline /\ c.hasDeadline = k.hasDeadline
        /\ c.slack = k.slack /\ c.score = k.score /\ c.miss = k.miss
    <3> HIDE DEF c, k
    <3> QED
      BY <1>3, <1>4, <1>5 DEF Candidate
  <2> QED
    BY <2>1, <2>2, <2>3 DEF Accepted
<1>6. ASSUME ~refused, \A j \in 1..(i - 1) : snap.ready[j].id # raw.id
      PROVE  c.outcome # "rejected"
  <2>1. k.outcome # "rejected"
    <3>1. k = Ranked(t, due, total, left)
      BY <1>2, <1>6
    <3> HIDE DEF t, due, left, total, k
    <3>2. k.outcome = Undecided
      BY <3>1 DEF Ranked
    <3> QED
      BY <3>2 DEF Undecided
  <2>2. raw.id # EmptyID /\ raw.id \notin seen
    BY <1>6 DEF MalformedTask
  <2> QED
    BY <1>4, <2>1, <2>2
<1> QED
  BY <1>5, <1>6

\* The state the admission loop starts from.
Start(snap) == [budget |-> InitialBudget(snap), selected |-> <<>>, decided |-> <<>>]

\* How a decision comes about: the candidates are sorted by a run of the first
\* sort, go through a run of the admission loop, and are sorted by ID.
Derivation(snap, sorting, admission) ==
    LET s == Screened(snap)
        n == Len(snap.ready)
    IN  /\ InsertionRun(sorting, AheadOn(Candidate), Candidate, s)
        /\ AdmissionRun(admission, Start(snap), sorting[n])
        /\ Len(s) = n /\ n \in Nat
        /\ sorting[n] = StableSort(Ahead, s)
        /\ sorting[n] \in Seq(Candidate) /\ Len(sorting[n]) = n
        /\ Rearranges(sorting[n], s, n)
        /\ Admitted(snap) = admission[n]
        /\ admission[n] \in Accounts

LEMMA DecisionDerived ==
    ASSUME NEW snap \in Snapshot
    PROVE  \E sorting, admission : Derivation(snap, sorting, admission)
<1> DEFINE s == Screened(snap)
           n == Len(snap.ready)
<1>1. s \in Seq(Candidate) /\ Len(s) = n /\ n \in Nat
  BY ScreenedType
<1> HIDE DEF s, n
<1>2. PICK sorting : InsertionRun(sorting, AheadOn(Candidate), Candidate, s)
                     /\ StableSort(Ahead, s) = sorting[n]
  BY <1>1, AheadSort
<1>3. n \in 0..n /\ sorting[n] \in Seq(Candidate)
  BY <1>1, <1>2 DEF InsertionRun
<1>4. Rearranges(sorting[n], s, n)
  BY <1>1, <1>2, <1>3, RunRearranges
<1>5. Len(sorting[n]) = n
  BY <1>4 DEF Rearranges
<1>6. Start(snap) \in Accounts
  BY InitialBudgetType DEF Start, Accounts
<1>7. PICK admission : /\ AdmissionRun(admission, Start(snap), sorting[n])
                       /\ FoldLeft(AdmitInto, Start(snap), sorting[n]) = admission[n]
  BY <1>3, <1>5, <1>6, AdmissionFolds
<1>8. Admitted(snap) = admission[n]
  BY <1>2, <1>7 DEF Admitted, Start, s
<1>9. admission[n] \in Accounts
  BY <1>3, <1>5, <1>7 DEF AdmissionRun
<1> QED
  BY <1>1, <1>2, <1>3, <1>4, <1>5, <1>7, <1>8, <1>9 DEF Derivation, s, n

LEMMA FunctionIsSeq ==
    ASSUME NEW A, NEW n \in Nat, NEW s \in [1..n -> A]
    PROVE  s \in Seq(A) /\ Len(s) = n
<1>1. s \in Seq(A)
  BY SeqDef
<1> QED
  BY <1>1, LenProperties

OneToOne(f, m) == \A k, l \in 1..m : f[k] = f[l] => k = l
Onto(f, m, n)  == \A j \in 1..n : \E k \in 1..m : f[k] = j

\* fg maps 1..m to 1..n by g, then by f.
Composes(fg, f, g, m, n) ==
    /\ f \in [1..n -> 1..n] /\ g \in [1..m -> 1..n] /\ fg \in [1..m -> 1..n]
    /\ \A k \in 1..m : fg[k] = f[g[k]] /\ g[k] \in 1..n

\* Two one-to-one maps in a row are one, and so for two maps onto.
LEMMA Composed ==
    ASSUME NEW n, NEW m, NEW f, NEW g, NEW fg, Composes(fg, f, g, m, n), OneToOne(f, n)
    PROVE  /\ OneToOne(g, m) => OneToOne(fg, m)
           /\ Onto(f, n, n) /\ Onto(g, m, n) => Onto(fg, m, n)
<1>1. \A k \in 1..m : g[k] \in 1..n /\ fg[k] = f[g[k]]
  BY DEF Composes
<1>2. OneToOne(g, m) => OneToOne(fg, m)
  BY <1>1 DEF OneToOne
<1>3. ASSUME Onto(f, n, n), Onto(g, m, n) PROVE Onto(fg, m, n)
  <2>1. ASSUME NEW j \in 1..n PROVE \E k \in 1..m : fg[k] = j
    <3>1. PICK l \in 1..n : f[l] = j
      BY <1>3 DEF Onto
    <3>2. PICK k \in 1..m : g[k] = l
      BY <1>3 DEF Onto
    <3> QED
      BY <1>1, <3>1, <3>2
  <2> QED
    BY <2>1 DEF Onto
<1> QED
  BY <1>2, <1>3

\* The at[m]-th ready task is the m-th selected one: it was not screened out, and
\* none is selected twice.
Chosen(at, tasks, snap) ==
    /\ at \in [1..Len(tasks) -> 1..Len(snap.ready)]
    /\ \A l, m \in 1..Len(tasks) : at[l] = at[m] => l = m
    /\ \A m \in 1..Len(tasks) : /\ tasks[m] = Screened(snap)[at[m]].task
                                /\ Screened(snap)[at[m]].outcome = Undecided

\* The i-th candidate of the report is about the of[i]-th ready task.
About(of, at, candidates, tasks, snap) ==
    LET n == Len(snap.ready)
    IN  /\ of \in [1..n -> 1..n]
        /\ \A j \in 1..n : \E k \in 1..n : of[k] = j
        /\ \A k, l \in 1..n : of[k] = of[l] => k = l
        /\ \A i \in 1..n :
               /\ candidates[i].id = snap.ready[of[i]].id
               /\ candidates[i].outcome = "rejected" <=> Screened(snap)[of[i]].outcome = "rejected"
               /\ candidates[i].outcome = "selected" <=> \E m \in 1..Len(tasks) : at[m] = of[i]

\* The limits hold over what runs and what is selected.
WithinLimits(tasks, snap) ==
    /\ tasks # <<>> => Len(snap.running) + Len(tasks) <= Config.maxConcurrent
    /\ GPUCount(tasks) > 0 => GPUCount(snap.running) + GPUCount(tasks) <= Config.maxGPU

LEMMA SelectionWithinLimits ==
    ASSUME NEW snap \in Snapshot, NEW sorting, NEW admission, Derivation(snap, sorting, admission)
    PROVE  WithinLimits(Admitted(snap).selected, snap)
<1> DEFINE n == Len(snap.ready)
           tasks == Admitted(snap).selected
           slots == admission[n].budget.slots
           inUse == admission[n].budget.gpuInUse
           len   == Len(tasks)
           gpus  == GPUCount(tasks)
           before == Len(snap.running)
           held   == GPUCount(snap.running)
           max    == Config.maxConcurrent
           free   == Clamp(max - before, max)
<1>1. /\ AdmissionRun(admission, Start(snap), sorting[n]) /\ n \in Nat /\ Len(sorting[n]) = n
      /\ sorting[n] \in Seq(Candidate) /\ Admitted(snap) = admission[n]
      /\ admission[n] \in Accounts
  BY DEF Derivation
<1>2. Start(snap).selected = <<>> /\ Start(snap).budget = InitialBudget(snap)
  BY DEF Start
<1>3. Spent(admission[n], Start(snap))
  BY <1>1, <1>2, BudgetSpent
<1>4. /\ slots + len = free /\ inUse = held + gpus
      /\ gpus > 0 => inUse <= Config.maxGPU
  BY <1>1, <1>2, <1>3 DEF Spent, InitialBudget
<1>5. slots \in Nat /\ tasks \in Seq(Task)
  BY <1>1 DEF Accounts, Budget
<1>6. /\ len \in Nat /\ before \in Nat /\ max \in Nat /\ gpus \in Nat /\ held \in Nat
      /\ tasks # <<>> => len # 0
  BY <1>5, LenProperties, EmptySeq, ConfigTypes, GPUCountType DEF Snapshot
<1>7. free = IF max - before < 0 THEN 0 ELSE IF max - before > max THEN max ELSE max - before
  BY DEF Clamp
<1> HIDE DEF tasks, slots, inUse, len, gpus, before, held, max, free
<1>8. len # 0 => before + len <= max
  BY <1>4, <1>5, <1>6, <1>7
<1>9. gpus > 0 => held + gpus <= Config.maxGPU
  BY <1>4
<1> QED
  BY <1>6, <1>8, <1>9 DEF WithinLimits, tasks, len, gpus, before, held, max

\* The engine's promise: what it selects are ready tasks that were not screened
\* out, none twice, within the limits; and it reports on every ready task.
LEMMA DecideSound ==
    ASSUME NEW snap \in Snapshot
    PROVE  /\ Decide(snap).at = snap.at
           /\ Decide(snap).selected \in Seq(Task)
           /\ Len(Decide(snap).candidates) = Len(snap.ready)
           /\ DOMAIN Decide(snap).candidates = 1..Len(snap.ready)
           /\ WithinLimits(Decide(snap).selected, snap)
           /\ \E at, of : /\ Chosen(at, Decide(snap).selected, snap)
                          /\ About(of, at, Decide(snap).candidates, Decide(snap).selected, snap)
<1> DEFINE n == Len(snap.ready)
           s == Screened(snap)
           tasks == Admitted(snap).selected
           decided == Admitted(snap).decided
           byID == StableSort(SmallerID, decided)
           candidates == Decide(snap).candidates
<1>1. PICK sorting, admission : Derivation(snap, sorting, admission)
  BY DecisionDerived
<1> DEFINE t == sorting[n]
<1>2. /\ AdmissionRun(admission, Start(snap), t) /\ n \in Nat /\ Len(t) = n /\ Len(s) = n
      /\ t \in Seq(Candidate) /\ Admitted(snap) = admission[n] /\ Rearranges(t, s, n)
      /\ n \in 0..n
  BY <1>1 DEF Derivation
<1>3. tasks \in Seq(Task) /\ decided \in Seq(Candidate)
  BY <1>1 DEF Derivation, Accounts
<1>4. \A i \in 1..n : /\ s[i].task.id = snap.ready[i].id
                      /\ s[i].outcome \in {Undecided, "rejected", "deferred"}
  BY ScreenedType
<1>5. Start(snap).selected = <<>> /\ Start(snap).decided = <<>>
  BY DEF Start
<1>6. WithinLimits(tasks, snap)
  BY <1>1, SelectionWithinLimits
<1>7. /\ Decide(snap).at = snap.at /\ Decide(snap).selected = tasks
      /\ candidates = [i \in DOMAIN byID |-> Reported(byID[i])]
  BY DEF Decide
<1> HIDE DEF s, tasks, decided, byID, candidates, t
<1>8. PICK f \in [1..n -> 1..n] :
          /\ \A j \in 1..n : \E k \in 1..n : f[k] = j
          /\ \A k, l \in 1..n : f[k] = f[l] => k = l
          /\ \A k \in 1..n : t[k] = s[f[k]]
  BY <1>2 DEF Rearranges
<1>9. PICK g : SelectedAt(g, tasks, admission, t, n)
  BY <1>2, <1>5, Selections DEF tasks
<1>10. Len(decided) = n /\ \A k \in 1..n : decided[k] = Judgment(admission, t, k)
  BY <1>2, <1>5, Judgments DEF decided
<1>11. PICK r : /\ InsertionRun(r, SmallerOn(Candidate), Candidate, decided)
                /\ byID = r[n]
  BY <1>3, <1>10, SmallerIDSort DEF byID
<1>12. byID \in Seq(Candidate) /\ Rearranges(byID, decided, n)
  <2>1. r[n] \in Seq(Candidate)
    BY <1>2, <1>10, <1>11 DEF InsertionRun
  <2> QED
    BY <1>2, <1>3, <1>10, <1>11, <2>1, RunRearranges
<1>13. PICK h \in [1..n -> 1..n] :
          /\ \A j \in 1..n : \E k \in 1..n : h[k] = j
          /\ \A k, l \in 1..n : h[k] = h[l] => k = l
          /\ \A k \in 1..n : byID[k] = decided[h[k]]
  BY <1>12 DEF Rearranges
<1>14. DOMAIN byID = 1..n /\ DOMAIN candidates = 1..n
  BY <1>2, <1>7, <1>12, LenProperties DEF Rearranges
<1>15. Len(candidates) = n
  <2>1. \A i \in 1..n : candidates[i] = Reported(byID[i])
    BY <1>7, <1>14
  <2> DEFINE A == {Reported(byID[i]) : i \in 1..n}
  <2>2. candidates \in [1..n -> A]
    BY <1>7, <1>14
  <2> HIDE DEF A
  <2>3. candidates \in Seq(A)
    BY <1>2, <2>2, FunctionIsSeq
  <2> QED
    BY <1>2, <1>14, <2>3, LenProperties
<1> DEFINE at == [m \in 1..Len(tasks) |-> f[g[m]]]
           of == [i \in 1..n |-> f[h[i]]]
<1>16. /\ g \in [1..Len(tasks) -> 1..n] /\ Len(tasks) \in Nat
       /\ \A m \in 1..Len(tasks) : tasks[m] = t[g[m]].task /\ Admits(admission, t, g[m])
       /\ \A l, m \in 1..Len(tasks) : l < m => g[l] < g[m]
       /\ \A k \in 1..n : Admits(admission, t, k) => \E m \in 1..Len(tasks) : g[m] = k
  BY <1>3, <1>9, LenProperties DEF SelectedAt
<1>17. OneToOne(g, Len(tasks)) /\ OneToOne(f, n) /\ Onto(f, n, n) /\ OneToOne(h, n) /\ Onto(h, n, n)
  <2>1. \A l, m \in 1..Len(tasks) : l < m \/ m < l \/ l = m
    BY <1>16
  <2>2. \A m \in 1..Len(tasks) : g[m] \in Int
    BY <1>16
  <2>3. \A l, m \in 1..Len(tasks) : g[l] = g[m] => l = m
    BY <1>16, <2>1, <2>2
  <2> QED
    BY <1>8, <1>13, <2>3 DEF OneToOne, Onto
<1>18. /\ at \in [1..Len(tasks) -> 1..n] /\ OneToOne(at, Len(tasks))
       /\ \A m \in 1..Len(tasks) : at[m] = f[g[m]] /\ g[m] \in 1..n
       /\ \A m \in 1..Len(tasks), k \in 1..n : at[m] = f[k] => g[m] = k
  <2>1. Composes(at, f, g, Len(tasks), n)
    BY <1>8, <1>16 DEF Composes
  <2> HIDE DEF n, at
  <2>2. \A m \in 1..Len(tasks) : at[m] = f[g[m]] /\ g[m] \in 1..n
    BY <2>1 DEF Composes
  <2>3. at \in [1..Len(tasks) -> 1..n]
    BY <2>1 DEF Composes
  <2>4. ASSUME NEW k \in 1..Len(tasks), NEW l \in 1..n, at[k] = f[l] PROVE g[k] = l
    BY <1>17, <2>2, <2>4 DEF OneToOne
  <2>5. OneToOne(at, Len(tasks))
    BY <1>17, <2>1, Composed
  <2> QED
    BY <2>2, <2>3, <2>4, <2>5
<1>19. /\ of \in [1..n -> 1..n] /\ OneToOne(of, n) /\ Onto(of, n, n)
       /\ \A i \in 1..n : of[i] = f[h[i]] /\ h[i] \in 1..n
  <2>1. Composes(of, f, h, n, n)
    BY <1>8, <1>13 DEF Composes
  <2> HIDE DEF n, of
  <2>2. \A i \in 1..n : of[i] = f[h[i]] /\ h[i] \in 1..n
    BY <2>1 DEF Composes
  <2>3. of \in [1..n -> 1..n]
    BY <2>1 DEF Composes
  <2> QED
    BY <1>17, <2>1, <2>2, <2>3, Composed
<1> HIDE DEF at, of
<1>20. \A k \in 1..n : t[k] = s[f[k]]
  BY <1>8
<1>21. Chosen(at, tasks, snap)
  <2>1. ASSUME NEW m \in 1..Len(tasks)
        PROVE  tasks[m] = s[at[m]].task /\ s[at[m]].outcome = Undecided
    <3>1. t[g[m]] = s[at[m]]
      BY <1>18, <1>20
    <3>2. tasks[m] = t[g[m]].task /\ t[g[m]].outcome = Undecided
      BY <1>16 DEF Admits
    <3> QED
      BY <3>1, <3>2
  <2> QED
    BY <1>18, <2>1 DEF Chosen, OneToOne, s
<1>22. About(of, at, candidates, tasks, snap)
  <2>1. ASSUME NEW i \in 1..n
        PROVE  /\ candidates[i].id = snap.ready[of[i]].id
               /\ candidates[i].outcome = "rejected" <=> s[of[i]].outcome = "rejected"
               /\ candidates[i].outcome = "selected" <=> \E m \in 1..Len(tasks) : at[m] = of[i]
    <3> DEFINE c == t[h[i]]
               d == Judgment(admission, t, h[i])
    <3>1. h[i] \in 1..n /\ of[i] = f[h[i]] /\ of[i] \in 1..n
      BY <1>19
    <3>2. c = s[of[i]]
      BY <1>20, <3>1
    <3>3. c \in Candidate
      BY <1>2, <3>1, AdmissionTurn
    <3>4. candidates[i].id = d.task.id /\ candidates[i].outcome = d.outcome
      BY <1>7, <1>10, <1>13, <1>14, <3>1 DEF Reported
    <3>5. /\ d.task = c.task
          /\ d.outcome = IF c.outcome # Undecided THEN c.outcome
                         ELSE IF Admits(admission, t, h[i]) THEN "selected" ELSE "deferred"
      BY <3>3 DEF Judgment, Verdict, Candidate
    <3>6. c.outcome \in {Undecided, "rejected", "deferred"} /\ c.task.id = snap.ready[of[i]].id
      BY <1>4, <3>1, <3>2
    <3>7. Admits(admission, t, h[i]) => c.outcome = Undecided
      BY DEF Admits
    <3>8. Admits(admission, t, h[i]) <=> \E m \in 1..Len(tasks) : at[m] = of[i]
      <4>1. ASSUME Admits(admission, t, h[i]) PROVE \E m \in 1..Len(tasks) : at[m] = of[i]
        <5>1. PICK m \in 1..Len(tasks) : g[m] = h[i]
          BY <1>16, <3>1, <4>1
        <5> QED
          BY <1>18, <3>1, <5>1
      <4>2. ASSUME NEW m \in 1..Len(tasks), at[m] = of[i] PROVE Admits(admission, t, h[i])
        <5>1. g[m] = h[i]
          BY <1>18, <3>1, <4>2
        <5> QED
          BY <1>16, <5>1
      <4> QED
        BY <4>1, <4>2
    <3> HIDE DEF c, d
    <3>9. d.outcome = "selected" <=> Admits(admission, t, h[i])
      BY <3>5, <3>6, <3>7 DEF Undecided
    <3>10. d.outcome = "rejected" <=> c.outcome = "rejected"
      BY <3>5, <3>6, <3>7 DEF Undecided
    <3> QED
      BY <3>2, <3>4, <3>5, <3>6, <3>8, <3>9, <3>10
  <2> QED
    BY <1>19, <2>1 DEF About, OneToOne, Onto, s
<1> QED
  BY <1>3, <1>6, <1>7, <1>14, <1>15, <1>21, <1>22 DEF candidates

-----------------------------------------------------------------------------
(* The candidates of a snapshot, in the order of the ranking.                *)

\* What the first loop makes of the ready tasks.
Candidates(snap) == {Screened(snap)[i] : i \in 1..Len(snap.ready)}

\* With exact scores the ranking sorts them.
LEMMA ScreenedSorted ==
    ASSUME NEW snap \in Snapshot, Exact(Candidates(snap)), NEW n, n = Len(snap.ready)
    PROVE  LET t == StableSort(Ahead, Screened(snap))
           IN  /\ n \in Nat /\ t \in Seq(Candidates(snap)) /\ Len(t) = n
               /\ Sorted(AheadOn(Candidates(snap)), t)
               /\ Rearranges(t, Screened(snap), n)
<1> DEFINE A == Candidates(snap)
           s == Screened(snap)
           t == StableSort(Ahead, s)
<1>1. s \in Seq(Candidate) /\ Len(s) = n /\ n \in Nat
  BY ScreenedType
<1>2. s \in Seq(A) /\ A \in SUBSET Candidate
  <2>1. \A i \in 1..n : s[i] \in A
    BY DEF Candidates
  <2>2. \A i \in 1..n : s[i] \in Candidate
    BY <1>1, ElementOfSeq
  <2>3. A \in SUBSET Candidate
    BY <2>2 DEF Candidates
  <2>4. s = [i \in 1..n |-> s[i]]
    BY <1>1, LenProperties
  <2> HIDE DEF A, s
  <2>5. s \in [1..n -> A]
    BY <2>1, <2>4
  <2> QED
    BY <1>1, <2>3, <2>5, FunctionIsSeq
<1>3. Orders(AheadOn(A), A)
  BY <1>2, AheadOrders
<1>4. PICK r : InsertionRun(r, AheadOn(A), A, s) /\ t = r[Len(s)]
  BY <1>2, AheadSort
<1> HIDE DEF A, s, t
<1>5. n \in 0..n
  BY <1>1
<1>6. r[n] \in Seq(A) /\ Sorted(AheadOn(A), r[n]) /\ Rearranges(r[n], s, n)
  <2>1. r[n] \in Seq(A)
    BY <1>1, <1>4, <1>5 DEF InsertionRun
  <2>2. Sorted(AheadOn(A), r[n])
    BY <1>1, <1>2, <1>3, <1>4, <1>5, RunKeepsSorted
  <2>3. Rearranges(r[n], s, n)
    BY <1>1, <1>2, <1>4, <1>5, RunRearranges
  <2> QED
    BY <2>1, <2>2, <2>3
<1>7. Len(r[n]) = n
  BY <1>6 DEF Rearranges
<1> QED
  BY <1>1, <1>4, <1>6, <1>7 DEF A, s, t

\* A ranked candidate by its parts.
LEMMA RankedFields ==
    ASSUME NEW snap \in Snapshot, NEW c \in Candidates(snap), c.outcome # "rejected"
    PROVE  LET left == Minus(Sub(c.deadline, snap.at), c.task.estimated)
           IN  /\ c \in Candidate /\ c.task \in Task /\ c.deadline \in Int /\ snap.at \in Int
               /\ c.task.estimated \in Durations /\ c.task.estimated > 0
               /\ c.task.priority \in Int /\ c.task.enqueued \in Int
               /\ Valid(c.task.resources) /\ c.hasDeadline
               /\ left \in Int /\ (c.miss <=> left <= 0)
               /\ c.score = Score(c.task, Sub(snap.at, c.task.enqueued), left)
<1>1. PICK i \in 1..Len(snap.ready) : c = Screened(snap)[i]
  BY DEF Candidates
<1> DEFINE raw == snap.ready[i]
           t   == Normalized(snap.at, raw)
<1>2. Accepted(snap, raw, c)
  BY <1>1, ScreenedRanked
<1>3. c \in Candidate /\ c.task \in Task
  BY <1>1, ScreenedType
<1>4. raw \in Task /\ snap.at \in Int
  BY ElementOfSeq DEF Snapshot
<1>5. /\ c.task = t /\ ~MalformedTask(raw) /\ ~Unrankable(snap.at, t) /\ c.hasDeadline
  BY <1>2 DEF Accepted
<1>6. /\ t.resources = raw.resources /\ t.priority = Or(raw.priority, Config.defaultPriority)
  BY <1>4 DEF Normalized, Task
<1> HIDE DEF t
<1>7. Valid(c.task.resources)
  BY <1>5, <1>6 DEF MalformedTask
<1>8. c.task.priority \in Int
  BY <1>4, <1>5, <1>6, ConfigTypes DEF Or, Task
<1>9. /\ c.task.estimated \in Durations /\ c.task.enqueued \in Int /\ c.deadline \in Int
  BY <1>3 DEF Candidate, Task
<1>10. c.task.estimated > 0
  <2>1. ~(t.estimated <= 0)
    BY <1>5 DEF Unrankable
  <2>2. c.task.estimated \in Int /\ t.estimated = c.task.estimated
    BY <1>5, <1>9, DifferenceType
  <2> QED
    BY <2>1, <2>2
<1> DEFINE left == Minus(Sub(c.deadline, snap.at), c.task.estimated)
<1>11. left \in Int
  BY <1>4, <1>9, DifferenceType
<1>12. (c.miss <=> left <= 0) /\ c.score = Score(c.task, Sub(snap.at, c.task.enqueued), left)
  BY <1>2 DEF Accepted
<1> QED
  BY <1>3, <1>4, <1>5, <1>7, <1>8, <1>9, <1>10, <1>11, <1>12

LEMMA WeightsPositive ==
    /\ Config.weightPriority \in Nat /\ Config.weightSlack \in Nat
    /\ Config.weightAge \in Nat /\ Config.weightReliability \in Nat
    /\ Config.agingHorizon \in Nat /\ Config.slackHorizon \in Nat
  BY ConfigAssumption DEF ValidConfig

\* A product of naturals grows with one of them.
LEMMA ProductOrder ==
    ASSUME NEW w \in Nat, NEW h \in Nat, NEW x \in Int, NEW y \in Int, x <= y
    PROVE  w * x * h <= w * y * h
<1>1. w * x <= w * y
  <2>1. y - x \in Nat
    OBVIOUS
  <2>2. w * (y - x) \in Nat
    BY <2>1
  <2>3. w * (y - x) = w * y - w * x
    OBVIOUS
  <2> QED
    BY <2>2, <2>3
<1>2. w * x \in Int /\ w * y \in Int
  OBVIOUS
<1> DEFINE p == w * x
           q == w * y
<1> HIDE DEF p, q
<1>3. p \in Int /\ q \in Int /\ p <= q
  BY <1>1, <1>2 DEF p, q
<1>4. (q - p) * h \in Nat
  <2>1. q - p \in Nat
    BY <1>3
  <2> QED
    BY <2>1
<1>5. (q - p) * h = q * h - p * h
  BY <1>3
<1>6. p * h <= q * h
  BY <1>3, <1>4, <1>5
<1> QED
  BY <1>6 DEF p, q

LEMMA LongerProductOrder ==
    ASSUME NEW w \in Nat, NEW h \in Nat, NEW g \in Nat, NEW x \in Int, NEW y \in Int, x <= y
    PROVE  w * x * h * g <= w * y * h * g
<1> DEFINE p == w * x * h
           q == w * y * h
<1>1. p \in Int /\ q \in Int /\ p <= q
  BY ProductOrder
<1> HIDE DEF p, q
<1>2. (q - p) * g \in Nat
  <2>1. q - p \in Nat
    BY <1>1
  <2> QED
    BY <2>1
<1>3. (q - p) * g = q * g - p * g
  BY <1>1
<1>4. p * g <= q * g
  BY <1>1, <1>2, <1>3
<1> QED
  BY <1>4 DEF p, q

\* As long as a deadline can be counted, the slack is that of the integers up to the
\* width of a Duration: it grows with the deadline, shrinks with the time the task
\* needs, and is gone with the time there is.
LEMMA SlackOrder ==
    ASSUME NEW now \in Int, NEW due \in Int, NEW later \in Int,
           NEW est \in Durations, NEW longer \in Durations,
           est > 0, est <= longer, due <= later, due - now - longer >= -(MaxDuration + 1)
    PROVE  /\ Minus(Sub(due, now), longer) <= Minus(Sub(later, now), est)
           /\ due - now <= longer => Minus(Sub(due, now), longer) <= 0
<1>1. MaxDuration \in Nat /\ est \in Int /\ longer \in Int /\ longer <= MaxDuration
  BY WidthAssumption DEF Durations
<1> DEFINE a == Sub(due, now)
           b == Sub(later, now)
<1>2. /\ a \in Int /\ b \in Int /\ a <= b /\ b <= MaxDuration
      /\ a - longer >= -(MaxDuration + 1) /\ b - est >= -(MaxDuration + 1)
      /\ due - now <= longer => a <= longer
  BY <1>1 DEF Sub
<1> HIDE DEF a, b
<1>3. Minus(a, longer) = a - longer /\ Minus(b, est) = b - est
  BY <1>1, <1>2 DEF Minus
<1> QED
  BY <1>1, <1>2, <1>3 DEF a, b

\* The score does not fall when the priority, the rate of success or the age grows,
\* or the slack shrinks.
LEMMA ScoreOrder ==
    ASSUME NEW t \in Task, NEW u \in Task, t.priority \in Int, u.priority \in Int,
           u.priority <= t.priority, SuccessRate(u) <= SuccessRate(t),
           NEW age \in Int, NEW younger \in Int, younger <= age,
           NEW slack \in Int, NEW more \in Int, slack <= more
    PROVE  Score(u, younger, more) <= Score(t, age, slack)
<1> DEFINE ah == Config.agingHorizon
           sh == Config.slackHorizon
           SlackScore(x) == IF x > 0 THEN Clamp(100 * (sh - x), 100 * sh) ELSE 100 * sh
           AgeScore(x)   == Clamp(100 * x, 100 * ah)
           wp(v) == Config.weightPriority * v.priority * ah * sh
           ws(x) == Config.weightSlack * x * ah
           wa(x) == Config.weightAge * x * sh
           wr(v) == Config.weightReliability * SuccessRate(v) * ah * sh
           s  == SlackScore(slack)
           m  == SlackScore(more)
           o  == AgeScore(age)
           y  == AgeScore(younger)
<1>1. sh \in Nat /\ ah \in Nat /\ Config.weightSlack \in Nat /\ Config.weightAge \in Nat
      /\ Config.weightPriority \in Nat /\ Config.weightReliability \in Nat
  BY WeightsPositive
<1>2. s \in Int /\ m \in Int /\ m <= s
  <2> HIDE DEF sh
  <2> QED
    BY <1>1 DEF Clamp
<1>3. o \in Int /\ y \in Int /\ y <= o
  <2> HIDE DEF ah
  <2> QED
    BY <1>1 DEF Clamp
<1>4. SuccessRate(t) \in Int /\ SuccessRate(u) \in Int
  BY ConfigTypes DEF SuccessRate, Or, Task
<1>5. Score(t, age, slack) = wp(t) + ws(s) + wa(o) + wr(t)
      /\ Score(u, younger, more) = wp(u) + ws(m) + wa(y) + wr(u)
  BY DEF Score
<1> HIDE DEF s, m, o, y
<1>6. ws(m) <= ws(s) /\ wa(y) <= wa(o)
  BY <1>1, <1>2, <1>3, ProductOrder
<1>7. wp(u) <= wp(t) /\ wr(u) <= wr(t)
  BY <1>1, <1>4, LongerProductOrder
<1>8. /\ wp(t) \in Int /\ wp(u) \in Int /\ wr(t) \in Int /\ wr(u) \in Int
      /\ ws(s) \in Int /\ ws(m) \in Int /\ wa(o) \in Int /\ wa(y) \in Int
  BY <1>1, <1>2, <1>3, <1>4
<1> HIDE DEF wp, ws, wa, wr
<1> QED
  BY <1>5, <1>6, <1>7, <1>8

\* With a tolerance that only lets equal scores count as equal, they are exact.
LEMMA ToleranceOne ==
    ASSUME ScoreTolerance = 1, NEW snap \in Snapshot
    PROVE  Exact(Candidates(snap))
<1> SUFFICES ASSUME NEW c \in Candidates(snap), NEW d \in Candidates(snap),
                    AlmostEqual(c.score, d.score)
             PROVE  c.score = d.score
  BY DEF Exact
<1>1. c \in Candidate /\ d \in Candidate
  BY ScreenedType DEF Candidates
<1>2. c.score \in Int /\ d.score \in Int
  BY <1>1 DEF Candidate
<1> QED
  BY <1>2 DEF AlmostEqual

=============================================================================
