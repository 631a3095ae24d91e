----------------------------- MODULE DataInduction -----------------------------
(***************************************************************************)
(* Induction and recursion without operator parameters: a property of the  *)
(* naturals is the set of those that have it, and the step of a fold is a  *)
(* function.  The well-founded minimum of the library, which is a fact     *)
(* about sets, gives the rest.                                             *)
(***************************************************************************)
EXTENDS Integers, WellFoundedInduction, SequenceTheorems, TLAPS

\* The order of the naturals as a well-founded set of pairs.
LEMMA LessRelation ==
  \E R : IsWellFoundedOn(R, Nat) /\ \A x, y \in Nat : <<y, x>> \in R <=> y < x
<1>1. IsWellFoundedOn(OpToRel(<, Nat), Nat)
  BY NatLessThanWellFounded
<1>2. \A x, y \in Nat : <<y, x>> \in OpToRel(<, Nat) <=> y < x
  BY DEF OpToRel
<1> QED
  BY <1>1, <1>2, Zenon

\* Every nonempty set of naturals has a least element.
LEMMA Smallest ==
  ASSUME NEW S \in SUBSET Nat, S # {}
  PROVE  \E m \in S : \A k \in S : m <= k
<1>1. PICK R : IsWellFoundedOn(R, Nat) /\ \A x, y \in Nat : <<y, x>> \in R <=> y < x
  BY LessRelation
<1>2. PICK m \in S : \A k \in S : ~ (<<k, m>> \in R)
  BY <1>1, WFMin
<1>3. ASSUME NEW k \in S PROVE m <= k
  <2>1. k \in Nat /\ m \in Nat /\ ~ (<<k, m>> \in R)
    BY <1>2
  <2>2. ~ (k < m)
    BY <1>1, <2>1
  <2> QED
    BY <2>1, <2>2
<1> QED
  BY <1>3

\* Induction over the naturals.
LEMMA Induction ==
  ASSUME NEW S, 0 \in S, \A n \in Nat : n \in S => n + 1 \in S
  PROVE  Nat \subseteq S
<1> DEFINE T == Nat \ S
<1> SUFFICES ASSUME T # {} PROVE FALSE
  OBVIOUS
<1>1. PICK m \in T : \A k \in T : m <= k
  BY Smallest
<1>2. m # 0 /\ m - 1 \in Nat /\ m - 1 \notin T
  BY <1>1
<1> QED
  BY <1>2

\* Induction up to a bound.
LEMMA BoundedInduction ==
  ASSUME NEW m \in Nat, NEW S, 0 \in S, \A n \in 0..m - 1 : n \in S => n + 1 \in S
  PROVE  0..m \subseteq S
<1> DEFINE T == {n \in Nat : n > m \/ n \in S}
<1>1. 0 \in T
  OBVIOUS
<1>2. ASSUME NEW n \in Nat, n \in T PROVE n + 1 \in T
  <2>1. CASE n < m
    <3>1. n \in 0..m - 1 /\ n \in S
      BY <1>2, <2>1
    <3> QED
      BY <3>1
  <2>2. CASE ~ (n < m)
    BY <2>2
  <2> QED
    BY <2>1, <2>2
<1>3. Nat \subseteq T
  <2> HIDE DEF T
  <2> QED
    BY <1>1, <1>2, Induction
<1> QED
  BY <1>3

\* A fold: a function of the number of steps done, given the function that each
\* step applies.
IsFold(f, n, V, start, step) ==
    /\ f \in [0..n -> V]
    /\ f[0] = start
    /\ \A i \in 1..n : f[i] = step[i][f[i - 1]]

\* The steps of a fold define its values.
LEMMA FoldExists ==
  ASSUME NEW V, NEW start \in V, NEW n \in Nat, NEW step \in [1..n -> [V -> V]]
  PROVE  \E f : IsFold(f, n, V, start, step)
<1> DEFINE Upto(m, f) == /\ f \in [0..m -> V] /\ f[0] = start
                         /\ \A i \in 1..m : f[i] = step[i][f[i - 1]]
           S == {m \in Nat : \E f : Upto(m, f)}
<1>1. 0 \in S
  <2> DEFINE f == [i \in 0..0 |-> start]
  <2>1. Upto(0, f)
    OBVIOUS
  <2> QED
    BY <2>1
<1>2. ASSUME NEW m \in 0..n - 1, m \in S PROVE m + 1 \in S
  <2>1. PICK f : Upto(m, f)
    BY <1>2
  <2> DEFINE g == [i \in 0..m + 1 |-> IF i = m + 1 THEN step[m + 1][f[m]] ELSE f[i]]
  <2>2. m + 1 \in 1..n /\ m \in 0..m /\ m \in Nat
    OBVIOUS
  <2>3. step[m + 1][f[m]] \in V
    BY <2>1, <2>2
  <2>4. g \in [0..m + 1 -> V] /\ g[0] = start
    BY <2>1, <2>3
  <2>5. ASSUME NEW i \in 1..m + 1 PROVE g[i] = step[i][g[i - 1]]
    <3>1. CASE i = m + 1
      BY <3>1
    <3>2. CASE i # m + 1
      <4>1. i \in 1..m /\ i - 1 \in 0..m + 1 /\ i - 1 # m + 1 /\ i \in 0..m + 1
        BY <3>2
      <4>2. f[i] = step[i][f[i - 1]]
        BY <2>1, <4>1
      <4> QED
        BY <4>1, <4>2
    <3> QED
      BY <3>1, <3>2
  <2>6. Upto(m + 1, g)
    BY <2>4, <2>5
  <2>7. \E h : Upto(m + 1, h)
    <3> HIDE DEF Upto, g
    <3> QED
      BY <2>6
  <2> HIDE DEF Upto
  <2> QED
    BY <2>2, <2>7
<1>3. 0..n \subseteq S
  <2> HIDE DEF S
  <2> QED
    BY <1>1, <1>2, BoundedInduction
<1>4. n \in S
  BY <1>3
<1> QED
  BY <1>4 DEF IsFold

\* Two folds of n steps start alike and take the same steps.
SameSteps(f, g, n) ==
    f[0] = g[0] /\ \A i \in 1..n : f[i - 1] = g[i - 1] => f[i] = g[i]

\* Such folds are alike.
LEMMA FoldUnique ==
  ASSUME NEW n \in Nat, NEW f, NEW g, SameSteps(f, g, n)
  PROVE  \A i \in 0..n : f[i] = g[i]
<1> USE DEF SameSteps
<1> DEFINE S == {i \in Nat : f[i] = g[i]}
<1>1. 0 \in S
  OBVIOUS
<1>2. ASSUME NEW i \in 0..n - 1, i \in S PROVE i + 1 \in S
  <2>1. i + 1 \in 1..n /\ (i + 1) - 1 = i /\ i + 1 \in Nat
    OBVIOUS
  <2>2. f[(i + 1) - 1] = g[(i + 1) - 1]
    BY <1>2, <2>1
  <2> QED
    BY <2>1, <2>2
<1>3. 0..n \subseteq S
  <2> HIDE DEF S
  <2> QED
    BY <1>1, <1>2, BoundedInduction
<1> QED
  BY <1>3

\* A list that is read from place to place: the items found at each place, and the
\* places where the reading goes on, always further.
IsReading(f, D, more, item, next) ==
    f = [o \in D |-> IF o \in more THEN item[o] \o f[next[o]] ELSE item[o]]

\* Such a reading ends, since the places are bounded.
LEMMA ReadingExists ==
  ASSUME NEW L \in Nat, NEW D \in SUBSET (0..L), NEW more, NEW item, NEW next,
         \A o \in D : o \in more => next[o] \in D /\ next[o] > o
  PROVE  \E f : IsReading(f, D, more, item, next)
<1>1. \A o \in D : o \in Nat /\ o <= L
  OBVIOUS
<1> DEFINE Late(k) == {o \in D : L < k + o}
<1>2. ASSUME NEW o \in D PROVE o \notin Late(0)
  BY <1>1
<1>3. ASSUME NEW k \in Nat, NEW o \in Late(k) PROVE o \in Late(k + 1)
  <2>1. o \in D /\ L < k + o /\ o \in Nat
    BY <1>1
  <2>2. L < (k + 1) + o
    BY <2>1
  <2> QED
    BY <2>1, <2>2
<1>4. ASSUME NEW o \in D PROVE o \in Late(L + 1)
  <2>1. o \in Nat /\ L < (L + 1) + o
    BY <1>1
  <2> QED
    BY <2>1
<1>5. \A k : Late(k) \subseteq D
  OBVIOUS
<1> DEFINE Upto(k, f) == f = [o \in Late(k) |-> IF o \in more THEN item[o] \o f[next[o]]
                                                ELSE item[o]]
           S == {k \in Nat : \E f : Upto(k, f)}
<1>6. 0 \in S
  <2> DEFINE f == [o \in Late(0) |-> <<>>]
  <2>1. Late(0) = {}
    <3> HIDE DEF Late
    <3> QED
      BY <1>2, <1>5
  <2>2. Upto(0, f)
    BY <2>1
  <2>3. \E h : Upto(0, h)
    <3> HIDE DEF Upto, f
    <3> QED
      BY <2>2
  <2> QED
    BY <2>3
<1>7. ASSUME NEW k \in Nat, k \in S PROVE k + 1 \in S
  <2>1. PICK f : Upto(k, f)
    BY <1>7
  <2> DEFINE g == [o \in Late(k + 1) |->
                     IF o \in Late(k) THEN f[o]
                     ELSE IF o \in more THEN item[o] \o f[next[o]] ELSE item[o]]
  <2>2. ASSUME NEW o \in Late(k + 1), o \in more
        PROVE  next[o] \in Late(k)
    <3>1. next[o] \in D /\ next[o] > o /\ o \in D /\ L < (k + 1) + o
      BY <2>2
    <3>2. next[o] \in Nat /\ o \in Nat
      BY <1>1, <3>1
    <3>3. L < k + next[o]
      BY <3>1, <3>2
    <3> QED
      BY <3>1, <3>3
  <2>3. Late(k) \subseteq Late(k + 1)
    <3> HIDE DEF Late
    <3> QED
      BY <1>3
  <2>4. \A o \in Late(k) : f[o] = IF o \in more THEN item[o] \o f[next[o]] ELSE item[o]
    BY <2>1
  <2> HIDE DEF Late
  <2>5. \A o \in Late(k + 1) : g[o] = IF o \in more THEN item[o] \o f[next[o]] ELSE item[o]
    BY <2>4
  <2>6. \A o \in Late(k + 1) : o \in more => g[next[o]] = f[next[o]]
    BY <2>2, <2>3
  <2>7. g = [o \in Late(k + 1) |-> IF o \in more THEN item[o] \o g[next[o]] ELSE item[o]]
    BY <2>5, <2>6
  <2>8. \E h : Upto(k + 1, h)
    <3> HIDE DEF g
    <3> QED
      BY <2>7
  <2> HIDE DEF Upto
  <2> QED
    BY <2>8
<1>8. Nat \subseteq S
  <2> HIDE DEF S
  <2> QED
    BY <1>6, <1>7, Induction
<1>9. Late(L + 1) = D
  <2> HIDE DEF Late
  <2> QED
    BY <1>4, <1>5
<1>10. PICK f : Upto(L + 1, f)
  <2> HIDE DEF Upto
  <2>1. L + 1 \in Nat
    OBVIOUS
  <2> QED
    BY <1>8, <2>1
<1> QED
  BY <1>9, <1>10 DEF IsReading
=============================================================================
