---------------------------- MODULE FoldLemmas ----------------------------
(***************************************************************************)
(* Minima, induction and folds.  The library's induction theorems take an  *)
(* operator, which the provers cannot instantiate; WFMin is the form of    *)
(* well-foundedness they can use: every non-empty set of naturals has a    *)
(* least element.  Induction follows with a set in place of the predicate, *)
(* and with it what a fold over a sequence computes.                       *)
(***************************************************************************)
EXTENDS Loops, SequenceTheorems, WellFoundedInduction, TLAPS

Less == {ss \in Nat \X Nat : ss[1] < ss[2]}

(* Less orders the naturals without infinite descent. *)
LEMMA LessWellFounded == IsWellFoundedOn(Less, Nat)
<1>1. OpToRel(<, Nat) = Less
  BY Zenon DEF OpToRel, Less
<1> QED BY <1>1, NatLessThanWellFounded, Zenon

(* A non-empty set of naturals has a least element, and Min is it. *)
LEMMA MinOfNats ==
  ASSUME NEW S \in SUBSET Nat, S # {}
  PROVE  Min(S) \in S /\ \A y \in S : Min(S) <= y
<1>1. \A x, y \in Nat : <<y, x>> \in Less <=> y < x
  BY DEF Less
<1>2. PICK x \in S : \A y \in S : ~(<<y, x>> \in Less)
  BY LessWellFounded, WFMin
<1>3. ASSUME NEW y \in S PROVE x <= y
  <2>1. x \in Nat /\ y \in Nat
    OBVIOUS
  <2>2. <<y, x>> \notin Less
    BY <1>2
  <2>3. ~(y < x)
    BY <1>1, <2>1, <2>2, Zenon
  <2> QED BY <2>1, <2>3
<1> QED BY <1>3 DEF Min

(* A bounded one has a greatest element, and Max is it. *)
LEMMA MaxOfNats ==
  ASSUME NEW S \in SUBSET Nat, S # {}, NEW top \in Nat, \A y \in S : y <= top
  PROVE  Max(S) \in S /\ \A y \in S : Max(S) >= y
<1> DEFINE T == {top - y : y \in S}
<1>1. T \in SUBSET Nat /\ T # {}
  <2>1. \A y \in S : top - y \in Nat
    OBVIOUS
  <2> QED BY <2>1
<1>2. Min(T) \in T /\ \A y \in T : Min(T) <= y
  BY <1>1, MinOfNats
<1>3. PICK x \in S : Min(T) = top - x
  BY <1>2
<1>4. \A y \in S : top - x <= top - y
  BY <1>2, <1>3
<1>5. \A y \in S : x >= y
  BY <1>4
<1> QED BY <1>5 DEF Max

(***************************************************************************)
(* Induction up to a bound, which is what a sequence's length gives: S is  *)
(* the set of the numbers that satisfy the claim.                          *)
(***************************************************************************)
LEMMA InductUpTo ==
  ASSUME NEW n \in Nat, NEW S, 0 \in S,
         \A i \in 1 .. n : i - 1 \in S => i \in S
  PROVE  0 .. n \subseteq S
<1> DEFINE T == (0 .. n) \ S
<1>1. SUFFICES ASSUME T # {} PROVE FALSE
  OBVIOUS
<1>2. T \in SUBSET Nat
  OBVIOUS
<1>3. Min(T) \in T /\ \A y \in T : Min(T) <= y
  BY <1>1, <1>2, MinOfNats
<1> DEFINE m == Min(T)
<1> HIDE DEF m
<1>4. m \in 1 .. n /\ m \notin S
  BY <1>3 DEF m
<1>5. m - 1 \in 0 .. n /\ m - 1 \notin T
  BY <1>3, <1>4 DEF m
<1>6. m - 1 \in S
  BY <1>5
<1> QED BY <1>4, <1>6

----------------------------------------------------------------------------

(* Removing its maximum from 1 .. k leaves 1 .. k - 1. *)
LEMMA TopOfInterval ==
  ASSUME NEW k \in Nat \ {0}
  PROVE  Max(1 .. k) = k /\ (1 .. k) \ {Max(1 .. k)} = 1 .. k - 1
<1>1. Max(1 .. k) \in 1 .. k /\ \A y \in 1 .. k : Max(1 .. k) >= y
  <2> DEFINE S == 1 .. k
  <2>1. S \in SUBSET Nat /\ S # {} /\ \A y \in S : y <= k
    OBVIOUS
  <2> HIDE DEF S
  <2>2. Max(S) \in S /\ \A y \in S : Max(S) >= y
    BY <2>1, MaxOfNats
  <2> QED BY <2>2 DEF S
<1>2. k \in 1 .. k
  OBVIOUS
<1>3. Max(1 .. k) = k
  BY <1>1, <1>2
<1> QED BY <1>3

(* The maximum of a set of indices, and what is below it. *)
LEMMA TopOfIndices ==
  ASSUME NEW n \in Nat, NEW s \in SUBSET (1 .. n), s # {}
  PROVE  /\ Max(s) \in s /\ Max(s) \in 1 .. n
         /\ \A y \in s : y <= Max(s)
         /\ s \ {Max(s)} \in SUBSET (1 .. Max(s) - 1)
<1>1. Max(s) \in s /\ \A y \in s : Max(s) >= y
  <2>1. s \in SUBSET Nat /\ \A y \in s : y <= n
    OBVIOUS
  <2> QED BY <2>1, MaxOfNats
<1> DEFINE m == Max(s)
<1> HIDE DEF m
<1>2. m \in 1 .. n /\ \A y \in s : y <= m /\ y \in 1 .. n
  BY <1>1 DEF m
<1>3. \A y \in s \ {m} : y \in 1 .. m - 1
  BY <1>2
<1> QED BY <1>1, <1>2, <1>3 DEF m

----------------------------------------------------------------------------
(***************************************************************************)
(* A fold is defined by a recursive function on the subsets of the         *)
(* sequence's indices.  F is one step of the fold as a function of the     *)
(* value so far and the index, and StepOn its type; Folds says that f is   *)
(* that recursive function, and Whole is its value on all indices.         *)
(***************************************************************************)
StepOn(F, A, n) == \A a \in A, i \in 1 .. n : F[<<a, i>>] \in A

Folds(f, F, A, a0, n) ==
  /\ f[{}] = a0
  /\ \A s \in SUBSET (1 .. n) :
       s # {} /\ Max(s) \in 1 .. n /\ f[s \ {Max(s)}] \in A =>
         f[s] = F[<<f[s \ {Max(s)}], Max(s)>>]

Whole(f, n) == f[1 .. n]

(* The same with the type of the function, and the agreement of two steps. *)
FoldsIn(f, F, A, a0, n) ==
  /\ f \in [SUBSET (1 .. n) -> A]
  /\ f[{}] = a0
  /\ \A s \in SUBSET (1 .. n) :
       s # {} => /\ Max(s) \in 1 .. n
                 /\ f[s \ {Max(s)}] \in A
                 /\ f[s] = F[<<f[s \ {Max(s)}], Max(s)>>]

FoldedBy(F, f, A, a0, n) == StepOn(F, A, n) /\ Folds(f, F, A, a0, n)

Agree(F, G, A, n) == \A a \in A, i \in 1 .. n : G[<<a, i>>] = F[<<a, i>>]

(* Such a function exists, and its values have the fold's type. *)
LEMMA FoldExists ==
  ASSUME NEW n \in Nat, NEW A, NEW a0 \in A, NEW F, StepOn(F, A, n)
  PROVE  \E f : FoldsIn(f, F, A, a0, n)
<1> DEFINE Ok(m) == \E f \in [SUBSET (1 .. m) -> A] : Folds(f, F, A, a0, m)
           S == {m \in 0 .. n : Ok(m)}
<1>1. 0 \in S
  <2> DEFINE f == [s \in SUBSET (1 .. 0) |-> a0]
  <2>1. 1 .. 0 = {}
    OBVIOUS
  <2>2. f \in [SUBSET (1 .. 0) -> A] /\ f[{}] = a0
    OBVIOUS
  <2>3. Folds(f, F, A, a0, 0)
    BY <2>1, <2>2 DEF Folds
  <2> QED BY <2>2, <2>3
<1>2. ASSUME NEW i \in 1 .. n, i - 1 \in S PROVE i \in S
  <2>1. PICK f \in [SUBSET (1 .. i - 1) -> A] : Folds(f, F, A, a0, i - 1)
    BY <1>2
  <2> DEFINE g == [s \in SUBSET (1 .. i) |->
                     IF i \in s THEN F[<<f[s \ {i}], i>>] ELSE f[s]]
  <2>2. \A s \in SUBSET (1 .. i) :
          /\ s \ {i} \in SUBSET (1 .. i - 1)
          /\ i \notin s => s \in SUBSET (1 .. i - 1)
    OBVIOUS
  <2>3. g \in [SUBSET (1 .. i) -> A]
    <3> SUFFICES ASSUME NEW s \in SUBSET (1 .. i) PROVE g[s] \in A
      OBVIOUS
    <3>1. f[s \ {i}] \in A /\ (i \notin s => f[s] \in A)
      BY <2>2
    <3>2. F[<<f[s \ {i}], i>>] \in A
      BY <3>1 DEF StepOn
    <3> QED BY <3>1, <3>2
  <2>4. Folds(g, F, A, a0, i)
    <3>1. g[{}] = a0
      BY <2>1 DEF Folds
    <3>2. ASSUME NEW s \in SUBSET (1 .. i), s # {}
          PROVE  g[s] = F[<<g[s \ {Max(s)}], Max(s)>>]
      <4> DEFINE m == Max(s)
                 r == s \ {m}
      <4>1. m \in s /\ m \in 1 .. i /\ \A y \in s : y <= m
        BY <3>2, TopOfIndices
      <4>2. r \in SUBSET (1 .. i)
        OBVIOUS
      <4> HIDE DEF m
      <4>3. CASE i \in s
        <5>1. m = i
          BY <4>1, <4>3
        <5>2. g[s] = F[<<f[s \ {i}], i>>]
          BY <4>3
        <5>3. g[r] = f[r]
          BY <4>2, <5>1
        <5> QED BY <5>1, <5>2, <5>3 DEF m
      <4>4. CASE i \notin s
        <5>1. i \notin r /\ s \in SUBSET (1 .. i - 1) /\ r \in SUBSET (1 .. i - 1)
          BY <4>4, <2>2, <4>2
        <5>2. g[s] = f[s] /\ g[r] = f[r]
          BY <4>2, <4>4, <5>1
        <5>3. f[r] \in A /\ m \in 1 .. i - 1
          BY <4>1, <5>1
        <5>4. f[s] = F[<<f[r], m>>]
          BY <2>1, <3>2, <5>1, <5>3 DEF Folds, m
        <5> QED BY <5>2, <5>4 DEF m
      <4> QED BY <4>3, <4>4
    <3> QED BY <3>1, <3>2 DEF Folds
  <2>5. Ok(i)
    <3> HIDE DEF g
    <3> QED BY <2>3, <2>4
  <2> HIDE DEF Ok
  <2> QED BY <2>5
<1>3. 0 .. n \subseteq S
  <2> HIDE DEF S
  <2> QED BY <1>1, <1>2, InductUpTo
<1>4. Ok(n)
  <2> HIDE DEF Ok
  <2> QED BY <1>3
<1>5. PICK f \in [SUBSET (1 .. n) -> A] : Folds(f, F, A, a0, n)
  BY <1>4
<1>6. ASSUME NEW s \in SUBSET (1 .. n), s # {}
      PROVE  Max(s) \in 1 .. n /\ s \ {Max(s)} \in SUBSET (1 .. n)
  BY <1>6, TopOfIndices
<1> QED BY <1>5, <1>6 DEF Folds, FoldsIn

(* What such a function gives after i elements, from what it gave before. *)
LEMMA FoldStep ==
  ASSUME NEW n \in Nat, NEW A, NEW a0 \in A, NEW F, StepOn(F, A, n),
         NEW f, Folds(f, F, A, a0, n)
  PROVE  /\ Whole(f, 0) = a0
         /\ \A i \in 0 .. n : Whole(f, i) \in A
         /\ \A i \in 1 .. n : Whole(f, i) = F[<<Whole(f, i - 1), i>>]
<1> DEFINE S == {m \in 0 .. n : f[1 .. m] \in A}
<1>1. f[1 .. 0] = a0
  <2>1. 1 .. 0 = {}
    OBVIOUS
  <2> QED BY <2>1 DEF Folds
<1>2. 0 \in S
  BY <1>1
<1>3. ASSUME NEW i \in 1 .. n, f[1 .. i - 1] \in A
      PROVE  f[1 .. i] = F[<<f[1 .. i - 1], i>>] /\ f[1 .. i] \in A
  <2>1. Max(1 .. i) = i /\ (1 .. i) \ {Max(1 .. i)} = 1 .. i - 1
    BY TopOfInterval
  <2>2. (1 .. i) \in SUBSET (1 .. n) /\ 1 .. i # {}
    OBVIOUS
  <2>3. f[1 .. i] = F[<<f[1 .. i - 1], i>>]
    BY <1>3, <2>1, <2>2 DEF Folds
  <2> QED BY <1>3, <2>3 DEF StepOn
<1>4. ASSUME NEW i \in 1 .. n, i - 1 \in S PROVE i \in S
  <2>1. f[1 .. i - 1] \in A
    BY <1>4
  <2>2. f[1 .. i] \in A
    BY <1>3, <2>1
  <2> QED BY <2>2
<1>5. 0 .. n \subseteq S
  <2> HIDE DEF S
  <2> QED BY <1>2, <1>4, InductUpTo
<1>6. \A k \in 0 .. n : f[1 .. k] \in A
  BY <1>5
<1>7. \A i \in 1 .. n : i - 1 \in 0 .. n
  OBVIOUS
<1> QED BY <1>1, <1>3, <1>6, <1>7 DEF Whole

(***************************************************************************)
(* The law the proofs use.  F and G are the steps of the same fold on a    *)
(* sequence of n elements and on that sequence with one more.              *)
(***************************************************************************)
LEMMA FoldAppend ==
  ASSUME NEW n \in Nat, NEW A, NEW a0 \in A,
         NEW F, NEW f, FoldedBy(F, f, A, a0, n),
         NEW G, NEW g, FoldedBy(G, g, A, a0, n + 1),
         Agree(F, G, A, n)
  PROVE  Whole(f, n) \in A /\ Whole(g, n + 1) = G[<<Whole(f, n), n + 1>>]
<1>1. /\ Whole(f, 0) = a0
      /\ \A i \in 0 .. n : Whole(f, i) \in A
      /\ \A i \in 1 .. n : Whole(f, i) = F[<<Whole(f, i - 1), i>>]
  BY FoldStep DEF FoldedBy
<1>2. /\ Whole(g, 0) = a0
      /\ \A i \in 0 .. n + 1 : Whole(g, i) \in A
      /\ \A i \in 1 .. n + 1 : Whole(g, i) = G[<<Whole(g, i - 1), i>>]
  <2>1. n + 1 \in Nat
    OBVIOUS
  <2> QED BY <2>1, FoldStep DEF FoldedBy
<1> DEFINE S == {m \in 0 .. n : Whole(f, m) = Whole(g, m)}
<1>3. 0 \in S
  BY <1>1, <1>2
<1>4. ASSUME NEW i \in 1 .. n, i - 1 \in S PROVE i \in S
  <2>1. i \in 1 .. n + 1 /\ i - 1 \in 0 .. n
    OBVIOUS
  <2>2. Whole(f, i - 1) = Whole(g, i - 1) /\ Whole(f, i - 1) \in A
    BY <1>1, <1>4, <2>1
  <2>3. Whole(f, i) = Whole(g, i)
    BY <1>1, <1>2, <2>1, <2>2 DEF Agree
  <2> QED BY <2>3
<1>5. 0 .. n \subseteq S
  <2> HIDE DEF S
  <2> QED BY <1>3, <1>4, InductUpTo
<1>6. Whole(f, n) = Whole(g, n)
  BY <1>5
<1>7. n + 1 \in 1 .. n + 1 /\ (n + 1) - 1 = n
  OBVIOUS
<1> QED BY <1>1, <1>2, <1>6, <1>7

(* Induction over sequences, with a set in place of the predicate. *)
LEMMA SeqInduct ==
  ASSUME NEW P, NEW T, << >> \in T,
         \A s \in Seq(P), p \in P : s \in T => Append(s, p) \in T
  PROVE  Seq(P) \subseteq T
<1> DEFINE Ok(m) == \A s \in Seq(P) : Len(s) = m => s \in T
<1>1. ASSUME NEW n \in Nat PROVE Ok(n)
  <2> DEFINE S == {m \in 0 .. n : Ok(m)}
  <2>1. Ok(0)
    OBVIOUS
  <2>2. ASSUME NEW i \in 1 .. n, Ok(i - 1) PROVE Ok(i)
    <3> SUFFICES ASSUME NEW s \in Seq(P), Len(s) = i PROVE s \in T
      OBVIOUS
    <3> DEFINE r == SubSeq(s, 1, i - 1)
    <3>1. r \in Seq(P) /\ Len(r) = i - 1 /\ s[i] \in P
      OBVIOUS
    <3>2. s = Append(r, s[i])
      OBVIOUS
    <3> HIDE DEF r
    <3>3. r \in T
      BY <2>2, <3>1
    <3>4. Append(r, s[i]) \in T
      BY <3>1, <3>3
    <3> QED BY <3>2, <3>4
  <2> HIDE DEF Ok
  <2>3. 0 \in S /\ \A i \in 1 .. n : i - 1 \in S => i \in S
    BY <2>1, <2>2
  <2>4. 0 .. n \subseteq S
    <3> HIDE DEF S
    <3> QED BY <2>3, InductUpTo
  <2> QED BY <2>4
<1>2. \A s \in Seq(P) : Len(s) \in Nat
  OBVIOUS
<1> QED BY <1>1, <1>2

(* A sequence is its first n elements and the rest. *)
LEMMA SplitSeq ==
  ASSUME NEW M, NEW q \in Seq(M), NEW n \in 0 .. Len(q)
  PROVE  /\ SubSeq(q, 1, n) \in Seq(M) /\ SubSeq(q, n + 1, Len(q)) \in Seq(M)
         /\ Len(SubSeq(q, 1, n)) = n /\ Len(SubSeq(q, n + 1, Len(q))) = Len(q) - n
         /\ \A i \in 1 .. n : SubSeq(q, 1, n)[i] = q[i]
         /\ \A i \in 1 .. Len(q) - n : SubSeq(q, n + 1, Len(q))[i] = q[n + i]
         /\ q = SubSeq(q, 1, n) \o SubSeq(q, n + 1, Len(q))
<1> DEFINE a == SubSeq(q, 1, n)
           b == SubSeq(q, n + 1, Len(q))
<1>1. /\ Len(q) \in Nat /\ n \in Nat
      /\ a \in Seq(M) /\ b \in Seq(M) /\ Len(a) = n /\ Len(b) = Len(q) - n
      /\ \A i \in 1 .. n : a[i] = q[i]
      /\ \A i \in 1 .. Len(q) - n : b[i] = q[n + i]
  OBVIOUS
<1> HIDE DEF a, b
<1>2. q = a \o b
  <2> DEFINE c == a \o b
  <2>1. /\ c \in Seq(M) /\ Len(c) = Len(a) + Len(b)
        /\ \A i \in 1 .. Len(a) : c[i] = a[i]
        /\ \A i \in 1 .. Len(b) : c[Len(a) + i] = b[i]
    BY <1>1
  <2> HIDE DEF c
  <2>2. Len(c) = Len(q)
    BY <1>1, <2>1
  <2>3. ASSUME NEW i \in 1 .. Len(q) PROVE q[i] = c[i]
    <3>1. CASE i <= n
      BY <1>1, <2>1, <3>1
    <3>2. CASE i > n
      <4> DEFINE j == i - n
      <4>1. j \in 1 .. Len(q) - n /\ i = n + j /\ j \in 1 .. Len(b)
        BY <1>1, <3>2
      <4> HIDE DEF j
      <4> QED BY <1>1, <2>1, <4>1
    <3> QED BY <1>1, <3>1, <3>2
  <2>4. q = c
    BY <2>1, <2>2, <2>3, SeqEqual
  <2> QED BY <2>4 DEF c
<1> QED BY <1>1, <1>2 DEF a, b

----------------------------------------------------------------------------
(***************************************************************************)
(* Sums modulo m, as unsigned additions compute them, of the field `open`  *)
(* of the records that a sequence names in a map o: the totals that a book *)
(* keeps for its queues.                                                   *)
(***************************************************************************)
Below(m) == 0 .. m - 1
Plus(m, x, y) == (x + y) % m
Minus(m, x, y) == (x - y) % m

(* A sum or a difference of two quantities wraps at most once. *)
LEMMA Wraps ==
  ASSUME NEW m \in Nat \ {0}, NEW x \in Below(m), NEW y \in Below(m)
  PROVE  /\ Plus(m, x, y) = IF x + y < m THEN x + y ELSE (x + y) - m
         /\ Minus(m, x, y) = IF x >= y THEN x - y ELSE (x - y) + m
         /\ Plus(m, x, y) \in Below(m) /\ Minus(m, x, y) \in Below(m)
<1>1. \A n \in 0 .. m - 1 : n % m = n
  OBVIOUS
<1>2. \A n \in 0 .. m - 1 : (n + m) % m = n /\ (n - m) % m = n
  OBVIOUS
<1>3. m \in Nat \ {0} /\ x \in 0 .. m - 1 /\ y \in 0 .. m - 1
  BY DEF Below
<1>4. Plus(m, x, y) = IF x + y < m THEN x + y ELSE (x + y) - m
  <2>1. CASE ~(x + y < m)
    <3>1. (x + y) - m \in 0 .. m - 1 /\ ((x + y) - m) + m = x + y
      BY <1>3, <2>1
    <3> QED BY <1>2, <2>1, <3>1 DEF Plus
  <2>2. CASE x + y < m
    BY <1>1, <1>3, <2>2 DEF Plus
  <2> QED BY <2>1, <2>2
<1>5. Minus(m, x, y) = IF x >= y THEN x - y ELSE (x - y) + m
  <2>1. CASE x >= y
    <3>1. x - y \in 0 .. m - 1
      BY <1>3, <2>1
    <3> QED BY <1>1, <2>1, <3>1 DEF Minus
  <2>2. CASE ~(x >= y)
    <3>1. (x - y) + m \in 0 .. m - 1 /\ ((x - y) + m) - m = x - y
      BY <1>3, <2>2
    <3> QED BY <1>2, <2>2, <3>1 DEF Minus
  <2> QED BY <2>1, <2>2
<1> QED BY <1>3, <1>4, <1>5 DEF Below

(* A subtraction commutes with an addition, and undoes it, whatever wraps. *)
LEMMA WrapRules ==
  ASSUME NEW m \in Nat \ {0}, NEW x \in Below(m), NEW y \in Below(m), NEW z \in Below(m)
  PROVE  /\ Plus(m, Minus(m, x, y), z) = Minus(m, Plus(m, x, z), y)
         /\ Minus(m, Plus(m, x, y), y) = x
         /\ z >= y => Plus(m, x, z - y) = Minus(m, Plus(m, x, z), y)
<1>1. m \in Nat \ {0} /\ x \in 0 .. m - 1 /\ y \in 0 .. m - 1
      /\ z \in 0 .. m - 1
  BY DEF Below
<1>2. Plus(m, x, z) \in Below(m) /\ Minus(m, x, y) \in Below(m) /\ Plus(m, x, y) \in Below(m)
  BY Wraps
<1>3. /\ Plus(m, x, z) = IF x + z < m THEN x + z ELSE (x + z) - m
      /\ Plus(m, x, y) = IF x + y < m THEN x + y ELSE (x + y) - m
      /\ Minus(m, x, y) = IF x >= y THEN x - y ELSE (x - y) + m
  BY Wraps
<1> DEFINE a == Plus(m, x, z)
           b == Minus(m, x, y)
           c == Plus(m, x, y)
<1>4. /\ Plus(m, b, z) = IF b + z < m THEN b + z ELSE (b + z) - m
      /\ Minus(m, a, y) = IF a >= y THEN a - y ELSE (a - y) + m
      /\ Minus(m, c, y) = IF c >= y THEN c - y ELSE (c - y) + m
  BY <1>2, Wraps
<1>5. z >= y => Plus(m, x, z - y) = IF x + (z - y) < m THEN x + (z - y)
                                                     ELSE (x + (z - y)) - m
  <2>1. z >= y => z - y \in Below(m)
    BY <1>1 DEF Below
  <2> QED BY <2>1, Wraps
<1> HIDE DEF a, b, c
<1>6. Plus(m, b, z) = Minus(m, a, y)
  BY <1>1, <1>3, <1>4 DEF a, b
<1>7. Minus(m, c, y) = x
  BY <1>1, <1>3, <1>4 DEF c
<1>8. z >= y => Plus(m, x, z - y) = Minus(m, a, y)
  BY <1>1, <1>3, <1>4, <1>5 DEF a
<1> QED BY <1>6, <1>7, <1>8 DEF a, b, c

(* The open quantities of the orders D in the order map o. *)
Opens(m, o, D) == \A x \in D : o[x].open \in Below(m)

(* The sum of the open quantities of the orders in q, added to a. *)
OpenSum(m, o, a, q) ==
  MapThenFoldSet(LAMBDA id, sum : (sum + o[id].open) % m, a,
                 LAMBDA i : q[i], LAMBDA S : Max(S), DOMAIN q)

(* One step of that sum stays in Below(m). *)
LEMMA OpenTypes ==
  ASSUME NEW m \in Nat \ {0}, NEW o, NEW D, Opens(m, o, D), NEW a \in Below(m), NEW p \in D
  PROVE  Plus(m, a, o[p].open) \in Below(m)
BY Wraps DEF Opens

(* The fold is computed by a function on the prefixes of the queue. *)
LEMMA OpenFoldIs ==
  ASSUME NEW m \in Nat \ {0}, NEW o, NEW D, Opens(m, o, D),
         NEW a0 \in Below(m), NEW s \in Seq(D)
  PROVE  \E F, h : /\ FoldedBy(F, h, Below(m), a0, Len(s))
                   /\ \A a \in Below(m), i \in 1 .. Len(s) : F[<<a, i>>] = Plus(m, a, o[s[i]].open)
                   /\ OpenSum(m, o, a0, s) = Whole(h, Len(s))
<1> DEFINE n == Len(s)
           F == [x \in Below(m) \X (1 .. n) |-> Plus(m, x[1], o[s[x[2]]].open)]
           Q(f) == f = [t \in SUBSET DOMAIN s |->
                          IF t = {} THEN a0 ELSE Plus(m, f[t \ {Max(t)}], o[s[Max(t)]].open)]
<1>1. n \in Nat /\ DOMAIN s = 1 .. n /\ \A i \in 1 .. n : s[i] \in D
  OBVIOUS
<1>2. \A a \in Below(m), i \in 1 .. n : F[<<a, i>>] = Plus(m, a, o[s[i]].open)
  OBVIOUS
<1> HIDE DEF n, F
<1>3. StepOn(F, Below(m), n)
  <2>1. \A a \in Below(m), p \in D : Plus(m, a, o[p].open) \in Below(m)
    BY OpenTypes
  <2> QED BY <1>1, <1>2, <2>1 DEF StepOn
<1>4. \E f : Q(f)
  <2>1. PICK f : FoldsIn(f, F, Below(m), a0, n)
    BY <1>1, <1>3, FoldExists
  <2>2. Q(f)
    BY <1>1, <1>2, <2>1 DEF FoldsIn
  <2> QED BY <2>2
<1>5. PICK h : Q(h) /\ OpenSum(m, o, a0, s) = Whole(h, n)
  <2> DEFINE c == CHOOSE f : Q(f)
  <2>1. Q(c)
    BY <1>4, Zenon
  <2>2. OpenSum(m, o, a0, s) = c[1 .. n]
    BY <1>1 DEF OpenSum, MapThenFoldSet, Plus
  <2> HIDE DEF c
  <2> QED BY <2>1, <2>2 DEF Whole
<1>6. Folds(h, F, Below(m), a0, n)
  BY <1>1, <1>2, <1>5 DEF Folds
<1>7. FoldedBy(F, h, Below(m), a0, n)
  BY <1>3, <1>6 DEF FoldedBy
<1>8. /\ FoldedBy(F, h, Below(m), a0, Len(s))
      /\ \A a \in Below(m), i \in 1 .. Len(s) : F[<<a, i>>] = Plus(m, a, o[s[i]].open)
      /\ OpenSum(m, o, a0, s) = Whole(h, Len(s))
  BY <1>2, <1>5, <1>7 DEF n
<1> QED BY <1>8, Zenon

(* The two equations of the fold, and its type. *)
LEMMA OpenFold ==
  ASSUME NEW m \in Nat \ {0}, NEW o, NEW D, Opens(m, o, D), NEW a0 \in Below(m)
  PROVE  /\ OpenSum(m, o, a0, << >>) = a0
         /\ \A s \in Seq(D) : OpenSum(m, o, a0, s) \in Below(m)
         /\ \A s \in Seq(D), p \in D :
              OpenSum(m, o, a0, Append(s, p)) = Plus(m, OpenSum(m, o, a0, s), o[p].open)
<1>1. ASSUME NEW s \in Seq(D)
      PROVE  OpenSum(m, o, a0, s) \in Below(m) /\ (s = << >> => OpenSum(m, o, a0, s) = a0)
  <2>1. PICK F, h : FoldedBy(F, h, Below(m), a0, Len(s)) /\ OpenSum(m, o, a0, s) = Whole(h, Len(s))
    BY OpenFoldIs
  <2>2. /\ Whole(h, 0) = a0
        /\ \A i \in 0 .. Len(s) : Whole(h, i) \in Below(m)
    <3>1. Len(s) \in Nat
      OBVIOUS
    <3> QED BY <2>1, <3>1, FoldStep DEF FoldedBy
  <2> QED BY <2>1, <2>2
<1>2. ASSUME NEW s \in Seq(D), NEW p \in D
      PROVE  OpenSum(m, o, a0, Append(s, p)) = Plus(m, OpenSum(m, o, a0, s), o[p].open)
  <2> DEFINE n == Len(s)
             r == Append(s, p)
  <2>1. /\ n \in Nat /\ r \in Seq(D) /\ Len(r) = n + 1 /\ r[n + 1] = p
        /\ \A i \in 1 .. n : r[i] = s[i]
    OBVIOUS
  <2>2. PICK F, f : /\ FoldedBy(F, f, Below(m), a0, n)
                    /\ \A a \in Below(m), i \in 1 .. n : F[<<a, i>>] = Plus(m, a, o[s[i]].open)
                    /\ OpenSum(m, o, a0, s) = Whole(f, n)
    BY OpenFoldIs
  <2> HIDE DEF n, r
  <2>3. PICK G, g : /\ FoldedBy(G, g, Below(m), a0, Len(r))
                    /\ \A a \in Below(m), i \in 1 .. Len(r) : G[<<a, i>>] = Plus(m, a, o[r[i]].open)
                    /\ OpenSum(m, o, a0, r) = Whole(g, Len(r))
    BY <2>1, OpenFoldIs
  <2>4. Agree(F, G, Below(m), n) /\ \A a \in Below(m) : G[<<a, n + 1>>] = Plus(m, a, o[p].open)
    BY <2>1, <2>2, <2>3 DEF Agree
  <2>5. FoldedBy(G, g, Below(m), a0, n + 1) /\ OpenSum(m, o, a0, r) = Whole(g, n + 1)
    BY <2>1, <2>3
  <2>6. Whole(f, n) \in Below(m) /\ Whole(g, n + 1) = G[<<Whole(f, n), n + 1>>]
    BY <2>1, <2>2, <2>4, <2>5, FoldAppend
  <2> QED BY <2>2, <2>4, <2>5, <2>6 DEF r
<1>3. << >> \in Seq(D)
  BY EmptySeq
<1> QED BY <1>1, <1>2, <1>3

(* The total of a level with the queue q. *)
Sum(m, o, q) == OpenSum(m, o, 0, q)

(* The equations of a total, and its type. *)
LEMMA SumIs ==
  ASSUME NEW m \in Nat \ {0}, NEW o, NEW D, Opens(m, o, D)
  PROVE  /\ Sum(m, o, << >>) = 0
         /\ \A q \in Seq(D) : Sum(m, o, q) \in Below(m)
         /\ \A q \in Seq(D), id \in D :
              Sum(m, o, Append(q, id)) = Plus(m, Sum(m, o, q), o[id].open)
<1>1. 0 \in Below(m)
  BY DEF Below
<1> QED BY <1>1, OpenFold DEF Sum

(* Order maps with the same open quantities give the same totals. *)
LEMMA SumCongruent ==
  ASSUME NEW m \in Nat \ {0}, NEW o, NEW p, NEW D, Opens(m, o, D),
         \A x \in D : p[x].open = o[x].open,
         NEW q \in Seq(D)
  PROVE  Sum(m, p, q) = Sum(m, o, q)
<1> DEFINE T == {s \in Seq(D) : Sum(m, p, s) = Sum(m, o, s)}
<1>1. Opens(m, p, D)
  BY DEF Opens
<1>2. << >> \in T
  BY <1>1, SumIs, EmptySeq
<1>3. ASSUME NEW s \in Seq(D), NEW id \in D, s \in T
      PROVE  Append(s, id) \in T
  <2>1. Append(s, id) \in Seq(D)
    OBVIOUS
  <2>2. Sum(m, p, Append(s, id)) = Plus(m, Sum(m, p, s), p[id].open)
    BY <1>1, SumIs
  <2>3. Sum(m, o, Append(s, id)) = Plus(m, Sum(m, o, s), o[id].open)
    BY SumIs
  <2> QED BY <1>3, <2>1, <2>2, <2>3, Zenon
<1> HIDE DEF T
<1>4. Seq(D) \subseteq T
  BY <1>2, <1>3, SeqInduct
<1> QED BY <1>4 DEF T

(* The queue q with the entry at `at` erased. *)
Erased(q, at) == [j \in 1 .. Len(q) - 1 |-> IF j < at THEN q[j] ELSE q[j + 1]]

(* Erasing the last entry of a queue, or another one. *)
LEMMA ErasedIs ==
  ASSUME NEW D, NEW q \in Seq(D), NEW id \in D
  PROVE  /\ Erased(Append(q, id), Len(q) + 1) = q
         /\ \A at \in 1 .. Len(q) :
              /\ Erased(q, at) \in Seq(D)
              /\ Erased(Append(q, id), at) = Append(Erased(q, at), id)
<1> DEFINE n == Len(q)
           r == Append(q, id)
<1>1. n \in Nat /\ q \in [1 .. n -> D] /\ Len(r) = n + 1 /\ r[n + 1] = id
      /\ \A i \in 1 .. n : r[i] = q[i]
  OBVIOUS
<1> HIDE DEF n, r
<1>2. Erased(r, n + 1) = q
  <2>1. Erased(r, n + 1) = [j \in 1 .. n |-> IF j < n + 1 THEN r[j] ELSE r[j + 1]]
    BY <1>1 DEF Erased
  <2>2. \A j \in 1 .. n : (IF j < n + 1 THEN r[j] ELSE r[j + 1]) = q[j]
    BY <1>1
  <2>3. q = [j \in 1 .. n |-> q[j]]
    BY <1>1
  <2> QED BY <2>1, <2>2, <2>3, Zenon
<1>3. ASSUME NEW at \in 1 .. n
      PROVE  Erased(q, at) \in Seq(D) /\ Erased(r, at) = Append(Erased(q, at), id)
  <2> DEFINE w == Erased(q, at)
  <2>1. w = [j \in 1 .. n - 1 |-> IF j < at THEN q[j] ELSE q[j + 1]]
    BY DEF Erased, n
  <2>2. n - 1 \in Nat /\ \A j \in 1 .. n - 1 : (IF j < at THEN q[j] ELSE q[j + 1]) \in D
    BY <1>1
  <2>3. w \in [1 .. n - 1 -> D]
    BY <2>1, <2>2, Zenon
  <2> HIDE DEF w
  <2>4. w \in Seq(D) /\ Len(w) = n - 1
    BY <2>2, <2>3
  <2> DEFINE y == Append(w, id)
             x == Erased(r, at)
  <2>5. y \in Seq(D) /\ Len(y) = n /\ y[n] = id /\ \A j \in 1 .. n - 1 : y[j] = w[j]
    BY <1>1, <2>2, <2>4
  <2>6. x = [j \in 1 .. n |-> IF j < at THEN r[j] ELSE r[j + 1]]
    <3>1. Len(r) - 1 = n
      BY <1>1
    <3> QED BY <3>1 DEF Erased
  <2> HIDE DEF x, y
  <2>7. ASSUME NEW j \in 1 .. n
        PROVE  x[j] = y[j] /\ x[j] \in D
    <3>1. CASE j <= n - 1
      <4>1. j \in 1 .. n - 1 /\ j + 1 \in 1 .. n
        BY <1>1, <3>1
      <4>2. w[j] = IF j < at THEN q[j] ELSE q[j + 1]
        BY <2>1, <4>1
      <4> QED BY <1>1, <2>2, <2>5, <2>6, <3>1, <4>1, <4>2
    <3>2. CASE ~(j <= n - 1)
      <4>1. j = n /\ ~(j < at)
        BY <1>1, <3>2
      <4> QED BY <1>1, <2>5, <2>6, <3>2, <4>1
    <3> QED BY <3>1, <3>2
  <2>8. x \in Seq(D) /\ Len(x) = n
    <3>1. x \in [1 .. n -> D]
      BY <2>6, <2>7
    <3> QED BY <1>1, <3>1
  <2>9. x = y
    BY <2>5, <2>7, <2>8, SeqEqual
  <2> QED BY <2>4, <2>9 DEF w, x, y
<1> QED BY <1>2, <1>3 DEF n, r

(* Erasing an order takes its open quantity off the total. *)
LEMMA SumErased ==
  ASSUME NEW m \in Nat \ {0}, NEW o, NEW D, Opens(m, o, D),
         NEW q \in Seq(D), NEW at \in 1 .. Len(q)
  PROVE  Sum(m, o, Erased(q, at)) = Minus(m, Sum(m, o, q), o[q[at]].open)
<1> DEFINE T == {s \in Seq(D) : \A i \in 1 .. Len(s) :
                   Sum(m, o, Erased(s, i)) = Minus(m, Sum(m, o, s), o[s[i]].open)}
<1>1. << >> \in T
  OBVIOUS
<1>2. ASSUME NEW s \in Seq(D), NEW id \in D, s \in T
      PROVE  Append(s, id) \in T
  <2> DEFINE r == Append(s, id)
  <2>1. r \in Seq(D) /\ Len(r) = Len(s) + 1 /\ Len(s) \in Nat /\ r[Len(s) + 1] = id
        /\ \A i \in 1 .. Len(s) : r[i] = s[i] /\ s[i] \in D
    OBVIOUS
  <2>2. /\ Sum(m, o, r) = Plus(m, Sum(m, o, s), o[id].open)
        /\ Sum(m, o, s) \in Below(m) /\ o[id].open \in Below(m)
    BY SumIs DEF Opens
  <2>3. /\ Erased(r, Len(s) + 1) = s
        /\ \A k \in 1 .. Len(s) :
              /\ Erased(s, k) \in Seq(D)
              /\ Erased(r, k) = Append(Erased(s, k), id)
    BY ErasedIs
  <2> HIDE DEF r
  <2>4. ASSUME NEW i \in 1 .. Len(r)
        PROVE  Sum(m, o, Erased(r, i)) = Minus(m, Sum(m, o, r), o[r[i]].open)
    <3>1. CASE i = Len(s) + 1
      <4>1. Minus(m, Plus(m, Sum(m, o, s), o[id].open), o[id].open) = Sum(m, o, s)
        BY <2>2, WrapRules
      <4> QED BY <2>1, <2>2, <2>3, <3>1, <4>1
    <3>2. CASE i # Len(s) + 1
      <4>1. i \in 1 .. Len(s)
        BY <2>1, <3>2
      <4>2. Sum(m, o, Erased(s, i)) = Minus(m, Sum(m, o, s), o[s[i]].open)
        BY <1>2, <4>1
      <4>3. Sum(m, o, Append(Erased(s, i), id)) = Plus(m, Sum(m, o, Erased(s, i)), o[id].open)
        BY <2>3, <4>1, SumIs
      <4>4. o[s[i]].open \in Below(m)
        BY <2>1, <4>1 DEF Opens
      <4>5. Plus(m, Minus(m, Sum(m, o, s), o[s[i]].open), o[id].open)
              = Minus(m, Plus(m, Sum(m, o, s), o[id].open), o[s[i]].open)
        BY <2>2, <4>4, WrapRules
      <4> QED BY <2>1, <2>2, <2>3, <4>1, <4>2, <4>3, <4>5, Zenon
    <3> QED BY <3>1, <3>2
  <2> QED BY <2>1, <2>4 DEF r
<1> HIDE DEF T
<1>3. Seq(D) \subseteq T
  BY <1>1, <1>2, SeqInduct
<1> QED BY <1>3 DEF T

(* Differences that agree after a cancellation, each wrapping at most once. *)
LEMMA WrapCancel ==
  ASSUME NEW m \in Int, NEW x \in Int, NEW y \in Int, NEW z \in Int, NEW by \in Int,
         0 <= x, x < m, 0 <= y, y < m, 0 <= by, by <= z, z < m,
         (IF y >= z - by THEN y - (z - by) ELSE (y - (z - by)) + m)
           = (IF x >= z THEN x - z ELSE (x - z) + m)
  PROVE  y = IF x >= by THEN x - by ELSE (x - by) + m
<1>1. CASE y >= z - by /\ x >= z
  BY <1>1
<1>2. CASE y >= z - by /\ x < z
  BY <1>2
<1>3. CASE y < z - by /\ x >= z
  BY <1>3
<1>4. CASE y < z - by /\ x < z
  BY <1>4
<1> QED BY <1>1, <1>2, <1>3, <1>4

(* Reducing the open quantity of one order takes as much off the total. *)
LEMMA SumReduced ==
  ASSUME NEW m \in Nat \ {0}, NEW o, NEW p, NEW D, Opens(m, o, D), Opens(m, p, D),
         NEW q \in Seq(D),
         \A i, j \in 1 .. Len(q) : q[i] = q[j] => i = j,
         NEW at \in 1 .. Len(q), NEW by \in Below(m),
         by <= o[q[at]].open, p[q[at]].open = o[q[at]].open - by,
         \A x \in D \ {q[at]} : p[x].open = o[x].open
  PROVE  Sum(m, p, q) = Minus(m, Sum(m, o, q), by)
<1> DEFINE id == q[at]
           E  == D \ {id}
           w  == Erased(q, at)
           x  == Sum(m, o, q)
           y  == Sum(m, p, q)
           z  == o[id].open
<1>1. id \in D /\ z \in Below(m) /\ x \in Below(m) /\ y \in Below(m)
  BY SumIs DEF Opens
<1>2. w \in Seq(E)
  <2> DEFINE l == Len(q) - 1
  <2>1. w = [j \in 1 .. l |-> IF j < at THEN q[j] ELSE q[j + 1]] /\ l \in Nat
    BY DEF Erased
  <2>2. \A j \in 1 .. l : (IF j < at THEN q[j] ELSE q[j + 1]) \in E
    OBVIOUS
  <2> HIDE DEF w, E, l
  <2>3. w \in [1 .. l -> E]
    BY <2>1, <2>2, Zenon
  <2>4. l \in Nat
    BY <2>1
  <2> QED BY <2>3, <2>4
<1>3. Opens(m, o, E) /\ \A e \in E : p[e].open = o[e].open
  BY DEF Opens
<1> HIDE DEF w, E
<1>4. Sum(m, p, w) = Sum(m, o, w)
  BY <1>2, <1>3, SumCongruent
<1>5. Sum(m, o, w) = Minus(m, x, z) /\ Sum(m, p, w) = Minus(m, y, p[id].open)
  BY SumErased DEF w
<1> HIDE DEF x, y, z, id
<1>6. p[id].open = z - by /\ by <= z
  BY DEF id, z
<1>7. Minus(m, y, z - by) = Minus(m, x, z)
  BY <1>4, <1>5, <1>6
<1>8. z - by \in Below(m)
  BY <1>1, <1>6 DEF Below
<1>9. /\ Minus(m, y, z - by) = IF y >= z - by THEN y - (z - by) ELSE (y - (z - by)) + m
      /\ Minus(m, x, z) = IF x >= z THEN x - z ELSE (x - z) + m
      /\ Minus(m, x, by) = IF x >= by THEN x - by ELSE (x - by) + m
  <2>1. Minus(m, y, z - by) = IF y >= z - by THEN y - (z - by) ELSE (y - (z - by)) + m
    BY <1>1, <1>8, Wraps
  <2>2. Minus(m, x, z) = IF x >= z THEN x - z ELSE (x - z) + m
    BY <1>1, Wraps
  <2>3. Minus(m, x, by) = IF x >= by THEN x - by ELSE (x - by) + m
    BY <1>1, Wraps
  <2> QED BY <2>1, <2>2, <2>3
<1>10. y = Minus(m, x, by)
  <2>1. /\ m \in Nat /\ x \in Int /\ y \in Int /\ z \in Int /\ by \in Int
        /\ 0 <= x /\ x < m /\ 0 <= y /\ y < m /\ 0 <= z /\ z < m /\ 0 <= by
    BY <1>1 DEF Below
  <2>2. /\ (IF y >= z - by THEN y - (z - by) ELSE (y - (z - by)) + m)
           = (IF x >= z THEN x - z ELSE (x - z) + m)
        /\ by <= z
    BY <1>6, <1>7, <1>9
  <2>3. y = IF x >= by THEN x - by ELSE (x - by) + m
    BY <2>1, <2>2, WrapCancel
  <2> QED BY <1>9, <2>3
<1> QED BY <1>10 DEF x, y

============================================================================
