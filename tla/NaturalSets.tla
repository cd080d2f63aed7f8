----------------------------- MODULE NaturalSets -----------------------------
(***************************************************************************)
(* Induction over the natural numbers as facts about sets of them: the     *)
(* proofs about calculations that go on round by round or element by       *)
(* element rest on it.                                                     *)
(***************************************************************************)
EXTENDS Integers, WellFoundedInduction, TLAPS

\* A set of natural numbers that is not empty has a least member.
LEMMA LeastNatural ==
  ASSUME NEW T \in SUBSET Nat, T # {}
  PROVE  \E x \in T : \A y \in T : x <= y
<1> DEFINE R == OpToRel(<, Nat)
<1>1. \A x, y \in Nat : y < x => <<y, x>> \in R
  BY DEF OpToRel
<1>2. IsWellFoundedOn(R, Nat)
  BY NatLessThanWellFounded
<1> HIDE DEF R
<1>3. PICK x \in T : \A y \in T : ~ (<<y, x>> \in R)
  BY <1>2, WFMin
<1>4. \A y \in T : ~ (y < x)
  BY <1>1, <1>3
<1>5. QED
  BY <1>4

\* A set of natural numbers that contains 0 and n + 1 with every n is all of them.
LEMMA NaturalsByStep ==
  ASSUME NEW T \in SUBSET Nat, 0 \in T, \A n \in T : n + 1 \in T
  PROVE  T = Nat
<1>1. SUFFICES ASSUME Nat \ T # {} PROVE FALSE
  OBVIOUS
<1>2. PICK x \in Nat \ T : \A y \in Nat \ T : x <= y
  BY <1>1, LeastNatural
<1>3. x - 1 \in T
  BY <1>2
<1>4. QED
  BY <1>2, <1>3

\* What goes on from b step by step is a function of the number of steps.
Follows(f, b, step, n) == f[0] = b /\ \A k \in 1..n : f[k] = step[k][f[k - 1]]

\* There is such a function, from whatever step begins.
LEMMA StepByStep ==
  ASSUME NEW S, NEW b \in S, NEW step \in [Nat -> [S -> S]], NEW n \in Nat
  PROVE  \E f \in [0..n -> S] : Follows(f, b, step, n)
<1> DEFINE Made(f, j) == f \in [0..j -> S] /\ f = [k \in 0..j |-> IF k = 0 THEN b ELSE step[k][f[k - 1]]]
           T == {j \in Nat : \E f : Made(f, j)}
<1>1. 0 \in T
  <2> DEFINE f == [k \in 0..0 |-> b]
  <2>1. Made(f, 0)
    OBVIOUS
  <2>2. QED
    BY <2>1
<1>2. ASSUME NEW j \in T PROVE j + 1 \in T
  <2>1. PICK f : Made(f, j)
    OBVIOUS
  <2> DEFINE g == [k \in 0..(j + 1) |-> IF k = 0 THEN b ELSE step[k][f[k - 1]]]
  <2>2. \A k \in 0..j : g[k] = f[k]
    BY <2>1
  <2>3. \A k \in 0..(j + 1) : k # 0 => k - 1 \in 0..j /\ k \in Nat
    OBVIOUS
  <2>4. Made(g, j + 1)
    <3>1. \A k \in 0..(j + 1) : k # 0 => g[k - 1] = f[k - 1]
      BY <2>2, <2>3
    <3>2. \A k \in 0..(j + 1) : k # 0 => f[k - 1] \in S
      BY <2>1, <2>3
    <3>3. g \in [0..(j + 1) -> S]
      BY <2>3, <3>2
    <3>4. QED
      BY <3>1, <3>3
  <2> HIDE DEF g, Made
  <2>5. QED
    BY <2>4
<1>3. T = Nat
  <2> HIDE DEF T
  <2>1. T \in SUBSET Nat
    BY DEF T
  <2>2. QED
    BY <1>1, <1>2, <2>1, NaturalsByStep
<1>4. PICK f : Made(f, n)
  BY <1>3
<1>5. f[0] = b /\ \A k \in 1..n : f[k] = step[k][f[k - 1]]
  BY <1>4
<1>6. QED
  BY <1>4, <1>5 DEF Follows

\* What holds at first and after each step holds at each of n steps.
LEMMA StepsStay ==
  ASSUME NEW S, NEW n \in Nat, NEW f, f = [k \in 0..n |-> f[k]],
         f[0] \in S, \A k \in 1..n : f[k - 1] \in S => f[k] \in S
  PROVE  f \in [0..n -> S]
<1> DEFINE T == {j \in Nat : j <= n => f[j] \in S}
<1>1. 0 \in T
  OBVIOUS
<1>2. ASSUME NEW j \in T PROVE j + 1 \in T
  <2>1. SUFFICES ASSUME j + 1 <= n PROVE f[j + 1] \in S
    OBVIOUS
  <2>2. j + 1 \in 1..n /\ (j + 1) - 1 = j /\ f[j] \in S
    BY <2>1
  <2>3. QED
    BY <2>2
<1>3. T = Nat
  <2> HIDE DEF T
  <2>1. T \in SUBSET Nat
    BY DEF T
  <2>2. QED
    BY <1>1, <1>2, <2>1, NaturalsByStep
<1>4. \A j \in 0..n : j \in Nat /\ j <= n
  OBVIOUS
<1>5. \A j \in 0..n : f[j] \in S
  BY <1>3, <1>4
<1>6. QED
  BY <1>5
=============================================================================
