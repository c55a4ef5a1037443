----------------------------- MODULE Induction -----------------------------
(***************************************************************************)
(* Induction over natural numbers and recursion up to a bound, stated for  *)
(* sets and functions, so that the facts can be cited for what the modules *)
(* define by recursion over a sequence.                                    *)
(***************************************************************************)
EXTENDS Integers, WellFoundedInduction, TLAPS

(* A set of natural numbers has a least one.                               *)
LEMMA LeastNumber ==
  ASSUME NEW T, T \subseteq Nat, T # {}
  PROVE  \E m \in T : \A k \in T : m <= k
<1> DEFINE less == OpToRel(<, Nat)
<1>1. IsWellFoundedOn(less, Nat)
  BY NatLessThanWellFounded
<1>2. \A x, y \in Nat : x < y => <<x, y>> \in less
  BY DEF OpToRel
<1> HIDE DEF less
<1>3. PICK m \in T : \A k \in T : ~ (<<k, m>> \in less)
  BY <1>1, WFMin
<1>4. ASSUME NEW k \in T PROVE m <= k
  <2>1. k \in Nat /\ m \in Nat
    OBVIOUS
  <2>2. ~ (k < m)
    BY <1>2, <1>3, <2>1
  <2> QED
    BY <2>1, <2>2
<1> QED
  BY <1>4

(* What holds for 0, and for each number up to n that follows one for      *)
(* which it holds, holds up to n.                                          *)
LEMMA UpTo ==
  ASSUME NEW n \in Nat, NEW S, 0 \in S, \A k \in 1 .. n : k - 1 \in S => k \in S
  PROVE  \A k \in 0 .. n : k \in S
<1> DEFINE T == (0 .. n) \ S
<1> SUFFICES ASSUME T # {} PROVE FALSE
  OBVIOUS
<1>1. T \subseteq Nat
  OBVIOUS
<1> HIDE DEF T
<1>2. PICK m \in T : \A k \in T : m <= k
  BY <1>1, LeastNumber
<1>3. m \in 0 .. n /\ m \notin S
  BY DEF T
<1>4. m \in 1 .. n /\ m - 1 \in 0 .. n /\ ~(m <= m - 1)
  BY <1>3
<1>5. m - 1 \in S
  BY <1>2, <1>4 DEF T
<1> QED
  BY <1>3, <1>4, <1>5

(* A function is defined by its value for 0 and by how each value follows  *)
(* from the one before.                                                    *)
Steps(n, S) == [1 .. n -> [S -> S]]

Follows(g, n, S, e, step) ==
  g \in [0 .. n -> S] /\ g[0] = e /\ \A k \in 1 .. n : g[k] = step[k][g[k - 1]]

LEMMA Recursion ==
  ASSUME NEW n \in Nat, NEW S, NEW e \in S, NEW step \in Steps(n, S)
  PROVE  \E g : Follows(g, n, S, e, step)
<1> USE DEF Steps, Follows
<1> DEFINE Upto(g, m) == g[0] = e /\ \A k \in 1 .. m : g[k] = step[k][g[k - 1]]
           D == {m \in 0 .. n : \E g \in [0 .. n -> S] : Upto(g, m)}
<1>1. 0 \in D
  <2> DEFINE g == [k \in 0 .. n |-> e]
  <2>1. g \in [0 .. n -> S] /\ g[0] = e /\ 0 \in 0 .. n
    OBVIOUS
  <2> HIDE DEF g
  <2>2. Upto(g, 0)
    BY <2>1
  <2> QED
    BY <2>1, <2>2
<1>2. ASSUME NEW m \in 1 .. n, m - 1 \in D PROVE m \in D
  <2>1. PICK g \in [0 .. n -> S] : Upto(g, m - 1)
    BY <1>2
  <2> DEFINE h == [g EXCEPT ![m] = step[m][g[m - 1]]]
  <2>2. m \in 0 .. n /\ m - 1 \in 0 .. n /\ m - 1 # m /\ 0 \in 0 .. n /\ 0 # m
    OBVIOUS
  <2>3. g[m - 1] \in S
    BY <2>2
  <2>4. h \in [0 .. n -> S]
    BY <2>2, <2>3
  <2>5. h[0] = e
    BY <2>1, <2>2
  <2>6. ASSUME NEW k \in 1 .. m PROVE h[k] = step[k][h[k - 1]]
    <3>1. k \in 0 .. n /\ k - 1 \in 0 .. n /\ k - 1 # m
      OBVIOUS
    <3>2. h[k - 1] = g[k - 1]
      BY <3>1
    <3>3. CASE k = m
      BY <3>1, <3>2, <3>3
    <3>4. CASE k # m
      <4>1. h[k] = g[k] /\ k \in 1 .. m - 1
        BY <3>1, <3>4
      <4> QED
        BY <2>1, <3>2, <4>1
    <3> QED
      BY <3>3, <3>4
  <2> QED
    BY <2>2, <2>4, <2>5, <2>6
<1> HIDE DEF D
<1>3. \A k \in 0 .. n : k \in D
  BY <1>1, <1>2, UpTo
<1>4. n \in D
  BY <1>3
<1> QED
  BY <1>4 DEF D

LEMMA GreatestNumber ==
  ASSUME NEW n \in Nat, NEW T, T \subseteq 0 .. n, T # {}
  PROVE  \E m \in T : \A k \in T : k <= m
<1> DEFINE R == {n - k : k \in T}
<1>1. R \subseteq Nat /\ R # {}
  <2>1. \A k \in T : n - k \in Nat
    OBVIOUS
  <2>2. PICK k \in T : TRUE
    OBVIOUS
  <2> QED
    BY <2>1, <2>2
<1> HIDE DEF R
<1>2. PICK r \in R : \A k \in R : r <= k
  BY <1>1, LeastNumber
<1>3. PICK m \in T : r = n - m
  BY DEF R
<1>4. ASSUME NEW k \in T PROVE k <= m
  <2>1. n - k \in R /\ k \in 0 .. n /\ m \in 0 .. n
    BY DEF R
  <2>2. n - m <= n - k
    BY <1>2, <1>3, <2>1
  <2> QED
    BY <2>1, <2>2
<1> QED
  BY <1>4
=============================================================================
