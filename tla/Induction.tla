----------------------------- MODULE Induction -----------------------------
(***************************************************************************)
(* Induction over numbers, stated for sets of them so that no operator is  *)
(* a parameter, and what follows for functions that are defined step by    *)
(* step, as the loops of the Python programs are.                          *)
(***************************************************************************)
EXTENDS Naturals, WellFoundedInduction, TLAPS

-----------------------------------------------------------------------------
(* Induction, as a fact about sets of numbers.                             *)

Below == OpToRel(<, Nat)

LEMMA BelowIsLess == \A x, y \in Nat : <<x, y>> \in Below <=> x < y
BY DEF Below, OpToRel

LEMMA SetInduction ==
    ASSUME NEW S, S \subseteq Nat, 0 \in S, \A n \in S : n + 1 \in S
    PROVE  S = Nat
<1>1. IsWellFoundedOn(Below, Nat)
  BY NatLessThanWellFounded DEF Below
<1>2. SUFFICES ASSUME Nat \ S # {} PROVE FALSE
  OBVIOUS
<1>3. PICK x \in Nat \ S : \A y \in Nat \ S : <<y, x>> \notin Below
  BY <1>1, <1>2, WFMin
<1>4. x # 0 /\ x - 1 \in Nat /\ x - 1 < x /\ (x - 1) + 1 = x
  BY <1>3
<1>5. x - 1 \in S
  BY <1>3, <1>4, BelowIsLess
<1>6. QED
  BY <1>3, <1>4, <1>5

LEMMA IndexInduction ==
    ASSUME NEW n \in Nat, NEW S, 0 \in S, \A i \in 1 .. n : i - 1 \in S => i \in S
    PROVE  0 .. n \subseteq S
<1> DEFINE R == {i \in Nat : i <= n => i \in S}
<1>1. \A i \in R : i + 1 \in R
  <2>1. SUFFICES ASSUME NEW i \in Nat, i <= n => i \in S, i + 1 <= n PROVE i + 1 \in S
    OBVIOUS
  <2>2. i + 1 \in 1 .. n /\ (i + 1) - 1 = i /\ i <= n
    BY <2>1
  <2>3. QED
    BY <2>1, <2>2
<1>2. R = Nat
  <2>1. R \subseteq Nat /\ 0 \in R
    OBVIOUS
  <2> HIDE DEF R
  <2>2. QED
    BY <1>1, <2>1, SetInduction
<1>3. QED
  BY <1>2

(* What steps, the functions D[i], make of c.                              *)
Iterates(f, n, T, c, D) ==
    /\ f \in [0 .. n -> T]
    /\ f[0] = c /\ \A i \in 1 .. n : f[i] = D[i][f[i - 1]]

LEMMA Iteration ==
    ASSUME NEW n \in Nat, NEW T, NEW c \in T, NEW D \in [1 .. n -> [T -> T]]
    PROVE  \E f : Iterates(f, n, T, c, D)
<1> DEFINE P(m) == \E f \in [0 .. m -> T] :
                      f[0] = c /\ \A i \in 1 .. m : f[i] = D[i][f[i - 1]]
           S == {m \in 0 .. n : P(m)}
<1>1. 0 \in S
  <2> DEFINE f == [i \in 0 .. 0 |-> c]
  <2>1. f \in [0 .. 0 -> T] /\ f[0] = c /\ \A i \in 1 .. 0 : f[i] = D[i][f[i - 1]]
    OBVIOUS
  <2>2. P(0)
    BY <2>1
  <2>3. QED
    BY <2>2
<1>2. ASSUME NEW m \in 1 .. n, m - 1 \in S  PROVE m \in S
  <2>1. PICK f \in [0 .. m - 1 -> T] :
              f[0] = c /\ \A i \in 1 .. m - 1 : f[i] = D[i][f[i - 1]]
    BY <1>2
  <2> DEFINE last == D[m][f[m - 1]]
             g == [i \in 0 .. m |-> IF i = m THEN last ELSE f[i]]
  <2>2. last \in T
    BY <2>1
  <2>3. g \in [0 .. m -> T] /\ g[0] = c /\ g[m] = last
    BY <2>1, <2>2
  <2>4. \A i \in 0 .. m - 1 : g[i] = f[i]
    BY <2>1
  <2>5. ASSUME NEW i \in 1 .. m  PROVE g[i] = D[i][g[i - 1]]
    <3>1. g[i - 1] = f[i - 1]
      BY <2>4
    <3>2. CASE i = m
      BY <2>3, <3>1, <3>2
    <3>3. CASE i # m
      BY <2>1, <2>4, <3>1, <3>3
    <3>4. QED
      BY <3>2, <3>3
  <2>6. P(m)
    <3> HIDE DEF g, last
    <3>1. QED
      BY <2>3, <2>5
  <2>7. QED
    <3> HIDE DEF P
    <3>1. QED
      BY <2>6
<1>3. 0 .. n \subseteq S
  <2> HIDE DEF S
  <2>1. QED
    BY <1>1, <1>2, IndexInduction
<1>4. P(n)
  BY <1>3
<1>5. QED
  BY <1>4 DEF Iterates
=============================================================================
