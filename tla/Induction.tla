------------------------------- MODULE Induction -------------------------------
(***************************************************************************)
(* Induction over numbers, for the recursive functions of the models.      *)
(*                                                                         *)
(* The induction theorems of the library are about predicates, which the   *)
(* provers cannot instantiate; here they are about sets of numbers.  They  *)
(* follow from the library's theorem that "less than" is well founded.     *)
(***************************************************************************)
EXTENDS Integers, WellFoundedInduction, TLAPS

(* A set of numbers that is not empty has a least one.                     *)
LEMMA LeastNumber ==
  ASSUME NEW T, T \subseteq Nat, T # {}
  PROVE  \E n \in T : \A k \in T : n <= k
<1> DEFINE R == OpToRel(<, Nat)
<1>1. IsWellFoundedOn(R, Nat)
  BY NatLessThanWellFounded
<1>2. ASSUME NEW x \in Nat, NEW y \in Nat, x < y PROVE <<x, y>> \in R
  BY <1>2 DEF OpToRel
<1> HIDE DEF R
<1>3. PICK x \in T : \A y \in T : ~(<<y, x>> \in R)
  BY <1>1, WFMin, Zenon
<1>4. ASSUME NEW k \in T PROVE x <= k
  <2>1. ~(k < x)
    BY <1>2, <1>3, Zenon
  <2> QED
    BY <2>1
<1> QED
  BY <1>4

(* A set that has a number as soon as it has all smaller ones has all.     *)
LEMMA Induct ==
  ASSUME NEW T, \A n \in Nat : (\A k \in Nat : k < n => k \in T) => n \in T
  PROVE  \A n \in Nat : n \in T
<1> SUFFICES ASSUME Nat \ T # {} PROVE FALSE
  OBVIOUS
<1>1. PICK n \in Nat \ T : \A k \in Nat \ T : n <= k
  BY LeastNumber, Zenon
<1>2. \A k \in Nat : k < n => k \in T
  BY <1>1
<1> QED
  BY <1>1, <1>2, Zenon

(* Values in S that a loop of n turns may have.                            *)
Turns(next, S, n) == \A i \in 1..n : \A s \in S : next[i][s] \in S
Runs(f, S, first, next, n) ==
    /\ f \in [0..n -> S]
    /\ f[0] = first
    /\ \A i \in 1..n : f[i] = next[i][f[i - 1]]

(* There is a function with given first value and given next values.       *)
LEMMA Iterated ==
  ASSUME NEW S, NEW first \in S, NEW next, NEW n \in Nat, Turns(next, S, n)
  PROVE  \E f : Runs(f, S, first, next, n)
<1> USE DEF Turns, Runs
<1> DEFINE Upto(m) == {f \in [0..m -> S] :
                         /\ f[0] = first
                         /\ \A i \in 1..m : f[i] = next[i][f[i - 1]]}
           T == {m \in Nat : m <= n => Upto(m) # {}}
<1>1. ASSUME NEW m \in Nat, \A k \in Nat : k < m => k \in T
      PROVE  m \in T
  <2> SUFFICES ASSUME m <= n PROVE Upto(m) # {}
    OBVIOUS
  <2>1. CASE m = 0
    <3> DEFINE g == [i \in 0..0 |-> first]
    <3>1. g \in Upto(0)
      OBVIOUS
    <3> QED
      BY <2>1, <3>1
  <2>2. CASE m # 0
    <3>1. m - 1 \in Nat /\ m - 1 < m /\ m - 1 <= n
      BY <2>2
    <3>2. PICK f \in Upto(m - 1) : TRUE
      BY <1>1, <3>1
    <3> DEFINE last == next[m][f[m - 1]]
               g == [i \in 0..m |-> IF i = m THEN last ELSE f[i]]
    <3>3. last \in S
      BY <3>1, <3>2
    <3>4. g \in [0..m -> S]
      BY <3>2, <3>3
    <3>5. g[0] = first
      BY <2>2, <3>2
    <3>6. ASSUME NEW i \in 1..m PROVE g[i] = next[i][g[i - 1]]
      <4>1. g[i - 1] = f[i - 1]
        BY <3>6
      <4>2. CASE i = m
        <5>1. g[i] = next[i][f[i - 1]]
          BY <4>2
        <5> QED
          BY <4>1, <5>1, Zenon
      <4>3. CASE i # m
        <5>1. i \in 1..(m - 1)
          BY <4>3
        <5> QED
          BY <3>2, <4>1, <4>3, <5>1
      <4> QED
        BY <4>2, <4>3
    <3>7. g \in Upto(m)
      BY <3>4, <3>5, <3>6
    <3> QED
      BY <3>7
  <2> QED
    BY <2>1, <2>2
<1>2. n \in T
  <2> HIDE DEF T
  <2> QED
    BY <1>1, Induct, Zenon
<1>3. PICK f \in Upto(n) : TRUE
  BY <1>2
<1> QED
  BY <1>3
=============================================================================
