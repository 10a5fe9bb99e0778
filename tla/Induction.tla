------------------------------ MODULE Induction ------------------------------
(***************************************************************************)
(* Lemmas the proofs of several components share: induction over numbers,  *)
(* without an operator as a parameter, and functions defined by recursion. *)
(***************************************************************************)
EXTENDS Integers, Sequences, SequenceTheorems, WellFoundedInduction, TLAPS

(* A function of 1 .. n is a sequence of length n. *)
LEMMA SeqOfFun ==
    ASSUME NEW n \in Nat, NEW S, NEW f \in [1 .. n -> S]
    PROVE  f \in Seq(S) /\ Len(f) = n
<1>1. f \in Seq(S)
  BY SeqDef
<1>2. DOMAIN f = 1 .. Len(f) /\ Len(f) \in Nat
  BY <1>1, LenProperties
<1>3. QED
  BY <1>1, <1>2

(* Less-than on the naturals, as a set of pairs, is well founded. *)
LEMMA LessWellFounded == IsWellFoundedOn({p \in Nat \X Nat : p[1] < p[2]}, Nat)
BY NatLessThanWellFounded DEF OpToRel

(* A set of naturals has a least member: an induction is an argument about  *)
(* the least counterexample.                                                *)
LEMMA LeastMember ==
    ASSUME NEW T \in SUBSET Nat, T # {}
    PROVE  \E x \in T : \A y \in T : x <= y
<1> DEFINE R == {p \in Nat \X Nat : p[1] < p[2]}
<1>1. PICK x \in T : \A y \in T : <<y, x>> \notin R
  <2> HIDE DEF R
  <2>1. IsWellFoundedOn(R, Nat)
    BY LessWellFounded DEF R
  <2>2. QED
    BY <2>1, WFMin
<1>2. \A y \in T : ~ (y < x)
  BY <1>1
<1>3. QED
  BY <1>2

(* Induction: a set that has 0 and, with each number below n, the next one. *)
LEMMA UpTo ==
    ASSUME NEW n \in Nat, NEW S, 0 \in S, \A i \in 0 .. n - 1 : i \in S => i + 1 \in S
    PROVE  0 .. n \subseteq S
<1> DEFINE T == (0 .. n) \ S
<1>1. SUFFICES ASSUME T # {} PROVE FALSE
  OBVIOUS
<1>2. PICK k \in T : \A j \in T : k <= j
  <2>1. T \in SUBSET Nat
    OBVIOUS
  <2> HIDE DEF T
  <2>2. QED
    BY <1>1, <2>1, LeastMember
<1>3. k - 1 \in 0 .. n - 1 /\ k - 1 \notin T
  BY <1>2
<1>4. k - 1 \in S /\ (k - 1) + 1 = k
  BY <1>3
<1>5. QED
  BY <1>3, <1>4

(* A function of 0 .. n is given by its value at 0 and a step. *)
LEMMA Recursion ==
    ASSUME NEW n \in Nat, NEW base \in Nat, NEW Step \in [(1 .. n) \X Nat -> Nat]
    PROVE  \E f \in [0 .. n -> Nat] :
              f[0] = base /\ \A i \in 1 .. n : f[i] = Step[<<i, f[i - 1]>>]
<1> DEFINE Solves(f, k) == f[0] = base /\ \A i \in 1 .. k : f[i] = Step[<<i, f[i - 1]>>]
           Solved(k) == \E f \in [0 .. k -> Nat] : Solves(f, k)
           T == {k \in 0 .. n : ~Solved(k)}
<1>1. SUFFICES ASSUME T # {} PROVE FALSE
  <2> HIDE DEF Solved
  <2>1. T = {} => Solved(n)
    OBVIOUS
  <2>2. QED
    BY <2>1 DEF Solved
<1>2. PICK k \in T : \A j \in T : k <= j
  <2>1. T \in SUBSET Nat
    OBVIOUS
  <2> HIDE DEF T
  <2>2. QED
    BY <1>1, <2>1, LeastMember
<1>3. k # 0
  <2>1. [i \in 0 .. 0 |-> base] \in [0 .. 0 -> Nat] /\ Solves([i \in 0 .. 0 |-> base], 0)
    OBVIOUS
  <2>2. QED
    BY <2>1
<1>4. k - 1 \in 0 .. n /\ Solved(k - 1)
  <2> HIDE DEF Solved
  <2>1. QED
    BY <1>2, <1>3
<1>5. PICK f \in [0 .. k - 1 -> Nat] : Solves(f, k - 1)
  BY <1>4
<1> DEFINE g == [i \in 0 .. k |-> IF i = k THEN Step[<<k, f[k - 1]>>] ELSE f[i]]
<1>6. g \in [0 .. k -> Nat]
  BY <1>3
<1>7. Solves(g, k)
  <2>1. g[0] = base
    BY <1>3, <1>5
  <2>2. ASSUME NEW i \in 1 .. k PROVE g[i] = Step[<<i, g[i - 1]>>]
    <3>1. i - 1 \in 0 .. k - 1 /\ g[i - 1] = f[i - 1]
      OBVIOUS
    <3>2. CASE i = k
      <4>1. g[k] = Step[<<k, f[k - 1]>>]
        OBVIOUS
      <4> HIDE DEF g
      <4>2. QED
        BY <3>1, <3>2, <4>1
    <3>3. CASE i # k
      <4>1. i \in 1 .. k - 1 /\ g[i] = f[i]
        BY <3>3
      <4>2. f[i] = Step[<<i, f[i - 1]>>]
        BY <1>5, <4>1
      <4>3. QED
        BY <3>1, <4>1, <4>2
    <3>4. QED
      BY <3>2, <3>3
  <2>3. QED
    BY <2>1, <2>2
<1>8. QED
  BY <1>2, <1>6, <1>7
=============================================================================
