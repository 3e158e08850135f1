------------------------------- MODULE Recursion -------------------------------
(***************************************************************************)
(* What the proofs about recursive functions rest on: induction over the   *)
(* naturals by their least elements, and that a recursion over them has a  *)
(* solution.                                                               *)
(***************************************************************************)
EXTENDS Integers, WellFoundedInduction, TLAPS

LEMMA NatMin ==
  ASSUME NEW T \in SUBSET Nat, T # {}
  PROVE  \E x \in T : \A y \in T : x <= y
<1> DEFINE R == OpToRel(<, Nat)
<1>1. IsWellFoundedOn(R, Nat)
  BY NatLessThanWellFounded
<1>2. PICK x \in T : \A y \in T : <<y, x>> \notin R
  <2> HIDE DEF R
  <2>1. T \subseteq Nat
    OBVIOUS
  <2>2. QED
    BY <1>1, <2>1, WFMin
<1>3. \A y \in T : ~(y < x)
  BY <1>2 DEF OpToRel
<1>4. QED
  BY <1>3

LEMMA SetInduction ==
  ASSUME NEW S, 0 \in S, \A n \in Nat : n \in S => n + 1 \in S
  PROVE  Nat \subseteq S
<1>1. SUFFICES ASSUME Nat \ S # {}
               PROVE  FALSE
  OBVIOUS
<1>2. PICK x \in Nat \ S : \A y \in Nat \ S : x <= y
  BY <1>1, NatMin
<1>3. x - 1 \in Nat /\ x - 1 \notin S
  BY <1>2
<1>4. QED
  BY <1>2, <1>3

\* f takes step k from what it has after k - 1.
Unfolds(f, S, base, step, n) ==
  /\ f \in [0 .. n -> S]
  /\ f[0] = base
  /\ \A k \in 1 .. n : f[k] = step[k][f[k - 1]]

LEMMA FoldExists ==
  ASSUME NEW S, NEW base \in S, NEW n \in Nat, NEW step \in [1 .. n -> [S -> S]]
  PROVE  \E f : Unfolds(f, S, base, step, n)
<1> DEFINE T == {k \in Nat : k <= n => \E f : Unfolds(f, S, base, step, k)}
<1>1. 0 \in T
  <2>1. Unfolds([k \in 0 .. 0 |-> base], S, base, step, 0)
    BY DEF Unfolds
  <2>2. QED
    BY <2>1
<1>2. ASSUME NEW k \in Nat, k \in T
      PROVE  k + 1 \in T
  <2>1. SUFFICES ASSUME k + 1 <= n
                 PROVE  \E g : Unfolds(g, S, base, step, k + 1)
    OBVIOUS
  <2>2. k <= n /\ k + 1 \in 1 .. n
    BY <2>1
  <2>3. PICK f : Unfolds(f, S, base, step, k)
    BY <1>2, <2>2
  <2>4. PICK more : more = step[k + 1][f[k]]
    OBVIOUS
  <2>5. more \in S
    <3>1. f[k] \in S
      BY <2>3 DEF Unfolds
    <3>2. step[k + 1] \in [S -> S]
      BY <2>2
    <3>3. QED
      BY <2>4, <3>1, <3>2
  <2>6. PICK g : g = [m \in 0 .. k + 1 |-> IF m = k + 1 THEN more ELSE f[m]]
    OBVIOUS
  <2>7. g \in [0 .. k + 1 -> S]
    BY <2>3, <2>5, <2>6 DEF Unfolds
  <2>8. g[0] = base
    BY <2>3, <2>6 DEF Unfolds
  <2>9. ASSUME NEW m \in 1 .. k + 1
        PROVE  g[m] = step[m][g[m - 1]]
    <3>1. ASSUME m = k + 1
          PROVE  g[m] = step[m][g[m - 1]]
      <4>1. g[m] = more /\ g[m - 1] = f[k]
        BY <2>6, <3>1
      <4>2. QED
        BY <2>4, <3>1, <4>1
    <3>2. ASSUME m \in 1 .. k
          PROVE  g[m] = step[m][g[m - 1]]
      <4>1. f[m] = step[m][f[m - 1]]
        BY <2>3, <3>2 DEF Unfolds
      <4>2. g[m] = f[m] /\ g[m - 1] = f[m - 1]
        BY <2>6, <3>2
      <4>3. QED
        BY <4>1, <4>2
    <3>3. QED
      BY <3>1, <3>2
  <2>10. QED
    BY <2>7, <2>8, <2>9 DEF Unfolds
<1>3. n \in T
  <2> HIDE DEF T
  <2>1. QED
    BY <1>1, <1>2, SetInduction
<1>4. QED
  BY <1>3

================================================================================
