------------------------------ MODULE AbInduct ------------------------------
(***************************************************************************)
(* Induction over the natural numbers in a form that first-order provers   *)
(* can use: the property is a set of numbers.  It rests on the finite sets *)
(* being well founded, since 1 .. k is a strict subset of 1 .. m if k < m. *)
(* And the arithmetic of counters that wrap.                               *)
(***************************************************************************)
EXTENDS Integers, FiniteSets, FiniteSetTheorems, WellFoundedInduction, TLAPS

LEMMA LeastNumber ==
  ASSUME NEW S, S \subseteq Nat, S # {}
  PROVE  \E m \in S : \A k \in S : m <= k
<1> DEFINE R == StrictSubsetOrdering(Nat)
           U == {1 .. n : n \in S}
<1>1. U # {} /\ U \subseteq FiniteSubsetsOf(Nat)
  <2>1. \A n \in S : IsFiniteSet(1 .. n) /\ 1 .. n \in SUBSET Nat
    BY FS_Interval
  <2> QED
    BY <2>1 DEF FiniteSubsetsOf
<1>2. PICK x \in U : \A y \in U : <<y, x>> \notin R
  <2> HIDE DEF R, U
  <2> QED
    BY <1>1, FS_StrictSubsetOrderingWellFounded, WFMin DEF R
<1>3. PICK m \in S : x = 1 .. m
  OBVIOUS
<1>4. ASSUME NEW k \in S, ~ (m <= k) PROVE FALSE
  <2>1. 1 .. k \subseteq 1 .. m /\ m \in 1 .. m /\ m \notin 1 .. k
    BY <1>4
  <2>2. 1 .. k \in SUBSET Nat /\ 1 .. m \in SUBSET Nat /\ 1 .. k \in U
    OBVIOUS
  <2> QED
    BY <1>2, <1>3, <2>1, <2>2 DEF StrictSubsetOrdering
<1> QED
  BY <1>3, <1>4

LEMMA NatSetInduction ==
  ASSUME NEW S, 0 \in S, \A n \in Nat : n \in S => n + 1 \in S
  PROVE  Nat \subseteq S
<1> SUFFICES ASSUME Nat \ S # {} PROVE FALSE
  OBVIOUS
<1>1. PICK m \in Nat \ S : \A k \in Nat \ S : m <= k
  BY LeastNumber
<1>2. m - 1 \in Nat /\ m - 1 \notin Nat \ S
  BY <1>1
<1> QED
  BY <1>1, <1>2

(* The same on 1 .. n. *)
LEMMA SpanInduction ==
  ASSUME NEW n \in Nat, NEW S,
         1 \in S, \A k \in 1 .. n - 1 : k \in S => k + 1 \in S
  PROVE  1 .. n \subseteq S
<1> DEFINE rest == (1 .. n) \ S
<1> SUFFICES ASSUME rest # {} PROVE FALSE
  OBVIOUS
<1>1. PICK m \in rest : \A k \in rest : m <= k
  <2>1. rest \subseteq Nat
    OBVIOUS
  <2> HIDE DEF rest
  <2> QED
    BY <2>1, LeastNumber
<1>2. m - 1 \in 1 .. n - 1 /\ m - 1 \notin rest
  BY <1>1
<1> QED
  BY <1>1, <1>2

(* A function on the natural numbers by recursion: a is f[0], and          *)
(* h[n][f[n]] is f[n + 1].                                                 *)
Steps(h, S) == \A n \in Nat, x \in S : h[n][x] \in S
Recurs(f, a, h, S) ==
  f \in [Nat -> S] /\ f[0] = a /\ \A n \in Nat : f[n + 1] = h[n][f[n]]

LEMMA NatRecursion ==
  ASSUME NEW S, NEW a \in S, NEW h, Steps(h, S)
  PROVE  \E f : Recurs(f, a, h, S)
<1>0. \A n \in Nat, x \in S : h[n][x] \in S
  BY DEF Steps
<1> DEFINE Upto(n, g) == /\ g \in [0 .. n -> S] /\ g[0] = a
                         /\ \A i \in 0 .. n - 1 : g[i + 1] = h[i][g[i]]
           A == {n \in Nat : \E g : Upto(n, g)}
<1>1. Nat \subseteq A
  <2>1. 0 \in A
    <3>1. Upto(0, [i \in 0 .. 0 |-> a])
      OBVIOUS
    <3> QED
      BY <3>1
  <2>2. ASSUME NEW n \in Nat, n \in A PROVE n + 1 \in A
    <3>1. PICK g : Upto(n, g)
      BY <2>2
    <3> DEFINE k == [i \in 0 .. n + 1 |->
                       IF i = n + 1 THEN h[n][g[n]] ELSE g[i]]
    <3>2. Upto(n + 1, k)
      <4>1. \A i \in 0 .. n : g[i] \in S
        BY <3>1
      <4>2. \A i \in 0 .. n : k[i] = g[i] /\ (i < n => k[i + 1] = g[i + 1])
        OBVIOUS
      <4>3. k[n + 1] = h[n][g[n]] /\ k[0] = a
        BY <3>1
      <4>4. h[n][g[n]] \in S
        BY <1>0, <4>1
      <4>5. k \in [0 .. n + 1 -> S]
        <5>1. \A i \in 0 .. n + 1 : i = n + 1 \/ i \in 0 .. n
          OBVIOUS
        <5> QED
          BY <4>1, <4>4, <5>1
      <4>6. ASSUME NEW i \in 0 .. n PROVE k[i + 1] = h[i][k[i]]
        <5>1. CASE i = n
          BY <4>2, <4>3, <5>1
        <5>2. CASE i < n
          <6>1. i \in 0 .. n - 1
            BY <5>2
          <6>2. g[i + 1] = h[i][g[i]]
            BY <3>1, <6>1
          <6> HIDE DEF k
          <6> QED
            BY <4>2, <5>2, <6>2
        <5> QED
          BY <5>1, <5>2
      <4>7. 0 .. (n + 1) - 1 = 0 .. n
        OBVIOUS
      <4> HIDE DEF k
      <4> QED
        BY <4>3, <4>5, <4>6, <4>7
    <3> HIDE DEF Upto
    <3> QED
      BY <3>2
  <2> HIDE DEF A
  <2> QED
    BY <2>1, <2>2, NatSetInduction
<1> DEFINE G(n) == CHOOSE g : Upto(n, g)
<1>2. \A n \in Nat : Upto(n, G(n))
  BY <1>1
<1> HIDE DEF G
<1>3. \A n \in Nat : \A i \in 0 .. n : G(n + 1)[i] = G(n)[i]
  <2> SUFFICES ASSUME NEW n \in Nat
               PROVE  \A i \in 0 .. n : G(n + 1)[i] = G(n)[i]
    OBVIOUS
  <2> DEFINE T == {i \in Nat : i \in 0 .. n => G(n + 1)[i] = G(n)[i]}
  <2>1. 0 \in T
    BY <1>2
  <2>2. ASSUME NEW i \in Nat, i \in T PROVE i + 1 \in T
    <3>1. SUFFICES ASSUME i + 1 \in 0 .. n PROVE G(n + 1)[i + 1] = G(n)[i + 1]
      OBVIOUS
    <3>2. i \in 0 .. n - 1 /\ i \in 0 .. (n + 1) - 1 /\ i \in 0 .. n
      BY <3>1
    <3>3. G(n + 1)[i + 1] = h[i][G(n + 1)[i]]
      BY <1>2, <3>2
    <3>4. G(n)[i + 1] = h[i][G(n)[i]]
      BY <1>2, <3>2
    <3> QED
      BY <2>2, <3>2, <3>3, <3>4
  <2> HIDE DEF T
  <2>3. Nat \subseteq T
    BY <2>1, <2>2, NatSetInduction
  <2> QED
    BY <2>3 DEF T
<1> DEFINE f == [n \in Nat |-> G(n)[n]]
<1>4. f \in [Nat -> S] /\ f[0] = a
  BY <1>2
<1>5. ASSUME NEW n \in Nat PROVE f[n + 1] = h[n][f[n]]
  <2>1. G(n + 1)[n + 1] = h[n][G(n + 1)[n]]
    BY <1>2
  <2>2. G(n + 1)[n] = G(n)[n]
    BY <1>3
  <2> QED
    BY <2>1, <2>2
<1> HIDE DEF f
<1> QED
  BY <1>4, <1>5 DEF Recurs

(* A number that is k turns of the counter away from e is e on the counter. *)
LEMMA TurnsOff ==
  ASSUME NEW M \in Nat \ {0}, NEW n \in 0 .. M - 1, NEW k \in Int
  PROVE  (n + M * k) % M = n
<1> DEFINE e == n + M * k
           r == e % M
           q == e \div M
<1>1. e \in Int /\ q \in Int /\ r \in 0 .. M - 1 /\ e = M * q + r
  OBVIOUS
<1>2. M * (q - k) = n - r
  BY <1>1
<1>3. q - k = 0
  <2>1. q - k >= 1 => M * (q - k) >= M
    BY <1>1
  <2>2. q - k <= -1 => M * (q - k) <= - M
    BY <1>1
  <2> QED
    BY <1>1, <1>2, <2>1, <2>2
<1> QED
  BY <1>1, <1>2, <1>3
=============================================================================
