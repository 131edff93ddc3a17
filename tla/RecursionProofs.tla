--------------------------- MODULE RecursionProofs ---------------------------
(***************************************************************************)
(* What the proofs about recursive functions rest on: induction over the   *)
(* naturals in the form the provers can apply, for a set instead of a      *)
(* predicate, derived from the well-foundedness of the naturals; and that  *)
(* a loop of N rounds has a run.  With them, that doubling with a cap,     *)
(* step by step, is the closed form of Backoff, for every first wait and   *)
(* every cap.                                                              *)
(***************************************************************************)
EXTENDS Backoff, WellFoundedInduction, TLAPS

\* A non-empty set of naturals has a least element.
LEMMA LeastNatural ==
    ASSUME NEW T, T \subseteq Nat, T # {}
    PROVE  \E x \in T : \A y \in T : ~(y < x)
<1>1. PICK R : R = OpToRel(<, Nat)
  BY Zenon
<1>2. IsWellFoundedOn(R, Nat)
  BY <1>1, NatLessThanWellFounded, Zenon
<1>3. PICK x \in T : \A y \in T : ~(<<y, x>> \in R)
  BY <1>2, WFMin
<1>4. R = {p \in Nat \X Nat : p[1] < p[2]}
  BY <1>1 DEF OpToRel
<1>5. QED
  BY <1>3, <1>4

\* A set that holds 0 and with every natural the next one holds them all.
LEMMA InductionOnSet ==
    ASSUME NEW S, 0 \in S, \A n \in Nat : n \in S => n + 1 \in S
    PROVE  \A n \in Nat : n \in S
<1> SUFFICES ASSUME Nat \ S # {}
             PROVE  FALSE
  OBVIOUS
<1>1. PICK x \in Nat \ S : \A y \in Nat \ S : ~(y < x)
  BY LeastNatural
<1>2. x # 0 /\ x - 1 \in Nat /\ (x - 1) + 1 = x
  BY <1>1
<1>3. x - 1 \in S
  BY <1>1, <1>2
<1>4. QED
  BY <1>1, <1>2, <1>3

\* The runs of a loop of N rounds that starts with v0 and in which round n
\* makes F[n][v] of the value v so far.
LoopRuns(N, V, v0, F) ==
    {f \in [0 .. N -> V] : f[0] = v0 /\ \A n \in 1 .. N : f[n] = F[n][f[n - 1]]}

\* There is such a run: it is extended round by round.
LEMMA RunExists ==
    ASSUME NEW N \in Nat, NEW V, NEW v0 \in V, NEW F \in [1 .. N -> [V -> V]]
    PROVE  LoopRuns(N, V, v0, F) # {}
<1> DEFINE Run(k) == {f \in [0 .. k -> V] :
                        f[0] = v0 /\ \A n \in 1 .. k : f[n] = F[n][f[n - 1]]}
           S == {k \in Nat : k =< N => Run(k) # {}}
<1>1. 0 \in S
  <2>1. [n \in 0 .. 0 |-> v0] \in Run(0)
    OBVIOUS
  <2>2. QED
    BY <2>1
<1>2. ASSUME NEW k \in Nat, k \in S
      PROVE  k + 1 \in S
  <2> SUFFICES ASSUME k + 1 =< N
               PROVE  Run(k + 1) # {}
    OBVIOUS
  <2>1. PICK f : f \in Run(k)
    BY <1>2
  <2>2. /\ f \in [0 .. k -> V] /\ f[0] = v0
        /\ \A n \in 1 .. k : f[n] = F[n][f[n - 1]]
    BY <2>1
  <2>3. F[k + 1][f[k]] \in V
    BY <2>2
  <2>4. PICK g : g = [n \in 0 .. k + 1 |-> IF n =< k THEN f[n] ELSE F[k + 1][f[k]]]
    OBVIOUS
  <2>5. g \in [0 .. k + 1 -> V] /\ g[0] = v0
    BY <2>2, <2>3, <2>4
  <2>6. ASSUME NEW n \in 1 .. k + 1
        PROVE  g[n] = F[n][g[n - 1]]
    <3>0. n - 1 \in 0 .. k /\ g[n - 1] = f[n - 1]
      BY <2>4
    <3>1. CASE n =< k
      <4>1. n \in 1 .. k /\ g[n] = f[n]
        BY <2>4, <3>1
      <4>2. f[n] = F[n][f[n - 1]]
        BY <2>2, <4>1
      <4>3. QED
        BY <3>0, <4>1, <4>2
    <3>2. CASE n = k + 1
      BY <2>4, <3>0, <3>2
    <3>3. QED
      BY <3>1, <3>2
  <2>7. g \in Run(k + 1)
    BY <2>5, <2>6
  <2>8. QED
    BY <2>7
<1> HIDE DEF S
<1>3. \A k \in Nat : k \in S
  BY <1>1, <1>2, InductionOnSet
<1>4. Run(N) # {}
  BY <1>3 DEF S
<1>5. QED
  BY <1>4 DEF LoopRuns

-----------------------------------------------------------------------------

\* The first n powers of two.
Table(n) == {f \in [0 .. n -> Nat] :
                f[0] = 1 /\ \A m \in 1 .. n : f[m] = 2 * f[m - 1]}

\* There is such a table for every n.
LEMMA TableExists == \A n \in Nat : Table(n) # {}
<1> TAKE n \in Nat
<1>1. PICK F : F = [m \in 1 .. n |-> [v \in Nat |-> 2 * v]]
  OBVIOUS
<1>t. F \in [1 .. n -> [Nat -> Nat]]
  BY <1>1
<1>2. \A m \in 1 .. n, v \in Nat : F[m][v] = 2 * v
  BY <1>1
<1>3. PICK f : f \in LoopRuns(n, Nat, 1, F)
  <2>1. 1 \in Nat
    OBVIOUS
  <2>2. QED
    BY <1>t, <2>1, RunExists
<1>4. /\ f \in [0 .. n -> Nat] /\ f[0] = 1
      /\ \A m \in 1 .. n : f[m] = F[m][f[m - 1]]
  BY <1>3 DEF LoopRuns
<1>5. ASSUME NEW m \in 1 .. n
      PROVE  f[m] = 2 * f[m - 1]
  <2>1. m - 1 \in 0 .. n
    OBVIOUS
  <2>2. f[m - 1] \in Nat
    BY <1>4, <2>1
  <2>3. QED
    BY <1>2, <1>4, <2>2
<1>6. f \in Table(n)
  BY <1>4, <1>5 DEF Table
<1>7. QED
  BY <1>6

\* Two tables agree where both are defined.
LEMMA TablesAgree ==
    ASSUME NEW n \in Nat, NEW k \in Nat, NEW f \in Table(n), NEW g \in Table(k)
    PROVE  \A m \in Nat : m =< n /\ m =< k => f[m] = g[m]
<1> DEFINE S == {m \in Nat : m =< n /\ m =< k => f[m] = g[m]}
<1>1. 0 \in S
  BY DEF Table
<1>2. ASSUME NEW m \in Nat, m \in S
      PROVE  m + 1 \in S
  <2> SUFFICES ASSUME m + 1 =< n, m + 1 =< k
               PROVE  f[m + 1] = g[m + 1]
    OBVIOUS
  <2>1. f[m] = g[m]
    BY <1>2
  <2>2. m + 1 \in 1 .. n /\ m + 1 \in 1 .. k /\ (m + 1) - 1 = m
    OBVIOUS
  <2>3. f[m + 1] = 2 * f[m] /\ g[m + 1] = 2 * g[m]
    BY <2>2 DEF Table
  <2>4. QED
    BY <2>1, <2>3
<1> HIDE DEF S
<1>3. \A m \in Nat : m \in S
  BY <1>1, <1>2, InductionOnSet
<1>4. QED
  BY <1>3 DEF S

\* So the recursive definition has a solution, and Doubled is one.
LEMMA DoubledDefined ==
    Doubled = [n \in Nat |-> IF n = 0 THEN 1 ELSE 2 * Doubled[n - 1]]
<1> DEFINE t(n) == CHOOSE f : f \in Table(n)
<1>1. \A n \in Nat : t(n) \in Table(n)
  BY TableExists
<1> HIDE DEF t
<1>2. PICK h : h = [n \in Nat |-> t(n)[n]]
  OBVIOUS
<1>3. ASSUME NEW n \in Nat
      PROVE  h[n] = IF n = 0 THEN 1 ELSE 2 * h[n - 1]
  <2>1. t(n) \in Table(n) /\ h[n] = t(n)[n]
    BY <1>1, <1>2
  <2>2. CASE n = 0
    BY <2>1, <2>2 DEF Table
  <2>3. CASE n # 0
    <3>1. n - 1 \in Nat /\ n \in 1 .. n
      BY <2>3
    <3>2. t(n - 1) \in Table(n - 1) /\ h[n - 1] = t(n - 1)[n - 1]
      BY <1>1, <1>2, <3>1
    <3>3. t(n)[n - 1] = t(n - 1)[n - 1]
      BY <2>1, <3>1, <3>2, TablesAgree
    <3>4. t(n)[n] = 2 * t(n)[n - 1]
      BY <2>1, <3>1 DEF Table
    <3>5. QED
      BY <2>1, <2>3, <3>2, <3>3, <3>4
  <2>4. QED
    BY <2>2, <2>3
<1>4. h = [n \in Nat |-> IF n = 0 THEN 1 ELSE 2 * h[n - 1]]
  BY <1>2, <1>3
<1>5. QED
  BY <1>4 DEF Doubled

\* Doubled doubles, and outgrows every number.
LEMMA DoubledProperties ==
    /\ Doubled[0] = 1
    /\ \A n \in Nat : /\ Doubled[n] \in Nat
                      /\ Doubled[n + 1] = 2 * Doubled[n]
                      /\ Doubled[n] >= n + 1
<1>1. Doubled[0] = 1
  BY DoubledDefined
<1>2. ASSUME NEW n \in Nat
      PROVE  Doubled[n + 1] = 2 * Doubled[n]
  <2>1. n + 1 \in Nat /\ n + 1 # 0 /\ (n + 1) - 1 = n
    OBVIOUS
  <2>2. QED
    BY <2>1, DoubledDefined
<1> DEFINE S == {n \in Nat : Doubled[n] \in Nat /\ Doubled[n] >= n + 1}
<1>3. 0 \in S
  BY <1>1
<1>4. \A n \in Nat : n \in S => n + 1 \in S
  BY <1>2
<1> HIDE DEF S
<1>5. \A n \in Nat : n \in S
  BY <1>3, <1>4, InductionOnSet
<1>6. QED
  BY <1>1, <1>2, <1>5 DEF S

-----------------------------------------------------------------------------

\* The pace starts at the first wait, every step doubles and caps it, and as
\* many failures as the cap has units are enough to reach the cap.
THEOREM PaceSteps ==
    ASSUME NEW first \in Nat \ {0}, NEW most \in Nat, first =< most, NEW n \in Nat
    PROVE  /\ Pace(first, most, 0) = first
           /\ Pace(first, most, n + 1) = IF 2 * Pace(first, most, n) > most
                                         THEN most ELSE 2 * Pace(first, most, n)
           /\ n + 1 >= most => Pace(first, most, n) = most
<1>1. PICK d \in Nat : d = Doubled[n] /\ Doubled[n + 1] = 2 * d /\ d >= n + 1
  BY DoubledProperties
<1>2. PICK w \in Nat : w = first * d
  BY <1>1
<1>3. first * (2 * d) = 2 * w
  BY <1>1, <1>2
<1>4. w >= d
  BY <1>1, <1>2
<1>5. Pace(first, most, n) = IF w > most THEN most ELSE w
  BY <1>1, <1>2 DEF Pace
<1>6. Pace(first, most, n + 1) = IF 2 * w > most THEN most ELSE 2 * w
  BY <1>1, <1>3 DEF Pace
<1>7. Pace(first, most, 0) = first
  BY DoubledProperties DEF Pace
<1>8. Pace(first, most, n + 1) = IF 2 * Pace(first, most, n) > most
                                 THEN most ELSE 2 * Pace(first, most, n)
  BY <1>5, <1>6
<1>9. n + 1 >= most => Pace(first, most, n) = most
  BY <1>1, <1>4, <1>5
<1>10. QED
  BY <1>7, <1>8, <1>9
=============================================================================
