--------------------------- MODULE DataInduction ----------------------------
(***************************************************************************)
(* Induction over the natural numbers, stated for sets rather than for     *)
(* predicates, and the functions it defines: what the proofs about nested  *)
(* lists and about sections in a row need.                                 *)
(***************************************************************************)
EXTENDS WellFoundedInduction, TLAPS

\* A set with 0 that n + 1 is in whenever n is has all natural numbers.
LEMMA SetInduction ==
    ASSUME NEW T, 0 \in T, \A n \in Nat : n \in T => n + 1 \in T
    PROVE  Nat \subseteq T
<1> SUFFICES ASSUME Nat \ T # {} PROVE FALSE
  OBVIOUS
<1> DEFINE R == {p \in Nat \X Nat : p[1] < p[2]}
<1>1. IsWellFoundedOn(R, Nat)
  <2>1. R = OpToRel(<, Nat)
    BY DEF OpToRel
  <2> QED BY <2>1, NatLessThanWellFounded
<1>2. PICK n \in Nat \ T : \A m \in Nat \ T : ~(<<m, n>> \in R)
  <2> HIDE DEF R
  <2> QED BY <1>1, WFMin
<1>3. n # 0 /\ n - 1 \in Nat /\ (n - 1) + 1 = n
  OBVIOUS
<1>4. <<n - 1, n>> \in R
  BY <1>3
<1>5. n - 1 \in T
  <2> HIDE DEF R
  <2> QED BY <1>2, <1>3, <1>4
<1> QED BY <1>3, <1>5

\* Of some natural numbers one is the first.
LEMMA FirstExists ==
    ASSUME NEW I \in SUBSET Nat, I # {}
    PROVE  \E i \in I : \A j \in I : i <= j
<1> DEFINE R == OpToRel(<, Nat)
<1>1. PICK i \in I : \A j \in I : ~(<<j, i>> \in R)
  <2>1. IsWellFoundedOn(R, Nat)
    BY NatLessThanWellFounded
  <2> HIDE DEF R
  <2> QED BY <2>1, WFMin
<1>2. \A j \in I : ~(j < i)
  BY <1>1 DEF OpToRel
<1> QED BY <1>2

\* Of some numbers up to n one is the last.
LEMMA LastExists ==
    ASSUME NEW n \in Nat, NEW I \in SUBSET (1..n), I # {}
    PROVE  \E i \in I : \A j \in I : j <= i
<1> DEFINE T == {m \in Nat : \A J \in SUBSET (1..m) :
                                J # {} => \E i \in J : \A j \in J : j <= i}
<1>1. 0 \in T
  <2>1. 1..0 = {}
    OBVIOUS
  <2> QED BY <2>1
<1>2. ASSUME NEW m \in Nat, m \in T PROVE m + 1 \in T
  <2> SUFFICES ASSUME NEW J \in SUBSET (1..(m + 1)), J # {}
               PROVE  \E i \in J : \A j \in J : j <= i
    OBVIOUS
  <2>1. CASE m + 1 \in J
    BY <2>1
  <2>2. CASE m + 1 \notin J
    <3>1. J \in SUBSET (1..m)
      BY <2>2
    <3> QED BY <1>2, <3>1
  <2> QED BY <2>1, <2>2
<1>3. Nat \subseteq T
  <2> HIDE DEF T
  <2> QED BY <1>1, <1>2, SetInduction
<1> QED BY <1>3

\* f is as far as k the function that starts with a and goes on by F.
Upto(f, a, F, k) == f = [n \in 0..k |-> IF n = 0 THEN a ELSE F[<<n, f[n - 1]>>]]

LEMMA UptoAgree ==
    ASSUME NEW a, NEW F, NEW k \in Nat, NEW m \in Nat, k <= m, NEW f, NEW g,
           Upto(f, a, F, k), Upto(g, a, F, m)
    PROVE  \A n \in 0..k : f[n] = g[n]
<1> DEFINE T == {n \in Nat : n <= k => f[n] = g[n]}
<1>1. 0 \in T
  BY DEF Upto
<1>2. ASSUME NEW n \in Nat, n \in T PROVE n + 1 \in T
  <2> SUFFICES ASSUME n + 1 <= k PROVE f[n + 1] = g[n + 1]
    OBVIOUS
  <2>1. n + 1 \in 0..k /\ n + 1 \in 0..m /\ (n + 1) - 1 = n /\ n + 1 # 0
    OBVIOUS
  <2>2. f[n] = g[n]
    BY <1>2
  <2>3. f[n + 1] = F[<<n + 1, f[n]>>] /\ g[n + 1] = F[<<n + 1, g[n]>>]
    BY <2>1 DEF Upto
  <2> QED BY <2>2, <2>3
<1> HIDE DEF T
<1>3. Nat \subseteq T
  BY <1>1, <1>2, SetInduction
<1> QED BY <1>3 DEF T

LEMMA UptoExists ==
    ASSUME NEW a, NEW F
    PROVE  \A k \in Nat : \E f : Upto(f, a, F, k)
<1> DEFINE T == {k \in Nat : \E f : Upto(f, a, F, k)}
<1>1. 0 \in T
  <2> DEFINE f == [n \in 0..0 |-> a]
  <2>1. Upto(f, a, F, 0)
    BY DEF Upto
  <2> QED BY <2>1
<1>2. ASSUME NEW k \in Nat, k \in T PROVE k + 1 \in T
  <2>1. PICK f : Upto(f, a, F, k)
    BY <1>2
  <2> DEFINE g == [n \in 0..(k + 1) |-> IF n = k + 1 THEN F[<<n, f[n - 1]>>] ELSE f[n]]
             h == [n \in 0..(k + 1) |-> IF n = 0 THEN a ELSE F[<<n, g[n - 1]>>]]
  <2>2. ASSUME NEW n \in 0..(k + 1) PROVE g[n] = h[n]
    <3>1. CASE n = k + 1
      <4>1. g[n - 1] = f[n - 1] /\ n # 0
        BY <3>1
      <4> QED BY <3>1, <4>1
    <3>2. CASE n # k + 1
      <4>1. n \in 0..k /\ g[n] = f[n]
        BY <3>2
      <4>2. n # 0 => g[n - 1] = f[n - 1]
        BY <4>1
      <4>3. f[n] = IF n = 0 THEN a ELSE F[<<n, f[n - 1]>>]
        BY <2>1, <4>1 DEF Upto
      <4> QED BY <4>1, <4>2, <4>3
    <3> QED BY <3>1, <3>2
  <2>3. Upto(g, a, F, k + 1)
    BY <2>2 DEF Upto
  <2> QED BY <2>3
<1> HIDE DEF T
<1>3. Nat \subseteq T
  BY <1>1, <1>2, SetInduction
<1> QED BY <1>3 DEF T

\* f starts with a and goes on by F.
Recursion(f, a, F) == f = [n \in Nat |-> IF n = 0 THEN a ELSE F[<<n, f[n - 1]>>]]

\* A function may be defined by its first value and by how each one follows from
\* that before it.
LEMMA RecursionExists ==
    ASSUME NEW a, NEW F
    PROVE  \E f : Recursion(f, a, F)
<1> DEFINE part == [k \in Nat |-> CHOOSE f : Upto(f, a, F, k)]
           f == [n \in Nat |-> part[n][n]]
           g == [n \in Nat |-> IF n = 0 THEN a ELSE F[<<n, f[n - 1]>>]]
<1>1. \A k \in Nat : Upto(part[k], a, F, k)
  BY UptoExists
<1>2. ASSUME NEW n \in Nat PROVE f[n] = g[n]
  <2> HIDE DEF part
  <2>1. ASSUME n = 0 PROVE part[n][n] = a
    <3>1. Upto(part[0], a, F, 0)
      BY <1>1
    <3> QED BY <2>1, <3>1 DEF Upto
  <2>2. ASSUME n # 0 PROVE part[n][n] = F[<<n, part[n - 1][n - 1]>>]
    <3>1. n - 1 \in Nat /\ n - 1 <= n /\ n \in 0..n /\ n - 1 \in 0..(n - 1)
      BY <2>2
    <3>2. Upto(part[n], a, F, n) /\ Upto(part[n - 1], a, F, n - 1)
      BY <1>1, <3>1
    <3>3. part[n][n] = F[<<n, part[n][n - 1]>>]
      BY <2>2, <3>1, <3>2 DEF Upto
    <3>4. part[n - 1][n - 1] = part[n][n - 1]
      <4>1. ASSUME NEW p, NEW q, Upto(p, a, F, n - 1), Upto(q, a, F, n)
            PROVE  p[n - 1] = q[n - 1]
        BY <3>1, <4>1, UptoAgree
      <4> QED BY <3>2, <4>1
    <3> QED BY <3>3, <3>4
  <2> QED BY <2>1, <2>2
<1> HIDE DEF part
<1>3. f = g
  BY <1>2
<1> QED BY <1>3 DEF Recursion
=============================================================================
