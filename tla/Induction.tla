----------------------------- MODULE Induction -----------------------------
(***************************************************************************)
(* Induction over the natural numbers, and functions defined by recursion  *)
(* along a rank, stated with sets and functions where the library states   *)
(* them with operators.                                                    *)
(***************************************************************************)
EXTENDS Naturals, WellFoundedInduction, TLAPS

\* A set of natural numbers that is not empty has a least element.
LEMMA LeastElement ==
    ASSUME NEW T \in SUBSET Nat, T # {}
    PROVE  \E m \in T : \A k \in T : m <= k
<1> DEFINE Less == {p \in Nat \X Nat : p[1] < p[2]}
<1>1. IsWellFoundedOn(Less, Nat)
  BY NatLessThanWellFounded DEF OpToRel
<1>2. \A m, k \in T : <<k, m>> \in Less <=> k < m
  OBVIOUS
<1>. HIDE DEF Less
<1>3. PICK m \in T : \A k \in T : ~ (<<k, m>> \in Less)
  BY <1>1, WFMin
<1>4. ASSUME NEW k \in T PROVE m <= k
  <2>1. ~ (k < m)
    BY <1>2, <1>3
  <2>2. m \in Nat /\ k \in Nat
    OBVIOUS
  <2>. QED
    BY <2>1, <2>2
<1>. QED
  BY <1>4

\* Induction: a set that has 0, and n + 1 with every n, has all numbers.
LEMMA SetInduction ==
    ASSUME NEW T, 0 \in T, \A n \in Nat : n \in T => n + 1 \in T
    PROVE  \A n \in Nat : n \in T
<1> DEFINE Out == Nat \ T
<1>1. SUFFICES ASSUME Out # {} PROVE FALSE
  OBVIOUS
<1>2. PICK m \in Out : \A k \in Out : m <= k
  BY <1>1, LeastElement
<1>3. m - 1 \in Nat /\ m - 1 \in T
  BY <1>2
<1>. QED
  BY <1>2, <1>3

\* The same, with all smaller numbers at hand.
LEMMA StrongInduction ==
    ASSUME NEW T, \A n \in Nat : (\A k \in Nat : k < n => k \in T) => n \in T
    PROVE  \A n \in Nat : n \in T
<1> DEFINE Out == Nat \ T
<1>1. SUFFICES ASSUME Out # {} PROVE FALSE
  OBVIOUS
<1>2. PICK m \in Out : \A k \in Out : m <= k
  BY <1>1, LeastElement
<1>. QED
  BY <1>2
-----------------------------------------------------------------------------
\* The value at x is computed from those at places of lower rank.
Recursion(D, S, rank, F) ==
    /\ rank \in [D -> Nat]
    /\ F \in [D -> [[D -> S] -> S]]
    /\ \A x \in D : \A g, h \in [D -> S] :
          (\A y \in D : rank[y] < rank[x] => g[y] = h[y]) => F[x][g] = F[x][h]

\* A function that is defined as far as rank n.
Defines(D, F, rank, n, g) == \A x \in D : rank[x] < n => g[x] = F[x][g]

\* Two such functions agree as far as they are defined.
LEMMA RecursionUnique ==
    ASSUME NEW D, NEW S, NEW rank, NEW F, Recursion(D, S, rank, F),
           NEW n \in Nat, NEW g \in [D -> S], NEW h \in [D -> S],
           Defines(D, F, rank, n, g), Defines(D, F, rank, n, h)
    PROVE  \A x \in D : rank[x] < n => g[x] = h[x]
<1> DEFINE T == {m \in Nat : m < n => \A x \in D : rank[x] = m => g[x] = h[x]}
<1>1. ASSUME NEW m \in Nat, \A k \in Nat : k < m => k \in T PROVE m \in T
  <2> SUFFICES ASSUME m < n, NEW x \in D, rank[x] = m PROVE g[x] = h[x]
    OBVIOUS
  <2>1. \A y \in D : rank[y] < rank[x] => g[y] = h[y]
    BY <1>1 DEF Recursion
  <2>. QED
    BY <2>1 DEF Recursion, Defines
<1>2. \A m \in Nat : m \in T
  <2> HIDE DEF T
  <2>. QED
    BY <1>1, StrongInduction
<1>. QED
  BY <1>2 DEF Recursion

\* There is one as far as every rank.
LEMMA RecursionUpTo ==
    ASSUME NEW D, NEW S, S # {}, NEW rank, NEW F, Recursion(D, S, rank, F), NEW n \in Nat
    PROVE  \E g \in [D -> S] : Defines(D, F, rank, n, g)
<1> DEFINE T == {m \in Nat : \E g \in [D -> S] : Defines(D, F, rank, m, g)}
<1>1. 0 \in T
  <2>1. PICK s \in S : TRUE
    OBVIOUS
  <2>2. [x \in D |-> s] \in [D -> S]
    OBVIOUS
  <2>3. \A x \in D : ~ (rank[x] < 0)
    BY DEF Recursion
  <2>. QED
    BY <2>2, <2>3 DEF Defines
<1>2. ASSUME NEW m \in Nat, m \in T PROVE m + 1 \in T
  <2>1. PICK g \in [D -> S] : Defines(D, F, rank, m, g)
    BY <1>2
  <2> DEFINE h == [x \in D |-> IF rank[x] < m THEN g[x] ELSE F[x][g]]
  <2>2. h \in [D -> S]
    BY DEF Recursion
  <2>3. ASSUME NEW x \in D, rank[x] < m + 1 PROVE h[x] = F[x][h]
    <3>1. \A y \in D : rank[y] < rank[x] => g[y] = h[y]
      BY <2>3 DEF Recursion
    <3>2. F[x][g] = F[x][h]
      BY <3>1, <2>2 DEF Recursion
    <3>3. h[x] = F[x][g]
      BY <2>1 DEF Defines
    <3>. QED
      BY <3>2, <3>3
  <2>4. Defines(D, F, rank, m + 1, h)
    BY <2>3 DEF Defines
  <2> HIDE DEF h
  <2>. QED
    BY <2>2, <2>4
<1>. QED
  <2> HIDE DEF T
  <2>1. n \in T
    BY <1>1, <1>2, SetInduction
  <2>. QED
    BY <2>1 DEF T

\* So that the recursion defines a function, as f[x \in D] == ... means it to.
LEMMA RecursionDefines ==
    ASSUME NEW D, NEW S, S # {}, NEW rank, NEW F, Recursion(D, S, rank, F)
    PROVE  \E f \in [D -> S] : f = [x \in D |-> F[x][f]]
<1> DEFINE G(n) == CHOOSE g \in [D -> S] : Defines(D, F, rank, n, g)
           f == [x \in D |-> G(rank[x] + 1)[x]]
<1>1. \A n \in Nat : G(n) \in [D -> S] /\ Defines(D, F, rank, n, G(n))
  BY RecursionUpTo
<1> HIDE DEF G
<1>2. rank \in [D -> Nat]
  BY DEF Recursion
<1>3. f \in [D -> S]
  BY <1>1, <1>2
<1>4. ASSUME NEW x \in D PROVE f[x] = F[x][f]
  <2>1. rank[x] + 1 \in Nat
    BY <1>2
  <2>2. ASSUME NEW y \in D, rank[y] < rank[x] PROVE G(rank[x] + 1)[y] = f[y]
    <3>1. rank[y] + 1 \in Nat /\ rank[y] < rank[y] + 1
      BY <1>2
    <3>2. Defines(D, F, rank, rank[y] + 1, G(rank[x] + 1))
      BY <2>1, <2>2, <1>1, <1>2 DEF Defines
    <3>3. G(rank[y] + 1)[y] = G(rank[x] + 1)[y]
      BY <3>1, <3>2, <1>1, <2>1, RecursionUnique
    <3>. QED
      BY <3>3
  <2>3. F[x][G(rank[x] + 1)] = F[x][f]
    <3> HIDE DEF f
    <3>. QED
      BY <2>1, <2>2, <1>1, <1>3 DEF Recursion
  <2>4. G(rank[x] + 1)[x] = F[x][G(rank[x] + 1)]
    <3>1. rank[x] < rank[x] + 1
      BY <1>2
    <3>. QED
      BY <2>1, <3>1, <1>1 DEF Defines
  <2>. QED
    BY <2>3, <2>4
<1>. QED
  BY <1>3, <1>4
=============================================================================
