----------------------------- MODULE NumberLemmas -----------------------------
(***************************************************************************)
(* Facts about numbers that the proofs about songs rest on: induction, and *)
(* the least and greatest of a set.  The library states induction for      *)
(* operators, which the provers cannot take; stated for sets it follows    *)
(* from the well-foundedness of <.                                         *)
(***************************************************************************)
EXTENDS Integers, FiniteSetsExt, WellFoundedInduction, TLAPS

Less == {s \in Nat \X Nat : s[1] < s[2]}

LEMMA LessWellFounded == IsWellFoundedOn(Less, Nat)
<1>1. OpToRel(<, Nat) = Less
  BY DEF OpToRel, Less
<1> QED BY <1>1, NatLessThanWellFounded

\* Every set of numbers has a least one.
LEMMA LeastOne ==
  ASSUME NEW S, S \subseteq Nat, S # {}
  PROVE  \E m \in S : \A y \in S : m <= y
<1>1. PICK m \in S : \A y \in S : <<y, m>> \notin Less
  BY LessWellFounded, WFMin
<1>2. SUFFICES ASSUME NEW y \in S PROVE m <= y
  OBVIOUS
<1>3. ~ (y < m)
  BY <1>1, <1>2 DEF Less
<1> QED BY <1>3

LEMMA Induction ==
  ASSUME NEW T, 0 \in T, \A n \in Nat : n \in T => n + 1 \in T
  PROVE  Nat \subseteq T
<1> DEFINE U == Nat \ T
<1>1. SUFFICES ASSUME U # {} PROVE FALSE
  OBVIOUS
<1>2. PICK m \in U : \A y \in U : m <= y
  BY <1>1, LeastOne
<1>3. m # 0 /\ m - 1 \in Nat
  OBVIOUS
<1>4. m - 1 \in T
  BY <1>2, <1>3
<1> QED BY <1>2, <1>3, <1>4

-------------------------------------------------------------------------------
(***************************************************************************)
(* Max and Min.                                                            *)
(***************************************************************************)
LEMMA MaxIs ==
  ASSUME NEW S, S \subseteq Int, NEW m \in S, \A y \in S : m >= y
  PROVE  Max(S) = m
<1>1. \E x \in S : \A y \in S : x >= y
  OBVIOUS
<1>2. Max(S) \in S /\ \A y \in S : Max(S) >= y
  BY <1>1, Zenon DEF Max
<1>3. PICK n \in S : n = Max(S) /\ \A y \in S : n >= y
  BY <1>2, Zenon
<1>4. n >= m /\ m >= n /\ n \in Int /\ m \in Int
  BY <1>3
<1> QED BY <1>3, <1>4

LEMMA MinIs ==
  ASSUME NEW S, S \subseteq Int, NEW m \in S, \A y \in S : m <= y
  PROVE  Min(S) = m
<1>1. \E x \in S : \A y \in S : x <= y
  OBVIOUS
<1>2. Min(S) \in S /\ \A y \in S : Min(S) =< y
  BY <1>1, Zenon DEF Min
<1>3. PICK n \in S : n = Min(S) /\ \A y \in S : n =< y
  BY <1>2, Zenon
<1>4. n =< m /\ m =< n /\ n \in Int /\ m \in Int
  BY <1>3
<1> QED BY <1>3, <1>4

LEMMA MaxPair ==
  ASSUME NEW a \in Int, NEW b \in Int
  PROVE  Max({a, b}) = IF a >= b THEN a ELSE b
<1>1. CASE a >= b
  BY <1>1, MaxIs
<1>2. CASE ~(a >= b)
  BY <1>2, MaxIs
<1> QED BY <1>1, <1>2

LEMMA MinPair ==
  ASSUME NEW a \in Int, NEW b \in Int
  PROVE  Min({a, b}) = IF a <= b THEN a ELSE b
<1>1. CASE a <= b
  BY <1>1, MinIs
<1>2. CASE ~(a <= b)
  BY <1>2, MinIs
<1> QED BY <1>1, <1>2

LEMMA MinOf ==
  ASSUME NEW S, S \subseteq Nat, S # {}
  PROVE  Min(S) \in S /\ \A y \in S : Min(S) <= y
<1>2. PICK m \in S : \A y \in S : m <= y
  BY LeastOne
<1>3. S \subseteq Int
  OBVIOUS
<1>4. Min(S) = m
  BY <1>2, <1>3, MinIs
<1> QED BY <1>2, <1>4, Zenon

LEMMA MaxOf ==
  ASSUME NEW b \in Nat, NEW S, S \subseteq 0 .. b, S # {}
  PROVE  Max(S) \in S /\ \A y \in S : Max(S) >= y
<1> DEFINE T == {n \in 0 .. b : b - n \in S}
<1>1. T \subseteq Nat /\ T # {}
  <2>1. PICK x \in S : TRUE
    OBVIOUS
  <2>2. b - x \in 0 .. b /\ b - (b - x) = x
    OBVIOUS
  <2> QED BY <2>2
<1>2. Min(T) \in T /\ \A y \in T : Min(T) <= y
  <2> HIDE DEF T
  <2> QED BY <1>1, MinOf
<1>3. PICK m : m \in T /\ \A y \in T : m <= y
  BY <1>2
<1>4. b - m \in S /\ m \in Int
  BY <1>3
<1>5. \A y \in S : b - m >= y
  <2> SUFFICES ASSUME NEW y \in S PROVE b - m >= y
    OBVIOUS
  <2>1. b - y \in 0 .. b /\ b - (b - y) = y /\ y \in 0 .. b
    OBVIOUS
  <2>2. b - y \in T
    BY <2>1
  <2>3. m <= b - y
    BY <2>2, <1>3
  <2> QED BY <2>3, <2>1, <1>4
<1>6. S \subseteq Int
  OBVIOUS
<1>7. Max(S) = b - m
  BY <1>4, <1>5, <1>6, MaxIs
<1> QED BY <1>4, <1>5, <1>7, Zenon
===============================================================================
