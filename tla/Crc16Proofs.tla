---------------------------- MODULE Crc16Proofs ----------------------------
(***************************************************************************)
(* Theorems on Crc16, for every set of bytes and of damage and for every   *)
(* length the parser computes a checksum of.                               *)
(*                                                                         *)
(* Remainder is defined by recursion over the highest exponent. That it is *)
(* the function its definition says is proved first, and what it computes  *)
(* by induction over that exponent: a statement about all polynomials of   *)
(* degree n holds for n because it holds for n - 1.                        *)
(***************************************************************************)
EXTENDS Crc16, FiniteSetTheorems, SequenceTheorems, WellFoundedInduction, TLAPS

-----------------------------------------------------------------------------
(* Induction over the exponents of a polynomial.                           *)

\* A non-empty set of naturals has a least element.
LEMMA LeastExponent ==
  ASSUME NEW S \in SUBSET Nat, S # {}
  PROVE  \E x \in S : \A y \in S : x <= y
<1>1. PICK x \in S : \A y \in S : <<y, x>> \notin OpToRel(<, Nat)
  BY WFMin, NatLessThanWellFounded, Zenon
<1>2. \A y \in S : x <= y
  <2> SUFFICES ASSUME NEW y \in S, y < x PROVE FALSE
    OBVIOUS
  <2>1. <<y, x>> \in OpToRel(<, Nat)
    BY Zenon DEF OpToRel
  <2> QED
    BY <1>1, <2>1
<1> QED
  BY <1>2

\* Induction from a to b, for the numbers in S.
LEMMA Upwards ==
  ASSUME NEW a \in Nat, NEW b \in Nat, NEW S,
         a \in S,
         \A n \in a + 1 .. b : n - 1 \in S => n \in S
  PROVE  \A n \in a .. b : n \in S
<1> DEFINE Others == {n \in a .. b : n \notin S}
<1> SUFFICES ASSUME Others # {} PROVE FALSE
  OBVIOUS
<1>1. PICK m \in Others : \A n \in Others : m <= n
  <2>1. Others \in SUBSET Nat
    OBVIOUS
  <2> QED
    BY <2>1, LeastExponent
<1>2. m \in a + 1 .. b /\ m - 1 \in a .. b
  OBVIOUS
<1>3. m - 1 \in S
  BY <1>1, <1>2
<1> QED
  BY <1>2, <1>3

\* The highest exponent.
LEMMA Highest ==
  ASSUME NEW n \in Nat, NEW p \in SUBSET (0 .. n), p # {}
  PROVE  Max(p) \in p /\ Max(p) \in 0 .. n /\ \A e \in p : e <= Max(p)
<1> DEFINE Below == {y \in 0 .. n : n - y \in p}
<1>1. PICK x \in Below : \A y \in Below : x <= y
  <2>1. PICK e \in p : TRUE
    OBVIOUS
  <2>2. n - e \in Below
    BY <2>1
  <2>3. Below \in SUBSET Nat
    OBVIOUS
  <2> QED
    BY <2>2, <2>3, LeastExponent
<1>2. n - x \in p
  OBVIOUS
<1>3. \A e \in p : n - x >= e
  <2> SUFFICES ASSUME NEW e \in p PROVE n - x >= e
    OBVIOUS
  <2>1. n - e \in Below
    OBVIOUS
  <2> QED
    BY <1>1, <2>1
<1> QED
  BY <1>2, <1>3 DEF Max

LEMMA Lowest ==
  ASSUME NEW p \in SUBSET Nat, p # {}
  PROVE  Min(p) \in p /\ \A e \in p : Min(p) <= e
<1>1. \E x \in p : \A y \in p : x <= y
  BY LeastExponent
<1> QED
  BY <1>1 DEF Min

-----------------------------------------------------------------------------
(* The long division.                                                      *)

\* The exponents of the generator, with n the highest.
Subtrahend(n) == {n - 16, n - 14, n - 1, n}

LEMMA Reduction ==
  ASSUME NEW n \in Nat, n >= 16, NEW p \in SUBSET (0 .. n), n \in p
  PROVE  /\ Max(p) = n
         /\ Reduced(p) = SymDiff(p, Subtrahend(n))
         /\ Reduced(p) \in SUBSET (0 .. n - 1)
<1>1. Max(p) = n
  <2>1. Max(p) \in 0 .. n /\ n <= Max(p)
    BY Highest
  <2> QED
    BY <2>1
<1>2. {g + (n - 16) : g \in Generator} = Subtrahend(n)
  BY DEF Generator, Subtrahend
<1>3. Reduced(p) = SymDiff(p, Subtrahend(n))
  BY <1>1, <1>2 DEF Reduced
<1>4. SymDiff(p, Subtrahend(n)) \in SUBSET (0 .. n - 1)
  BY DEF SymDiff, Subtrahend
<1> QED
  BY <1>1, <1>3, <1>4

\* f divides the polynomials with exponents up to n as Remainder says.
Divides(f, n) ==
  f = [p \in SUBSET (0 .. n) |-> IF p = {} \/ Max(p) < 16 THEN p ELSE f[Reduced(p)]]

LEMMA DividesMore ==
  ASSUME NEW n \in Nat, n >= 16, NEW f, Divides(f, n - 1)
  PROVE  \E g : Divides(g, n)
<1> DEFINE P == SUBSET (0 .. n)
           Q == SUBSET (0 .. n - 1)
           g == [p \in P |-> IF n \in p THEN f[Reduced(p)] ELSE f[p]]
<1>1. ASSUME NEW p \in P, n \in p
      PROVE  g[p] = IF p = {} \/ Max(p) < 16 THEN p ELSE g[Reduced(p)]
  <2>1. Max(p) = n /\ Reduced(p) \in Q
    BY <1>1, Reduction
  <2>2. g[p] = f[Reduced(p)]
    BY <1>1
  <2>3. Reduced(p) \in P /\ n \notin Reduced(p)
    BY <2>1
  <2>4. g[Reduced(p)] = f[Reduced(p)]
    BY <2>3
  <2> QED
    BY <1>1, <2>1, <2>2, <2>4
<1>2. ASSUME NEW p \in P, n \notin p
      PROVE  g[p] = IF p = {} \/ Max(p) < 16 THEN p ELSE g[Reduced(p)]
  <2>1. p \in Q
    BY <1>2
  <2>2. g[p] = f[p]
    BY <1>2
  <2>3. f[p] = IF p = {} \/ Max(p) < 16 THEN p ELSE f[Reduced(p)]
    BY <2>1, Zenon DEF Divides
  <2>4. ASSUME p # {}, ~(Max(p) < 16)
        PROVE  g[Reduced(p)] = f[Reduced(p)]
    <3>1. PICK m : m = Max(p)
      OBVIOUS
    <3>2. m \in p /\ m \in 0 .. n - 1 /\ \A e \in p : e <= m
      BY <2>1, <2>4, <3>1, Highest
    <3>3. m \in Nat /\ m >= 16 /\ p \in SUBSET (0 .. m)
      BY <2>1, <2>4, <3>1, <3>2
    <3>4. Reduced(p) \in SUBSET (0 .. m - 1)
      BY <3>2, <3>3, Reduction
    <3>5. Reduced(p) \in P /\ n \notin Reduced(p)
      BY <3>2, <3>4
    <3> QED
      BY <3>5
  <2> QED
    BY <2>2, <2>3, <2>4
<1>3. g = [p \in P |-> IF p = {} \/ Max(p) < 16 THEN p ELSE g[Reduced(p)]]
  <2>1. \A p \in P : g[p] = IF p = {} \/ Max(p) < 16 THEN p ELSE g[Reduced(p)]
    BY <1>1, <1>2
  <2>2. g = [p \in P |-> g[p]]
    OBVIOUS
  <2> HIDE DEF g
  <2> QED
    BY <2>1, <2>2
<1> HIDE DEF g
<1> QED
  BY <1>3 DEF Divides

Top == 8 * MaxLen + 15

LEMMA TopIsLarge == Top \in Nat /\ Top >= 23 /\ MaxLen \in 1 .. 128 /\ Exponents = 0 .. Top
  BY CrcAssumption DEF Top, Exponents, TF_MAX_PAYLOAD_RX

\* There is a function that divides as Remainder says, so Remainder does.
LEMMA RemainderDivides == Divides(Remainder, Top)
<1> DEFINE S == {n \in Nat : \E f : Divides(f, n)}
<1>1. 15 \in S
  <2> DEFINE f == [p \in SUBSET (0 .. 15) |-> p]
  <2>1. \A p \in SUBSET (0 .. 15) : p = {} \/ Max(p) < 16
    <3> SUFFICES ASSUME NEW p \in SUBSET (0 .. 15), p # {} PROVE Max(p) < 16
      OBVIOUS
    <3>1. Max(p) \in 0 .. 15
      BY Highest
    <3> QED
      BY <3>1
  <2>2. Divides(f, 15)
    BY <2>1 DEF Divides
  <2> QED
    BY <2>2
<1>2. \A n \in 16 .. Top : n - 1 \in S => n \in S
  <2> SUFFICES ASSUME NEW n \in 16 .. Top, NEW f, Divides(f, n - 1)
               PROVE  \E g : Divides(g, n)
    BY TopIsLarge
  <2> QED
    BY DividesMore, TopIsLarge
<1>3. PICK f : Divides(f, Top)
  <2> HIDE DEF S
  <2>1. Top \in S
    BY <1>1, <1>2, Upwards, TopIsLarge
  <2> QED
    BY <2>1 DEF S
<1>4. f = [p \in SUBSET Exponents |-> IF p = {} \/ Max(p) < 16 THEN p ELSE f[Reduced(p)]]
  BY <1>3, TopIsLarge DEF Divides
<1>5. Remainder = [p \in SUBSET Exponents |-> IF p = {} \/ Max(p) < 16 THEN p ELSE Remainder[Reduced(p)]]
  BY <1>4, Zenon DEF Remainder
<1> QED
  BY <1>5, TopIsLarge DEF Divides

\* What is below the generator's degree is its own remainder.
LEMMA RemainderOfSmall ==
  ASSUME NEW p \in SUBSET (0 .. 15)
  PROVE  p \in SUBSET Exponents /\ Remainder[p] = p
<1>1. p \in SUBSET (0 .. Top)
  BY TopIsLarge
<1>2. p = {} \/ Max(p) < 16
  <2>1. ASSUME p # {} PROVE Max(p) \in 0 .. 15
    BY <2>1, Highest
  <2> QED
    BY <2>1
<1>3. Remainder[p] = IF p = {} \/ Max(p) < 16 THEN p ELSE Remainder[Reduced(p)]
  BY <1>1, RemainderDivides, Zenon DEF Divides
<1> QED
  BY <1>1, <1>2, <1>3, TopIsLarge

\* The others have the remainder of what a step of the division leaves.
LEMMA RemainderOfLarge ==
  ASSUME NEW n \in 16 .. Top, NEW p \in SUBSET (0 .. n), n \in p
  PROVE  /\ Remainder[p] = Remainder[SymDiff(p, Subtrahend(n))]
         /\ SymDiff(p, Subtrahend(n)) \in SUBSET (0 .. n - 1)
<1>1. n \in Nat /\ n >= 16 /\ p \in SUBSET (0 .. Top)
  BY TopIsLarge
<1>2. Max(p) = n /\ Reduced(p) = SymDiff(p, Subtrahend(n)) /\ Reduced(p) \in SUBSET (0 .. n - 1)
  BY <1>1, Reduction
<1>3. Remainder[p] = IF p = {} \/ Max(p) < 16 THEN p ELSE Remainder[Reduced(p)]
  BY <1>1, RemainderDivides, Zenon DEF Divides
<1> QED
  BY <1>1, <1>2, <1>3

LEMMA RemainderIsSmall ==
  ASSUME NEW p \in SUBSET Exponents
  PROVE  Remainder[p] \in SUBSET (0 .. 15)
<1> DEFINE S == {n \in Nat : \A q \in SUBSET (0 .. n) : Remainder[q] \in SUBSET (0 .. 15)}
<1>1. 15 \in S
  BY RemainderOfSmall
<1>2. \A n \in 16 .. Top : n - 1 \in S => n \in S
  <2> SUFFICES ASSUME NEW n \in 16 .. Top, n - 1 \in S, NEW q \in SUBSET (0 .. n)
               PROVE  Remainder[q] \in SUBSET (0 .. 15)
    <3>1. \A n \in 16 .. Top : n \in Nat
      BY TopIsLarge
    <3> QED
      BY <3>1
  <2>1. CASE n \in q
    BY <2>1, RemainderOfLarge
  <2>2. CASE n \notin q
    BY <2>2
  <2> QED
    BY <2>1, <2>2
<1> HIDE DEF S
<1>3. Top \in S
  BY <1>1, <1>2, Upwards, TopIsLarge
<1> QED
  BY <1>3, TopIsLarge DEF S

\* Sums, in which what comes twice goes away.
LEMMA SumInRange ==
  ASSUME NEW n \in Nat, NEW p \in SUBSET (0 .. n), NEW q \in SUBSET (0 .. n)
  PROVE  /\ SymDiff(p, q) \in SUBSET (0 .. n)
         /\ n \in p /\ n \in q => SymDiff(p, q) \in SUBSET (0 .. n - 1)
BY DEF SymDiff

LEMMA SumAlgebra ==
  ASSUME NEW p, NEW q, NEW r
  PROVE  /\ SymDiff(p, q) = SymDiff(q, p)
         /\ SymDiff(p, {}) = p
         /\ SymDiff(SymDiff(p, r), q) = SymDiff(SymDiff(p, q), r)
         /\ SymDiff(p, SymDiff(q, r)) = SymDiff(SymDiff(p, q), r)
         /\ SymDiff(SymDiff(p, r), SymDiff(q, r)) = SymDiff(p, q)
         /\ SymDiff(p, SymDiff(p, q)) = q
         /\ SymDiff(p, q) = {} <=> p = q
BY DEF SymDiff

\* The remainder of a sum is the sum of the remainders.
LEMMA RemainderOfSum ==
  ASSUME NEW p \in SUBSET Exponents, NEW q \in SUBSET Exponents
  PROVE  Remainder[SymDiff(p, q)] = SymDiff(Remainder[p], Remainder[q])
<1> DEFINE Adds(n) == \A a, b \in SUBSET (0 .. n) :
                        Remainder[SymDiff(a, b)] = SymDiff(Remainder[a], Remainder[b])
           S == {n \in Nat : Adds(n)}
<1>1. Adds(15)
  <2> SUFFICES ASSUME NEW a \in SUBSET (0 .. 15), NEW b \in SUBSET (0 .. 15)
               PROVE  Remainder[SymDiff(a, b)] = SymDiff(Remainder[a], Remainder[b])
    OBVIOUS
  <2>1. SymDiff(a, b) \in SUBSET (0 .. 15)
    BY SumInRange
  <2> QED
    BY <2>1, RemainderOfSmall
<1>2. ASSUME NEW n \in 16 .. Top, Adds(n - 1)
      PROVE  Adds(n)
  <2> SUFFICES ASSUME NEW a \in SUBSET (0 .. n), NEW b \in SUBSET (0 .. n)
               PROVE  Remainder[SymDiff(a, b)] = SymDiff(Remainder[a], Remainder[b])
    OBVIOUS
  <2> DEFINE s == Subtrahend(n)
  <2>1. \A c \in SUBSET (0 .. n) : n \in c =>
          /\ Remainder[c] = Remainder[SymDiff(c, s)]
          /\ SymDiff(c, s) \in SUBSET (0 .. n - 1)
    BY RemainderOfLarge
  <2>2. \A c \in SUBSET (0 .. n) : n \notin c => c \in SUBSET (0 .. n - 1)
    OBVIOUS
  <2>3. \A c, d \in SUBSET (0 .. n - 1) :
          Remainder[SymDiff(c, d)] = SymDiff(Remainder[c], Remainder[d])
    BY <1>2
  <2> HIDE DEF s
  <2>4. ASSUME NEW c \in SUBSET (0 .. n), NEW d \in SUBSET (0 .. n), n \in c, n \notin d
        PROVE  Remainder[SymDiff(c, d)] = SymDiff(Remainder[c], Remainder[d])
    <3>1. SymDiff(c, d) \in SUBSET (0 .. n) /\ n \in SymDiff(c, d)
      BY <2>4 DEF SymDiff
    <3>2. Remainder[SymDiff(c, d)] = Remainder[SymDiff(SymDiff(c, d), s)]
      BY <2>1, <3>1
    <3>3. SymDiff(SymDiff(c, d), s) = SymDiff(SymDiff(c, s), d)
      BY SumAlgebra
    <3>4. Remainder[SymDiff(SymDiff(c, s), d)] = SymDiff(Remainder[SymDiff(c, s)], Remainder[d])
      BY <2>1, <2>2, <2>3, <2>4
    <3> QED
      BY <2>1, <2>4, <3>2, <3>3, <3>4
  <2>5. CASE n \in a /\ n \in b
    <3>1. SymDiff(SymDiff(a, s), SymDiff(b, s)) = SymDiff(a, b)
      BY SumAlgebra
    <3>2. Remainder[SymDiff(SymDiff(a, s), SymDiff(b, s))] =
            SymDiff(Remainder[SymDiff(a, s)], Remainder[SymDiff(b, s)])
      BY <2>1, <2>3, <2>5
    <3> QED
      BY <2>1, <2>5, <3>1, <3>2
  <2>6. CASE n \in a /\ n \notin b
    BY <2>4, <2>6
  <2>7. CASE n \notin a /\ n \in b
    <3>1. Remainder[SymDiff(b, a)] = SymDiff(Remainder[b], Remainder[a])
      BY <2>4, <2>7
    <3> QED
      BY <3>1 DEF SymDiff
  <2>8. CASE n \notin a /\ n \notin b
    BY <2>2, <2>3, <2>8
  <2> QED
    BY <2>5, <2>6, <2>7, <2>8
<1>3. 15 \in S /\ \A n \in 16 .. Top : n - 1 \in S => n \in S
  BY <1>1, <1>2, TopIsLarge
<1> HIDE DEF S
<1>4. Top \in S
  BY <1>3, Upwards, TopIsLarge
<1> QED
  BY <1>4, TopIsLarge DEF S

\* A message with a bit more behind it: all exponents one higher.
Up(p) == {e \in Nat : e - 1 \in p}

\* What this does to a remainder.
TimesX(r) == IF 15 \in r THEN SymDiff(Up(r), Subtrahend(16)) ELSE Up(r)

LEMMA UpInRange ==
  ASSUME NEW n \in Nat, NEW p \in SUBSET (0 .. n)
  PROVE  Up(p) \in SUBSET (1 .. n + 1)
BY DEF Up

LEMMA UpOfSum ==
  ASSUME NEW p, NEW q
  PROVE  Up(SymDiff(p, q)) = SymDiff(Up(p), Up(q))
BY DEF Up, SymDiff

LEMMA UpOfSubtrahend ==
  ASSUME NEW n \in Nat, n >= 16
  PROVE  Up(Subtrahend(n)) = Subtrahend(n + 1)
<1>1. \A e \in Nat : e - 1 \in Subtrahend(n) <=> e \in Subtrahend(n + 1)
  BY DEF Subtrahend
<1>2. Subtrahend(n + 1) \subseteq Nat
  BY DEF Subtrahend
<1> QED
  BY <1>1, <1>2 DEF Up

LEMMA TimesXIsSmall ==
  ASSUME NEW r \in SUBSET (0 .. 15)
  PROVE  TimesX(r) \in SUBSET (0 .. 15)
BY DEF TimesX, Up, Subtrahend, SymDiff

LEMMA RemainderOfUp ==
  ASSUME NEW p \in SUBSET (0 .. Top - 1)
  PROVE  Remainder[Up(p)] = TimesX(Remainder[p])
<1> DEFINE Shifts(n) == \A q \in SUBSET (0 .. n) : Remainder[Up(q)] = TimesX(Remainder[q])
           S == {n \in Nat : Shifts(n)}
<1>1. Shifts(15)
  <2> SUFFICES ASSUME NEW q \in SUBSET (0 .. 15)
               PROVE  Remainder[Up(q)] = TimesX(q)
    BY RemainderOfSmall
  <2>1. Up(q) \in SUBSET (0 .. 16)
    BY DEF Up
  <2>2. CASE 15 \in q
    <3>1. 16 \in Up(q)
      BY <2>2 DEF Up
    <3>2. /\ Remainder[Up(q)] = Remainder[SymDiff(Up(q), Subtrahend(16))]
          /\ SymDiff(Up(q), Subtrahend(16)) \in SUBSET (0 .. 15)
      <4>1. 16 \in 16 .. Top /\ 16 - 1 = 15
        BY TopIsLarge
      <4> QED
        BY <2>1, <3>1, <4>1, RemainderOfLarge
    <3> QED
      BY <2>2, <3>2, RemainderOfSmall DEF TimesX
  <2>3. CASE 15 \notin q
    <3>1. Up(q) \in SUBSET (0 .. 15)
      BY <2>3 DEF Up
    <3> QED
      BY <2>3, <3>1, RemainderOfSmall DEF TimesX
  <2> QED
    BY <2>2, <2>3
<1>2. ASSUME NEW n \in 16 .. Top - 1, Shifts(n - 1)
      PROVE  Shifts(n)
  <2> SUFFICES ASSUME NEW q \in SUBSET (0 .. n)
               PROVE  Remainder[Up(q)] = TimesX(Remainder[q])
    OBVIOUS
  <2>1. n \in 16 .. Top /\ n + 1 \in 16 .. Top /\ n \in Nat /\ n >= 16
    BY TopIsLarge
  <2>2. CASE n \in q
    <3> DEFINE t == SymDiff(q, Subtrahend(n))
    <3>1. Remainder[q] = Remainder[t] /\ t \in SUBSET (0 .. n - 1)
      BY <2>1, <2>2, RemainderOfLarge
    <3>2. Up(q) \in SUBSET (0 .. n + 1) /\ n + 1 \in Up(q)
      BY <2>1, <2>2 DEF Up
    <3>3. Remainder[Up(q)] = Remainder[SymDiff(Up(q), Subtrahend(n + 1))]
      BY <2>1, <3>2, RemainderOfLarge
    <3>4. SymDiff(Up(q), Subtrahend(n + 1)) = Up(t)
      BY <2>1, UpOfSum, UpOfSubtrahend
    <3>5. Remainder[Up(t)] = TimesX(Remainder[t])
      BY <1>2, <3>1
    <3> QED
      BY <3>1, <3>3, <3>4, <3>5
  <2>3. CASE n \notin q
    <3>1. q \in SUBSET (0 .. n - 1)
      BY <2>3
    <3> QED
      BY <1>2, <3>1
  <2> QED
    BY <2>2, <2>3
<1>3. 15 \in S /\ \A n \in 16 .. Top - 1 : n - 1 \in S => n \in S
  BY <1>1, <1>2, TopIsLarge
<1> HIDE DEF S
<1>4. Top - 1 \in S
  <2>1. Top - 1 \in 15 .. Top - 1 /\ Top - 1 \in Nat
    BY TopIsLarge
  <2> QED
    BY <1>3, <2>1, Upwards
<1> QED
  BY <1>4 DEF S

\* The division keeps the parity of the number of exponents.
LEMMA CardinalityOfSum ==
  ASSUME NEW A, NEW B, IsFiniteSet(A), IsFiniteSet(B)
  PROVE  /\ IsFiniteSet(SymDiff(A, B))
         /\ Cardinality(SymDiff(A, B)) % 2 = (Cardinality(A) + Cardinality(B)) % 2
<1>1. /\ IsFiniteSet(A \ B) /\ IsFiniteSet(B \ A) /\ IsFiniteSet(A \cap B)
      /\ Cardinality(A \ B) = Cardinality(A) - Cardinality(A \cap B)
      /\ Cardinality(B \ A) = Cardinality(B) - Cardinality(A \cap B)
  <2>1. B \cap A = A \cap B
    OBVIOUS
  <2>2. IsFiniteSet(A \ B) /\ Cardinality(A \ B) = Cardinality(A) - Cardinality(A \cap B)
    BY FS_Difference
  <2>3. IsFiniteSet(B \ A) /\ Cardinality(B \ A) = Cardinality(B) - Cardinality(B \cap A)
    BY FS_Difference
  <2>4. IsFiniteSet(A \cap B)
    BY FS_Intersection
  <2> QED
    BY <2>1, <2>2, <2>3, <2>4
<1>2. (A \ B) \cap (B \ A) = {}
  OBVIOUS
<1>3. Cardinality(SymDiff(A, B)) = Cardinality(A \ B) + Cardinality(B \ A) - 0
  BY <1>1, <1>2, FS_Union, FS_EmptySet DEF SymDiff
<1>4. IsFiniteSet(SymDiff(A, B))
  BY <1>1, FS_Union DEF SymDiff
<1>5. Cardinality(A) \in Nat /\ Cardinality(B) \in Nat /\ Cardinality(A \cap B) \in Nat
  BY <1>1, FS_CardinalityType
<1> QED
  BY <1>1, <1>3, <1>4, <1>5

LEMMA SubtrahendIsEven ==
  ASSUME NEW n \in Nat, n >= 16
  PROVE  IsFiniteSet(Subtrahend(n)) /\ Cardinality(Subtrahend(n)) = 4
<1>1. IsFiniteSet({n}) /\ Cardinality({n}) = 1
  BY FS_Singleton
<1>2. IsFiniteSet({n, n - 1}) /\ Cardinality({n, n - 1}) = 2
  <2>1. {n, n - 1} = {n} \cup {n - 1} /\ n - 1 \notin {n}
    OBVIOUS
  <2> QED
    BY <1>1, <2>1, FS_AddElement
<1>3. IsFiniteSet({n, n - 1, n - 14}) /\ Cardinality({n, n - 1, n - 14}) = 3
  <2>1. {n, n - 1, n - 14} = {n, n - 1} \cup {n - 14} /\ n - 14 \notin {n, n - 1}
    OBVIOUS
  <2> QED
    BY <1>2, <2>1, FS_AddElement
<1>4. /\ Subtrahend(n) = {n, n - 1, n - 14} \cup {n - 16}
      /\ n - 16 \notin {n, n - 1, n - 14}
  BY DEF Subtrahend
<1> QED
  BY <1>3, <1>4, FS_AddElement

LEMMA FinitePolynomials ==
  ASSUME NEW n \in Nat, NEW p \in SUBSET (0 .. n)
  PROVE  IsFiniteSet(p) /\ Cardinality(p) \in Nat
<1>1. IsFiniteSet(0 .. n)
  <2>1. 0 \in Int /\ n \in Int
    OBVIOUS
  <2> QED
    BY <2>1, FS_Interval
<1>2. IsFiniteSet(p)
  BY <1>1, FS_Subset
<1> QED
  BY <1>2, FS_CardinalityType

LEMMA RemainderParity ==
  ASSUME NEW p \in SUBSET Exponents
  PROVE  /\ IsFiniteSet(p) /\ IsFiniteSet(Remainder[p])
         /\ Cardinality(Remainder[p]) % 2 = Cardinality(p) % 2
<1> DEFINE Even(n) == \A q \in SUBSET (0 .. n) :
                        Cardinality(Remainder[q]) % 2 = Cardinality(q) % 2
           S == {n \in Nat : Even(n)}
<1>1. Even(15)
  BY RemainderOfSmall
<1>2. ASSUME NEW n \in 16 .. Top, Even(n - 1)
      PROVE  Even(n)
  <2> SUFFICES ASSUME NEW q \in SUBSET (0 .. n)
               PROVE  Cardinality(Remainder[q]) % 2 = Cardinality(q) % 2
    OBVIOUS
  <2>1. n \in Nat /\ n >= 16
    BY TopIsLarge
  <2>2. CASE n \in q
    <3> DEFINE t == SymDiff(q, Subtrahend(n))
    <3>1. Remainder[q] = Remainder[t] /\ t \in SUBSET (0 .. n - 1)
      BY <2>2, RemainderOfLarge
    <3>2. IsFiniteSet(q)
      BY <2>1, FinitePolynomials
    <3>3. Cardinality(t) % 2 = (Cardinality(q) + 4) % 2
      BY <2>1, <3>2, CardinalityOfSum, SubtrahendIsEven
    <3>4. Cardinality(q) \in Nat
      BY <3>2, FS_CardinalityType
    <3>5. Cardinality(Remainder[t]) % 2 = Cardinality(t) % 2
      BY <1>2, <3>1
    <3> QED
      BY <3>1, <3>3, <3>4, <3>5
  <2>3. CASE n \notin q
    <3>1. q \in SUBSET (0 .. n - 1)
      BY <2>3
    <3> QED
      BY <1>2, <3>1
  <2> QED
    BY <2>2, <2>3
<1>3. 15 \in S /\ \A n \in 16 .. Top : n - 1 \in S => n \in S
  BY <1>1, <1>2, TopIsLarge
<1> HIDE DEF S
<1>4. Top \in S
  BY <1>3, Upwards, TopIsLarge
<1>5. IsFiniteSet(p) /\ IsFiniteSet(Remainder[p])
  BY RemainderIsSmall, FinitePolynomials, TopIsLarge
<1> QED
  BY <1>4, <1>5, TopIsLarge DEF S

-----------------------------------------------------------------------------
(* The register: a checksum's bit i stands for the exponent 15 - i.        *)

Register(r) == {15 - e : e \in r}

\* A bit more, as the register sees it.
Right(c) == {i \in 0 .. 15 : (i + 1 \in c) # (0 \in c /\ i \in {0, 13, 15})}

LEMMA RegisterMembers ==
  ASSUME NEW r \in SUBSET (0 .. 15)
  PROVE  /\ Register(r) \in SUBSET (0 .. 15)
         /\ \A i \in 0 .. 15 : i \in Register(r) <=> 15 - i \in r
BY DEF Register

LEMMA RegisterProperties ==
  ASSUME NEW r \in SUBSET (0 .. 15)
  PROVE  /\ Register(r) \in SUBSET (0 .. 15)
         /\ Register(Register(r)) = r
         /\ \A i \in 0 .. 15 : i \in Register(r) <=> 15 - i \in r
<1>1. /\ Register(r) \in SUBSET (0 .. 15)
      /\ \A i \in 0 .. 15 : i \in Register(r) <=> 15 - i \in r
  BY RegisterMembers
<1>2. /\ Register(Register(r)) \in SUBSET (0 .. 15)
      /\ \A i \in 0 .. 15 : i \in Register(Register(r)) <=> 15 - i \in Register(r)
  BY <1>1, RegisterMembers
<1>3. \A i \in 0 .. 15 : i \in Register(Register(r)) <=> i \in r
  BY <1>1, <1>2
<1> QED
  BY <1>1, <1>2, <1>3

LEMMA RegisterOfSum ==
  ASSUME NEW r \in SUBSET (0 .. 15), NEW s \in SUBSET (0 .. 15)
  PROVE  Register(SymDiff(r, s)) = SymDiff(Register(r), Register(s))
<1>1. SymDiff(r, s) \in SUBSET (0 .. 15)
  BY DEF SymDiff
<1>2. \A i \in 0 .. 15 : i \in Register(SymDiff(r, s)) <=> i \in SymDiff(Register(r), Register(s))
  BY <1>1, RegisterProperties DEF SymDiff
<1>3. /\ Register(SymDiff(r, s)) \in SUBSET (0 .. 15)
      /\ SymDiff(Register(r), Register(s)) \in SUBSET (0 .. 15)
  BY <1>1, RegisterProperties DEF SymDiff
<1> QED
  BY <1>2, <1>3

LEMMA RightIsTimesX ==
  ASSUME NEW r \in SUBSET (0 .. 15)
  PROVE  Register(TimesX(r)) = Right(Register(r))
<1>1. \A e \in 0 .. 15 : e \in TimesX(r) <=> ((e - 1 \in r) # (15 \in r /\ e \in {0, 2, 15}))
  BY DEF TimesX, Up, Subtrahend, SymDiff
<1>2. TimesX(r) \in SUBSET (0 .. 15)
  BY TimesXIsSmall
<1>3. \A i \in 0 .. 15 : i \in Register(TimesX(r)) <=> 15 - i \in TimesX(r)
  BY <1>2, RegisterProperties
<1>4. \A i \in 0 .. 15 : i + 1 \in Register(r) <=> 15 - (i + 1) \in r
  BY DEF Register
<1>5. 0 \in Register(r) <=> 15 \in r
  BY RegisterProperties
<1>6. \A i \in 0 .. 15 : i \in Register(TimesX(r)) <=> i \in Right(Register(r))
  BY <1>1, <1>3, <1>4, <1>5 DEF Right
<1>7. Register(TimesX(r)) \in SUBSET (0 .. 15) /\ Right(Register(r)) \in SUBSET (0 .. 15)
  BY <1>2, RegisterProperties DEF Right
<1> QED
  BY <1>6, <1>7

\* The register and its bits.
LEMMA RightBits ==
  ASSUME NEW c \in SUBSET (0 .. 15)
  PROVE  /\ Right(c) \in SUBSET (0 .. 15)
         /\ (0 \in Right(c)) = ((1 \in c) # (0 \in c))
         /\ (1 \in Right(c)) = (2 \in c)
         /\ (2 \in Right(c)) = (3 \in c)
         /\ (3 \in Right(c)) = (4 \in c)
         /\ (4 \in Right(c)) = (5 \in c)
         /\ (5 \in Right(c)) = (6 \in c)
         /\ (6 \in Right(c)) = (7 \in c)
         /\ (7 \in Right(c)) = (8 \in c)
         /\ (8 \in Right(c)) = (9 \in c)
         /\ (9 \in Right(c)) = (10 \in c)
         /\ (10 \in Right(c)) = (11 \in c)
         /\ (11 \in Right(c)) = (12 \in c)
         /\ (12 \in Right(c)) = (13 \in c)
         /\ (13 \in Right(c)) = ((14 \in c) # (0 \in c))
         /\ (14 \in Right(c)) = (15 \in c)
         /\ (15 \in Right(c)) = (0 \in c)
BY DEF Right

Eight(c) == Right(Right(Right(Right(Right(Right(Right(Right(c))))))))

\* Is the number of ones of a byte odd?
Odd(S) == (((0 \in S) # (1 \in S)) # ((2 \in S) # (3 \in S)))
            # (((4 \in S) # (5 \in S)) # ((6 \in S) # (7 \in S)))

\* What the eight bits of a byte add to the register.
Added(S) == {i \in 0 .. 15 : ((i - 6 \in S) # (i - 7 \in S)) # (Odd(S) /\ i \in {0, 14, 15})}

\* Eight bits more.
LEMMA EightBits ==
  ASSUME NEW c \in SUBSET (0 .. 15)
  PROVE  Eight(c) = SymDiff(HighByte(c), Added(LowByte(c)))
<1> DEFINE c1 == Right(c)
           c2 == Right(c1)
           c3 == Right(c2)
           c4 == Right(c3)
           c5 == Right(c4)
           c6 == Right(c5)
           c7 == Right(c6)
           c8 == Right(c7)
           a == SymDiff(HighByte(c), Added(LowByte(c)))
<1>1. Eight(c) = c8
  BY DEF Eight
<1> HIDE DEF c1, c2, c3, c4, c5, c6, c7, c8
<1>2. /\ c1 \in SUBSET (0 .. 15)
      /\ (0 \in c1) = ((0 \in c) # (1 \in c))
      /\ (1 \in c1) = (2 \in c)
      /\ (2 \in c1) = (3 \in c)
      /\ (3 \in c1) = (4 \in c)
      /\ (4 \in c1) = (5 \in c)
      /\ (5 \in c1) = (6 \in c)
      /\ (6 \in c1) = (7 \in c)
      /\ (7 \in c1) = (8 \in c)
      /\ (8 \in c1) = (9 \in c)
      /\ (9 \in c1) = (10 \in c)
      /\ (10 \in c1) = (11 \in c)
      /\ (11 \in c1) = (12 \in c)
      /\ (12 \in c1) = (13 \in c)
      /\ (13 \in c1) = ((0 \in c) # (14 \in c))
      /\ (14 \in c1) = (15 \in c)
      /\ (15 \in c1) = (0 \in c)
  <2>1. c1 = Right(c)
    BY DEF c1
  <2> QED
    BY <2>1, RightBits
<1>3. /\ c2 \in SUBSET (0 .. 15)
      /\ (0 \in c2) = (((0 \in c) # (1 \in c)) # (2 \in c))
      /\ (1 \in c2) = (3 \in c)
      /\ (2 \in c2) = (4 \in c)
      /\ (3 \in c2) = (5 \in c)
      /\ (4 \in c2) = (6 \in c)
      /\ (5 \in c2) = (7 \in c)
      /\ (6 \in c2) = (8 \in c)
      /\ (7 \in c2) = (9 \in c)
      /\ (8 \in c2) = (10 \in c)
      /\ (9 \in c2) = (11 \in c)
      /\ (10 \in c2) = (12 \in c)
      /\ (11 \in c2) = (13 \in c)
      /\ (12 \in c2) = ((0 \in c) # (14 \in c))
      /\ (13 \in c2) = (((0 \in c) # (1 \in c)) # (15 \in c))
      /\ (14 \in c2) = (0 \in c)
      /\ (15 \in c2) = ((0 \in c) # (1 \in c))
  <2>1. c2 = Right(c1)
    BY DEF c2
  <2> QED
    BY <2>1, <1>2, RightBits
<1>4. /\ c3 \in SUBSET (0 .. 15)
      /\ (0 \in c3) = ((((0 \in c) # (1 \in c)) # (2 \in c)) # (3 \in c))
      /\ (1 \in c3) = (4 \in c)
      /\ (2 \in c3) = (5 \in c)
      /\ (3 \in c3) = (6 \in c)
      /\ (4 \in c3) = (7 \in c)
      /\ (5 \in c3) = (8 \in c)
      /\ (6 \in c3) = (9 \in c)
      /\ (7 \in c3) = (10 \in c)
      /\ (8 \in c3) = (11 \in c)
      /\ (9 \in c3) = (12 \in c)
      /\ (10 \in c3) = (13 \in c)
      /\ (11 \in c3) = ((0 \in c) # (14 \in c))
      /\ (12 \in c3) = (((0 \in c) # (1 \in c)) # (15 \in c))
      /\ (13 \in c3) = ((1 \in c) # (2 \in c))
      /\ (14 \in c3) = ((0 \in c) # (1 \in c))
      /\ (15 \in c3) = (((0 \in c) # (1 \in c)) # (2 \in c))
  <2>1. c3 = Right(c2)
    BY DEF c3
  <2> QED
    BY <2>1, <1>3, RightBits
<1>5. /\ c4 \in SUBSET (0 .. 15)
      /\ (0 \in c4) = (((((0 \in c) # (1 \in c)) # (2 \in c)) # (3 \in c)) # (4 \in c))
      /\ (1 \in c4) = (5 \in c)
      /\ (2 \in c4) = (6 \in c)
      /\ (3 \in c4) = (7 \in c)
      /\ (4 \in c4) = (8 \in c)
      /\ (5 \in c4) = (9 \in c)
      /\ (6 \in c4) = (10 \in c)
      /\ (7 \in c4) = (11 \in c)
      /\ (8 \in c4) = (12 \in c)
      /\ (9 \in c4) = (13 \in c)
      /\ (10 \in c4) = ((0 \in c) # (14 \in c))
      /\ (11 \in c4) = (((0 \in c) # (1 \in c)) # (15 \in c))
      /\ (12 \in c4) = ((1 \in c) # (2 \in c))
      /\ (13 \in c4) = ((2 \in c) # (3 \in c))
      /\ (14 \in c4) = (((0 \in c) # (1 \in c)) # (2 \in c))
      /\ (15 \in c4) = ((((0 \in c) # (1 \in c)) # (2 \in c)) # (3 \in c))
  <2>1. c4 = Right(c3)
    BY DEF c4
  <2> QED
    BY <2>1, <1>4, RightBits
<1>6. /\ c5 \in SUBSET (0 .. 15)
      /\ (0 \in c5) = ((((((0 \in c) # (1 \in c)) # (2 \in c)) # (3 \in c)) # (4 \in c)) # (5 \in c))
      /\ (1 \in c5) = (6 \in c)
      /\ (2 \in c5) = (7 \in c)
      /\ (3 \in c5) = (8 \in c)
      /\ (4 \in c5) = (9 \in c)
      /\ (5 \in c5) = (10 \in c)
      /\ (6 \in c5) = (11 \in c)
      /\ (7 \in c5) = (12 \in c)
      /\ (8 \in c5) = (13 \in c)
      /\ (9 \in c5) = ((0 \in c) # (14 \in c))
      /\ (10 \in c5) = (((0 \in c) # (1 \in c)) # (15 \in c))
      /\ (11 \in c5) = ((1 \in c) # (2 \in c))
      /\ (12 \in c5) = ((2 \in c) # (3 \in c))
      /\ (13 \in c5) = ((3 \in c) # (4 \in c))
      /\ (14 \in c5) = ((((0 \in c) # (1 \in c)) # (2 \in c)) # (3 \in c))
      /\ (15 \in c5) = (((((0 \in c) # (1 \in c)) # (2 \in c)) # (3 \in c)) # (4 \in c))
  <2>1. c5 = Right(c4)
    BY DEF c5
  <2> QED
    BY <2>1, <1>5, RightBits
<1>7. /\ c6 \in SUBSET (0 .. 15)
      /\ (0 \in c6) = (((((((0 \in c) # (1 \in c)) # (2 \in c)) # (3 \in c)) # (4 \in c)) # (5 \in c)) # (6 \in c))
      /\ (1 \in c6) = (7 \in c)
      /\ (2 \in c6) = (8 \in c)
      /\ (3 \in c6) = (9 \in c)
      /\ (4 \in c6) = (10 \in c)
      /\ (5 \in c6) = (11 \in c)
      /\ (6 \in c6) = (12 \in c)
      /\ (7 \in c6) = (13 \in c)
      /\ (8 \in c6) = ((0 \in c) # (14 \in c))
      /\ (9 \in c6) = (((0 \in c) # (1 \in c)) # (15 \in c))
      /\ (10 \in c6) = ((1 \in c) # (2 \in c))
      /\ (11 \in c6) = ((2 \in c) # (3 \in c))
      /\ (12 \in c6) = ((3 \in c) # (4 \in c))
      /\ (13 \in c6) = ((4 \in c) # (5 \in c))
      /\ (14 \in c6) = (((((0 \in c) # (1 \in c)) # (2 \in c)) # (3 \in c)) # (4 \in c))
      /\ (15 \in c6) = ((((((0 \in c) # (1 \in c)) # (2 \in c)) # (3 \in c)) # (4 \in c)) # (5 \in c))
  <2>1. c6 = Right(c5)
    BY DEF c6
  <2> QED
    BY <2>1, <1>6, RightBits
<1>8. /\ c7 \in SUBSET (0 .. 15)
      /\ (0 \in c7) = ((((((((0 \in c) # (1 \in c)) # (2 \in c)) # (3 \in c)) # (4 \in c)) # (5 \in c)) # (6 \in c)) # (7 \in c))
      /\ (1 \in c7) = (8 \in c)
      /\ (2 \in c7) = (9 \in c)
      /\ (3 \in c7) = (10 \in c)
      /\ (4 \in c7) = (11 \in c)
      /\ (5 \in c7) = (12 \in c)
      /\ (6 \in c7) = (13 \in c)
      /\ (7 \in c7) = ((0 \in c) # (14 \in c))
      /\ (8 \in c7) = (((0 \in c) # (1 \in c)) # (15 \in c))
      /\ (9 \in c7) = ((1 \in c) # (2 \in c))
      /\ (10 \in c7) = ((2 \in c) # (3 \in c))
      /\ (11 \in c7) = ((3 \in c) # (4 \in c))
      /\ (12 \in c7) = ((4 \in c) # (5 \in c))
      /\ (13 \in c7) = ((5 \in c) # (6 \in c))
      /\ (14 \in c7) = ((((((0 \in c) # (1 \in c)) # (2 \in c)) # (3 \in c)) # (4 \in c)) # (5 \in c))
      /\ (15 \in c7) = (((((((0 \in c) # (1 \in c)) # (2 \in c)) # (3 \in c)) # (4 \in c)) # (5 \in c)) # (6 \in c))
  <2>1. c7 = Right(c6)
    BY DEF c7
  <2> QED
    BY <2>1, <1>7, RightBits
<1>9. /\ c8 \in SUBSET (0 .. 15)
      /\ (0 \in c8) = (((((((((0 \in c) # (1 \in c)) # (2 \in c)) # (3 \in c)) # (4 \in c)) # (5 \in c)) # (6 \in c)) # (7 \in c)) # (8 \in c))
      /\ (1 \in c8) = (9 \in c)
      /\ (2 \in c8) = (10 \in c)
      /\ (3 \in c8) = (11 \in c)
      /\ (4 \in c8) = (12 \in c)
      /\ (5 \in c8) = (13 \in c)
      /\ (6 \in c8) = ((0 \in c) # (14 \in c))
      /\ (7 \in c8) = (((0 \in c) # (1 \in c)) # (15 \in c))
      /\ (8 \in c8) = ((1 \in c) # (2 \in c))
      /\ (9 \in c8) = ((2 \in c) # (3 \in c))
      /\ (10 \in c8) = ((3 \in c) # (4 \in c))
      /\ (11 \in c8) = ((4 \in c) # (5 \in c))
      /\ (12 \in c8) = ((5 \in c) # (6 \in c))
      /\ (13 \in c8) = ((6 \in c) # (7 \in c))
      /\ (14 \in c8) = (((((((0 \in c) # (1 \in c)) # (2 \in c)) # (3 \in c)) # (4 \in c)) # (5 \in c)) # (6 \in c))
      /\ (15 \in c8) = ((((((((0 \in c) # (1 \in c)) # (2 \in c)) # (3 \in c)) # (4 \in c)) # (5 \in c)) # (6 \in c)) # (7 \in c))
  <2>1. c8 = Right(c7)
    BY DEF c8
  <2> QED
    BY <2>1, <1>8, RightBits
<1>10. Odd(LowByte(c)) = Odd(c)
  BY DEF Odd, LowByte
<1>11. /\ a \in SUBSET (0 .. 15)
       /\ (0 \in a) = (Odd(c) # (8 \in c))
       /\ (1 \in a) = (9 \in c)
       /\ (2 \in a) = (10 \in c)
       /\ (3 \in a) = (11 \in c)
       /\ (4 \in a) = (12 \in c)
       /\ (5 \in a) = (13 \in c)
       /\ (6 \in a) = ((0 \in c) # (14 \in c))
       /\ (7 \in a) = (((0 \in c) # (1 \in c)) # (15 \in c))
       /\ (8 \in a) = ((1 \in c) # (2 \in c))
       /\ (9 \in a) = ((2 \in c) # (3 \in c))
       /\ (10 \in a) = ((3 \in c) # (4 \in c))
       /\ (11 \in a) = ((4 \in c) # (5 \in c))
       /\ (12 \in a) = ((5 \in c) # (6 \in c))
       /\ (13 \in a) = ((6 \in c) # (7 \in c))
       /\ (14 \in a) = (Odd(c) # (7 \in c))
       /\ (15 \in a) = Odd(c)
  <2>1. \A i \in 0 .. 15 : (i \in HighByte(c)) = (i + 8 \in c)
    BY DEF HighByte
  <2>2. HighByte(c) \in SUBSET (0 .. 15) /\ Added(LowByte(c)) \in SUBSET (0 .. 15)
    BY DEF HighByte, Added
  <2>3. \A i \in 0 .. 15 : (i \in Added(LowByte(c))) =
          (((i - 6 \in 0 .. 7 /\ i - 6 \in c) # (i - 7 \in 0 .. 7 /\ i - 7 \in c))
             # (Odd(c) /\ i \in {0, 14, 15}))
    BY <1>10 DEF Added, LowByte
  <2>4. a \in SUBSET (0 .. 15)
    BY <2>2 DEF SymDiff
  <2>5. \A i \in 0 .. 15 : (i \in a) = ((i \in HighByte(c)) # (i \in Added(LowByte(c))))
    BY DEF SymDiff
  <2> HIDE DEF a
  <2>6. \A i \in 0 .. 15 : (i \in a) = ((i + 8 \in c)
          # (((i - 6 \in 0 .. 7 /\ i - 6 \in c) # (i - 7 \in 0 .. 7 /\ i - 7 \in c))
             # (Odd(c) /\ i \in {0, 14, 15})))
    BY <2>1, <2>3, <2>5
  <2>7. Odd(c) \in BOOLEAN
    BY DEF Odd
  <2> QED
    BY <2>4, <2>6, <2>7
<1>12. \A i \in 0 .. 15 : i \in c8 <=> i \in a
  BY <1>9, <1>11 DEF Odd
<1> QED
  BY <1>1, <1>9, <1>11, <1>12

-----------------------------------------------------------------------------
(* The table.                                                              *)

\* The n-th entry m by its bits: what Added says, for numbers.
Parity(n) == (n + (n \div 2) + (n \div 4) + (n \div 8)
                + (n \div 16) + (n \div 32) + (n \div 64) + (n \div 128)) % 2

Fits(n, m) ==
  /\ m \in Nat
  /\ m % 2 = Parity(n)
  /\ (m \div 2) % 2 = 0
  /\ (m \div 4) % 2 = 0
  /\ (m \div 8) % 2 = 0
  /\ (m \div 16) % 2 = 0
  /\ (m \div 32) % 2 = 0
  /\ (m \div 64) % 2 = n % 2
  /\ (m \div 128) % 2 = (n + (n \div 2)) % 2
  /\ (m \div 256) % 2 = ((n \div 2) + (n \div 4)) % 2
  /\ (m \div 512) % 2 = ((n \div 4) + (n \div 8)) % 2
  /\ (m \div 1024) % 2 = ((n \div 8) + (n \div 16)) % 2
  /\ (m \div 2048) % 2 = ((n \div 16) + (n \div 32)) % 2
  /\ (m \div 4096) % 2 = ((n \div 32) + (n \div 64)) % 2
  /\ (m \div 8192) % 2 = ((n \div 64) + (n \div 128)) % 2
  /\ (m \div 16384) % 2 = ((n \div 128) + Parity(n)) % 2
  /\ (m \div 32768) % 2 = Parity(n)

LEMMA TableFits == \A n \in 0 .. 255 : Fits(n, crc16_table[n + 1])
<1>1. \A n \in 0 .. 15 : Fits(n, crc16_table[n + 1])
  <2>1. /\ crc16_table[1] = \h0000 /\ crc16_table[2] = \hC0C1 /\ crc16_table[3] = \hC181 /\ crc16_table[4] = \h0140
        /\ crc16_table[5] = \hC301 /\ crc16_table[6] = \h03C0 /\ crc16_table[7] = \h0280 /\ crc16_table[8] = \hC241
        /\ crc16_table[9] = \hC601 /\ crc16_table[10] = \h06C0 /\ crc16_table[11] = \h0780 /\ crc16_table[12] = \hC741
        /\ crc16_table[13] = \h0500 /\ crc16_table[14] = \hC5C1 /\ crc16_table[15] = \hC481 /\ crc16_table[16] = \h0440
    BY DEF crc16_table
  <2>2. /\ Fits(0, \h0000) /\ Fits(1, \hC0C1) /\ Fits(2, \hC181) /\ Fits(3, \h0140)
        /\ Fits(4, \hC301) /\ Fits(5, \h03C0) /\ Fits(6, \h0280) /\ Fits(7, \hC241)
        /\ Fits(8, \hC601) /\ Fits(9, \h06C0) /\ Fits(10, \h0780) /\ Fits(11, \hC741)
        /\ Fits(12, \h0500) /\ Fits(13, \hC5C1) /\ Fits(14, \hC481) /\ Fits(15, \h0440)
    BY DEF Fits, Parity
  <2> QED
    BY <2>1, <2>2
<1>2. \A n \in 16 .. 31 : Fits(n, crc16_table[n + 1])
  <2>1. /\ crc16_table[17] = \hCC01 /\ crc16_table[18] = \h0CC0 /\ crc16_table[19] = \h0D80 /\ crc16_table[20] = \hCD41
        /\ crc16_table[21] = \h0F00 /\ crc16_table[22] = \hCFC1 /\ crc16_table[23] = \hCE81 /\ crc16_table[24] = \h0E40
        /\ crc16_table[25] = \h0A00 /\ crc16_table[26] = \hCAC1 /\ crc16_table[27] = \hCB81 /\ crc16_table[28] = \h0B40
        /\ crc16_table[29] = \hC901 /\ crc16_table[30] = \h09C0 /\ crc16_table[31] = \h0880 /\ crc16_table[32] = \hC841
    BY DEF crc16_table
  <2>2. /\ Fits(16, \hCC01) /\ Fits(17, \h0CC0) /\ Fits(18, \h0D80) /\ Fits(19, \hCD41)
        /\ Fits(20, \h0F00) /\ Fits(21, \hCFC1) /\ Fits(22, \hCE81) /\ Fits(23, \h0E40)
        /\ Fits(24, \h0A00) /\ Fits(25, \hCAC1) /\ Fits(26, \hCB81) /\ Fits(27, \h0B40)
        /\ Fits(28, \hC901) /\ Fits(29, \h09C0) /\ Fits(30, \h0880) /\ Fits(31, \hC841)
    BY DEF Fits, Parity
  <2> QED
    BY <2>1, <2>2
<1>3. \A n \in 32 .. 47 : Fits(n, crc16_table[n + 1])
  <2>1. /\ crc16_table[33] = \hD801 /\ crc16_table[34] = \h18C0 /\ crc16_table[35] = \h1980 /\ crc16_table[36] = \hD941
        /\ crc16_table[37] = \h1B00 /\ crc16_table[38] = \hDBC1 /\ crc16_table[39] = \hDA81 /\ crc16_table[40] = \h1A40
        /\ crc16_table[41] = \h1E00 /\ crc16_table[42] = \hDEC1 /\ crc16_table[43] = \hDF81 /\ crc16_table[44] = \h1F40
        /\ crc16_table[45] = \hDD01 /\ crc16_table[46] = \h1DC0 /\ crc16_table[47] = \h1C80 /\ crc16_table[48] = \hDC41
    BY DEF crc16_table
  <2>2. /\ Fits(32, \hD801) /\ Fits(33, \h18C0) /\ Fits(34, \h1980) /\ Fits(35, \hD941)
        /\ Fits(36, \h1B00) /\ Fits(37, \hDBC1) /\ Fits(38, \hDA81) /\ Fits(39, \h1A40)
        /\ Fits(40, \h1E00) /\ Fits(41, \hDEC1) /\ Fits(42, \hDF81) /\ Fits(43, \h1F40)
        /\ Fits(44, \hDD01) /\ Fits(45, \h1DC0) /\ Fits(46, \h1C80) /\ Fits(47, \hDC41)
    BY DEF Fits, Parity
  <2> QED
    BY <2>1, <2>2
<1>4. \A n \in 48 .. 63 : Fits(n, crc16_table[n + 1])
  <2>1. /\ crc16_table[49] = \h1400 /\ crc16_table[50] = \hD4C1 /\ crc16_table[51] = \hD581 /\ crc16_table[52] = \h1540
        /\ crc16_table[53] = \hD701 /\ crc16_table[54] = \h17C0 /\ crc16_table[55] = \h1680 /\ crc16_table[56] = \hD641
        /\ crc16_table[57] = \hD201 /\ crc16_table[58] = \h12C0 /\ crc16_table[59] = \h1380 /\ crc16_table[60] = \hD341
        /\ crc16_table[61] = \h1100 /\ crc16_table[62] = \hD1C1 /\ crc16_table[63] = \hD081 /\ crc16_table[64] = \h1040
    BY DEF crc16_table
  <2>2. /\ Fits(48, \h1400) /\ Fits(49, \hD4C1) /\ Fits(50, \hD581) /\ Fits(51, \h1540)
        /\ Fits(52, \hD701) /\ Fits(53, \h17C0) /\ Fits(54, \h1680) /\ Fits(55, \hD641)
        /\ Fits(56, \hD201) /\ Fits(57, \h12C0) /\ Fits(58, \h1380) /\ Fits(59, \hD341)
        /\ Fits(60, \h1100) /\ Fits(61, \hD1C1) /\ Fits(62, \hD081) /\ Fits(63, \h1040)
    BY DEF Fits, Parity
  <2> QED
    BY <2>1, <2>2
<1>5. \A n \in 64 .. 79 : Fits(n, crc16_table[n + 1])
  <2>1. /\ crc16_table[65] = \hF001 /\ crc16_table[66] = \h30C0 /\ crc16_table[67] = \h3180 /\ crc16_table[68] = \hF141
        /\ crc16_table[69] = \h3300 /\ crc16_table[70] = \hF3C1 /\ crc16_table[71] = \hF281 /\ crc16_table[72] = \h3240
        /\ crc16_table[73] = \h3600 /\ crc16_table[74] = \hF6C1 /\ crc16_table[75] = \hF781 /\ crc16_table[76] = \h3740
        /\ crc16_table[77] = \hF501 /\ crc16_table[78] = \h35C0 /\ crc16_table[79] = \h3480 /\ crc16_table[80] = \hF441
    BY DEF crc16_table
  <2>2. /\ Fits(64, \hF001) /\ Fits(65, \h30C0) /\ Fits(66, \h3180) /\ Fits(67, \hF141)
        /\ Fits(68, \h3300) /\ Fits(69, \hF3C1) /\ Fits(70, \hF281) /\ Fits(71, \h3240)
        /\ Fits(72, \h3600) /\ Fits(73, \hF6C1) /\ Fits(74, \hF781) /\ Fits(75, \h3740)
        /\ Fits(76, \hF501) /\ Fits(77, \h35C0) /\ Fits(78, \h3480) /\ Fits(79, \hF441)
    BY DEF Fits, Parity
  <2> QED
    BY <2>1, <2>2
<1>6. \A n \in 80 .. 95 : Fits(n, crc16_table[n + 1])
  <2>1. /\ crc16_table[81] = \h3C00 /\ crc16_table[82] = \hFCC1 /\ crc16_table[83] = \hFD81 /\ crc16_table[84] = \h3D40
        /\ crc16_table[85] = \hFF01 /\ crc16_table[86] = \h3FC0 /\ crc16_table[87] = \h3E80 /\ crc16_table[88] = \hFE41
        /\ crc16_table[89] = \hFA01 /\ crc16_table[90] = \h3AC0 /\ crc16_table[91] = \h3B80 /\ crc16_table[92] = \hFB41
        /\ crc16_table[93] = \h3900 /\ crc16_table[94] = \hF9C1 /\ crc16_table[95] = \hF881 /\ crc16_table[96] = \h3840
    BY DEF crc16_table
  <2>2. /\ Fits(80, \h3C00) /\ Fits(81, \hFCC1) /\ Fits(82, \hFD81) /\ Fits(83, \h3D40)
        /\ Fits(84, \hFF01) /\ Fits(85, \h3FC0) /\ Fits(86, \h3E80) /\ Fits(87, \hFE41)
        /\ Fits(88, \hFA01) /\ Fits(89, \h3AC0) /\ Fits(90, \h3B80) /\ Fits(91, \hFB41)
        /\ Fits(92, \h3900) /\ Fits(93, \hF9C1) /\ Fits(94, \hF881) /\ Fits(95, \h3840)
    BY DEF Fits, Parity
  <2> QED
    BY <2>1, <2>2
<1>7. \A n \in 96 .. 111 : Fits(n, crc16_table[n + 1])
  <2>1. /\ crc16_table[97] = \h2800 /\ crc16_table[98] = \hE8C1 /\ crc16_table[99] = \hE981 /\ crc16_table[100] = \h2940
        /\ crc16_table[101] = \hEB01 /\ crc16_table[102] = \h2BC0 /\ crc16_table[103] = \h2A80 /\ crc16_table[104] = \hEA41
        /\ crc16_table[105] = \hEE01 /\ crc16_table[106] = \h2EC0 /\ crc16_table[107] = \h2F80 /\ crc16_table[108] = \hEF41
        /\ crc16_table[109] = \h2D00 /\ crc16_table[110] = \hEDC1 /\ crc16_table[111] = \hEC81 /\ crc16_table[112] = \h2C40
    BY DEF crc16_table
  <2>2. /\ Fits(96, \h2800) /\ Fits(97, \hE8C1) /\ Fits(98, \hE981) /\ Fits(99, \h2940)
        /\ Fits(100, \hEB01) /\ Fits(101, \h2BC0) /\ Fits(102, \h2A80) /\ Fits(103, \hEA41)
        /\ Fits(104, \hEE01) /\ Fits(105, \h2EC0) /\ Fits(106, \h2F80) /\ Fits(107, \hEF41)
        /\ Fits(108, \h2D00) /\ Fits(109, \hEDC1) /\ Fits(110, \hEC81) /\ Fits(111, \h2C40)
    BY DEF Fits, Parity
  <2> QED
    BY <2>1, <2>2
<1>8. \A n \in 112 .. 127 : Fits(n, crc16_table[n + 1])
  <2>1. /\ crc16_table[113] = \hE401 /\ crc16_table[114] = \h24C0 /\ crc16_table[115] = \h2580 /\ crc16_table[116] = \hE541
        /\ crc16_table[117] = \h2700 /\ crc16_table[118] = \hE7C1 /\ crc16_table[119] = \hE681 /\ crc16_table[120] = \h2640
        /\ crc16_table[121] = \h2200 /\ crc16_table[122] = \hE2C1 /\ crc16_table[123] = \hE381 /\ crc16_table[124] = \h2340
        /\ crc16_table[125] = \hE101 /\ crc16_table[126] = \h21C0 /\ crc16_table[127] = \h2080 /\ crc16_table[128] = \hE041
    BY DEF crc16_table
  <2>2. /\ Fits(112, \hE401) /\ Fits(113, \h24C0) /\ Fits(114, \h2580) /\ Fits(115, \hE541)
        /\ Fits(116, \h2700) /\ Fits(117, \hE7C1) /\ Fits(118, \hE681) /\ Fits(119, \h2640)
        /\ Fits(120, \h2200) /\ Fits(121, \hE2C1) /\ Fits(122, \hE381) /\ Fits(123, \h2340)
        /\ Fits(124, \hE101) /\ Fits(125, \h21C0) /\ Fits(126, \h2080) /\ Fits(127, \hE041)
    BY DEF Fits, Parity
  <2> QED
    BY <2>1, <2>2
<1>9. \A n \in 128 .. 143 : Fits(n, crc16_table[n + 1])
  <2>1. /\ crc16_table[129] = \hA001 /\ crc16_table[130] = \h60C0 /\ crc16_table[131] = \h6180 /\ crc16_table[132] = \hA141
        /\ crc16_table[133] = \h6300 /\ crc16_table[134] = \hA3C1 /\ crc16_table[135] = \hA281 /\ crc16_table[136] = \h6240
        /\ crc16_table[137] = \h6600 /\ crc16_table[138] = \hA6C1 /\ crc16_table[139] = \hA781 /\ crc16_table[140] = \h6740
        /\ crc16_table[141] = \hA501 /\ crc16_table[142] = \h65C0 /\ crc16_table[143] = \h6480 /\ crc16_table[144] = \hA441
    BY DEF crc16_table
  <2>2. /\ Fits(128, \hA001) /\ Fits(129, \h60C0) /\ Fits(130, \h6180) /\ Fits(131, \hA141)
        /\ Fits(132, \h6300) /\ Fits(133, \hA3C1) /\ Fits(134, \hA281) /\ Fits(135, \h6240)
        /\ Fits(136, \h6600) /\ Fits(137, \hA6C1) /\ Fits(138, \hA781) /\ Fits(139, \h6740)
        /\ Fits(140, \hA501) /\ Fits(141, \h65C0) /\ Fits(142, \h6480) /\ Fits(143, \hA441)
    BY DEF Fits, Parity
  <2> QED
    BY <2>1, <2>2
<1>10. \A n \in 144 .. 159 : Fits(n, crc16_table[n + 1])
  <2>1. /\ crc16_table[145] = \h6C00 /\ crc16_table[146] = \hACC1 /\ crc16_table[147] = \hAD81 /\ crc16_table[148] = \h6D40
        /\ crc16_table[149] = \hAF01 /\ crc16_table[150] = \h6FC0 /\ crc16_table[151] = \h6E80 /\ crc16_table[152] = \hAE41
        /\ crc16_table[153] = \hAA01 /\ crc16_table[154] = \h6AC0 /\ crc16_table[155] = \h6B80 /\ crc16_table[156] = \hAB41
        /\ crc16_table[157] = \h6900 /\ crc16_table[158] = \hA9C1 /\ crc16_table[159] = \hA881 /\ crc16_table[160] = \h6840
    BY DEF crc16_table
  <2>2. /\ Fits(144, \h6C00) /\ Fits(145, \hACC1) /\ Fits(146, \hAD81) /\ Fits(147, \h6D40)
        /\ Fits(148, \hAF01) /\ Fits(149, \h6FC0) /\ Fits(150, \h6E80) /\ Fits(151, \hAE41)
        /\ Fits(152, \hAA01) /\ Fits(153, \h6AC0) /\ Fits(154, \h6B80) /\ Fits(155, \hAB41)
        /\ Fits(156, \h6900) /\ Fits(157, \hA9C1) /\ Fits(158, \hA881) /\ Fits(159, \h6840)
    BY DEF Fits, Parity
  <2> QED
    BY <2>1, <2>2
<1>11. \A n \in 160 .. 175 : Fits(n, crc16_table[n + 1])
  <2>1. /\ crc16_table[161] = \h7800 /\ crc16_table[162] = \hB8C1 /\ crc16_table[163] = \hB981 /\ crc16_table[164] = \h7940
        /\ crc16_table[165] = \hBB01 /\ crc16_table[166] = \h7BC0 /\ crc16_table[167] = \h7A80 /\ crc16_table[168] = \hBA41
        /\ crc16_table[169] = \hBE01 /\ crc16_table[170] = \h7EC0 /\ crc16_table[171] = \h7F80 /\ crc16_table[172] = \hBF41
        /\ crc16_table[173] = \h7D00 /\ crc16_table[174] = \hBDC1 /\ crc16_table[175] = \hBC81 /\ crc16_table[176] = \h7C40
    BY DEF crc16_table
  <2>2. /\ Fits(160, \h7800) /\ Fits(161, \hB8C1) /\ Fits(162, \hB981) /\ Fits(163, \h7940)
        /\ Fits(164, \hBB01) /\ Fits(165, \h7BC0) /\ Fits(166, \h7A80) /\ Fits(167, \hBA41)
        /\ Fits(168, \hBE01) /\ Fits(169, \h7EC0) /\ Fits(170, \h7F80) /\ Fits(171, \hBF41)
        /\ Fits(172, \h7D00) /\ Fits(173, \hBDC1) /\ Fits(174, \hBC81) /\ Fits(175, \h7C40)
    BY DEF Fits, Parity
  <2> QED
    BY <2>1, <2>2
<1>12. \A n \in 176 .. 191 : Fits(n, crc16_table[n + 1])
  <2>1. /\ crc16_table[177] = \hB401 /\ crc16_table[178] = \h74C0 /\ crc16_table[179] = \h7580 /\ crc16_table[180] = \hB541
        /\ crc16_table[181] = \h7700 /\ crc16_table[182] = \hB7C1 /\ crc16_table[183] = \hB681 /\ crc16_table[184] = \h7640
        /\ crc16_table[185] = \h7200 /\ crc16_table[186] = \hB2C1 /\ crc16_table[187] = \hB381 /\ crc16_table[188] = \h7340
        /\ crc16_table[189] = \hB101 /\ crc16_table[190] = \h71C0 /\ crc16_table[191] = \h7080 /\ crc16_table[192] = \hB041
    BY DEF crc16_table
  <2>2. /\ Fits(176, \hB401) /\ Fits(177, \h74C0) /\ Fits(178, \h7580) /\ Fits(179, \hB541)
        /\ Fits(180, \h7700) /\ Fits(181, \hB7C1) /\ Fits(182, \hB681) /\ Fits(183, \h7640)
        /\ Fits(184, \h7200) /\ Fits(185, \hB2C1) /\ Fits(186, \hB381) /\ Fits(187, \h7340)
        /\ Fits(188, \hB101) /\ Fits(189, \h71C0) /\ Fits(190, \h7080) /\ Fits(191, \hB041)
    BY DEF Fits, Parity
  <2> QED
    BY <2>1, <2>2
<1>13. \A n \in 192 .. 207 : Fits(n, crc16_table[n + 1])
  <2>1. /\ crc16_table[193] = \h5000 /\ crc16_table[194] = \h90C1 /\ crc16_table[195] = \h9181 /\ crc16_table[196] = \h5140
        /\ crc16_table[197] = \h9301 /\ crc16_table[198] = \h53C0 /\ crc16_table[199] = \h5280 /\ crc16_table[200] = \h9241
        /\ crc16_table[201] = \h9601 /\ crc16_table[202] = \h56C0 /\ crc16_table[203] = \h5780 /\ crc16_table[204] = \h9741
        /\ crc16_table[205] = \h5500 /\ crc16_table[206] = \h95C1 /\ crc16_table[207] = \h9481 /\ crc16_table[208] = \h5440
    BY DEF crc16_table
  <2>2. /\ Fits(192, \h5000) /\ Fits(193, \h90C1) /\ Fits(194, \h9181) /\ Fits(195, \h5140)
        /\ Fits(196, \h9301) /\ Fits(197, \h53C0) /\ Fits(198, \h5280) /\ Fits(199, \h9241)
        /\ Fits(200, \h9601) /\ Fits(201, \h56C0) /\ Fits(202, \h5780) /\ Fits(203, \h9741)
        /\ Fits(204, \h5500) /\ Fits(205, \h95C1) /\ Fits(206, \h9481) /\ Fits(207, \h5440)
    BY DEF Fits, Parity
  <2> QED
    BY <2>1, <2>2
<1>14. \A n \in 208 .. 223 : Fits(n, crc16_table[n + 1])
  <2>1. /\ crc16_table[209] = \h9C01 /\ crc16_table[210] = \h5CC0 /\ crc16_table[211] = \h5D80 /\ crc16_table[212] = \h9D41
        /\ crc16_table[213] = \h5F00 /\ crc16_table[214] = \h9FC1 /\ crc16_table[215] = \h9E81 /\ crc16_table[216] = \h5E40
        /\ crc16_table[217] = \h5A00 /\ crc16_table[218] = \h9AC1 /\ crc16_table[219] = \h9B81 /\ crc16_table[220] = \h5B40
        /\ crc16_table[221] = \h9901 /\ crc16_table[222] = \h59C0 /\ crc16_table[223] = \h5880 /\ crc16_table[224] = \h9841
    BY DEF crc16_table
  <2>2. /\ Fits(208, \h9C01) /\ Fits(209, \h5CC0) /\ Fits(210, \h5D80) /\ Fits(211, \h9D41)
        /\ Fits(212, \h5F00) /\ Fits(213, \h9FC1) /\ Fits(214, \h9E81) /\ Fits(215, \h5E40)
        /\ Fits(216, \h5A00) /\ Fits(217, \h9AC1) /\ Fits(218, \h9B81) /\ Fits(219, \h5B40)
        /\ Fits(220, \h9901) /\ Fits(221, \h59C0) /\ Fits(222, \h5880) /\ Fits(223, \h9841)
    BY DEF Fits, Parity
  <2> QED
    BY <2>1, <2>2
<1>15. \A n \in 224 .. 239 : Fits(n, crc16_table[n + 1])
  <2>1. /\ crc16_table[225] = \h8801 /\ crc16_table[226] = \h48C0 /\ crc16_table[227] = \h4980 /\ crc16_table[228] = \h8941
        /\ crc16_table[229] = \h4B00 /\ crc16_table[230] = \h8BC1 /\ crc16_table[231] = \h8A81 /\ crc16_table[232] = \h4A40
        /\ crc16_table[233] = \h4E00 /\ crc16_table[234] = \h8EC1 /\ crc16_table[235] = \h8F81 /\ crc16_table[236] = \h4F40
        /\ crc16_table[237] = \h8D01 /\ crc16_table[238] = \h4DC0 /\ crc16_table[239] = \h4C80 /\ crc16_table[240] = \h8C41
    BY DEF crc16_table
  <2>2. /\ Fits(224, \h8801) /\ Fits(225, \h48C0) /\ Fits(226, \h4980) /\ Fits(227, \h8941)
        /\ Fits(228, \h4B00) /\ Fits(229, \h8BC1) /\ Fits(230, \h8A81) /\ Fits(231, \h4A40)
        /\ Fits(232, \h4E00) /\ Fits(233, \h8EC1) /\ Fits(234, \h8F81) /\ Fits(235, \h4F40)
        /\ Fits(236, \h8D01) /\ Fits(237, \h4DC0) /\ Fits(238, \h4C80) /\ Fits(239, \h8C41)
    BY DEF Fits, Parity
  <2> QED
    BY <2>1, <2>2
<1>16. \A n \in 240 .. 255 : Fits(n, crc16_table[n + 1])
  <2>1. /\ crc16_table[241] = \h4400 /\ crc16_table[242] = \h84C1 /\ crc16_table[243] = \h8581 /\ crc16_table[244] = \h4540
        /\ crc16_table[245] = \h8701 /\ crc16_table[246] = \h47C0 /\ crc16_table[247] = \h4680 /\ crc16_table[248] = \h8641
        /\ crc16_table[249] = \h8201 /\ crc16_table[250] = \h42C0 /\ crc16_table[251] = \h4380 /\ crc16_table[252] = \h8341
        /\ crc16_table[253] = \h4100 /\ crc16_table[254] = \h81C1 /\ crc16_table[255] = \h8081 /\ crc16_table[256] = \h4040
    BY DEF crc16_table
  <2>2. /\ Fits(240, \h4400) /\ Fits(241, \h84C1) /\ Fits(242, \h8581) /\ Fits(243, \h4540)
        /\ Fits(244, \h8701) /\ Fits(245, \h47C0) /\ Fits(246, \h4680) /\ Fits(247, \h8641)
        /\ Fits(248, \h8201) /\ Fits(249, \h42C0) /\ Fits(250, \h4380) /\ Fits(251, \h8341)
        /\ Fits(252, \h4100) /\ Fits(253, \h81C1) /\ Fits(254, \h8081) /\ Fits(255, \h4040)
    BY DEF Fits, Parity
  <2> QED
    BY <2>1, <2>2
<1> QED
  BY <1>1, <1>2, <1>3, <1>4, <1>5, <1>6, <1>7, <1>8, <1>9,
     <1>10, <1>11, <1>12, <1>13, <1>14, <1>15, <1>16

\* The number of a byte, and its bits.
LEMMA NumberBits ==
  ASSUME NEW S \in SUBSET (0 .. 7)
  PROVE  /\ NumberOf(S) \in 0 .. 255
         /\ NumberOf(S) % 2 = IF 0 \in S THEN 1 ELSE 0
         /\ (NumberOf(S) \div 2) % 2 = IF 1 \in S THEN 1 ELSE 0
         /\ (NumberOf(S) \div 4) % 2 = IF 2 \in S THEN 1 ELSE 0
         /\ (NumberOf(S) \div 8) % 2 = IF 3 \in S THEN 1 ELSE 0
         /\ (NumberOf(S) \div 16) % 2 = IF 4 \in S THEN 1 ELSE 0
         /\ (NumberOf(S) \div 32) % 2 = IF 5 \in S THEN 1 ELSE 0
         /\ (NumberOf(S) \div 64) % 2 = IF 6 \in S THEN 1 ELSE 0
         /\ (NumberOf(S) \div 128) % 2 = IF 7 \in S THEN 1 ELSE 0
<1> DEFINE bit(i) == IF i \in S THEN 2 ^ i ELSE 0
<1>1. /\ 2 ^ 0 = 1 /\ 2 ^ 1 = 2 /\ 2 ^ 2 = 4 /\ 2 ^ 3 = 8
      /\ 2 ^ 4 = 16 /\ 2 ^ 5 = 32 /\ 2 ^ 6 = 64 /\ 2 ^ 7 = 128
  OBVIOUS
<1>2. NumberOf(S) = (IF 0 \in S THEN 1 ELSE 0) + (IF 1 \in S THEN 2 ELSE 0)
                      + (IF 2 \in S THEN 4 ELSE 0) + (IF 3 \in S THEN 8 ELSE 0)
                      + (IF 4 \in S THEN 16 ELSE 0) + (IF 5 \in S THEN 32 ELSE 0)
                      + (IF 6 \in S THEN 64 ELSE 0) + (IF 7 \in S THEN 128 ELSE 0)
  BY <1>1 DEF NumberOf
<1> QED
  BY <1>2

LEMMA BitsOfNumber ==
  ASSUME NEW m \in Nat
  PROVE  /\ BitsOf(m) \in SUBSET (0 .. 15)
         /\ (0 \in BitsOf(m)) = (m % 2 = 1)
         /\ (1 \in BitsOf(m)) = ((m \div 2) % 2 = 1)
         /\ (2 \in BitsOf(m)) = ((m \div 4) % 2 = 1)
         /\ (3 \in BitsOf(m)) = ((m \div 8) % 2 = 1)
         /\ (4 \in BitsOf(m)) = ((m \div 16) % 2 = 1)
         /\ (5 \in BitsOf(m)) = ((m \div 32) % 2 = 1)
         /\ (6 \in BitsOf(m)) = ((m \div 64) % 2 = 1)
         /\ (7 \in BitsOf(m)) = ((m \div 128) % 2 = 1)
         /\ (8 \in BitsOf(m)) = ((m \div 256) % 2 = 1)
         /\ (9 \in BitsOf(m)) = ((m \div 512) % 2 = 1)
         /\ (10 \in BitsOf(m)) = ((m \div 1024) % 2 = 1)
         /\ (11 \in BitsOf(m)) = ((m \div 2048) % 2 = 1)
         /\ (12 \in BitsOf(m)) = ((m \div 4096) % 2 = 1)
         /\ (13 \in BitsOf(m)) = ((m \div 8192) % 2 = 1)
         /\ (14 \in BitsOf(m)) = ((m \div 16384) % 2 = 1)
         /\ (15 \in BitsOf(m)) = ((m \div 32768) % 2 = 1)
<1>1. /\ 2 ^ 0 = 1 /\ 2 ^ 1 = 2 /\ 2 ^ 2 = 4 /\ 2 ^ 3 = 8
      /\ 2 ^ 4 = 16 /\ 2 ^ 5 = 32 /\ 2 ^ 6 = 64 /\ 2 ^ 7 = 128
      /\ 2 ^ 8 = 256 /\ 2 ^ 9 = 512 /\ 2 ^ 10 = 1024 /\ 2 ^ 11 = 2048
      /\ 2 ^ 12 = 4096 /\ 2 ^ 13 = 8192 /\ 2 ^ 14 = 16384 /\ 2 ^ 15 = 32768
  OBVIOUS
<1>2. m \div 1 = m
  OBVIOUS
<1> QED
  BY <1>1, <1>2 DEF BitsOf

\* A number with these bits has the parity of their number.
LEMMA ParityOfByte ==
  ASSUME NEW S \in SUBSET (0 .. 7)
  PROVE  Parity(NumberOf(S)) = IF Odd(S) THEN 1 ELSE 0
<1> DEFINE n == NumberOf(S)
           b(i) == IF i \in S THEN 1 ELSE 0
<1>1. n \in 0 .. 255
  BY NumberBits
<1>2. Parity(n) = (b(0) + b(1) + b(2) + b(3) + b(4) + b(5) + b(6) + b(7)) % 2
  <2>1. /\ n % 2 = b(0) /\ (n \div 2) % 2 = b(1) /\ (n \div 4) % 2 = b(2) /\ (n \div 8) % 2 = b(3)
        /\ (n \div 16) % 2 = b(4) /\ (n \div 32) % 2 = b(5) /\ (n \div 64) % 2 = b(6)
        /\ (n \div 128) % 2 = b(7)
    BY NumberBits
  <2> HIDE DEF n
  <2>2. Parity(n) = ((n % 2) + ((n \div 2) % 2) + ((n \div 4) % 2) + ((n \div 8) % 2)
                       + ((n \div 16) % 2) + ((n \div 32) % 2) + ((n \div 64) % 2)
                       + ((n \div 128) % 2)) % 2
    BY <1>1 DEF Parity
  <2>3. (n % 2) + ((n \div 2) % 2) + ((n \div 4) % 2) + ((n \div 8) % 2)
          + ((n \div 16) % 2) + ((n \div 32) % 2) + ((n \div 64) % 2)
          + ((n \div 128) % 2)
            = b(0) + b(1) + b(2) + b(3) + b(4) + b(5) + b(6) + b(7)
    BY <2>1
  <2> QED
    BY <2>2, <2>3
<1>3. (b(0) + b(1) + b(2) + b(3) + b(4) + b(5) + b(6) + b(7)) % 2 = IF Odd(S) THEN 1 ELSE 0
  BY DEF Odd
<1> QED
  BY <1>2, <1>3

\* The table says what eight bits add to the register.
LEMMA EntryIsAdded ==
  ASSUME NEW S \in SUBSET (0 .. 7)
  PROVE  Entry[S] = Added(S)
<1> DEFINE n == NumberOf(S)
           m == crc16_table[n + 1]
           e == BitsOf(m)
           b(i) == IF i \in S THEN 1 ELSE 0
           o == IF Odd(S) THEN 1 ELSE 0
<1>0. Odd(S) \in BOOLEAN
  BY DEF Odd
<1>1. n \in 0 .. 255
  BY NumberBits
<1>2. Fits(n, m)
  BY <1>1, TableFits
<1>3. Entry[S] = e
  BY DEF Entry
<1>4. /\ n % 2 = b(0) /\ (n \div 2) % 2 = b(1) /\ (n \div 4) % 2 = b(2) /\ (n \div 8) % 2 = b(3)
      /\ (n \div 16) % 2 = b(4) /\ (n \div 32) % 2 = b(5) /\ (n \div 64) % 2 = b(6)
      /\ (n \div 128) % 2 = b(7)
  BY NumberBits
<1>5. Parity(n) = o
  BY ParityOfByte
<1> HIDE DEF n, m
<1>6. /\ n \in Nat /\ n \div 2 \in Nat /\ n \div 4 \in Nat /\ n \div 8 \in Nat
      /\ n \div 16 \in Nat /\ n \div 32 \in Nat /\ n \div 64 \in Nat
      /\ n \div 128 \in Nat /\ Parity(n) \in Nat /\ Parity(n) % 2 = o
  BY <1>1, <1>5
<1>7. /\ m \in Nat
      /\ m % 2 = o /\ (m \div 2) % 2 = 0 /\ (m \div 4) % 2 = 0 /\ (m \div 8) % 2 = 0
      /\ (m \div 16) % 2 = 0 /\ (m \div 32) % 2 = 0 /\ (m \div 64) % 2 = b(0)
      /\ (m \div 32768) % 2 = o
  BY <1>2, <1>4, <1>5 DEF Fits
<1>8. \A x, y \in Nat : (x + y) % 2 = ((x % 2) + (y % 2)) % 2
  OBVIOUS
<1>9. /\ (m \div 128) % 2 = (b(0) + b(1)) % 2
      /\ (m \div 256) % 2 = (b(1) + b(2)) % 2
      /\ (m \div 512) % 2 = (b(2) + b(3)) % 2
      /\ (m \div 1024) % 2 = (b(3) + b(4)) % 2
      /\ (m \div 2048) % 2 = (b(4) + b(5)) % 2
      /\ (m \div 4096) % 2 = (b(5) + b(6)) % 2
      /\ (m \div 8192) % 2 = (b(6) + b(7)) % 2
      /\ (m \div 16384) % 2 = (b(7) + o) % 2
  <2>1. (n + (n \div 2)) % 2 = (b(0) + b(1)) % 2
    BY <1>4, <1>6, <1>8
  <2>2. ((n \div 2) + (n \div 4)) % 2 = (b(1) + b(2)) % 2
    BY <1>4, <1>6, <1>8
  <2>3. ((n \div 4) + (n \div 8)) % 2 = (b(2) + b(3)) % 2
    BY <1>4, <1>6, <1>8
  <2>4. ((n \div 8) + (n \div 16)) % 2 = (b(3) + b(4)) % 2
    BY <1>4, <1>6, <1>8
  <2>5. ((n \div 16) + (n \div 32)) % 2 = (b(4) + b(5)) % 2
    BY <1>4, <1>6, <1>8
  <2>6. ((n \div 32) + (n \div 64)) % 2 = (b(5) + b(6)) % 2
    BY <1>4, <1>6, <1>8
  <2>7. ((n \div 64) + (n \div 128)) % 2 = (b(6) + b(7)) % 2
    BY <1>4, <1>6, <1>8
  <2>8. ((n \div 128) + Parity(n)) % 2 = (b(7) + o) % 2
    BY <1>4, <1>6, <1>8
  <2> HIDE DEF b, o
  <2> QED
    BY <1>2, <2>1, <2>2, <2>3, <2>4, <2>5, <2>6, <2>7, <2>8 DEF Fits
<1>10. /\ e \in SUBSET (0 .. 15)
      /\ (0 \in e) = Odd(S) /\ (1 \in e) = FALSE /\ (2 \in e) = FALSE /\ (3 \in e) = FALSE
      /\ (4 \in e) = FALSE /\ (5 \in e) = FALSE /\ (6 \in e) = (0 \in S)
      /\ (7 \in e) = ((0 \in S) # (1 \in S))
      /\ (8 \in e) = ((1 \in S) # (2 \in S))
      /\ (9 \in e) = ((2 \in S) # (3 \in S))
      /\ (10 \in e) = ((3 \in S) # (4 \in S))
      /\ (11 \in e) = ((4 \in S) # (5 \in S))
      /\ (12 \in e) = ((5 \in S) # (6 \in S))
      /\ (13 \in e) = ((6 \in S) # (7 \in S))
      /\ (14 \in e) = ((7 \in S) # Odd(S))
      /\ (15 \in e) = Odd(S)
  BY <1>0, <1>7, <1>9, BitsOfNumber
<1> HIDE DEF e
<1>11. \A i \in 0 .. 15 : i \in e <=> i \in Added(S)
  BY <1>0, <1>10 DEF Added
<1>12. Added(S) \in SUBSET (0 .. 15)
  BY DEF Added
<1> QED
  BY <1>3, <1>10, <1>11, <1>12

\* TF_CksumAdd takes in a byte as eight bits of the message.
LEMMA CksumAddIsEight ==
  ASSUME NEW c \in SUBSET (0 .. 15), NEW b \in SUBSET (0 .. 7)
  PROVE  /\ CksumAdd(c, b) = Eight(SymDiff(c, b))
         /\ CksumAdd(c, b) \in SUBSET (0 .. 15)
<1> DEFINE d == SymDiff(c, b)
<1>1. d \in SUBSET (0 .. 15)
  BY DEF SymDiff
<1>2. HighByte(d) = HighByte(c)
  <2>1. d \cap 8 .. 15 = c \cap 8 .. 15
    BY DEF SymDiff
  <2> QED
    BY <2>1 DEF HighByte
<1>3. LowByte(d) \in SUBSET (0 .. 7)
  BY DEF LowByte
<1>4. Entry[LowByte(d)] = Added(LowByte(d))
  BY <1>3, EntryIsAdded
<1> HIDE DEF d
<1>5. Eight(d) = SymDiff(HighByte(d), Added(LowByte(d)))
  BY <1>1, EightBits
<1>6. CksumAdd(c, b) = SymDiff(HighByte(d), Added(LowByte(d)))
  BY <1>2, <1>4 DEF CksumAdd, d
<1>7. SymDiff(HighByte(d), Added(LowByte(d))) \in SUBSET (0 .. 15)
  BY <1>1 DEF HighByte, Added, SymDiff
<1> QED
  BY <1>5, <1>6, <1>7 DEF d

-----------------------------------------------------------------------------
(* The checksum of a message, byte by byte.                                *)

RegisterOf(p) == Register(Remainder[p])

LEMMA RegisterOfUp ==
  ASSUME NEW n \in 1 .. Top, NEW p \in SUBSET (0 .. n - 1)
  PROVE  /\ Up(p) \in SUBSET (0 .. n)
         /\ RegisterOf(Up(p)) = Right(RegisterOf(p))
<1>1. Up(p) \in SUBSET (0 .. n)
  BY DEF Up
<1>2. p \in SUBSET (0 .. Top - 1) /\ p \in SUBSET Exponents
  BY TopIsLarge
<1>3. Remainder[p] \in SUBSET (0 .. 15)
  BY <1>2, RemainderIsSmall
<1>4. Remainder[Up(p)] = TimesX(Remainder[p])
  BY <1>2, RemainderOfUp
<1> QED
  BY <1>1, <1>3, <1>4, RightIsTimesX DEF RegisterOf

\* The exponents of a message with a byte more behind it.
UpByte(p) == {e \in Nat : e - 8 \in p}

LEMMA RegisterOfUpByte ==
  ASSUME NEW n \in 8 .. Top, NEW p \in SUBSET (0 .. n - 8)
  PROVE  /\ UpByte(p) \in SUBSET (8 .. n)
         /\ RegisterOf(UpByte(p)) = Eight(RegisterOf(p))
<1> DEFINE p1 == Up(p)
           p2 == Up(p1)
           p3 == Up(p2)
           p4 == Up(p3)
           p5 == Up(p4)
           p6 == Up(p5)
           p7 == Up(p6)
           p8 == Up(p7)
<1>1. /\ n - 7 \in 1 .. Top /\ n - 6 \in 1 .. Top /\ n - 5 \in 1 .. Top /\ n - 4 \in 1 .. Top
      /\ n - 3 \in 1 .. Top /\ n - 2 \in 1 .. Top /\ n - 1 \in 1 .. Top /\ n \in 1 .. Top
      /\ n - 7 - 1 = n - 8 /\ n - 6 - 1 = n - 7 /\ n - 5 - 1 = n - 6 /\ n - 4 - 1 = n - 5
      /\ n - 3 - 1 = n - 4 /\ n - 2 - 1 = n - 3 /\ n - 1 - 1 = n - 2
  BY TopIsLarge
<1>2. UpByte(p) = p8
  <2>1. \A e \in Nat : e \in p8 <=> e - 8 \in p
    BY DEF Up
  <2>2. p8 \in SUBSET Nat
    BY DEF Up
  <2> HIDE DEF p8
  <2> QED
    BY <2>1, <2>2 DEF UpByte
<1> HIDE DEF p1, p2, p3, p4, p5, p6, p7, p8
<1>3. p1 \in SUBSET (0 .. n - 7) /\ RegisterOf(p1) = Right(RegisterOf(p))
  BY <1>1, RegisterOfUp DEF p1
<1>4. p2 \in SUBSET (0 .. n - 6) /\ RegisterOf(p2) = Right(RegisterOf(p1))
  BY <1>1, <1>3, RegisterOfUp DEF p2
<1>5. p3 \in SUBSET (0 .. n - 5) /\ RegisterOf(p3) = Right(RegisterOf(p2))
  BY <1>1, <1>4, RegisterOfUp DEF p3
<1>6. p4 \in SUBSET (0 .. n - 4) /\ RegisterOf(p4) = Right(RegisterOf(p3))
  BY <1>1, <1>5, RegisterOfUp DEF p4
<1>7. p5 \in SUBSET (0 .. n - 3) /\ RegisterOf(p5) = Right(RegisterOf(p4))
  BY <1>1, <1>6, RegisterOfUp DEF p5
<1>8. p6 \in SUBSET (0 .. n - 2) /\ RegisterOf(p6) = Right(RegisterOf(p5))
  BY <1>1, <1>7, RegisterOfUp DEF p6
<1>9. p7 \in SUBSET (0 .. n - 1) /\ RegisterOf(p7) = Right(RegisterOf(p6))
  BY <1>1, <1>8, RegisterOfUp DEF p7
<1>10. p8 \in SUBSET (0 .. n) /\ RegisterOf(p8) = Right(RegisterOf(p7))
  BY <1>1, <1>9, RegisterOfUp DEF p8
<1>11. RegisterOf(p8) = Eight(RegisterOf(p))
  BY <1>3, <1>4, <1>5, <1>6, <1>7, <1>8, <1>9, <1>10 DEF Eight
<1>12. UpByte(p) \in SUBSET (8 .. n)
  BY DEF UpByte
<1> QED
  BY <1>2, <1>11, <1>12

LEMMA RegisterOfIsSmall ==
  ASSUME NEW p \in SUBSET Exponents
  PROVE  RegisterOf(p) \in SUBSET (0 .. 15)
BY RemainderIsSmall, RegisterMembers DEF RegisterOf

LEMMA RegisterOfSums ==
  ASSUME NEW p \in SUBSET Exponents, NEW q \in SUBSET Exponents
  PROVE  RegisterOf(SymDiff(p, q)) = SymDiff(RegisterOf(p), RegisterOf(q))
BY RemainderOfSum, RemainderIsSmall, RegisterOfSum DEF RegisterOf

Messages == {s \in Seq(SUBSET (0 .. 7)) : Len(s) <= MaxLen}

LEMMA PolynomialMembers ==
  ASSUME NEW s \in Messages
  PROVE  /\ \A e : e \in Polynomial(s) <=>
                     \E k \in 1 .. Len(s) : \E i \in s[k] : e = 16 + 8 * (Len(s) - k) + (7 - i)
         /\ Polynomial(s) \in SUBSET (16 .. 8 * Len(s) + 15)
         /\ Polynomial(s) \in SUBSET Exponents
<1>1. s \in Seq(SUBSET (0 .. 7)) /\ Len(s) \in Nat /\ Len(s) <= MaxLen /\ DOMAIN s = 1 .. Len(s)
  BY DEF Messages
<1>2. \A e : e \in Polynomial(s) <=>
               \E k \in 1 .. Len(s) : \E i \in s[k] : e = 16 + 8 * (Len(s) - k) + (7 - i)
  BY <1>1 DEF Polynomial
<1>3. \A k \in 1 .. Len(s) : s[k] \in SUBSET (0 .. 7)
  BY <1>1
<1>4. ASSUME NEW k \in 1 .. Len(s), NEW i \in 0 .. 7
      PROVE  16 + 8 * (Len(s) - k) + (7 - i) \in 16 .. 8 * Len(s) + 15
  BY <1>1
<1>5. Polynomial(s) \in SUBSET (16 .. 8 * Len(s) + 15)
  <2>1. ASSUME NEW e \in Polynomial(s)
        PROVE  e \in 16 .. 8 * Len(s) + 15
    <3>1. PICK k \in 1 .. Len(s) : \E i \in s[k] : e = 16 + 8 * (Len(s) - k) + (7 - i)
      BY <1>2
    <3>2. PICK i \in s[k] : e = 16 + 8 * (Len(s) - k) + (7 - i)
      BY <3>1
    <3>3. i \in 0 .. 7
      BY <1>3
    <3> QED
      BY <1>4, <3>2, <3>3
  <2> QED
    BY <2>1
<1>6. 16 .. 8 * Len(s) + 15 \subseteq Exponents
  BY <1>1, TopIsLarge DEF Top
<1> QED
  BY <1>2, <1>5, <1>6

\* The exponents of the last byte before the checksum has its room.
Behind(b) == {e \in 0 .. 15 : 15 - e \in b}

LEMMA PolynomialOfAppend ==
  ASSUME NEW s \in Messages, Len(s) < MaxLen, NEW b \in SUBSET (0 .. 7)
  PROVE  /\ Append(s, b) \in Messages /\ Len(Append(s, b)) = Len(s) + 1
         /\ Polynomial(Append(s, b)) = UpByte(SymDiff(Polynomial(s), Behind(b)))
<1> DEFINE t == Append(s, b)
           n == Len(s)
<1>1. /\ t \in Messages /\ Len(t) = n + 1 /\ n \in Nat
      /\ t[n + 1] = b /\ \A k \in 1 .. n : t[k] = s[k]
  BY TopIsLarge DEF Messages
<1>2. ASSUME NEW e \in Nat
      PROVE  e \in Polynomial(t) <=> e - 8 \in Polynomial(s) \/ e - 8 \in Behind(b)
  <2>1. e \in Polynomial(t) <=> \E k \in 1 .. n + 1 : \E i \in t[k] : e = 16 + 8 * (n + 1 - k) + (7 - i)
    <3> DEFINE At(m, l) == \E k \in 1 .. l : \E i \in m[k] : e = 16 + 8 * (l - k) + (7 - i)
    <3>1. t \in Messages /\ Len(t) = n + 1
      BY <1>1
    <3>2. \A m \in Messages : e \in Polynomial(m) <=> At(m, Len(m))
      BY PolynomialMembers
    <3>3. At(t, n + 1) <=> \E k \in 1 .. n + 1 : \E i \in t[k] : e = 16 + 8 * (n + 1 - k) + (7 - i)
      OBVIOUS
    <3> HIDE DEF t, n, At
    <3>4. e \in Polynomial(t) <=> At(t, n + 1)
      BY <3>1, <3>2
    <3> QED
      BY <3>3, <3>4, Zenon
  <2>2. e - 8 \in Polynomial(s) <=> \E k \in 1 .. n : \E i \in s[k] : e - 8 = 16 + 8 * (n - k) + (7 - i)
    BY PolynomialMembers
  <2>3. \A k \in 1 .. n, i \in 0 .. 7 :
          e = 16 + 8 * (n + 1 - k) + (7 - i) <=> e - 8 = 16 + 8 * (n - k) + (7 - i)
    BY <1>1
  <2>4. \A k \in 1 .. n : s[k] \in SUBSET (0 .. 7)
    BY DEF Messages
  <2>5. e - 8 \in Behind(b) <=> \E i \in b : e = 16 + 8 * (n + 1 - (n + 1)) + (7 - i)
    <3>1. \A i \in b : e = 16 + 8 * (n + 1 - (n + 1)) + (7 - i) <=> i = 15 - (e - 8)
      BY <1>1
    <3>2. e - 8 \in Behind(b) <=> 15 - (e - 8) \in b
      BY DEF Behind
    <3> QED
      BY <3>1, <3>2
  <2>6. 1 .. n + 1 = (1 .. n) \cup {n + 1}
    BY <1>1
  <2> DEFINE Here(k, i) == e = 16 + 8 * (n + 1 - k) + (7 - i)
  <2>7. \A k \in 1 .. n : \A i \in s[k] : Here(k, i) <=> e - 8 = 16 + 8 * (n - k) + (7 - i)
    BY <2>3, <2>4
  <2>8. e - 8 \in Behind(b) <=> \E i \in b : Here(n + 1, i)
    BY <2>5
  <2>9. e \in Polynomial(t) <=> \E k \in 1 .. n + 1 : \E i \in t[k] : Here(k, i)
    BY <2>1
  <2> HIDE DEF t, n, Here
  <2>10. (\E k \in 1 .. n : \E i \in s[k] : Here(k, i)) <=> e - 8 \in Polynomial(s)
    BY <2>2, <2>7
  <2>11. (\E k \in 1 .. n + 1 : \E i \in t[k] : Here(k, i))
           <=> (\E k \in 1 .. n : \E i \in s[k] : Here(k, i)) \/ (\E i \in b : Here(n + 1, i))
    BY <1>1, <2>6
  <2> QED
    BY <2>8, <2>9, <2>10, <2>11
<1>3. \A e \in Nat : ~(e \in Polynomial(s) /\ e \in Behind(b))
  BY PolynomialMembers DEF Behind
<1>4. Polynomial(t) \in SUBSET Nat
  BY <1>1, PolynomialMembers, TopIsLarge
<1>5. ASSUME NEW e \in Nat
      PROVE  e \in Polynomial(t) <=> e - 8 \in SymDiff(Polynomial(s), Behind(b))
  <2>1. ~(e - 8 \in Polynomial(s) /\ e - 8 \in Behind(b))
    BY <1>3 DEF Behind
  <2> QED
    BY <1>2, <2>1 DEF SymDiff
<1> HIDE DEF t
<1>6. Polynomial(t) = UpByte(SymDiff(Polynomial(s), Behind(b)))
  BY <1>4, <1>5 DEF UpByte
<1> QED
  BY <1>1, <1>6 DEF t

LEMMA CrcOfAppend ==
  ASSUME NEW s \in Messages, Len(s) < MaxLen, NEW b \in SUBSET (0 .. 7)
  PROVE  /\ Crc(s) \in SUBSET (0 .. 15)
         /\ Crc(Append(s, b)) = CksumAdd(Crc(s), b)
<1> DEFINE p == SymDiff(Polynomial(s), Behind(b))
           n == 8 * Len(s) + 15
<1>1. Len(s) \in Nat /\ n + 8 \in 8 .. Top
  BY TopIsLarge DEF Messages, Top
<1>2. /\ Polynomial(s) \in SUBSET (0 .. n) /\ Behind(b) \in SUBSET (0 .. 15)
      /\ Polynomial(s) \in SUBSET Exponents /\ Behind(b) \in SUBSET Exponents
  <2>1. Behind(b) \in SUBSET (0 .. 15)
    BY DEF Behind
  <2>2. Polynomial(s) \in SUBSET (16 .. n) /\ Polynomial(s) \in SUBSET Exponents
    BY PolynomialMembers
  <2>3. 16 .. n \subseteq 0 .. n /\ 0 .. 15 \subseteq 0 .. n /\ 0 .. 15 \subseteq Exponents
    BY <1>1, TopIsLarge
  <2> HIDE DEF n
  <2> QED
    BY <2>1, <2>2, <2>3
<1>3. p \in SUBSET (0 .. n)
  <2>1. 0 .. 15 \subseteq 0 .. n
    BY <1>1
  <2> HIDE DEF n
  <2> QED
    BY <1>2, <2>1 DEF SymDiff
<1>4. RegisterOf(UpByte(p)) = Eight(RegisterOf(p))
  <2>1. \A m \in 8 .. Top : \A q \in SUBSET (0 .. m - 8) : RegisterOf(UpByte(q)) = Eight(RegisterOf(q))
    BY RegisterOfUpByte
  <2>2. (n + 8) - 8 = n
    BY <1>1
  <2> HIDE DEF p, n
  <2>3. p \in SUBSET (0 .. (n + 8) - 8)
    BY <1>3, <2>2
  <2> QED
    BY <1>1, <2>1, <2>3
<1>5. RegisterOf(p) = SymDiff(RegisterOf(Polynomial(s)), RegisterOf(Behind(b)))
  BY <1>2, RegisterOfSums
<1>6. RegisterOf(Behind(b)) = b
  <2>1. Remainder[Behind(b)] = Behind(b)
    BY <1>2, RemainderOfSmall
  <2>2. \A i \in 0 .. 15 : i \in Register(Behind(b)) <=> i \in b
    <3>1. \A i \in 0 .. 15 : i \in Register(Behind(b)) <=> 15 - i \in Behind(b)
      BY <1>2, RegisterMembers
    <3>2. \A i \in 0 .. 15 : 15 - i \in Behind(b) <=> i \in b
      BY DEF Behind
    <3> QED
      BY <3>1, <3>2
  <2>3. Register(Behind(b)) \in SUBSET (0 .. 15)
    BY <1>2, RegisterMembers
  <2>4. Register(Behind(b)) = b
    <3>1. b \in SUBSET (0 .. 15)
      OBVIOUS
    <3> QED
      BY <2>2, <2>3, <3>1
  <2> QED
    BY <2>1, <2>4 DEF RegisterOf
<1>7. \A m : Crc(m) = RegisterOf(Polynomial(m))
  BY DEF Crc, RegisterOf, Register
<1>8. Crc(s) \in SUBSET (0 .. 15)
  BY <1>2, <1>7, RegisterOfIsSmall
<1>9. Polynomial(Append(s, b)) = UpByte(p)
  BY PolynomialOfAppend
<1>10. Crc(Append(s, b)) = Eight(SymDiff(Crc(s), b))
  BY <1>4, <1>5, <1>6, <1>7, <1>9
<1> QED
  BY <1>8, <1>10, CksumAddIsEight

LEMMA CrcOfNothing == <<>> \in Messages /\ Polynomial(<<>>) = {} /\ Crc(<<>>) = {}
<1>1. <<>> \in Messages
  BY TopIsLarge DEF Messages
<1>2. Polynomial(<<>>) = {}
  BY DEF Polynomial
<1>3. Remainder[{}] = {}
  BY RemainderOfSmall
<1> QED
  BY <1>1, <1>2, <1>3 DEF Crc

-----------------------------------------------------------------------------
(* No power of x but the first has remainder 1: the generator finds any two  *)
(* bits, however far apart they are in a frame. In steps of sixteen bits the *)
(* register of a single bit never becomes one of those that less than        *)
(* sixteen bits more would make the register of the last bit again.          *)

\* Sixteen bits more, as the register sees them.
All(c) == Odd(c) # ((((8 \in c) # (9 \in c)) # ((10 \in c) # (11 \in c)))
                     # (((12 \in c) # (13 \in c)) # ((14 \in c) # (15 \in c))))

LEMMA EightMembers ==
  ASSUME NEW c \in SUBSET (0 .. 15)
  PROVE  /\ Eight(c) \in SUBSET (0 .. 15)
         /\ (0 \in Eight(c)) = ((8 \in c) # Odd(c))
         /\ (1 \in Eight(c)) = (9 \in c)
         /\ (2 \in Eight(c)) = (10 \in c)
         /\ (3 \in Eight(c)) = (11 \in c)
         /\ (4 \in Eight(c)) = (12 \in c)
         /\ (5 \in Eight(c)) = (13 \in c)
         /\ (6 \in Eight(c)) = ((14 \in c) # (0 \in c))
         /\ (7 \in Eight(c)) = ((15 \in c) # ((0 \in c) # (1 \in c)))
         /\ (8 \in Eight(c)) = ((1 \in c) # (2 \in c))
         /\ (9 \in Eight(c)) = ((2 \in c) # (3 \in c))
         /\ (10 \in Eight(c)) = ((3 \in c) # (4 \in c))
         /\ (11 \in Eight(c)) = ((4 \in c) # (5 \in c))
         /\ (12 \in Eight(c)) = ((5 \in c) # (6 \in c))
         /\ (13 \in Eight(c)) = ((6 \in c) # (7 \in c))
         /\ (14 \in Eight(c)) = ((7 \in c) # Odd(c))
         /\ (15 \in Eight(c)) = Odd(c)
<1>1. Eight(c) = SymDiff(HighByte(c), Added(LowByte(c)))
  BY EightBits
<1>2. /\ HighByte(c) \in SUBSET (0 .. 7)
      /\ \A j \in 0 .. 7 : j \in HighByte(c) <=> j + 8 \in c
  BY DEF HighByte
<1>3. /\ LowByte(c) \in SUBSET (0 .. 7)
      /\ \A j \in 0 .. 7 : (j \in LowByte(c)) = (j \in c)
  BY DEF LowByte
<1>4. Odd(LowByte(c)) = Odd(c)
  BY <1>3 DEF Odd
<1>5. Odd(c) \in BOOLEAN
  BY DEF Odd
<1>6. /\ Added(LowByte(c)) \in SUBSET (0 .. 15)
      /\ \A j \in 0 .. 15 :
           (j \in Added(LowByte(c)))
             = (((j - 6 \in LowByte(c)) # (j - 7 \in LowByte(c))) # (Odd(c) /\ j \in {0, 14, 15}))
  BY <1>4 DEF Added
<1>7. \A j \in 0 .. 15 : (j \in Eight(c)) = ((j \in HighByte(c)) # (j \in Added(LowByte(c))))
  BY <1>1 DEF SymDiff
<1>8. Eight(c) \in SUBSET (0 .. 15)
  BY <1>1, <1>2, <1>6 DEF SymDiff
<1> QED
  BY <1>2, <1>3, <1>5, <1>6, <1>7, <1>8

LEMMA SixteenMembers ==
  ASSUME NEW c \in SUBSET (0 .. 15)
  PROVE  /\ Eight(Eight(c)) \in SUBSET (0 .. 15)
         /\ (0 \in Eight(Eight(c))) = (All(c) # (2 \in c))
         /\ (1 \in Eight(Eight(c))) = ((2 \in c) # (3 \in c))
         /\ (2 \in Eight(Eight(c))) = ((3 \in c) # (4 \in c))
         /\ (3 \in Eight(Eight(c))) = ((4 \in c) # (5 \in c))
         /\ (4 \in Eight(Eight(c))) = ((5 \in c) # (6 \in c))
         /\ (5 \in Eight(Eight(c))) = ((6 \in c) # (7 \in c))
         /\ (6 \in Eight(Eight(c))) = ((7 \in c) # (8 \in c))
         /\ (7 \in Eight(Eight(c))) = ((8 \in c) # (9 \in c))
         /\ (8 \in Eight(Eight(c))) = ((9 \in c) # (10 \in c))
         /\ (9 \in Eight(Eight(c))) = ((10 \in c) # (11 \in c))
         /\ (10 \in Eight(Eight(c))) = ((11 \in c) # (12 \in c))
         /\ (11 \in Eight(Eight(c))) = ((12 \in c) # (13 \in c))
         /\ (12 \in Eight(Eight(c))) = ((0 \in c) # ((13 \in c) # (14 \in c)))
         /\ (13 \in Eight(Eight(c))) = ((1 \in c) # ((14 \in c) # (15 \in c)))
         /\ (14 \in Eight(Eight(c))) = (All(c) # ((0 \in c) # (15 \in c)))
         /\ (15 \in Eight(Eight(c))) = (All(c) # (1 \in c))
<1> DEFINE z == Eight(c)
           odd == Odd(c)
           high == (((8 \in c) # (9 \in c)) # ((10 \in c) # (11 \in c)))
                     # (((12 \in c) # (13 \in c)) # ((14 \in c) # (15 \in c)))
<1>1. odd \in BOOLEAN /\ high \in BOOLEAN /\ All(c) = (odd # high)
  BY DEF All, Odd
<1>2. /\ z \in SUBSET (0 .. 15)
      /\ (0 \in z) = ((8 \in c) # odd)
      /\ (1 \in z) = (9 \in c)
      /\ (2 \in z) = (10 \in c)
      /\ (3 \in z) = (11 \in c)
      /\ (4 \in z) = (12 \in c)
      /\ (5 \in z) = (13 \in c)
      /\ (6 \in z) = ((14 \in c) # (0 \in c))
      /\ (7 \in z) = ((15 \in c) # ((0 \in c) # (1 \in c)))
      /\ (8 \in z) = ((1 \in c) # (2 \in c))
      /\ (9 \in z) = ((2 \in c) # (3 \in c))
      /\ (10 \in z) = ((3 \in c) # (4 \in c))
      /\ (11 \in z) = ((4 \in c) # (5 \in c))
      /\ (12 \in z) = ((5 \in c) # (6 \in c))
      /\ (13 \in z) = ((6 \in c) # (7 \in c))
      /\ (14 \in z) = ((7 \in c) # odd)
      /\ (15 \in z) = odd
  BY EightMembers
<1> HIDE DEF z, odd
<1>3. /\ Eight(z) \in SUBSET (0 .. 15)
      /\ (0 \in Eight(z)) = ((8 \in z) # Odd(z))
      /\ (1 \in Eight(z)) = (9 \in z)
      /\ (2 \in Eight(z)) = (10 \in z)
      /\ (3 \in Eight(z)) = (11 \in z)
      /\ (4 \in Eight(z)) = (12 \in z)
      /\ (5 \in Eight(z)) = (13 \in z)
      /\ (6 \in Eight(z)) = ((14 \in z) # (0 \in z))
      /\ (7 \in Eight(z)) = ((15 \in z) # ((0 \in z) # (1 \in z)))
      /\ (8 \in Eight(z)) = ((1 \in z) # (2 \in z))
      /\ (9 \in Eight(z)) = ((2 \in z) # (3 \in z))
      /\ (10 \in Eight(z)) = ((3 \in z) # (4 \in z))
      /\ (11 \in Eight(z)) = ((4 \in z) # (5 \in z))
      /\ (12 \in Eight(z)) = ((5 \in z) # (6 \in z))
      /\ (13 \in Eight(z)) = ((6 \in z) # (7 \in z))
      /\ (14 \in Eight(z)) = ((7 \in z) # Odd(z))
      /\ (15 \in Eight(z)) = Odd(z)
  BY <1>2, EightMembers
<1>4. Odd(z) = ((odd # high) # (1 \in c))
  BY <1>1, <1>2 DEF Odd
<1> HIDE DEF high
<1> QED
  BY <1>1, <1>2, <1>3, <1>4 DEF z


-----------------------------------------------------------------------------
(* The same for registers as numbers.                                      *)

Ones(m) == (m + (m \div 2) + (m \div 4) + (m \div 8) + (m \div 16) + (m \div 32)
              + (m \div 64) + (m \div 128) + (m \div 256) + (m \div 512) + (m \div 1024)
              + (m \div 2048) + (m \div 4096) + (m \div 8192) + (m \div 16384)
              + (m \div 32768)) % 2

\* Sixteen bits after m the register is n.
Follows(m, n) ==
  /\ m \in Nat /\ n \in Nat
  /\ n % 2 = (Ones(m) + (m \div 4)) % 2
  /\ (n \div 2) % 2 = ((m \div 4) + (m \div 8)) % 2
  /\ (n \div 4) % 2 = ((m \div 8) + (m \div 16)) % 2
  /\ (n \div 8) % 2 = ((m \div 16) + (m \div 32)) % 2
  /\ (n \div 16) % 2 = ((m \div 32) + (m \div 64)) % 2
  /\ (n \div 32) % 2 = ((m \div 64) + (m \div 128)) % 2
  /\ (n \div 64) % 2 = ((m \div 128) + (m \div 256)) % 2
  /\ (n \div 128) % 2 = ((m \div 256) + (m \div 512)) % 2
  /\ (n \div 256) % 2 = ((m \div 512) + (m \div 1024)) % 2
  /\ (n \div 512) % 2 = ((m \div 1024) + (m \div 2048)) % 2
  /\ (n \div 1024) % 2 = ((m \div 2048) + (m \div 4096)) % 2
  /\ (n \div 2048) % 2 = ((m \div 4096) + (m \div 8192)) % 2
  /\ (n \div 4096) % 2 = (m + (m \div 8192) + (m \div 16384)) % 2
  /\ (n \div 8192) % 2 = ((m \div 2) + (m \div 16384) + (m \div 32768)) % 2
  /\ (n \div 16384) % 2 = (Ones(m) + m + (m \div 32768)) % 2
  /\ (n \div 32768) % 2 = (Ones(m) + (m \div 2)) % 2

\* One bit after m the register is n.
FollowsClosely(m, n) ==
  /\ m \in Nat /\ n \in Nat
  /\ n % 2 = ((m \div 2) + m) % 2
  /\ (n \div 2) % 2 = (m \div 4) % 2
  /\ (n \div 4) % 2 = (m \div 8) % 2
  /\ (n \div 8) % 2 = (m \div 16) % 2
  /\ (n \div 16) % 2 = (m \div 32) % 2
  /\ (n \div 32) % 2 = (m \div 64) % 2
  /\ (n \div 64) % 2 = (m \div 128) % 2
  /\ (n \div 128) % 2 = (m \div 256) % 2
  /\ (n \div 256) % 2 = (m \div 512) % 2
  /\ (n \div 512) % 2 = (m \div 1024) % 2
  /\ (n \div 1024) % 2 = (m \div 2048) % 2
  /\ (n \div 2048) % 2 = (m \div 4096) % 2
  /\ (n \div 4096) % 2 = (m \div 8192) % 2
  /\ (n \div 8192) % 2 = ((m \div 16384) + m) % 2
  /\ (n \div 16384) % 2 = (m \div 32768) % 2
  /\ (n \div 32768) % 2 = m % 2

LEMMA SixteenOfNumber ==
  ASSUME NEW m, NEW n, Follows(m, n)
  PROVE  Eight(Eight(BitsOf(m))) = BitsOf(n)
<1> DEFINE c == BitsOf(m)
           d == BitsOf(n)
           b(i) == IF i \in c THEN 1 ELSE 0
           o == IF All(c) THEN 1 ELSE 0
<1>1. m \in Nat /\ n \in Nat
  BY DEF Follows
<1>2. c \in SUBSET (0 .. 15) /\ d \in SUBSET (0 .. 15) /\ All(c) \in BOOLEAN
  BY <1>1, BitsOfNumber DEF All
<1>3. /\ m % 2 = b(0) /\ (m \div 2) % 2 = b(1) /\ (m \div 4) % 2 = b(2) /\ (m \div 8) % 2 = b(3)
      /\ (m \div 16) % 2 = b(4) /\ (m \div 32) % 2 = b(5) /\ (m \div 64) % 2 = b(6) /\ (m \div 128) % 2 = b(7)
      /\ (m \div 256) % 2 = b(8) /\ (m \div 512) % 2 = b(9) /\ (m \div 1024) % 2 = b(10) /\ (m \div 2048) % 2 = b(11)
      /\ (m \div 4096) % 2 = b(12) /\ (m \div 8192) % 2 = b(13) /\ (m \div 16384) % 2 = b(14) /\ (m \div 32768) % 2 = b(15)
  BY <1>1, BitsOfNumber
<1>4. /\ m \in Nat /\ (m \div 2) \in Nat /\ (m \div 4) \in Nat /\ (m \div 8) \in Nat
      /\ (m \div 16) \in Nat /\ (m \div 32) \in Nat /\ (m \div 64) \in Nat /\ (m \div 128) \in Nat
      /\ (m \div 256) \in Nat /\ (m \div 512) \in Nat /\ (m \div 1024) \in Nat /\ (m \div 2048) \in Nat
      /\ (m \div 4096) \in Nat /\ (m \div 8192) \in Nat /\ (m \div 16384) \in Nat /\ (m \div 32768) \in Nat
  BY <1>1
<1>5. Ones(m) \in Nat /\ Ones(m) % 2 = o
  <2>1. Ones(m) = ((m % 2) + ((m \div 2) % 2) + ((m \div 4) % 2) + ((m \div 8) % 2)
                     + ((m \div 16) % 2) + ((m \div 32) % 2) + ((m \div 64) % 2) + ((m \div 128) % 2)
                     + ((m \div 256) % 2) + ((m \div 512) % 2) + ((m \div 1024) % 2) + ((m \div 2048) % 2)
                     + ((m \div 4096) % 2) + ((m \div 8192) % 2) + ((m \div 16384) % 2) + ((m \div 32768) % 2)) % 2
    BY <1>1 DEF Ones
  <2>2. Ones(m) = (b(0) + b(1) + b(2) + b(3) + b(4) + b(5) + b(6) + b(7)
                     + b(8) + b(9) + b(10) + b(11) + b(12) + b(13) + b(14) + b(15)) % 2
    <3> HIDE DEF c, b
    <3>1. (m % 2) + ((m \div 2) % 2) + ((m \div 4) % 2) + ((m \div 8) % 2) + ((m \div 16) % 2)
            + ((m \div 32) % 2) + ((m \div 64) % 2) + ((m \div 128) % 2) + ((m \div 256) % 2) + ((m \div 512) % 2)
            + ((m \div 1024) % 2) + ((m \div 2048) % 2) + ((m \div 4096) % 2) + ((m \div 8192) % 2) + ((m \div 16384) % 2) + ((m \div 32768) % 2) = b(0) + b(1) + b(2) + b(3) + b(4) + b(5) + b(6) + b(7)
            + b(8) + b(9) + b(10) + b(11) + b(12) + b(13) + b(14) + b(15)
      BY <1>3
    <3> QED
      BY <2>1, <3>1
  <2>3. (b(0) + b(1) + b(2) + b(3) + b(4) + b(5) + b(6) + b(7)) % 2 = IF Odd(c) THEN 1 ELSE 0
    BY DEF Odd
  <2>4. (b(8) + b(9) + b(10) + b(11) + b(12) + b(13) + b(14) + b(15)) % 2
          = IF (((8 \in c) # (9 \in c)) # ((10 \in c) # (11 \in c)))
                 # (((12 \in c) # (13 \in c)) # ((14 \in c) # (15 \in c))) THEN 1 ELSE 0
    OBVIOUS
  <2>5. \A x, y \in Nat : (x + y) % 2 = ((x % 2) + (y % 2)) % 2
    OBVIOUS
  <2> DEFINE low == b(0) + b(1) + b(2) + b(3) + b(4) + b(5) + b(6) + b(7)
             high == b(8) + b(9) + b(10) + b(11) + b(12) + b(13) + b(14) + b(15)
  <2>6. low \in Nat /\ high \in Nat /\ Ones(m) = (low + high) % 2
    BY <2>2
  <2>7. /\ low % 2 = IF Odd(c) THEN 1 ELSE 0
        /\ high % 2 = IF (((8 \in c) # (9 \in c)) # ((10 \in c) # (11 \in c)))
                          # (((12 \in c) # (13 \in c)) # ((14 \in c) # (15 \in c))) THEN 1 ELSE 0
    BY <2>3, <2>4
  <2> HIDE DEF low, high, c
  <2>8. Ones(m) = ((low % 2) + (high % 2)) % 2
    BY <2>5, <2>6
  <2>9. Odd(c) \in BOOLEAN
    BY DEF Odd
  <2>10. Ones(m) = o
    BY <2>7, <2>8, <2>9 DEF All
  <2> QED
    BY <2>10
<1> HIDE DEF c
<1>6. \A x, y \in Nat : (x + y) % 2 = ((x % 2) + (y % 2)) % 2
  OBVIOUS
<1>7. /\ (Ones(m) + (m \div 4)) % 2 = (o + b(2)) % 2
      /\ ((m \div 4) + (m \div 8)) % 2 = (b(2) + b(3)) % 2
      /\ ((m \div 8) + (m \div 16)) % 2 = (b(3) + b(4)) % 2
      /\ ((m \div 16) + (m \div 32)) % 2 = (b(4) + b(5)) % 2
      /\ ((m \div 32) + (m \div 64)) % 2 = (b(5) + b(6)) % 2
      /\ ((m \div 64) + (m \div 128)) % 2 = (b(6) + b(7)) % 2
      /\ ((m \div 128) + (m \div 256)) % 2 = (b(7) + b(8)) % 2
      /\ ((m \div 256) + (m \div 512)) % 2 = (b(8) + b(9)) % 2
      /\ ((m \div 512) + (m \div 1024)) % 2 = (b(9) + b(10)) % 2
      /\ ((m \div 1024) + (m \div 2048)) % 2 = (b(10) + b(11)) % 2
      /\ ((m \div 2048) + (m \div 4096)) % 2 = (b(11) + b(12)) % 2
      /\ ((m \div 4096) + (m \div 8192)) % 2 = (b(12) + b(13)) % 2
      /\ (Ones(m) + (m \div 2)) % 2 = (o + b(1)) % 2
  <2>1. (Ones(m) + (m \div 4)) % 2 = (o + b(2)) % 2
    <3>1. Ones(m) % 2 = o /\ (m \div 4) % 2 = b(2)
      BY <1>3, <1>5
    <3> HIDE DEF b, o
    <3> QED
      BY <1>4, <1>5, <3>1, <1>6
  <2>2. ((m \div 4) + (m \div 8)) % 2 = (b(2) + b(3)) % 2
    BY <1>3, <1>4, <1>5, <1>6
  <2>3. ((m \div 8) + (m \div 16)) % 2 = (b(3) + b(4)) % 2
    BY <1>3, <1>4, <1>5, <1>6
  <2>4. ((m \div 16) + (m \div 32)) % 2 = (b(4) + b(5)) % 2
    BY <1>3, <1>4, <1>5, <1>6
  <2>5. ((m \div 32) + (m \div 64)) % 2 = (b(5) + b(6)) % 2
    BY <1>3, <1>4, <1>5, <1>6
  <2>6. ((m \div 64) + (m \div 128)) % 2 = (b(6) + b(7)) % 2
    BY <1>3, <1>4, <1>5, <1>6
  <2>7. ((m \div 128) + (m \div 256)) % 2 = (b(7) + b(8)) % 2
    BY <1>3, <1>4, <1>5, <1>6
  <2>8. ((m \div 256) + (m \div 512)) % 2 = (b(8) + b(9)) % 2
    BY <1>3, <1>4, <1>5, <1>6
  <2>9. ((m \div 512) + (m \div 1024)) % 2 = (b(9) + b(10)) % 2
    BY <1>3, <1>4, <1>5, <1>6
  <2>10. ((m \div 1024) + (m \div 2048)) % 2 = (b(10) + b(11)) % 2
    BY <1>3, <1>4, <1>5, <1>6
  <2>11. ((m \div 2048) + (m \div 4096)) % 2 = (b(11) + b(12)) % 2
    BY <1>3, <1>4, <1>5, <1>6
  <2>12. ((m \div 4096) + (m \div 8192)) % 2 = (b(12) + b(13)) % 2
    BY <1>3, <1>4, <1>5, <1>6
  <2>13. (Ones(m) + (m \div 2)) % 2 = (o + b(1)) % 2
    <3>1. Ones(m) % 2 = o /\ (m \div 2) % 2 = b(1)
      BY <1>3, <1>5
    <3> HIDE DEF b, o
    <3> QED
      BY <1>4, <1>5, <3>1, <1>6
  <2> QED
    BY <2>1, <2>2, <2>3, <2>4, <2>5, <2>6, <2>7, <2>8, <2>9, <2>10, <2>11, <2>12, <2>13
<1>8. \A x, y, z \in Nat : (x + y + z) % 2 = ((x % 2) + (y % 2) + (z % 2)) % 2
  OBVIOUS
<1>9. /\ (m + (m \div 8192) + (m \div 16384)) % 2 = (b(0) + b(13) + b(14)) % 2
      /\ ((m \div 2) + (m \div 16384) + (m \div 32768)) % 2 = (b(1) + b(14) + b(15)) % 2
      /\ (Ones(m) + m + (m \div 32768)) % 2 = (o + b(0) + b(15)) % 2
  <2>1. (m + (m \div 8192) + (m \div 16384)) % 2 = (b(0) + b(13) + b(14)) % 2
    BY <1>3, <1>4, <1>5, <1>8
  <2>2. ((m \div 2) + (m \div 16384) + (m \div 32768)) % 2 = (b(1) + b(14) + b(15)) % 2
    BY <1>3, <1>4, <1>5, <1>8
  <2>3. (Ones(m) + m + (m \div 32768)) % 2 = (o + b(0) + b(15)) % 2
    <3>1. Ones(m) % 2 = o /\ m % 2 = b(0) /\ (m \div 32768) % 2 = b(15)
      BY <1>3, <1>5
    <3> HIDE DEF b, o
    <3> QED
      BY <1>4, <1>5, <3>1, <1>8
  <2> QED
    BY <2>1, <2>2, <2>3
<1> HIDE DEF b, o
<1>10. /\ n % 2 = (o + b(2)) % 2
       /\ (n \div 2) % 2 = (b(2) + b(3)) % 2
       /\ (n \div 4) % 2 = (b(3) + b(4)) % 2
       /\ (n \div 8) % 2 = (b(4) + b(5)) % 2
       /\ (n \div 16) % 2 = (b(5) + b(6)) % 2
       /\ (n \div 32) % 2 = (b(6) + b(7)) % 2
       /\ (n \div 64) % 2 = (b(7) + b(8)) % 2
       /\ (n \div 128) % 2 = (b(8) + b(9)) % 2
       /\ (n \div 256) % 2 = (b(9) + b(10)) % 2
       /\ (n \div 512) % 2 = (b(10) + b(11)) % 2
       /\ (n \div 1024) % 2 = (b(11) + b(12)) % 2
       /\ (n \div 2048) % 2 = (b(12) + b(13)) % 2
       /\ (n \div 4096) % 2 = (b(0) + b(13) + b(14)) % 2
       /\ (n \div 8192) % 2 = (b(1) + b(14) + b(15)) % 2
       /\ (n \div 16384) % 2 = (o + b(0) + b(15)) % 2
       /\ (n \div 32768) % 2 = (o + b(1)) % 2
  <2>1. n % 2 = (o + b(2)) % 2
    BY <1>7 DEF Follows
  <2>2. (n \div 2) % 2 = (b(2) + b(3)) % 2
    BY <1>7 DEF Follows
  <2>3. (n \div 4) % 2 = (b(3) + b(4)) % 2
    BY <1>7 DEF Follows
  <2>4. (n \div 8) % 2 = (b(4) + b(5)) % 2
    BY <1>7 DEF Follows
  <2>5. (n \div 16) % 2 = (b(5) + b(6)) % 2
    BY <1>7 DEF Follows
  <2>6. (n \div 32) % 2 = (b(6) + b(7)) % 2
    BY <1>7 DEF Follows
  <2>7. (n \div 64) % 2 = (b(7) + b(8)) % 2
    BY <1>7 DEF Follows
  <2>8. (n \div 128) % 2 = (b(8) + b(9)) % 2
    BY <1>7 DEF Follows
  <2>9. (n \div 256) % 2 = (b(9) + b(10)) % 2
    BY <1>7 DEF Follows
  <2>10. (n \div 512) % 2 = (b(10) + b(11)) % 2
    BY <1>7 DEF Follows
  <2>11. (n \div 1024) % 2 = (b(11) + b(12)) % 2
    BY <1>7 DEF Follows
  <2>12. (n \div 2048) % 2 = (b(12) + b(13)) % 2
    BY <1>7 DEF Follows
  <2>13. (n \div 4096) % 2 = (b(0) + b(13) + b(14)) % 2
    BY <1>9 DEF Follows
  <2>14. (n \div 8192) % 2 = (b(1) + b(14) + b(15)) % 2
    BY <1>9 DEF Follows
  <2>15. (n \div 16384) % 2 = (o + b(0) + b(15)) % 2
    BY <1>9 DEF Follows
  <2>16. (n \div 32768) % 2 = (o + b(1)) % 2
    BY <1>7 DEF Follows
  <2> QED
    BY <2>1, <2>2, <2>3, <2>4, <2>5, <2>6, <2>7, <2>8, <2>9, <2>10, <2>11, <2>12, <2>13, <2>14, <2>15, <2>16
<1>11. /\ (0 \in d) = (n % 2 = 1)
       /\ (1 \in d) = ((n \div 2) % 2 = 1)
       /\ (2 \in d) = ((n \div 4) % 2 = 1)
       /\ (3 \in d) = ((n \div 8) % 2 = 1)
       /\ (4 \in d) = ((n \div 16) % 2 = 1)
       /\ (5 \in d) = ((n \div 32) % 2 = 1)
       /\ (6 \in d) = ((n \div 64) % 2 = 1)
       /\ (7 \in d) = ((n \div 128) % 2 = 1)
       /\ (8 \in d) = ((n \div 256) % 2 = 1)
       /\ (9 \in d) = ((n \div 512) % 2 = 1)
       /\ (10 \in d) = ((n \div 1024) % 2 = 1)
       /\ (11 \in d) = ((n \div 2048) % 2 = 1)
       /\ (12 \in d) = ((n \div 4096) % 2 = 1)
       /\ (13 \in d) = ((n \div 8192) % 2 = 1)
       /\ (14 \in d) = ((n \div 16384) % 2 = 1)
       /\ (15 \in d) = ((n \div 32768) % 2 = 1)
  BY <1>1, BitsOfNumber
<1> HIDE DEF d
<1>12. /\ (0 \in d) = (All(c) # (2 \in c))
       /\ (1 \in d) = ((2 \in c) # (3 \in c))
       /\ (2 \in d) = ((3 \in c) # (4 \in c))
       /\ (3 \in d) = ((4 \in c) # (5 \in c))
       /\ (4 \in d) = ((5 \in c) # (6 \in c))
       /\ (5 \in d) = ((6 \in c) # (7 \in c))
       /\ (6 \in d) = ((7 \in c) # (8 \in c))
       /\ (7 \in d) = ((8 \in c) # (9 \in c))
       /\ (8 \in d) = ((9 \in c) # (10 \in c))
       /\ (9 \in d) = ((10 \in c) # (11 \in c))
       /\ (10 \in d) = ((11 \in c) # (12 \in c))
       /\ (11 \in d) = ((12 \in c) # (13 \in c))
       /\ (12 \in d) = ((0 \in c) # ((13 \in c) # (14 \in c)))
       /\ (13 \in d) = ((1 \in c) # ((14 \in c) # (15 \in c)))
       /\ (14 \in d) = (All(c) # ((0 \in c) # (15 \in c)))
       /\ (15 \in d) = (All(c) # (1 \in c))
  <2>1. (0 \in d) = (All(c) # (2 \in c))
    BY <1>2, <1>10, <1>11 DEF b, o
  <2>2. (1 \in d) = ((2 \in c) # (3 \in c))
    BY <1>2, <1>10, <1>11 DEF b, o
  <2>3. (2 \in d) = ((3 \in c) # (4 \in c))
    BY <1>2, <1>10, <1>11 DEF b, o
  <2>4. (3 \in d) = ((4 \in c) # (5 \in c))
    BY <1>2, <1>10, <1>11 DEF b, o
  <2>5. (4 \in d) = ((5 \in c) # (6 \in c))
    BY <1>2, <1>10, <1>11 DEF b, o
  <2>6. (5 \in d) = ((6 \in c) # (7 \in c))
    BY <1>2, <1>10, <1>11 DEF b, o
  <2>7. (6 \in d) = ((7 \in c) # (8 \in c))
    BY <1>2, <1>10, <1>11 DEF b, o
  <2>8. (7 \in d) = ((8 \in c) # (9 \in c))
    BY <1>2, <1>10, <1>11 DEF b, o
  <2>9. (8 \in d) = ((9 \in c) # (10 \in c))
    BY <1>2, <1>10, <1>11 DEF b, o
  <2>10. (9 \in d) = ((10 \in c) # (11 \in c))
    BY <1>2, <1>10, <1>11 DEF b, o
  <2>11. (10 \in d) = ((11 \in c) # (12 \in c))
    BY <1>2, <1>10, <1>11 DEF b, o
  <2>12. (11 \in d) = ((12 \in c) # (13 \in c))
    BY <1>2, <1>10, <1>11 DEF b, o
  <2>13. (12 \in d) = ((0 \in c) # ((13 \in c) # (14 \in c)))
    BY <1>2, <1>10, <1>11 DEF b, o
  <2>14. (13 \in d) = ((1 \in c) # ((14 \in c) # (15 \in c)))
    BY <1>2, <1>10, <1>11 DEF b, o
  <2>15. (14 \in d) = (All(c) # ((0 \in c) # (15 \in c)))
    BY <1>2, <1>10, <1>11 DEF b, o
  <2>16. (15 \in d) = (All(c) # (1 \in c))
    BY <1>2, <1>10, <1>11 DEF b, o
  <2> QED
    BY <2>1, <2>2, <2>3, <2>4, <2>5, <2>6, <2>7, <2>8, <2>9, <2>10, <2>11, <2>12, <2>13, <2>14, <2>15, <2>16
<1>13. \A j \in 0 .. 15 : j \in Eight(Eight(c)) <=> j \in d
  BY <1>2, <1>12, SixteenMembers
<1>14. Eight(Eight(c)) \in SUBSET (0 .. 15)
  BY <1>2, SixteenMembers
<1> QED
  BY <1>2, <1>13, <1>14 DEF c, d

LEMMA OneOfNumber ==
  ASSUME NEW m, NEW n, FollowsClosely(m, n)
  PROVE  Right(BitsOf(m)) = BitsOf(n)
<1> DEFINE c == BitsOf(m)
           d == BitsOf(n)
<1>1. m \in Nat /\ n \in Nat
  BY DEF FollowsClosely
<1>2. c \in SUBSET (0 .. 15) /\ d \in SUBSET (0 .. 15)
  BY <1>1, BitsOfNumber
<1>3. /\ (0 \in c) = (m % 2 = 1)
      /\ (1 \in c) = ((m \div 2) % 2 = 1)
      /\ (2 \in c) = ((m \div 4) % 2 = 1)
      /\ (3 \in c) = ((m \div 8) % 2 = 1)
      /\ (4 \in c) = ((m \div 16) % 2 = 1)
      /\ (5 \in c) = ((m \div 32) % 2 = 1)
      /\ (6 \in c) = ((m \div 64) % 2 = 1)
      /\ (7 \in c) = ((m \div 128) % 2 = 1)
      /\ (8 \in c) = ((m \div 256) % 2 = 1)
      /\ (9 \in c) = ((m \div 512) % 2 = 1)
      /\ (10 \in c) = ((m \div 1024) % 2 = 1)
      /\ (11 \in c) = ((m \div 2048) % 2 = 1)
      /\ (12 \in c) = ((m \div 4096) % 2 = 1)
      /\ (13 \in c) = ((m \div 8192) % 2 = 1)
      /\ (14 \in c) = ((m \div 16384) % 2 = 1)
      /\ (15 \in c) = ((m \div 32768) % 2 = 1)
  BY <1>1, BitsOfNumber
<1>4. /\ (0 \in d) = (n % 2 = 1)
      /\ (1 \in d) = ((n \div 2) % 2 = 1)
      /\ (2 \in d) = ((n \div 4) % 2 = 1)
      /\ (3 \in d) = ((n \div 8) % 2 = 1)
      /\ (4 \in d) = ((n \div 16) % 2 = 1)
      /\ (5 \in d) = ((n \div 32) % 2 = 1)
      /\ (6 \in d) = ((n \div 64) % 2 = 1)
      /\ (7 \in d) = ((n \div 128) % 2 = 1)
      /\ (8 \in d) = ((n \div 256) % 2 = 1)
      /\ (9 \in d) = ((n \div 512) % 2 = 1)
      /\ (10 \in d) = ((n \div 1024) % 2 = 1)
      /\ (11 \in d) = ((n \div 2048) % 2 = 1)
      /\ (12 \in d) = ((n \div 4096) % 2 = 1)
      /\ (13 \in d) = ((n \div 8192) % 2 = 1)
      /\ (14 \in d) = ((n \div 16384) % 2 = 1)
      /\ (15 \in d) = ((n \div 32768) % 2 = 1)
  BY <1>1, BitsOfNumber
<1>5. \A x, y \in Nat : (x + y) % 2 = 1 <=> (x % 2 = 1) # (y % 2 = 1)
  OBVIOUS
<1>6. m \div 2 \in Nat /\ m \div 16384 \in Nat
  BY <1>1
<1> HIDE DEF c, d
<1>7. /\ (0 \in d) = ((1 \in c) # (0 \in c))
      /\ (13 \in d) = ((14 \in c) # (0 \in c))
  <2>1. ((m \div 2) + m) % 2 = 1 <=> (1 \in c) # (0 \in c)
    BY <1>1, <1>3, <1>5, <1>6
  <2>2. ((m \div 16384) + m) % 2 = 1 <=> (14 \in c) # (0 \in c)
    BY <1>1, <1>3, <1>5, <1>6
  <2> QED
    BY <1>4, <2>1, <2>2 DEF FollowsClosely
<1>8. /\ (1 \in d) = (2 \in c)
      /\ (2 \in d) = (3 \in c)
      /\ (3 \in d) = (4 \in c)
      /\ (4 \in d) = (5 \in c)
      /\ (5 \in d) = (6 \in c)
      /\ (6 \in d) = (7 \in c)
      /\ (7 \in d) = (8 \in c)
      /\ (8 \in d) = (9 \in c)
      /\ (9 \in d) = (10 \in c)
      /\ (10 \in d) = (11 \in c)
      /\ (11 \in d) = (12 \in c)
      /\ (12 \in d) = (13 \in c)
      /\ (14 \in d) = (15 \in c)
      /\ (15 \in d) = (0 \in c)
  BY <1>3, <1>4 DEF FollowsClosely
<1>9. \A j \in 0 .. 15 : j \in Right(c) <=> j \in d
  BY <1>2, <1>7, <1>8, RightBits
<1>10. Right(c) \in SUBSET (0 .. 15)
  BY <1>2, RightBits
<1> QED
  BY <1>2, <1>9, <1>10 DEF c, d


LEMMA NumbersDiffer ==
  ASSUME NEW m \in Nat, NEW n \in Nat, m < 65536, n < 65536, BitsOf(m) = BitsOf(n)
  PROVE  m = n
<1>1. m % 2 = n % 2
  <2>1. (m % 2 = 1) = (n % 2 = 1)
    BY BitsOfNumber
  <2> QED
    BY <2>1
<1>2. (m \div 2) % 2 = (n \div 2) % 2
  <2>1. ((m \div 2) % 2 = 1) = ((n \div 2) % 2 = 1)
    BY BitsOfNumber
  <2> QED
    BY <2>1
<1>3. (m \div 4) % 2 = (n \div 4) % 2
  <2>1. ((m \div 4) % 2 = 1) = ((n \div 4) % 2 = 1)
    BY BitsOfNumber
  <2> QED
    BY <2>1
<1>4. (m \div 8) % 2 = (n \div 8) % 2
  <2>1. ((m \div 8) % 2 = 1) = ((n \div 8) % 2 = 1)
    BY BitsOfNumber
  <2> QED
    BY <2>1
<1>5. (m \div 16) % 2 = (n \div 16) % 2
  <2>1. ((m \div 16) % 2 = 1) = ((n \div 16) % 2 = 1)
    BY BitsOfNumber
  <2> QED
    BY <2>1
<1>6. (m \div 32) % 2 = (n \div 32) % 2
  <2>1. ((m \div 32) % 2 = 1) = ((n \div 32) % 2 = 1)
    BY BitsOfNumber
  <2> QED
    BY <2>1
<1>7. (m \div 64) % 2 = (n \div 64) % 2
  <2>1. ((m \div 64) % 2 = 1) = ((n \div 64) % 2 = 1)
    BY BitsOfNumber
  <2> QED
    BY <2>1
<1>8. (m \div 128) % 2 = (n \div 128) % 2
  <2>1. ((m \div 128) % 2 = 1) = ((n \div 128) % 2 = 1)
    BY BitsOfNumber
  <2> QED
    BY <2>1
<1>9. (m \div 256) % 2 = (n \div 256) % 2
  <2>1. ((m \div 256) % 2 = 1) = ((n \div 256) % 2 = 1)
    BY BitsOfNumber
  <2> QED
    BY <2>1
<1>10. (m \div 512) % 2 = (n \div 512) % 2
  <2>1. ((m \div 512) % 2 = 1) = ((n \div 512) % 2 = 1)
    BY BitsOfNumber
  <2> QED
    BY <2>1
<1>11. (m \div 1024) % 2 = (n \div 1024) % 2
  <2>1. ((m \div 1024) % 2 = 1) = ((n \div 1024) % 2 = 1)
    BY BitsOfNumber
  <2> QED
    BY <2>1
<1>12. (m \div 2048) % 2 = (n \div 2048) % 2
  <2>1. ((m \div 2048) % 2 = 1) = ((n \div 2048) % 2 = 1)
    BY BitsOfNumber
  <2> QED
    BY <2>1
<1>13. (m \div 4096) % 2 = (n \div 4096) % 2
  <2>1. ((m \div 4096) % 2 = 1) = ((n \div 4096) % 2 = 1)
    BY BitsOfNumber
  <2> QED
    BY <2>1
<1>14. (m \div 8192) % 2 = (n \div 8192) % 2
  <2>1. ((m \div 8192) % 2 = 1) = ((n \div 8192) % 2 = 1)
    BY BitsOfNumber
  <2> QED
    BY <2>1
<1>15. (m \div 16384) % 2 = (n \div 16384) % 2
  <2>1. ((m \div 16384) % 2 = 1) = ((n \div 16384) % 2 = 1)
    BY BitsOfNumber
  <2> QED
    BY <2>1
<1>16. (m \div 32768) % 2 = (n \div 32768) % 2
  <2>1. ((m \div 32768) % 2 = 1) = ((n \div 32768) % 2 = 1)
    BY BitsOfNumber
  <2> QED
    BY <2>1
<1>17. m \div 65536 = 0 /\ n \div 65536 = 0
  OBVIOUS
<1>18. m \div 32768 = n \div 32768
  BY <1>16, <1>17
<1>19. m \div 16384 = n \div 16384
  BY <1>15, <1>18
<1>20. m \div 8192 = n \div 8192
  BY <1>14, <1>19
<1>21. m \div 4096 = n \div 4096
  BY <1>13, <1>20
<1>22. m \div 2048 = n \div 2048
  BY <1>12, <1>21
<1>23. m \div 1024 = n \div 1024
  BY <1>11, <1>22
<1>24. m \div 512 = n \div 512
  BY <1>10, <1>23
<1>25. m \div 256 = n \div 256
  BY <1>9, <1>24
<1>26. m \div 128 = n \div 128
  BY <1>8, <1>25
<1>27. m \div 64 = n \div 64
  BY <1>7, <1>26
<1>28. m \div 32 = n \div 32
  BY <1>6, <1>27
<1>29. m \div 16 = n \div 16
  BY <1>5, <1>28
<1>30. m \div 8 = n \div 8
  BY <1>4, <1>29
<1>31. m \div 4 = n \div 4
  BY <1>3, <1>30
<1>32. m \div 2 = n \div 2
  BY <1>2, <1>31
<1> QED
  BY <1>1, <1>32

\* The registers that become that of the last bit alone in less than 16 bits.
Undone == {\h8000, \h4003, \h8006, \h400F, \h801E, \h403F, \h807E, \h40FF,
           \h81FE, \h43FF, \h87FE, \h4FFF, \h9FFE, \h7FFF, \hFFFE, \hBFFF}

Reached(k, n) == n \in Nat /\ (16 * k <= Top => RegisterOf({16 * k}) = BitsOf(n))

NotUndone(k) == 16 * k <= Top => \A n \in Undone : RegisterOf({16 * k}) # BitsOf(n)

LEMMA ByteOfNothing ==
  ASSUME NEW e \in Nat, e + 8 <= Top
  PROVE  RegisterOf({e + 8}) = Eight(RegisterOf({e}))
<1> DEFINE n == e + 8
<1>1. n \in 8 .. Top /\ n - 8 = e
  BY TopIsLarge
<1>2. UpByte({e}) = {n}
  BY DEF UpByte
<1> HIDE DEF n
<1>3. {e} \in SUBSET (0 .. n - 8)
  BY <1>1
<1>4. RegisterOf(UpByte({e})) = Eight(RegisterOf({e}))
  BY <1>1, <1>3, RegisterOfUpByte
<1> QED
  BY <1>2, <1>4 DEF n

LEMMA LastBitAlone == BitsOf(32768) = {15}
<1>1. BitsOf(32768) \in SUBSET (0 .. 15) /\ \A j \in 0 .. 15 : j \in BitsOf(32768) <=> j = 15
  BY BitsOfNumber
<1> QED
  BY <1>1

LEMMA ReachedNext ==
  ASSUME NEW k \in Nat, NEW m, NEW n, Reached(k, m), Follows(m, n), n < 65536, n \notin Undone
  PROVE  Reached(k + 1, n) /\ NotUndone(k + 1)
<1>1. n \in Nat
  BY DEF Follows
<1>2. ASSUME 16 * (k + 1) <= Top
      PROVE  RegisterOf({16 * (k + 1)}) = BitsOf(n)
  <2>1. 16 * (k + 1) = 16 * k + 8 + 8 /\ 16 * k + 8 + 8 <= Top /\ 16 * k + 8 <= Top /\ 16 * k <= Top
    BY <1>2, TopIsLarge
  <2>4. RegisterOf({16 * k + 8}) = Eight(RegisterOf({16 * k}))
    BY <2>1, ByteOfNothing
  <2>5. RegisterOf({16 * k + 8 + 8}) = Eight(RegisterOf({16 * k + 8}))
    BY <2>1, ByteOfNothing
  <2>6. RegisterOf({16 * k}) = BitsOf(m)
    BY <2>1 DEF Reached
  <2>7. Eight(Eight(BitsOf(m))) = BitsOf(n)
    BY SixteenOfNumber
  <2> QED
    BY <2>1, <2>4, <2>5, <2>6, <2>7
<1>3. \A l \in Undone : l \in Nat /\ l < 65536
  BY DEF Undone
<1>4. \A l \in Undone : BitsOf(l) # BitsOf(n)
  BY <1>1, <1>3, NumbersDiffer
<1> QED
  BY <1>1, <1>2, <1>4 DEF Reached, NotUndone

\* Four steps.
Chain(m, n1, n2, n3, n4) ==
  /\ Follows(m, n1) /\ Follows(n1, n2) /\ Follows(n2, n3) /\ Follows(n3, n4)
  /\ \A n \in {n1, n2, n3, n4} : n < 65536 /\ n \notin Undone

LEMMA ChainReaches ==
  ASSUME NEW k \in Nat, NEW m, NEW n1, NEW n2, NEW n3, NEW n4, Reached(k, m), Chain(m, n1, n2, n3, n4)
  PROVE  /\ Reached(k + 4, n4)
         /\ \A j \in k + 1 .. k + 4 : NotUndone(j)
<1>1. Reached(k + 1, n1) /\ NotUndone(k + 1)
  BY ReachedNext DEF Chain
<1>2. Reached(k + 1 + 1, n2) /\ NotUndone(k + 1 + 1)
  BY <1>1, ReachedNext DEF Chain
<1>3. Reached(k + 1 + 1 + 1, n3) /\ NotUndone(k + 1 + 1 + 1)
  BY <1>2, ReachedNext DEF Chain
<1>4. Reached(k + 1 + 1 + 1 + 1, n4) /\ NotUndone(k + 1 + 1 + 1 + 1)
  BY <1>3, ReachedNext DEF Chain
<1>5. /\ k + 1 + 1 = k + 2 /\ k + 1 + 1 + 1 = k + 3 /\ k + 1 + 1 + 1 + 1 = k + 4
      /\ k + 1 .. k + 4 = {k + 1, k + 2, k + 3, k + 4}
  OBVIOUS
<1> QED
  BY <1>1, <1>2, <1>3, <1>4, <1>5

LEMMA PowersAreNotUndone == \A k \in 1 .. 64 : NotUndone(k)
<1>1. Reached(0, \h8000)
  <2>1. RegisterOf({0}) = {15}
    <3>1. Remainder[{0}] = {0}
      BY RemainderOfSmall
    <3> QED
      BY <3>1 DEF RegisterOf, Register
  <2>4. 16 * 0 = 0
    OBVIOUS
  <2> QED
    BY <2>1, <2>4, LastBitAlone DEF Reached
<1>2. Chain(\h8000, \hA001, \hE801, \hDE01, \hC881)
  BY DEF Chain, Follows, Ones, Undone
<1>3. Reached(4, \hC881) /\ \A k \in 1 .. 4 : NotUndone(k)
  BY <1>1, <1>2, ChainReaches
<1>4. Chain(\hC881, \hC661, \hC2A9, \hC1FF, \h6080)
  BY DEF Chain, Follows, Ones, Undone
<1>5. Reached(8, \h6080) /\ \A k \in 5 .. 8 : NotUndone(k)
  BY <1>3, <1>4, ChainReaches
<1>6. Chain(\h6080, \hE861, \hDE29, \hC89F, \h6668)
  BY DEF Chain, Follows, Ones, Undone
<1>7. Reached(12, \h6668) /\ \A k \in 9 .. 12 : NotUndone(k)
  BY <1>5, <1>6, ChainReaches
<1>8. Chain(\h6668, \hEAAF, \h7FFC, \hE000, \h8801)
  BY DEF Chain, Follows, Ones, Undone
<1>9. Reached(16, \h8801) /\ \A k \in 13 .. 16 : NotUndone(k)
  BY <1>7, <1>8, ChainReaches
<1>10. Chain(\h8801, \hF601, \hD681, \hCEE1, \hC4C9)
  BY DEF Chain, Follows, Ones, Undone
<1>11. Reached(20, \hC4C9) /\ \A k \in 17 .. 20 : NotUndone(k)
  BY <1>9, <1>10, ChainReaches
<1>12. Chain(\hC4C9, \hC357, \h617E, \h48E0, \hF649)
  BY DEF Chain, Follows, Ones, Undone
<1>13. Reached(24, \hF649) /\ \A k \in 21 .. 24 : NotUndone(k)
  BY <1>11, <1>12, ChainReaches
<1>14. Chain(\hF649, \hD6B7, \h6EF6, \h4CC6, \h5552)
  BY DEF Chain, Follows, Ones, Undone
<1>15. Reached(28, \h5552) /\ \A k \in 25 .. 28 : NotUndone(k)
  BY <1>13, <1>14, ChainReaches
<1>16. Chain(\h5552, \h5FFD, \hA800, \hBE01, \hE081)
  BY DEF Chain, Follows, Ones, Undone
<1>17. Reached(32, \hE081) /\ \A k \in 29 .. 32 : NotUndone(k)
  BY <1>15, <1>16, ChainReaches
<1>18. Chain(\hE081, \hD861, \hCA29, \hC79F, \h6228)
  BY DEF Chain, Follows, Ones, Undone
<1>19. Reached(36, \h6228) /\ \A k \in 33 .. 36 : NotUndone(k)
  BY <1>17, <1>18, ChainReaches
<1>20. Chain(\h6228, \hE99F, \h7EA8, \hE0FF, \h7840)
  BY DEF Chain, Follows, Ones, Undone
<1>21. Reached(40, \h7840) /\ \A k \in 37 .. 40 : NotUndone(k)
  BY <1>19, <1>20, ChainReaches
<1>22. Chain(\h7840, \hE231, \hD995, \hCAAE, \h37FC)
  BY DEF Chain, Follows, Ones, Undone
<1>23. Reached(44, \h37FC) /\ \A k \in 41 .. 44 : NotUndone(k)
  BY <1>21, <1>22, ChainReaches
<1>24. Chain(\h37FC, \hD600, \h9E81, \hF8E1, \hD249)
  BY DEF Chain, Follows, Ones, Undone
<1>25. Reached(48, \hD249) /\ \A k \in 45 .. 48 : NotUndone(k)
  BY <1>23, <1>24, ChainReaches
<1>26. Chain(\hD249, \hCDB7, \h65B6, \h4BB6, \h5736)
  BY DEF Chain, Follows, Ones, Undone
<1>27. Reached(52, \h5736) /\ \A k \in 49 .. 52 : NotUndone(k)
  BY <1>25, <1>26, ChainReaches
<1>28. Chain(\h5736, \h5E56, \h58BE, \h5A70, \hFBA5)
  BY DEF Chain, Follows, Ones, Undone
<1>29. Reached(56, \hFBA5) /\ \A k \in 53 .. 56 : NotUndone(k)
  BY <1>27, <1>28, ChainReaches
<1>30. Chain(\hFBA5, \hD33A, \h3D53, \h21FD, \h8880)
  BY DEF Chain, Follows, Ones, Undone
<1>31. Reached(60, \h8880) /\ \A k \in 57 .. 60 : NotUndone(k)
  BY <1>29, <1>30, ChainReaches
<1>32. Chain(\h8880, \hA661, \hEAA9, \hDFFF, \h6800)
  BY DEF Chain, Follows, Ones, Undone
<1>33. Reached(64, \h6800) /\ \A k \in 61 .. 64 : NotUndone(k)
  BY <1>31, <1>32, ChainReaches
<1> QED
  BY <1>3, <1>5, <1>7, <1>9, <1>11, <1>13, <1>15, <1>17, <1>19, <1>21, <1>23, <1>25, <1>27, <1>29, <1>31, <1>33

LEMMA RightIsInjective ==
  ASSUME NEW c \in SUBSET (0 .. 15), NEW d \in SUBSET (0 .. 15), Right(c) = Right(d)
  PROVE  c = d
<1>1. (0 \in c) = (0 \in d)
  BY RightBits
<1>2. \A i \in 1 .. 15 : (i \in c) = (i \in d)
  <2>1. ASSUME NEW i \in 0 .. 14
        PROVE  (i + 1 \in c) = (i + 1 \in d)
    <3>1. (i \in Right(c)) = ((i + 1 \in c) # (0 \in c /\ i \in {0, 13, 15}))
      BY DEF Right
    <3>2. (i \in Right(d)) = ((i + 1 \in d) # (0 \in d /\ i \in {0, 13, 15}))
      BY DEF Right
    <3> QED
      BY <1>1, <3>1, <3>2
  <2>2. \A i \in 1 .. 15 : i - 1 \in 0 .. 14 /\ (i - 1) + 1 = i
    OBVIOUS
  <2> QED
    BY <2>1, <2>2
<1>3. \A i \in 0 .. 15 : i = 0 \/ i \in 1 .. 15
  OBVIOUS
<1>4. \A i \in 0 .. 15 : i \in c <=> i \in d
  BY <1>1, <1>2, <1>3
<1> QED
  BY <1>4

\* Where the bit is that makes the register n with b bits less behind it.
Was(d, b, n) == n \in Nat /\ (b <= d => RegisterOf({d - b}) = BitsOf(n))

LEMMA WasBefore ==
  ASSUME NEW d \in 0 .. Top, NEW b \in Nat, NEW m, NEW n, Was(d, b, n), FollowsClosely(m, n)
  PROVE  Was(d, b + 1, m)
<1>1. m \in Nat
  BY DEF FollowsClosely
<1>2. ASSUME b + 1 <= d
      PROVE  RegisterOf({d - (b + 1)}) = BitsOf(m)
  <2> DEFINE e == d - b
  <2>1. e \in 1 .. Top /\ e - 1 = d - (b + 1) /\ e - 1 \in 0 .. e - 1 /\ e - 1 \in Exponents
    BY <1>2, TopIsLarge
  <2>2. RegisterOf({e}) = BitsOf(n)
    BY <1>2 DEF Was
  <2> HIDE DEF e
  <2>3. Up({e - 1}) = {e}
    BY <2>1 DEF Up
  <2>4. {e - 1} \in SUBSET (0 .. e - 1)
    BY <2>1
  <2>5. RegisterOf(Up({e - 1})) = Right(RegisterOf({e - 1}))
    BY <2>1, <2>4, RegisterOfUp
  <2>6. Right(BitsOf(m)) = Right(RegisterOf({e - 1}))
    BY <2>2, <2>3, <2>5, OneOfNumber
  <2>7. RegisterOf({e - 1}) \in SUBSET (0 .. 15)
    BY <2>1, RegisterOfIsSmall
  <2>8. BitsOf(m) \in SUBSET (0 .. 15)
    BY <1>1, BitsOfNumber
  <2> QED
    BY <2>1, <2>6, <2>7, <2>8, RightIsInjective
<1> QED
  BY <1>1, <1>2 DEF Was

LEMMA WasUndone ==
  ASSUME NEW d \in 0 .. Top, RegisterOf({d}) = {15}
  PROVE  \A b \in 0 .. 15 : b <= d => \E n \in Undone : RegisterOf({d - b}) = BitsOf(n)
<1>1. Was(d, 0, \h8000)
  <2>1. d - 0 = d
    OBVIOUS
  <2> QED
    BY <2>1, LastBitAlone DEF Was
<1>2. /\ FollowsClosely(\h4003, \h8000)
      /\ FollowsClosely(\h8006, \h4003)
      /\ FollowsClosely(\h400F, \h8006)
      /\ FollowsClosely(\h801E, \h400F)
      /\ FollowsClosely(\h403F, \h801E)
      /\ FollowsClosely(\h807E, \h403F)
      /\ FollowsClosely(\h40FF, \h807E)
      /\ FollowsClosely(\h81FE, \h40FF)
      /\ FollowsClosely(\h43FF, \h81FE)
      /\ FollowsClosely(\h87FE, \h43FF)
      /\ FollowsClosely(\h4FFF, \h87FE)
      /\ FollowsClosely(\h9FFE, \h4FFF)
      /\ FollowsClosely(\h7FFF, \h9FFE)
      /\ FollowsClosely(\hFFFE, \h7FFF)
      /\ FollowsClosely(\hBFFF, \hFFFE)
  BY DEF FollowsClosely
<1>3. /\ \h8000 \in Undone /\ \h4003 \in Undone /\ \h8006 \in Undone /\ \h400F \in Undone
      /\ \h801E \in Undone /\ \h403F \in Undone /\ \h807E \in Undone /\ \h40FF \in Undone
      /\ \h81FE \in Undone /\ \h43FF \in Undone /\ \h87FE \in Undone /\ \h4FFF \in Undone
      /\ \h9FFE \in Undone /\ \h7FFF \in Undone /\ \hFFFE \in Undone /\ \hBFFF \in Undone
  BY DEF Undone
<1>4. \A b \in Nat, m \in Nat, n \in Nat : Was(d, b, n) /\ FollowsClosely(m, n) => Was(d, b + 1, m)
  BY WasBefore
<1>5. Was(d, 1, \h4003)
  <2>1. 0 + 1 = 1
    OBVIOUS
  <2> QED
    BY <1>2, <1>1, <2>1, WasBefore
<1>6. Was(d, 2, \h8006)
  <2>1. 1 + 1 = 2
    OBVIOUS
  <2> QED
    BY <1>2, <1>5, <2>1, WasBefore
<1>7. Was(d, 3, \h400F)
  <2>1. 2 + 1 = 3
    OBVIOUS
  <2> QED
    BY <1>2, <1>6, <2>1, WasBefore
<1>8. Was(d, 4, \h801E)
  <2>1. 3 + 1 = 4
    OBVIOUS
  <2> QED
    BY <1>2, <1>7, <2>1, WasBefore
<1>9. Was(d, 5, \h403F)
  <2>1. 4 + 1 = 5
    OBVIOUS
  <2> QED
    BY <1>2, <1>8, <2>1, WasBefore
<1>10. Was(d, 6, \h807E)
  <2>1. 5 + 1 = 6
    OBVIOUS
  <2> QED
    BY <1>2, <1>9, <2>1, WasBefore
<1>11. Was(d, 7, \h40FF)
  <2>1. 6 + 1 = 7
    OBVIOUS
  <2> QED
    BY <1>2, <1>10, <2>1, WasBefore
<1>12. Was(d, 8, \h81FE)
  <2>1. 7 + 1 = 8
    OBVIOUS
  <2> QED
    BY <1>2, <1>11, <2>1, WasBefore
<1>13. Was(d, 9, \h43FF)
  <2>1. 8 + 1 = 9
    OBVIOUS
  <2> QED
    BY <1>2, <1>12, <2>1, WasBefore
<1>14. Was(d, 10, \h87FE)
  <2>1. 9 + 1 = 10
    OBVIOUS
  <2> QED
    BY <1>2, <1>13, <2>1, WasBefore
<1>15. Was(d, 11, \h4FFF)
  <2>1. 10 + 1 = 11
    OBVIOUS
  <2> QED
    BY <1>2, <1>14, <2>1, WasBefore
<1>16. Was(d, 12, \h9FFE)
  <2>1. 11 + 1 = 12
    OBVIOUS
  <2> QED
    BY <1>2, <1>15, <2>1, WasBefore
<1>17. Was(d, 13, \h7FFF)
  <2>1. 12 + 1 = 13
    OBVIOUS
  <2> QED
    BY <1>2, <1>16, <2>1, WasBefore
<1>18. Was(d, 14, \hFFFE)
  <2>1. 13 + 1 = 14
    OBVIOUS
  <2> QED
    BY <1>2, <1>17, <2>1, WasBefore
<1>19. Was(d, 15, \hBFFF)
  <2>1. 14 + 1 = 15
    OBVIOUS
  <2> QED
    BY <1>2, <1>18, <2>1, WasBefore
<1>20. ASSUME NEW b \in 0 .. 15
       PROVE  \E n \in Undone : Was(d, b, n)
  <2>1. b \in {0, 1, 2, 3, 4, 5, 6, 7, 8, 9, 10, 11, 12, 13, 14, 15}
    OBVIOUS
  <2> QED
    BY <1>1, <1>3, <1>5, <1>6, <1>7, <1>8, <1>9, <1>10, <1>11, <1>12, <1>13, <1>14, <1>15, <1>16, <1>17, <1>18, <1>19, <2>1
<1> QED
  BY <1>20 DEF Was

LEMMA NoOrder ==
  ASSUME NEW d \in 1 .. Top
  PROVE  Remainder[{d}] # {0}
<1> SUFFICES ASSUME Remainder[{d}] = {0}
             PROVE  FALSE
  OBVIOUS
<1>1. RegisterOf({d}) = {15}
  BY DEF RegisterOf, Register
<1>2. CASE d <= 15
  <2>1. {d} \in SUBSET (0 .. 15)
    BY <1>2
  <2>2. Remainder[{d}] = {d}
    BY <2>1, RemainderOfSmall
  <2> QED
    BY <2>2
<1>3. CASE d > 15
  <2> DEFINE k == d \div 16
             b == d % 16
  <2>1. /\ d = 16 * k + b /\ k \in 1 .. 64 /\ b \in 0 .. 15 /\ b <= d
        /\ 16 * k <= Top /\ d - b = 16 * k
    BY <1>3, TopIsLarge DEF Top
  <2> HIDE DEF k, b
  <2>2. PICK n \in Undone : RegisterOf({d - b}) = BitsOf(n)
    <3>1. d \in 0 .. Top
      BY TopIsLarge
    <3>2. \A j \in 0 .. 15 : j <= d => \E n \in Undone : RegisterOf({d - j}) = BitsOf(n)
      BY <1>1, <3>1, WasUndone
    <3> QED
      BY <2>1, <3>2
  <2>3. NotUndone(k)
    BY <2>1, PowersAreNotUndone
  <2> QED
    BY <2>1, <2>2, <2>3 DEF NotUndone
<1> QED
  BY <1>2, <1>3, TopIsLarge


-----------------------------------------------------------------------------
(* Damage that leaves a remainder.                                         *)

LEMMA TimesXKeeps ==
  ASSUME NEW r \in SUBSET (0 .. 15), r # {}
  PROVE  TimesX(r) # {}
<1>1. CASE 15 \in r
  <2>1. 0 \notin Up(r)
    BY DEF Up
  <2>2. 0 \in Subtrahend(16)
    BY DEF Subtrahend
  <2>3. 0 \in SymDiff(Up(r), Subtrahend(16))
    BY <2>1, <2>2 DEF SymDiff
  <2> QED
    BY <1>1, <2>3 DEF TimesX
<1>2. CASE 15 \notin r
  <2>1. PICK e \in 0 .. 15 : e \in r
    OBVIOUS
  <2>2. e + 1 \in Up(r)
    BY <2>1 DEF Up
  <2> QED
    BY <1>2, <2>2 DEF TimesX
<1> QED
  BY <1>1, <1>2

Shifted(p, k) == {e \in Nat : e - k \in p}

LEMMA ShiftKeeps ==
  ASSUME NEW n \in 0 .. Top, NEW p \in SUBSET (0 .. n), Remainder[p] # {}
  PROVE  \A k \in 0 .. Top - n : Remainder[Shifted(p, k)] # {}
<1> DEFINE S == {k \in Nat : Remainder[Shifted(p, k)] # {}}
<1>1. 0 \in S
  <2>1. Shifted(p, 0) = p
    <3>1. \A e \in Nat : e - 0 = e
      OBVIOUS
    <3>2. \A e \in p : e \in Nat
      BY TopIsLarge
    <3>3. \A e : e \in Shifted(p, 0) <=> e \in Nat /\ e - 0 \in p
      BY DEF Shifted
    <3> QED
      BY <3>1, <3>2, <3>3
  <2> QED
    BY <2>1
<1>2. ASSUME NEW k \in 0 + 1 .. Top - n, k - 1 \in S
      PROVE  k \in S
  <2> DEFINE q == Shifted(p, k - 1)
  <2>1. k \in Nat /\ k >= 1 /\ n + (k - 1) <= Top - 1
    BY TopIsLarge
  <2>2. q \in SUBSET (0 .. Top - 1) /\ q \in SUBSET Exponents
    BY <2>1, TopIsLarge DEF Shifted
  <2>3. Shifted(p, k) = Up(q)
    <3>1. ASSUME NEW e \in Nat
          PROVE  e - k \in p <=> e - 1 \in q
      <4>1. e - 1 \in q <=> e - 1 \in Nat /\ (e - 1) - (k - 1) \in p
        BY DEF Shifted
      <4>2. (e - 1) - (k - 1) = e - k
        BY <2>1
      <4>3. e - k \in p => e - 1 \in Nat
        BY <2>1
      <4> QED
        BY <4>1, <4>2, <4>3
    <3> QED
      BY <3>1 DEF Shifted, Up
  <2>4. Remainder[q] # {}
    BY <1>2
  <2> HIDE DEF q
  <2>5. Remainder[Up(q)] = TimesX(Remainder[q])
    BY <2>2, RemainderOfUp
  <2>6. Remainder[q] \in SUBSET (0 .. 15)
    BY <2>2, RemainderIsSmall
  <2> QED
    BY <2>1, <2>3, <2>4, <2>5, <2>6, TimesXKeeps
<1>3. Top - n \in Nat
  BY TopIsLarge
<1> HIDE DEF S
<1>4. \A k \in 0 .. Top - n : k \in S
  BY <1>1, <1>2, <1>3, Upwards
<1> QED
  BY <1>4 DEF S

\* Two bits.
LEMMA TwoBits ==
  ASSUME NEW a \in 0 .. Top, NEW b \in 0 .. Top, b < a
  PROVE  Remainder[{a, b}] # {}
<1> DEFINE d == a - b
<1>1. d \in 1 .. Top /\ b \in 0 .. Top - d /\ d + b = a
  BY TopIsLarge
<1> HIDE DEF d
<1>2. SymDiff({d}, {0}) = {d, 0}
  BY <1>1 DEF SymDiff
<1>3. {d} \in SUBSET Exponents /\ {0} \in SUBSET Exponents
  BY <1>1, TopIsLarge
<1>4. Remainder[{0}] = {0}
  BY RemainderOfSmall
<1>5. Remainder[{d, 0}] = SymDiff(Remainder[{d}], {0})
  BY <1>2, <1>3, <1>4, RemainderOfSum
<1>6. Remainder[{d}] # {0}
  BY <1>1, NoOrder
<1>7. Remainder[{d, 0}] # {}
  <2>1. \A r : SymDiff(r, {0}) = {} => r = {0}
    BY SumAlgebra
  <2> QED
    BY <1>5, <1>6, <2>1
<1>8. d \in 0 .. Top /\ {d, 0} \in SUBSET (0 .. d)
  BY <1>1
<1>9. Remainder[Shifted({d, 0}, b)] # {}
  BY <1>1, <1>7, <1>8, ShiftKeeps
<1>10. Shifted({d, 0}, b) = {a, b}
  BY <1>1 DEF Shifted
<1> QED
  BY <1>9, <1>10

\* A burst.
LEMMA Bursts ==
  ASSUME NEW p \in SUBSET Exponents, p # {}, NEW k \in Nat,
         \A e \in p : k <= e /\ e <= k + 15
  PROVE  Remainder[p] # {}
<1> DEFINE q == {i \in 0 .. 15 : i + k \in p}
           m == Max(p)
           n == m - k
<1>1. Top \in Nat /\ p \in SUBSET (0 .. Top)
  BY TopIsLarge
<1>2. m \in p /\ m \in 0 .. Top /\ \A e \in p : e <= m
  BY <1>1, Highest
<1> HIDE DEF m
<1>3. n \in 0 .. 15 /\ n \in q /\ n + k = m /\ n \in 0 .. Top /\ k \in 0 .. Top - n
  BY <1>1, <1>2
<1>4. q \in SUBSET (0 .. n)
  BY <1>2, <1>3
<1>5. Remainder[q] = q
  BY RemainderOfSmall
<1>6. Shifted(q, k) = p
  <2>1. \A e \in Nat : e - k \in q <=> e \in p
    BY <1>1
  <2> HIDE DEF q
  <2> QED
    <3>1. \A e : e \in Shifted(q, k) <=> e \in Nat /\ e - k \in q
      BY DEF Shifted
    <3>2. \A e \in p : e \in Nat
      BY <1>1
    <3>3. \A e : e \in Shifted(q, k) <=> e \in p
      BY <2>1, <3>1, <3>2
    <3> QED
      BY <3>3
<1> HIDE DEF q, n
<1>7. Remainder[Shifted(q, k)] # {}
  BY <1>3, <1>4, <1>5, ShiftKeeps
<1> QED
  BY <1>6, <1>7

\* As many bits in another order.
LEMMA SameSize ==
  ASSUME NEW S, IsFiniteSet(S), NEW T, NEW f \in [S -> T],
         \A x, y \in S : f[x] = f[y] => x = y,
         \A z \in T : \E x \in S : f[x] = z
  PROVE  IsFiniteSet(T) /\ Cardinality(T) = Cardinality(S)
<1>1. f \in Bijection(S, T)
  BY DEF Bijection, Injection, Surjection, IsInjective
<1>2. ExistsBijection(S, T)
  BY <1>1 DEF ExistsBijection
<1> QED
  BY <1>2, FS_Bijection

LEMMA Mirrored ==
  ASSUME NEW c \in Int, NEW S \in SUBSET Int, IsFiniteSet(S),
         NEW T \in SUBSET Int, \A x \in Int : x \in T <=> c - x \in S
  PROVE  IsFiniteSet(T) /\ Cardinality(T) = Cardinality(S)
<1> DEFINE f == [x \in S |-> c - x]
<1>1. \A x \in S : c - (c - x) = x /\ c - x \in Int
  OBVIOUS
<1>2. f \in [S -> T]
  BY <1>1
<1>3. \A x, y \in S : f[x] = f[y] => x = y
  OBVIOUS
<1>4. \A z \in T : \E x \in S : f[x] = z
  <2>1. \A z \in T : c - z \in S /\ c - (c - z) = z
    OBVIOUS
  <2> QED
    BY <2>1
<1> HIDE DEF f
<1> QED
  BY <1>2, <1>3, <1>4, SameSize

-----------------------------------------------------------------------------
(* What the sender and the receiver have computed.                         *)

Checksums ==
  /\ stage \in {"data", "high", "low", "done"}
  /\ sent \in Messages /\ got \in Messages /\ Len(got) = Len(sent)
  /\ tx_cksum = Crc(sent) /\ cksum = Crc(got)

LEMMA CrcIsRegister ==
  ASSUME NEW s \in Messages
  PROVE  /\ Crc(s) = RegisterOf(Polynomial(s))
         /\ Crc(s) \in SUBSET (0 .. 15)
<1>1. Crc(s) = RegisterOf(Polynomial(s))
  BY DEF Crc, RegisterOf, Register
<1>2. Polynomial(s) \in SUBSET Exponents
  BY PolynomialMembers
<1> QED
  BY <1>1, <1>2, RegisterOfIsSmall

LEMMA ChecksumsInit == Init => Checksums
BY CrcOfNothing DEF Init, Checksums, CksumStart

LEMMA ChecksumsStep == Checksums /\ [Next]_vars => Checksums'
<1> SUFFICES ASSUME Checksums, [Next]_vars
             PROVE  Checksums'
  OBVIOUS
<1>1. ASSUME NEW b \in Bytes, NEW flipped \in Flips, DataByte(b, flipped)
      PROVE  Checksums'
  <2> DEFINE d == SymDiff(b, flipped)
  <2>1. b \in SUBSET (0 .. 7) /\ d \in SUBSET (0 .. 7)
    BY CrcAssumption DEF SymDiff
  <2>2. /\ stage' = stage /\ sent' = Append(sent, b) /\ got' = Append(got, d)
        /\ tx_cksum' = CksumAdd(tx_cksum, b) /\ cksum' = CksumAdd(cksum, d)
        /\ Len(sent) < MaxLen
    BY <1>1 DEF DataByte
  <2> HIDE DEF d
  <2>3. /\ sent' \in Messages /\ Len(sent') = Len(sent) + 1
        /\ got' \in Messages /\ Len(got') = Len(got) + 1
    BY <2>1, <2>2, PolynomialOfAppend DEF Checksums
  <2>4. Crc(sent') = CksumAdd(Crc(sent), b) /\ Crc(got') = CksumAdd(Crc(got), d)
    BY <2>1, <2>2, CrcOfAppend DEF Checksums
  <2> QED
    BY <2>2, <2>3, <2>4 DEF Checksums
<1>2. ASSUME EndOfData
      PROVE  Checksums'
  BY <1>2 DEF EndOfData, Checksums
<1>3. ASSUME NEW flipped \in Flips, CksumByte(flipped)
      PROVE  Checksums'
  BY <1>3 DEF CksumByte, Checksums
<1>4. CASE UNCHANGED vars
  BY <1>4 DEF vars, Checksums
<1> QED
  BY <1>1, <1>2, <1>3, <1>4 DEF Next

\* Whatever bytes are composed and however they are damaged on the line, the
\* table gives either side the remainder of its message by the generator, for
\* every length the parser computes a checksum of.
THEOREM TableIsAlwaysPolynomial == Spec => []TableIsPolynomial
<1>1. Checksums => TableIsPolynomial
  BY DEF Checksums, TableIsPolynomial
<1> QED
  BY ChecksumsInit, ChecksumsStep, <1>1, PTL DEF Spec

-----------------------------------------------------------------------------
(* What the damage does to the bytes the receiver has.                     *)

\* The exponents of the flipped bits of the data, and the bits of the checksum
\* that are flipped, whose high byte is first on the line.
ErrorBits == {e \in 16 .. 8 * Len(sent) + 15 : 8 * Len(sent) + 15 - e \in damage}

CksumErrors == {j \in 0 .. 15 : IF j >= 8 THEN 8 * Len(sent) + (j - 8) \in damage
                                          ELSE 8 * Len(sent) + 8 + j \in damage}

HighErrors == {j \in 0 .. 7 : 8 * Len(sent) + j \in damage}

OnLine == 8 * Len(sent) + (IF stage = "low" THEN 8 ELSE IF stage = "done" THEN 16 ELSE 0)

Damages ==
  /\ damage \in SUBSET (0 .. OnLine - 1)
  /\ Polynomial(got) = SymDiff(Polynomial(sent), ErrorBits)
  /\ stage \in {"data", "high"} => ref_cksum = {}
  /\ stage = "low" => ref_cksum = SymDiff(HighByte(tx_cksum), HighErrors)
  /\ stage = "done" => ref_cksum = SymDiff(tx_cksum, CksumErrors)

LEMMA DamagesInit == Init => Damages
<1> SUFFICES ASSUME Init
             PROVE  Damages
  OBVIOUS
<1>1. stage = "data" /\ damage = {} /\ sent = <<>> /\ got = <<>> /\ ref_cksum = {}
  BY DEF Init
<1>2. ErrorBits = {}
  BY <1>1 DEF ErrorBits
<1>3. Polynomial(got) = SymDiff(Polynomial(sent), ErrorBits)
  BY <1>1, <1>2, SumAlgebra
<1> QED
  BY <1>1, <1>3 DEF Damages

LEMMA UpByteOfSum ==
  ASSUME NEW p, NEW q
  PROVE  UpByte(SymDiff(p, q)) = SymDiff(UpByte(p), UpByte(q))
BY DEF UpByte, SymDiff

LEMMA BehindOfSum ==
  ASSUME NEW b, NEW f
  PROVE  Behind(SymDiff(b, f)) = SymDiff(Behind(b), Behind(f))
BY DEF Behind, SymDiff

LEMMA FourSums ==
  ASSUME NEW p, NEW q, NEW r, NEW s
  PROVE  SymDiff(SymDiff(p, q), SymDiff(r, s)) = SymDiff(SymDiff(p, r), SymDiff(q, s))
BY DEF SymDiff

\* A data byte.
LEMMA DamagesData ==
  ASSUME Checksums, Damages, NEW b \in Bytes, NEW flipped \in Flips, DataByte(b, flipped)
  PROVE  Damages'
<1> DEFINE d == SymDiff(b, flipped)
           n == Len(sent)
           sum == SymDiff(ErrorBits, Behind(flipped))
<1>1. b \in SUBSET (0 .. 7) /\ flipped \in SUBSET (0 .. 7) /\ d \in SUBSET (0 .. 7)
  BY CrcAssumption DEF SymDiff
<1>2. /\ stage = "data" /\ stage' = "data" /\ sent' = Append(sent, b) /\ got' = Append(got, d)
      /\ ref_cksum' = ref_cksum /\ Len(sent) < MaxLen
  BY DEF DataByte
<1> HIDE DEF d
<1>3. /\ sent \in Messages /\ got \in Messages /\ Len(got) = Len(sent) /\ n \in Nat
  BY DEF Checksums, Messages
<1>4. /\ Len(sent') = n + 1
      /\ Polynomial(sent') = UpByte(SymDiff(Polynomial(sent), Behind(b)))
      /\ Polynomial(got') = UpByte(SymDiff(Polynomial(got), Behind(d)))
  BY <1>1, <1>2, <1>3, PolynomialOfAppend
<1>5. damage' = damage \cup {8 * n + i : i \in flipped}
  <2>1. damage' = damage \cup {8 * (Len(sent') - 1) + i : i \in flipped}
    BY DEF DataByte, Damaged
  <2>2. Len(sent') - 1 = n
    BY <1>3, <1>4
  <2> QED
    BY <2>1, <2>2
<1>6. damage \in SUBSET (0 .. 8 * n - 1)
  BY <1>2, <1>3 DEF Damages, OnLine
<1> HIDE DEF n
<1>7. damage' \in SUBSET (0 .. OnLine' - 1)
  <2>1. OnLine' = 8 * n + 8
    BY <1>2, <1>3, <1>4 DEF OnLine
  <2>2. \A i \in flipped : 8 * n + i \in 0 .. 8 * n + 8 - 1
    BY <1>1, <1>3
  <2>3. 0 .. 8 * n - 1 \subseteq 0 .. 8 * n + 8 - 1
    BY <1>3
  <2>4. ASSUME NEW x \in damage'
        PROVE  x \in 0 .. 8 * n + 8 - 1
    <3>1. CASE x \in damage
      BY <1>6, <2>3, <3>1
    <3>2. CASE \E i \in flipped : x = 8 * n + i
      BY <2>2, <3>2
    <3> QED
      BY <1>5, <3>1, <3>2
  <2>5. damage' \in SUBSET (0 .. 8 * n + 8 - 1)
    BY <2>4
  <2>6. 0 .. OnLine' - 1 = 0 .. 8 * n + 8 - 1
    BY <1>3, <2>1
  <2> QED
    BY <2>5, <2>6
<1>8. ErrorBits' = UpByte(sum)
  <2>1. ASSUME NEW e \in Nat
        PROVE  e \in ErrorBits' <=> e - 8 \in sum
    <3>1. e \in ErrorBits' <=> e \in 16 .. 8 * (n + 1) + 15 /\ 8 * (n + 1) + 15 - e \in damage'
      BY <1>4 DEF ErrorBits
    <3>2. e - 8 \in ErrorBits <=> e - 8 \in 16 .. 8 * n + 15 /\ 8 * n + 15 - (e - 8) \in damage
      BY DEF ErrorBits, n
    <3>3. e - 8 \in Behind(flipped) <=> e - 8 \in 0 .. 15 /\ 15 - (e - 8) \in flipped
      BY DEF Behind
    <3>4. 8 * (n + 1) + 15 - e = 8 * n + 15 - (e - 8) /\ 15 - (e - 8) = 23 - e
          /\ 8 * (n + 1) + 15 - e = 8 * n + (23 - e)
      BY <1>3
    <3>5. 8 * n + (23 - e) \in damage' <=> 8 * n + (23 - e) \in damage \/ 23 - e \in flipped
      <4>1. \A i \in flipped : 8 * n + (23 - e) = 8 * n + i <=> i = 23 - e
        BY <1>1, <1>3
      <4> QED
        BY <1>5, <4>1
    <3>6. 8 * n + (23 - e) \in damage => e - 8 \in 16 .. 8 * n + 15 /\ e \in 16 .. 8 * (n + 1) + 15
      BY <1>3, <1>6
    <3>7. 23 - e \in flipped => e - 8 \in 0 .. 15 /\ e \in 16 .. 8 * (n + 1) + 15
                                 /\ ~(e - 8 \in 16 .. 8 * n + 15)
      BY <1>1, <1>3
    <3>8. e - 8 \in sum <=> (e - 8 \in ErrorBits) # (e - 8 \in Behind(flipped))
      BY DEF SymDiff
    <3> QED
      BY <3>1, <3>2, <3>3, <3>4, <3>5, <3>6, <3>7, <3>8
  <2>2. ErrorBits' \in SUBSET Nat
    BY <1>3, <1>4 DEF ErrorBits
  <2> HIDE DEF sum
  <2> QED
    BY <2>1, <2>2 DEF UpByte
<1>9. Behind(d) = SymDiff(Behind(b), Behind(flipped))
  BY BehindOfSum DEF d
<1>10. Polynomial(got) = SymDiff(Polynomial(sent), ErrorBits)
  BY DEF Damages
<1>11. SymDiff(Polynomial(got), Behind(d)) = SymDiff(SymDiff(Polynomial(sent), Behind(b)), sum)
  BY <1>9, <1>10, FourSums
<1> HIDE DEF sum
<1>12. Polynomial(got') = SymDiff(Polynomial(sent'), ErrorBits')
  BY <1>4, <1>8, <1>11, UpByteOfSum
<1>13. ref_cksum' = {}
  BY <1>2 DEF Damages
<1> QED
  BY <1>2, <1>7, <1>12, <1>13 DEF Damages

\* The first byte of the checksum.
LEMMA DamagesHigh ==
  ASSUME Checksums, Damages, NEW flipped \in Flips, CksumByte(flipped), stage = "high"
  PROVE  Damages'
<1> DEFINE n == Len(sent)
<1>1. flipped \in SUBSET (0 .. 7) /\ n \in Nat /\ tx_cksum \in SUBSET (0 .. 15)
  <2>1. sent \in Messages /\ tx_cksum = Crc(sent)
    BY DEF Checksums
  <2>2. n \in Nat
    BY <2>1 DEF Messages
  <2>3. Crc(sent) \in SUBSET (0 .. 15)
    BY <2>1, CrcIsRegister
  <2> QED
    BY <2>1, <2>2, <2>3, CrcAssumption
<1>2. /\ stage' = "low" /\ tx_cksum' = tx_cksum /\ sent' = sent /\ got' = got
      /\ ref_cksum' = {i + 8 : i \in LowByte(ref_cksum)} \cup SymDiff(HighByte(tx_cksum), flipped)
  BY DEF CksumByte
<1>3. damage' = damage \cup {8 * n + i : i \in flipped}
  <2>1. damage' = damage \cup {8 * (n + 1 - 1) + i : i \in flipped}
    BY DEF CksumByte, Damaged
  <2>2. n + 1 - 1 = n
    BY <1>1
  <2> HIDE DEF n
  <2> QED
    BY <2>1, <2>2
<1>4. damage \in SUBSET (0 .. 8 * n - 1) /\ ref_cksum = {}
  BY <1>1 DEF Damages, OnLine
<1>5. ref_cksum' = SymDiff(HighByte(tx_cksum), flipped)
  <2>1. {i + 8 : i \in LowByte(ref_cksum)} = {}
    BY <1>4 DEF LowByte
  <2> QED
    BY <1>2, <2>1
<1>6. \A d : d \in damage' <=> d \in damage \/ \E i \in flipped : d = 8 * n + i
  BY <1>3
<1>7. OnLine' = 8 * n + 8
  BY <1>2 DEF OnLine
<1>8. HighErrors' = {j \in 0 .. 7 : 8 * n + j \in damage'}
  BY <1>2 DEF HighErrors
<1>9. ErrorBits' = {e \in 16 .. 8 * n + 15 : 8 * n + 15 - e \in damage'}
  BY <1>2 DEF ErrorBits
<1>10. ErrorBits = {e \in 16 .. 8 * n + 15 : 8 * n + 15 - e \in damage}
  BY DEF ErrorBits
<1> HIDE DEF n
<1>11. damage' \in SUBSET (0 .. OnLine' - 1)
  <2>1. ASSUME NEW d \in damage'
        PROVE  d \in 0 .. 8 * n + 8 - 1
    <3>1. CASE d \in damage
      BY <1>1, <1>4, <3>1
    <3>2. CASE \E i \in flipped : d = 8 * n + i
      BY <1>1, <3>2
    <3> QED
      BY <1>6, <3>1, <3>2
  <2>5. damage' \in SUBSET (0 .. 8 * n + 8 - 1)
    BY <2>1
  <2>6. 0 .. OnLine' - 1 = 0 .. 8 * n + 8 - 1
    BY <1>1, <1>7
  <2> QED
    BY <2>5, <2>6
<1>12. HighErrors' = flipped
  <2>1. ASSUME NEW j \in 0 .. 7
        PROVE  8 * n + j \in damage' <=> j \in flipped
    <3>1. 8 * n + j \notin damage
      BY <1>1, <1>4
    <3>2. \A i \in flipped : 8 * n + j = 8 * n + i <=> j = i
      BY <1>1
    <3> QED
      BY <1>6, <3>1, <3>2
  <2> QED
    BY <1>1, <1>8, <2>1
<1>13. ErrorBits' = ErrorBits
  <2>1. ASSUME NEW e \in 16 .. 8 * n + 15
        PROVE  8 * n + 15 - e \in damage' <=> 8 * n + 15 - e \in damage
    <3>1. \A i \in flipped : 8 * n + 15 - e # 8 * n + i
      BY <1>1
    <3> QED
      BY <1>6, <3>1
  <2> QED
    BY <1>9, <1>10, <2>1
<1>14. Polynomial(got') = SymDiff(Polynomial(sent'), ErrorBits')
  BY <1>2, <1>13 DEF Damages
<1> QED
  BY <1>2, <1>5, <1>11, <1>12, <1>14 DEF Damages

\* The second.
LEMMA DamagesLow ==
  ASSUME Checksums, Damages, NEW flipped \in Flips, CksumByte(flipped), stage = "low"
  PROVE  Damages'
<1> DEFINE n == Len(sent)
<1>1. flipped \in SUBSET (0 .. 7) /\ n \in Nat /\ tx_cksum \in SUBSET (0 .. 15)
  <2>1. sent \in Messages /\ tx_cksum = Crc(sent)
    BY DEF Checksums
  <2>2. n \in Nat
    BY <2>1 DEF Messages
  <2>3. Crc(sent) \in SUBSET (0 .. 15)
    BY <2>1, CrcIsRegister
  <2> QED
    BY <2>1, <2>2, <2>3, CrcAssumption
<1>2. /\ stage' = "done" /\ tx_cksum' = tx_cksum /\ sent' = sent /\ got' = got
      /\ ref_cksum' = {i + 8 : i \in LowByte(ref_cksum)} \cup SymDiff(LowByte(tx_cksum), flipped)
  BY DEF CksumByte
<1>3. damage' = damage \cup {8 * n + 8 + i : i \in flipped}
  <2>1. damage' = damage \cup {8 * (n + 2 - 1) + i : i \in flipped}
    BY DEF CksumByte, Damaged
  <2>2. 8 * (n + 2 - 1) = 8 * n + 8
    BY <1>1
  <2> HIDE DEF n
  <2> QED
    BY <2>1, <2>2
<1>4. /\ damage \in SUBSET (0 .. 8 * n + 8 - 1)
      /\ ref_cksum = SymDiff(HighByte(tx_cksum), HighErrors)
  BY <1>1 DEF Damages, OnLine
<1>5. HighErrors = {j \in 0 .. 7 : 8 * n + j \in damage}
  BY DEF HighErrors
<1>6. \A d : d \in damage' <=> d \in damage \/ \E i \in flipped : d = 8 * n + 8 + i
  BY <1>3
<1>7. OnLine' = 8 * n + 16
  BY <1>2 DEF OnLine
<1>8. CksumErrors' = {j \in 0 .. 15 : IF j >= 8 THEN 8 * n + (j - 8) \in damage'
                                                ELSE 8 * n + 8 + j \in damage'}
  BY <1>2 DEF CksumErrors
<1>9. ErrorBits' = {e \in 16 .. 8 * n + 15 : 8 * n + 15 - e \in damage'}
  BY <1>2 DEF ErrorBits
<1>10. ErrorBits = {e \in 16 .. 8 * n + 15 : 8 * n + 15 - e \in damage}
  BY DEF ErrorBits
<1> HIDE DEF n
<1>11. damage' \in SUBSET (0 .. OnLine' - 1)
  <2>1. ASSUME NEW d \in damage'
        PROVE  d \in 0 .. 8 * n + 16 - 1
    <3>1. CASE d \in damage
      BY <1>1, <1>4, <3>1
    <3>2. CASE \E i \in flipped : d = 8 * n + 8 + i
      BY <1>1, <3>2
    <3> QED
      BY <1>6, <3>1, <3>2
  <2>5. damage' \in SUBSET (0 .. 8 * n + 16 - 1)
    BY <2>1
  <2>6. 0 .. OnLine' - 1 = 0 .. 8 * n + 16 - 1
    BY <1>1, <1>7
  <2> QED
    BY <2>5, <2>6
<1>12. ASSUME NEW j \in 0 .. 15
       PROVE  j \in ref_cksum' <=> j \in SymDiff(tx_cksum, CksumErrors')
  <2>1. j \in SymDiff(tx_cksum, CksumErrors') <=> (j \in tx_cksum) # (j \in CksumErrors')
    BY DEF SymDiff
  <2>2. j \in ref_cksum' <=> (\E i \in LowByte(ref_cksum) : j = i + 8)
                               \/ (j \in LowByte(tx_cksum)) # (j \in flipped)
    BY <1>2 DEF SymDiff
  <2>3. CASE j >= 8
    <3>1. ~(j \in LowByte(tx_cksum)) /\ ~(j \in flipped)
      BY <1>1, <2>3 DEF LowByte
    <3>2. (\E i \in LowByte(ref_cksum) : j = i + 8) <=> j - 8 \in ref_cksum
      BY <2>3 DEF LowByte
    <3>3. j - 8 \in HighByte(tx_cksum) <=> j \in tx_cksum
      BY <2>3 DEF HighByte
    <3>4. j - 8 \in HighErrors <=> 8 * n + (j - 8) \in damage
      BY <1>5, <2>3
    <3>5. j - 8 \in ref_cksum <=> (j - 8 \in HighByte(tx_cksum)) # (j - 8 \in HighErrors)
      BY <1>4 DEF SymDiff
    <3>6. j \in CksumErrors' <=> 8 * n + (j - 8) \in damage'
      BY <1>8, <2>3
    <3>7. \A i \in flipped : 8 * n + (j - 8) # 8 * n + 8 + i
      BY <1>1, <2>3
    <3>8. 8 * n + (j - 8) \in damage' <=> 8 * n + (j - 8) \in damage
      BY <1>6, <3>7
    <3> QED
      BY <2>1, <2>2, <3>1, <3>2, <3>3, <3>4, <3>5, <3>6, <3>8
  <2>4. CASE j < 8
    <3>1. j \in LowByte(tx_cksum) <=> j \in tx_cksum
      BY <2>4 DEF LowByte
    <3>2. ~(\E i \in LowByte(ref_cksum) : j = i + 8)
      BY <2>4 DEF LowByte
    <3>3. j \in CksumErrors' <=> 8 * n + 8 + j \in damage'
      BY <1>8, <2>4
    <3>4. 8 * n + 8 + j \notin damage
      BY <1>1, <1>4
    <3>5. \A i \in flipped : 8 * n + 8 + j = 8 * n + 8 + i <=> j = i
      BY <1>1
    <3>6. 8 * n + 8 + j \in damage' <=> j \in flipped
      BY <1>6, <3>4, <3>5
    <3> QED
      BY <2>1, <2>2, <3>1, <3>2, <3>3, <3>6
  <2> QED
    BY <2>3, <2>4
<1>13. ref_cksum' = SymDiff(tx_cksum, CksumErrors')
  <2>1. ref_cksum' \in SUBSET (0 .. 15)
    <3>1. \A i \in LowByte(ref_cksum) : i + 8 \in 0 .. 15
      BY DEF LowByte
    <3>2. SymDiff(LowByte(tx_cksum), flipped) \in SUBSET (0 .. 15)
      BY <1>1 DEF LowByte, SymDiff
    <3> QED
      BY <1>2, <3>1, <3>2
  <2>2. SymDiff(tx_cksum, CksumErrors') \in SUBSET (0 .. 15)
    BY <1>1, <1>8 DEF SymDiff
  <2> QED
    BY <1>12, <2>1, <2>2
<1>14. ErrorBits' = ErrorBits
  <2>1. ASSUME NEW e \in 16 .. 8 * n + 15
        PROVE  8 * n + 15 - e \in damage' <=> 8 * n + 15 - e \in damage
    <3>1. \A i \in flipped : 8 * n + 15 - e # 8 * n + 8 + i
      BY <1>1
    <3> QED
      BY <1>6, <3>1
  <2> QED
    BY <1>9, <1>10, <2>1
<1>15. Polynomial(got') = SymDiff(Polynomial(sent'), ErrorBits')
  BY <1>2, <1>14 DEF Damages
<1> QED
  BY <1>2, <1>11, <1>13, <1>15 DEF Damages

LEMMA DamagesStep == Checksums /\ Damages /\ [Next]_vars => Damages'
<1> SUFFICES ASSUME Checksums, Damages, [Next]_vars
             PROVE  Damages'
  OBVIOUS
<1>1. ASSUME NEW b \in Bytes, NEW flipped \in Flips, DataByte(b, flipped)
      PROVE  Damages'
  BY <1>1, DamagesData
<1>2. ASSUME EndOfData
      PROVE  Damages'
  <2>1. /\ stage = "data" /\ stage' = "high" /\ sent' = sent /\ got' = got
        /\ damage' = damage /\ ref_cksum' = ref_cksum
    BY <1>2 DEF EndOfData
  <2>2. ErrorBits' = ErrorBits
    BY <2>1 DEF ErrorBits
  <2>3. OnLine' = OnLine
    BY <2>1 DEF OnLine
  <2> QED
    BY <2>1, <2>2, <2>3 DEF Damages
<1>3. ASSUME NEW flipped \in Flips, CksumByte(flipped)
      PROVE  Damages'
  <2>1. stage \in {"high", "low"}
    BY <1>3 DEF CksumByte
  <2> QED
    BY <1>3, <2>1, DamagesHigh, DamagesLow
<1>4. CASE UNCHANGED vars
  <2>1. /\ stage' = stage /\ sent' = sent /\ got' = got /\ tx_cksum' = tx_cksum
        /\ damage' = damage /\ ref_cksum' = ref_cksum
    BY <1>4 DEF vars
  <2>2. ErrorBits' = ErrorBits /\ CksumErrors' = CksumErrors /\ HighErrors' = HighErrors /\ OnLine' = OnLine
    BY <2>1 DEF ErrorBits, CksumErrors, HighErrors, OnLine
  <2> QED
    BY <2>1, <2>2 DEF Damages
<1> QED
  BY <1>1, <1>2, <1>3, <1>4 DEF Next

-----------------------------------------------------------------------------
(* What the receiver finds.                                                *)

\* It accepts when the damage of the checksum is what that of the data does.
LEMMA AcceptedWhen ==
  ASSUME Checksums, Damages, stage = "done"
  PROVE  /\ ErrorBits \in SUBSET Exponents
         /\ Accepted <=> CksumErrors = RegisterOf(ErrorBits)
<1>1. /\ sent \in Messages /\ got \in Messages
      /\ tx_cksum = Crc(sent) /\ cksum = Crc(got)
  BY DEF Checksums
<1>2. /\ Polynomial(got) = SymDiff(Polynomial(sent), ErrorBits)
      /\ ref_cksum = SymDiff(tx_cksum, CksumErrors)
  BY DEF Damages
<1>3. Polynomial(sent) \in SUBSET Exponents
  BY <1>1, PolynomialMembers
<1>4. ErrorBits \in SUBSET Exponents
  <2>1. Len(sent) \in Nat /\ Len(sent) <= MaxLen
    BY <1>1 DEF Messages
  <2> QED
    BY <2>1, TopIsLarge DEF ErrorBits, Top
<1>5. RegisterOf(Polynomial(got)) = SymDiff(RegisterOf(Polynomial(sent)), RegisterOf(ErrorBits))
  BY <1>2, <1>3, <1>4, RegisterOfSums
<1>6. cksum = SymDiff(tx_cksum, RegisterOf(ErrorBits))
  BY <1>1, <1>5, CrcIsRegister
<1>7. SymDiff(tx_cksum, CksumErrors) = SymDiff(tx_cksum, RegisterOf(ErrorBits))
        <=> CksumErrors = RegisterOf(ErrorBits)
  BY SumAlgebra
<1> QED
  BY <1>2, <1>4, <1>6, <1>7 DEF Accepted

\* The flipped bits are those of the data and those of the checksum.
LEMMA DamageCounted ==
  ASSUME Checksums, Damages, stage = "done"
  PROVE  /\ IsFiniteSet(damage) /\ IsFiniteSet(ErrorBits) /\ IsFiniteSet(CksumErrors)
         /\ Cardinality(damage) = Cardinality(ErrorBits) + Cardinality(CksumErrors)
<1> DEFINE n == Len(sent)
           data == damage \cap 0 .. 8 * n - 1
           rest == damage \ (0 .. 8 * n - 1)
<1>1. n \in Nat
  BY DEF Checksums, Messages
<1>2. damage \in SUBSET (0 .. 8 * n + 16 - 1)
  BY <1>1 DEF Damages, OnLine
<1>3. CksumErrors = {j \in 0 .. 15 : IF j >= 8 THEN 8 * n + (j - 8) \in damage
                                               ELSE 8 * n + 8 + j \in damage}
  BY DEF CksumErrors
<1>4. ErrorBits = {e \in 16 .. 8 * n + 15 : 8 * n + 15 - e \in damage}
  BY DEF ErrorBits
<1> HIDE DEF n
<1>5. 8 * n + 16 - 1 \in Nat
  BY <1>1
<1>6. IsFiniteSet(damage)
  BY <1>2, <1>5, FinitePolynomials
<1>7. IsFiniteSet(data) /\ IsFiniteSet(rest)
  <2>1. data \in SUBSET damage /\ rest \in SUBSET damage
    OBVIOUS
  <2> QED
    BY <1>6, <2>1, FS_Subset
<1>8. Cardinality(damage) = Cardinality(data) + Cardinality(rest)
  <2>1. data \cup rest = damage /\ data \cap rest = {}
    OBVIOUS
  <2>2. Cardinality(data \cup rest) = Cardinality(data) + Cardinality(rest) - Cardinality(data \cap rest)
    BY <1>7, FS_Union
  <2>3. Cardinality(data) \in Nat /\ Cardinality(rest) \in Nat
    BY <1>7, FS_CardinalityType
  <2> HIDE DEF data, rest
  <2>4. Cardinality(data \cap rest) = 0
    BY <2>1, FS_EmptySet
  <2>5. Cardinality(data \cup rest) = Cardinality(damage)
    BY <2>1
  <2>6. \A x, y \in Nat : x + y - 0 = x + y
    OBVIOUS
  <2> QED
    BY <2>2, <2>3, <2>4, <2>5, <2>6
<1>9. IsFiniteSet(ErrorBits) /\ Cardinality(ErrorBits) = Cardinality(data)
  <2>1. \A x \in Int : x \in ErrorBits <=> (8 * n + 15) - x \in data
    BY <1>1, <1>4
  <2>2. ErrorBits \in SUBSET Int /\ data \in SUBSET Int /\ 8 * n + 15 \in Int
    BY <1>1, <1>2, <1>4
  <2> HIDE DEF data
  <2> QED
    BY <1>7, <2>1, <2>2, Mirrored
<1>10. IsFiniteSet(CksumErrors) /\ Cardinality(CksumErrors) = Cardinality(rest)
  <2> DEFINE f == [d \in rest |-> IF d < 8 * n + 8 THEN d - 8 * n + 8 ELSE d - 8 * n - 8]
  <2>1. \A d \in rest : d \in Int /\ 8 * n <= d /\ d <= 8 * n + 15 /\ d \in damage
    BY <1>1, <1>2
  <2>2. ASSUME NEW d \in rest
        PROVE  f[d] \in CksumErrors
    <3>1. CASE d < 8 * n + 8
      <4>1. f[d] = d - 8 * n + 8 /\ f[d] \in 8 .. 15 /\ 8 * n + (f[d] - 8) = d
        BY <1>1, <2>1, <3>1
      <4> QED
        BY <1>3, <2>1, <4>1
    <3>2. CASE ~(d < 8 * n + 8)
      <4>1. f[d] = d - 8 * n - 8 /\ f[d] \in 0 .. 7 /\ 8 * n + 8 + f[d] = d
        BY <1>1, <2>1, <3>2
      <4> QED
        BY <1>3, <2>1, <4>1
    <3> QED
      BY <3>1, <3>2
  <2>3. f \in [rest -> CksumErrors]
    BY <2>2
  <2>4. ASSUME NEW x \in rest, NEW y \in rest, f[x] = f[y]
        PROVE  x = y
    BY <1>1, <2>1, <2>4
  <2>5. ASSUME NEW z \in CksumErrors
        PROVE  \E x \in rest : f[x] = z
    <3>1. CASE z >= 8
      <4>1. z \in 8 .. 15 /\ 8 * n + (z - 8) \in damage
        BY <1>3, <3>1
      <4>2. 8 * n + (z - 8) \in rest /\ f[8 * n + (z - 8)] = z
        BY <1>1, <4>1
      <4> QED
        BY <4>2
    <3>2. CASE ~(z >= 8)
      <4>1. z \in 0 .. 7 /\ 8 * n + 8 + z \in damage
        BY <1>3, <3>2
      <4>2. 8 * n + 8 + z \in rest /\ f[8 * n + 8 + z] = z
        BY <1>1, <4>1
      <4> QED
        BY <4>2
    <3> QED
      BY <3>1, <3>2
  <2> HIDE DEF f, rest
  <2> QED
    BY <1>7, <2>3, <2>4, <2>5, SameSize
<1> QED
  BY <1>6, <1>8, <1>9, <1>10

LEMMA RegisterCounted ==
  ASSUME NEW p \in SUBSET Exponents
  PROVE  /\ IsFiniteSet(p) /\ IsFiniteSet(RegisterOf(p))
         /\ Cardinality(RegisterOf(p)) % 2 = Cardinality(p) % 2
         /\ RegisterOf(p) = {} <=> Remainder[p] = {}
<1> DEFINE r == Remainder[p]
<1>1. r \in SUBSET (0 .. 15)
  BY RemainderIsSmall
<1>2. IsFiniteSet(p) /\ IsFiniteSet(r) /\ Cardinality(r) % 2 = Cardinality(p) % 2
  BY RemainderParity
<1> HIDE DEF r
<1>3. Register(r) \in SUBSET (0 .. 15) /\ \A i \in 0 .. 15 : i \in Register(r) <=> 15 - i \in r
  BY <1>1, RegisterMembers
<1>4. \A x \in Int : x \in Register(r) <=> 15 - x \in r
  BY <1>1, <1>3
<1>5. IsFiniteSet(Register(r)) /\ Cardinality(Register(r)) = Cardinality(r)
  <2>1. r \in SUBSET Int /\ Register(r) \in SUBSET Int /\ 15 \in Int
    BY <1>1, <1>3
  <2> QED
    BY <1>2, <1>4, <2>1, Mirrored
<1>6. Register(r) = {} <=> r = {}
  BY DEF Register
<1> QED
  BY <1>2, <1>5, <1>6 DEF RegisterOf, r

LEMMA Pairs ==
  ASSUME NEW S, IsFiniteSet(S), Cardinality(S) = 2
  PROVE  \E a, b \in S : a # b /\ S = {a, b}
<1>1. S # {}
  BY FS_EmptySet
<1>2. PICK a \in S : TRUE
  BY <1>1
<1>3. IsFiniteSet(S \ {a}) /\ Cardinality(S \ {a}) = 1
  BY FS_RemoveElement
<1>4. PICK b : S \ {a} = {b}
  BY <1>3, FS_Singleton
<1>5. b \in S /\ b # a /\ S = {a, b}
  BY <1>2, <1>4
<1> QED
  BY <1>5

LEMMA Detects ==
  ASSUME Checksums, Damages, Accepted, Detectable
  PROVE  FALSE
<1> DEFINE n == Len(sent)
           error == ErrorBits
           flips == CksumErrors
<1>1. stage = "done"
  BY DEF Accepted
<1>2. error \in SUBSET Exponents /\ flips = RegisterOf(error)
  BY <1>1, AcceptedWhen
<1>3. /\ IsFiniteSet(damage) /\ IsFiniteSet(error) /\ IsFiniteSet(flips)
      /\ Cardinality(damage) = Cardinality(error) + Cardinality(flips)
  BY <1>1, DamageCounted
<1>4. /\ Cardinality(flips) % 2 = Cardinality(error) % 2
      /\ flips = {} <=> Remainder[error] = {}
  BY <1>2, RegisterCounted
<1>5. n \in Nat /\ damage \in SUBSET (0 .. 8 * n + 16 - 1)
  BY <1>1 DEF Checksums, Messages, Damages, OnLine
<1>6. error = {e \in 16 .. 8 * n + 15 : 8 * n + 15 - e \in damage}
  BY DEF ErrorBits
<1>7. Cardinality(error) \in Nat /\ Cardinality(flips) \in Nat
  BY <1>3, FS_CardinalityType
<1>8. DataBits = 0 .. 8 * n - 1
  BY DEF DataBits
<1> HIDE DEF n, error, flips
<1>9. error = {} => flips = {} /\ damage = {}
  <2>1. Remainder[{}] = {}
    BY RemainderOfSmall
  <2>2. error = {} => flips = {}
    BY <1>4, <2>1
  <2>3. error = {} => Cardinality(damage) = 0
    BY <1>3, <2>2, FS_EmptySet
  <2> QED
    BY <1>3, <2>2, <2>3, FS_EmptySet
<1>10. CASE Cardinality(damage) % 2 = 1
  <2>1. \A x, y \in Nat : x % 2 = y % 2 => (x + y) % 2 # 1
    OBVIOUS
  <2> QED
    BY <1>3, <1>4, <1>7, <1>10, <2>1
<1>11. CASE Cardinality(damage) = 2
  <2>1. CASE Cardinality(error) = 2
    <3>1. flips = {}
      BY <1>3, <1>7, <1>11, <2>1, FS_EmptySet
    <3>2. PICK a \in error, b \in error : a # b /\ error = {a, b}
      BY <1>3, <2>1, Pairs
    <3>3. a \in 0 .. Top /\ b \in 0 .. Top
      BY <1>2, TopIsLarge
    <3>4. Remainder[{a, b}] # {}
      <4>1. CASE b < a
        BY <3>3, <4>1, TwoBits
      <4>2. CASE a < b
        <5>1. {a, b} = {b, a}
          OBVIOUS
        <5> QED
          BY <3>3, <4>2, <5>1, TwoBits
      <4>3. a < b \/ b < a
        BY <3>2, <3>3, TopIsLarge
      <4> QED
        BY <3>2, <4>1, <4>2, <4>3
    <3> QED
      BY <1>4, <3>1, <3>2, <3>4
  <2>2. CASE Cardinality(error) = 1
    <3>1. Cardinality(flips) = 1
      BY <1>3, <1>7, <1>11, <2>2
    <3>2. PICK e : error = {e}
      BY <1>3, <2>2, FS_Singleton
    <3>3. PICK j : flips = {j}
      BY <1>3, <3>1, FS_Singleton
    <3>4. e \in 16 .. Top
      <4>1. e \in 0 .. Top
        BY <1>2, <3>2, TopIsLarge
      <4>2. e \in 16 .. 8 * n + 15
        BY <1>6, <3>2
      <4> QED
        BY <4>1, <4>2
    <3>5. flips \in SUBSET (0 .. 15) /\ Remainder[error] \in SUBSET (0 .. 15)
      BY <1>2, RegisterOfIsSmall, RemainderIsSmall
    <3>6. j \in 0 .. 15 /\ 15 - j \in 0 .. 15 /\ 15 - j \in 0 .. Top
      BY <3>3, <3>5, TopIsLarge
    <3>7. Remainder[error] = {15 - j}
      <4>1. Register(Remainder[error]) = {j}
        BY <1>2, <3>3 DEF RegisterOf
      <4>2. Register(Register(Remainder[error])) = Remainder[error]
        BY <3>5, RegisterProperties
      <4>3. Register({j}) = {15 - j}
        BY DEF Register
      <4> QED
        BY <4>1, <4>2, <4>3
    <3>8. Remainder[{15 - j}] = {15 - j}
      BY <3>6, RemainderOfSmall
    <3>9. SymDiff({e}, {15 - j}) = {e, 15 - j}
      BY <3>4, <3>6 DEF SymDiff
    <3>10. Remainder[{e, 15 - j}] = SymDiff({15 - j}, {15 - j})
      <4>1. {15 - j} \in SUBSET Exponents
        BY <3>6, TopIsLarge
      <4>2. Remainder[SymDiff(error, {15 - j})] = SymDiff(Remainder[error], Remainder[{15 - j}])
        BY <1>2, <4>1, RemainderOfSum
      <4> QED
        BY <3>2, <3>7, <3>8, <3>9, <4>2
    <3>11. Remainder[{e, 15 - j}] = {}
      BY <3>10, SumAlgebra
    <3>12. e \in 0 .. Top /\ 15 - j < e
      BY <3>4, <3>6
    <3> QED
      BY <3>6, <3>11, <3>12, TwoBits
  <2>3. CASE Cardinality(error) = 0
    <3>1. damage = {}
      BY <1>3, <1>9, <2>3, FS_EmptySet
    <3> QED
      BY <1>11, <3>1, FS_EmptySet
  <2>4. Cardinality(error) \in {0, 1, 2}
    BY <1>3, <1>7, <1>11
  <2> QED
    BY <2>1, <2>2, <2>3, <2>4
<1>12. CASE damage # {} /\ damage \cap DataBits = {}
  <2>1. ASSUME NEW e \in error
        PROVE  FALSE
    <3>1. 8 * n + 15 - e \in damage /\ e \in 16 .. 8 * n + 15
      BY <1>6
    <3>2. 8 * n + 15 - e \in DataBits
      BY <1>5, <1>8, <3>1
    <3> QED
      BY <1>12, <3>1, <3>2
  <2>2. error = {}
    BY <2>1
  <2> QED
    BY <1>9, <1>12, <2>2
<1>13. CASE damage # {} /\ damage \subseteq DataBits /\ Max(damage) - Min(damage) < 16
  <2> DEFINE high == Max(damage)
             low == Min(damage)
  <2>1. 8 * n + 16 - 1 \in Nat
    BY <1>5
  <2>2. high \in damage /\ \A d \in damage : d <= high
    BY <1>5, <1>13, <2>1, Highest
  <2>3. low \in damage /\ \A d \in damage : low <= d
    BY <1>5, <1>13, Lowest
  <2>4. high - low < 16
    BY <1>13
  <2> HIDE DEF high, low
  <2>5. high \in Nat /\ low \in Nat /\ high <= 8 * n - 1
    BY <1>5, <1>8, <1>13, <2>2, <2>3
  <2> DEFINE k == 8 * n + 15 - high
  <2>6. k \in Nat
    BY <1>5, <2>5
  <2>7. ASSUME NEW e \in error
        PROVE  k <= e /\ e <= k + 15
    <3>1. 8 * n + 15 - e \in damage /\ e \in 16 .. 8 * n + 15
      BY <1>6
    <3>2. low <= 8 * n + 15 - e /\ 8 * n + 15 - e <= high
      BY <2>2, <2>3, <3>1
    <3> QED
      BY <1>5, <2>4, <2>5, <3>1, <3>2
  <2>8. error # {}
    BY <1>9, <1>13
  <2> HIDE DEF k
  <2>9. Remainder[error] # {}
    BY <1>2, <2>6, <2>7, <2>8, Bursts
  <2>10. Cardinality(flips) = 0
    <3>1. 8 * n + 15 - 16 = 8 * n - 1
      BY <1>5
    <3>2. ASSUME NEW j \in flips
          PROVE  FALSE
      <4>1. j \in 0 .. 15 /\ IF j >= 8 THEN 8 * n + (j - 8) \in damage ELSE 8 * n + 8 + j \in damage
        BY DEF flips, CksumErrors, n
      <4>2. \A d \in damage : d <= 8 * n - 1
        BY <1>8, <1>13
      <4> QED
        BY <1>5, <4>1, <4>2
    <3> QED
      BY <3>2, FS_EmptySet
  <2> QED
    BY <1>3, <1>4, <2>9, <2>10, FS_EmptySet
<1> QED
  BY <1>10, <1>11, <1>12, <1>13 DEF Detectable

LEMMA AcceptsIntact ==
  ASSUME Checksums, Damages, stage = "done", damage = {}
  PROVE  Accepted
<1>1. ErrorBits = {} /\ CksumErrors = {}
  BY DEF ErrorBits, CksumErrors
<1>2. RegisterOf({}) = {}
  BY RemainderOfSmall DEF RegisterOf, Register
<1> QED
  BY <1>1, <1>2, AcceptedWhen

\* The receiver accepts no frame's head or body in which an odd number of bits,
\* two bits, a burst of at most 16 bits of the data or bits of the checksum alone
\* were flipped, whatever its bytes and its length; and every intact one.
THEOREM DamageIsDetected == Spec => []DamageDetected
<1>1. Checksums /\ Damages => DamageDetected
  BY Detects, AcceptsIntact DEF DamageDetected
<1>2. Init => Checksums /\ Damages
  BY ChecksumsInit, DamagesInit
<1>3. Checksums /\ Damages /\ [Next]_vars => (Checksums /\ Damages)'
  BY ChecksumsStep, DamagesStep
<1> QED
  BY <1>1, <1>2, <1>3, PTL DEF Spec
=============================================================================
