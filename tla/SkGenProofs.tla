------------------------------ MODULE SkGenProofs ------------------------------
(***************************************************************************)
(* Theorems about genpoly_gen for both fields, every number of rows, every *)
(* modulus and every f: type correctness, and that the elimination returns *)
(* the minimal polynomial of f exactly when 1, f, ..., f^(t-1) are         *)
(* independent.  The column operations change the rows, but keep all       *)
(* linear relations between them; those between the powers of f are read   *)
(* off the rows at the end.  Last, gf_mul_inplace computes the residue of  *)
(* the product of polynomials in y and z, so that f is a root of the       *)
(* result in the reference arithmetic of SkGen.                            *)
(***************************************************************************)
EXTENDS SkGen, FiniteSetTheorems, TLAPS

-------------------------------------------------------------------------------
(* The two fields: the lemmas of LinearLemmas, for the operators of GFChains.  *)

W12 == INSTANCE LinearLemmas WITH GFBITS <- 12, TAPS <- {3, 0},
                                  SYS_T <- 64, SYS_N <- 3488
W13 == INSTANCE LinearLemmas WITH GFBITS <- 13, TAPS <- {4, 3, 1, 0},
                                  SYS_T <- 96, SYS_N <- 4608

(* The sizes of the field, and its elements. *)
Sizes == {12, 13}

Gf(n) == SUBSET (0..(n - 1))

(* What GF assumes of its constants holds in both instances. *)
LEMMA InstancesAreFields ==
  /\ 12 \in Nat \ {0} /\ {3, 0} \subseteq 0..11 /\ {3, 0} # {0}
  /\ \A s, u \in {3, 0} : s + u <= 13
  /\ 13 \in Nat \ {0} /\ {4, 3, 1, 0} \subseteq 0..12 /\ {4, 3, 1, 0} # {0}
  /\ \A s, u \in {4, 3, 1, 0} : s + u <= 14
OBVIOUS

(* The two names of each operator of GF. *)
LEMMA SameOdd ==
  /\ \A S : W12!Odd(S) = G12!Odd(S)
  /\ \A S : W13!Odd(S) = G13!Odd(S)
  /\ \A S : G13!Odd(S) = (Cardinality(S) % 2 = 1)
<1>1. /\ \A S : W12!Cardinality(S) = G12!Cardinality(S)
      /\ \A S : W13!Cardinality(S) = G13!Cardinality(S)
  BY DEF W12!Cardinality, G12!Cardinality, W13!Cardinality, G13!Cardinality
<1>2. \A S : G13!Cardinality(S) = Cardinality(S)
  BY DEF G13!Cardinality, Cardinality
<1>. QED
  BY <1>1, <1>2 DEF W12!Odd, G12!Odd, W13!Odd, G13!Odd

LEMMA SameSymDiff ==
  /\ \A a, b : W12!SymDiff(a, b) = SymDiff(a, b)
  /\ \A a, b : W13!SymDiff(a, b) = SymDiff(a, b)
BY DEF W12!SymDiff, W13!SymDiff, SymDiff

LEMMA SameFoldAt == W12!FoldAt = G12!FoldAt /\ W13!FoldAt = G13!FoldAt
<1>1. /\ \A S : W12!Max(S) = G12!Max(S)
      /\ \A S : W13!Max(S) = G13!Max(S)
  BY DEF W12!Max, G12!Max, W13!Max, G13!Max
<1>. QED
  BY <1>1 DEF W12!FoldAt, G12!FoldAt, W13!FoldAt, G13!FoldAt

LEMMA SameMul ==
  /\ \A a, b : W12!gf_mul(a, b) = G12!gf_mul(a, b)
  /\ \A a, b : W13!gf_mul(a, b) = G13!gf_mul(a, b)
<1>1. /\ \A a, b : W12!PolyMul(a, b) = G12!PolyMul(a, b)
      /\ \A a, b : W12!FoldBand(a, b) = G12!FoldBand(a, b)
  BY SameOdd DEF W12!PolyMul, G12!PolyMul, W12!FoldBand, G12!FoldBand
<1>2. /\ \A a, b : W13!PolyMul(a, b) = G13!PolyMul(a, b)
      /\ \A a, b : W13!FoldBand(a, b) = G13!FoldBand(a, b)
  BY SameOdd DEF W13!PolyMul, G13!PolyMul, W13!FoldBand, G13!FoldBand
<1>3. \A a, b : W12!gf_mul(a, b) = G12!gf_mul(a, b)
  BY <1>1, SameFoldAt DEF W12!gf_mul, G12!gf_mul
<1>4. \A a, b : W13!gf_mul(a, b) = G13!gf_mul(a, b)
  BY <1>2, SameFoldAt DEF W13!gf_mul, G13!gf_mul
<1>. QED
  BY <1>3, <1>4

(* Both multiplications are those of a commutative ring. *)
LEMMA MulLaws ==
  ASSUME NEW n \in Sizes
  PROVE  /\ {} \in Gf(n) /\ {0} \in Gf(n)
         /\ \A a, b \in Gf(n) :
              /\ SymDiff(a, b) \in Gf(n)
              /\ gf_mul(n, a, b) \in Gf(n)
              /\ gf_mul(n, a, b) = gf_mul(n, b, a)
         /\ \A a, b, c \in Gf(n) :
              /\ gf_mul(n, gf_mul(n, a, b), c) = gf_mul(n, a, gf_mul(n, b, c))
              /\ gf_mul(n, SymDiff(a, b), c) = SymDiff(gf_mul(n, a, c), gf_mul(n, b, c))
         /\ \A a \in Gf(n) : gf_mul(n, {0}, a) = a
<1>1. {} \in Gf(n) /\ {0} \in Gf(n)
  BY DEF Gf, Sizes
<1>2. \A a, b \in Gf(n) : SymDiff(a, b) \in Gf(n)
  BY DEF Gf, SymDiff
<1>3. CASE n = 12
  <2>1. Gf(n) = W12!Gf /\ W12!One = {0}
    BY <1>3 DEF Gf, W12!Gf, W12!One
  <2>2. \A a, b : gf_mul(n, a, b) = W12!gf_mul(a, b) /\ W12!gf_add(a, b) = SymDiff(a, b)
    BY <1>3, SameMul, SameSymDiff DEF gf_mul, W12!gf_add
  <2>. DEFINE G == W12!Gf
  <2>3a. \A a, b \in G : W12!gf_mul(a, b) \in G /\ W12!gf_mul(a, b) = W12!gf_mul(b, a)
    BY W12!MulIsRingMultiplication DEF W12!PK_NROWS
  <2>3b. \A a, b, c \in G : W12!gf_mul(W12!gf_mul(a, b), c) = W12!gf_mul(a, W12!gf_mul(b, c))
    BY W12!MulIsRingMultiplication DEF W12!PK_NROWS
  <2>3c. \A a, b, c \in G :
           W12!gf_mul(W12!gf_add(a, b), c) = W12!gf_add(W12!gf_mul(a, c), W12!gf_mul(b, c))
    BY W12!MulIsRingMultiplication DEF W12!PK_NROWS
  <2>3d. \A a \in G : W12!gf_mul(W12!One, a) = a
    BY W12!MulIsRingMultiplication DEF W12!PK_NROWS
  <2>4. Gf(n) = G
    BY <2>1
  <2>. HIDE DEF G
  <2>5. \A a, b \in Gf(n) : gf_mul(n, a, b) \in Gf(n) /\ gf_mul(n, a, b) = gf_mul(n, b, a)
    BY ONLY <2>2, <2>3a, <2>3b, <2>3c, <2>4
  <2>6. \A a, b, c \in Gf(n) :
          /\ gf_mul(n, gf_mul(n, a, b), c) = gf_mul(n, a, gf_mul(n, b, c))
          /\ gf_mul(n, SymDiff(a, b), c) = SymDiff(gf_mul(n, a, c), gf_mul(n, b, c))
    BY ONLY <2>2, <2>3a, <2>3b, <2>3c, <2>4
  <2>7. \A a \in Gf(n) : gf_mul(n, {0}, a) = a
    BY ONLY <2>1, <2>2, <2>3d, <2>4
  <2>. QED
    BY ONLY <1>1, <1>2, <2>5, <2>6, <2>7
<1>4. CASE n = 13
  <2>1. Gf(n) = W13!Gf /\ W13!One = {0}
    BY <1>4 DEF Gf, W13!Gf, W13!One
  <2>2. \A a, b : gf_mul(n, a, b) = W13!gf_mul(a, b) /\ W13!gf_add(a, b) = SymDiff(a, b)
    BY <1>4, SameMul, SameSymDiff DEF gf_mul, W13!gf_add
  <2>. DEFINE G == W13!Gf
  <2>3a. \A a, b \in G : W13!gf_mul(a, b) \in G /\ W13!gf_mul(a, b) = W13!gf_mul(b, a)
    BY W13!MulIsRingMultiplication DEF W13!PK_NROWS
  <2>3b. \A a, b, c \in G : W13!gf_mul(W13!gf_mul(a, b), c) = W13!gf_mul(a, W13!gf_mul(b, c))
    BY W13!MulIsRingMultiplication DEF W13!PK_NROWS
  <2>3c. \A a, b, c \in G :
           W13!gf_mul(W13!gf_add(a, b), c) = W13!gf_add(W13!gf_mul(a, c), W13!gf_mul(b, c))
    BY W13!MulIsRingMultiplication DEF W13!PK_NROWS
  <2>3d. \A a \in G : W13!gf_mul(W13!One, a) = a
    BY W13!MulIsRingMultiplication DEF W13!PK_NROWS
  <2>4. Gf(n) = G
    BY <2>1
  <2>. HIDE DEF G
  <2>5. \A a, b \in Gf(n) : gf_mul(n, a, b) \in Gf(n) /\ gf_mul(n, a, b) = gf_mul(n, b, a)
    BY ONLY <2>2, <2>3a, <2>3b, <2>3c, <2>4
  <2>6. \A a, b, c \in Gf(n) :
          /\ gf_mul(n, gf_mul(n, a, b), c) = gf_mul(n, a, gf_mul(n, b, c))
          /\ gf_mul(n, SymDiff(a, b), c) = SymDiff(gf_mul(n, a, c), gf_mul(n, b, c))
    BY ONLY <2>2, <2>3a, <2>3b, <2>3c, <2>4
  <2>7. \A a \in Gf(n) : gf_mul(n, {0}, a) = a
    BY ONLY <2>1, <2>2, <2>3d, <2>4
  <2>. QED
    BY ONLY <1>1, <1>2, <2>5, <2>6, <2>7
<1>. QED
  BY ONLY <1>3, <1>4, n \in Sizes DEF Sizes

(* The operations stay in the field. *)
LEMMA GfBasics ==
  \A n \in Sizes :
    /\ {} \in Gf(n) /\ {0} \in Gf(n)
    /\ \A a, b \in Gf(n) : SymDiff(a, b) \in Gf(n) /\ gf_mul(n, a, b) \in Gf(n)
BY MulLaws

(* The laws of MulLaws by their names. *)
LEMMA MulCommutes ==
  \A n \in Sizes : \A a, b \in Gf(n) : gf_mul(n, a, b) = gf_mul(n, b, a)
<1>. SUFFICES ASSUME NEW n \in Sizes, NEW a \in Gf(n), NEW b \in Gf(n)
              PROVE  gf_mul(n, a, b) = gf_mul(n, b, a)
  OBVIOUS
<1>. QED
  BY MulLaws

LEMMA MulAssociates ==
  \A n \in Sizes : \A a, b, c \in Gf(n) :
    gf_mul(n, gf_mul(n, a, b), c) = gf_mul(n, a, gf_mul(n, b, c))
<1>. SUFFICES ASSUME NEW n \in Sizes, NEW a \in Gf(n), NEW b \in Gf(n), NEW c \in Gf(n)
              PROVE  gf_mul(n, gf_mul(n, a, b), c) = gf_mul(n, a, gf_mul(n, b, c))
  OBVIOUS
<1>. QED
  BY MulLaws

LEMMA MulAdd ==
  \A n \in Sizes : \A a, b, c \in Gf(n) :
    gf_mul(n, SymDiff(a, b), c) = SymDiff(gf_mul(n, a, c), gf_mul(n, b, c))
<1>. SUFFICES ASSUME NEW n \in Sizes, NEW a \in Gf(n), NEW b \in Gf(n), NEW c \in Gf(n)
              PROVE  gf_mul(n, SymDiff(a, b), c) = SymDiff(gf_mul(n, a, c), gf_mul(n, b, c))
  OBVIOUS
<1>. QED
  BY MulLaws

LEMMA MulOne == \A n \in Sizes : \A a \in Gf(n) : gf_mul(n, {0}, a) = a
BY MulLaws

(* Parities. *)
LEMMA OddFew == (\A x : G13!Odd({x})) /\ ~ G13!Odd({})
<1>1. \A x : Cardinality({x}) = 1
  BY FS_Singleton
<1>2. Cardinality({}) = 0
  BY FS_EmptySet
<1>3. 1 % 2 = 1 /\ 0 % 2 # 1
  OBVIOUS
<1>. QED
  BY <1>1, <1>2, <1>3, SameOdd

(* Products with 0 and with 1. *)
LEMMA MulZero ==
  ASSUME NEW n \in Sizes, NEW a \in Gf(n)
  PROVE  gf_mul(n, {}, a) = {} /\ gf_mul(n, a, {}) = {} /\ gf_mul(n, a, {0}) = a
<1>1. {} \in Gf(n) /\ {0} \in Gf(n)
  BY GfBasics
<1>2. \A x : SymDiff(x, x) = {}
  BY DEF SymDiff
<1>3. gf_mul(n, SymDiff({}, {}), a) = SymDiff(gf_mul(n, {}, a), gf_mul(n, {}, a))
  BY <1>1, MulAdd
<1>4. gf_mul(n, {}, a) = {}
  BY <1>2, <1>3
<1>5. gf_mul(n, a, {}) = gf_mul(n, {}, a) /\ gf_mul(n, a, {0}) = gf_mul(n, {0}, a)
  BY <1>1, MulCommutes
<1>. QED
  BY <1>4, <1>5, MulOne

(* What bit x of an XOR is. *)
LEMMA SymDiffBit == \A a, b, x : x \in SymDiff(a, b) <=> ((x \in a) # (x \in b))
BY DEF SymDiff

(* The parity of a symmetric difference. *)
LEMMA OddSymDiff ==
  ASSUME NEW A, IsFiniteSet(A), NEW B, IsFiniteSet(B)
  PROVE  G13!Odd(SymDiff(A, B)) <=> (G13!Odd(A) # G13!Odd(B))
<1>. DEFINE C == A \cap B
            a == Cardinality(A)
            b == Cardinality(B)
            n == Cardinality(C)
<1>1. /\ IsFiniteSet(A \ B) /\ Cardinality(A \ B) = a - n
      /\ IsFiniteSet(B \ A) /\ Cardinality(B \ A) = b - n
  <2>1. B \cap A = A \cap B
    OBVIOUS
  <2>2. IsFiniteSet(A \ B) /\ Cardinality(A \ B) = Cardinality(A) - Cardinality(A \cap B)
    BY ONLY IsFiniteSet(A), FS_Difference
  <2>3. IsFiniteSet(B \ A) /\ Cardinality(B \ A) = Cardinality(B) - Cardinality(B \cap A)
    BY ONLY IsFiniteSet(B), FS_Difference
  <2>. QED
    BY <2>1, <2>2, <2>3
<1>2. a \in Nat /\ b \in Nat /\ n \in Nat
  BY FS_Subset, FS_CardinalityType
<1>. HIDE DEF a, b, n
<1>3. Cardinality(SymDiff(A, B)) = (a - n) + (b - n)
  <2>1. (A \ B) \cap (B \ A) = {}
    OBVIOUS
  <2>2. Cardinality((A \ B) \cup (B \ A)) = Cardinality(A \ B) + Cardinality(B \ A) - 0
    BY <1>1, <2>1, FS_Union, FS_EmptySet
  <2>. QED
    BY <1>1, <1>2, <2>2 DEF SymDiff
<1>4. ((a - n) + (b - n)) % 2 = 1 <=> ((a % 2 = 1) # (b % 2 = 1))
  BY <1>2
<1>. QED
  BY <1>3, <1>4, SameOdd DEF a, b

-------------------------------------------------------------------------------
(* Sums of field elements.                                                   *)

(* A sum of field elements is a field element. *)
LEMMA SumTyped ==
  ASSUME NEW n \in Sizes, NEW f, NEW S, \A x \in S : f[x] \in Gf(n)
  PROVE  SumOver(f, S) \in Gf(n)
<1>1. ASSUME NEW b \in SumOver(f, S)  PROVE b \in 0..(n - 1)
  <2>1. {x \in S : b \in f[x]} # {}
    <3>1. G13!Odd({x \in S : b \in f[x]}) /\ ~ G13!Odd({})
      BY <1>1, OddFew DEF SumOver
    <3>. QED
      BY ONLY <3>1
  <2>. QED
    BY <2>1 DEF Gf
<1>. QED
  BY <1>1 DEF Gf

(* The empty sum is 0. *)
LEMMA SumNone == \A f : SumOver(f, {}) = {}
BY OddFew DEF SumOver

(* Sums add up term by term. *)
LEMMA SumAdd ==
  ASSUME NEW m \in Nat, NEW f, NEW g
  PROVE  SumOver([x \in 0..m |-> SymDiff(f[x], g[x])], 0..m)
           = SymDiff(SumOver(f, 0..m), SumOver(g, 0..m))
<1>. DEFINE h == [x \in 0..m |-> SymDiff(f[x], g[x])]
            Hits(u, b) == {x \in 0..m : b \in u[x]}
<1>1. \A u, b : b \in SumOver(u, 0..m) <=> b \in 0..12 /\ G13!Odd(Hits(u, b))
  BY DEF SumOver
<1>2. ASSUME NEW b \in 0..12
      PROVE  G13!Odd(Hits(h, b)) <=> (G13!Odd(Hits(f, b)) # G13!Odd(Hits(g, b)))
  <2>1. Hits(h, b) = SymDiff(Hits(f, b), Hits(g, b))
    BY DEF SymDiff
  <2>2. \A u : IsFiniteSet(Hits(u, b))
    <3>1. IsFiniteSet(0..m)
      BY FS_Interval
    <3>2. \A u : Hits(u, b) \subseteq 0..m
      OBVIOUS
    <3>. HIDE DEF Hits
    <3>. QED
      BY ONLY <3>1, <3>2, FS_Subset
  <2>. HIDE DEF Hits, h
  <2>. QED
    BY ONLY <2>1, <2>2, OddSymDiff
<1>. HIDE DEF Hits, h
<1>3. ASSUME NEW b
      PROVE  b \in SumOver(h, 0..m) <=> b \in SymDiff(SumOver(f, 0..m), SumOver(g, 0..m))
  <2>1. CASE b \in 0..12
    BY ONLY <1>1, <1>2, <2>1, SymDiffBit DEF G13!Odd
  <2>2. CASE b \notin 0..12
    BY ONLY <1>1, <2>2, SymDiffBit
  <2>. QED
    BY <2>1, <2>2
<1>4. SumOver(h, 0..m) = SymDiff(SumOver(f, 0..m), SumOver(g, 0..m))
  BY ONLY <1>3
<1>. QED
  BY <1>4 DEF h

(* What LinearLemmas shows of Min. *)
LEMMA LeastOfNaturals ==
  ASSUME NEW S \in SUBSET Nat, S # {}
  PROVE  \E x \in S : \A y \in S : x <= y
<1>1. W12!Min(S) \in S
  BY W12!MinOfNaturals DEF W12!PK_NROWS
<1>2. \A y \in S : W12!Min(S) <= y
  BY W12!MinOfNaturals DEF W12!PK_NROWS
<1>. QED
  BY <1>1, <1>2

(* A sum with one more term. *)
LEMMA SumStep ==
  ASSUME NEW n \in Sizes, NEW f, NEW S, IsFiniteSet(S), NEW x, x \notin S, f[x] \in Gf(n)
  PROVE  SumOver(f, S \cup {x}) = SymDiff(SumOver(f, S), f[x])
<1>. DEFINE Hits(R, b) == {y \in R : b \in f[y]}
<1>0. f[x] \subseteq 0..12
  BY DEF Gf, Sizes
<1>1. \A R, b : b \in SumOver(f, R) <=> b \in 0..12 /\ G13!Odd(Hits(R, b))
  BY DEF SumOver
<1>2. ASSUME NEW b \in f[x]
      PROVE  G13!Odd(Hits(S \cup {x}, b)) <=> ~ G13!Odd(Hits(S, b))
  <2>1. Hits(S \cup {x}, b) = SymDiff(Hits(S, b), {x})
    BY DEF SymDiff
  <2>2. IsFiniteSet(Hits(S, b)) /\ IsFiniteSet({x})
    BY FS_Subset, FS_Singleton
  <2>. HIDE DEF Hits
  <2>. DEFINE A == Hits(S, b)
              B == {x}
  <2>3. IsFiniteSet(A) /\ IsFiniteSet(B) /\ G13!Odd(B)
    BY <2>2, OddFew
  <2>4. Hits(S \cup {x}, b) = SymDiff(A, B)
    BY <2>1
  <2>. HIDE DEF A, B
  <2>5. G13!Odd(SymDiff(A, B)) <=> (G13!Odd(A) # G13!Odd(B))
    BY ONLY <2>3, OddSymDiff
  <2>6. G13!Odd(SymDiff(A, B)) <=> ~ G13!Odd(A)
    <3>1. G13!Odd(A) \in BOOLEAN /\ G13!Odd(B) = TRUE
      BY <2>3 DEF G13!Odd
    <3>. QED
      BY ONLY <2>5, <3>1
  <2>. QED
    BY <2>4, <2>6 DEF A
<1>3. ASSUME NEW b, b \notin f[x]
      PROVE  Hits(S \cup {x}, b) = Hits(S, b)
  BY <1>3
<1>. HIDE DEF Hits
<1>4. ASSUME NEW b
      PROVE  b \in SumOver(f, S \cup {x}) <=> b \in SymDiff(SumOver(f, S), f[x])
  <2>1. CASE b \in f[x]
    BY ONLY <1>0, <1>1, <1>2, <2>1, SymDiffBit
  <2>2. CASE b \notin f[x]
    BY ONLY <1>1, <1>3, <2>2, SymDiffBit
  <2>. QED
    BY <2>1, <2>2
<1>. QED
  BY ONLY <1>4

(* A sum with one term that is not 0. *)
LEMMA SumOne ==
  ASSUME NEW n \in Sizes, NEW f, NEW S, NEW x \in S, f[x] \in Gf(n),
         \A y \in S : y # x => f[y] = {}
  PROVE  SumOver(f, S) = f[x]
<1>1. f[x] \subseteq 0..12
  BY DEF Gf, Sizes
<1>2. \A b : {y \in S : b \in f[y]} = IF b \in f[x] THEN {x} ELSE {}
  OBVIOUS
<1>. QED
  BY <1>1, <1>2, OddFew DEF SumOver

(* A sum depends on its terms only. *)
LEMMA SumSame ==
  ASSUME NEW f, NEW g, NEW S, \A x \in S : f[x] = g[x]
  PROVE  SumOver(f, S) = SumOver(g, S)
<1>1. \A b : {x \in S : b \in f[x]} = {x \in S : b \in g[x]}
  OBVIOUS
<1>. QED
  BY <1>1 DEF SumOver

(* A factor may be taken out of a sum. *)
LEMMA SumScale ==
  ASSUME NEW n \in Sizes, NEW h \in Gf(n), NEW m \in Nat, NEW f \in [0..m -> Gf(n)]
  PROVE  SumOver([x \in 0..m |-> gf_mul(n, f[x], h)], 0..m)
           = gf_mul(n, SumOver(f, 0..m), h)
<1>. DEFINE g == [x \in 0..m |-> gf_mul(n, f[x], h)]
            Same(i) == SumOver(g, 0..(i - 1)) = gf_mul(n, SumOver(f, 0..(i - 1)), h)
            T == {i \in 0..(m + 1) : ~ Same(i)}
<1>1. Same(0)
  <2>1. 0..(0 - 1) = {}
    OBVIOUS
  <2>2. gf_mul(n, {}, h) = {} /\ \A u : SumOver(u, {}) = {}
    BY SumNone, MulZero
  <2>. HIDE DEF g
  <2>. QED
    BY ONLY <2>1, <2>2
<1>2. ASSUME NEW i \in 0..m, Same(i)
      PROVE  Same(i + 1)
  <2>. DEFINE S == 0..(i - 1)
  <2>1. 0..((i + 1) - 1) = S \cup {i} /\ i \notin S /\ IsFiniteSet(S)
    <3>1. IsFiniteSet(S)
      BY FS_Interval
    <3>2. i \notin S
      OBVIOUS
    <3>3. 0..((i + 1) - 1) = S \cup {i}
      OBVIOUS
    <3>. QED
      BY <3>1, <3>2, <3>3
  <2>2. f[i] \in Gf(n) /\ g[i] = gf_mul(n, f[i], h) /\ g[i] \in Gf(n)
    BY GfBasics
  <2>3. \A x \in S : f[x] \in Gf(n)
    OBVIOUS
  <2>4. SumOver(g, S) = gf_mul(n, SumOver(f, S), h)
    BY <1>2
  <2>. HIDE DEF S, g
  <2>5. /\ SumOver(f, S \cup {i}) = SymDiff(SumOver(f, S), f[i])
        /\ SumOver(g, S \cup {i}) = SymDiff(SumOver(g, S), g[i])
    BY <2>1, <2>2, SumStep
  <2>6. SumOver(f, S) \in Gf(n)
    BY <2>3, SumTyped
  <2>7. gf_mul(n, SymDiff(SumOver(f, S), f[i]), h)
          = SymDiff(gf_mul(n, SumOver(f, S), h), gf_mul(n, f[i], h))
    BY <2>2, <2>6, MulAdd
  <2>. QED
    BY <2>1, <2>2, <2>4, <2>5, <2>7
<1>. HIDE DEF Same
<1>3. T = {}
  <2>1. SUFFICES ASSUME T # {}  PROVE FALSE
    OBVIOUS
  <2>2. PICK i \in T : \A y \in T : i <= y
    <3>1. T \in SUBSET Nat
      OBVIOUS
    <3>. HIDE DEF T
    <3>. QED
      BY <2>1, <3>1, LeastOfNaturals
  <2>3. i # 0 /\ i - 1 \in 0..m /\ i = (i - 1) + 1
    BY <1>1, <2>2
  <2>4. ~ Same(i - 1)
    BY <1>2, <2>2, <2>3
  <2>. QED
    BY <2>2, <2>3, <2>4
<1>4. Same(m + 1) /\ (m + 1) - 1 = m
  BY <1>3
<1>. QED
  BY <1>4 DEF Same

-------------------------------------------------------------------------------
(* Linear relations between the rows of a matrix.                            *)

(* The matrices of genpoly_gen for t = u, and the coefficients of a        *)
(* combination of the rows.                                                *)
MatricesOf(n, u) == [0..u -> [0..(u - 1) -> Gf(n)]]
Coefficients(n, u) == [0..u -> Gf(n)]

(* Place x of the combination of the rows of m with the coefficients c. *)
At(n, u, m, c, x) == SumOver([r \in 0..u |-> gf_mul(n, c[r], m[r][x])], 0..u)

(* The linear relations between the rows of m. *)
Relations(n, u, m) ==
  {c \in Coefficients(n, u) : \A x \in 0..(u - 1) : At(n, u, m, c, x) = {}}

(* The terms of a combination, and its places, are field elements. *)
LEMMA TermTyped ==
  ASSUME NEW n \in Sizes, NEW u \in Nat, NEW m \in MatricesOf(n, u),
         NEW c \in Coefficients(n, u), NEW x \in 0..(u - 1)
  PROVE  /\ [r \in 0..u |-> gf_mul(n, c[r], m[r][x])] \in [0..u -> Gf(n)]
         /\ At(n, u, m, c, x) \in Gf(n)
<1>. DEFINE f == [r \in 0..u |-> gf_mul(n, c[r], m[r][x])]
<1>1. ASSUME NEW r \in 0..u  PROVE gf_mul(n, c[r], m[r][x]) \in Gf(n)
  <2>1. c[r] \in Gf(n) /\ m[r][x] \in Gf(n)
    BY DEF MatricesOf, Coefficients
  <2>. QED
    BY <2>1, GfBasics
<1>2. f \in [0..u -> Gf(n)]
  BY <1>1
<1>3. \A r \in 0..u : f[r] \in Gf(n)
  BY <1>2
<1>. HIDE DEF f
<1>4. SumOver(f, 0..u) \in Gf(n)
  BY <1>3, SumTyped
<1>. QED
  BY <1>2, <1>4 DEF At, f

(* Adding a multiple of column k to column j keeps the relations. *)
LEMMA AddColumn ==
  ASSUME NEW n \in Sizes, NEW u \in Nat, NEW m \in MatricesOf(n, u), NEW q \in MatricesOf(n, u),
         NEW x \in 0..(u - 1), NEW y \in 0..(u - 1), x # y, NEW w \in Gf(n),
         \A r \in 0..u : \A z \in 0..(u - 1) :
           q[r][z] = IF z = x THEN SymDiff(m[r][x], gf_mul(n, m[r][y], w)) ELSE m[r][z]
  PROVE  Relations(n, u, q) = Relations(n, u, m)
<1>1. ASSUME NEW c \in Coefficients(n, u)
      PROVE  /\ \A z \in 0..(u - 1) : z # x => At(n, u, q, c, z) = At(n, u, m, c, z)
             /\ At(n, u, q, c, x)
                  = SymDiff(At(n, u, m, c, x), gf_mul(n, At(n, u, m, c, y), w))
  <2>. DEFINE Term(h, z) == [r \in 0..u |-> gf_mul(n, c[r], h[r][z])]
              sum == [r \in 0..u |-> SymDiff(Term(m, x)[r], gf_mul(n, Term(m, y)[r], w))]
  <2>1. ASSUME NEW z \in 0..(u - 1), z # x
        PROVE  At(n, u, q, c, z) = At(n, u, m, c, z)
    <3>1. Term(q, z) = Term(m, z)
      BY <2>1
    <3>. QED
      BY <3>1 DEF At
  <2>2. ASSUME NEW r \in 0..u
        PROVE  gf_mul(n, c[r], q[r][x])
                 = SymDiff(gf_mul(n, c[r], m[r][x]), gf_mul(n, gf_mul(n, c[r], m[r][y]), w))
    <3>. DEFINE a == m[r][x]
                b == m[r][y]
                d == c[r]
                bw == gf_mul(n, b, w)
    <3>1. q[r][x] = SymDiff(a, bw)
      OBVIOUS
    <3>2. a \in Gf(n) /\ b \in Gf(n) /\ d \in Gf(n)
      BY DEF MatricesOf, Coefficients
    <3>. HIDE DEF a, b, d
    <3>3. bw \in Gf(n) /\ SymDiff(a, bw) \in Gf(n)
      BY <3>2, GfBasics
    <3>4. gf_mul(n, d, SymDiff(a, bw)) = gf_mul(n, SymDiff(a, bw), d)
      BY <3>2, <3>3, MulCommutes
    <3>5. gf_mul(n, SymDiff(a, bw), d) = SymDiff(gf_mul(n, a, d), gf_mul(n, bw, d))
      BY <3>2, <3>3, MulAdd
    <3>6. gf_mul(n, a, d) = gf_mul(n, d, a) /\ gf_mul(n, bw, d) = gf_mul(n, d, bw)
      BY <3>2, <3>3, MulCommutes
    <3>7. gf_mul(n, d, bw) = gf_mul(n, gf_mul(n, d, b), w)
      BY <3>2, MulAssociates
    <3>. QED
      BY <3>1, <3>4, <3>5, <3>6, <3>7 DEF a, b, d
  <2>3. Term(q, x) = sum
    BY <2>2
  <2>4. SumOver(sum, 0..u)
          = SymDiff(SumOver(Term(m, x), 0..u),
                    SumOver([r \in 0..u |-> gf_mul(n, Term(m, y)[r], w)], 0..u))
    <3>. DEFINE f == Term(m, x)
                g == [r \in 0..u |-> gf_mul(n, Term(m, y)[r], w)]
    <3>1. sum = [r \in 0..u |-> SymDiff(f[r], g[r])]
      OBVIOUS
    <3>. HIDE DEF f, g, sum
    <3>2. SumOver([r \in 0..u |-> SymDiff(f[r], g[r])], 0..u)
            = SymDiff(SumOver(f, 0..u), SumOver(g, 0..u))
      BY SumAdd
    <3>. QED
      BY <3>1, <3>2 DEF f, g
  <2>5. Term(m, y) \in [0..u -> Gf(n)]
    BY TermTyped
  <2>6. SumOver([r \in 0..u |-> gf_mul(n, Term(m, y)[r], w)], 0..u)
          = gf_mul(n, SumOver(Term(m, y), 0..u), w)
    <3>. DEFINE f == Term(m, y)
    <3>. HIDE DEF f
    <3>1. f \in [0..u -> Gf(n)]
      BY <2>5 DEF f
    <3>2. SumOver([r \in 0..u |-> gf_mul(n, f[r], w)], 0..u) = gf_mul(n, SumOver(f, 0..u), w)
      BY <3>1, SumScale
    <3>. QED
      BY <3>2 DEF f
  <2>7. \A h, z : At(n, u, h, c, z) = SumOver(Term(h, z), 0..u)
    BY DEF At
  <2>. HIDE DEF Term, sum
  <2>8. At(n, u, q, c, x) = SymDiff(At(n, u, m, c, x), gf_mul(n, At(n, u, m, c, y), w))
    BY ONLY <2>3, <2>4, <2>6, <2>7
  <2>. QED
    BY ONLY <2>1, <2>8
<1>2. ASSUME NEW c \in Coefficients(n, u)
      PROVE  (\A z \in 0..(u - 1) : At(n, u, q, c, z) = {})
               <=> (\A z \in 0..(u - 1) : At(n, u, m, c, z) = {})
  <2>1. gf_mul(n, {}, w) = {} /\ \A a : SymDiff(a, {}) = a
    BY MulZero DEF SymDiff
  <2>2. At(n, u, m, c, y) = {} => At(n, u, q, c, x) = At(n, u, m, c, x)
    BY ONLY <1>1, <2>1
  <2>3. At(n, u, q, c, y) = At(n, u, m, c, y)
    BY <1>1
  <2>. QED
    BY ONLY <1>1, <2>2, <2>3, x \in 0..(u - 1), y \in 0..(u - 1)
<1>. QED
  BY <1>2 DEF Relations

(* Multiplying column x by an element that has an inverse keeps them, too. *)
LEMMA ScaleColumn ==
  ASSUME NEW n \in Sizes, NEW u \in Nat, NEW m \in MatricesOf(n, u), NEW q \in MatricesOf(n, u),
         NEW x \in 0..(u - 1), NEW w \in Gf(n), NEW v \in Gf(n), gf_mul(n, w, v) = {0},
         \A r \in 0..u : \A z \in 0..(u - 1) :
           q[r][z] = IF z = x THEN gf_mul(n, m[r][x], w) ELSE m[r][z]
  PROVE  Relations(n, u, q) = Relations(n, u, m)
<1>1. ASSUME NEW c \in Coefficients(n, u)
      PROVE  /\ \A z \in 0..(u - 1) : z # x => At(n, u, q, c, z) = At(n, u, m, c, z)
             /\ At(n, u, q, c, x) = gf_mul(n, At(n, u, m, c, x), w)
  <2>. DEFINE Term(h, z) == [r \in 0..u |-> gf_mul(n, c[r], h[r][z])]
              f == Term(m, x)
  <2>1. ASSUME NEW z \in 0..(u - 1), z # x
        PROVE  At(n, u, q, c, z) = At(n, u, m, c, z)
    <3>1. Term(q, z) = Term(m, z)
      BY <2>1
    <3>. QED
      BY <3>1 DEF At
  <2>2. ASSUME NEW r \in 0..u
        PROVE  gf_mul(n, c[r], q[r][x]) = gf_mul(n, f[r], w)
    <3>1. m[r][x] \in Gf(n) /\ c[r] \in Gf(n)
      BY DEF MatricesOf, Coefficients
    <3>2. gf_mul(n, c[r], gf_mul(n, m[r][x], w)) = gf_mul(n, gf_mul(n, c[r], m[r][x]), w)
      BY <3>1, MulAssociates
    <3>. QED
      BY <3>2
  <2>3. Term(q, x) = [r \in 0..u |-> gf_mul(n, f[r], w)]
    BY <2>2
  <2>4. f \in [0..u -> Gf(n)]
    BY TermTyped
  <2>5. At(n, u, q, c, x) = SumOver(Term(q, x), 0..u) /\ At(n, u, m, c, x) = SumOver(f, 0..u)
    BY DEF At
  <2>. HIDE DEF f, Term
  <2>6. SumOver([r \in 0..u |-> gf_mul(n, f[r], w)], 0..u) = gf_mul(n, SumOver(f, 0..u), w)
    BY <2>4, SumScale
  <2>. QED
    BY ONLY <2>1, <2>3, <2>5, <2>6
<1>2. ASSUME NEW a \in Gf(n)
      PROVE  gf_mul(n, a, w) = {} <=> a = {}
  <2>1. gf_mul(n, gf_mul(n, a, w), v) = gf_mul(n, a, gf_mul(n, w, v))
    BY ONLY n \in Sizes, a \in Gf(n), w \in Gf(n), v \in Gf(n), MulAssociates
  <2>2. gf_mul(n, a, {0}) = a /\ gf_mul(n, {}, v) = {} /\ gf_mul(n, {}, w) = {}
    BY MulZero
  <2>. QED
    BY <2>1, <2>2
<1>3. ASSUME NEW c \in Coefficients(n, u)
      PROVE  (\A z \in 0..(u - 1) : At(n, u, q, c, z) = {})
               <=> (\A z \in 0..(u - 1) : At(n, u, m, c, z) = {})
  <2>1. At(n, u, q, c, x) = {} <=> At(n, u, m, c, x) = {}
    BY <1>1, <1>2, TermTyped
  <2>. QED
    BY ONLY <1>1, <2>1
<1>. QED
  BY <1>3 DEF Relations

(* A combination of row p with the rows above it, if those are unit vectors. *)
LEMMA AtUnitRows ==
  ASSUME NEW n \in Sizes, NEW u \in Nat, NEW m \in MatricesOf(n, u),
         NEW p \in 0..u, NEW c \in Coefficients(n, u), NEW x \in 0..(u - 1),
         \A r \in 0..u : r < p => m[r][x] = IF r = x THEN {0} ELSE {},
         \A r \in 0..u : p < r => c[r] = {}
  PROVE  At(n, u, m, c, x)
           = SymDiff(IF x < p THEN c[x] ELSE {}, gf_mul(n, c[p], m[p][x]))
<1>. DEFINE f == [r \in 0..u |-> gf_mul(n, c[r], m[r][x])]
            a == IF x < p THEN c[x] ELSE {}
            b == gf_mul(n, c[p], m[p][x])
            g == [r \in 0..u |-> IF r = x THEN a ELSE {}]
            h == [r \in 0..u |-> IF r = p THEN b ELSE {}]
<1>1. \A r \in 0..u : c[r] \in Gf(n) /\ m[r][x] \in Gf(n)
  BY DEF MatricesOf, Coefficients
<1>2. \A d : SymDiff(d, {}) = d /\ SymDiff({}, d) = d
  BY DEF SymDiff
<1>3. ASSUME NEW r \in 0..u
      PROVE  f[r] = SymDiff(g[r], h[r])
  <2>1. CASE r < p
    <3>1. r # p /\ h[r] = {}
      BY <2>1
    <3>2. CASE r = x
      <4>1. f[r] = c[r]
        <5>1. gf_mul(n, c[r], {0}) = c[r]
          BY <1>1, MulZero
        <5>. QED
          BY <2>1, <3>2, <5>1
      <4>2. g[r] = c[r]
        BY <2>1, <3>2
      <4>. QED
        BY <1>2, <3>1, <4>1, <4>2
    <3>3. CASE r # x
      <4>1. f[r] = {} /\ g[r] = {}
        <5>1. gf_mul(n, c[r], {}) = {}
          BY <1>1, MulZero
        <5>. QED
          BY <2>1, <3>3, <5>1
      <4>. QED
        BY <1>2, <3>1, <4>1
    <3>. QED
      BY <3>2, <3>3
  <2>2. CASE r = p
    <3>1. f[r] = b /\ h[r] = b
      BY <2>2
    <3>2. g[r] = {}
      BY <2>2
    <3>. QED
      BY <1>2, <3>1, <3>2
  <2>3. CASE p < r
    <3>1. f[r] = {}
      <4>1. gf_mul(n, {}, m[r][x]) = {}
        BY <1>1, MulZero
      <4>. QED
        BY <2>3, <4>1
    <3>2. g[r] = {} /\ h[r] = {}
      BY <2>3
    <3>. QED
      BY <1>2, <3>1, <3>2
  <2>. QED
    BY <2>1, <2>2, <2>3
<1>4. a \in Gf(n) /\ b \in Gf(n)
  BY <1>1, GfBasics
<1>5a. x \in 0..u /\ g[x] = a /\ h[p] = b
  OBVIOUS
<1>5b. \A y \in 0..u : y # x => g[y] = {}
  OBVIOUS
<1>5c. \A y \in 0..u : y # p => h[y] = {}
  OBVIOUS
<1>6. f = [r \in 0..u |-> SymDiff(g[r], h[r])]
  BY <1>3
<1>. HIDE DEF f, g, h, a, b
<1>7. SumOver(g, 0..u) = g[x]
  <2>. DEFINE S == 0..u
  <2>1. x \in S /\ g[x] \in Gf(n) /\ \A y \in S : y # x => g[y] = {}
    BY ONLY <1>4, <1>5a, <1>5b
  <2>. HIDE DEF S
  <2>2. SumOver(g, S) = g[x]
    BY ONLY n \in Sizes, <2>1, SumOne
  <2>. QED
    BY ONLY <2>2 DEF S
<1>8. SumOver(h, 0..u) = h[p]
  <2>. DEFINE S == 0..u
  <2>1. p \in S /\ h[p] \in Gf(n) /\ \A y \in S : y # p => h[y] = {}
    BY ONLY p \in 0..u, <1>4, <1>5a, <1>5c
  <2>. HIDE DEF S
  <2>2. SumOver(h, S) = h[p]
    BY ONLY n \in Sizes, <2>1, SumOne
  <2>. QED
    BY ONLY <2>2 DEF S
<1>9. SumOver(f, 0..u) = SymDiff(a, b)
  <2>1. SumOver([r \in 0..u |-> SymDiff(g[r], h[r])], 0..u)
        = SymDiff(SumOver(g, 0..u), SumOver(h, 0..u))
    BY ONLY u \in Nat, SumAdd
  <2>. QED
    BY ONLY <1>5a, <1>6, <1>7, <1>8, <2>1
<1>10. At(n, u, m, c, x) = SumOver(f, 0..u)
  BY ONLY TRUE DEF At, f
<1>. QED
  BY ONLY <1>9, <1>10 DEF a, b

-------------------------------------------------------------------------------
(* Recursive functions.                                                      *)

(* What holds at 0 and from each value to the next holds of all values. *)
LEMMA UpwardIn ==
  ASSUME NEW m \in Nat, NEW S, NEW f, f[0] \in S,
         \A n \in 1..m : f[n - 1] \in S => f[n] \in S
  PROVE  \A n \in 0..m : f[n] \in S
<1>. DEFINE P == {n \in 0..m : f[n] \in S}
<1>1. 0 \in P
  OBVIOUS
<1>2. ASSUME NEW n \in 0..(m - 1), n \in P  PROVE n + 1 \in P
  <2>1. n + 1 \in 1..m /\ (n + 1) - 1 = n
    OBVIOUS
  <2>. QED
    BY <1>2, <2>1
<1>. HIDE DEF P
<1>3. \A n \in 0..m : n \in P
  BY <1>1, <1>2, W12!Upward DEF W12!PK_NROWS
<1>. QED
  BY <1>3 DEF P

(* Induction from 0 to m. *)
LEMMA UpTo ==
  ASSUME NEW m \in Nat, NEW P, 0 \in P,
         \A n \in 0..(m - 1) : n \in P => n + 1 \in P
  PROVE  m \in P
<1>. DEFINE f == [n \in 0..m |-> n]
<1>1. f[0] \in P
  OBVIOUS
<1>2. ASSUME NEW n \in 1..m, f[n - 1] \in P  PROVE f[n] \in P
  <2>1. n - 1 \in 0..(m - 1) /\ (n - 1) + 1 = n
    OBVIOUS
  <2>2. f[n - 1] = n - 1 /\ f[n] = n
    BY <2>1
  <2>. QED
    BY <1>2, <2>1, <2>2
<1>3. f[m] = m /\ m \in 0..m
  OBVIOUS
<1>. HIDE DEF f
<1>4. \A n \in 0..m : f[n] \in P
  BY <1>1, <1>2, UpwardIn
<1>. QED
  BY <1>3, <1>4

(* f starts with x, and F[n] takes its value at n - 1 to that at n. *)
Steps(f, F, x, m) == f = [n \in 0..m |-> IF n = 0 THEN x ELSE F[n][f[n - 1]]]

(* What a recursive function defines exists. *)
LEMMA StepsExist ==
  ASSUME NEW S, NEW m \in Nat, NEW F \in [1..m -> [S -> S]], NEW x \in S
  PROVE  \E f \in [0..m -> S] : Steps(f, F, x, m)
<1>. DEFINE P == {n \in 0..m : \E f \in [0..n -> S] : Steps(f, F, x, n)}
<1>1. 0 \in P
  <2>1. [n \in 0..0 |-> x] \in [0..0 -> S] /\ Steps([n \in 0..0 |-> x], F, x, 0)
    BY DEF Steps
  <2>. QED
    BY <2>1
<1>2. ASSUME NEW i \in 0..(m - 1), i \in P  PROVE i + 1 \in P
  <2>1. PICK f \in [0..i -> S] : Steps(f, F, x, i)
    BY <1>2
  <2>2. i \in Nat /\ i + 1 \in 1..m
    OBVIOUS
  <2>. DEFINE g == [n \in 0..(i + 1) |-> IF n = i + 1 THEN F[i + 1][f[i]] ELSE f[n]]
  <2>3. g \in [0..(i + 1) -> S]
    BY <2>2
  <2>4. ASSUME NEW n \in 0..(i + 1)
        PROVE  g[n] = IF n = 0 THEN x ELSE F[n][g[n - 1]]
    <3>1. CASE n = i + 1
      <4>1. n # 0 /\ n - 1 = i /\ i \in 0..(i + 1) /\ i # i + 1
        BY <2>2, <3>1
      <4>. QED
        BY <3>1, <4>1
    <3>2. CASE n # i + 1
      <4>1. n \in 0..i /\ g[n] = f[n]
        BY <2>2, <3>2
      <4>2. n # 0 => g[n - 1] = f[n - 1]
        BY <2>2, <4>1
      <4>3. f[n] = IF n = 0 THEN x ELSE F[n][f[n - 1]]
        BY <2>1, <4>1 DEF Steps
      <4>. QED
        BY <4>1, <4>2, <4>3
    <3>. QED
      BY <3>1, <3>2
  <2>5. Steps(g, F, x, i + 1)
    <3>1. g = [n \in 0..(i + 1) |-> g[n]]
      OBVIOUS
    <3>. HIDE DEF g
    <3>. QED
      BY <2>4, <3>1 DEF Steps
  <2>. QED
    BY <2>2, <2>3, <2>5
<1>. HIDE DEF P
<1>3. \A n \in 0..(m - 1) : n \in P => n + 1 \in P
  BY <1>2
<1>4. m \in P
  BY <1>1, <1>3, UpTo
<1>. QED
  BY <1>4 DEF P

-------------------------------------------------------------------------------
(* The arithmetic of SkGen, for arguments in Inputs.                         *)

(* What InputOK says of the arguments. *)
LEMMA InputTyped ==
  ASSUME in \in Inputs
  PROVE  /\ in.bits \in Sizes /\ t \in Nat /\ t >= 2
         /\ in.modulus \in Elements(in) /\ in.f \in Elements(in)
         /\ Elements(in) = [0..(t - 1) -> Gf(in.bits)]
         /\ \A a, b : mul(a, b) = gf_mul(in.bits, a, b)
<1>1. InputOK(in)
  BY SkGenAssumption
<1>. QED
  BY <1>1 DEF InputOK, Sizes, t, Elements, Gf, mul

(* The row of a constant is an element. *)
LEMMA RowTyped ==
  ASSUME in \in Inputs, NEW a \in Gf(in.bits)
  PROVE  Row(a) \in Elements(in)
<1>1. {} \in Gf(in.bits)
  BY InputTyped, GfBasics
<1>. QED
  BY <1>1, InputTyped DEF Row

(* A product before its reduction has 2 * t - 1 places. *)
LEMMA ConvolutionTyped ==
  ASSUME in \in Inputs, NEW a \in Elements(in), NEW b \in Elements(in)
  PROVE  Convolution(a, b) \in [0..(2 * t - 2) -> Gf(in.bits)]
<1>. DEFINE Terms(n) == {x \in 0..(t - 1) : n - x \in 0..(t - 1)}
            f(n) == [x \in Terms(n) |-> mul(a[x], b[n - x])]
<1>1. ASSUME NEW n \in 0..(2 * t - 2)
      PROVE  SumOver(f(n), Terms(n)) \in Gf(in.bits)
  <2>1. ASSUME NEW x \in Terms(n)  PROVE f(n)[x] \in Gf(in.bits)
    <3>1. a[x] \in Gf(in.bits) /\ b[n - x] \in Gf(in.bits)
      BY InputTyped
    <3>. QED
      BY <3>1, InputTyped, GfBasics
  <2>. HIDE DEF f, Terms
  <2>. QED
    BY <2>1, InputTyped, SumTyped
<1>2. Convolution(a, b) = [n \in 0..(2 * t - 2) |-> SumOver(f(n), Terms(n))]
  BY DEF Convolution
<1>. HIDE DEF f, Terms
<1>. QED
  BY <1>1, <1>2

(* Folding a place keeps the type. *)
LEMMA FoldPlaceTyped ==
  ASSUME in \in Inputs, NEW p \in [0..(2 * t - 2) -> Gf(in.bits)], NEW i \in t..(2 * t - 2)
  PROVE  FoldPlace(p, i) \in [0..(2 * t - 2) -> Gf(in.bits)]
<1>1. ASSUME NEW n \in 0..(2 * t - 2), n \in (i - t)..(i - 1)
      PROVE  SymDiff(p[n], mul(in.modulus[n - i + t], p[i])) \in Gf(in.bits)
  <2>1. n - i + t \in 0..(t - 1) /\ i \in 0..(2 * t - 2)
    BY <1>1, InputTyped
  <2>2. in.modulus[n - i + t] \in Gf(in.bits) /\ p[i] \in Gf(in.bits) /\ p[n] \in Gf(in.bits)
    BY <2>1, InputTyped
  <2>. QED
    BY <2>2, InputTyped, GfBasics
<1>. QED
  BY <1>1 DEF FoldPlace

(* The loop of gf_mul_inplace. *)
LEMMA MulInplaceSteps ==
  ASSUME in \in Inputs, NEW a \in Elements(in), NEW b \in Elements(in)
  PROVE  \E r \in [0..(t - 1) -> [0..(2 * t - 2) -> Gf(in.bits)]] :
           /\ r[0] = Convolution(a, b)
           /\ \A n \in 1..(t - 1) : r[n] = FoldPlace(r[n - 1], 2 * t - 1 - n)
           /\ gf_mul_inplace(a, b) = [n \in 0..(t - 1) |-> r[t - 1][n]]
<1>. DEFINE S == [0..(2 * t - 2) -> Gf(in.bits)]
            Is(r) == r = [n \in 0..(t - 1) |->
                            IF n = 0 THEN Convolution(a, b) ELSE FoldPlace(r[n - 1], 2 * t - 1 - n)]
            r0 == CHOOSE r : Is(r)
            F == [n \in 1..(t - 1) |-> [p \in S |-> FoldPlace(p, 2 * t - 1 - n)]]
<1>1. t \in Nat /\ t >= 2 /\ t - 1 \in Nat
  BY InputTyped
<1>2. Convolution(a, b) \in S
  BY ConvolutionTyped
<1>3. \A n \in 1..(t - 1), p \in S : FoldPlace(p, 2 * t - 1 - n) \in S
  <2>1. \A n \in 1..(t - 1) : 2 * t - 1 - n \in t..(2 * t - 2)
    BY <1>1
  <2>. QED
    BY <2>1, FoldPlaceTyped
<1>4. \E r : Is(r)
  <2>1. F \in [1..(t - 1) -> [S -> S]]
    BY <1>3
  <2>2. PICK r \in [0..(t - 1) -> S] : Steps(r, F, Convolution(a, b), t - 1)
    <3>. HIDE DEF S, F
    <3>. QED
      BY <1>1, <1>2, <2>1, StepsExist
  <2>3. ASSUME NEW n \in 0..(t - 1), n # 0
        PROVE  F[n][r[n - 1]] = FoldPlace(r[n - 1], 2 * t - 1 - n)
    <3>1. n \in 1..(t - 1) /\ n - 1 \in 0..(t - 1)
      BY <1>1, <2>3
    <3>2. r[n - 1] \in S
      BY <2>2, <3>1
    <3>. HIDE DEF S
    <3>. QED
      BY <3>1, <3>2
  <2>. HIDE DEF S, F
  <2>4. Is(r)
    BY <2>2, <2>3 DEF Steps
  <2>. QED
    BY <2>4
<1>5. Is(r0)
  BY <1>4
<1>6. /\ r0[0] = Convolution(a, b)
      /\ \A n \in 1..(t - 1) : r0[n] = FoldPlace(r0[n - 1], 2 * t - 1 - n)
  <2>. HIDE DEF r0
  <2>. QED
    BY <1>1, <1>5
<1>7. \A n \in 0..(t - 1) : r0[n] \in S
  <2>. HIDE DEF S, r0
  <2>1. \A n \in 1..(t - 1) : r0[n - 1] \in S => r0[n] \in S
    BY <1>3, <1>6
  <2>. QED
    BY <1>1, <1>2, <1>6, <2>1, UpwardIn
<1>8. r0 \in [0..(t - 1) -> S]
  <2>1. r0 = [n \in 0..(t - 1) |-> r0[n]]
    <3>. HIDE DEF r0
    <3>. QED
      BY <1>5
  <2>. HIDE DEF S, r0
  <2>. QED
    BY <1>7, <2>1
<1>9. gf_mul_inplace(a, b) = [n \in 0..(t - 1) |-> r0[t - 1][n]]
  BY DEF gf_mul_inplace
<1>. HIDE DEF r0
<1>. QED
  BY <1>6, <1>8, <1>9

(* The product of two elements is an element. *)
LEMMA MulInplaceTyped ==
  ASSUME in \in Inputs, NEW a \in Elements(in), NEW b \in Elements(in)
  PROVE  gf_mul_inplace(a, b) \in Elements(in)
<1>1. PICK r \in [0..(t - 1) -> [0..(2 * t - 2) -> Gf(in.bits)]] :
        gf_mul_inplace(a, b) = [n \in 0..(t - 1) |-> r[t - 1][n]]
  BY MulInplaceSteps
<1>2. t - 1 \in 0..(t - 1) /\ \A n \in 0..(t - 1) : n \in 0..(2 * t - 2)
  BY InputTyped
<1>3. \A n \in 0..(t - 1) : r[t - 1][n] \in Gf(in.bits)
  BY <1>2
<1>. QED
  BY <1>1, <1>3, InputTyped

(* gf_inv returns a field element for every word. *)
LEMMA InverseTyped ==
  ASSUME NEW n \in Sizes, NEW a
  PROVE  gf_inv(n, a) \in Gf(n)
<1>1. ASSUME NEW b  PROVE Squarings(b, 1) \in SUBSET (0..11)
  <2>. DEFINE Is(s) == s = [x \in 0..1 |-> IF x = 0 THEN b ELSE gf_sq(s[x - 1])]
              s0 == CHOOSE s : Is(s)
  <2>1. Is([x \in 0..1 |-> IF x = 0 THEN b ELSE gf_sq(b)])
    OBVIOUS
  <2>2. Is(s0)
    BY <2>1
  <2>3. Squarings(b, 1) = s0[1]
    BY DEF Squarings
  <2>. HIDE DEF s0
  <2>4. s0[1] = gf_sq(s0[0])
    BY <2>2
  <2>5. \A c : gf_sq(c) \in SUBSET (0..11)
    BY DEF gf_sq, Reduce12
  <2>. QED
    BY <2>3, <2>4, <2>5
<1>2. gf_inv12(a) \in SUBSET (0..11)
  BY <1>1 DEF gf_inv12
<1>3. gf_frac13(a, {0}) \in SUBSET (0..12)
  <2>1. \A c, d : gf_sqmul(c, d) \in SUBSET (0..12)
    BY DEF gf_sqmul, Reduce13
  <2>. QED
    BY <2>1 DEF gf_frac13
<1>. QED
  BY <1>2, <1>3 DEF gf_inv, Gf, Sizes

(* gf_inv returns the inverse, on either side. *)
LEMMA InverseInverts ==
  ASSUME NEW n \in Sizes, NEW a \in Gf(n), a # {}
  PROVE  gf_mul(n, a, gf_inv(n, a)) = {0} /\ gf_mul(n, gf_inv(n, a), a) = {0}
<1>1. gf_mul(n, a, gf_inv(n, a)) = {0}
  BY InverseAssumption DEF Sizes, Gf
<1>2. gf_inv(n, a) \in Gf(n)
  BY InverseTyped
<1>. QED
  BY <1>1, <1>2, MulCommutes

(* The powers of f as the code computes them, from 1. *)
Powers ==
  LET p[n \in 0..t] ==
        IF n = 0 THEN Row({0}) ELSE IF n = 1 THEN in.f ELSE gf_mul_inplace(p[n - 1], in.f)
  IN  p

(* There are such powers, and they are elements. *)
LEMMA PowersAre ==
  ASSUME in \in Inputs
  PROVE  /\ Powers \in [0..t -> Elements(in)]
         /\ Powers[0] = Row({0}) /\ Powers[1] = in.f
         /\ \A n \in 2..t : Powers[n] = gf_mul_inplace(Powers[n - 1], in.f)
<1>. DEFINE S == Elements(in)
            Is(p) == p = [n \in 0..t |->
                            IF n = 0 THEN Row({0})
                            ELSE IF n = 1 THEN in.f ELSE gf_mul_inplace(p[n - 1], in.f)]
            F == [n \in 1..t |-> [x \in S |-> IF n = 1 THEN in.f ELSE gf_mul_inplace(x, in.f)]]
            p0 == CHOOSE p : Is(p)
<1>1. t \in Nat /\ t >= 2 /\ in.f \in S /\ Row({0}) \in S
  BY InputTyped, RowTyped, GfBasics
<1>2. \A x \in S : gf_mul_inplace(x, in.f) \in S
  BY <1>1, MulInplaceTyped
<1>3. \E p : Is(p)
  <2>1. F \in [1..t -> [S -> S]]
    BY <1>1, <1>2
  <2>2. PICK p \in [0..t -> S] : Steps(p, F, Row({0}), t)
    <3>. HIDE DEF S, F
    <3>. QED
      BY <1>1, <2>1, StepsExist
  <2>3. ASSUME NEW n \in 0..t, n # 0
        PROVE  F[n][p[n - 1]] = IF n = 1 THEN in.f ELSE gf_mul_inplace(p[n - 1], in.f)
    <3>1. n \in 1..t /\ n - 1 \in 0..t
      BY <1>1, <2>3
    <3>2. p[n - 1] \in S
      BY <2>2, <3>1
    <3>. HIDE DEF S
    <3>. QED
      BY <3>1, <3>2
  <2>. HIDE DEF S, F
  <2>4. Is(p)
    BY <2>2, <2>3 DEF Steps
  <2>. QED
    BY <2>4
<1>4. Is(p0)
  BY <1>3
<1>5. Powers = p0
  BY DEF Powers
<1>. HIDE DEF S, p0
<1>6. p0[0] = Row({0}) /\ p0[1] = in.f
  BY <1>1, <1>4
<1>7. ASSUME NEW n \in 2..t
      PROVE  p0[n] = gf_mul_inplace(p0[n - 1], in.f)
  BY <1>1, <1>4
<1>8. \A n \in 0..t : p0[n] \in S
  <2>1. ASSUME NEW n \in 1..t, p0[n - 1] \in S  PROVE p0[n] \in S
    <3>1. CASE n = 1
      BY <1>1, <1>6, <3>1
    <3>2. CASE n # 1
      <4>1. n \in 2..t
        BY <1>1, <3>2
      <4>. QED
        BY <1>2, <1>7, <2>1, <4>1
    <3>. QED
      BY <3>1, <3>2
  <2>2. p0[0] \in S
    BY <1>1, <1>6
  <2>. QED
    BY <1>1, <2>1, <2>2, UpwardIn
<1>9. p0 = [n \in 0..t |-> p0[n]]
  BY <1>4
<1>. QED
  BY <1>5, <1>6, <1>7, <1>8, <1>9 DEF S

(* What a step that keeps the arguments leaves as it is. *)
LEMMA SameInput ==
  ASSUME in' = in
  PROVE  t' = t /\ Elements(in)' = Elements(in) /\ Powers' = Powers
<1>1. t' = t
  BY DEF t
<1>2. Elements(in)' = Elements(in)
  BY DEF Elements
<1>3. \A a, b : gf_mul_inplace(a, b)' = gf_mul_inplace(a, b)
  BY DEF gf_mul_inplace, Convolution, FoldPlace, SumOver, mul, t
<1>. QED
  BY <1>1, <1>2, <1>3 DEF Powers, Row

-------------------------------------------------------------------------------
(* The inductive invariant.                                                  *)

(* Row r of mat is the unit vector y^r. *)
UnitRow(r) == \A x \in 0..(t - 1) : mat[r][x] = IF r = x THEN {0} ELSE {}

(* The first rows are those of the identity matrix. *)
UnitRows == IF pc = "done" THEN t ELSE j

(* While the powers are computed, the rows below j are the powers of f. *)
PowersInv ==
  pc = "powers" => j >= 2 /\ \A r \in 0..t : r < j => mat[r] = Powers[r]

(* Afterwards the rows satisfy the same linear relations as the powers of  *)
(* f, and those done are unit vectors.                                     *)
ColumnsInv ==
  pc # "powers" =>
    /\ Relations(in.bits, t, mat) = Relations(in.bits, t, Powers)
    /\ j \in 0..(t - 1)
    /\ \A r \in 0..t : r < UnitRows => UnitRow(r)

(* If the pivot is still 0, so is the row right of it, up to column k. *)
PivotInv ==
  pc = "pivot" =>
    /\ j < k
    /\ mat[j][j] = {} => \A x \in 0..(t - 1) : j < x /\ x < k => mat[j][x] = {}

(* It failed on a row that has nothing from the pivot on. *)
FailedInv == pc = "failed" => \A x \in 0..(t - 1) : j <= x => mat[j][x] = {}

(* The pivot is 1, and the row is clear up to column k. *)
ClearInv ==
  pc = "clear" => mat[j][j] = {0} /\ \A x \in 0..(t - 1) : x < k /\ x # j => mat[j][x] = {}

(* The result is written on success only. *)
OutInv == out = IF pc = "done" THEN mat[t] ELSE Stale

SkInv == TypeOK /\ PowersInv /\ ColumnsInv /\ PivotInv /\ FailedInv /\ ClearInv /\ OutInv

(* The inductive invariant holds at the start. *)
LEMMA SkInitial == Init => SkInv
<1>. SUFFICES ASSUME Init  PROVE SkInv
  OBVIOUS
<1>. USE DEF Init
<1>1. /\ in.bits \in Sizes /\ t \in Nat /\ t >= 2
      /\ in.f \in Elements(in) /\ Row({0}) \in Elements(in) /\ Row({}) \in Elements(in)
  BY InputTyped, RowTyped, GfBasics
<1>2. mat \in [0..t -> Elements(in)]
  BY <1>1
<1>3. TypeOK
  BY <1>1, <1>2 DEF TypeOK
<1>4. PowersInv
  <2>1. Powers[0] = Row({0}) /\ Powers[1] = in.f
    BY PowersAre
  <2>2. mat[0] = Row({0}) /\ mat[1] = in.f
    BY <1>1
  <2>3. ASSUME NEW r \in 0..t, r < 2  PROVE mat[r] = Powers[r]
    <3>1. r = 0 \/ r = 1
      BY <1>1, <2>3
    <3>. QED
      BY <2>1, <2>2, <3>1
  <2>. QED
    BY <2>3 DEF PowersInv
<1>. QED
  BY <1>3, <1>4 DEF SkInv, ColumnsInv, PivotInv, FailedInv, ClearInv, OutInv

(* What the steps need of SkInv. *)
LEMMA SkFacts ==
  ASSUME TypeOK
  PROVE  /\ in \in Inputs /\ in.bits \in Sizes /\ t \in Nat /\ t >= 2
         /\ mat \in MatricesOf(in.bits, t)
         /\ \A r \in 0..t, x \in 0..(t - 1) : mat[r][x] \in Gf(in.bits)
<1>1. in \in Inputs
  BY DEF TypeOK
<1>2. mat \in MatricesOf(in.bits, t)
  BY <1>1, InputTyped DEF TypeOK, MatricesOf
<1>. QED
  BY <1>1, <1>2, InputTyped DEF MatricesOf

(* One lemma for each action: the step keeps the invariant. *)
LEMMA PowerStep ==
  ASSUME SkInv, Power
  PROVE  SkInv'
<1>. USE DEF Power
<1>0. /\ TypeOK /\ PowersInv /\ OutInv /\ in \in Inputs /\ in.bits \in Sizes
      /\ t \in Nat /\ t >= 2 /\ pc = "powers" /\ j \in 2..t
  BY SkFacts DEF SkInv, PowersInv, TypeOK
<1>1. t' = t /\ Elements(in)' = Elements(in) /\ Powers' = Powers
  BY SameInput
<1>2. mat[j - 1] = Powers[j - 1] /\ j - 1 \in 0..t
  BY <1>0 DEF PowersInv
<1>3. gf_mul_inplace(mat[j - 1], in.f) = Powers[j]
  BY <1>0, <1>2, PowersAre
<1>4. Powers[j] \in Elements(in)
  BY <1>0, PowersAre
<1>5. mat' = [mat EXCEPT ![j] = Powers[j]]
  BY <1>3
<1>6. TypeOK'
  <2>1. mat' \in [0..t -> Elements(in)]
    BY <1>0, <1>4, <1>5 DEF TypeOK
  <2>. QED
    BY <1>0, <1>1, <2>1 DEF TypeOK
<1>7. PowersInv'
  <2>1. ASSUME NEW r \in 0..t, r < j + 1  PROVE mat'[r] = Powers[r]
    <3>1. CASE r = j
      BY <1>0, <1>5, <3>1 DEF TypeOK
    <3>2. CASE r # j
      <4>1. r < j /\ mat'[r] = mat[r]
        BY <1>0, <1>5, <2>1, <3>2 DEF TypeOK
      <4>. QED
        BY <1>0, <4>1 DEF PowersInv
    <3>. QED
      BY <3>1, <3>2
  <2>. QED
    BY <1>0, <1>1, <2>1 DEF PowersInv
<1>8. OutInv'
  BY <1>0 DEF OutInv
<1>. QED
  BY <1>0, <1>6, <1>7, <1>8 DEF SkInv, ColumnsInv, PivotInv, FailedInv, ClearInv

LEMMA EliminateStep ==
  ASSUME SkInv, Eliminate
  PROVE  SkInv'
<1>. USE DEF Eliminate, Goto
<1>0. /\ TypeOK /\ PowersInv /\ OutInv /\ in \in Inputs /\ in.bits \in Sizes
      /\ t \in Nat /\ t >= 2 /\ pc = "powers" /\ pc' = "pivot" /\ j = t + 1
  BY SkFacts DEF SkInv
<1>1. t' = t /\ Elements(in)' = Elements(in) /\ Powers' = Powers
  BY SameInput
<1>2. TypeOK'
  BY <1>0, <1>1 DEF TypeOK
<1>3. mat = Powers
  <2>1. \A r \in 0..t : mat[r] = Powers[r]
    BY <1>0 DEF PowersInv
  <2>2. mat = [r \in 0..t |-> mat[r]] /\ Powers = [r \in 0..t |-> Powers[r]]
    BY <1>0, PowersAre DEF TypeOK
  <2>. QED
    BY ONLY <2>1, <2>2
<1>4. ColumnsInv'
  <2>1. UnitRows' = 0
    BY <1>0 DEF UnitRows
  <2>2. \A r \in 0..t : ~ r < 0
    BY <1>0
  <2>. QED
    BY <1>0, <1>1, <1>3, <2>1, <2>2 DEF ColumnsInv
<1>5. PivotInv'
  <2>1. \A x \in 0..(t - 1) : ~ (0 < x /\ x < 1)
    BY <1>0
  <2>. QED
    BY <1>1, <2>1 DEF PivotInv
<1>6. OutInv'
  BY <1>0 DEF OutInv
<1>. QED
  BY <1>0, <1>2, <1>4, <1>5, <1>6 DEF SkInv, PowersInv, FailedInv, ClearInv

(* ColumnsInv after a step, from what the step makes of mat. *)
LEMMA ColumnsNext ==
  ASSUME in' = in, j' \in 0..(t - 1),
         Relations(in.bits, t, mat') = Relations(in.bits, t, Powers),
         \A r \in 0..t : r < UnitRows' =>
           \A x \in 0..(t - 1) : mat'[r][x] = IF r = x THEN {0} ELSE {}
  PROVE  ColumnsInv'
<1>1. t' = t /\ Powers' = Powers
  BY SameInput
<1>2. Relations(in'.bits, t', mat') = Relations(in'.bits, t', Powers')
  BY <1>1
<1>3. \A r \in 0..t' : r < UnitRows' => UnitRow(r)'
  BY <1>1 DEF UnitRow
<1>. QED
  BY <1>1, <1>2, <1>3 DEF ColumnsInv

LEMMA FixPivotStep ==
  ASSUME SkInv, FixPivot
  PROVE  SkInv'
<1>0. /\ TypeOK /\ ColumnsInv /\ PivotInv /\ OutInv /\ in \in Inputs /\ in.bits \in Sizes
      /\ t \in Nat /\ t >= 2 /\ mat \in MatricesOf(in.bits, t)
      /\ pc = "pivot" /\ pc' = "pivot" /\ k < t /\ k' = k + 1 /\ in' = in /\ j' = j /\ out' = out
  BY SkFacts DEF SkInv, FixPivot
<1>1. t' = t /\ Elements(in)' = Elements(in) /\ Powers' = Powers
  BY <1>0, SameInput
<1>2. /\ j \in 0..(t - 1) /\ k \in 0..(t - 1) /\ j < k /\ j \in Nat /\ k \in Nat
      /\ j \in 0..t /\ k + 1 \in 0..t
  BY <1>0 DEF ColumnsInv, PivotInv, TypeOK
<1>3. \A r \in 0..t, x \in 0..(t - 1) : mat[r][x] \in Gf(in.bits)
  BY <1>0, SkFacts
<1>4. \A r \in 0..t : r < j => UnitRow(r)
  BY <1>0 DEF ColumnsInv, UnitRows
<1>5. CASE mat[j][j] # {}
  <2>1. mat' = mat
    BY <1>5 DEF FixPivot
  <2>2. TypeOK'
    BY <1>0, <1>1, <1>2, <2>1 DEF TypeOK
  <2>3. ColumnsInv'
    <3>1. UnitRows' = j
      BY <1>0 DEF UnitRows
    <3>2. Relations(in.bits, t, mat') = Relations(in.bits, t, Powers)
      BY <1>0, <2>1 DEF ColumnsInv
    <3>3. \A r \in 0..t : r < j =>
            \A x \in 0..(t - 1) : mat'[r][x] = IF r = x THEN {0} ELSE {}
      BY <1>4, <2>1 DEF UnitRow
    <3>. QED
      BY <1>0, <1>2, <3>1, <3>2, <3>3, ColumnsNext
  <2>4. PivotInv'
    BY <1>0, <1>1, <1>2, <1>5, <2>1 DEF PivotInv
  <2>5. OutInv'
    BY <1>0 DEF OutInv
  <2>. QED
    BY <1>0, <2>2, <2>3, <2>4, <2>5 DEF SkInv, PowersInv, FailedInv, ClearInv
<1>6. CASE mat[j][j] = {}
  <2>1. mat' = [c \in 0..t |-> IF c \in j..t
                                THEN [mat[c] EXCEPT ![j] = SymDiff(@, mat[c][k])]
                                ELSE mat[c]]
    BY <1>6 DEF FixPivot, FixedRows
  <2>2. ASSUME NEW r \in 0..t, NEW x \in 0..(t - 1)
        PROVE  mat'[r][x] = IF x = j /\ r >= j THEN SymDiff(mat[r][j], mat[r][k]) ELSE mat[r][x]
    <3>1. mat[r] \in [0..(t - 1) -> Gf(in.bits)]
      BY <1>0 DEF MatricesOf
    <3>2. r \in j..t <=> r >= j
      BY <1>0, <1>2
    <3>. QED
      BY <1>2, <2>1, <3>1, <3>2
  <2>3. mat' \in MatricesOf(in.bits, t)
    <3>1. ASSUME NEW r \in 0..t
          PROVE  [mat[r] EXCEPT ![j] = SymDiff(@, mat[r][k])] \in [0..(t - 1) -> Gf(in.bits)]
      <4>1. SymDiff(mat[r][j], mat[r][k]) \in Gf(in.bits)
        BY <1>0, <1>2, <1>3, GfBasics
      <4>. QED
        BY <1>0, <1>2, <4>1 DEF MatricesOf
    <3>. QED
      BY <1>0, <2>1, <3>1 DEF MatricesOf
  <2>4. TypeOK'
    <3>1. mat' \in [0..t -> Elements(in)]
      BY <1>0, <2>3, InputTyped DEF MatricesOf
    <3>. QED
      BY <1>0, <1>1, <1>2, <3>1 DEF TypeOK
  <2>5. \A r \in 0..t : r < j => mat[r][k] = {}
    BY <1>2, <1>4 DEF UnitRow
  <2>6. \A a : SymDiff(a, {}) = a /\ SymDiff({}, a) = a
    BY DEF SymDiff
  <2>7. Relations(in.bits, t, mat') = Relations(in.bits, t, mat)
    <3>1. ASSUME NEW r \in 0..t, NEW x \in 0..(t - 1)
          PROVE  mat'[r][x] = IF x = j THEN SymDiff(mat[r][j], gf_mul(in.bits, mat[r][k], {0}))
                              ELSE mat[r][x]
      <4>1. gf_mul(in.bits, mat[r][k], {0}) = mat[r][k]
        BY <1>0, <1>2, <1>3, MulZero
      <4>2. CASE r >= j
        BY <2>2, <4>1, <4>2
      <4>3. CASE ~ r >= j
        <5>1. mat[r][k] = {}
          BY <1>2, <2>5, <4>3
        <5>. QED
          BY <2>2, <2>6, <4>1, <4>3, <5>1
      <4>. QED
        BY <4>2, <4>3
    <3>2. {0} \in Gf(in.bits) /\ j # k
      BY <1>0, <1>2, GfBasics
    <3>. DEFINE n == in.bits
                u == t
                m == mat
                q == mat'
                w == {0}
    <3>3. /\ n \in Sizes /\ u \in Nat /\ m \in MatricesOf(n, u) /\ q \in MatricesOf(n, u)
          /\ j \in 0..(u - 1) /\ k \in 0..(u - 1) /\ j # k /\ w \in Gf(n)
      BY <1>0, <1>2, <2>3, <3>2
    <3>4. \A r \in 0..u : \A x \in 0..(u - 1) :
            q[r][x] = IF x = j THEN SymDiff(m[r][j], gf_mul(n, m[r][k], w)) ELSE m[r][x]
      BY <3>1
    <3>. HIDE DEF n, u, m, q, w
    <3>5. Relations(n, u, q) = Relations(n, u, m)
      BY ONLY <3>3, <3>4, AddColumn
    <3>. QED
      BY ONLY <3>5 DEF n, u, m, q
  <2>8. ColumnsInv'
    <3>1. ASSUME NEW r \in 0..t, r < j, NEW x \in 0..(t - 1)
          PROVE  mat'[r][x] = IF r = x THEN {0} ELSE {}
      <4>1. ~ r >= j
        BY <1>2, <3>1
      <4>. QED
        BY <1>4, <2>2, <3>1, <4>1 DEF UnitRow
    <3>2. UnitRows' = j
      BY <1>0 DEF UnitRows
    <3>3. Relations(in.bits, t, mat') = Relations(in.bits, t, Powers)
      BY <1>0, <2>7 DEF ColumnsInv
    <3>. QED
      BY <1>0, <1>2, <3>1, <3>2, <3>3, ColumnsNext
  <2>9. PivotInv'
    <3>1. SUFFICES ASSUME mat'[j][j] = {}, NEW x \in 0..(t - 1), j < x, x < k + 1
                   PROVE  mat'[j][x] = {}
      BY <1>0, <1>1, <1>2 DEF PivotInv
    <3>2. mat[j][k] = {}
      <4>1. mat'[j][j] = SymDiff(mat[j][j], mat[j][k])
        BY <1>2, <2>2
      <4>2. SymDiff({}, mat[j][k]) = {}
        BY <1>6, <3>1, <4>1
      <4>. QED
        BY <2>6, <4>2
    <3>3. mat'[j][x] = mat[j][x]
      BY <1>2, <2>2, <3>1
    <3>4. CASE x = k
      BY <3>2, <3>3, <3>4
    <3>5. CASE x # k
      <4>1. x < k
        BY <1>2, <3>1, <3>5
      <4>. QED
        BY <1>0, <1>6, <3>1, <3>3, <4>1 DEF PivotInv
    <3>. QED
      BY <3>4, <3>5
  <2>10. OutInv'
    BY <1>0 DEF OutInv
  <2>. QED
    BY <1>0, <2>4, <2>8, <2>9, <2>10 DEF SkInv, PowersInv, FailedInv, ClearInv
<1>. QED
  BY <1>5, <1>6

LEMMA NoPivotStep ==
  ASSUME SkInv, NoPivot
  PROVE  SkInv'
<1>0. /\ TypeOK /\ ColumnsInv /\ PivotInv /\ OutInv
      /\ t \in Nat /\ t >= 2 /\ pc = "pivot" /\ pc' = "failed" /\ k = t /\ mat[j][j] = {}
      /\ UNCHANGED <<in, mat, j, k, out>>
  BY SkFacts DEF SkInv, NoPivot, Goto
<1>1. t' = t /\ Elements(in)' = Elements(in) /\ Powers' = Powers
  BY <1>0, SameInput
<1>2. TypeOK'
  BY <1>0, <1>1 DEF TypeOK
<1>3. ColumnsInv'
  BY <1>0, <1>1 DEF ColumnsInv, UnitRows, UnitRow
<1>4. FailedInv'
  <2>1. ASSUME NEW x \in 0..(t - 1), j <= x  PROVE mat[j][x] = {}
    <3>1. j \in 0..(t - 1) /\ x < t
      BY <1>0 DEF ColumnsInv
    <3>2. CASE x = j
      BY <1>0, <3>2
    <3>3. CASE x # j
      <4>1. j < x
        BY <2>1, <3>1, <3>3
      <4>. QED
        BY <1>0, <3>1, <4>1 DEF PivotInv
    <3>. QED
      BY <3>2, <3>3
  <2>. QED
    BY <1>0, <1>1, <2>1 DEF FailedInv
<1>5. OutInv'
  BY <1>0 DEF OutInv
<1>. QED
  BY <1>0, <1>2, <1>3, <1>4, <1>5 DEF SkInv, PowersInv, PivotInv, ClearInv

LEMMA ScaleStep ==
  ASSUME SkInv, Scale
  PROVE  SkInv'
<1>. DEFINE n == in.bits
            w == inv(mat[j][j])
            v == mat[j][j]
<1>0. /\ TypeOK /\ ColumnsInv /\ OutInv /\ in \in Inputs /\ in.bits \in Sizes
      /\ t \in Nat /\ t >= 2 /\ mat \in MatricesOf(in.bits, t)
      /\ pc = "pivot" /\ pc' = "clear" /\ k = t /\ k' = 0 /\ in' = in /\ j' = j /\ out' = out
      /\ v # {}
  BY SkFacts DEF SkInv, Scale, Goto
<1>1. t' = t /\ Elements(in)' = Elements(in) /\ Powers' = Powers
  BY <1>0, SameInput
<1>2. j \in 0..(t - 1) /\ j \in 0..t /\ j \in Nat
  BY <1>0 DEF ColumnsInv
<1>3. \A r \in 0..t, x \in 0..(t - 1) : mat[r][x] \in Gf(n)
  BY <1>0, SkFacts
<1>4. \A r \in 0..t : r < j => UnitRow(r)
  BY <1>0 DEF ColumnsInv, UnitRows
<1>5. v \in Gf(n) /\ w \in Gf(n) /\ gf_mul(n, v, w) = {0} /\ gf_mul(n, w, v) = {0}
  <2>1. v \in Gf(n)
    BY <1>2, <1>3
  <2>. HIDE DEF v
  <2>2. w = gf_inv(n, v)
    BY DEF inv, v
  <2>. QED
    BY <1>0, <2>1, <2>2, InverseTyped, InverseInverts
<1>6. mat' = [c \in 0..t |-> [mat[c] EXCEPT ![j] = gf_mul(n, @, w)]]
  BY <1>0, InputTyped DEF Scale
<1>. HIDE DEF w
<1>7. ASSUME NEW r \in 0..t, NEW x \in 0..(t - 1)
      PROVE  mat'[r][x] = IF x = j THEN gf_mul(n, mat[r][j], w) ELSE mat[r][x]
  <2>1. mat[r] \in [0..(t - 1) -> Gf(n)]
    BY <1>0 DEF MatricesOf
  <2>. QED
    BY <1>2, <1>6, <2>1
<1>8. mat' \in MatricesOf(n, t)
  <2>1. ASSUME NEW r \in 0..t
        PROVE  [mat[r] EXCEPT ![j] = gf_mul(n, @, w)] \in [0..(t - 1) -> Gf(n)]
    <3>1. gf_mul(n, mat[r][j], w) \in Gf(n)
      BY <1>0, <1>2, <1>3, <1>5, GfBasics
    <3>. QED
      BY <1>0, <1>2, <3>1 DEF MatricesOf
  <2>. QED
    BY <1>0, <1>6, <2>1 DEF MatricesOf
<1>9. TypeOK'
  <2>1. mat' \in [0..t -> Elements(in)]
    BY <1>0, <1>8, InputTyped DEF MatricesOf
  <2>. QED
    BY <1>0, <1>1, <1>2, <2>1 DEF TypeOK
<1>10. Relations(n, t, mat') = Relations(n, t, mat)
  <2>. DEFINE u == t
              m == mat
              q == mat'
  <2>1. /\ n \in Sizes /\ u \in Nat /\ m \in MatricesOf(n, u) /\ q \in MatricesOf(n, u)
        /\ j \in 0..(u - 1) /\ w \in Gf(n) /\ v \in Gf(n) /\ gf_mul(n, w, v) = {0}
    BY <1>0, <1>2, <1>5, <1>8
  <2>2. \A r \in 0..u : \A x \in 0..(u - 1) :
          q[r][x] = IF x = j THEN gf_mul(n, m[r][j], w) ELSE m[r][x]
    BY <1>7
  <2>. HIDE DEF n, u, m, q, v
  <2>3. Relations(n, u, q) = Relations(n, u, m)
    BY ONLY <2>1, <2>2, ScaleColumn
  <2>. QED
    BY <2>3 DEF u, m, q
<1>11. gf_mul(n, {}, w) = {}
  BY <1>0, <1>5, MulZero
<1>12. ColumnsInv'
  <2>1. ASSUME NEW r \in 0..t, r < j, NEW x \in 0..(t - 1)
        PROVE  mat'[r][x] = IF r = x THEN {0} ELSE {}
    <3>1. mat[r][x] = (IF r = x THEN {0} ELSE {}) /\ mat[r][j] = {}
      BY <1>2, <1>4, <2>1 DEF UnitRow
    <3>. QED
      BY <1>2, <1>7, <1>11, <2>1, <3>1
  <2>2. UnitRows' = j
    BY <1>0 DEF UnitRows
  <2>3. Relations(in.bits, t, mat') = Relations(in.bits, t, Powers)
    BY <1>0, <1>10 DEF ColumnsInv
  <2>. QED
    BY <1>0, <1>2, <2>1, <2>2, <2>3, ColumnsNext
<1>13. ClearInv'
  <2>1. mat'[j][j] = {0}
    BY <1>2, <1>5, <1>7
  <2>2. \A x \in 0..(t - 1) : ~ x < 0
    BY <1>0
  <2>. QED
    BY <1>0, <1>1, <2>1, <2>2 DEF ClearInv
<1>14. OutInv'
  BY <1>0 DEF OutInv
<1>. QED
  BY <1>0, <1>9, <1>12, <1>13, <1>14 DEF SkInv, PowersInv, PivotInv, FailedInv

LEMMA ClearStep ==
  ASSUME SkInv, Clear
  PROVE  SkInv'
<1>. DEFINE n == in.bits
            w == mat[j][k]
<1>0. /\ TypeOK /\ ColumnsInv /\ ClearInv /\ OutInv /\ in \in Inputs /\ in.bits \in Sizes
      /\ t \in Nat /\ t >= 2 /\ mat \in MatricesOf(in.bits, t)
      /\ pc = "clear" /\ pc' = "clear" /\ k < t /\ k' = k + 1 /\ in' = in /\ j' = j /\ out' = out
  BY SkFacts DEF SkInv, Clear
<1>1. t' = t /\ Elements(in)' = Elements(in) /\ Powers' = Powers
  BY <1>0, SameInput
<1>2. /\ j \in 0..(t - 1) /\ j \in 0..t /\ j \in Nat
      /\ k \in 0..(t - 1) /\ k \in Nat /\ k + 1 \in 0..t
  BY <1>0 DEF ColumnsInv, TypeOK
<1>3. \A r \in 0..t, x \in 0..(t - 1) : mat[r][x] \in Gf(n)
  BY <1>0, SkFacts
<1>4. \A r \in 0..t : r < j => UnitRow(r)
  BY <1>0 DEF ColumnsInv, UnitRows
<1>5. /\ mat[j][j] = {0}
      /\ \A x \in 0..(t - 1) : x < k /\ x # j => mat[j][x] = {}
  BY <1>0 DEF ClearInv
<1>6. OutInv'
  BY <1>0 DEF OutInv
<1>7. UnitRows' = j
  BY <1>0 DEF UnitRows
<1>8. CASE k = j
  <2>1. mat' = mat
    BY <1>8 DEF Clear
  <2>2. TypeOK'
    BY <1>0, <1>1, <1>2, <2>1 DEF TypeOK
  <2>3. ColumnsInv'
    <3>1. Relations(in.bits, t, mat') = Relations(in.bits, t, Powers)
      BY <1>0, <2>1 DEF ColumnsInv
    <3>2. \A r \in 0..t : r < j =>
            \A x \in 0..(t - 1) : mat'[r][x] = IF r = x THEN {0} ELSE {}
      BY <1>4, <2>1 DEF UnitRow
    <3>. QED
      BY <1>0, <1>2, <1>7, <3>1, <3>2, ColumnsNext
  <2>4. ClearInv'
    <3>1. ASSUME NEW x \in 0..(t - 1), x < k + 1, x # j  PROVE mat[j][x] = {}
      <4>1. x < k
        BY <1>2, <1>8, <3>1
      <4>. QED
        BY <1>5, <3>1, <4>1
    <3>. QED
      BY <1>0, <1>1, <1>5, <2>1, <3>1 DEF ClearInv
  <2>. QED
    BY <1>0, <1>6, <2>2, <2>3, <2>4 DEF SkInv, PowersInv, PivotInv, FailedInv
<1>9. CASE k # j
  <2>1. w \in Gf(n) /\ {0} \in Gf(n)
    BY <1>0, <1>2, <1>3, GfBasics
  <2>2. mat' = [c \in 0..t |-> [mat[c] EXCEPT ![k] = SymDiff(@, gf_mul(n, mat[c][j], w))]]
    BY <1>0, <1>9, InputTyped DEF Clear
  <2>. HIDE DEF w
  <2>3. ASSUME NEW r \in 0..t, NEW x \in 0..(t - 1)
        PROVE  mat'[r][x] = IF x = k THEN SymDiff(mat[r][k], gf_mul(n, mat[r][j], w)) ELSE mat[r][x]
    <3>1. mat[r] \in [0..(t - 1) -> Gf(n)]
      BY <1>0 DEF MatricesOf
    <3>. QED
      BY <1>2, <2>2, <3>1
  <2>4. mat' \in MatricesOf(n, t)
    <3>1. ASSUME NEW r \in 0..t
          PROVE  [mat[r] EXCEPT ![k] = SymDiff(@, gf_mul(n, mat[r][j], w))] \in [0..(t - 1) -> Gf(n)]
      <4>1. SymDiff(mat[r][k], gf_mul(n, mat[r][j], w)) \in Gf(n)
        <5>1. gf_mul(n, mat[r][j], w) \in Gf(n)
          BY <1>0, <1>2, <1>3, <2>1, GfBasics
        <5>. QED
          BY <1>0, <1>2, <1>3, <5>1, GfBasics
      <4>. QED
        BY <1>0, <1>2, <4>1 DEF MatricesOf
    <3>. QED
      BY <1>0, <2>2, <3>1 DEF MatricesOf
  <2>5. TypeOK'
    <3>1. mat' \in [0..t -> Elements(in)]
      BY <1>0, <2>4, InputTyped DEF MatricesOf
    <3>. QED
      BY <1>0, <1>1, <1>2, <3>1 DEF TypeOK
  <2>6. Relations(n, t, mat') = Relations(n, t, mat)
    <3>. DEFINE u == t
                m == mat
                q == mat'
    <3>1. /\ n \in Sizes /\ u \in Nat /\ m \in MatricesOf(n, u) /\ q \in MatricesOf(n, u)
          /\ k \in 0..(u - 1) /\ j \in 0..(u - 1) /\ k # j /\ w \in Gf(n)
      BY <1>0, <1>2, <1>9, <2>1, <2>4
    <3>2. \A r \in 0..u : \A x \in 0..(u - 1) :
            q[r][x] = IF x = k THEN SymDiff(m[r][k], gf_mul(n, m[r][j], w)) ELSE m[r][x]
      BY <2>3
    <3>. HIDE DEF n, u, m, q
    <3>3. Relations(n, u, q) = Relations(n, u, m)
      BY ONLY <3>1, <3>2, AddColumn
    <3>. QED
      BY <3>3 DEF u, m, q
  <2>7. gf_mul(n, {}, w) = {} /\ gf_mul(n, {0}, w) = w
    BY <1>0, <2>1, MulZero, MulOne
  <2>8. \A a : SymDiff(a, {}) = a /\ SymDiff(a, a) = {}
    BY DEF SymDiff
  <2>9. ColumnsInv'
    <3>1. ASSUME NEW r \in 0..t, r < j, NEW x \in 0..(t - 1)
          PROVE  mat'[r][x] = IF r = x THEN {0} ELSE {}
      <4>1. mat[r][x] = (IF r = x THEN {0} ELSE {}) /\ mat[r][j] = {}
        BY <1>2, <1>4, <3>1 DEF UnitRow
      <4>2. CASE x = k
        <5>1. mat'[r][x] = SymDiff(mat[r][x], gf_mul(n, {}, w))
          BY <2>3, <4>1, <4>2
        <5>. QED
          BY <2>7, <2>8, <4>1, <5>1
      <4>3. CASE x # k
        BY <2>3, <4>1, <4>3
      <4>. QED
        BY <4>2, <4>3
    <3>2. Relations(in.bits, t, mat') = Relations(in.bits, t, Powers)
      BY <1>0, <2>6 DEF ColumnsInv
    <3>. QED
      BY <1>0, <1>2, <1>7, <3>1, <3>2, ColumnsNext
  <2>10. ClearInv'
    <3>1. mat'[j][j] = {0}
      BY <1>2, <1>5, <1>9, <2>3
    <3>2. ASSUME NEW x \in 0..(t - 1), x < k + 1, x # j  PROVE mat'[j][x] = {}
      <4>1. CASE x = k
        <5>1. mat'[j][k] = SymDiff(mat[j][k], gf_mul(n, mat[j][j], w))
          BY <1>2, <2>3
        <5>. QED
          BY <1>5, <2>7, <2>8, <4>1, <5>1 DEF w
      <4>2. CASE x # k
        <5>1. x < k
          BY <1>2, <3>2, <4>2
        <5>. QED
          BY <1>2, <1>5, <2>3, <3>2, <4>2, <5>1
      <4>. QED
        BY <4>1, <4>2
    <3>. QED
      BY <1>0, <1>1, <3>1, <3>2 DEF ClearInv
  <2>. QED
    BY <1>0, <1>6, <2>5, <2>9, <2>10 DEF SkInv, PowersInv, PivotInv, FailedInv
<1>. QED
  BY <1>8, <1>9

(* When row j has been cleared it is a unit vector, as those above it. *)
LEMMA RowDone ==
  ASSUME ColumnsInv, ClearInv, pc = "clear", k = t, t \in Nat
  PROVE  \A r \in 0..t : r < j + 1 => \A x \in 0..(t - 1) : mat[r][x] = IF r = x THEN {0} ELSE {}
<1>1. j \in 0..(t - 1) /\ \A r \in 0..t : r < j => UnitRow(r)
  BY DEF ColumnsInv, UnitRows
<1>2. \A x \in 0..(t - 1) : mat[j][x] = IF j = x THEN {0} ELSE {}
  <2>1. mat[j][j] = {0} /\ \A x \in 0..(t - 1) : x < k /\ x # j => mat[j][x] = {}
    BY DEF ClearInv
  <2>2. \A x \in 0..(t - 1) : x < k
    OBVIOUS
  <2>. QED
    BY <2>1, <2>2
<1>3. \A r \in 0..t : r < j + 1 => r < j \/ r = j
  BY <1>1
<1>. QED
  BY <1>1, <1>2, <1>3 DEF UnitRow

LEMMA NextColumnStep ==
  ASSUME SkInv, NextColumn
  PROVE  SkInv'
<1>0. /\ TypeOK /\ ColumnsInv /\ ClearInv /\ OutInv
      /\ t \in Nat /\ t >= 2 /\ pc = "clear" /\ pc' = "pivot" /\ k = t /\ j + 1 < t
      /\ j' = j + 1 /\ k' = j + 2 /\ UNCHANGED <<in, mat, out>>
  BY SkFacts DEF SkInv, NextColumn, Goto
<1>1. t' = t /\ Elements(in)' = Elements(in) /\ Powers' = Powers
  BY <1>0, SameInput
<1>2. j \in 0..(t - 1) /\ j + 1 \in 0..(t - 1) /\ j + 1 \in 0..(t + 1) /\ j + 2 \in 0..t /\ j \in Nat
  BY <1>0 DEF ColumnsInv
<1>3. TypeOK'
  BY <1>0, <1>1, <1>2 DEF TypeOK
<1>4. ColumnsInv'
  <2>1. UnitRows' = j + 1
    BY <1>0 DEF UnitRows
  <2>2. Relations(in.bits, t, mat') = Relations(in.bits, t, Powers)
    BY <1>0 DEF ColumnsInv
  <2>3. \A r \in 0..t : r < j + 1 =>
          \A x \in 0..(t - 1) : mat'[r][x] = IF r = x THEN {0} ELSE {}
    BY <1>0, RowDone
  <2>. QED
    BY <1>0, <1>2, <2>1, <2>2, <2>3, ColumnsNext
<1>5. PivotInv'
  <2>1. \A x \in 0..(t - 1) : ~ (j + 1 < x /\ x < j + 2)
    BY <1>2
  <2>2. j + 1 < j + 2
    BY <1>2
  <2>. QED
    BY <1>0, <1>1, <2>1, <2>2 DEF PivotInv
<1>6. OutInv'
  BY <1>0 DEF OutInv
<1>. QED
  BY <1>0, <1>3, <1>4, <1>5, <1>6 DEF SkInv, PowersInv, FailedInv, ClearInv

LEMMA ReturnStep ==
  ASSUME SkInv, Return
  PROVE  SkInv'
<1>0. /\ TypeOK /\ ColumnsInv /\ ClearInv /\ OutInv
      /\ t \in Nat /\ t >= 2 /\ pc = "clear" /\ pc' = "done" /\ k = t /\ j + 1 = t
      /\ out' = mat[t] /\ UNCHANGED <<in, mat, j, k>>
  BY SkFacts DEF SkInv, Return, Goto, Result
<1>1. t' = t /\ Elements(in)' = Elements(in) /\ Powers' = Powers
  BY <1>0, SameInput
<1>2. j \in 0..(t - 1)
  BY <1>0 DEF ColumnsInv
<1>3. TypeOK'
  <2>1. mat[t] \in Elements(in)
    BY <1>0 DEF TypeOK
  <2>. QED
    BY <1>0, <1>1, <2>1 DEF TypeOK
<1>4. ColumnsInv'
  <2>1. UnitRows' = j + 1
    BY <1>0, <1>1 DEF UnitRows
  <2>2. Relations(in.bits, t, mat') = Relations(in.bits, t, Powers)
    BY <1>0 DEF ColumnsInv
  <2>3. \A r \in 0..t : r < j + 1 =>
          \A x \in 0..(t - 1) : mat'[r][x] = IF r = x THEN {0} ELSE {}
    BY <1>0, RowDone
  <2>. QED
    BY <1>0, <1>2, <2>1, <2>2, <2>3, ColumnsNext
<1>5. OutInv'
  BY <1>0, <1>1 DEF OutInv
<1>. QED
  BY <1>0, <1>3, <1>4, <1>5 DEF SkInv, PowersInv, PivotInv, FailedInv, ClearInv

(* A step that changes nothing keeps the invariant. *)
LEMMA StutterStep ==
  ASSUME SkInv, UNCHANGED vars
  PROVE  SkInv'
<1>0. UNCHANGED <<in, mat, j, k, out, pc>>
  BY DEF vars
<1>1. t' = t /\ Elements(in)' = Elements(in) /\ Powers' = Powers
  BY <1>0, SameInput
<1>2. TypeOK'
  BY <1>0, <1>1 DEF SkInv, TypeOK
<1>3. PowersInv' /\ PivotInv' /\ FailedInv' /\ ClearInv' /\ OutInv'
  BY <1>0, <1>1 DEF SkInv, PowersInv, PivotInv, FailedInv, ClearInv, OutInv
<1>4. ColumnsInv'
  BY <1>0, <1>1 DEF SkInv, ColumnsInv, UnitRows, UnitRow
<1>. QED
  BY <1>2, <1>3, <1>4 DEF SkInv

(* Every step keeps the invariant. *)
LEMMA SkStep == SkInv /\ [Next]_vars => SkInv'
<1>. SUFFICES ASSUME SkInv, [Next]_vars  PROVE SkInv'
  OBVIOUS
<1>1. CASE Power
  BY <1>1, PowerStep
<1>2. CASE Eliminate
  BY <1>2, EliminateStep
<1>3. CASE FixPivot
  BY <1>3, FixPivotStep
<1>4. CASE NoPivot
  BY <1>4, NoPivotStep
<1>5. CASE Scale
  BY <1>5, ScaleStep
<1>6. CASE Clear
  BY <1>6, ClearStep
<1>7. CASE NextColumn
  BY <1>7, NextColumnStep
<1>8. CASE Return
  BY <1>8, ReturnStep
<1>9. CASE UNCHANGED vars
  BY <1>9, StutterStep
<1>. QED
  BY <1>1, <1>2, <1>3, <1>4, <1>5, <1>6, <1>7, <1>8, <1>9 DEF Next, Returned

(***************************************************************************)
(* Every matrix, column, round and result of genpoly_gen is within the     *)
(* bounds of its arrays and its field (src/sk_gen.rs:8-56).                *)
(***************************************************************************)
THEOREM SkGenTypeCorrect == Spec => []TypeOK
<1>1. SkInv => TypeOK
  BY DEF SkInv
<1>. QED
  BY <1>1, SkInitial, SkStep, PTL DEF Spec

-------------------------------------------------------------------------------
(* What genpoly_gen returns.                                                 *)

(* 1, f, ..., f^(t-1) satisfy no linear relation but the trivial one. *)
PowersIndependent ==
  \A c \in Relations(in.bits, t, Powers) : c[t] = {} => \A n \in 0..t : c[n] = {}

(* f^t is the sum of out[n] * f^n. *)
ResultIsRelation ==
  \A x \in 0..(t - 1) :
    Powers[t][x] = SumOver([n \in 0..(t - 1) |-> mul(out[n], Powers[n][x])], 0..(t - 1))

(***************************************************************************)
(* If genpoly_gen succeeds (sk_gen.rs:53-55), f^t is the combination of    *)
(* the lower powers with the coefficients it returns, and no nontrivial    *)
(* combination of the lower powers is 0: no other monic polynomial of      *)
(* degree t or less has the root f.  If it fails (32-34), some nontrivial  *)
(* combination is 0, so that the minimal polynomial of f has a smaller     *)
(* degree, and nothing has been written.                                   *)
(***************************************************************************)
MinimalPolynomial ==
  /\ pc = "done" => PowersIndependent /\ ResultIsRelation
  /\ pc = "failed" => ~ PowersIndependent /\ out = Stale

(* On success the powers are independent: the first t rows are unit vectors. *)
LEMMA DoneIndependent ==
  ASSUME SkInv, pc = "done"
  PROVE  PowersIndependent
<1>0. /\ TypeOK /\ ColumnsInv /\ in.bits \in Sizes /\ t \in Nat /\ t >= 2
      /\ mat \in MatricesOf(in.bits, t)
      /\ \A r \in 0..t, x \in 0..(t - 1) : mat[r][x] \in Gf(in.bits)
  BY SkFacts DEF SkInv
<1>1. \A r \in 0..t : r < t => \A x \in 0..(t - 1) : mat[r][x] = IF r = x THEN {0} ELSE {}
  BY <1>0 DEF ColumnsInv, UnitRows, UnitRow
<1>. SUFFICES ASSUME NEW c \in Relations(in.bits, t, Powers), c[t] = {}, NEW n \in 0..t
              PROVE  c[n] = {}
  BY DEF PowersIndependent
<1>2. c \in Relations(in.bits, t, mat)
  BY <1>0 DEF ColumnsInv
<1>3. c \in Coefficients(in.bits, t) /\ \A x \in 0..(t - 1) : At(in.bits, t, mat, c, x) = {}
  BY <1>2 DEF Relations
<1>4. CASE n = t
  BY <1>4
<1>5. CASE n # t
  <2>1. n \in 0..(t - 1) /\ n < t
    BY <1>0, <1>5
  <2>2. At(in.bits, t, mat, c, n)
          = SymDiff(IF n < t THEN c[n] ELSE {}, gf_mul(in.bits, c[t], mat[t][n]))
    <3>. DEFINE b == in.bits
                u == t
                m == mat
    <3>1. /\ b \in Sizes /\ u \in Nat /\ m \in MatricesOf(b, u) /\ u \in 0..u
          /\ c \in Coefficients(b, u) /\ n \in 0..(u - 1)
      BY <1>0, <1>3, <2>1
    <3>2. \A r \in 0..u : r < u => m[r][n] = IF r = n THEN {0} ELSE {}
      BY <1>1, <2>1
    <3>3. \A r \in 0..u : u < r => c[r] = {}
      BY <1>0
    <3>. HIDE DEF b, u, m
    <3>4. At(b, u, m, c, n) = SymDiff(IF n < u THEN c[n] ELSE {}, gf_mul(b, c[u], m[u][n]))
      BY ONLY <3>1, <3>2, <3>3, AtUnitRows
    <3>. QED
      BY <3>4 DEF b, u, m
  <2>3. gf_mul(in.bits, {}, mat[t][n]) = {}
    <3>1. mat[t][n] \in Gf(in.bits)
      BY <1>0, <2>1
    <3>. QED
      BY <1>0, <3>1, MulZero
  <2>4. SymDiff(c[n], {}) = c[n]
    BY DEF SymDiff
  <2>. QED
    BY <1>3, <2>1, <2>2, <2>3, <2>4
<1>. QED
  BY <1>4, <1>5

(* On success the result is a relation: row t is a combination of the others. *)
LEMMA DoneRelation ==
  ASSUME SkInv, pc = "done"
  PROVE  ResultIsRelation
<1>. DEFINE n == in.bits
            c == [r \in 0..t |-> IF r = t THEN {0} ELSE mat[t][r]]
<1>0. /\ TypeOK /\ ColumnsInv /\ OutInv /\ in \in Inputs /\ n \in Sizes /\ t \in Nat /\ t >= 2
      /\ mat \in MatricesOf(n, t)
      /\ \A r \in 0..t, x \in 0..(t - 1) : mat[r][x] \in Gf(n)
  BY SkFacts DEF SkInv
<1>1. \A r \in 0..t : r < t => \A x \in 0..(t - 1) : mat[r][x] = IF r = x THEN {0} ELSE {}
  BY <1>0 DEF ColumnsInv, UnitRows, UnitRow
<1>2. c \in Coefficients(n, t)
  <2>1. {0} \in Gf(n)
    BY <1>0, GfBasics
  <2>2. \A r \in 0..t : r # t => r \in 0..(t - 1)
    BY <1>0
  <2>3. \A r \in 0..t : (IF r = t THEN {0} ELSE mat[t][r]) \in Gf(n)
    BY <1>0, <2>1, <2>2
  <2>. QED
    BY <2>3 DEF Coefficients
<1>3. ASSUME NEW x \in 0..(t - 1)
      PROVE  At(n, t, mat, c, x) = {}
  <2>. DEFINE u == t
              m == mat
  <2>1. /\ n \in Sizes /\ u \in Nat /\ m \in MatricesOf(n, u) /\ u \in 0..u
        /\ c \in Coefficients(n, u) /\ x \in 0..(u - 1)
    BY <1>0, <1>2
  <2>2. \A r \in 0..u : r < u => m[r][x] = IF r = x THEN {0} ELSE {}
    BY <1>1
  <2>3. \A r \in 0..u : u < r => c[r] = {}
    BY <1>0
  <2>4. c[x] = m[u][x] /\ c[u] = {0} /\ x < u /\ m[u][x] \in Gf(n)
    BY <1>0
  <2>. HIDE DEF n, u, m, c
  <2>5. At(n, u, m, c, x) = SymDiff(IF x < u THEN c[x] ELSE {}, gf_mul(n, c[u], m[u][x]))
    BY ONLY <2>1, <2>2, <2>3, AtUnitRows
  <2>6. gf_mul(n, {0}, m[u][x]) = m[u][x]
    BY <2>1, <2>4, MulOne
  <2>7. At(n, u, m, c, x) = {}
    BY ONLY <2>4, <2>5, <2>6 DEF SymDiff
  <2>. QED
    BY <2>7 DEF u, m
<1>4. c \in Relations(n, t, Powers)
  <2>1. c \in Relations(n, t, mat)
    BY <1>2, <1>3 DEF Relations
  <2>. QED
    BY <1>0, <2>1 DEF ColumnsInv
<1>5. out = mat[t]
  BY <1>0 DEF OutInv
<1>. SUFFICES ASSUME NEW x \in 0..(t - 1)
              PROVE  Powers[t][x] = SumOver([r \in 0..(t - 1) |-> gf_mul(n, out[r], Powers[r][x])], 0..(t - 1))
  BY DEF ResultIsRelation, mul
<1>. DEFINE f == [r \in 0..t |-> gf_mul(n, c[r], Powers[r][x])]
            g == [r \in 0..(t - 1) |-> gf_mul(n, out[r], Powers[r][x])]
<1>6. SumOver(f, 0..t) = {}
  BY <1>4 DEF Relations, At
<1>7. /\ \A r \in 0..(t - 1) : f[r] = g[r]
      /\ f[t] = gf_mul(n, {0}, Powers[t][x])
      /\ 0..t = 0..(t - 1) \cup {t} /\ t \notin 0..(t - 1)
  BY <1>0, <1>5
<1>8. Powers[t][x] \in Gf(n)
  <2>1. Powers \in [0..t -> Elements(in)] /\ Elements(in) = [0..(t - 1) -> Gf(n)]
    BY <1>0, PowersAre, InputTyped
  <2>. QED
    BY <1>0, <2>1
<1>9. f[t] = Powers[t][x]
  BY <1>0, <1>7, <1>8, MulOne
<1>. HIDE DEF f, g, n
<1>10. SumOver(f, 0..(t - 1) \cup {t}) = SymDiff(SumOver(f, 0..(t - 1)), f[t])
  <2>. DEFINE S == 0..(t - 1)
  <2>1. IsFiniteSet(S)
    BY <1>0, FS_Interval
  <2>2. n \in Sizes /\ t \notin S /\ f[t] \in Gf(n)
    BY <1>0, <1>7, <1>8, <1>9
  <2>. HIDE DEF S
  <2>3. SumOver(f, S \cup {t}) = SymDiff(SumOver(f, S), f[t])
    BY ONLY <2>1, <2>2, SumStep
  <2>. QED
    BY <2>3 DEF S
<1>11. SumOver(f, 0..(t - 1)) = SumOver(g, 0..(t - 1))
  BY <1>7, SumSame
<1>12. \A a, b : SymDiff(a, b) = {} => a = b
  BY DEF SymDiff
<1>13. Powers[t][x] = SumOver(g, 0..(t - 1))
  BY <1>6, <1>7, <1>9, <1>10, <1>11, <1>12
<1>. QED
  BY <1>13 DEF g

(* On failure they are not: row j is a combination of the rows above it. *)
LEMMA FailedDependent ==
  ASSUME SkInv, pc = "failed"
  PROVE  ~ PowersIndependent
<1>. DEFINE n == in.bits
            c == [r \in 0..t |-> IF r < j THEN mat[j][r] ELSE IF r = j THEN {0} ELSE {}]
<1>0. /\ TypeOK /\ ColumnsInv /\ FailedInv /\ n \in Sizes /\ t \in Nat /\ t >= 2
      /\ mat \in MatricesOf(n, t)
      /\ \A r \in 0..t, x \in 0..(t - 1) : mat[r][x] \in Gf(n)
  BY SkFacts DEF SkInv
<1>1. /\ j \in 0..(t - 1)
      /\ \A r \in 0..t : r < j => \A x \in 0..(t - 1) : mat[r][x] = IF r = x THEN {0} ELSE {}
  BY <1>0 DEF ColumnsInv, UnitRows, UnitRow
<1>2. c \in Coefficients(n, t)
  <2>1. {0} \in Gf(n) /\ {} \in Gf(n)
    BY <1>0, GfBasics
  <2>2. j \in 0..t /\ \A r \in 0..t : r < j => r \in 0..(t - 1)
    BY <1>0, <1>1
  <2>3. \A r \in 0..t : (IF r < j THEN mat[j][r] ELSE IF r = j THEN {0} ELSE {}) \in Gf(n)
    BY <1>0, <2>1, <2>2
  <2>. QED
    BY <2>3 DEF Coefficients
<1>3. ASSUME NEW x \in 0..(t - 1)
      PROVE  At(n, t, mat, c, x) = {}
  <2>. DEFINE u == t
              m == mat
  <2>1. /\ n \in Sizes /\ u \in Nat /\ m \in MatricesOf(n, u) /\ j \in 0..u
        /\ c \in Coefficients(n, u) /\ x \in 0..(u - 1)
    BY <1>0, <1>1, <1>2
  <2>2. \A r \in 0..u : r < j => m[r][x] = IF r = x THEN {0} ELSE {}
    BY <1>1
  <2>3. \A r \in 0..u : j < r => c[r] = {}
    BY <1>0, <1>1
  <2>4. (x < j => c[x] = m[j][x]) /\ c[j] = {0} /\ m[j][x] \in Gf(n)
    BY <1>0, <1>1
  <2>5. ~ x < j => m[j][x] = {}
    BY <1>0, <1>1 DEF FailedInv
  <2>. HIDE DEF n, u, m, c
  <2>6. At(n, u, m, c, x) = SymDiff(IF x < j THEN c[x] ELSE {}, gf_mul(n, c[j], m[j][x]))
    BY ONLY <2>1, <2>2, <2>3, AtUnitRows
  <2>7. gf_mul(n, {0}, m[j][x]) = m[j][x]
    BY <2>1, <2>4, MulOne
  <2>8. At(n, u, m, c, x) = {}
    BY ONLY <2>4, <2>5, <2>6, <2>7 DEF SymDiff
  <2>. QED
    BY <2>8 DEF u, m
<1>4. c \in Relations(n, t, Powers)
  <2>1. c \in Relations(n, t, mat)
    BY <1>2, <1>3 DEF Relations
  <2>. QED
    BY <1>0, <2>1 DEF ColumnsInv
<1>5. j \in 0..t /\ t \in 0..t /\ c[t] = {} /\ c[j] = {0}
  BY <1>0, <1>1
<1>. HIDE DEF c
<1>6. \E r \in 0..t : c[r] # {}
  BY <1>5
<1>. QED
  BY <1>4, <1>5, <1>6 DEF PowersIndependent

(***************************************************************************)
(* genpoly_gen returns the minimal polynomial of f if that has degree t,   *)
(* and fails if it has a smaller one.                                      *)
(***************************************************************************)
THEOREM MinimalPolynomialFound == Spec => []MinimalPolynomial
<1>1. SkInv => MinimalPolynomial
  <2>. SUFFICES ASSUME SkInv  PROVE MinimalPolynomial
    OBVIOUS
  <2>1. pc = "failed" => out = Stale
    BY DEF SkInv, OutInv
  <2>. QED
    BY <2>1, DoneIndependent, DoneRelation, FailedDependent DEF MinimalPolynomial
<1>. QED
  BY <1>1, SkInitial, SkStep, PTL DEF Spec

-------------------------------------------------------------------------------
(* Polynomials in z, and the residues that gf_mul computes.                *)

(* Sets of exponents. *)
ZPolys == W12!Polys

ZProduct(a, b) == W12!PolyMul(a, b)

(* z^n + ..., the polynomial of the field. *)
FieldPoly(n) == {n} \cup (IF n = 12 THEN {3, 0} ELSE {4, 3, 1, 0})

(* p and r differ by a multiple of it. *)
Congruent(n, p, r) == \E q \in ZPolys : p = SymDiff(r, ZProduct(q, FieldPoly(n)))

(* What Goppa and GF assume of their constants. *)
LEMMA Assumptions12 ==
  /\ /\ 64 \in Nat \ {0}
     /\ 3488 \in Nat
     /\ 2 ^ 12 \in Nat
     /\ 64 * 12 < 3488
     /\ 3488 <= 2 ^ 12
  /\ /\ 12 \in Nat \ {0}
     /\ {3, 0} \subseteq 0..(12 - 1)
     /\ 0 \in {3, 0}
     /\ {3, 0} # {0}
     /\ \A s, u \in {3, 0} : s + u <= 12 + 1
OBVIOUS

(* The two instances speak of the same. *)
LEMMA SamePolys ==
  /\ W13!Polys = ZPolys
  /\ \A a, b : W13!PolyMul(a, b) = ZProduct(a, b)
  /\ W12!FieldPoly = FieldPoly(12) /\ W13!FieldPoly = FieldPoly(13)
<1>1. W13!Polys = ZPolys
  BY DEF W13!Polys, W12!Polys, ZPolys
<1>2. \A S : W13!Odd(S) = W12!Odd(S)
  <2>1. \A S : W13!Cardinality(S) = W12!Cardinality(S)
    BY DEF W13!Cardinality, W12!Cardinality
  <2>. QED
    BY <2>1 DEF W12!Odd, W13!Odd
<1>3. \A a, b : W13!PolyMul(a, b) = ZProduct(a, b)
  BY <1>2 DEF W13!PolyMul, W12!PolyMul, ZProduct
<1>4. W12!FieldPoly = FieldPoly(12) /\ W13!FieldPoly = FieldPoly(13)
  BY DEF W12!FieldPoly, W13!FieldPoly, FieldPoly
<1>. QED
  BY <1>1, <1>3, <1>4

(* Congruence and elements are the same in both instances. *)
LEMMA SameCongruent ==
  /\ \A p, r : Congruent(12, p, r) <=> W12!Congruent(p, r)
  /\ \A p, r : Congruent(13, p, r) <=> W13!Congruent(p, r)
  /\ Gf(12) = W12!Gf /\ Gf(13) = W13!Gf
<1>1. \A p, r : Congruent(12, p, r) <=> W12!Congruent(p, r)
  BY SamePolys, SameSymDiff DEF Congruent, W12!Congruent, ZPolys, ZProduct
<1>2. \A p, r : Congruent(13, p, r) <=> W13!Congruent(p, r)
  BY SamePolys, SameSymDiff DEF Congruent, W13!Congruent
<1>. QED
  BY <1>1, <1>2 DEF Gf, W12!Gf, W13!Gf

(* What is a polynomial. *)
LEMMA PolysClosed ==
  /\ {} \in ZPolys /\ \A x \in ZPolys : x \in SUBSET Int /\ IsFiniteSet(x)
  /\ \A x, y \in ZPolys : SymDiff(x, y) \in ZPolys /\ ZProduct(x, y) \in ZPolys
  /\ \A e0 \in Int : {e0} \in ZPolys
  /\ \A n \in Sizes : FieldPoly(n) \in ZPolys /\ \A x \in Gf(n) : x \in ZPolys
<1>1. /\ \A n \in Nat : SUBSET (0..n) \subseteq ZPolys
      /\ \A j0 \in Int : {j0} \in ZPolys
      /\ \A x \in ZPolys : x \subseteq Int /\ W12!IsFiniteSet(x)
      /\ \A x, y \in ZPolys : W12!SymDiff(x, y) \in ZPolys
  <2>1. \A n \in Nat : SUBSET (0..n) \subseteq ZPolys
    BY W12!PolysAre, Assumptions12 DEF W12!PK_NROWS, ZPolys
  <2>2. \A j0 \in Int : {j0} \in ZPolys
    BY W12!PolysAre, Assumptions12 DEF W12!PK_NROWS, ZPolys
  <2>3. \A x \in ZPolys : x \subseteq Int /\ W12!IsFiniteSet(x)
    BY W12!PolysAre, Assumptions12 DEF W12!PK_NROWS, ZPolys
  <2>4. \A x, y \in ZPolys : W12!SymDiff(x, y) \in ZPolys
    BY W12!PolysClosed, Assumptions12 DEF W12!PK_NROWS, ZPolys
  <2>. QED
    BY ONLY <2>1, <2>2, <2>3, <2>4
<1>2. \A x : W12!IsFiniteSet(x) <=> IsFiniteSet(x)
  BY DEF W12!IsFiniteSet, IsFiniteSet
<1>3. \A x, y \in ZPolys : ZProduct(x, y) \in ZPolys
  BY W12!PolyMulType DEF W12!PK_NROWS, ZPolys, ZProduct
<1>4. 20 \in Nat /\ {} \in SUBSET (0..20)
  OBVIOUS
<1>5. \A n \in Sizes : FieldPoly(n) \in SUBSET (0..20) /\ \A x \in Gf(n) : x \in SUBSET (0..20)
  BY DEF Sizes, FieldPoly, Gf
<1>6. SUBSET (0..20) \subseteq ZPolys
  BY <1>1, <1>4
<1>. QED
  BY <1>1, <1>2, <1>3, <1>4, <1>5, <1>6, SameSymDiff

(* Congruence goes through sums. *)
LEMMA CongruentSum ==
  ASSUME NEW n \in Sizes, NEW p \in ZPolys, NEW r \in ZPolys, NEW u \in ZPolys, NEW v \in ZPolys,
         Congruent(n, p, r), Congruent(n, u, v)
  PROVE  Congruent(n, SymDiff(p, u), SymDiff(r, v))
<1>1. CASE n = 12
  <2>1. W12!Congruent(p, r) /\ W12!Congruent(u, v)
    BY <1>1, SameCongruent
  <2>2. W12!Congruent(W12!SymDiff(p, u), W12!SymDiff(r, v))
    BY <2>1, W12!CongruentSum DEF W12!PK_NROWS, ZPolys
  <2>. QED
    BY <1>1, <2>2, SameCongruent, SameSymDiff
<1>2. CASE n = 13
  <2>1. W13!Congruent(p, r) /\ W13!Congruent(u, v)
    BY <1>2, SameCongruent
  <2>2. W13!Congruent(W13!SymDiff(p, u), W13!SymDiff(r, v))
    BY <2>1, SamePolys, W13!CongruentSum DEF W13!PK_NROWS
  <2>. QED
    BY <1>2, <2>2, SameCongruent, SameSymDiff
<1>. QED
  BY <1>1, <1>2 DEF Sizes

(* Congruence is transitive. *)
LEMMA CongruentTrans ==
  ASSUME NEW n \in Sizes, NEW p \in ZPolys, NEW r \in ZPolys, NEW u \in ZPolys,
         Congruent(n, p, r), Congruent(n, r, u)
  PROVE  Congruent(n, p, u)
<1>1. CASE n = 12
  BY <1>1, SameCongruent, W12!CongruentTrans DEF W12!PK_NROWS, ZPolys
<1>2. CASE n = 13
  BY <1>2, SameCongruent, SamePolys, W13!CongruentTrans DEF W13!PK_NROWS
<1>. QED
  BY <1>1, <1>2 DEF Sizes

(* Congruent polynomials times an element stay congruent. *)
LEMMA CongruentProduct ==
  ASSUME NEW n \in Sizes, NEW p \in ZPolys, NEW r \in ZPolys, NEW c \in Gf(n),
         Congruent(n, p, r)
  PROVE  Congruent(n, ZProduct(p, c), ZProduct(r, c))
<1>1. CASE n = 12
  <2>1. W12!Congruent(p, r) /\ c \in W12!Gf
    BY <1>1, SameCongruent
  <2>2. W12!Congruent(W12!PolyMul(p, c), W12!PolyMul(r, c))
    BY <2>1, W12!CongruentProduct DEF W12!PK_NROWS, ZPolys
  <2>. QED
    BY <1>1, <2>2, SameCongruent DEF ZProduct
<1>2. CASE n = 13
  <2>1. W13!Congruent(p, r) /\ c \in W13!Gf
    BY <1>2, SameCongruent
  <2>2. W13!Congruent(W13!PolyMul(p, c), W13!PolyMul(r, c))
    BY <2>1, SamePolys, W13!CongruentProduct DEF W13!PK_NROWS
  <2>. QED
    BY <1>2, <2>2, SameCongruent, SamePolys
<1>. QED
  BY <1>1, <1>2 DEF Sizes

(* Two elements congruent to the same polynomial are equal. *)
LEMMA ResidueUnique ==
  ASSUME NEW n \in Sizes, NEW a \in Gf(n), NEW b \in Gf(n), NEW p \in ZPolys,
         Congruent(n, a, p), Congruent(n, b, p)
  PROVE  a = b
<1>1. CASE n = 12
  BY <1>1, SameCongruent, W12!ResidueIsUnique DEF W12!PK_NROWS, ZPolys
<1>2. CASE n = 13
  BY <1>2, SameCongruent, SamePolys, W13!ResidueIsUnique DEF W13!PK_NROWS
<1>. QED
  BY <1>1, <1>2 DEF Sizes

(* gf_mul is the product up to a multiple of the field polynomial. *)
LEMMA MulCongruent ==
  ASSUME NEW n \in Sizes, NEW a \in Gf(n), NEW b \in Gf(n)
  PROVE  Congruent(n, gf_mul(n, a, b), ZProduct(a, b))
<1>1. CASE n = 12
  <2>1. a \in W12!Gf /\ b \in W12!Gf
    BY <1>1, SameCongruent
  <2>2. W12!Congruent(W12!gf_mul(a, b), W12!PolyMul(a, b))
    BY <2>1, W12!MulIsResidue DEF W12!PK_NROWS
  <2>. QED
    BY <1>1, <2>2, SameCongruent, SameMul DEF ZProduct, gf_mul
<1>2. CASE n = 13
  <2>1. a \in W13!Gf /\ b \in W13!Gf
    BY <1>2, SameCongruent
  <2>2. W13!Congruent(W13!gf_mul(a, b), W13!PolyMul(a, b))
    BY <2>1, W13!MulIsResidue DEF W13!PK_NROWS
  <2>. QED
    BY <1>2, <2>2, SameCongruent, SamePolys, SameMul DEF gf_mul
<1>. QED
  BY <1>1, <1>2 DEF Sizes

(* The product, bit by bit. *)
LEMMA ZProductBit ==
  ASSUME NEW a \in ZPolys, NEW b \in ZPolys, NEW e0 \in Int
  PROVE  /\ e0 \in ZProduct(a, b) <=> G13!Odd({i \in b : e0 - i \in a})
         /\ IsFiniteSet({i \in b : e0 - i \in a})
<1>1. e0 \in W12!PolyMul(a, b) <=> W12!Odd(W12!Pairs(a, b, e0))
  BY W12!PolyMulBit DEF W12!PK_NROWS, ZPolys
<1>2. \A S : W12!Odd(S) = G13!Odd(S)
  BY SameOdd DEF W12!Odd, W12!Cardinality, G13!Odd, G13!Cardinality
<1>3. IsFiniteSet(b)
  BY PolysClosed
<1>. QED
  BY <1>1, <1>2, <1>3, FS_Subset DEF W12!Pairs, ZProduct

(* The order of the factors does not matter. *)
LEMMA ZProductCommutes ==
  ASSUME NEW a \in ZPolys, NEW b \in ZPolys
  PROVE  ZProduct(a, b) = ZProduct(b, a)
BY W12!PolyMulCommutes DEF W12!PK_NROWS, ZPolys, ZProduct

(* A product with 0 is 0. *)
LEMMA ZProductNone ==
  ASSUME NEW a \in ZPolys
  PROVE  ZProduct(a, {}) = {} /\ ZProduct({}, a) = {}
BY DEF ZProduct, W12!PolyMul

(* A product with 1 changes nothing. *)
LEMMA ZProductOne ==
  ASSUME NEW a \in ZPolys
  PROVE  ZProduct(a, {0}) = a
<1>1. {0} \in ZPolys /\ a \in SUBSET Int /\ ZProduct(a, {0}) \in SUBSET Int
  BY PolysClosed
<1>2. ASSUME NEW e0 \in Int  PROVE e0 \in ZProduct(a, {0}) <=> e0 \in a
  <2>1. e0 - 0 = e0
    OBVIOUS
  <2>2. e0 \in ZProduct(a, {0}) <=> G13!Odd({i \in {0} : e0 - i \in a})
    BY <1>1, ZProductBit
  <2>3. {i \in {0} : e0 - i \in a} = IF e0 \in a THEN {0} ELSE {}
    BY <2>1
  <2>. QED
    BY <2>2, <2>3, OddFew
<1>. QED
  BY <1>1, <1>2

(* Congruence is reflexive. *)
LEMMA CongruentSelf ==
  ASSUME NEW n \in Sizes, NEW p \in ZPolys
  PROVE  Congruent(n, p, p)
<1>1. ZProduct({}, FieldPoly(n)) = {} /\ {} \in ZPolys
  BY PolysClosed, ZProductNone
<1>2. SymDiff(p, {}) = p
  BY DEF SymDiff
<1>. QED
  BY <1>1, <1>2 DEF Congruent

(* Congruence is symmetric. *)
LEMMA CongruentBack ==
  ASSUME NEW n \in Sizes, NEW p \in ZPolys, NEW r \in ZPolys, Congruent(n, p, r)
  PROVE  Congruent(n, r, p)
<1>1. PICK q \in ZPolys : p = SymDiff(r, ZProduct(q, FieldPoly(n)))
  BY DEF Congruent
<1>2. \A x : r = SymDiff(SymDiff(r, x), x)
  BY DEF SymDiff
<1>3. r = SymDiff(p, ZProduct(q, FieldPoly(n)))
  BY <1>1, <1>2
<1>. QED
  BY <1>3 DEF Congruent

-------------------------------------------------------------------------------
(* Polynomials in y and z, and their columns: what y^n is multiplied by.   *)

Monomials(N) == ((0 - N)..N) \X ((0 - N)..N)

YZPolys == {p \in SUBSET (Int \X Int) : \E N \in Nat : p \subseteq Monomials(N)}

Column(p, n) == {b \in Int : <<n, b>> \in p}

(* Every monomial is a pair of integers. *)
LEMMA MonomialsAre ==
  ASSUME NEW p \in YZPolys
  PROVE  /\ p \subseteq Int \X Int /\ IsFiniteSet(p)
         /\ \A a \in p : a[1] \in Int /\ a[2] \in Int /\ a = <<a[1], a[2]>>
<1>1. PICK N \in Nat : p \subseteq Monomials(N)
  BY DEF YZPolys
<1>2. IsFiniteSet((0 - N)..N)
  BY FS_Interval
<1>3. IsFiniteSet(Monomials(N))
  BY <1>2, FS_Product DEF Monomials
<1>4. IsFiniteSet(p)
  BY <1>1, <1>3, FS_Subset
<1>. QED
  BY <1>4 DEF YZPolys

(* The two bounds on a monomial. *)
LEMMA Bounds ==
  ASSUME NEW p
  PROVE  p \in YZPolys <=>
           \E N \in Nat : \A a \in p :
             a \in Int \X Int /\ 0 - N <= a[1] /\ a[1] <= N /\ 0 - N <= a[2] /\ a[2] <= N
<1>1. ASSUME NEW N \in Nat, NEW a
      PROVE  a \in Monomials(N) <=>
               a \in Int \X Int /\ 0 - N <= a[1] /\ a[1] <= N /\ 0 - N <= a[2] /\ a[2] <= N
  BY DEF Monomials
<1>. HIDE DEF Monomials
<1>2. ASSUME p \in YZPolys
      PROVE  \E N \in Nat : \A a \in p :
             a \in Int \X Int /\ 0 - N <= a[1] /\ a[1] <= N /\ 0 - N <= a[2] /\ a[2] <= N
  BY <1>1, <1>2 DEF YZPolys
<1>3. ASSUME NEW N \in Nat,
             \A a \in p :
               a \in Int \X Int /\ 0 - N <= a[1] /\ a[1] <= N /\ 0 - N <= a[2] /\ a[2] <= N
      PROVE  p \in YZPolys
  <2>1. p \subseteq Monomials(N)
    BY <1>1, <1>3
  <2>2. p \subseteq Int \X Int
    BY <1>3
  <2>. QED
    BY <2>1, <2>2 DEF YZPolys
<1>. QED
  BY <1>2, <1>3

(* A column is a polynomial in z. *)
LEMMA ColumnClosed ==
  ASSUME NEW p \in YZPolys, NEW n \in Int
  PROVE  Column(p, n) \in ZPolys
<1>1. PICK N \in Nat : \A a \in p :
        a \in Int \X Int /\ 0 - N <= a[1] /\ a[1] <= N /\ 0 - N <= a[2] /\ a[2] <= N
  BY Bounds
<1>2. \A b \in Column(p, n) : 0 - N <= b /\ b <= N
  <2>1. ASSUME NEW b \in Column(p, n)  PROVE 0 - N <= b /\ b <= N
    <3>1. <<n, b>> \in p /\ <<n, b>>[2] = b
      BY DEF Column
    <3>. QED
      BY ONLY <1>1, <3>1
  <2>. QED
    BY <2>1
<1>3. Column(p, n) \in SUBSET Int
  BY DEF Column
<1>. QED
  BY <1>2, <1>3 DEF ZPolys, W12!Polys

(* The columns determine the polynomial. *)
LEMMA SameColumns ==
  ASSUME NEW p, p \subseteq Int \X Int, NEW q, q \subseteq Int \X Int,
         \A n \in Int : Column(p, n) = Column(q, n)
  PROVE  p = q
<1>1. ASSUME NEW n \in Int, NEW b \in Int  PROVE <<n, b>> \in p <=> <<n, b>> \in q
  <2>1. Column(p, n) = Column(q, n)
    OBVIOUS
  <2>. QED
    BY ONLY b \in Int, <2>1 DEF Column
<1>. QED
  BY <1>1

(* A column of a sum is the sum of the columns. *)
LEMMA ColumnOfSum ==
  ASSUME NEW p, NEW q, NEW n
  PROVE  Column(SymDiff(p, q), n) = SymDiff(Column(p, n), Column(q, n))
BY DEF Column, SymDiff

(* Sums and parts of polynomials are polynomials. *)
LEMMA SumClosed ==
  ASSUME NEW p \in YZPolys, NEW q \in YZPolys
  PROVE  SymDiff(p, q) \in YZPolys /\ \A s \in SUBSET p : s \in YZPolys
<1>1. PICK N \in Nat : \A a \in p :
        a \in Int \X Int /\ 0 - N <= a[1] /\ a[1] <= N /\ 0 - N <= a[2] /\ a[2] <= N
  BY Bounds
<1>2. PICK M \in Nat : \A a \in q :
        a \in Int \X Int /\ 0 - M <= a[1] /\ a[1] <= M /\ 0 - M <= a[2] /\ a[2] <= M
  BY Bounds
<1>3. \A s \in SUBSET p : s \in YZPolys
  BY <1>1, Bounds
<1>4. \A a \in SymDiff(p, q) :
        /\ a \in Int \X Int /\ 0 - (N + M) <= a[1] /\ a[1] <= N + M
        /\ 0 - (N + M) <= a[2] /\ a[2] <= N + M
  <2>1. ASSUME NEW a \in SymDiff(p, q)
        PROVE  /\ a \in Int \X Int /\ 0 - (N + M) <= a[1] /\ a[1] <= N + M
               /\ 0 - (N + M) <= a[2] /\ a[2] <= N + M
    <3>1. a \in p \/ a \in q
      BY DEF SymDiff
    <3>. QED
      BY <1>1, <1>2, <3>1
  <2>. QED
    BY <2>1
<1>5. N + M \in Nat
  OBVIOUS
<1>. QED
  BY <1>3, <1>4, <1>5, Bounds

-------------------------------------------------------------------------------
(* Their products.                                                         *)

(* The monomials of p that take part in the monomial <<n, b>> of p * q. *)
Partners(p, q, n, b) == {a \in p : <<n - a[1], b - a[2]>> \in q}

(* They are finitely many. *)
LEMMA PartnersFinite ==
  ASSUME NEW p \in YZPolys, NEW q, NEW n, NEW b
  PROVE  IsFiniteSet(Partners(p, q, n, b))
<1>1. IsFiniteSet(p) /\ Partners(p, q, n, b) \subseteq p
  BY MonomialsAre DEF Partners
<1>. QED
  BY ONLY <1>1, FS_Subset

(* A monomial is in the product when an odd number of pairs gives it. *)
LEMMA ProductMember ==
  ASSUME NEW p \in YZPolys, NEW q \in YZPolys, NEW n \in Int, NEW b \in Int
  PROVE  <<n, b>> \in Product(p, q) <=> G13!Odd(Partners(p, q, n, b))
<1>. DEFINE places == {<<x[1] + y[1], x[2] + y[2]>> : x \in p, y \in q}
<1>1. <<n, b>> \in Product(p, q) <=> <<n, b>> \in places /\ G13!Odd(Partners(p, q, n, b))
  <2>1. Product(p, q) = {s \in places : G13!Odd({a \in p : <<s[1] - a[1], s[2] - a[2]>> \in q})}
    BY DEF Product
  <2>2. {a \in p : <<(<<n, b>>)[1] - a[1], (<<n, b>>)[2] - a[2]>> \in q} = Partners(p, q, n, b)
    BY DEF Partners
  <2>. HIDE DEF places
  <2>. QED
    BY ONLY <2>1, <2>2
<1>2. ASSUME G13!Odd(Partners(p, q, n, b))  PROVE <<n, b>> \in places
  <2>1. Partners(p, q, n, b) # {}
    BY <1>2, OddFew
  <2>2. PICK x \in p : <<n - x[1], b - x[2]>> \in q
    BY <2>1 DEF Partners
  <2>3. x[1] \in Int /\ x[2] \in Int
    BY MonomialsAre
  <2>. DEFINE y == <<n - x[1], b - x[2]>>
  <2>4. y \in q /\ x[1] + y[1] = n /\ x[2] + y[2] = b
    BY <2>2, <2>3
  <2>. HIDE DEF y
  <2>. QED
    BY <2>4
<1>. QED
  BY <1>1, <1>2

(* A product of polynomials is a polynomial. *)
LEMMA ProductClosed ==
  ASSUME NEW p \in YZPolys, NEW q \in YZPolys
  PROVE  Product(p, q) \in YZPolys
<1>1. PICK N \in Nat : \A a \in p :
        a \in Int \X Int /\ 0 - N <= a[1] /\ a[1] <= N /\ 0 - N <= a[2] /\ a[2] <= N
  BY Bounds
<1>2. PICK M \in Nat : \A a \in q :
        a \in Int \X Int /\ 0 - M <= a[1] /\ a[1] <= M /\ 0 - M <= a[2] /\ a[2] <= M
  BY Bounds
<1>3. ASSUME NEW s \in Product(p, q)
      PROVE  /\ s \in Int \X Int /\ 0 - (N + M) <= s[1] /\ s[1] <= N + M
             /\ 0 - (N + M) <= s[2] /\ s[2] <= N + M
  <2>1. PICK x \in p, y \in q : s = <<x[1] + y[1], x[2] + y[2]>>
    BY DEF Product
  <2>2. /\ x[1] \in Int /\ 0 - N <= x[1] /\ x[1] <= N
        /\ x[2] \in Int /\ 0 - N <= x[2] /\ x[2] <= N
    BY <1>1
  <2>3. /\ y[1] \in Int /\ 0 - M <= y[1] /\ y[1] <= M
        /\ y[2] \in Int /\ 0 - M <= y[2] /\ y[2] <= M
    BY <1>2
  <2>. HIDE DEF SymDiff
  <2>. QED
    BY ONLY N \in Nat, M \in Nat, <2>1, <2>2, <2>3
<1>4. N + M \in Nat
  OBVIOUS
<1>. QED
  BY ONLY <1>3, <1>4, Bounds

(* The product with a sum. *)
LEMMA ProductAdds ==
  ASSUME NEW p \in YZPolys, NEW q \in YZPolys, NEW r \in YZPolys, NEW n \in Int
  PROVE  Column(Product(SymDiff(p, q), r), n)
           = SymDiff(Column(Product(p, r), n), Column(Product(q, r), n))
<1>1. SymDiff(p, q) \in YZPolys
  BY SumClosed
<1>2. ASSUME NEW b \in Int
      PROVE  b \in Column(Product(SymDiff(p, q), r), n) <=>
               (b \in Column(Product(p, r), n)) # (b \in Column(Product(q, r), n))
  <2>. DEFINE A == Partners(p, r, n, b)
              B == Partners(q, r, n, b)
              C == Partners(SymDiff(p, q), r, n, b)
  <2>1. IsFiniteSet(A) /\ IsFiniteSet(B)
    BY PartnersFinite
  <2>2. C = SymDiff(A, B)
    BY DEF Partners, SymDiff
  <2>3. /\ b \in Column(Product(p, r), n) <=> G13!Odd(A)
        /\ b \in Column(Product(q, r), n) <=> G13!Odd(B)
        /\ b \in Column(Product(SymDiff(p, q), r), n) <=> G13!Odd(C)
    BY <1>1, ProductMember DEF Column
  <2>. HIDE DEF A, B, C
  <2>4. G13!Odd(SymDiff(A, B)) <=> (G13!Odd(A) # G13!Odd(B))
    BY ONLY <2>1, OddSymDiff
  <2>5. G13!Odd(A) \in BOOLEAN /\ G13!Odd(B) \in BOOLEAN /\ G13!Odd(C) \in BOOLEAN
    BY DEF G13!Odd
  <2>7. (b \in Column(Product(p, r), n)) = G13!Odd(A)
    BY ONLY <2>3, <2>5
  <2>8. (b \in Column(Product(q, r), n)) = G13!Odd(B)
    BY ONLY <2>3, <2>5
  <2>. QED
    BY ONLY <2>2, <2>3, <2>4, <2>7, <2>8
<1>3. ASSUME NEW b
      PROVE  b \in Column(Product(SymDiff(p, q), r), n) <=>
               b \in SymDiff(Column(Product(p, r), n), Column(Product(q, r), n))
  <2>1. CASE b \in Int
    <3>1. b \in SymDiff(Column(Product(p, r), n), Column(Product(q, r), n)) <=>
            (b \in Column(Product(p, r), n)) # (b \in Column(Product(q, r), n))
      BY ONLY SymDiffBit
    <3>2. b \in Column(Product(SymDiff(p, q), r), n) <=>
            (b \in Column(Product(p, r), n)) # (b \in Column(Product(q, r), n))
      BY <1>2, <2>1
    <3>. QED
      BY ONLY <3>1, <3>2
  <2>2. CASE b \notin Int
    BY ONLY <2>2, SymDiffBit DEF Column
  <2>. QED
    BY ONLY <2>1, <2>2
<1>. QED
  BY ONLY <1>3

(* The product with a polynomial that has one column only. *)
LEMMA ColumnOfProduct ==
  ASSUME NEW p \in YZPolys, NEW q \in YZPolys, NEW i \in Int, \A a \in p : a[1] = i,
         NEW n \in Int
  PROVE  Column(Product(p, q), n) = ZProduct(Column(q, n - i), Column(p, i))
<1>1. Column(q, n - i) \in ZPolys /\ Column(p, i) \in ZPolys
  BY ColumnClosed
<1>2. ASSUME NEW b \in Int
      PROVE  b \in Column(Product(p, q), n) <=> b \in ZProduct(Column(q, n - i), Column(p, i))
  <2>. DEFINE A == Partners(p, q, n, b)
              X == {x \in Column(p, i) : b - x \in Column(q, n - i)}
              f == [x \in X |-> <<i, x>>]
  <2>1. b \in Column(Product(p, q), n) <=> G13!Odd(A)
    BY ProductMember DEF Column
  <2>2. /\ b \in ZProduct(Column(q, n - i), Column(p, i)) <=> G13!Odd(X)
        /\ IsFiniteSet(X)
    <3>. DEFINE u == Column(q, n - i)
                w == Column(p, i)
    <3>1. u \in ZPolys /\ w \in ZPolys /\ X = {x \in w : b - x \in u}
      BY <1>1
    <3>. HIDE DEF u, w
    <3>2. /\ b \in ZProduct(u, w) <=> G13!Odd({x \in w : b - x \in u})
          /\ IsFiniteSet({x \in w : b - x \in u})
      BY ONLY <3>1, b \in Int, ZProductBit
    <3>. HIDE DEF X
    <3>. QED
      BY ONLY <3>1, <3>2 DEF u, w
  <2>3. f \in [X -> A]
    <3>1. ASSUME NEW x \in X  PROVE <<i, x>> \in A
      <4>1. x \in Int /\ <<i, x>> \in p /\ <<n - i, b - x>> \in q
        BY DEF Column
      <4>. QED
        BY ONLY <4>1 DEF Partners
    <3>. QED
      BY <3>1
  <2>4. \A x, y \in X : f[x] = f[y] => x = y
    OBVIOUS
  <2>5. ASSUME NEW a \in A  PROVE \E x \in X : f[x] = a
    <3>1. a \in p /\ a[2] \in Int /\ a = <<i, a[2]>> /\ <<n - i, b - a[2]>> \in q
      BY MonomialsAre DEF Partners
    <3>2. a[2] \in X
      BY <3>1 DEF Column
    <3>. QED
      BY <3>1, <3>2
  <2>6. ExistsBijection(X, A)
    <3>. HIDE DEF f, X, A
    <3>1. f \in Bijection(X, A)
      BY <2>3, <2>4, <2>5 DEF Bijection, Injection, Surjection, IsInjective
    <3>. QED
      BY <3>1 DEF ExistsBijection
  <2>7. Cardinality(A) = Cardinality(X)
    <3>. HIDE DEF f, X, A
    <3>. QED
      BY <2>2, <2>6, FS_Bijection
  <2>. HIDE DEF A, X
  <2>. QED
    BY ONLY <2>1, <2>2, <2>7, SameOdd
<1>3. ZProduct(Column(q, n - i), Column(p, i)) \in SUBSET Int
  BY <1>1, PolysClosed
<1>4. Column(Product(p, q), n) \subseteq Int
  BY DEF Column
<1>. QED
  BY ONLY <1>2, <1>3, <1>4

-------------------------------------------------------------------------------
(* gf_mul_inplace against the polynomials.                                 *)

(* The coefficients v are those of p, up to multiples of the polynomial of *)
(* the field, and p has no power of y above m.                             *)
Agrees(v, p, m) ==
  /\ p \in YZPolys
  /\ \A n \in Int : IF n \in 0..m THEN Congruent(in.bits, v[n], Column(p, n))
                    ELSE Column(p, n) = {}

(* The columns of the polynomial of an element are its coefficients. *)
LEMMA PolyColumns ==
  ASSUME in \in Inputs, NEW x \in Elements(in)
  PROVE  /\ Poly(x) \in YZPolys
         /\ \A n \in Int : Column(Poly(x), n) = IF n \in 0..(t - 1) THEN x[n] ELSE {}
<1>1. /\ in.bits \in Sizes /\ t \in Nat /\ t >= 2 /\ DOMAIN x = 0..(t - 1)
      /\ \A n \in 0..(t - 1) : x[n] \in Gf(in.bits)
  BY InputTyped
<1>2. \A s : s \in Poly(x) <=> \E n \in 0..(t - 1) : \E b \in x[n] : s = <<n, b>>
  BY <1>1 DEF Poly
<1>3. \A n \in 0..(t - 1) : \A b \in x[n] : b \in 0..12
  BY <1>1 DEF Gf, Sizes
<1>4. t + 12 \in Nat
  BY <1>1
<1>5. Poly(x) \in YZPolys
  <2>1. ASSUME NEW s \in Poly(x)
        PROVE  /\ s \in Int \X Int /\ 0 - (t + 12) <= s[1] /\ s[1] <= t + 12
               /\ 0 - (t + 12) <= s[2] /\ s[2] <= t + 12
    <3>1. PICK n \in 0..(t - 1) : \E b \in x[n] : s = <<n, b>>
      BY <1>2
    <3>2. PICK b \in x[n] : s = <<n, b>>
      BY <3>1
    <3>3. b \in 0..12
      BY <1>3
    <3>. QED
      BY ONLY <1>1, <3>2, <3>3, n \in 0..(t - 1)
  <2>. QED
    BY ONLY <1>4, <2>1, Bounds
<1>6. ASSUME NEW n \in Int  PROVE Column(Poly(x), n) = IF n \in 0..(t - 1) THEN x[n] ELSE {}
  <2>1. ASSUME NEW b  PROVE <<n, b>> \in Poly(x) <=> n \in 0..(t - 1) /\ b \in x[n]
    BY ONLY <1>2
  <2>2. Column(Poly(x), n) = {b \in Int : n \in 0..(t - 1) /\ b \in x[n]}
    BY ONLY <2>1 DEF Column
  <2>3. n \in 0..(t - 1) => x[n] \subseteq Int
    BY <1>3
  <2>. QED
    BY ONLY <2>2, <2>3
<1>. QED
  BY <1>5, <1>6

(* The product without its reduction. *)
LEMMA ConvolutionAgrees ==
  ASSUME in \in Inputs, NEW a \in Elements(in), NEW b \in Elements(in)
  PROVE  Agrees(Convolution(a, b), Product(Poly(a), Poly(b)), 2 * t - 2)
<1>. DEFINE n == in.bits
            Terms(i) == {x \in 0..(t - 1) : i - x \in 0..(t - 1)}
            f(i) == [x \in Terms(i) |-> mul(a[x], b[i - x])]
            Low(m) == {s \in Poly(a) : s[1] < m}
            Fits(m, i) == Congruent(n, SumOver(f(i), {x \in Terms(i) : x < m}),
                                    Column(Product(Low(m), Poly(b)), i))
            P == {m \in 0..t : \A i \in 0..(2 * t - 2) : Fits(m, i)}
<1>0. /\ n \in Sizes /\ t \in Nat /\ t >= 2
      /\ \A x \in 0..(t - 1) : a[x] \in Gf(n) /\ b[x] \in Gf(n)
      /\ \A u, v : mul(u, v) = gf_mul(n, u, v)
  BY InputTyped
<1>1. /\ Poly(a) \in YZPolys /\ Poly(b) \in YZPolys /\ \A m \in 0..t : Low(m) \in YZPolys
      /\ Product(Poly(a), Poly(b)) \in YZPolys
      /\ \A i \in Int : Column(Poly(a), i) = IF i \in 0..(t - 1) THEN a[i] ELSE {}
      /\ \A i \in Int : Column(Poly(b), i) = IF i \in 0..(t - 1) THEN b[i] ELSE {}
  <2>1. Poly(a) \in YZPolys /\ Poly(b) \in YZPolys
    BY PolyColumns
  <2>2. \A m \in 0..t : Low(m) \in YZPolys
    BY <2>1, SumClosed
  <2>. QED
    BY <2>1, <2>2, PolyColumns, ProductClosed
<1>2. \A i \in 0..(2 * t - 2) : \A x \in Terms(i) : f(i)[x] \in Gf(n) /\ f(i)[x] = gf_mul(n, a[x], b[i - x])
  BY <1>0, GfBasics
<1>3. 0 \in P
  <2>1. ASSUME NEW i \in 0..(2 * t - 2)  PROVE Fits(0, i)
    <3>1. Low(0) = {}
      <4>1. \A s \in Poly(a) : s[1] \in 0..(t - 1)
        BY InputTyped DEF Poly
      <4>. QED
        BY <1>0, <4>1
    <3>2. {x \in Terms(i) : x < 0} = {}
      OBVIOUS
    <3>3. Column(Product({}, Poly(b)), i) = {}
      BY DEF Column, Product
    <3>4. SumOver(f(i), {}) = {}
      BY SumNone
    <3>5. Congruent(n, {}, {})
      BY <1>0, PolysClosed, CongruentSelf
    <3>. HIDE DEF Low, Terms, f
    <3>. QED
      BY <3>1, <3>2, <3>3, <3>4, <3>5
  <2>. QED
    BY <1>0, <2>1
<1>4. ASSUME NEW m \in 0..(t - 1), m \in P, NEW i \in 0..(2 * t - 2)
      PROVE  Fits(m + 1, i)
  <2>. DEFINE S == {x \in Terms(i) : x < m}
              one == {s \in Poly(a) : s[1] = m}
              old == Column(Product(Low(m), Poly(b)), i)
  <2>1. Fits(m, i) /\ m \in Int /\ i \in Int /\ i - m \in Int
    BY <1>4
  <2>2. /\ one \in YZPolys /\ Low(m + 1) = SymDiff(Low(m), one)
        /\ \A s \in one : s[1] = m
    <3>1. one \in YZPolys
      BY <1>1, SumClosed
    <3>2. \A s \in Poly(a) : s[1] \in Int
      BY <1>1, MonomialsAre
    <3>. QED
      BY <1>0, <3>1, <3>2 DEF SymDiff
  <2>3. Column(one, m) = a[m]
    <3>1. Column(one, m) = Column(Poly(a), m)
      BY DEF Column
    <3>. QED
      BY <1>0, <1>1, <2>1, <3>1
  <2>4. Low(m) \in YZPolys
    BY <1>0, <1>1
  <2>5. Column(Product(Low(m + 1), Poly(b)), i) = SymDiff(old, ZProduct(Column(Poly(b), i - m), a[m]))
    <3>. HIDE DEF Low, one
    <3>1. Column(Product(one, Poly(b)), i) = ZProduct(Column(Poly(b), i - m), a[m])
      BY <1>1, <2>1, <2>2, <2>3, ColumnOfProduct
    <3>2. Poly(b) \in YZPolys /\ one \in YZPolys
      BY <1>1, <2>2
    <3>3. Column(Product(SymDiff(Low(m), one), Poly(b)), i)
            = SymDiff(Column(Product(Low(m), Poly(b)), i), Column(Product(one, Poly(b)), i))
      BY ONLY <2>1, <2>4, <3>2, ProductAdds
    <3>4. Low(m + 1) = SymDiff(Low(m), one)
      BY <2>2
    <3>. QED
      BY ONLY <3>1, <3>3, <3>4
  <2>6. /\ IsFiniteSet(S) /\ m \notin S /\ SumOver(f(i), S) \in Gf(n)
        /\ {x \in Terms(i) : x < m + 1} = IF m \in Terms(i) THEN S \cup {m} ELSE S
    <3>1. IsFiniteSet(0..(t - 1)) /\ S \subseteq 0..(t - 1)
      BY <1>0, FS_Interval
    <3>2. IsFiniteSet(S)
      BY ONLY <3>1, FS_Subset
    <3>3. \A x \in S : f(i)[x] \in Gf(n)
      BY <1>2
    <3>4. SumOver(f(i), S) \in Gf(n)
      <4>. HIDE DEF S, f, n
      <4>. QED
        BY <1>0, <3>3, SumTyped
    <3>5. {x \in Terms(i) : x < m + 1} = IF m \in Terms(i) THEN S \cup {m} ELSE S
      BY <1>0
    <3>. QED
      BY <3>2, <3>4, <3>5
  <2>7. old \in ZPolys /\ a[m] \in ZPolys /\ a[m] \in Gf(n)
    BY <1>0, <1>1, <2>1, <2>4, ProductClosed, ColumnClosed, PolysClosed
  <2>8. CASE m \in Terms(i)
    <3>1. Column(Poly(b), i - m) = b[i - m] /\ b[i - m] \in Gf(n) /\ b[i - m] \in ZPolys
      BY <1>0, <1>1, <2>1, <2>8, PolysClosed
    <3>2. f(i)[m] \in Gf(n) /\ f(i)[m] = gf_mul(n, a[m], b[i - m])
      BY <1>2, <2>8
    <3>3. SumOver(f(i), S \cup {m}) = SymDiff(SumOver(f(i), S), f(i)[m])
      <4>. HIDE DEF S, f, n
      <4>. QED
        BY <1>0, <2>6, <3>2, SumStep
    <3>4. ZProduct(b[i - m], a[m]) = ZProduct(a[m], b[i - m])
      BY <2>7, <3>1, ZProductCommutes
    <3>5. Congruent(n, f(i)[m], ZProduct(b[i - m], a[m]))
      BY <1>0, <2>7, <3>1, <3>2, <3>4, MulCongruent
    <3>6. /\ SumOver(f(i), S) \in ZPolys /\ f(i)[m] \in ZPolys
          /\ ZProduct(b[i - m], a[m]) \in ZPolys
      BY <1>0, <2>6, <2>7, <3>1, <3>2, PolysClosed
    <3>7. Congruent(n, SymDiff(SumOver(f(i), S), f(i)[m]), SymDiff(old, ZProduct(b[i - m], a[m])))
      <4>1. Congruent(n, SumOver(f(i), S), old)
        BY <2>1
      <4>. HIDE DEF S, f, n, old
      <4>. QED
        BY <1>0, <2>7, <3>5, <3>6, <4>1, CongruentSum
    <3>. HIDE DEF S, f, n, old, Low, Terms
    <3>. QED
      BY <2>5, <2>6, <2>8, <3>1, <3>3, <3>7
  <2>9. CASE m \notin Terms(i)
    <3>1. Column(Poly(b), i - m) = {}
      BY <1>0, <1>1, <2>1, <2>9
    <3>2. ZProduct({}, a[m]) = {}
      BY <2>7, ZProductNone
    <3>3. SymDiff(old, {}) = old
      BY DEF SymDiff
    <3>4. Fits(m, i)
      BY <2>1
    <3>. HIDE DEF S, Low, Terms, f
    <3>. QED
      BY <2>5, <2>6, <2>9, <3>1, <3>2, <3>3, <3>4 DEF S
  <2>. QED
    BY <2>8, <2>9
<1>5. t \in P
  <2>1. \A m \in 0..(t - 1) : m \in P => m + 1 \in P
    <3>1. \A m \in 0..(t - 1) : m + 1 \in 0..t
      BY <1>0
    <3>. HIDE DEF Fits
    <3>. QED
      BY <1>4, <3>1
  <2>. HIDE DEF P
  <2>. QED
    BY <1>0, <1>3, <2>1, UpTo
<1>6. Low(t) = Poly(a) /\ \A i \in 0..(2 * t - 2) : {x \in Terms(i) : x < t} = Terms(i)
  <2>1. \A s \in Poly(a) : s[1] \in 0..(t - 1)
    BY InputTyped DEF Poly
  <2>. QED
    BY <1>0, <2>1
<1>7. \A i \in 0..(2 * t - 2) : Convolution(a, b)[i] = SumOver(f(i), Terms(i))
  BY DEF Convolution
<1>8. ASSUME NEW i \in Int, i \notin 0..(2 * t - 2)
      PROVE  Column(Product(Poly(a), Poly(b)), i) = {}
  <2>1. \A s \in Poly(a) : s[1] \in 0..(t - 1)
    BY InputTyped DEF Poly
  <2>2. \A s \in Poly(b) : s[1] \in 0..(t - 1)
    BY InputTyped DEF Poly
  <2>3. ASSUME NEW s \in Product(Poly(a), Poly(b))  PROVE s[1] \in 0..(2 * t - 2)
    <3>1. PICK x \in Poly(a), y \in Poly(b) : s = <<x[1] + y[1], x[2] + y[2]>>
      BY DEF Product
    <3>2. x[1] \in 0..(t - 1) /\ y[1] \in 0..(t - 1)
      BY <2>1, <2>2
    <3>. QED
      BY <1>0, <3>1, <3>2
  <2>. QED
    BY <1>8, <2>3 DEF Column
<1>. QED
  <2>1. ASSUME NEW i \in 0..(2 * t - 2)
        PROVE  Congruent(n, Convolution(a, b)[i], Column(Product(Poly(a), Poly(b)), i))
    <3>1. Fits(t, i)
      BY <1>5
    <3>. HIDE DEF Low, Terms, f
    <3>. QED
      BY <1>6, <1>7, <3>1
  <2>. QED
    BY <1>1, <1>8, <2>1 DEF Agrees

(* No power of z is negative. *)
Whole(p) == \A a \in p : a[2] >= 0

(* y^t - modulus, divided by y^t. *)
Divisor == {<<0, 0>>} \cup {<<a[1] - t, a[2]>> : a \in Poly(in.modulus)}

(* Its columns: 1 at y^0, and the modulus below. *)
LEMMA DivisorColumns ==
  ASSUME in \in Inputs
  PROVE  /\ Divisor \in YZPolys /\ Whole(Divisor)
         /\ \A d \in Int :
              Column(Divisor, d) = IF d = 0 THEN {0}
                                   ELSE IF d + t \in 0..(t - 1) THEN in.modulus[d + t] ELSE {}
<1>. DEFINE m == Poly(in.modulus)
<1>0. /\ in.bits \in Sizes /\ t \in Nat /\ t >= 2
      /\ \A n \in 0..(t - 1) : in.modulus[n] \in Gf(in.bits)
  BY InputTyped
<1>1. /\ m \in YZPolys
      /\ \A n \in Int : Column(m, n) = IF n \in 0..(t - 1) THEN in.modulus[n] ELSE {}
  BY InputTyped, PolyColumns
<1>2. \A a \in m : a[1] \in Int /\ a[2] \in Int /\ a = <<a[1], a[2]>>
  BY <1>1, MonomialsAre
<1>3. \A a \in m : a[1] \in 0..(t - 1) /\ a[2] \in 0..12
  <2>1. ASSUME NEW a \in m  PROVE a[1] \in 0..(t - 1) /\ a[2] \in 0..12
    <3>1. a[2] \in Column(m, a[1])
      BY ONLY <1>2, <2>1 DEF Column
    <3>2. a[1] \in 0..(t - 1) /\ a[2] \in in.modulus[a[1]]
      BY ONLY <1>1, <1>2, <2>1, <3>1
    <3>. QED
      BY ONLY <1>0, <3>2 DEF Gf, Sizes
  <2>. QED
    BY ONLY <2>1
<1>4. ASSUME NEW s \in Divisor
      PROVE  s \in Int \X Int /\ s[1] \in (0 - t)..0 /\ s[2] \in 0..12
  <2>1. CASE s = <<0, 0>>
    BY <1>0, <2>1
  <2>2. CASE \E a \in m : s = <<a[1] - t, a[2]>>
    BY <1>0, <1>3, <2>2
  <2>. QED
    BY <2>1, <2>2 DEF Divisor
<1>5. Divisor \in YZPolys /\ Whole(Divisor)
  <2>1. t + 12 \in Nat
    BY <1>0
  <2>2. ASSUME NEW s \in Divisor
        PROVE  /\ s \in Int \X Int /\ 0 - (t + 12) <= s[1] /\ s[1] <= t + 12
               /\ 0 - (t + 12) <= s[2] /\ s[2] <= t + 12 /\ s[2] >= 0
    BY <1>0, <1>4
  <2>. QED
    BY ONLY <2>1, <2>2, Bounds DEF Whole
<1>6. ASSUME NEW d \in Int, NEW b \in Int
      PROVE  <<d, b>> \in Divisor <=> (d = 0 /\ b = 0) \/ b \in Column(m, d + t)
  <2>1. ASSUME NEW a \in m, <<d, b>> = <<a[1] - t, a[2]>>  PROVE <<d + t, b>> \in m
    <3>1. a[1] = d + t /\ a[2] = b
      BY <1>0, <1>2, <2>1
    <3>. QED
      BY ONLY <1>2, <3>1, a \in m
  <2>2. ASSUME <<d + t, b>> \in m  PROVE \E a \in m : <<d, b>> = <<a[1] - t, a[2]>>
    <3>1. <<d, b>> = <<(<<d + t, b>>)[1] - t, (<<d + t, b>>)[2]>>
      BY <1>0
    <3>. QED
      BY ONLY <2>2, <3>1
  <2>3. <<d, b>> \in Divisor <=>
          <<d, b>> = <<0, 0>> \/ \E a \in m : <<d, b>> = <<a[1] - t, a[2]>>
    BY DEF Divisor
  <2>. HIDE DEF m
  <2>. QED
    BY <2>1, <2>2, <2>3 DEF Column
<1>7. ASSUME NEW d \in Int
      PROVE  Column(Divisor, d) = IF d = 0 THEN {0}
                                  ELSE IF d + t \in 0..(t - 1) THEN in.modulus[d + t] ELSE {}
  <2>1. Column(m, d + t) = IF d + t \in 0..(t - 1) THEN in.modulus[d + t] ELSE {}
    BY <1>0, <1>1
  <2>2. Column(Divisor, d) = {b \in Int : (d = 0 /\ b = 0) \/ b \in Column(m, d + t)}
    BY ONLY <1>6, d \in Int DEF Column
  <2>3. Column(m, d + t) \subseteq Int
    BY DEF Column
  <2>. HIDE DEF m
  <2>4. CASE d = 0
    <3>1. Column(m, d + t) = {}
      BY <1>0, <2>1, <2>4
    <3>. QED
      BY ONLY <2>2, <2>4, <3>1
  <2>5. CASE d # 0
    BY ONLY <2>1, <2>2, <2>3, <2>5
  <2>. QED
    BY <2>4, <2>5
<1>. QED
  BY <1>5, <1>7

(* No power of z gets negative in a product. *)
LEMMA WholeProduct ==
  ASSUME NEW p \in YZPolys, Whole(p), NEW q \in YZPolys, Whole(q)
  PROVE  Whole(Product(p, q))
<1>1. ASSUME NEW s \in Product(p, q)  PROVE s[2] >= 0
  <2>1. PICK x \in p, y \in q : s = <<x[1] + y[1], x[2] + y[2]>>
    BY DEF Product
  <2>2. x[2] \in Int /\ y[2] \in Int /\ x[2] >= 0 /\ y[2] >= 0
    BY MonomialsAre DEF Whole
  <2>. QED
    BY ONLY <2>1, <2>2
<1>. QED
  BY <1>1 DEF Whole

(* Folding the highest place is a division by y^t - modulus. *)
LEMMA FoldAgrees ==
  ASSUME in \in Inputs, NEW v \in [0..(2 * t - 2) -> Gf(in.bits)], NEW p \in YZPolys,
         NEW i \in t..(2 * t - 2), Agrees(v, p, i), Whole(p)
  PROVE  Agrees(FoldPlace(v, i), DivideY(p, i), i - 1) /\ Whole(DivideY(p, i))
<1>. DEFINE n == in.bits
            one == {a \in p : a[1] = i}
            high == Column(p, i)
<1>0. /\ n \in Sizes /\ t \in Nat /\ t >= 2 /\ i \in Int /\ t <= i /\ i <= 2 * t - 2
      /\ \A x \in 0..(t - 1) : in.modulus[x] \in Gf(n)
      /\ \A a, b : mul(a, b) = gf_mul(n, a, b)
  BY InputTyped
<1>1. DivideY(p, i) = SymDiff(p, Product(one, Divisor))
  BY DEF DivideY, Divisor
<1>2. one \in YZPolys /\ Divisor \in YZPolys /\ Product(one, Divisor) \in YZPolys
  <2>1. one \in YZPolys
    BY SumClosed
  <2>. QED
    BY <2>1, DivisorColumns, ProductClosed
<1>3. DivideY(p, i) \in YZPolys
  BY <1>1, <1>2, SumClosed
<1>4. Whole(DivideY(p, i))
  <2>1. Whole(one) /\ Whole(Divisor)
    BY DivisorColumns DEF Whole
  <2>2. Whole(Product(one, Divisor))
    BY <1>2, <2>1, WholeProduct
  <2>. QED
    BY <1>1, <2>2 DEF Whole, SymDiff
<1>5. ASSUME NEW x \in Int
      PROVE  Column(DivideY(p, i), x) = SymDiff(Column(p, x), ZProduct(Column(Divisor, x - i), high))
  <2>1. Column(one, i) = high
    BY DEF Column
  <2>2. \A a \in one : a[1] = i
    OBVIOUS
  <2>. HIDE DEF one, high
  <2>3. Column(Product(one, Divisor), x) = ZProduct(Column(Divisor, x - i), high)
    BY <1>0, <1>2, <2>1, <2>2, ColumnOfProduct
  <2>. QED
    BY <1>1, <2>3, ColumnOfSum
<1>6. high \in ZPolys /\ \A x \in Int : Column(p, x) \in ZPolys
  BY <1>0, ColumnClosed
<1>7. \A x : SymDiff(x, {}) = x /\ SymDiff(x, x) = {}
  BY DEF SymDiff
<1>8. ASSUME NEW x \in Int, x \notin 0..(i - 1)
      PROVE  Column(DivideY(p, i), x) = {}
  <2>1. CASE x = i
    <3>1. Column(Divisor, x - i) = {0}
      BY <1>0, <2>1, DivisorColumns
    <3>2. {0} \in ZPolys
      BY PolysClosed
    <3>3. ZProduct({0}, high) = high
      BY <1>6, <3>2, ZProductCommutes, ZProductOne
    <3>4. Column(p, x) = high
      BY <2>1
    <3>5. Column(DivideY(p, i), x) = SymDiff(Column(p, x), ZProduct(Column(Divisor, x - i), high))
      BY <1>5
    <3>6. SymDiff(high, high) = {}
      BY <1>7
    <3>. HIDE DEF high
    <3>. QED
      BY ONLY <3>1, <3>3, <3>4, <3>5, <3>6
  <2>2. CASE x # i
    <3>1. x - i \in Int /\ x - i # 0 /\ x - i + t \notin 0..(t - 1) /\ x \notin 0..i
      BY <1>0, <1>8, <2>2
    <3>2. Column(Divisor, x - i) = {}
      BY <3>1, DivisorColumns
    <3>3. ZProduct({}, high) = {}
      BY <1>6, ZProductNone
    <3>4. Column(p, x) = {}
      BY <3>1 DEF Agrees
    <3>. QED
      BY <1>5, <1>7, <3>2, <3>3, <3>4
  <2>. QED
    BY <2>1, <2>2
<1>9. ASSUME NEW x \in 0..(i - 1)
      PROVE  Congruent(n, FoldPlace(v, i)[x], Column(DivideY(p, i), x))
  <2>0. x \in Int /\ x \in 0..i /\ i \in 0..i /\ x \in 0..(2 * t - 2) /\ i \in 0..(2 * t - 2)
    BY <1>0
  <2>1. /\ Congruent(n, v[x], Column(p, x)) /\ Congruent(n, v[i], high)
        /\ v[x] \in Gf(n) /\ v[i] \in Gf(n) /\ v[x] \in ZPolys /\ v[i] \in ZPolys
    <3>1. Congruent(n, v[x], Column(p, x)) /\ Congruent(n, v[i], high)
      BY <1>0, <2>0 DEF Agrees
    <3>2. v[x] \in Gf(n) /\ v[i] \in Gf(n)
      BY <2>0
    <3>. QED
      BY <1>0, <3>1, <3>2, PolysClosed
  <2>2. CASE x \in (i - t)..(i - 1)
    <3>. DEFINE c == in.modulus[x - i + t]
    <3>1. x - i \in Int /\ x - i # 0 /\ x - i + t \in 0..(t - 1)
      BY <1>0, <2>0, <2>2
    <3>2. c \in Gf(n) /\ c \in ZPolys
      BY <1>0, <3>1, PolysClosed
    <3>3. Column(Divisor, x - i) = c
      BY <3>1, DivisorColumns
    <3>4. FoldPlace(v, i)[x] = SymDiff(v[x], gf_mul(n, c, v[i]))
      BY <1>0, <2>0, <2>2 DEF FoldPlace
    <3>. HIDE DEF c, n, high
    <3>5. /\ gf_mul(n, c, v[i]) \in ZPolys /\ ZProduct(c, high) \in ZPolys
          /\ ZProduct(v[i], c) \in ZPolys
      <4>1. gf_mul(n, c, v[i]) \in Gf(n)
        BY <1>0, <2>1, <3>2, GfBasics
      <4>. QED
        BY <1>0, <1>6, <2>1, <3>2, <4>1, PolysClosed
    <3>6. ZProduct(c, v[i]) = ZProduct(v[i], c) /\ ZProduct(c, high) = ZProduct(high, c)
      BY <1>6, <2>1, <3>2, ZProductCommutes
    <3>7. Congruent(n, gf_mul(n, c, v[i]), ZProduct(v[i], c))
      BY <1>0, <2>1, <3>2, <3>6, MulCongruent
    <3>8. Congruent(n, ZProduct(v[i], c), ZProduct(c, high))
      BY <1>0, <1>6, <2>1, <3>2, <3>6, CongruentProduct
    <3>9. Congruent(n, gf_mul(n, c, v[i]), ZProduct(c, high))
      BY <1>0, <3>5, <3>7, <3>8, CongruentTrans
    <3>10. Congruent(n, SymDiff(v[x], gf_mul(n, c, v[i])), SymDiff(Column(p, x), ZProduct(c, high)))
      BY <1>0, <1>6, <2>0, <2>1, <3>5, <3>9, CongruentSum
    <3>. QED
      BY <1>5, <2>0, <3>3, <3>4, <3>10
  <2>3. CASE x \notin (i - t)..(i - 1)
    <3>1. x - i \in Int /\ x - i # 0 /\ x - i + t \notin 0..(t - 1)
      BY <1>0, <2>0, <2>3
    <3>2. Column(Divisor, x - i) = {}
      BY <3>1, DivisorColumns
    <3>3. ZProduct({}, high) = {}
      BY <1>6, ZProductNone
    <3>4. FoldPlace(v, i)[x] = v[x]
      BY <2>0, <2>3 DEF FoldPlace
    <3>5. Column(DivideY(p, i), x) = SymDiff(Column(p, x), ZProduct(Column(Divisor, x - i), high))
      BY <1>5, <2>0
    <3>6. SymDiff(Column(p, x), {}) = Column(p, x)
      BY <1>7
    <3>7. Congruent(n, v[x], Column(p, x))
      BY <2>1
    <3>. HIDE DEF high, n
    <3>. QED
      BY ONLY <3>2, <3>3, <3>4, <3>5, <3>6, <3>7
  <2>. QED
    BY <2>2, <2>3
<1>. QED
  BY <1>3, <1>4, <1>8, <1>9 DEF Agrees

(* The polynomial of the field, divided by its highest power. *)
ShiftedField == {<<0, l - in.bits>> : l \in FieldPoly(in.bits)}

(* Both divisions give polynomials. *)
LEMMA DivisionsAre ==
  ASSUME in \in Inputs, NEW p \in YZPolys, NEW b \in Int
  PROVE  /\ ShiftedField \in YZPolys
         /\ DivideZ(p, b) = SymDiff(p, Product({a \in p : a[2] = b}, ShiftedField))
         /\ DivideZ(p, b) \in YZPolys
         /\ DivideY(p, b) \in YZPolys
<1>. DEFINE n == in.bits
            F == FieldPoly(n)
            q == ShiftedField
<1>0. n \in Nat /\ \A l \in F : l \in Int /\ 0 <= l /\ l <= n
  <2>1. n = 12 \/ n = 13
    BY InputTyped DEF Sizes
  <2>. HIDE DEF n
  <2>2. \A l \in F : l \in Int /\ 0 <= l /\ l <= n
    BY <2>1 DEF FieldPoly
  <2>. QED
    BY ONLY <2>1, <2>2
<1>1. DivideZ(p, b) = SymDiff(p, Product({a \in p : a[2] = b}, q))
  <2>1. F = (IF n = 12 THEN {3, 0} ELSE {4, 3, 1, 0}) \cup {n}
    BY DEF FieldPoly
  <2>. QED
    BY <2>1 DEF DivideZ, ShiftedField
<1>2. q \in YZPolys
  <2>1. ASSUME NEW s \in q
        PROVE  /\ s \in Int \X Int /\ 0 - n <= s[1] /\ s[1] <= n
               /\ 0 - n <= s[2] /\ s[2] <= n
    <3>1. PICK l \in F : s = <<0, l - n>>
      BY DEF ShiftedField
    <3>. QED
      BY ONLY <1>0, <3>1
  <2>. QED
    BY ONLY <1>0, <2>1, Bounds
<1>3. {a \in p : a[2] = b} \in YZPolys /\ {a \in p : a[1] = b} \in YZPolys
  BY SumClosed
<1>4. DivideZ(p, b) \in YZPolys
  BY <1>1, <1>2, <1>3, ProductClosed, SumClosed
<1>5. DivideY(p, b) = SymDiff(p, Product({a \in p : a[1] = b}, Divisor))
  BY DEF DivideY, Divisor
<1>6. DivideY(p, b) \in YZPolys
  BY <1>3, <1>5, DivisorColumns, ProductClosed, SumClosed
<1>. QED
  BY <1>1, <1>2, <1>4, <1>6

(* Taking out a power of z subtracts a multiple of it from the columns. *)
LEMMA DivideZColumns ==
  ASSUME in \in Inputs, NEW p \in YZPolys, NEW b \in Int, b >= in.bits,
         \A a \in p : a[2] <= b
  PROVE  /\ DivideZ(p, b) \in YZPolys
         /\ \A x \in Int : /\ Congruent(in.bits, Column(DivideZ(p, b), x), Column(p, x))
                           /\ Column(p, x) = {} => Column(DivideZ(p, b), x) = {}
         /\ \A a \in DivideZ(p, b) : a[2] <= b - 1
         /\ Whole(p) => Whole(DivideZ(p, b))
<1>. DEFINE n == in.bits
            F == FieldPoly(n)
            one == {a \in p : a[2] = b}
            q == ShiftedField
            Shift == {c \in Int : c - b + n \in F}
<1>0. /\ n \in Sizes /\ n \in Nat /\ F \in ZPolys /\ n \in F
      /\ \A l \in F : l \in Int /\ 0 <= l /\ l <= n
  <2>1. n \in Sizes
    BY InputTyped
  <2>2. F \in ZPolys
    BY <2>1, PolysClosed
  <2>3. n = 12 \/ n = 13
    BY <2>1 DEF Sizes
  <2>. HIDE DEF n
  <2>4. n \in F /\ \A l \in F : l \in Int /\ 0 <= l /\ l <= n
    BY <2>3 DEF FieldPoly
  <2>. QED
    BY ONLY <2>1, <2>2, <2>3, <2>4
<1>1. DivideZ(p, b) = SymDiff(p, Product(one, q)) /\ q \in YZPolys
  BY DivisionsAre
<1>2. one \in YZPolys
  BY SumClosed
<1>3. DivideZ(p, b) \in YZPolys
  BY <1>1, <1>2, ProductClosed, SumClosed
<1>4. ASSUME NEW x \in Int
      PROVE  Column(Product(one, q), x) = IF <<x, b>> \in p THEN Shift ELSE {}
  <2>1. ASSUME NEW c \in Int
        PROVE  c \in Column(Product(one, q), x) <=> <<x, b>> \in p /\ c \in Shift
    <3>1. c \in Column(Product(one, q), x) <=> G13!Odd(Partners(one, q, x, c))
      BY <1>1, <1>2, ProductMember DEF Column
    <3>2. ASSUME NEW a
          PROVE  a \in Partners(one, q, x, c) <=> a = <<x, b>> /\ <<x, b>> \in p /\ c \in Shift
      <4>1. ASSUME a \in Partners(one, q, x, c)
            PROVE  a = <<x, b>> /\ <<x, b>> \in p /\ c \in Shift
        <5>1. a \in p /\ a[2] = b /\ <<x - a[1], c - a[2]>> \in q
          BY <4>1 DEF Partners
        <5>2. a[1] \in Int /\ a = <<a[1], a[2]>>
          BY <5>1, MonomialsAre
        <5>3. PICK l \in F : <<x - a[1], c - a[2]>> = <<0, l - n>>
          BY <5>1 DEF ShiftedField
        <5>4. l \in Int /\ x - a[1] = 0 /\ c - b = l - n
          BY <1>0, <5>1, <5>3
        <5>5. a[1] = x /\ c - b + n = l
          BY ONLY <1>0, <5>2, <5>4, x \in Int, b \in Int, c \in Int
        <5>. HIDE DEF F, n
        <5>. QED
          BY <5>1, <5>2, <5>5
      <4>2. ASSUME a = <<x, b>>, <<x, b>> \in p, c \in Shift
            PROVE  a \in Partners(one, q, x, c)
        <5>1. a[1] = x /\ a[2] = b /\ a \in one
          BY <4>2
        <5>2. x - a[1] = 0 /\ c - a[2] = (c - b + n) - n /\ c - b + n \in F
          BY <1>0, <4>2, <5>1
        <5>3. <<x - a[1], c - a[2]>> \in q
          <6>. HIDE DEF F, n
          <6>. QED
            BY <5>2 DEF ShiftedField, F, n
        <5>. QED
          BY <5>1, <5>3 DEF Partners
      <4>. QED
        BY <4>1, <4>2
    <3>3. CASE <<x, b>> \in p /\ c \in Shift
      <4>1. Partners(one, q, x, c) = {<<x, b>>}
        BY ONLY <3>2, <3>3
      <4>. QED
        BY ONLY <3>1, <3>3, <4>1, OddFew
    <3>4. CASE ~ (<<x, b>> \in p /\ c \in Shift)
      <4>1. Partners(one, q, x, c) = {}
        BY ONLY <3>2, <3>4
      <4>. QED
        BY ONLY <3>1, <3>4, <4>1, OddFew
    <3>. QED
      BY <3>3, <3>4
  <2>2. Column(Product(one, q), x) \subseteq Int /\ Shift \subseteq Int
    BY DEF Column
  <2>. HIDE DEF Shift
  <2>. QED
    BY ONLY <2>1, <2>2
<1>5. ASSUME NEW x \in Int
      PROVE  Column(DivideZ(p, b), x)
               = SymDiff(Column(p, x), IF <<x, b>> \in p THEN Shift ELSE {})
  <2>1. Column(DivideZ(p, b), x) = SymDiff(Column(p, x), Column(Product(one, q), x))
    BY <1>1, ColumnOfSum
  <2>. HIDE DEF Shift
  <2>. QED
    BY <1>4, <2>1
<1>6. Shift = ZProduct({b - n}, F)
  <2>1. b - n \in Int /\ {b - n} \in ZPolys
    BY <1>0, PolysClosed
  <2>2. ASSUME NEW c \in Int  PROVE c \in ZProduct({b - n}, F) <=> c \in Shift
    <3>1. c \in ZProduct({b - n}, F) <=> G13!Odd({i \in F : c - i \in {b - n}})
      <4>. DEFINE u == {b - n}
      <4>1. u \in ZPolys /\ F \in ZPolys
        BY <1>0, <2>1
      <4>. HIDE DEF u, F
      <4>2. c \in ZProduct(u, F) <=> G13!Odd({i \in F : c - i \in u})
        BY ONLY <4>1, c \in Int, ZProductBit
      <4>. QED
        BY ONLY <4>2 DEF u
    <3>2. {i \in F : c - i \in {b - n}} = IF c - b + n \in F THEN {c - b + n} ELSE {}
      <4>1. \A i \in F : i \in Int
        BY <1>0
      <4>2. \A i \in F : c - i = b - n <=> i = c - b + n
        BY <1>0, <4>1
      <4>. HIDE DEF F, n
      <4>. QED
        BY <4>2
    <3>. QED
      BY <3>1, <3>2, OddFew
  <2>3. ZProduct({b - n}, F) \in SUBSET Int
    BY <1>0, <2>1, PolysClosed
  <2>. QED
    BY <2>2, <2>3
<1>7. ASSUME NEW x \in Int
      PROVE  Congruent(n, Column(DivideZ(p, b), x), Column(p, x))
  <2>1. CASE <<x, b>> \in p
    <3>1. {b - n} \in ZPolys
      BY <1>0, PolysClosed
    <3>. HIDE DEF Shift
    <3>2. Column(DivideZ(p, b), x) = SymDiff(Column(p, x), ZProduct({b - n}, F))
      BY <1>5, <1>6, <2>1
    <3>. QED
      BY <3>1, <3>2 DEF Congruent
  <2>2. CASE <<x, b>> \notin p
    <3>1. Column(DivideZ(p, b), x) = Column(p, x)
      BY <1>5, <2>2 DEF SymDiff
    <3>. QED
      BY <1>0, <3>1, ColumnClosed, CongruentSelf
  <2>. QED
    BY <2>1, <2>2
<1>8. ASSUME NEW a \in DivideZ(p, b)
      PROVE  a[2] <= b - 1 /\ (Whole(p) => a[2] >= 0)
  <2>1. a[1] \in Int /\ a[2] \in Int /\ a = <<a[1], a[2]>>
    BY <1>3, MonomialsAre
  <2>. DEFINE x == a[1]
              c == a[2]
  <2>2. c \in Column(DivideZ(p, b), x)
    BY <2>1 DEF Column
  <2>. HIDE DEF x, c, Shift
  <2>3. x \in Int /\ c \in Int
    BY <2>1 DEF x, c
  <2>4. \/ c \in Column(p, x) /\ ~ (<<x, b>> \in p /\ c \in Shift)
        \/ c \notin Column(p, x) /\ <<x, b>> \in p /\ c \in Shift
    BY <1>5, <2>2, <2>3 DEF SymDiff
  <2>5. <<x, b>> \in p <=> b \in Column(p, x)
    BY DEF Column
  <2>6. b \in Shift
    BY <1>0 DEF Shift
  <2>7. c # b
    BY <2>4, <2>5, <2>6
  <2>8. c \in Column(p, x) => c <= b /\ (Whole(p) => c >= 0)
    <3>1. c \in Column(p, x) => <<x, c>> \in p
      BY DEF Column
    <3>2. (<<x, c>>)[2] = c
      OBVIOUS
    <3>. QED
      BY <3>1, <3>2 DEF Whole
  <2>9. c \in Shift => c <= b /\ c >= 0
    <3>1. c \in Shift => c - b + n \in Int /\ 0 <= c - b + n /\ c - b + n <= n
      BY <1>0 DEF Shift
    <3>2. b >= n
      OBVIOUS
    <3>. HIDE DEF n
    <3>. QED
      BY ONLY <1>0, <2>3, <3>1, <3>2, b \in Int
  <2>. QED
    BY <2>3, <2>4, <2>7, <2>8, <2>9 DEF c
<1>9. ASSUME NEW x \in Int, Column(p, x) = {}  PROVE Column(DivideZ(p, b), x) = {}
  <2>1. <<x, b>> \notin p
    BY <1>9 DEF Column
  <2>. QED
    BY <1>5, <1>9, <2>1 DEF SymDiff
<1>. QED
  BY <1>3, <1>7, <1>8, <1>9 DEF Whole

(* The highest power of z, or in.bits - 1 when no power is so high. *)
LEMMA HighestPower ==
  ASSUME NEW p \in YZPolys, in \in Inputs
  PROVE  LET top == Max({in.bits - 1} \cup {a[2] : a \in p})
         IN  top \in Int /\ top >= in.bits - 1 /\ \A a \in p : a[2] <= top
<1>. DEFINE S == {in.bits - 1} \cup {a[2] : a \in p}
<1>0. in.bits \in {12, 13}
  BY InputTyped DEF Sizes
<1>1. PICK N \in Nat : \A a \in p :
        a \in Int \X Int /\ 0 - N <= a[1] /\ a[1] <= N /\ 0 - N <= a[2] /\ a[2] <= N
  BY Bounds
<1>. DEFINE U == {u \in Nat : (N + 13) - u \in S}
<1>2. \A s \in S : s \in Int /\ s <= N + 13
  BY <1>0, <1>1
<1>3. S # {} /\ in.bits - 1 \in S
  OBVIOUS
<1>. HIDE DEF S
<1>4. U \in SUBSET Nat /\ U # {}
  <2>1. PICK s \in S : TRUE
    BY <1>3
  <2>2. (N + 13) - s \in Nat /\ (N + 13) - ((N + 13) - s) = s
    BY <1>2
  <2>. QED
    BY <2>2
<1>5. PICK u \in U : \A y \in U : u <= y
  <2>. HIDE DEF U
  <2>. QED
    BY <1>4, LeastOfNaturals
<1>6. ASSUME NEW s \in S  PROVE s <= (N + 13) - u
  <2>1. (N + 13) - s \in Nat /\ (N + 13) - ((N + 13) - s) = s
    BY <1>2
  <2>2. (N + 13) - s \in U
    BY <2>1
  <2>. QED
    BY <1>2, <1>5, <2>2
<1>7. \E x \in S : \A y \in S : x >= y
  <2>1. (N + 13) - u \in S
    BY <1>5
  <2>. QED
    BY <1>2, <1>6, <2>1
<1>8. Max(S) \in S /\ \A y \in S : Max(S) >= y
  BY <1>7 DEF Max
<1>. QED
  <2>1. \A a \in p : a[2] \in S
    BY DEF S
  <2>2. Max(S) \in Int /\ Max(S) >= in.bits - 1 /\ \A a \in p : a[2] <= Max(S)
    BY <1>0, <1>2, <1>3, <1>8, <2>1
  <2>. QED
    BY <2>2 DEF S

(* The two loops of Residue. *)
LEMMA ResidueSteps ==
  ASSUME in \in Inputs, NEW p \in YZPolys
  PROVE  \E y \in [0..(t - 1) -> YZPolys] :
           /\ y[0] = p
           /\ \A m \in 1..(t - 1) : y[m] = DivideY(y[m - 1], 2 * t - 1 - m)
           /\ \E top \in Int :
                /\ top >= in.bits - 1 /\ \A a \in y[t - 1] : a[2] <= top
                /\ \E z \in [0..(top - in.bits + 1) -> YZPolys] :
                     /\ z[0] = y[t - 1]
                     /\ \A m \in 1..(top - in.bits + 1) : z[m] = DivideZ(z[m - 1], top + 1 - m)
                     /\ Residue(p) = z[top - in.bits + 1]
<1>. DEFINE IsY(y) == y = [m \in 0..(t - 1) |->
                             IF m = 0 THEN p ELSE DivideY(y[m - 1], 2 * t - 1 - m)]
            y0 == CHOOSE y : IsY(y)
            top == Max({in.bits - 1} \cup {a[2] : a \in y0[t - 1]})
            last == top - in.bits + 1
            IsZ(z) == z = [m \in 0..last |->
                             IF m = 0 THEN y0[t - 1] ELSE DivideZ(z[m - 1], top + 1 - m)]
            z0 == CHOOSE z : IsZ(z)
            FY == [m \in 1..(t - 1) |-> [q \in YZPolys |-> DivideY(q, 2 * t - 1 - m)]]
            FZ == [m \in 1..last |-> [q \in YZPolys |-> DivideZ(q, top + 1 - m)]]
<1>1. t \in Nat /\ t >= 2 /\ t - 1 \in Nat /\ in.bits \in {12, 13}
  BY InputTyped DEF Sizes
<1>2. Residue(p) = z0[last]
  BY DEF Residue
<1>3. FY \in [1..(t - 1) -> [YZPolys -> YZPolys]]
  <2>1. \A m \in 1..(t - 1) : 2 * t - 1 - m \in Int
    BY <1>1
  <2>2. \A m \in 1..(t - 1) : \A q \in YZPolys : DivideY(q, 2 * t - 1 - m) \in YZPolys
    BY <2>1, DivisionsAre
  <2>. QED
    BY <2>2
<1>4. \E y : IsY(y)
  <2>2. PICK y \in [0..(t - 1) -> YZPolys] : Steps(y, FY, p, t - 1)
    <3>. HIDE DEF FY
    <3>. QED
      BY <1>1, <1>3, StepsExist
  <2>3. ASSUME NEW m \in 0..(t - 1), m # 0
        PROVE  FY[m][y[m - 1]] = DivideY(y[m - 1], 2 * t - 1 - m)
    <3>1. m \in 1..(t - 1) /\ m - 1 \in 0..(t - 1)
      BY <1>1, <2>3
    <3>2. y[m - 1] \in YZPolys
      BY <2>2, <3>1
    <3>. QED
      BY <3>1, <3>2
  <2>. HIDE DEF FY
  <2>4. IsY(y)
    BY <2>2, <2>3 DEF Steps
  <2>. QED
    BY <2>4
<1>5. IsY(y0)
  BY <1>4
<1>6. /\ y0[0] = p /\ y0 \in [0..(t - 1) -> YZPolys]
      /\ \A m \in 1..(t - 1) : y0[m] = DivideY(y0[m - 1], 2 * t - 1 - m)
  <2>. HIDE DEF y0
  <2>1. y0[0] = p /\ \A m \in 1..(t - 1) : y0[m] = DivideY(y0[m - 1], 2 * t - 1 - m)
    BY <1>1, <1>5
  <2>2. \A m \in 1..(t - 1) : 2 * t - 1 - m \in Int
    BY <1>1
  <2>3. \A m \in 1..(t - 1) : y0[m - 1] \in YZPolys => y0[m] \in YZPolys
    BY <2>1, <2>2, DivisionsAre
  <2>4. \A m \in 0..(t - 1) : y0[m] \in YZPolys
    BY <1>1, <2>1, <2>3, UpwardIn
  <2>5. y0 = [m \in 0..(t - 1) |-> y0[m]]
    BY <1>5
  <2>. QED
    BY <2>1, <2>4, <2>5
<1>7. top \in Int /\ top >= in.bits - 1 /\ \A a \in y0[t - 1] : a[2] <= top
  <2>. HIDE DEF y0
  <2>1. y0[t - 1] \in YZPolys
    BY <1>1, <1>6
  <2>. QED
    BY <2>1, HighestPower
<1>. HIDE DEF y0, top
<1>8. last \in Nat /\ y0[t - 1] \in YZPolys
  BY <1>1, <1>6, <1>7
<1>9. FZ \in [1..last -> [YZPolys -> YZPolys]]
  <2>1. \A m \in 1..last : top + 1 - m \in Int
    BY <1>7
  <2>2. \A m \in 1..last : \A q \in YZPolys : DivideZ(q, top + 1 - m) \in YZPolys
    BY <2>1, DivisionsAre
  <2>. QED
    BY <2>2
<1>. HIDE DEF last
<1>10. \E z : IsZ(z)
  <2>2. PICK z \in [0..last -> YZPolys] : Steps(z, FZ, y0[t - 1], last)
    <3>. HIDE DEF FZ
    <3>. QED
      BY <1>8, <1>9, StepsExist
  <2>3. ASSUME NEW m \in 0..last, m # 0
        PROVE  FZ[m][z[m - 1]] = DivideZ(z[m - 1], top + 1 - m)
    <3>1. m \in 1..last /\ m - 1 \in 0..last
      BY <1>8, <2>3
    <3>2. z[m - 1] \in YZPolys
      BY <2>2, <3>1
    <3>. QED
      BY <3>1, <3>2
  <2>. HIDE DEF FZ
  <2>4. IsZ(z)
    BY <2>2, <2>3 DEF Steps
  <2>. QED
    BY <2>4
<1>11. IsZ(z0)
  BY <1>10
<1>12. /\ z0[0] = y0[t - 1] /\ z0 \in [0..last -> YZPolys]
       /\ \A m \in 1..last : z0[m] = DivideZ(z0[m - 1], top + 1 - m)
  <2>. HIDE DEF z0
  <2>1. z0[0] = y0[t - 1] /\ \A m \in 1..last : z0[m] = DivideZ(z0[m - 1], top + 1 - m)
    BY <1>8, <1>11
  <2>2. \A m \in 1..last : top + 1 - m \in Int
    BY <1>7, <1>8
  <2>3. \A m \in 1..last : z0[m - 1] \in YZPolys => z0[m] \in YZPolys
    BY <2>1, <2>2, DivisionsAre
  <2>4. \A m \in 0..last : z0[m] \in YZPolys
    BY <1>8, <2>1, <2>3, UpwardIn
  <2>5. z0 = [m \in 0..last |-> z0[m]]
    BY <1>11
  <2>. QED
    BY <2>1, <2>4, <2>5
<1>. HIDE DEF z0
<1>. QED
  BY <1>2, <1>6, <1>7, <1>12 DEF last

(* gf_mul_inplace computes the residue of the product. *)
LEMMA ResidueOfProduct ==
  ASSUME in \in Inputs, NEW a \in Elements(in), NEW b \in Elements(in)
  PROVE  Residue(Product(Poly(a), Poly(b))) = Poly(gf_mul_inplace(a, b))
<1>. DEFINE n == in.bits
            p == Product(Poly(a), Poly(b))
            v == gf_mul_inplace(a, b)
<1>0. /\ n \in Sizes /\ n \in Nat /\ t \in Nat /\ t >= 2 /\ t - 1 \in Nat
  BY InputTyped DEF Sizes
<1>1. /\ p \in YZPolys /\ Whole(p)
  <2>1. /\ Poly(a) \in YZPolys /\ Poly(b) \in YZPolys
    BY PolyColumns
  <2>2. ASSUME NEW x \in Elements(in)  PROVE Whole(Poly(x))
    <3>1. \A s \in Poly(x) : \E m \in 0..(t - 1) : \E c \in x[m] : s = <<m, c>>
      BY InputTyped DEF Poly
    <3>2. \A m \in 0..(t - 1) : \A c \in x[m] : c \in 0..12
      <4>1. \A m \in 0..(t - 1) : x[m] \in Gf(n)
        BY InputTyped
      <4>. QED
        BY <1>0, <4>1 DEF Gf, Sizes
    <3>. QED
      BY <3>1, <3>2 DEF Whole
  <2>. QED
    BY <2>1, <2>2, ProductClosed, WholeProduct
<1>2. v \in Elements(in)
  BY MulInplaceTyped
<1>3. PICK r \in [0..(t - 1) -> [0..(2 * t - 2) -> Gf(n)]] :
        /\ r[0] = Convolution(a, b)
        /\ \A m \in 1..(t - 1) : r[m] = FoldPlace(r[m - 1], 2 * t - 1 - m)
        /\ v = [m \in 0..(t - 1) |-> r[t - 1][m]]
  BY MulInplaceSteps
<1>. HIDE DEF p, v
<1>4. PICK y \in [0..(t - 1) -> YZPolys] :
        /\ y[0] = p
        /\ \A m \in 1..(t - 1) : y[m] = DivideY(y[m - 1], 2 * t - 1 - m)
        /\ \E top \in Int :
             /\ top >= n - 1 /\ \A s \in y[t - 1] : s[2] <= top
             /\ \E z \in [0..(top - n + 1) -> YZPolys] :
                  /\ z[0] = y[t - 1]
                  /\ \A m \in 1..(top - n + 1) : z[m] = DivideZ(z[m - 1], top + 1 - m)
                  /\ Residue(p) = z[top - n + 1]
  BY <1>1, ResidueSteps
<1>5. PICK top \in Int :
        /\ top >= n - 1 /\ \A s \in y[t - 1] : s[2] <= top
        /\ \E z \in [0..(top - n + 1) -> YZPolys] :
             /\ z[0] = y[t - 1]
             /\ \A m \in 1..(top - n + 1) : z[m] = DivideZ(z[m - 1], top + 1 - m)
             /\ Residue(p) = z[top - n + 1]
  BY <1>4
<1>. DEFINE last == top - n + 1
<1>6. PICK z \in [0..last -> YZPolys] :
        /\ z[0] = y[t - 1]
        /\ \A m \in 1..last : z[m] = DivideZ(z[m - 1], top + 1 - m)
        /\ Residue(p) = z[last]
  BY <1>5
<1>7. last \in Nat /\ top = last + n - 1
  BY <1>0, <1>5
<1>. HIDE DEF last
(* The division by the polynomial in y. *)
<1>. DEFINE YOk == {m \in 0..(t - 1) : Agrees(r[m], y[m], 2 * t - 2 - m) /\ Whole(y[m])}
<1>8. t - 1 \in YOk
  <2>1. 0 \in YOk
    <3>1. Agrees(r[0], y[0], 2 * t - 2)
      BY <1>3, <1>4, ConvolutionAgrees DEF p
    <3>2. 2 * t - 2 - 0 = 2 * t - 2 /\ 0 \in 0..(t - 1)
      BY <1>0
    <3>. QED
      BY <1>1, <1>4, <3>1, <3>2
  <2>2. ASSUME NEW m \in 0..((t - 1) - 1), m \in YOk  PROVE m + 1 \in YOk
    <3>1. /\ m + 1 \in 1..(t - 1) /\ m \in 0..(t - 1) /\ m + 1 \in 0..(t - 1)
          /\ 2 * t - 1 - (m + 1) = 2 * t - 2 - m /\ (m + 1) - 1 = m
          /\ 2 * t - 2 - m \in t..(2 * t - 2) /\ 2 * t - 2 - (m + 1) = (2 * t - 2 - m) - 1
      BY <1>0
    <3>2. /\ r[m + 1] = FoldPlace(r[m], 2 * t - 2 - m) /\ y[m + 1] = DivideY(y[m], 2 * t - 2 - m)
      BY <1>3, <1>4, <3>1
    <3>3. r[m] \in [0..(2 * t - 2) -> Gf(n)] /\ y[m] \in YZPolys
      BY <1>3, <1>4, <3>1
    <3>4. Agrees(r[m], y[m], 2 * t - 2 - m) /\ Whole(y[m])
      BY <2>2
    <3>5. /\ Agrees(FoldPlace(r[m], 2 * t - 2 - m), DivideY(y[m], 2 * t - 2 - m), (2 * t - 2 - m) - 1)
          /\ Whole(DivideY(y[m], 2 * t - 2 - m))
      BY <3>1, <3>3, <3>4, FoldAgrees
    <3>. QED
      BY <3>1, <3>2, <3>5
  <2>. HIDE DEF YOk
  <2>. QED
    BY <1>0, <2>1, <2>2, UpTo
<1>9. Agrees(v, y[t - 1], t - 1) /\ Whole(y[t - 1]) /\ y[t - 1] \in YZPolys
  <2>1. Agrees(r[t - 1], y[t - 1], t - 1) /\ Whole(y[t - 1])
    <3>1. 2 * t - 2 - (t - 1) = t - 1
      BY <1>0
    <3>. QED
      BY <1>8, <3>1
  <2>2. \A m \in 0..(t - 1) : v[m] = r[t - 1][m]
    BY <1>3
  <2>. QED
    BY <2>1, <2>2 DEF Agrees
(* The division by the polynomial in z. *)
<1>. DEFINE ZOk == {m \in 0..last : /\ Agrees(v, z[m], t - 1) /\ Whole(z[m])
                                    /\ \A s \in z[m] : s[2] <= top - m}
<1>10. last \in ZOk
  <2>1. 0 \in ZOk
    <3>1. top - 0 = top /\ 0 \in 0..last
      BY <1>7
    <3>. QED
      BY <1>5, <1>6, <1>9, <3>1
  <2>2. ASSUME NEW m \in 0..(last - 1), m \in ZOk  PROVE m + 1 \in ZOk
    <3>. DEFINE q == z[m]
                d == top - m
    <3>1. /\ m + 1 \in 1..last /\ m \in 0..last /\ m + 1 \in 0..last
          /\ top + 1 - (m + 1) = d /\ (m + 1) - 1 = m /\ top - (m + 1) = d - 1
          /\ d \in Int /\ d >= n
      <4>. HIDE DEF n, ZOk, YOk, q
      <4>. QED
        BY ONLY <1>0, <1>7, top \in Int, m \in 0..(last - 1)
    <3>2. z[m + 1] = DivideZ(q, d) /\ q \in YZPolys
      BY <1>6, <3>1
    <3>3. Agrees(v, q, t - 1) /\ Whole(q) /\ \A s \in q : s[2] <= d
      BY <2>2
    <3>. HIDE DEF q, d
    <3>4. /\ DivideZ(q, d) \in YZPolys
          /\ \A x \in Int : /\ Congruent(n, Column(DivideZ(q, d), x), Column(q, x))
                            /\ Column(q, x) = {} => Column(DivideZ(q, d), x) = {}
          /\ \A s \in DivideZ(q, d) : s[2] <= d - 1
          /\ Whole(DivideZ(q, d))
      BY <3>1, <3>2, <3>3, DivideZColumns
    <3>5. ASSUME NEW x \in Int, x \in 0..(t - 1)
          PROVE  Congruent(n, v[x], Column(DivideZ(q, d), x))
      <4>1. v[x] \in Gf(n)
        <5>1. v \in [0..(t - 1) -> Gf(n)]
          BY <1>2, InputTyped
        <5>. HIDE DEF n
        <5>. QED
          BY ONLY <3>5, <5>1
      <4>2. v[x] \in ZPolys /\ Column(q, x) \in ZPolys /\ Column(DivideZ(q, d), x) \in ZPolys
        BY <1>0, <3>2, <3>4, <4>1, PolysClosed, ColumnClosed
      <4>3. Congruent(n, v[x], Column(q, x))
        BY <3>3, <3>5 DEF Agrees
      <4>4. Congruent(n, Column(q, x), Column(DivideZ(q, d), x))
        BY <1>0, <3>4, <4>2, CongruentBack
      <4>. QED
        BY <1>0, <4>2, <4>3, <4>4, CongruentTrans
    <3>6. Agrees(v, DivideZ(q, d), t - 1)
      BY <3>3, <3>4, <3>5 DEF Agrees
    <3>. QED
      BY <3>1, <3>2, <3>4, <3>6
  <2>. HIDE DEF ZOk
  <2>. QED
    BY <1>7, <2>1, <2>2, UpTo
<1>11. Agrees(v, z[last], t - 1) /\ Whole(z[last]) /\ \A s \in z[last] : s[2] <= n - 1
  <2>1. top - last = n - 1
    BY <1>0, <1>5, <1>7
  <2>. QED
    BY <1>10, <2>1
<1>12. z[last] = Poly(v)
  <2>1. z[last] \in YZPolys /\ Poly(v) \in YZPolys
    BY <1>2, <1>6, <1>7, PolyColumns
  <2>2. ASSUME NEW x \in Int  PROVE Column(z[last], x) = Column(Poly(v), x)
    <3>1. Column(Poly(v), x) = IF x \in 0..(t - 1) THEN v[x] ELSE {}
      BY <1>2, PolyColumns
    <3>2. CASE x \in 0..(t - 1)
      <4>. DEFINE c == Column(z[last], x)
      <4>1. v[x] \in Gf(n)
        BY <1>2, <3>2, InputTyped
      <4>2. Congruent(n, v[x], c)
        BY <1>11, <3>2 DEF Agrees
      <4>3. c \in Gf(n)
        <5>1. ASSUME NEW s \in c  PROVE s \in 0..(n - 1)
          <6>1. <<x, s>> \in z[last] /\ s \in Int /\ (<<x, s>>)[2] = s
            BY DEF Column
          <6>2. s >= 0 /\ s <= n - 1
            BY ONLY <1>11, <6>1 DEF Whole
          <6>. QED
            BY ONLY <1>0, <6>1, <6>2
        <5>. HIDE DEF c
        <5>. QED
          BY <5>1 DEF Gf
      <4>4. c \in ZPolys /\ Congruent(n, c, c)
        BY <1>0, <2>1, ColumnClosed, CongruentSelf
      <4>. HIDE DEF c
      <4>5. v[x] = c
        BY <1>0, <4>1, <4>2, <4>3, <4>4, ResidueUnique
      <4>. QED
        BY <3>1, <3>2, <4>5 DEF c
    <3>3. CASE x \notin 0..(t - 1)
      BY <1>11, <3>1, <3>3 DEF Agrees
    <3>. QED
      BY <3>2, <3>3
  <2>3. z[last] \subseteq Int \X Int /\ Poly(v) \subseteq Int \X Int
    BY <2>1, MonomialsAre
  <2>. QED
    BY ONLY <2>2, <2>3, SameColumns
<1>. QED
  BY <1>6, <1>12 DEF p, v

-------------------------------------------------------------------------------
(* The powers of f, and the sum.                                           *)

(* Multiplying by an element of the small field. *)
LEMMA RowTimes ==
  ASSUME in \in Inputs, NEW c \in Gf(in.bits), NEW b \in Elements(in)
  PROVE  gf_mul_inplace(Row(c), b) = [x \in 0..(t - 1) |-> gf_mul(in.bits, c, b[x])]
<1>. DEFINE n == in.bits
            a == Row(c)
            w == Convolution(a, b)
            Terms(i) == {x \in 0..(t - 1) : i - x \in 0..(t - 1)}
            f(i) == [x \in Terms(i) |-> mul(a[x], b[i - x])]
<1>0. /\ n \in Sizes /\ t \in Nat /\ t >= 2 /\ t - 1 \in Nat
      /\ \A x \in 0..(t - 1) : b[x] \in Gf(n)
      /\ \A u, v : mul(u, v) = gf_mul(n, u, v)
  BY InputTyped
<1>1. a \in Elements(in) /\ \A x \in 0..(t - 1) : a[x] = IF x = 0 THEN c ELSE {}
  <2>1. a \in Elements(in)
    BY RowTyped
  <2>. QED
    BY <2>1 DEF Row
<1>2. w \in [0..(2 * t - 2) -> Gf(n)]
  BY <1>1, ConvolutionTyped
<1>3. ASSUME NEW i \in 0..(2 * t - 2)
      PROVE  w[i] = IF i \in 0..(t - 1) THEN gf_mul(n, c, b[i]) ELSE {}
  <2>1. w[i] = SumOver(f(i), Terms(i))
    BY DEF Convolution
  <2>2. \A x \in Terms(i) : x # 0 => f(i)[x] = {}
    <3>1. ASSUME NEW x \in Terms(i), x # 0  PROVE f(i)[x] = {}
      <4>1. f(i)[x] = gf_mul(n, {}, b[i - x]) /\ b[i - x] \in Gf(n)
        BY <1>0, <1>1, <3>1
      <4>. QED
        BY <1>0, <4>1, MulZero
    <3>. QED
      BY <3>1
  <2>3. CASE i \in 0..(t - 1)
    <3>1. 0 \in Terms(i) /\ f(i)[0] = gf_mul(n, c, b[i]) /\ f(i)[0] \in Gf(n)
      <4>1. 0 \in Terms(i) /\ i - 0 = i
        BY <1>0, <2>3
      <4>2. f(i)[0] = gf_mul(n, c, b[i]) /\ b[i] \in Gf(n)
        BY <1>0, <1>1, <2>3, <4>1
      <4>. QED
        BY <1>0, <4>1, <4>2, GfBasics
    <3>. HIDE DEF f, Terms, w, n
    <3>. DEFINE h == f(i)
                S == Terms(i)
    <3>2. n \in Sizes /\ 0 \in S /\ h[0] \in Gf(n) /\ \A x \in S : x # 0 => h[x] = {}
      BY <1>0, <2>2, <3>1
    <3>. HIDE DEF h, S
    <3>3. SumOver(h, S) = h[0]
      BY ONLY <3>2, SumOne
    <3>. QED
      BY <2>1, <2>3, <3>1, <3>3 DEF h, S
  <2>4. CASE i \notin 0..(t - 1)
    <3>1. 0 \notin Terms(i)
      BY <1>0, <2>4
    <3>2. \A x \in Terms(i) : f(i)[x] = {}
      BY <2>2, <3>1
    <3>. HIDE DEF f, Terms
    <3>3. \A y : {x \in Terms(i) : y \in f(i)[x]} = {}
      BY <3>2
    <3>4. SumOver(f(i), Terms(i)) = {}
      BY <3>3, OddFew DEF SumOver
    <3>. QED
      BY <2>1, <2>4, <3>4
  <2>. QED
    BY <2>3, <2>4
<1>. HIDE DEF w, a
<1>4. PICK r \in [0..(t - 1) -> [0..(2 * t - 2) -> Gf(n)]] :
        /\ r[0] = w
        /\ \A m \in 1..(t - 1) : r[m] = FoldPlace(r[m - 1], 2 * t - 1 - m)
        /\ gf_mul_inplace(a, b) = [m \in 0..(t - 1) |-> r[t - 1][m]]
  BY <1>1, MulInplaceSteps DEF w
<1>5. ASSUME NEW i \in t..(2 * t - 2)  PROVE FoldPlace(w, i) = w
  <2>1. i \in 0..(2 * t - 2) /\ i \notin 0..(t - 1)
    BY <1>0
  <2>2. w[i] = {}
    BY <1>3, <2>1
  <2>3. ASSUME NEW x \in 0..(2 * t - 2)  PROVE FoldPlace(w, i)[x] = w[x]
    <3>1. CASE x \in (i - t)..(i - 1)
      <4>1. x - i + t \in 0..(t - 1)
        BY <1>0, <3>1
      <4>2. in.modulus[x - i + t] \in Gf(n)
        BY <4>1, InputTyped
      <4>3. gf_mul(n, in.modulus[x - i + t], {}) = {}
        BY <1>0, <4>2, MulZero
      <4>4. FoldPlace(w, i)[x] = SymDiff(w[x], mul(in.modulus[x - i + t], w[i]))
        BY <1>2, <3>1 DEF FoldPlace
      <4>. QED
        BY <1>0, <2>2, <4>3, <4>4 DEF SymDiff
    <3>2. CASE x \notin (i - t)..(i - 1)
      BY <1>2, <3>2 DEF FoldPlace
    <3>. QED
      BY <3>1, <3>2
  <2>4. FoldPlace(w, i) = [x \in 0..(2 * t - 2) |-> FoldPlace(w, i)[x]]
    BY <1>2 DEF FoldPlace
  <2>5. w = [x \in 0..(2 * t - 2) |-> w[x]]
    BY <1>2
  <2>. QED
    BY ONLY <2>3, <2>4, <2>5
<1>. DEFINE P == {m \in 0..(t - 1) : r[m] = w}
<1>6. t - 1 \in P
  <2>1. 0 \in P
    BY <1>0, <1>4
  <2>2. ASSUME NEW m \in 0..((t - 1) - 1), m \in P  PROVE m + 1 \in P
    <3>1. m + 1 \in 1..(t - 1) /\ (m + 1) - 1 = m /\ 2 * t - 1 - (m + 1) \in t..(2 * t - 2)
      BY <1>0
    <3>2. r[m + 1] = FoldPlace(w, 2 * t - 1 - (m + 1))
      BY <1>4, <2>2, <3>1
    <3>3. r[m + 1] = w
      BY <1>5, <3>1, <3>2
    <3>. QED
      BY <3>1, <3>3
  <2>. HIDE DEF P
  <2>. QED
    BY <1>0, <2>1, <2>2, UpTo
<1>7. \A m \in 0..(t - 1) : m \in 0..(2 * t - 2)
  BY <1>0
<1>8. gf_mul_inplace(a, b) = [x \in 0..(t - 1) |-> gf_mul(n, c, b[x])]
  <2>1. r[t - 1] = w
    BY <1>6
  <2>2. \A m \in 0..(t - 1) : w[m] = gf_mul(n, c, b[m])
    BY <1>3, <1>7
  <2>. QED
    BY <1>4, <2>1, <2>2
<1>. QED
  BY <1>8 DEF a

(* The reference agrees on the powers of f. *)
LEMMA ReferencePowers ==
  ASSUME in \in Inputs, NEW n \in 0..t
  PROVE  RefPower(Poly(in.f), n) = Poly(Powers[n])
<1>. DEFINE f == Poly(in.f)
            Is(r) == r = [m \in 0..n |-> IF m = 0 THEN {<<0, 0>>} ELSE Residue(Product(r[m - 1], f))]
            r0 == CHOOSE r : Is(r)
            g == [m \in 0..n |-> Poly(Powers[m])]
<1>0. /\ in.bits \in Sizes /\ t \in Nat /\ t >= 2 /\ in.f \in Elements(in) /\ n \in Nat /\ n <= t
      /\ \A x \in 0..(t - 1) : in.f[x] \in Gf(in.bits)
  BY InputTyped
<1>1. /\ Powers \in [0..t -> Elements(in)] /\ Powers[0] = Row({0}) /\ Powers[1] = in.f
      /\ \A m \in 2..t : Powers[m] = gf_mul_inplace(Powers[m - 1], in.f)
  BY PowersAre
<1>2. Poly(Powers[0]) = {<<0, 0>>}
  <2>1. DOMAIN Row({0}) = 0..(t - 1) /\ \A x \in 0..(t - 1) : Row({0})[x] = IF x = 0 THEN {0} ELSE {}
    BY DEF Row
  <2>2. 0 \in 0..(t - 1)
    BY <1>0
  <2>. QED
    BY <1>1, <2>1, <2>2 DEF Poly
<1>3. ASSUME NEW m \in 1..n
      PROVE  Poly(Powers[m]) = Residue(Product(Poly(Powers[m - 1]), f))
  <2>1. m \in 1..t /\ m - 1 \in 0..t
    BY <1>0
  <2>2. Powers[m - 1] \in Elements(in)
    BY <1>1, <2>1
  <2>3. Powers[m] = gf_mul_inplace(Powers[m - 1], in.f)
    <3>1. CASE m = 1
      <4>1. {0} \in Gf(in.bits)
        BY <1>0, GfBasics
      <4>2. gf_mul_inplace(Row({0}), in.f) = [x \in 0..(t - 1) |-> gf_mul(in.bits, {0}, in.f[x])]
        BY <1>0, <4>1, RowTimes
      <4>3. \A x \in 0..(t - 1) : gf_mul(in.bits, {0}, in.f[x]) = in.f[x]
        BY <1>0, MulOne
      <4>4. in.f = [x \in 0..(t - 1) |-> in.f[x]]
        BY InputTyped
      <4>5. gf_mul_inplace(Row({0}), in.f) = in.f
        BY ONLY <4>2, <4>3, <4>4
      <4>6. m - 1 = 0
        BY <3>1
      <4>. QED
        BY ONLY <1>1, <3>1, <4>5, <4>6
    <3>2. CASE m # 1
      <4>1. m \in 2..t
        BY <2>1, <3>2
      <4>. QED
        BY <1>1, <4>1
    <3>. QED
      BY <3>1, <3>2
  <2>. QED
    BY <1>0, <2>2, <2>3, ResidueOfProduct
<1>4. Is(g)
  <2>1. ASSUME NEW m \in 0..n, m # 0  PROVE m \in 1..n /\ m - 1 \in 0..n
    BY <1>0, <2>1
  <2>. HIDE DEF f
  <2>2. g = [m \in 0..n |-> IF m = 0 THEN {<<0, 0>>} ELSE Residue(Product(g[m - 1], f))]
    BY <1>2, <1>3, <2>1
  <2>. QED
    BY <2>2
<1>5. Is(r0)
  <2>. HIDE DEF g
  <2>. QED
    BY <1>4
<1>6. RefPower(f, n) = r0[n]
  BY DEF RefPower
<1>. HIDE DEF r0, f
<1>. DEFINE P == {m \in 0..n : r0[m] = Poly(Powers[m])}
<1>7. n \in P
  <2>1. 0 \in P
    BY <1>0, <1>2, <1>5
  <2>2. ASSUME NEW m \in 0..(n - 1), m \in P  PROVE m + 1 \in P
    <3>1. m + 1 \in 1..n /\ m + 1 \in 0..n /\ (m + 1) - 1 = m /\ m + 1 # 0
      BY <1>0
    <3>2. r0[m + 1] = Residue(Product(r0[m], f))
      BY <1>5, <3>1
    <3>. QED
      BY <1>3, <2>2, <3>1, <3>2
  <2>. HIDE DEF P
  <2>. QED
    BY <1>0, <2>1, <2>2, UpTo
<1>. QED
  BY <1>6, <1>7 DEF f

(* Polynomials add up as the elements do. *)
LEMMA PolyAdds ==
  ASSUME NEW m \in Nat, NEW x, NEW y, DOMAIN x = 0..m, DOMAIN y = 0..m
  PROVE  SymDiff(Poly(x), Poly(y)) = Poly([n \in 0..m |-> SymDiff(x[n], y[n])])
<1>. DEFINE w == [n \in 0..m |-> SymDiff(x[n], y[n])]
<1>1. /\ \A s : s \in Poly(x) <=> \E n \in 0..m : \E b \in x[n] : s = <<n, b>>
      /\ \A s : s \in Poly(y) <=> \E n \in 0..m : \E b \in y[n] : s = <<n, b>>
      /\ \A s : s \in Poly(w) <=> \E n \in 0..m : \E b \in w[n] : s = <<n, b>>
  BY DEF Poly
<1>2. ASSUME NEW n, NEW b
      PROVE  /\ <<n, b>> \in Poly(x) <=> n \in 0..m /\ b \in x[n]
             /\ <<n, b>> \in Poly(y) <=> n \in 0..m /\ b \in y[n]
             /\ <<n, b>> \in Poly(w) <=> n \in 0..m /\ b \in w[n]
  BY ONLY <1>1
<1>3. \A n \in 0..m : w[n] = SymDiff(x[n], y[n])
  OBVIOUS
<1>. HIDE DEF w
<1>4. ASSUME NEW n, NEW b
      PROVE  <<n, b>> \in SymDiff(Poly(x), Poly(y)) <=> <<n, b>> \in Poly(w)
  BY <1>2, <1>3 DEF SymDiff
<1>5. \A s : s \in SymDiff(Poly(x), Poly(y)) \/ s \in Poly(w) => \E n, b : s = <<n, b>>
  BY <1>1 DEF SymDiff
<1>6. SymDiff(Poly(x), Poly(y)) = Poly(w)
  BY ONLY <1>4, <1>5
<1>. QED
  BY <1>6 DEF w

(* The relation between the powers, read as a sum of polynomials. *)
LEMMA SumOfResult ==
  ASSUME SkInv, pc = "done"
  PROVE  RootOfResult
<1>. DEFINE n == in.bits
            f == Poly(in.f)
            Term(m) == Residue(Product(Poly(Row(out[m])), RefPower(f, m)))
            Is(s) == s = [m \in 0..t |-> IF m = 0 THEN {} ELSE SymDiff(s[m - 1], Term(m - 1))]
            s0 == CHOOSE s : Is(s)
            c(x) == [m \in 0..(t - 1) |-> mul(out[m], Powers[m][x])]
            acc(m) == [x \in 0..(t - 1) |-> SumOver(c(x), 0..(m - 1))]
            g == [m \in 0..t |-> Poly(acc(m))]
<1>0. /\ in \in Inputs /\ n \in Sizes /\ t \in Nat /\ t >= 2 /\ t - 1 \in Nat
      /\ \A a, b : mul(a, b) = gf_mul(n, a, b)
      /\ Elements(in) = [0..(t - 1) -> Gf(n)]
  BY SkFacts, InputTyped DEF SkInv
<1>1. \A m \in 0..(t - 1) : out[m] \in Gf(n)
  <2>1. out = mat[t] /\ t \in 0..t
    BY <1>0 DEF SkInv, OutInv
  <2>. QED
    BY <1>0, <2>1, SkFacts DEF SkInv
<1>2. Powers \in [0..t -> Elements(in)]
  BY <1>0, PowersAre
<1>3. \A m \in 0..(t - 1) : \A x \in 0..(t - 1) : Powers[m][x] \in Gf(n) /\ c(x)[m] \in Gf(n)
  <2>1. \A m \in 0..(t - 1) : \A x \in 0..(t - 1) : Powers[m][x] \in Gf(n)
    BY <1>0, <1>2
  <2>. QED
    BY <1>0, <1>1, <2>1, GfBasics
<1>4. ASSUME NEW m \in 0..(t - 1)
      PROVE  Term(m) = Poly([x \in 0..(t - 1) |-> c(x)[m]])
  <2>1. Powers[m] \in Elements(in) /\ m \in 0..t
    BY <1>0, <1>2
  <2>2. Row(out[m]) \in Elements(in)
    BY <1>0, <1>1, RowTyped
  <2>3. RefPower(f, m) = Poly(Powers[m])
    BY <1>0, <2>1, ReferencePowers
  <2>4. Term(m) = Poly(gf_mul_inplace(Row(out[m]), Powers[m]))
    BY <1>0, <2>1, <2>2, <2>3, ResidueOfProduct
  <2>5. gf_mul_inplace(Row(out[m]), Powers[m]) = [x \in 0..(t - 1) |-> gf_mul(n, out[m], Powers[m][x])]
    BY <1>0, <1>1, <2>1, RowTimes
  <2>6. \A x \in 0..(t - 1) : c(x)[m] = gf_mul(n, out[m], Powers[m][x])
    BY <1>0
  <2>. HIDE DEF c, Term
  <2>7. [x \in 0..(t - 1) |-> gf_mul(n, out[m], Powers[m][x])] = [x \in 0..(t - 1) |-> c(x)[m]]
    BY <2>6
  <2>. QED
    BY <2>4, <2>5, <2>7
<1>5. ASSUME NEW m \in 0..(t - 1)
      PROVE  Poly(acc(m + 1)) = SymDiff(Poly(acc(m)), Term(m))
  <2>. DEFINE u == [x \in 0..(t - 1) |-> c(x)[m]]
  <2>1. ASSUME NEW x \in 0..(t - 1)
        PROVE  acc(m + 1)[x] = SymDiff(acc(m)[x], u[x])
    <3>1. 0..((m + 1) - 1) = (0..(m - 1)) \cup {m} /\ m \notin 0..(m - 1)
      BY <1>0
    <3>2. IsFiniteSet(0..(m - 1))
      BY <1>0, FS_Interval
    <3>3. c(x)[m] \in Gf(n)
      BY <1>3
    <3>4. SumOver(c(x), (0..(m - 1)) \cup {m}) = SymDiff(SumOver(c(x), 0..(m - 1)), c(x)[m])
      <4>. DEFINE h == c(x)
                  S == 0..(m - 1)
      <4>1. n \in Sizes /\ IsFiniteSet(S) /\ m \notin S /\ h[m] \in Gf(n)
        BY <1>0, <3>1, <3>2, <3>3
      <4>. HIDE DEF h, S, n
      <4>2. SumOver(h, S \cup {m}) = SymDiff(SumOver(h, S), h[m])
        BY ONLY <4>1, SumStep
      <4>. QED
        BY ONLY <4>2 DEF h, S
    <3>. HIDE DEF c
    <3>. QED
      BY <3>1, <3>4
  <2>2. acc(m + 1) = [x \in 0..(t - 1) |-> acc(m + 1)[x]]
    OBVIOUS
  <2>3. DOMAIN acc(m) = 0..(t - 1) /\ DOMAIN u = 0..(t - 1)
    OBVIOUS
  <2>. HIDE DEF acc, u
  <2>4. SymDiff(Poly(acc(m)), Poly(u)) = Poly([x \in 0..(t - 1) |-> SymDiff(acc(m)[x], u[x])])
    BY <1>0, <2>3, PolyAdds
  <2>5. acc(m + 1) = [x \in 0..(t - 1) |-> SymDiff(acc(m)[x], u[x])]
    BY <2>1, <2>2
  <2>6. Term(m) = Poly(u)
    BY <1>4 DEF u
  <2>. HIDE DEF Term
  <2>. QED
    BY ONLY <2>4, <2>5, <2>6
<1>6. Poly(acc(0)) = {}
  <2>1. \A x \in 0..(t - 1) : acc(0)[x] = {}
    <3>1. 0..(0 - 1) = {}
      OBVIOUS
    <3>. QED
      BY <3>1, SumNone
  <2>2. DOMAIN acc(0) = 0..(t - 1)
    OBVIOUS
  <2>. HIDE DEF acc
  <2>. QED
    BY <2>1, <2>2 DEF Poly
<1>. HIDE DEF Term, acc
<1>7. Is(g)
  <2>1. ASSUME NEW m \in 0..t, m # 0
        PROVE  g[m] = SymDiff(g[m - 1], Term(m - 1))
    <3>1. m - 1 \in 0..(t - 1) /\ m - 1 \in 0..t /\ (m - 1) + 1 = m
      BY <1>0, <2>1
    <3>2. Poly(acc((m - 1) + 1)) = SymDiff(Poly(acc(m - 1)), Term(m - 1))
      BY <1>5, <3>1
    <3>. QED
      BY <3>1, <3>2
  <2>2. g[0] = {}
    BY <1>0, <1>6
  <2>3. g = [m \in 0..t |-> g[m]]
    OBVIOUS
  <2>. HIDE DEF g
  <2>. QED
    BY <2>1, <2>2, <2>3
<1>8. Is(s0)
  <2>. HIDE DEF g
  <2>. QED
    BY <1>7
<1>. HIDE DEF s0
<1>. DEFINE P == {m \in 0..t : s0[m] = Poly(acc(m))}
<1>9. t \in P
  <2>1. 0 \in P
    BY <1>0, <1>6, <1>8
  <2>2. ASSUME NEW m \in 0..(t - 1), m \in P  PROVE m + 1 \in P
    <3>1. m + 1 \in 0..t /\ (m + 1) - 1 = m /\ m + 1 # 0
      BY <1>0
    <3>2. s0[m + 1] = SymDiff(s0[m], Term(m))
      BY <1>8, <3>1
    <3>. QED
      BY <1>5, <2>2, <3>1, <3>2
  <2>. HIDE DEF P
  <2>. QED
    BY <1>0, <2>1, <2>2, UpTo
<1>10. acc(t) = Powers[t]
  <2>1. \A x \in 0..(t - 1) : Powers[t][x] = SumOver(c(x), 0..(t - 1))
    BY DoneRelation DEF ResultIsRelation
  <2>2. Powers[t] = [x \in 0..(t - 1) |-> Powers[t][x]]
    <3>1. t \in 0..t
      BY <1>0
    <3>. QED
      BY <1>0, <1>2, <3>1
  <2>. HIDE DEF c
  <2>. QED
    BY <2>1, <2>2 DEF acc
<1>11. RefPower(f, t) = Poly(Powers[t])
  <2>1. t \in 0..t
    BY <1>0
  <2>. QED
    BY <1>0, <2>1, ReferencePowers
<1>12. RefPower(f, t) = s0[t]
  BY <1>9, <1>10, <1>11
<1>. QED
  BY <1>12 DEF RootOfResult, s0, Term

(***************************************************************************)
(* f is a root of the polynomial that genpoly_gen returns, evaluated with  *)
(* the reference arithmetic on polynomials instead of the code's own       *)
(* (sk_gen.rs:16-19 and 53-55, gf.rs:256-302).                             *)
(***************************************************************************)
THEOREM ResultHasRoot == Spec => []RootOfResult
<1>1. SkInv => RootOfResult
  BY SumOfResult DEF RootOfResult
<1>. QED
  BY <1>1, SkInitial, SkStep, PTL DEF Spec
===============================================================================
