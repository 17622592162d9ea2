----------------------------- MODULE LinearLemmas ------------------------------
(***************************************************************************)
(* Facts about sets of numbers, about machine words as sets of bits, and   *)
(* about the multiplication of src/gf.rs: that folding with the two masks  *)
(* of gf_mul is reduction modulo the field polynomial, so that gf_mul is   *)
(* commutative and associative and distributes over gf_add.  Then linear   *)
(* algebra over GF(2) for the matrices of Goppa: what adding one row to    *)
(* another and exchanging columns do to the sums of rows.                  *)
(***************************************************************************)
EXTENDS Goppa, FiniteSetTheorems, TLAPS

(* XOR of two words of a set's bits is a word of its bits. *)
LEMMA SymDiffType ==
  ASSUME NEW S, NEW a \in SUBSET S, NEW b \in SUBSET S
  PROVE  SymDiff(a, b) \in SUBSET S
BY DEF SymDiff

(* What bit x of an XOR is: the form in which the proofs use SymDiff. *)
LEMMA SymDiffBit ==
  ASSUME NEW a, NEW b, NEW x
  PROVE  x \in SymDiff(a, b) <=> ((x \in a) # (x \in b))
BY DEF SymDiff

(* A nonempty set of natural numbers has a least element, and Min is it:   *)
(* what ctz returns for a word that is not 0.                              *)
LEMMA MinOfNaturals ==
  ASSUME NEW S \in SUBSET Nat, S # {}
  PROVE  /\ Min(S) \in S
         /\ \A x \in S : Min(S) <= x
<1>. DEFINE T == {0..(n - 1) : n \in S}
<1>1. T \subseteq FiniteSubsetsOf(Nat) /\ T # {}
  <2>1. ASSUME NEW n \in S
        PROVE  0..(n - 1) \in FiniteSubsetsOf(Nat)
    <3>1. IsFiniteSet(0..(n - 1))
      BY FS_Interval
    <3>2. 0..(n - 1) \in SUBSET Nat
      OBVIOUS
    <3>. QED
      BY <3>1, <3>2 DEF FiniteSubsetsOf
  <2>. QED
    BY <2>1
<1>2. PICK t \in T : \A u \in T : ~ (<<u, t>> \in StrictSubsetOrdering(Nat))
  BY <1>1, FS_StrictSubsetOrderingWellFounded, WFMin
<1>3. PICK m \in S : t = 0..(m - 1)
  BY <1>2
<1>4. ASSUME NEW y \in S  PROVE m <= y
  <2>1. SUFFICES ASSUME y < m  PROVE FALSE
    OBVIOUS
  <2>2. 0..(y - 1) \subseteq t /\ 0..(y - 1) # t
    <3>1. y \in t /\ y \notin 0..(y - 1)
      BY <1>3, <2>1
    <3>. QED
      BY <1>3, <2>1, <3>1
  <2>3. 0..(y - 1) \in T
    OBVIOUS
  <2>. QED
    BY <1>1, <1>2, <2>2, <2>3 DEF StrictSubsetOrdering, FiniteSubsetsOf
<1>. QED
  BY <1>4 DEF Min

(* Counting up, for a property that is a set. *)
LEMMA Upward ==
  ASSUME NEW m \in Nat, NEW P, 0 \in P,
         \A k \in 0..(m - 1) : k \in P => k + 1 \in P
  PROVE  \A k \in 0..m : k \in P
<1>. DEFINE T == {k \in 0..m : k \notin P}
<1>1. T = {}
  <2>1. SUFFICES ASSUME T # {}  PROVE FALSE
    OBVIOUS
  <2>2. PICK k \in T : \A n \in T : k <= n
    <3>1. T \in SUBSET Nat
      OBVIOUS
    <3>. HIDE DEF T
    <3>. QED
      BY <2>1, <3>1, MinOfNaturals
  <2>3. k \in 0..m /\ k # 0 /\ k \notin P
    OBVIOUS
  <2>4. k - 1 \in 0..(m - 1) /\ k - 1 \in 0..m /\ k - 1 \notin T /\ (k - 1) + 1 = k
    BY <2>2, <2>3
  <2>5. k - 1 \in P
    BY <2>4
  <2>6. (k - 1) + 1 \in P
    BY <2>4, <2>5
  <2>. QED
    BY <2>3, <2>4, <2>6
<1>. QED
  BY <1>1

(* Counting down. *)
LEMMA Downward ==
  ASSUME NEW m \in Nat, NEW P, m \in P,
         \A k \in 0..(m - 1) : k + 1 \in P => k \in P
  PROVE  \A k \in 0..m : k \in P
<1>. DEFINE T == {k \in 0..m : m - k \notin P}
<1>1. T = {}
  <2>1. SUFFICES ASSUME T # {}  PROVE FALSE
    OBVIOUS
  <2>2. PICK k \in T : \A n \in T : k <= n
    <3>1. T \in SUBSET Nat
      OBVIOUS
    <3>. HIDE DEF T
    <3>. QED
      BY <2>1, <3>1, MinOfNaturals
  <2>3. k \in 0..m /\ m - k \notin P /\ k # 0
    <3>1. m - 0 = m
      OBVIOUS
    <3>. QED
      BY <3>1
  <2>4. k - 1 \in 0..m /\ k - 1 \notin T /\ m - (k - 1) = (m - k) + 1 /\ m - k \in 0..(m - 1)
    BY <2>2, <2>3
  <2>5. (m - k) + 1 \in P
    BY <2>4
  <2>. QED
    BY <2>3, <2>4, <2>5
<1>2. ASSUME NEW k \in 0..m  PROVE k \in P
  <2>1. m - k \in 0..m /\ m - (m - k) = k
    OBVIOUS
  <2>2. m - k \notin T
    BY <1>1
  <2>. QED
    BY <2>1, <2>2
<1>. QED
  BY <1>2

(* An injection of a finite set into itself reaches every element. *)
LEMMA InjectionIsOnto ==
  ASSUME NEW S, IsFiniteSet(S), NEW f \in [S -> S],
         \A a, b \in S : f[a] = f[b] => a = b,
         NEW t \in S
  PROVE  \E a \in S : f[a] = t
<1>1. f \in Injection(S, S)
  BY DEF Injection, IsInjective
<1>2. Cardinality(S) = Cardinality(S)
  OBVIOUS
<1>3. f \in Surjection(S, S)
  BY <1>1, <1>2, FS_Injection
<1>. QED
  BY <1>3 DEF Surjection

(***************************************************************************)
(* Induction on finite sets of numbers, for a property that is a set: the  *)
(* least prefix of S that has not got it would be one element more than    *)
(* one that has.                                                           *)
(***************************************************************************)
LEMMA SubsetInduction ==
  ASSUME NEW m \in Nat, NEW P, {} \in P,
         \A A \in P : \A j \in (0..(m - 1)) \ A : A \cup {j} \in P
  PROVE  \A S \in SUBSET (0..(m - 1)) : S \in P
<1>. SUFFICES ASSUME NEW S \in SUBSET (0..(m - 1))  PROVE S \in P
  OBVIOUS
<1>. DEFINE Below(j) == {x \in S : x < j}
            T == {j \in 0..m : Below(j) \notin P}
<1>0. \A x \in S : x \in Nat /\ x < m /\ ~ x < 0
  OBVIOUS
<1>1. T = {}
  <2>1. SUFFICES ASSUME T # {}  PROVE FALSE
    OBVIOUS
  <2>2. PICK j \in T : \A i \in T : j <= i
    <3>1. T \in SUBSET Nat
      OBVIOUS
    <3>. HIDE DEF T
    <3>. QED
      BY <2>1, <3>1, MinOfNaturals
  <2>3. Below(0) = {}
    BY ONLY <1>0
  <2>4. j # 0 /\ j \in 0..m /\ Below(j) \notin P
    BY <2>2, <2>3
  <2>5. j - 1 \in 0..m /\ j - 1 \in 0..(m - 1) /\ j - 1 \notin T
    <3>1. j \in 0..m /\ j # 0
      BY <2>4
    <3>. HIDE DEF T
    <3>. QED
      BY <2>2, <3>1
  <2>6. Below(j - 1) \in P
    BY <2>5
  <2>7. Below(j) = Below(j - 1) \/ Below(j) = Below(j - 1) \cup {j - 1}
    <3>1. \A x \in S : x < j <=> x < j - 1 \/ x = j - 1
      BY <2>4
    <3>. QED
      BY <3>1
  <2>8. j - 1 \notin Below(j - 1)
    BY <2>5
  <2>. HIDE DEF Below, T
  <2>. QED
    BY <2>4, <2>5, <2>6, <2>7, <2>8
<1>2. Below(m) = S
  BY ONLY <1>0
<1>3. m \in 0..m
  OBVIOUS
<1>. QED
  BY <1>1, <1>2, <1>3

-------------------------------------------------------------------------------
(* Parities.                                                               *)

(* The parity of a set of positions is what XOR adds up. *)
LEMMA OddSymDiff ==
  ASSUME NEW A, IsFiniteSet(A), NEW B, IsFiniteSet(B)
  PROVE  Odd(SymDiff(A, B)) <=> (Odd(A) # Odd(B))
<1>. DEFINE C == A \cap B
            a == Cardinality(A)
            b == Cardinality(B)
            n == Cardinality(C)
<1>1. /\ IsFiniteSet(A \ B) /\ Cardinality(A \ B) = a - n
      /\ IsFiniteSet(B \ A) /\ Cardinality(B \ A) = b - n
  <2>1. B \cap A = A \cap B
    OBVIOUS
  <2>. QED
    BY <2>1, FS_Difference
<1>2. (A \ B) \cap (B \ A) = {}
  OBVIOUS
<1>3. Cardinality((A \ B) \cap (B \ A)) = 0
  BY <1>2, FS_EmptySet
<1>4. /\ IsFiniteSet((A \ B) \cup (B \ A))
      /\ Cardinality((A \ B) \cup (B \ A)) =
           Cardinality(A \ B) + Cardinality(B \ A)
             - Cardinality((A \ B) \cap (B \ A))
  BY <1>1, FS_Union
<1>5. SymDiff(A, B) = (A \ B) \cup (B \ A)
  BY DEF SymDiff
<1>6. a \in Nat /\ b \in Nat /\ n \in Nat
  BY FS_CardinalityType, FS_Intersection
<1>7. Cardinality(SymDiff(A, B)) = (a - n) + (b - n)
  <2>. HIDE DEF a, b, n
  <2>. QED
    BY <1>1, <1>3, <1>4, <1>5, <1>6
<1>8. ((a - n) + (b - n)) % 2 = 1 <=> ((a % 2 = 1) # (b % 2 = 1))
  <2>. HIDE DEF a, b, n
  <2>. QED
    BY <1>6
<1>. QED
  BY <1>7, <1>8 DEF Odd

(* One is odd, none is even. *)
LEMMA OddOne ==
  /\ \A x : Odd({x})
  /\ ~ Odd({})
<1>1. \A x : Cardinality({x}) = 1
  BY FS_Singleton
<1>2. Cardinality({}) = 0
  BY FS_EmptySet
<1>3. 1 % 2 = 1 /\ 0 % 2 # 1
  OBVIOUS
<1>. QED
  BY <1>1, <1>2, <1>3 DEF Odd

(* Adding one element to a set, or taking it out, changes the parity. *)
LEMMA OddFlip ==
  ASSUME NEW A, IsFiniteSet(A), NEW x
  PROVE  Odd(SymDiff(A, {x})) <=> ~ Odd(A)
BY OddSymDiff, OddOne, FS_Singleton

(* Sets of one size have one parity. *)
LEMMA OddBijection ==
  ASSUME NEW S, IsFiniteSet(S), NEW T, NEW f \in Bijection(S, T)
  PROVE  Odd(S) <=> Odd(T)
<1>1. Cardinality(T) = Cardinality(S)
  BY FS_Bijection DEF ExistsBijection
<1>. QED
  BY <1>1 DEF Odd

-------------------------------------------------------------------------------
(* The bands of gf_mul.                                                    *)

(* Max, as GF uses it. *)
LEMMA MaxOfTaps == Max(TAPS) \in TAPS /\ \A t \in TAPS : t <= Max(TAPS)
<1>. DEFINE U == {n \in Nat : \A t \in TAPS : t <= n}
            m == Min(U)
<1>1. GFBITS - 1 \in U /\ TAPS \subseteq Nat /\ 0 \in TAPS
  BY GFAssumption
<1>2. m \in U /\ \A n \in U : m <= n
  BY <1>1, MinOfNaturals
<1>. HIDE DEF m
<1>3. m \in TAPS
  <2>1. SUFFICES ASSUME m \notin TAPS  PROVE FALSE
    OBVIOUS
  <2>2. m # 0 /\ m - 1 \in Nat
    BY <1>1, <1>2, <2>1
  <2>3. m - 1 \in U
    BY <1>1, <1>2, <2>1, <2>2
  <2>. QED
    BY <1>2, <2>3
<1>. QED
  BY <1>1, <1>2, <1>3 DEF Max

(* The bits of p that the masks B select and that bit b is folded from. *)
Folded(p, B, b) == {t \in TAPS : b + GFBITS - t \in p \cap B}

(* A bit stays, and is flipped once for every bit that is folded onto it. *)
LEMMA FoldBandBit ==
  ASSUME NEW p \in SUBSET Int, NEW B, NEW b \in Int
  PROVE  b \in FoldBand(p, p \cap B) <=> ((b \in p) # Odd(Folded(p, B, b)))
<1>. DEFINE Hits == Folded(p, B, b)
            band == p \cap B
            reach == p \cup {h - GFBITS + t : h \in p \cap band, t \in TAPS}
<1>1. p \cap band = band
  OBVIOUS
<1>2. b \in FoldBand(p, p \cap B) <=> b \in reach /\ ((b \in p) # Odd(Hits))
  <2>1. FoldBand(p, band) = {c \in reach : (c \in p) # Odd(Folded(p, B, c))}
    BY DEF FoldBand, Folded
  <2>. HIDE DEF reach, Hits
  <2>2. b \in FoldBand(p, band) <=> b \in reach /\ ((b \in p) # Odd(Folded(p, B, b)))
    BY ONLY <2>1
  <2>. QED
    BY ONLY <2>2 DEF band, Hits
<1>3. ASSUME Odd(Hits)  PROVE b \in reach
  <2>1. PICK t \in Hits : TRUE
    BY <1>3, OddOne
  <2>2. t \in TAPS /\ b + GFBITS - t \in p \cap band /\ t \in Int /\ GFBITS \in Int
    BY <2>1, GFAssumption DEF Folded
  <2>3. b = ((b + GFBITS) - t) - GFBITS + t /\ b + GFBITS - t = (b + GFBITS) - t
    BY <2>2
  <2>. QED
    BY <2>2, <2>3
<1>4. b \in p => b \in reach
  OBVIOUS
<1>. HIDE DEF Hits, reach
<1>5. b \in FoldBand(p, p \cap B) <=> ((b \in p) # Odd(Hits))
  BY ONLY <1>2, <1>3, <1>4 DEF Odd
<1>. QED
  BY ONLY <1>5 DEF Hits

(* One of the two folds of gf_mul: of the bits of p that B selects. *)
Fold(p, B) == FoldBand(p, p \cap B)

(* It is a word again. *)
LEMMA FoldBandType ==
  ASSUME NEW p \in SUBSET Int, NEW B
  PROVE  Fold(p, B) \in SUBSET Int
<1>. DEFINE shifted == {h - GFBITS + t : h \in p \cap (p \cap B), t \in TAPS}
<1>1. GFBITS \in Int /\ TAPS \subseteq Int
  BY GFAssumption
<1>2. shifted \subseteq Int
  BY <1>1
<1>3. Fold(p, B) \subseteq p \cup shifted
  BY ONLY DEF Fold, FoldBand
<1>. HIDE DEF shifted
<1>. QED
  BY <1>2, <1>3

(* Folding is linear. *)
LEMMA FoldBandAdd ==
  ASSUME NEW p \in SUBSET Int, NEW q \in SUBSET Int, NEW B
  PROVE  Fold(SymDiff(p, q), B)
           = SymDiff(Fold(p, B), Fold(q, B))
<1>. DEFINE pq == SymDiff(p, q)
            both == SymDiff(Fold(p, B), Fold(q, B))
<1>1. pq \in SUBSET Int /\ \A b : b \in pq <=> ((b \in p) # (b \in q))
  BY SymDiffType, SymDiffBit
<1>2. /\ both \in SUBSET Int
      /\ \A b : b \in both
                <=> ((b \in Fold(p, B)) # (b \in Fold(q, B)))
  <2>1. Fold(p, B) \in SUBSET Int /\ Fold(q, B) \in SUBSET Int
    BY FoldBandType
  <2>2. both \in SUBSET Int
    BY <2>1, SymDiffType
  <2>3. \A u, v, b : b \in SymDiff(u, v) <=> ((b \in u) # (b \in v))
    BY ONLY SymDiffBit
  <2>. QED
    BY ONLY <2>2, <2>3
<1>3. IsFiniteSet(TAPS)
  <2>1. IsFiniteSet(0..(GFBITS - 1)) /\ TAPS \subseteq 0..(GFBITS - 1)
    BY GFAssumption, FS_Interval
  <2>. QED
    BY ONLY <2>1, FS_Subset
<1>4. ASSUME NEW b \in Int
      PROVE  b \in Fold(pq, B) <=> b \in both
  <2>1. \A r : IsFiniteSet(Folded(r, B, b))
    BY <1>3, FS_Subset DEF Folded
  <2>2. Folded(pq, B, b) = SymDiff(Folded(p, B, b), Folded(q, B, b))
    BY DEF SymDiff, Folded
  <2>3. Odd(Folded(pq, B, b)) <=> (Odd(Folded(p, B, b)) # Odd(Folded(q, B, b)))
    BY ONLY <2>1, <2>2, OddSymDiff
  <2>. HIDE DEF pq, both
  <2>4. /\ b \in Fold(p, B) <=> ((b \in p) # Odd(Folded(p, B, b)))
        /\ b \in Fold(q, B) <=> ((b \in q) # Odd(Folded(q, B, b)))
        /\ b \in Fold(pq, B) <=> ((b \in pq) # Odd(Folded(pq, B, b)))
    BY <1>1, FoldBandBit DEF Fold
  <2>. QED
    BY ONLY <1>1, <1>2, <2>3, <2>4 DEF Odd
<1>5. Fold(pq, B) \in SUBSET Int
  <2>. HIDE DEF pq
  <2>. QED
    BY <1>1, FoldBandType
<1>. QED
  BY <1>2, <1>4, <1>5

-------------------------------------------------------------------------------
(* Polynomials over GF(2).                                                 *)

(* Those with a finite number of terms, of any degree and below 0 too. *)
Polys == {x \in SUBSET Int : \E n \in Nat : \A i \in x : 0 - n <= i /\ i <= n}

(* Words and elements of the field are polynomials, and the terms of one   *)
(* are finitely many.                                                      *)
LEMMA PolysAre ==
  /\ GFBITS \in Nat /\ IsFiniteSet(TAPS) /\ TAPS \subseteq Nat
  /\ \A n \in Nat : SUBSET (0..n) \subseteq Polys
  /\ \A x \in Gf : x \in Polys
  /\ \A j \in Int : {j} \in Polys
  /\ \A x \in Polys : x \subseteq Int /\ IsFiniteSet(x) /\ SUBSET x \subseteq Polys
  /\ \A x, y \in Polys : x \cup y \in Polys /\ SymDiff(x, y) \in Polys
<1>1. GFBITS \in Nat \ {0} /\ TAPS \subseteq 0..(GFBITS - 1)
  BY GFAssumption
<1>2. ASSUME NEW n \in Nat  PROVE SUBSET (0..n) \subseteq Polys
  <2>1. \A i \in 0..n : i \in Int /\ 0 - n <= i /\ i <= n
    OBVIOUS
  <2>. QED
    BY <2>1 DEF Polys
<1>3. Gf \subseteq Polys
  <2>1. GFBITS - 1 \in Nat
    BY <1>1
  <2>. QED
    BY ONLY <1>2, <2>1 DEF Gf
<1>4. ASSUME NEW x \in Polys
      PROVE  x \subseteq Int /\ IsFiniteSet(x) /\ SUBSET x \subseteq Polys
  <2>1. PICK n \in Nat : \A i \in x : 0 - n <= i /\ i <= n
    BY DEF Polys
  <2>2. x \subseteq Int
    BY DEF Polys
  <2>3. x \subseteq (0 - n)..n
    BY <2>1, <2>2
  <2>4. IsFiniteSet((0 - n)..n)
    BY FS_Interval
  <2>5. IsFiniteSet(x)
    BY ONLY <2>3, <2>4, FS_Subset
  <2>6. \A y \in SUBSET x : y \in Polys
    BY <2>1, <2>2 DEF Polys
  <2>. QED
    BY <2>2, <2>5, <2>6
<1>5. ASSUME NEW x \in Polys, NEW y \in Polys
      PROVE  x \cup y \in Polys
  <2>1. PICK n \in Nat : \A i \in x : 0 - n <= i /\ i <= n
    BY DEF Polys
  <2>2. PICK m \in Nat : \A i \in y : 0 - m <= i /\ i <= m
    BY DEF Polys
  <2>3. x \cup y \subseteq Int
    BY DEF Polys
  <2>4. n + m \in Nat /\ \A i \in x \cup y : 0 - (n + m) <= i /\ i <= n + m
    BY <2>1, <2>2, <2>3
  <2>. QED
    BY <2>3, <2>4 DEF Polys
<1>6. ASSUME NEW x \in Polys, NEW y \in Polys
      PROVE  SymDiff(x, y) \in Polys
  <2>1. SymDiff(x, y) \in SUBSET (x \cup y)
    BY DEF SymDiff
  <2>. QED
    BY <1>4, <1>5, <2>1
<1>7. IsFiniteSet(TAPS) /\ GFBITS \in Nat /\ TAPS \subseteq Nat
  <2>1. IsFiniteSet(0..(GFBITS - 1))
    BY <1>1, FS_Interval
  <2>2. IsFiniteSet(TAPS)
    BY ONLY <1>1, <2>1, FS_Subset
  <2>. QED
    BY <1>1, <2>2
<1>8. ASSUME NEW j \in Int  PROVE {j} \in Polys
  <2>1. PICK n \in Nat : 0 - n <= j /\ j <= n
    <3>1. IF j < 0 THEN 0 - j \in Nat ELSE j \in Nat
      OBVIOUS
    <3>. QED
      BY <3>1
  <2>. QED
    BY <2>1 DEF Polys
<1>. QED
  BY ONLY <1>2, <1>3, <1>4, <1>5, <1>6, <1>7, <1>8

(* They are closed under XOR, and under dropping terms. *)
LEMMA PolysClosed ==
  /\ \A x, y \in Polys : SymDiff(x, y) \in Polys
  /\ \A x \in Polys : \A y \in SUBSET x : y \in Polys
BY PolysAre

(* The highest and the lowest term. *)
LEMMA Degrees ==
  ASSUME NEW p \in Polys, p # {}
  PROVE  /\ \E h \in p : \A i \in p : i <= h
         /\ \E l \in p : \A i \in p : l <= i
<1>1. PICK n \in Nat : \A i \in p : 0 - n <= i /\ i <= n
  BY DEF Polys
<1>. DEFINE U == {x \in Nat : n - x \in p}
            D == {x \in Nat : x - n \in p}
<1>2. p \subseteq Int
  BY DEF Polys
<1>3. \A i \in p : n - i \in U /\ i + n \in D
  <2>1. ASSUME NEW i \in p  PROVE /\ n - i \in Nat /\ n - (n - i) = i
                                  /\ i + n \in Nat /\ (i + n) - n = i
    BY <1>1, <1>2
  <2>. QED
    BY <2>1
<1>4. PICK x \in U : \A y \in U : x <= y
  <2>1. U \in SUBSET Nat /\ U # {}
    BY <1>3
  <2>. HIDE DEF U
  <2>. QED
    BY <2>1, MinOfNaturals
<1>5. PICK z \in D : \A y \in D : z <= y
  <2>1. D \in SUBSET Nat /\ D # {}
    BY <1>3
  <2>. HIDE DEF D
  <2>. QED
    BY <2>1, MinOfNaturals
<1>6. n - x \in p /\ \A i \in p : i <= n - x
  <2>1. x \in Nat /\ n - x \in p
    OBVIOUS
  <2>2. ASSUME NEW i \in p  PROVE i <= n - x
    <3>1. i \in Int /\ x <= n - i
      BY <1>2, <1>3, <1>4
    <3>. QED
      BY <2>1, <3>1
  <2>. QED
    BY <2>1, <2>2
<1>7. z - n \in p /\ \A i \in p : z - n <= i
  BY <1>2, <1>3, <1>5
<1>. QED
  BY <1>6, <1>7

(* The pairs of terms that give the term k. *)
Pairs(a, b, k) == {i \in b : k - i \in a}

(* A term of the product is there when an odd number of pairs gives it. *)
LEMMA PolyMulBit ==
  ASSUME NEW a \in Polys, NEW b \in Polys, NEW k \in Int
  PROVE  /\ k \in PolyMul(a, b) <=> Odd(Pairs(a, b, k))
         /\ IsFiniteSet(Pairs(a, b, k))
<1>1. ASSUME Odd(Pairs(a, b, k))  PROVE k \in {i + j : i \in a, j \in b}
  <2>1. PICK i \in Pairs(a, b, k) : TRUE
    BY <1>1, OddOne
  <2>2. i \in b /\ k - i \in a /\ i \in Int
    BY <2>1 DEF Polys, Pairs
  <2>3. k = (k - i) + i
    BY <2>2
  <2>. QED
    BY <2>2, <2>3
<1>2. k \in PolyMul(a, b) <=> k \in {i + j : i \in a, j \in b} /\ Odd(Pairs(a, b, k))
  BY DEF PolyMul, Pairs
<1>3. IsFiniteSet(Pairs(a, b, k))
  <2>1. Pairs(a, b, k) \subseteq b /\ IsFiniteSet(b)
    BY PolysAre DEF Pairs
  <2>. QED
    BY ONLY <2>1, FS_Subset
<1>. QED
  BY <1>1, <1>2, <1>3

LEMMA PolyMulType ==
  ASSUME NEW a \in Polys, NEW b \in Polys
  PROVE  PolyMul(a, b) \in Polys
<1>1. PICK n \in Nat : \A i \in a : 0 - n <= i /\ i <= n
  BY DEF Polys
<1>2. PICK m \in Nat : \A i \in b : 0 - m <= i /\ i <= m
  BY DEF Polys
<1>3. a \subseteq Int /\ b \subseteq Int
  BY DEF Polys
<1>4. ASSUME NEW k \in PolyMul(a, b)
      PROVE  k \in Int /\ 0 - (n + m) <= k /\ k <= n + m
  <2>1. PICK i \in a, j \in b : k = i + j
    BY DEF PolyMul
  <2>. QED
    BY <1>1, <1>2, <1>3, <2>1
<1>5. n + m \in Nat
  OBVIOUS
<1>. QED
  BY ONLY <1>4, <1>5 DEF Polys

(* Two polynomials are one when they have the same terms. *)
LEMMA SamePoly ==
  ASSUME NEW a \in Polys, NEW b \in Polys, \A k \in Int : k \in a <=> k \in b
  PROVE  a = b
BY DEF Polys

(* Both factors distribute. *)
LEMMA PolyMulAdd ==
  ASSUME NEW a \in Polys, NEW b \in Polys, NEW c \in Polys
  PROVE  /\ PolyMul(SymDiff(a, b), c) = SymDiff(PolyMul(a, c), PolyMul(b, c))
         /\ PolyMul(c, SymDiff(a, b)) = SymDiff(PolyMul(c, a), PolyMul(c, b))
<1>1. SymDiff(a, b) \in Polys
  BY PolysAre
<1>2. ASSUME NEW k \in Int
      PROVE  /\ k \in PolyMul(SymDiff(a, b), c)
                  <=> ((k \in PolyMul(a, c)) # (k \in PolyMul(b, c)))
             /\ k \in PolyMul(c, SymDiff(a, b))
                  <=> ((k \in PolyMul(c, a)) # (k \in PolyMul(c, b)))
  <2>1. /\ Pairs(SymDiff(a, b), c, k) = SymDiff(Pairs(a, c, k), Pairs(b, c, k))
        /\ Pairs(c, SymDiff(a, b), k) = SymDiff(Pairs(c, a, k), Pairs(c, b, k))
    BY DEF SymDiff, Pairs
  <2>2. \A x, y \in Polys : /\ IsFiniteSet(Pairs(x, y, k))
                            /\ k \in PolyMul(x, y) <=> Odd(Pairs(x, y, k))
    BY PolyMulBit
  <2>3. /\ Odd(SymDiff(Pairs(a, c, k), Pairs(b, c, k)))
             <=> (Odd(Pairs(a, c, k)) # Odd(Pairs(b, c, k)))
        /\ Odd(SymDiff(Pairs(c, a, k), Pairs(c, b, k)))
             <=> (Odd(Pairs(c, a, k)) # Odd(Pairs(c, b, k)))
    BY ONLY <2>2, OddSymDiff, a \in Polys, b \in Polys, c \in Polys
  <2>4. /\ k \in PolyMul(SymDiff(a, b), c) <=> Odd(Pairs(SymDiff(a, b), c, k))
        /\ k \in PolyMul(c, SymDiff(a, b)) <=> Odd(Pairs(c, SymDiff(a, b), k))
        /\ k \in PolyMul(a, c) <=> Odd(Pairs(a, c, k))
        /\ k \in PolyMul(b, c) <=> Odd(Pairs(b, c, k))
        /\ k \in PolyMul(c, a) <=> Odd(Pairs(c, a, k))
        /\ k \in PolyMul(c, b) <=> Odd(Pairs(c, b, k))
    BY ONLY <1>1, <2>2, a \in Polys, b \in Polys, c \in Polys
  <2>. QED
    BY ONLY <2>1, <2>3, <2>4 DEF Odd
<1>3. \A x, y \in Polys : PolyMul(x, y) \in Polys /\ SymDiff(x, y) \in Polys
  BY PolyMulType, PolysAre
<1>4. \A x, y, k : k \in SymDiff(x, y) <=> ((k \in x) # (k \in y))
  BY SymDiffBit
<1>5. PolyMul(SymDiff(a, b), c) = SymDiff(PolyMul(a, c), PolyMul(b, c))
  <2>1. /\ PolyMul(SymDiff(a, b), c) \in Polys
        /\ SymDiff(PolyMul(a, c), PolyMul(b, c)) \in Polys
    BY ONLY <1>1, <1>3, a \in Polys, b \in Polys, c \in Polys
  <2>. QED
    BY ONLY <1>2, <1>4, <2>1, SamePoly
<1>6. PolyMul(c, SymDiff(a, b)) = SymDiff(PolyMul(c, a), PolyMul(c, b))
  <2>1. /\ PolyMul(c, SymDiff(a, b)) \in Polys
        /\ SymDiff(PolyMul(c, a), PolyMul(c, b)) \in Polys
    BY ONLY <1>1, <1>3, a \in Polys, b \in Polys, c \in Polys
  <2>. QED
    BY ONLY <1>2, <1>4, <2>1, SamePoly
<1>. QED
  BY <1>5, <1>6

(* k - i runs through the other factor as i runs through the one. *)
LEMMA PolyMulCommutes ==
  ASSUME NEW a \in Polys, NEW b \in Polys
  PROVE  PolyMul(a, b) = PolyMul(b, a)
<1>1. ASSUME NEW k \in Int
      PROVE  k \in PolyMul(a, b) <=> k \in PolyMul(b, a)
  <2>. DEFINE S == Pairs(a, b, k)
              T == Pairs(b, a, k)
              f == [i \in S |-> k - i]
  <2>1. /\ a \subseteq Int /\ b \subseteq Int /\ IsFiniteSet(S)
        /\ \A i : i \in S <=> i \in b /\ k - i \in a
        /\ \A i : i \in T <=> i \in a /\ k - i \in b
    BY PolyMulBit DEF Polys, Pairs
  <2>. HIDE DEF S, T
  <2>2. \A i \in Int : k - (k - i) = i /\ k - i \in Int
    OBVIOUS
  <2>3. f \in [S -> T]
    BY <2>1, <2>2
  <2>4. ASSUME NEW i \in S, NEW j \in S, f[i] = f[j]  PROVE i = j
    <3>1. i \in Int /\ j \in Int /\ k - i = k - j
      BY <2>1, <2>4
    <3>. QED
      BY <3>1
  <2>5. ASSUME NEW t \in T  PROVE \E i \in S : f[i] = t
    <3>1. k - t \in S /\ k - (k - t) = t
      BY <2>1, <2>2
    <3>. QED
      BY <3>1
  <2>. HIDE DEF f
  <2>6. f \in Bijection(S, T)
    BY <2>3, <2>4, <2>5 DEF Bijection, Injection, Surjection, IsInjective
  <2>7. Odd(S) <=> Odd(T)
    BY ONLY <2>1, <2>6, OddBijection
  <2>. QED
    BY <2>7, PolyMulBit DEF S, T
<1>2. PolyMul(a, b) \in Polys /\ PolyMul(b, a) \in Polys
  BY PolyMulType
<1>. QED
  BY <1>1, <1>2, SamePoly

(* Times x^j. *)
LEMMA PolyMulTerm ==
  ASSUME NEW a \in Polys, NEW j \in Int, NEW k \in Int
  PROVE  {j} \in Polys /\ (k \in PolyMul(a, {j}) <=> k - j \in a)
<1>1. {j} \in Polys
  BY PolysAre
<1>2. k \in PolyMul(a, {j}) <=> Odd(Pairs(a, {j}, k))
  BY <1>1, PolyMulBit
<1>3. CASE k - j \in a
  <2>1. Pairs(a, {j}, k) = {j}
    BY <1>3 DEF Pairs
  <2>. QED
    BY <1>1, <1>2, <1>3, <2>1, OddOne
<1>4. CASE k - j \notin a
  <2>1. Pairs(a, {j}, k) = {}
    BY <1>4 DEF Pairs
  <2>. QED
    BY <1>1, <1>2, <1>4, <2>1, OddOne
<1>. QED
  BY <1>3, <1>4

(* a * (b * x^j) = (a * b) * x^j *)
LEMMA PolyMulShifts ==
  ASSUME NEW a \in Polys, NEW b \in Polys, NEW j \in Int
  PROVE  PolyMul(PolyMul(a, b), {j}) = PolyMul(a, PolyMul(b, {j}))
<1>. DEFINE ab == PolyMul(a, b)
            bj == PolyMul(b, {j})
<1>1. {j} \in Polys /\ ab \in Polys /\ bj \in Polys
  BY PolyMulTerm, PolyMulType
<1>2. \A k \in Int : k \in bj <=> k - j \in b
  BY PolyMulTerm
<1>. HIDE DEF bj
<1>3. ASSUME NEW k \in Int
      PROVE  k \in PolyMul(ab, {j}) <=> k \in PolyMul(a, bj)
  <2>. DEFINE S == Pairs(a, b, k - j)
              T == Pairs(a, bj, k)
              f == [i \in S |-> i + j]
  <2>0. b \subseteq Int /\ bj \subseteq Int /\ k - j \in Int
    BY <1>1 DEF Polys
  <2>1. /\ b \subseteq Int /\ bj \subseteq Int /\ IsFiniteSet(S) /\ k - j \in Int
        /\ \A i : i \in S <=> i \in b /\ (k - j) - i \in a
        /\ \A i : i \in T <=> i \in bj /\ k - i \in a
    <3>1. IsFiniteSet(S)
      BY <2>0, PolyMulBit
    <3>. QED
      BY <2>0, <3>1 DEF Pairs
  <2>. HIDE DEF S, T
  <2>2. \A i \in Int : k - (i + j) = (k - j) - i /\ (i + j) - j = i /\ i + j \in Int
                       /\ (k - j) - (i - j) = k - i /\ (i - j) + j = i /\ i - j \in Int
    OBVIOUS
  <2>3. ASSUME NEW i \in S  PROVE i + j \in T
    <3>1. i \in Int /\ i \in b /\ (k - j) - i \in a
      BY <2>1
    <3>2. i + j \in bj
      BY <1>2, <2>2, <3>1
    <3>. QED
      BY <2>1, <2>2, <3>1, <3>2
  <2>4. f \in [S -> T]
    BY <2>3
  <2>5. ASSUME NEW i \in S, NEW h \in S, f[i] = f[h]  PROVE i = h
    <3>1. i \in Int /\ h \in Int /\ i + j = h + j
      BY <2>1, <2>5
    <3>. QED
      BY <3>1
  <2>6. ASSUME NEW i \in T  PROVE \E h \in S : f[h] = i
    <3>1. i \in Int /\ i \in bj /\ k - i \in a
      BY <2>1
    <3>2. i - j \in b /\ (k - j) - (i - j) \in a /\ (i - j) + j = i
      BY <1>2, <2>2, <3>1
    <3>3. i - j \in S
      BY <2>1, <3>2
    <3>. QED
      BY <3>2, <3>3
  <2>. HIDE DEF f
  <2>7. f \in Bijection(S, T)
    BY <2>4, <2>5, <2>6 DEF Bijection, Injection, Surjection, IsInjective
  <2>8. Odd(S) <=> Odd(T)
    BY ONLY <2>1, <2>7, OddBijection
  <2>9. k \in PolyMul(ab, {j}) <=> k - j \in ab
    BY <1>1, PolyMulTerm
  <2>10. k - j \in ab <=> Odd(S)
    BY <2>1, PolyMulBit DEF S
  <2>11. k \in PolyMul(a, bj) <=> Odd(T)
    BY <1>1, PolyMulBit DEF T
  <2>. QED
    BY ONLY <2>8, <2>9, <2>10, <2>11
<1>4. PolyMul(ab, {j}) \in Polys /\ PolyMul(a, bj) \in Polys
  BY <1>1, PolyMulType
<1>. HIDE DEF ab
<1>5. PolyMul(ab, {j}) = PolyMul(a, bj)
  BY <1>3, <1>4, SamePoly
<1>. QED
  BY <1>5 DEF ab, bj

(* Term by term of the last factor. *)
LEMMA PolyMulAssociates ==
  ASSUME NEW a \in Polys, NEW b \in Polys, NEW m \in Nat
  PROVE  \A c \in SUBSET (0..(m - 1)) :
           PolyMul(PolyMul(a, b), c) = PolyMul(a, PolyMul(b, c))
<1>. DEFINE P == {c \in SUBSET (0..(m - 1)) :
                    PolyMul(PolyMul(a, b), c) = PolyMul(a, PolyMul(b, c))}
<1>1. {} \in P
  <2>1. \A x : PolyMul(x, {}) = {}
    BY DEF PolyMul
  <2>. QED
    BY <2>1
<1>2. ASSUME NEW A \in P, NEW j \in (0..(m - 1)) \ A
      PROVE  A \cup {j} \in P
  <2>. DEFINE ab == PolyMul(a, b)
  <2>1. /\ A \in Polys /\ {j} \in Polys /\ ab \in Polys
        /\ PolyMul(b, A) \in Polys /\ PolyMul(b, {j}) \in Polys
    <3>1. A \in Polys
      <4>1. m - 1 \in Nat /\ A \in SUBSET (0..(m - 1))
        OBVIOUS
      <4>. QED
        BY ONLY <4>1, PolysAre
    <3>2. {j} \in Polys
      BY PolysAre
    <3>. QED
      BY <3>1, <3>2, PolyMulType
  <2>2. A \cup {j} = SymDiff(A, {j})
    BY DEF SymDiff
  <2>3. PolyMul(ab, SymDiff(A, {j})) = SymDiff(PolyMul(ab, A), PolyMul(ab, {j}))
    BY <2>1, PolyMulAdd
  <2>4. PolyMul(a, PolyMul(b, SymDiff(A, {j})))
          = SymDiff(PolyMul(a, PolyMul(b, A)), PolyMul(a, PolyMul(b, {j})))
    BY <2>1, PolyMulAdd
  <2>5. PolyMul(ab, {j}) = PolyMul(a, PolyMul(b, {j}))
    BY PolyMulShifts
  <2>6. PolyMul(ab, A) = PolyMul(a, PolyMul(b, A)) /\ A \cup {j} \in SUBSET (0..(m - 1))
    OBVIOUS
  <2>7. PolyMul(ab, A \cup {j}) = PolyMul(a, PolyMul(b, A \cup {j}))
    <3>. HIDE DEF ab
    <3>. QED
      BY ONLY <2>2, <2>3, <2>4, <2>5, <2>6
  <2>. QED
    BY <2>6, <2>7
<1>. HIDE DEF P
<1>3. \A c \in SUBSET (0..(m - 1)) : c \in P
  BY <1>1, <1>2, SubsetInduction
<1>. QED
  BY <1>3 DEF P

-------------------------------------------------------------------------------
(* The field polynomial and its multiples.                                 *)

FieldPoly == TAPS \cup {GFBITS}

(* Its terms: those of TAPS, and the highest one. *)
LEMMA FieldPolyIs ==
  /\ FieldPoly \in SUBSET (0..((GFBITS + 1) - 1)) /\ FieldPoly \in Polys
  /\ GFBITS \notin TAPS /\ GFBITS \in Nat /\ 0 \in TAPS
  /\ \A t \in TAPS : t \in Nat /\ t < GFBITS
<1>1. GFBITS \in Nat \ {0} /\ TAPS \subseteq 0..(GFBITS - 1) /\ 0 \in TAPS
  BY GFAssumption
<1>2. FieldPoly \in SUBSET (0..GFBITS) /\ (GFBITS + 1) - 1 = GFBITS
  BY <1>1 DEF FieldPoly
<1>3. FieldPoly \in Polys
  BY ONLY <1>1, <1>2, PolysAre
<1>. QED
  BY <1>1, <1>2, <1>3

(* The bits that the masks B select, folded: plus a multiple of the field  *)
(* polynomial, minus these bits, which the code leaves in place.           *)
LEMMA FoldIs ==
  ASSUME NEW p \in Polys, NEW B
  PROVE  \E q \in Polys :
           /\ Fold(p, B) \in Polys
           /\ \A k \in Int : k \in Fold(p, B)
                <=> ((k \in SymDiff(p, PolyMul(q, FieldPoly))) # (k \in p \cap B))
<1>. DEFINE band == p \cap B
            q == {k \in Int : k + GFBITS \in band}
            qP == PolyMul(q, FieldPoly)
<1>0. p \subseteq Int /\ band \in Polys
  <2>1. band \in SUBSET p
    OBVIOUS
  <2>. QED
    BY <2>1, PolysAre
<1>1. q \in Polys
  <2>1. PICK n \in Nat : \A i \in p : 0 - n <= i /\ i <= n
    BY DEF Polys
  <2>2. ASSUME NEW k \in q
        PROVE  k \in Int /\ 0 - (n + GFBITS) <= k /\ k <= n + GFBITS
    <3>1. k \in Int /\ k + GFBITS \in p
      OBVIOUS
    <3>. QED
      BY <2>1, <3>1, FieldPolyIs
  <2>3. n + GFBITS \in Nat
    BY FieldPolyIs
  <2>. HIDE DEF q
  <2>. QED
    BY <2>2, <2>3 DEF Polys
<1>2. qP \in Polys
  BY <1>1, FieldPolyIs, PolyMulType
<1>3. ASSUME NEW k \in Int
      PROVE  k \in Fold(p, B) <=> ((k \in SymDiff(p, qP)) # (k \in band))
  <2>. DEFINE S == Pairs(q, FieldPoly, k)
              F == Folded(p, B, k)
  <2>1. k \in qP <=> Odd(S)
    BY <1>1, FieldPolyIs, PolyMulBit
  <2>2. k \in Fold(p, B) <=> ((k \in p) # Odd(F))
    BY <1>0, FoldBandBit DEF Fold
  <2>3. /\ \A t : t \in F <=> t \in TAPS /\ (k + GFBITS) - t \in band
        /\ \A t : t \in S <=> t \in FieldPoly /\ k - t \in q
    <3>1. \A t \in TAPS : k + GFBITS - t = (k + GFBITS) - t
      BY FieldPolyIs
    <3>. QED
      BY <3>1 DEF Folded, Pairs
  <2>4. \A t \in TAPS : (k - t) + GFBITS = (k + GFBITS) - t /\ k - t \in Int
    BY FieldPolyIs
  <2>5. /\ \A t \in TAPS : t \in S <=> t \in F
        /\ GFBITS \in S <=> k \in band
        /\ GFBITS \notin F /\ F \subseteq TAPS /\ S \subseteq FieldPoly
    <3>1. \A t \in TAPS : t \in S <=> t \in F
      BY <2>3, <2>4 DEF FieldPoly
    <3>2. GFBITS \in S <=> k \in band
      <4>1. (k - GFBITS) + GFBITS = k /\ k - GFBITS \in Int
        BY FieldPolyIs
      <4>. QED
        BY <2>3, <4>1 DEF FieldPoly
    <3>. HIDE DEF S, F
    <3>. QED
      BY <2>3, <3>1, <3>2, FieldPolyIs
  <2>6. IsFiniteSet(F)
    BY <2>5, FS_Subset, PolysAre
  <2>. HIDE DEF S, F, band, qP
  <2>7. Odd(S) <=> (Odd(F) # (k \in band))
    <3>1. CASE k \in band
      <4>1. S = SymDiff(F, {GFBITS})
        BY <2>5, <3>1 DEF FieldPoly, SymDiff
      <4>2. Odd(S) <=> ~ Odd(F)
        BY ONLY <2>6, <4>1, OddFlip
      <4>. QED
        BY <3>1, <4>2 DEF Odd
    <3>2. CASE k \notin band
      <4>1. S = F
        BY <2>5, <3>2 DEF FieldPoly
      <4>. QED
        BY <3>2, <4>1 DEF Odd
    <3>. QED
      BY <3>1, <3>2
  <2>8. k \in SymDiff(p, qP) <=> ((k \in p) # (k \in qP))
    BY SymDiffBit
  <2>. QED
    BY ONLY <2>1, <2>2, <2>7, <2>8 DEF Odd
<1>4. Fold(p, B) \in Polys
  <2>1. Fold(p, B) \subseteq Int
    BY <1>0, FoldBandType
  <2>2. Fold(p, B) \in SUBSET ((p \cup qP) \cup band)
    BY <1>3, <2>1 DEF SymDiff
  <2>3. (p \cup qP) \cup band \in Polys
    BY ONLY <1>0, <1>2, PolysAre, p \in Polys
  <2>. QED
    BY ONLY <2>2, <2>3, PolysClosed
<1>. QED
  BY <1>1, <1>3, <1>4

(* p and r have the same remainder. *)
Congruent(p, r) == \E q \in Polys : p = SymDiff(r, PolyMul(q, FieldPoly))

(* Remainders add up, are transitive, and multiply. *)
LEMMA CongruentSum ==
  ASSUME NEW p \in Polys, NEW r \in Polys, NEW u \in Polys, NEW v \in Polys,
         Congruent(p, r), Congruent(u, v)
  PROVE  Congruent(SymDiff(p, u), SymDiff(r, v))
<1>1. PICK q \in Polys : p = SymDiff(r, PolyMul(q, FieldPoly))
  BY DEF Congruent
<1>2. PICK w \in Polys : u = SymDiff(v, PolyMul(w, FieldPoly))
  BY DEF Congruent
<1>3. /\ SymDiff(q, w) \in Polys
      /\ PolyMul(SymDiff(q, w), FieldPoly)
           = SymDiff(PolyMul(q, FieldPoly), PolyMul(w, FieldPoly))
  BY PolysClosed, FieldPolyIs, PolyMulAdd
<1>4. \A a, b, c, d : SymDiff(SymDiff(a, b), SymDiff(c, d))
                        = SymDiff(SymDiff(a, c), SymDiff(b, d))
  BY ONLY DEF SymDiff
<1>5. SymDiff(p, u)
        = SymDiff(SymDiff(r, v), PolyMul(SymDiff(q, w), FieldPoly))
  BY ONLY <1>1, <1>2, <1>3, <1>4
<1>. QED
  BY <1>3, <1>5 DEF Congruent

LEMMA CongruentTrans ==
  ASSUME NEW p \in Polys, NEW r \in Polys, NEW u \in Polys,
         Congruent(p, r), Congruent(r, u)
  PROVE  Congruent(p, u)
<1>1. PICK q \in Polys : p = SymDiff(r, PolyMul(q, FieldPoly))
  BY DEF Congruent
<1>2. PICK w \in Polys : r = SymDiff(u, PolyMul(w, FieldPoly))
  BY DEF Congruent
<1>3. /\ SymDiff(w, q) \in Polys
      /\ PolyMul(SymDiff(w, q), FieldPoly)
           = SymDiff(PolyMul(w, FieldPoly), PolyMul(q, FieldPoly))
  BY PolysClosed, FieldPolyIs, PolyMulAdd
<1>4. \A a, b, c : SymDiff(SymDiff(a, b), c) = SymDiff(a, SymDiff(b, c))
  BY ONLY DEF SymDiff
<1>5. p = SymDiff(u, PolyMul(SymDiff(w, q), FieldPoly))
  BY ONLY <1>1, <1>2, <1>3, <1>4
<1>. QED
  BY <1>3, <1>5 DEF Congruent

LEMMA CongruentProduct ==
  ASSUME NEW p \in Polys, NEW r \in Polys, NEW c \in Gf, Congruent(p, r)
  PROVE  Congruent(PolyMul(p, c), PolyMul(r, c))
<1>. DEFINE P == FieldPoly
<1>0. P \in Polys /\ c \in Polys /\ P \in SUBSET (0..((GFBITS + 1) - 1))
      /\ GFBITS + 1 \in Nat /\ GFBITS \in Nat /\ c \in SUBSET (0..(GFBITS - 1))
  BY FieldPolyIs, PolysAre DEF Gf
<1>. HIDE DEF P
<1>1. PICK q \in Polys : p = SymDiff(r, PolyMul(q, P))
  BY DEF Congruent, P
<1>2. PolyMul(q, P) \in Polys /\ PolyMul(q, c) \in Polys
  BY <1>0, PolyMulType
<1>3. PolyMul(p, c) = SymDiff(PolyMul(r, c), PolyMul(PolyMul(q, P), c))
  BY <1>0, <1>1, <1>2, PolyMulAdd
<1>4. PolyMul(PolyMul(q, P), c) = PolyMul(q, PolyMul(P, c))
  BY <1>0, PolyMulAssociates
<1>5. PolyMul(q, PolyMul(c, P)) = PolyMul(PolyMul(q, c), P)
  BY <1>0, PolyMulAssociates
<1>6. PolyMul(P, c) = PolyMul(c, P)
  BY <1>0, PolyMulCommutes
<1>7. PolyMul(p, c) = SymDiff(PolyMul(r, c), PolyMul(PolyMul(q, c), P))
  BY ONLY <1>3, <1>4, <1>5, <1>6
<1>. QED
  BY <1>2, <1>7 DEF Congruent, P

(***************************************************************************)
(* A multiple of the field polynomial that has only GFBITS terms is 0: the *)
(* highest term of the factor is negative, and the lowest is not.          *)
(***************************************************************************)
LEMMA ResidueIsUnique ==
  ASSUME NEW a \in Gf, NEW b \in Gf, NEW p \in Polys, Congruent(a, p), Congruent(b, p)
  PROVE  a = b
<1>. DEFINE P == FieldPoly
<1>0. P \in Polys /\ GFBITS \in Nat /\ a \subseteq 0..(GFBITS - 1) /\ b \subseteq 0..(GFBITS - 1)
      /\ \A t : t \in P <=> t \in TAPS \/ t = GFBITS
  BY FieldPolyIs DEF Gf, FieldPoly
<1>. HIDE DEF P
<1>1. PICK u \in Polys : a = SymDiff(p, PolyMul(u, P))
  BY DEF Congruent, P
<1>2. PICK v \in Polys : b = SymDiff(p, PolyMul(v, P))
  BY DEF Congruent, P
<1>. DEFINE q == SymDiff(u, v)
<1>3. q \in Polys
  BY PolysAre
<1>4. SymDiff(a, b) = PolyMul(q, P)
  <2>1. PolyMul(q, P) = SymDiff(PolyMul(u, P), PolyMul(v, P))
    BY <1>0, PolyMulAdd
  <2>2. \A x, y, z : SymDiff(SymDiff(x, y), SymDiff(x, z)) = SymDiff(y, z)
    BY ONLY DEF SymDiff
  <2>. HIDE DEF q
  <2>. QED
    BY ONLY <1>1, <1>2, <2>1, <2>2
<1>. HIDE DEF q
<1>5. ASSUME NEW k \in Int, Odd(Pairs(q, P, k))  PROVE k \in 0..(GFBITS - 1)
  <2>1. k \in PolyMul(q, P)
    BY <1>0, <1>3, <1>5, PolyMulBit
  <2>2. k \in SymDiff(a, b)
    BY <1>4, <2>1
  <2>. QED
    BY <1>0, <2>2 DEF SymDiff
<1>6. q = {}
  <2>1. SUFFICES ASSUME q # {}  PROVE FALSE
    OBVIOUS
  <2>2. PICK h \in q : \A i \in q : i <= h
    BY <1>3, <2>1, Degrees
  <2>3. PICK l \in q : \A i \in q : l <= i
    BY <1>3, <2>1, Degrees
  <2>4. h \in Int /\ l \in Int /\ l <= h
    BY <1>3, <2>2, <2>3 DEF Polys
  <2>5. Pairs(q, P, h + GFBITS) = {GFBITS}
    <3>1. (h + GFBITS) - GFBITS = h
      BY <1>0, <2>4
    <3>2. ASSUME NEW t \in TAPS  PROVE (h + GFBITS) - t \notin q
      <4>1. (h + GFBITS) - t > h
        BY <2>4, FieldPolyIs
      <4>2. (h + GFBITS) - t \in Int
        BY <2>4, FieldPolyIs
      <4>. QED
        BY <2>2, <2>4, <4>1, <4>2
    <3>. QED
      BY <1>0, <2>2, <3>1, <3>2 DEF Pairs
  <2>6. Pairs(q, P, l) = {0}
    <3>1. l - 0 = l /\ 0 \in TAPS
      BY <2>4, FieldPolyIs
    <3>2. ASSUME NEW t \in P, t # 0  PROVE l - t \notin q
      <4>1. t \in Nat
        BY <1>0, FieldPolyIs
      <4>2. l - t < l /\ l - t \in Int
        BY <2>4, <3>2, <4>1
      <4>. QED
        BY <2>3, <2>4, <4>2
    <3>. QED
      BY <1>0, <2>3, <3>1, <3>2 DEF Pairs
  <2>7. h + GFBITS \in 0..(GFBITS - 1) /\ l \in 0..(GFBITS - 1)
    <3>1. h + GFBITS \in Int
      BY <1>0, <2>4
    <3>. QED
      BY <1>5, <2>4, <2>5, <2>6, <3>1, OddOne
  <2>. QED
    BY <1>0, <2>4, <2>7
<1>7. PolyMul({}, P) = {}
  BY DEF PolyMul
<1>. QED
  BY <1>4, <1>6, <1>7 DEF SymDiff

(***************************************************************************)
(* gf_mul is the product modulo the field polynomial: after the two bands  *)
(* nothing at or above GFBITS is left but what was folded.                 *)
(***************************************************************************)
LEMMA MulIsResidue ==
  ASSUME NEW a \in Gf, NEW b \in Gf
  PROVE  /\ gf_mul(a, b) \in Gf
         /\ Congruent(gf_mul(a, b), PolyMul(a, b))
<1>. DEFINE High == {k \in Int : k >= FoldAt}
            Low  == {k \in Int : GFBITS <= k /\ k < FoldAt}
            p  == PolyMul(a, b)
            p1 == Fold(p, High)
            p2 == Fold(p1, Low)
            P  == FieldPoly
<1>0. /\ a \in Polys /\ b \in Polys /\ a \subseteq 0..(GFBITS - 1) /\ b \subseteq 0..(GFBITS - 1)
      /\ p \in Polys
  BY PolysAre, PolyMulType DEF Gf
<1>1. \A k \in p : 0 <= k /\ k < 2 * GFBITS - 1
  <2>1. p \subseteq {i + j : i \in a, j \in b}
    BY DEF PolyMul
  <2>2. \A i \in a, j \in b : 0 <= i + j /\ i + j < 2 * GFBITS - 1
    BY <1>0, FieldPolyIs
  <2>. QED
    BY <2>1, <2>2
<1>. HIDE DEF p, p1, p2, P, High, Low
<1>2. PICK q1 \in Polys :
        /\ p1 \in Polys
        /\ \A k \in Int : k \in p1 <=> ((k \in SymDiff(p, PolyMul(q1, P))) # (k \in p \cap High))
  BY <1>0, FoldIs DEF p1, P
<1>3. PICK q2 \in Polys :
        /\ p2 \in Polys
        /\ \A k \in Int : k \in p2 <=> ((k \in SymDiff(p1, PolyMul(q2, P))) # (k \in p1 \cap Low))
  BY <1>2, FoldIs DEF p2, P
<1>. DEFINE q == SymDiff(q1, q2)
            r == SymDiff(p, PolyMul(q, P))
<1>4. q \in Polys /\ PolyMul(q, P) = SymDiff(PolyMul(q1, P), PolyMul(q2, P))
      /\ r \in Polys
  <2>1. q \in Polys /\ P \in Polys
    BY PolysAre, FieldPolyIs DEF P
  <2>2. PolyMul(q, P) = SymDiff(PolyMul(q1, P), PolyMul(q2, P))
    BY <2>1, PolyMulAdd
  <2>3. r \in Polys
    <3>. HIDE DEF q
    <3>1. PolyMul(q, P) \in Polys
      BY <2>1, PolyMulType
    <3>. QED
      BY <1>0, <3>1, PolysAre
  <2>. QED
    BY <2>1, <2>2, <2>3
<1>5. gf_mul(a, b) = p2 \cap (0..(GFBITS - 1))
  <2>1. p \subseteq Int /\ p1 \subseteq Int
    BY <1>0, <1>2 DEF Polys
  <2>2. {k \in p : k >= FoldAt} = p \cap High
    BY <2>1 DEF High
  <2>3. {k \in p1 : GFBITS <= k /\ k < FoldAt} = p1 \cap Low
    BY <2>1 DEF Low
  <2>. QED
    BY ONLY <2>2, <2>3 DEF gf_mul, Fold, p, p1, p2
<1>6. PICK m \in TAPS :
        /\ m \in Nat /\ m # 0 /\ FoldAt = (GFBITS + m) - 1
        /\ \A t \in TAPS : t \in Nat /\ t <= m /\ t + m <= GFBITS + 1
  <2>. DEFINE x == Max(TAPS)
  <2>1. x \in TAPS /\ \A t \in TAPS : t <= x
    BY MaxOfTaps
  <2>. HIDE DEF x
  <2>2. x \in Nat /\ \A t \in TAPS : t \in Nat
    BY <2>1, FieldPolyIs
  <2>3. x # 0
    <3>1. PICK t \in TAPS : t # 0
      BY GFAssumption
    <3>. QED
      BY <2>1, <2>2, <3>1
  <2>4. FoldAt = (GFBITS + x) - 1
    BY <2>2, FieldPolyIs DEF FoldAt, x
  <2>5. \A t \in TAPS : t + x <= GFBITS + 1
    BY <2>1, GFAssumption
  <2>. QED
    BY <2>1, <2>2, <2>3, <2>4, <2>5
<1>7. ASSUME NEW k \in Int
      PROVE  k \in r <=> k \in p2 \cap (0..(GFBITS - 1))
  <2>1. /\ k \in p1 <=> ((k \in SymDiff(p, PolyMul(q1, P))) # (k \in p \cap High))
        /\ k \in p2 <=> ((k \in SymDiff(p1, PolyMul(q2, P))) # (k \in p1 \cap Low))
    BY <1>2, <1>3
  <2>2. \A x, y : k \in SymDiff(x, y) <=> ((k \in x) # (k \in y))
    BY SymDiffBit
  <2>3. k \in r <=> ((k \in p) # ((k \in PolyMul(q1, P)) # (k \in PolyMul(q2, P))))
    BY <1>4, <2>2
  <2>. DEFINE inP == k \in p  inP1 == k \in p1  inP2 == k \in p2
              m1 == k \in PolyMul(q1, P)  m2 == k \in PolyMul(q2, P)
  <2>4. k \in r <=> ((k \in p2) # ((k \in p \cap High) # (k \in p1 \cap Low)))
    <3>1. /\ k \in p1 <=> ((inP # m1) # (k \in p \cap High))
          /\ k \in p2 <=> ((inP1 # m2) # (k \in p1 \cap Low))
          /\ k \in r <=> (inP # (m1 # m2))
      BY ONLY <2>1, <2>2, <2>3
    <3>. QED
      BY ONLY <3>1
  <2>5. /\ k \in p1 <=> ((k \in p) # Odd(Folded(p, High, k)))
        /\ k \in p2 <=> ((k \in p1) # Odd(Folded(p1, Low, k)))
    BY <1>0, <1>2, FoldBandBit DEF p1, p2, Fold, Polys
  <2>6. GFBITS \in Nat /\ FoldAt \in Int /\ GFBITS <= FoldAt
    BY <1>6, FieldPolyIs
  <2>7. k < 0 \/ k >= FoldAt => Folded(p, High, k) = {}
    <3>1. SUFFICES ASSUME k < 0 \/ k >= FoldAt, NEW t \in TAPS,
                          k + GFBITS - t \in p, k + GFBITS - t \in High
                   PROVE  FALSE
      BY DEF Folded
    <3>2. k + GFBITS - t >= FoldAt /\ k + GFBITS - t < 2 * GFBITS - 1
      BY <1>1, <3>1 DEF High
    <3>3. t \in Nat /\ t <= m /\ t + m <= GFBITS + 1 /\ t < GFBITS
      BY <1>6, FieldPolyIs
    <3>. QED
      BY <1>6, <2>6, <3>1, <3>2, <3>3
  <2>8. k < 0 \/ k >= GFBITS => Folded(p1, Low, k) = {}
    <3>1. SUFFICES ASSUME k < 0 \/ k >= GFBITS, NEW t \in TAPS,
                          k + GFBITS - t \in p1, k + GFBITS - t \in Low
                   PROVE  FALSE
      BY DEF Folded
    <3>2. GFBITS <= k + GFBITS - t /\ k + GFBITS - t < FoldAt
      BY <3>1 DEF Low
    <3>3. t \in Nat /\ t <= m /\ t + m <= GFBITS + 1
      BY <1>6
    <3>. QED
      BY <1>6, <2>6, <3>1, <3>2, <3>3
  <2>9. /\ k \in High <=> k >= FoldAt
        /\ k \in Low <=> GFBITS <= k /\ k < FoldAt
    BY DEF High, Low
  <2>10. k < 0 => k \notin p
    BY <1>1
  <2>. HIDE DEF r
  <2>11. CASE k < 0
    <3>1. Folded(p, High, k) = {} /\ Folded(p1, Low, k) = {} /\ k \notin High /\ k \notin Low
      BY <2>6, <2>7, <2>8, <2>9, <2>11
    <3>2. k \notin 0..(GFBITS - 1) /\ k \notin p
      BY <2>10, <2>11
    <3>. QED
      BY ONLY <2>4, <2>5, <3>1, <3>2, OddOne DEF Odd
  <2>12. CASE 0 <= k /\ k < GFBITS
    <3>1. k \notin High /\ k \notin Low /\ k \in 0..(GFBITS - 1)
      BY <2>6, <2>9, <2>12
    <3>. QED
      BY ONLY <2>4, <3>1
  <2>13. CASE GFBITS <= k /\ k < FoldAt
    <3>1. Folded(p1, Low, k) = {} /\ k \notin High /\ k \in Low /\ k \notin 0..(GFBITS - 1)
      BY <2>6, <2>8, <2>9, <2>13
    <3>. QED
      BY ONLY <2>4, <2>5, <3>1, OddOne DEF Odd
  <2>14. CASE FoldAt <= k
    <3>1. Folded(p, High, k) = {} /\ Folded(p1, Low, k) = {}
          /\ k \in High /\ k \notin Low /\ k \notin 0..(GFBITS - 1)
      BY <2>6, <2>7, <2>8, <2>9, <2>14
    <3>. QED
      BY ONLY <2>4, <2>5, <3>1, OddOne DEF Odd
  <2>. QED
    BY <2>6, <2>11, <2>12, <2>13, <2>14
<1>8. r = p2 \cap (0..(GFBITS - 1))
  BY <1>4, <1>7 DEF Polys
<1>. HIDE DEF r
<1>9. gf_mul(a, b) = r /\ gf_mul(a, b) \in Gf
  BY <1>5, <1>8 DEF Gf
<1>. QED
  BY <1>4, <1>9 DEF Congruent, r, p, P

-------------------------------------------------------------------------------
(* The field operations.                                                   *)

(* Both factors of a product may be split. *)
LEMMA MulAdd ==
  ASSUME NEW a \in Gf, NEW b \in Gf, NEW c \in Gf
  PROVE  /\ gf_mul(gf_add(a, b), c) = gf_add(gf_mul(a, c), gf_mul(b, c))
         /\ gf_mul(c, gf_add(a, b)) = gf_add(gf_mul(c, a), gf_mul(c, b))
<1>1. \A x, y \in Gf : SymDiff(x, y) \in Gf
  BY SymDiffType DEF Gf
<1>2. \A x, y \in Gf :
        /\ gf_mul(x, y) \in Gf /\ Congruent(gf_mul(x, y), PolyMul(x, y))
        /\ x \in Polys /\ y \in Polys /\ gf_mul(x, y) \in Polys /\ PolyMul(x, y) \in Polys
  BY MulIsResidue, PolysAre, PolyMulType
<1>3. /\ SymDiff(a, b) \in Gf
      /\ SymDiff(gf_mul(a, c), gf_mul(b, c)) \in Gf
      /\ SymDiff(gf_mul(c, a), gf_mul(c, b)) \in Gf
  BY <1>1, <1>2
<1>4. /\ PolyMul(SymDiff(a, b), c) = SymDiff(PolyMul(a, c), PolyMul(b, c))
      /\ PolyMul(c, SymDiff(a, b)) = SymDiff(PolyMul(c, a), PolyMul(c, b))
  BY <1>2, PolyMulAdd
<1>5. Congruent(SymDiff(gf_mul(a, c), gf_mul(b, c)), PolyMul(SymDiff(a, b), c))
  BY <1>2, <1>4, CongruentSum
<1>6. Congruent(SymDiff(gf_mul(c, a), gf_mul(c, b)), PolyMul(c, SymDiff(a, b)))
  BY <1>2, <1>4, CongruentSum
<1>. QED
  BY <1>2, <1>3, <1>5, <1>6, ResidueIsUnique DEF gf_add

LEMMA MulCommutes ==
  ASSUME NEW a \in Gf, NEW b \in Gf
  PROVE  gf_mul(a, b) = gf_mul(b, a)
<1>1. PolyMul(a, b) = PolyMul(b, a)
  BY PolysAre, PolyMulCommutes
<1>. QED
  BY <1>1 DEF gf_mul

LEMMA MulAssociates ==
  ASSUME NEW a \in Gf, NEW b \in Gf, NEW c \in Gf
  PROVE  gf_mul(gf_mul(a, b), c) = gf_mul(a, gf_mul(b, c))
<1>. DEFINE left  == gf_mul(gf_mul(a, b), c)
            right == gf_mul(gf_mul(b, c), a)
            abc   == PolyMul(PolyMul(a, b), c)
<1>1. \A x, y \in Gf :
        /\ gf_mul(x, y) \in Gf /\ Congruent(gf_mul(x, y), PolyMul(x, y))
        /\ x \in Polys /\ y \in Polys /\ gf_mul(x, y) \in Polys /\ PolyMul(x, y) \in Polys
  BY MulIsResidue, PolysAre, PolyMulType
<1>2. ASSUME NEW x \in Gf, NEW y \in Gf, NEW z \in Gf
      PROVE  Congruent(gf_mul(gf_mul(x, y), z), PolyMul(PolyMul(x, y), z))
  <2>1. Congruent(PolyMul(gf_mul(x, y), z), PolyMul(PolyMul(x, y), z))
    BY <1>1, CongruentProduct
  <2>2. Congruent(gf_mul(gf_mul(x, y), z), PolyMul(gf_mul(x, y), z))
    BY <1>1
  <2>3. /\ gf_mul(gf_mul(x, y), z) \in Polys /\ PolyMul(gf_mul(x, y), z) \in Polys
        /\ PolyMul(PolyMul(x, y), z) \in Polys
    BY <1>1, PolyMulType
  <2>. QED
    BY ONLY <2>1, <2>2, <2>3, CongruentTrans
<1>3. PolyMul(PolyMul(b, c), a) = abc
  <2>1. PolyMul(PolyMul(b, c), a) = PolyMul(a, PolyMul(b, c))
    BY <1>1, PolyMulCommutes
  <2>2. GFBITS \in Nat /\ c \in SUBSET (0..(GFBITS - 1))
    BY GFAssumption DEF Gf
  <2>3. abc = PolyMul(a, PolyMul(b, c))
    BY <1>1, <2>2, PolyMulAssociates
  <2>. QED
    BY ONLY <2>1, <2>3
<1>4. Congruent(left, abc) /\ Congruent(right, abc)
  BY <1>2, <1>3
<1>5. left \in Gf /\ right \in Gf /\ abc \in Polys
  BY <1>1, PolyMulType
<1>6. right = gf_mul(a, gf_mul(b, c))
  BY <1>1, MulCommutes
<1>. HIDE DEF left, right, abc
<1>7. left = right
  BY <1>4, <1>5, ResidueIsUnique
<1>. QED
  BY <1>6, <1>7 DEF left

LEMMA MulOne ==
  ASSUME NEW a \in Gf
  PROVE  One \in Gf /\ gf_mul(One, a) = a
<1>1. One \in Gf /\ One \in Polys /\ a \in Polys
  BY GFAssumption, PolysAre DEF One, Gf
<1>2. PolyMul(a, One) = a
  <2>1. ASSUME NEW k \in Int  PROVE k \in PolyMul(a, One) <=> k \in a
    <3>1. k \in PolyMul(a, One) <=> k - 0 \in a
      BY <1>1, PolyMulTerm DEF One
    <3>. QED
      BY <3>1
  <2>. QED
    BY <1>1, <2>1, PolyMulType, SamePoly
<1>3. PolyMul(One, a) = a
  BY <1>1, <1>2, PolyMulCommutes
<1>4. Congruent(a, a)
  <2>1. {} \in Polys /\ PolyMul({}, FieldPoly) = {} /\ a = SymDiff(a, {})
    BY DEF Polys, PolyMul, SymDiff
  <2>. QED
    BY ONLY <2>1 DEF Congruent
<1>. QED
  BY <1>1, <1>3, <1>4, MulIsResidue, ResidueIsUnique

(***************************************************************************)
(* gf_mul, with its masks and its two bands, is the multiplication of the  *)
(* ring GF(2)[x] / (x^GFBITS + the sum of x^t, t \in TAPS), for every      *)
(* GFBITS and TAPS for which two bands are enough (gf.rs:20-68): the       *)
(* product of the polynomials minus a multiple of that polynomial, which   *)
(* determines it.                                                          *)
(***************************************************************************)
THEOREM MulIsRingMultiplication ==
  /\ \A a, b \in Gf :
       /\ gf_mul(a, b) \in Gf
       /\ gf_mul(a, b) = gf_mul(b, a)
       /\ \A r \in Gf : r = gf_mul(a, b) <=> Congruent(r, PolyMul(a, b))
  /\ \A a, b, c \in Gf :
       /\ gf_mul(gf_mul(a, b), c) = gf_mul(a, gf_mul(b, c))
       /\ gf_mul(gf_add(a, b), c) = gf_add(gf_mul(a, c), gf_mul(b, c))
  /\ One \in Gf /\ \A a \in Gf : gf_mul(One, a) = a
<1>1. ASSUME NEW a \in Gf, NEW b \in Gf, NEW r \in Gf
      PROVE  r = gf_mul(a, b) <=> Congruent(r, PolyMul(a, b))
  <2>1. PolyMul(a, b) \in Polys
    BY PolysAre, PolyMulType
  <2>. QED
    BY <2>1, MulIsResidue, ResidueIsUnique
<1>2. One \in Gf
  BY GFAssumption DEF One, Gf
<1>3. \A a, b \in Gf : gf_mul(a, b) \in Gf /\ gf_mul(a, b) = gf_mul(b, a)
  BY MulIsResidue, MulCommutes
<1>4. \A a, b, c \in Gf :
        /\ gf_mul(gf_mul(a, b), c) = gf_mul(a, gf_mul(b, c))
        /\ gf_mul(gf_add(a, b), c) = gf_add(gf_mul(a, c), gf_mul(b, c))
  BY MulAssociates, MulAdd
<1>5. \A a \in Gf : gf_mul(One, a) = a
  BY MulOne
<1>. QED
  BY ONLY <1>1, <1>2, <1>3, <1>4, <1>5

-------------------------------------------------------------------------------
(* Rows, columns and sums of rows.                                         *)

(* The rows are a finite initial part of the columns. *)
LEMMA ColsFinite ==
  /\ PK_NROWS \in Nat /\ SYS_N \in Nat
  /\ IsFiniteSet(Rows) /\ \A r \in Rows : r \in Nat /\ r \in Cols
  /\ Cols \subseteq Idx
<1>1. PK_NROWS \in Nat
  BY GFAssumption, GoppaAssumption DEF PK_NROWS
<1>2. IsFiniteSet(Rows)
  BY <1>1, FS_Interval DEF Rows
<1>. QED
  BY <1>1, <1>2, GoppaAssumption DEF Rows, Cols, Idx

-------------------------------------------------------------------------------
(* Recursive functions, and the field operations of Goppa.                 *)

(* f is x, then what F makes of it, step by step. *)
Iterates(f, F, x, m) ==
  f = [n \in 0..m |-> IF n = 0 THEN x ELSE F[f[n - 1]]]

(* What a recursive function defines, step by step from x: it exists. The *)
(* least length for which it would not is one more than one for which it   *)
(* does.                                                                   *)
LEMMA IteratesExist ==
  ASSUME NEW S, NEW F \in [S -> S], NEW x \in S, NEW m \in Nat
  PROVE  \E f \in [0..m -> S] : Iterates(f, F, x, m)
<1>. DEFINE Is(j, f) ==
              f = [n \in 0..j |-> IF n = 0 THEN x ELSE F[f[n - 1]]]
            T == {j \in 0..m : ~ \E f \in [0..j -> S] : Is(j, f)}
<1>1. \E f \in [0..0 -> S] : Is(0, f)
  <2>1. [n \in 0..0 |-> x] \in [0..0 -> S] /\ Is(0, [n \in 0..0 |-> x])
    OBVIOUS
  <2>. QED
    BY <2>1
<1>2. ASSUME NEW j \in Nat, NEW f \in [0..j -> S], Is(j, f)
      PROVE  \E g \in [0..(j + 1) -> S] : Is(j + 1, g)
  <2>. DEFINE g == [n \in 0..(j + 1) |-> IF n = j + 1 THEN F[f[j]] ELSE f[n]]
  <2>1. g \in [0..(j + 1) -> S]
    OBVIOUS
  <2>2. ASSUME NEW n \in 0..(j + 1)
        PROVE  g[n] = IF n = 0 THEN x ELSE F[g[n - 1]]
    <3>1. CASE n = j + 1
      <4>1. n # 0 /\ n - 1 = j /\ j \in 0..(j + 1) /\ j # j + 1
        BY <3>1
      <4>. QED
        BY <3>1, <4>1
    <3>2. CASE n # j + 1
      <4>1. n \in 0..j /\ g[n] = f[n]
        BY <3>2
      <4>2. n # 0 => g[n - 1] = f[n - 1]
        BY <4>1
      <4>3. f[n] = IF n = 0 THEN x ELSE F[f[n - 1]]
        BY <1>2, <4>1
      <4>. QED
        BY <4>1, <4>2, <4>3
    <3>. QED
      BY <3>1, <3>2
  <2>3. Is(j + 1, g)
    <3>1. g = [n \in 0..(j + 1) |-> g[n]]
      OBVIOUS
    <3>. HIDE DEF g
    <3>. QED
      BY <2>2, <3>1
  <2>. QED
    BY <2>1, <2>3
<1>. HIDE DEF Is
<1>3. T = {}
  <2>1. SUFFICES ASSUME T # {}  PROVE FALSE
    OBVIOUS
  <2>2. PICK j \in T : \A i \in T : j <= i
    <3>1. T \in SUBSET Nat
      OBVIOUS
    <3>. HIDE DEF T
    <3>. QED
      BY <2>1, <3>1, MinOfNaturals
  <2>3. j # 0
    BY <1>1, <2>2
  <2>4. j - 1 \in 0..m /\ j - 1 \in Nat /\ j = (j - 1) + 1 /\ j - 1 \notin T
    BY <2>2, <2>3
  <2>5. \E f \in [0..(j - 1) -> S] : Is(j - 1, f)
    BY <2>4
  <2>6. \E g \in [0..((j - 1) + 1) -> S] : Is((j - 1) + 1, g)
    BY <1>2, <2>4, <2>5
  <2>. QED
    BY <2>2, <2>4, <2>6
<1>4. \E f \in [0..m -> S] : Is(m, f)
  BY <1>3
<1>. QED
  BY <1>4 DEF Is, Iterates

(* And its values stay where F has its values. *)
LEMMA IteratesTyped ==
  ASSUME NEW S, NEW F \in [S -> S], NEW x \in S, NEW m \in Nat, NEW f,
         Iterates(f, F, x, m)
  PROVE  f \in [0..m -> S]
<1>. DEFINE T == {n \in 0..m : f[n] \notin S}
<1>1. T = {}
  <2>1. SUFFICES ASSUME T # {}  PROVE FALSE
    OBVIOUS
  <2>2. PICK n \in T : \A i \in T : n <= i
    <3>1. T \in SUBSET Nat
      OBVIOUS
    <3>. HIDE DEF T
    <3>. QED
      BY <2>1, <3>1, MinOfNaturals
  <2>3. f[n] = IF n = 0 THEN x ELSE F[f[n - 1]]
    BY <2>2 DEF Iterates
  <2>4. n # 0
    BY <2>2, <2>3
  <2>5. n - 1 \in 0..m /\ n - 1 \notin T
    <3>1. n \in 0..m
      BY <2>2
    <3>. HIDE DEF T
    <3>. QED
      BY <2>2, <2>4, <3>1
  <2>. QED
    BY <2>2, <2>3, <2>4, <2>5
<1>2. f = [n \in 0..m |-> f[n]]
  BY DEF Iterates
<1>. QED
  BY <1>1, <1>2

(* The tables Product and Reciprocal hold elements of the field. *)
LEMMA FieldTyped ==
  /\ \A a, b \in Gf : Product[<<a, b>>] = gf_mul(a, b) /\ Product[<<a, b>>] \in Gf
  /\ \A a \in Gf : Reciprocal[a] \in Gf
  /\ \A a, b \in Gf : gf_add(a, b) \in Gf
  /\ Zero \in Gf /\ One \in Gf
<1>1. \A a, b : gf_mul(a, b) \in Gf
  BY DEF gf_mul, Gf
<1>5. Zero \in Gf /\ One \in Gf
  BY GFAssumption DEF Zero, One, Gf
<1>2. \A a \in Gf : gf_inv(a) \in Gf
  <2>. SUFFICES ASSUME NEW a \in Gf  PROVE gf_inv(a) \in Gf
    OBVIOUS
  <2>. DEFINE TimesA == [x \in Gf |-> gf_mul(x, a)]
              N == 2^GFBITS - 2
              Power == CHOOSE f : Iterates(f, TimesA, One, N)
  <2>1. N \in Nat
    <3>. DEFINE q == 2^GFBITS
    <3>1. PK_NROWS \in Nat /\ PK_NROWS # 0
      BY GFAssumption, GoppaAssumption DEF PK_NROWS
    <3>2. q \in Nat /\ PK_NROWS < SYS_N /\ SYS_N <= q /\ SYS_N \in Nat
      BY GoppaAssumption
    <3>. HIDE DEF q
    <3>3. q - 2 \in Nat
      BY <3>1, <3>2
    <3>. QED
      BY <3>3 DEF q
  <2>2. TimesA \in [Gf -> Gf] /\ One \in Gf
    BY <1>1, <1>5
  <2>3. \E f : Iterates(f, TimesA, One, N)
    <3>. HIDE DEF TimesA, N
    <3>. QED
      BY ONLY <2>1, <2>2, IteratesExist
  <2>4. Power[N] \in Gf
    <3>. HIDE DEF TimesA, N
    <3>1. Iterates(Power, TimesA, One, N)
      BY ONLY <2>3
    <3>. HIDE DEF Power
    <3>2. Power \in [0..N -> Gf]
      BY ONLY <2>1, <2>2, <3>1, IteratesTyped
    <3>. QED
      BY <2>1, <3>2
  <2>. QED
    BY <2>4 DEF gf_inv, Iterates
<1>3. \A a \in Gf : Reciprocal[a] \in Gf
  BY <1>2 DEF Reciprocal
<1>4. ASSUME NEW a \in Gf, NEW b \in Gf
      PROVE  Product[<<a, b>>] = gf_mul(a, b)
  BY DEF Product
<1>6. \A a, b \in Gf : gf_add(a, b) \in Gf
  BY ONLY DEF gf_add, SymDiff, Gf
<1>. QED
  BY <1>1, <1>3, <1>4, <1>5, <1>6

-------------------------------------------------------------------------------
(* Sums of rows.                                                           *)

(* The sums of the nonempty sets of rows of m, among those that R names. *)
Sums(m, R) == {RowSum(m, S) : S \in (SUBSET R) \ {{}}}

LEMMA RowSumOne ==
  ASSUME NEW m, NEW r, m[r] \subseteq Cols
  PROVE  RowSum(m, {r}) = m[r]
<1>1. ASSUME NEW c \in Cols  PROVE c \in RowSum(m, {r}) <=> c \in m[r]
  <2>1. CASE c \in m[r]
    <3>1. {q \in {r} : c \in m[q]} = {r}
      BY <2>1
    <3>. QED
      BY <2>1, <3>1, OddOne DEF RowSum
  <2>2. CASE c \notin m[r]
    <3>1. {q \in {r} : c \in m[q]} = {}
      BY <2>2
    <3>. QED
      BY <2>2, <3>1, OddOne DEF RowSum
  <2>. QED
    BY <2>1, <2>2
<1>2. RowSum(m, {r}) \subseteq Cols
  BY DEF RowSum
<1>. QED
  BY <1>1, <1>2

LEMMA RowSumNone == ASSUME NEW m PROVE RowSum(m, {}) = {}
<1>1. ASSUME NEW c  PROVE {q \in {} : c \in m[q]} = {}
  OBVIOUS
<1>. QED
  BY <1>1, OddOne DEF RowSum

(* The row space is the sums, and 0. *)
LEMMA RowSpaceOfSums ==
  ASSUME NEW m
  PROVE  RowSpace(m) = Sums(m, Rows) \cup {{}}
BY RowSumNone DEF RowSpace, Sums

LEMMA IndependentSums ==
  ASSUME NEW m, NEW n
  PROVE  Independent(m, n) <=> \A v \in Sums(m, Rows) : v \cap (0..(n - 1)) # {}
BY DEF Independent, Sums

LEMMA SystematicSums ==
  ASSUME NEW m, NEW n \in Nat
  PROVE  Systematic(m, n)
           <=> \A c \in 0..(n - 1) :
                 \E v \in Sums(m, Rows) : v \cap (0..(n - 1)) = {c}
<1>1. Systematic(m, n)
        <=> \A c \in 0..(n - 1) :
              \E v \in RowSpace(m) : v \cap (0..(n - 1)) = {c}
  BY DEF Systematic
<1>2. ASSUME NEW c \in 0..(n - 1), NEW v \in RowSpace(m),
             v \cap (0..(n - 1)) = {c}
      PROVE  v \in Sums(m, Rows)
  BY <1>2, RowSpaceOfSums
<1>3. Sums(m, Rows) \subseteq RowSpace(m)
  BY RowSpaceOfSums
<1>. QED
  BY <1>1, <1>2, <1>3

(* Sums are closed under addition. *)
LEMMA RowSumAdd ==
  ASSUME NEW m, NEW S, IsFiniteSet(S), NEW T, IsFiniteSet(T)
  PROVE  RowSum(m, SymDiff(S, T)) = SymDiff(RowSum(m, S), RowSum(m, T))
<1>1. ASSUME NEW c \in Cols
      PROVE  c \in RowSum(m, SymDiff(S, T))
               <=> (c \in RowSum(m, S)) # (c \in RowSum(m, T))
  <2>. DEFINE A == {q \in S : c \in m[q]}
              B == {q \in T : c \in m[q]}
  <2>1. {q \in SymDiff(S, T) : c \in m[q]} = SymDiff(A, B)
    BY DEF SymDiff
  <2>2. IsFiniteSet(A) /\ IsFiniteSet(B)
    BY FS_Subset
  <2>3. Odd(SymDiff(A, B)) <=> (Odd(A) # Odd(B))
    <3>. HIDE DEF A, B
    <3>. QED
      BY <2>2, OddSymDiff
  <2>4. /\ c \in RowSum(m, S) <=> Odd(A)
        /\ c \in RowSum(m, T) <=> Odd(B)
        /\ c \in RowSum(m, SymDiff(S, T)) <=> Odd({q \in SymDiff(S, T) : c \in m[q]})
    BY DEF RowSum
  <2>5. Odd({q \in SymDiff(S, T) : c \in m[q]}) <=> Odd(SymDiff(A, B))
    BY <2>1
  <2>. HIDE DEF A, B
  <2>. QED
    BY <2>3, <2>4, <2>5 DEF Odd
<1>2. RowSum(m, SymDiff(S, T)) \subseteq Cols
  BY DEF RowSum
<1>3. SymDiff(RowSum(m, S), RowSum(m, T)) \subseteq Cols
  BY DEF RowSum, SymDiff
<1>4. ASSUME NEW c \in Cols
      PROVE  c \in RowSum(m, SymDiff(S, T))
               <=> c \in SymDiff(RowSum(m, S), RowSum(m, T))
  BY <1>1, SymDiffBit
<1>. QED
  BY <1>2, <1>3, <1>4

(* The sum of the rows S after row s has been added to row r. *)
LEMMA RowSumAfterAdd ==
  ASSUME NEW R, IsFiniteSet(R), NEW m, NEW m2,
         NEW r \in R, NEW s \in R, r # s,
         m2[r] = SymDiff(m[r], m[s]), \A q \in R : q # r => m2[q] = m[q],
         NEW S \in SUBSET R
  PROVE  RowSum(m2, S) = RowSum(m, IF r \in S THEN SymDiff(S, {s}) ELSE S)
<1>. DEFINE S2 == IF r \in S THEN SymDiff(S, {s}) ELSE S
<1>1. m2[r] = SymDiff(m[r], m[s]) /\ \A q \in R : q # r => m2[q] = m[q]
  OBVIOUS
<1>2. ASSUME NEW c \in Cols
      PROVE  Odd({q \in S : c \in m2[q]}) <=> Odd({q \in S2 : c \in m[q]})
  <2>. DEFINE A == {q \in S : c \in m[q]}
  <2>1. IsFiniteSet(A)
    BY FS_Subset
  <2>2. CASE r \notin S
    <3>1. {q \in S : c \in m2[q]} = A /\ {q \in S2 : c \in m[q]} = A
      BY <1>1, <2>2
    <3>. QED
      BY <3>1
  <2>3. CASE r \in S /\ c \notin m[s]
    <3>1. {q \in S : c \in m2[q]} = A
      BY <1>1, <2>3, SymDiffBit
    <3>2. {q \in S2 : c \in m[q]} = A
      BY <2>3 DEF SymDiff
    <3>. QED
      BY <3>1, <3>2
  <2>4. CASE r \in S /\ c \in m[s]
    <3>1. {q \in S : c \in m2[q]} = SymDiff(A, {r})
      <4>1. c \in m2[r] <=> c \notin m[r]
        BY <1>1, <2>4, SymDiffBit
      <4>. QED
        BY <1>1, <2>4, <4>1 DEF SymDiff
    <3>2. {q \in S2 : c \in m[q]} = SymDiff(A, {s})
      BY <2>4 DEF SymDiff
    <3>3. /\ Odd(SymDiff(A, {r})) <=> ~ Odd(A)
          /\ Odd(SymDiff(A, {s})) <=> ~ Odd(A)
      <4>. HIDE DEF A
      <4>. QED
        BY <2>1, OddFlip
    <3>. QED
      BY <3>1, <3>2, <3>3, Zenon
  <2>. QED
    BY <2>2, <2>3, <2>4
<1>. QED
  BY <1>2 DEF RowSum

(* Adding one row to another changes no sum: it is undone by adding it     *)
(* again.                                                                  *)
LEMMA AddRowSums ==
  ASSUME NEW R, IsFiniteSet(R), NEW m, NEW m2,
         NEW r \in R, NEW s \in R, r # s,
         m2[r] = SymDiff(m[r], m[s]), \A q \in R : q # r => m2[q] = m[q]
  PROVE  Sums(m2, R) = Sums(m, R)
<1>. DEFINE Other(S) == IF r \in S THEN SymDiff(S, {s}) ELSE S
<1>1. ASSUME NEW S \in (SUBSET R) \ {{}}
      PROVE  /\ Other(S) \in (SUBSET R) \ {{}}
             /\ Other(Other(S)) = S
             /\ RowSum(m2, S) = RowSum(m, Other(S))
  <2>1. r \in Other(S) <=> r \in S
    BY SymDiffBit
  <2>2. Other(S) \in SUBSET R
    BY DEF SymDiff
  <2>3. Other(S) # {}
    BY <2>1
  <2>4. Other(Other(S)) = S
    BY <2>1 DEF SymDiff
  <2>5. RowSum(m2, S) = RowSum(m, Other(S))
    BY RowSumAfterAdd
  <2>. QED
    BY <2>2, <2>3, <2>4, <2>5
<1>. HIDE DEF Other
<1>2. ASSUME NEW S \in (SUBSET R) \ {{}}
      PROVE  RowSum(m2, S) \in Sums(m, R) /\ RowSum(m, S) \in Sums(m2, R)
  <2>1. RowSum(m2, S) \in Sums(m, R)
    BY <1>1 DEF Sums
  <2>2. RowSum(m2, Other(S)) = RowSum(m, S) /\ Other(S) \in (SUBSET R) \ {{}}
    BY <1>1
  <2>. QED
    BY <2>1, <2>2 DEF Sums
<1>. QED
  BY <1>2 DEF Sums

(* A row of m is one of its sums. *)
LEMMA RowInSums ==
  ASSUME NEW R, NEW m \in [R -> SUBSET Cols], NEW r \in R
  PROVE  m[r] \in Sums(m, R)
<1>1. RowSum(m, {r}) = m[r]
  BY RowSumOne
<1>2. {r} \in (SUBSET R) \ {{}}
  OBVIOUS
<1>. QED
  BY <1>1, <1>2 DEF Sums

(* In a column with its only 1 in row c, a sum has the bit of row c. *)
LEMMA UnitColumnSum ==
  ASSUME NEW m, NEW S, NEW c \in Cols, \A r \in S : c \in m[r] <=> r = c
  PROVE  c \in RowSum(m, S) <=> c \in S
<1>1. CASE c \in S
  <2>1. {r \in S : c \in m[r]} = {c}
    BY <1>1
  <2>. QED
    BY <1>1, <2>1, OddOne DEF RowSum
<1>2. CASE c \notin S
  <2>1. {r \in S : c \in m[r]} = {}
    BY <1>2
  <2>. QED
    BY <1>2, <2>1, OddOne DEF RowSum
<1>. QED
  BY <1>1, <1>2

(* A column of zeros stays one in every sum. *)
LEMMA ZeroColumnSum ==
  ASSUME NEW m, NEW S, NEW c, \A r \in S : c \notin m[r]
  PROVE  c \notin RowSum(m, S)
<1>1. {r \in S : c \in m[r]} = {}
  OBVIOUS
<1>. QED
  BY <1>1, OddOne DEF RowSum

-------------------------------------------------------------------------------
(* The parity check matrix.                                                *)

LEMMA FillMatrixType ==
  ASSUME NEW g, NEW p
  PROVE  FillMatrix(g, p) \in [Rows -> SUBSET Cols]
BY DEF FillMatrix

(* A column is determined by the element of the support it stands for. *)
LEMMA FillMatrixColumn ==
  ASSUME NEW g, NEW p, NEW q, NEW x \in Cols, NEW y \in Cols, p[x] = q[y],
         NEW r \in Rows
  PROVE  x \in FillMatrix(g, p)[r] <=> y \in FillMatrix(g, q)[r]
<1>. DEFINE Entry(a) == Powers(bitrev(a), eval(g, bitrev(a)))
<1>1. ASSUME NEW f, NEW z \in Cols
      PROVE  z \in FillMatrix(g, f)[r] <=> r % GFBITS \in Entry(f[z])[r \div GFBITS]
  BY DEF FillMatrix, Support, root
<1>. HIDE DEF Entry
<1>. QED
  BY <1>1

LEMMA RowSumColumn ==
  ASSUME NEW g, NEW p, NEW q, NEW x \in Cols, NEW y \in Cols, p[x] = q[y],
         NEW S \in SUBSET Rows
  PROVE  x \in RowSum(FillMatrix(g, p), S) <=> y \in RowSum(FillMatrix(g, q), S)
<1>1. {r \in S : x \in FillMatrix(g, p)[r]} = {r \in S : y \in FillMatrix(g, q)[r]}
  BY FillMatrixColumn
<1>. QED
  BY <1>1 DEF RowSum

-------------------------------------------------------------------------------
(* Sums of rows as words: what they span, and their parities. *)

(* One row more. *)
LEMMA RowSumMore ==
  ASSUME NEW m \in [Rows -> SUBSET Cols], NEW A \in SUBSET Rows, NEW j \in Rows \ A
  PROVE  /\ A \cup {j} = SymDiff(A, {j})
         /\ IsFiniteSet(A)
         /\ RowSum(m, A \cup {j}) = SymDiff(RowSum(m, A), m[j])
<1>1. A \cup {j} = SymDiff(A, {j})
  BY DEF SymDiff
<1>2. IsFiniteSet(A) /\ IsFiniteSet({j})
  BY ColsFinite, FS_Subset, FS_Singleton
<1>3. RowSum(m, {j}) = m[j]
  <2>1. m[j] \subseteq Cols
    OBVIOUS
  <2>. QED
    BY <2>1, RowSumOne
<1>. QED
  BY <1>1, <1>2, <1>3, RowSumAdd

(* Sums of elements of the row space are in the row space. *)
LEMMA RowSumClosed ==
  ASSUME NEW m \in [Rows -> SUBSET Cols], NEW h \in [Rows -> SUBSET Cols],
         \A n \in Rows : h[n] \in RowSpace(m)
  PROVE  \A S \in SUBSET Rows : RowSum(h, S) \in RowSpace(m)
<1>. DEFINE P == {S \in SUBSET Rows : RowSum(h, S) \in RowSpace(m)}
<1>0. \A v : v \in RowSpace(m) <=> \E T \in SUBSET Rows : v = RowSum(m, T)
  BY DEF RowSpace
<1>1. {} \in P
  <2>1. {} \in SUBSET Rows /\ RowSum(h, {}) = RowSum(m, {})
    BY RowSumNone
  <2>. QED
    BY <1>0, <2>1
<1>2. ASSUME NEW A \in P, NEW j \in Rows \ A
      PROVE  A \cup {j} \in P
  <2>1. PICK T \in SUBSET Rows : RowSum(h, A) = RowSum(m, T)
    BY <1>0
  <2>2. PICK U \in SUBSET Rows : h[j] = RowSum(m, U)
    BY <1>0
  <2>3. RowSum(h, A \cup {j}) = SymDiff(RowSum(h, A), h[j])
    BY RowSumMore
  <2>4. IsFiniteSet(T) /\ IsFiniteSet(U)
    BY ColsFinite, FS_Subset
  <2>5. RowSum(m, SymDiff(T, U)) = SymDiff(RowSum(m, T), RowSum(m, U))
    BY <2>4, RowSumAdd
  <2>6. SymDiff(T, U) \in SUBSET Rows
    BY SymDiffType
  <2>7. RowSum(h, A \cup {j}) \in RowSpace(m)
    BY <1>0, <2>1, <2>2, <2>3, <2>5, <2>6
  <2>. QED
    BY <2>7
<1>. HIDE DEF P
<1>3. \A S \in SUBSET Rows : S \in P
  BY <1>1, <1>2, ColsFinite, SubsetInduction DEF Rows
<1>. QED
  BY <1>3 DEF P

(***************************************************************************)
(* Rows h of the row space of m that are unit vectors in the first         *)
(* columns span it: different sets of them have different sums, and there  *)
(* are no more sums of m's rows than sets of rows.                         *)
(***************************************************************************)
LEMMA UnitRowsSpan ==
  ASSUME NEW m \in [Rows -> SUBSET Cols], NEW h \in [Rows -> SUBSET Cols],
         \A n \in Rows : h[n] \in RowSpace(m) /\ h[n] \cap Rows = {n},
         NEW r \in Rows
  PROVE  \E S \in SUBSET Rows : m[r] = RowSum(h, S)
<1>. DEFINE Q == SUBSET Rows
            f == [S \in Q |-> CHOOSE T \in Q : RowSum(m, T) = RowSum(h, S)]
<1>1. ASSUME NEW S \in Q
      PROVE  f[S] \in Q /\ RowSum(m, f[S]) = RowSum(h, S)
  <2>1. RowSum(h, S) \in RowSpace(m)
    BY RowSumClosed
  <2>2. \E T \in Q : RowSum(m, T) = RowSum(h, S)
    BY <2>1 DEF RowSpace
  <2>. QED
    BY <2>2
<1>2. ASSUME NEW S \in Q
      PROVE  RowSum(h, S) \cap Rows = S
  <2>1. ASSUME NEW c \in Rows
        PROVE  c \in RowSum(h, S) <=> c \in S
    <3>1. \A q \in S : c \in h[q] <=> q = c
      OBVIOUS
    <3>. QED
      BY <3>1, ColsFinite, UnitColumnSum
  <2>. QED
    BY <2>1
<1>3. IsFiniteSet(Q)
  BY ColsFinite, FS_SUBSET
<1>4. f \in [Q -> Q]
  BY <1>1
<1>5. \A S, T \in Q : f[S] = f[T] => S = T
  <2>1. SUFFICES ASSUME NEW S \in Q, NEW T \in Q, f[S] = f[T]  PROVE S = T
    OBVIOUS
  <2>2. RowSum(h, S) = RowSum(h, T)
    BY <1>1, <2>1
  <2>. HIDE DEF f
  <2>. QED
    BY <1>2, <2>2
<1>. HIDE DEF f
<1>6. PICK S \in Q : f[S] = {r}
  <2>1. {r} \in Q
    OBVIOUS
  <2>. HIDE DEF Q
  <2>. QED
    BY <1>3, <1>4, <1>5, <2>1, InjectionIsOnto
<1>7. RowSum(m, {r}) = m[r]
  <2>1. m[r] \subseteq Cols
    OBVIOUS
  <2>. QED
    BY <2>1, RowSumOne
<1>. QED
  BY <1>1, <1>6, <1>7

(* The parity of a sum's product with e is that of the rows' products. *)
LEMMA ParityOfSum ==
  ASSUME NEW m \in [Rows -> SUBSET Cols], NEW e \in SUBSET Cols
  PROVE  \A S \in SUBSET Rows :
           Odd(RowSum(m, S) \cap e) <=> Odd({n \in S : Odd(m[n] \cap e)})
<1>. DEFINE Hits(S) == {n \in S : Odd(m[n] \cap e)}
            P == {S \in SUBSET Rows : Odd(RowSum(m, S) \cap e) <=> Odd(Hits(S))}
<1>1. {} \in P
  <2>1. RowSum(m, {}) \cap e = {} /\ Hits({}) = {}
    BY RowSumNone
  <2>. QED
    BY <2>1
<1>2. ASSUME NEW A \in P, NEW j \in Rows \ A
      PROVE  A \cup {j} \in P
  <2>. DEFINE B == RowSum(m, A) \cap e
              C == m[j] \cap e
  <2>1. RowSum(m, A \cup {j}) \cap e = SymDiff(B, C)
    <3>1. RowSum(m, A \cup {j}) = SymDiff(RowSum(m, A), m[j])
      BY RowSumMore
    <3>. QED
      BY <3>1 DEF SymDiff
  <2>2. IsFiniteSet(B) /\ IsFiniteSet(C) /\ IsFiniteSet(Hits(A))
    <3>1. IsFiniteSet(Cols)
      BY ColsFinite, FS_Interval DEF Cols
    <3>2. IsFiniteSet(Rows)
      BY ColsFinite
    <3>3. B \subseteq Cols /\ C \subseteq Cols /\ Hits(A) \subseteq Rows
      OBVIOUS
    <3>. HIDE DEF B, C, Hits
    <3>. QED
      BY ONLY <3>1, <3>2, <3>3, FS_Subset
  <2>3. Odd(B) <=> Odd(Hits(A))
    OBVIOUS
  <2>4. Odd(SymDiff(B, C)) <=> (Odd(B) # Odd(C))
    <3>. HIDE DEF B, C
    <3>. QED
      BY ONLY <2>2, OddSymDiff
  <2>5. Odd(Hits(A \cup {j})) <=> (Odd(Hits(A)) # Odd(C))
    <3>1. CASE Odd(C)
      <4>1. Hits(A \cup {j}) = SymDiff(Hits(A), {j})
        BY <3>1 DEF SymDiff
      <4>. HIDE DEF Hits, C
      <4>2. Odd(SymDiff(Hits(A), {j})) <=> ~ Odd(Hits(A))
        BY ONLY <2>2, OddFlip
      <4>. QED
        BY ONLY <3>1, <4>1, <4>2 DEF Odd
    <3>2. CASE ~ Odd(C)
      <4>1. Hits(A \cup {j}) = Hits(A)
        BY <3>2
      <4>. HIDE DEF Hits, C
      <4>. QED
        BY ONLY <3>2, <4>1 DEF Odd
    <3>. QED
      BY <3>1, <3>2
  <2>6. Odd(RowSum(m, A \cup {j}) \cap e) <=> Odd(Hits(A \cup {j}))
    <3>. HIDE DEF Hits, B, C
    <3>. QED
      BY ONLY <2>1, <2>3, <2>4, <2>5 DEF Odd
  <2>7. A \cup {j} \in SUBSET Rows
    OBVIOUS
  <2>. HIDE DEF Hits
  <2>. QED
    BY <2>6, <2>7
<1>. HIDE DEF P
<1>3. \A S \in SUBSET Rows : S \in P
  BY <1>1, <1>2, ColsFinite, SubsetInduction DEF Rows
<1>. QED
  BY <1>3 DEF P
===============================================================================
