---------------------------- MODULE DecryptProofs -----------------------------
(***************************************************************************)
(* Proofs about decryption, for every field, every SYS_T that the 16-bit   *)
(* counters allow and every secret key: that the lengths of bm stay in     *)
(* range, that its register explains the syndrome, that decrypt accepts    *)
(* only an error vector with the syndrome of the ciphertext, and that it   *)
(* finds that vector whenever there is one.                                *)
(***************************************************************************)
EXTENDS Decrypt, LinearLemmas

(* The values of n and l between rounds: what the masks compute with. *)
LengthInv ==
  /\ bm.n \in 0..(2 * SYS_T)
  /\ bm.l \in Nat
  /\ bm.l <= bm.n

(* wrapping_sub: what is left of a difference in 16 bits. *)
LEMMA Wrapping ==
  ASSUME NEW x \in Int, 0 - Word <= x, x < Word
  PROVE  x % Word = IF x < 0 THEN x + Word ELSE x
BY DEF Word

(* The 16-bit comparison decides whether n - 2l is negative, and the new   *)
(* length n + 1 - l does not wrap around.                                  *)
LEMMA MaskIsComparison ==
  ASSUME NEW n \in 0..(2 * SYS_T - 1), NEW l \in 0..n
  PROVE  /\ (n - 2 * l) % Word < Word \div 2 <=> 2 * l <= n
         /\ (n + 1 - l) % Word = n + 1 - l
<1>. DEFINE x == n - 2 * l
            y == n + 1 - l
<1>1. SYS_T \in Nat /\ 2 * SYS_T < 32768
  BY DecryptAssumption, GoppaAssumption DEF Word
<1>2. n \in Int /\ l \in Int /\ 0 <= l /\ l <= n /\ n < 32768
  BY <1>1
<1>3. x \in Int /\ -32768 < x /\ x < 32768
  BY <1>2
<1>4. y \in Int /\ 0 < y /\ y <= 32768
  BY <1>2
<1>5. y % Word = y
  <2>. HIDE DEF y
  <2>. QED
    BY <1>4, Wrapping DEF Word
<1>6. x % Word < Word \div 2 <=> 0 <= x
  <2>. HIDE DEF x
  <2>1. x % Word = IF x < 0 THEN x + Word ELSE x
    BY <1>3, Wrapping DEF Word
  <2>. QED
    BY <1>3, <2>1 DEF Word
<1>7. 0 <= x <=> 2 * l <= n
  BY <1>2
<1>. QED
  BY <1>5, <1>6, <1>7

LEMMA LengthInitial == Init => LengthInv
BY GoppaAssumption DEF Init, BmStart, LengthInv

LEMMA LengthStep == LengthInv /\ [Next]_vars => LengthInv'
<1>. SUFFICES ASSUME LengthInv, [Next]_vars
              PROVE  LengthInv'
  OBVIOUS
<1>1. CASE Round
  <2>. DEFINE d == Discrepancy(bm, s)
  <2>1. /\ bm'.n = bm.n + 1
        /\ bm'.l = IF Mle(bm, d) THEN NewLength(bm) ELSE bm.l
    BY <1>1 DEF Round, BmRound
  <2>2. bm.n \in 0..(2 * SYS_T - 1) /\ bm.l \in 0..bm.n
    BY <1>1, GoppaAssumption DEF Round, LengthInv
  <2>3. NewLength(bm) = bm.n + 1 - bm.l
    BY <2>2, MaskIsComparison DEF NewLength
  <2>. HIDE DEF d
  <2>. QED
    BY <2>1, <2>2, <2>3, GoppaAssumption DEF LengthInv
<1>2. CASE Synd \/ Roots \/ Check \/ Returned \/ UNCHANGED vars
  BY <1>2 DEF Synd, Roots, Check, Returned, vars, LengthInv
<1>. QED
  BY <1>1, <1>2 DEF Next

(* The subtraction of bm.rs:55 never goes below zero, in any round.        *)
THEOREM LengthNeverUnderflows == Spec => []LengthWithinRound
<1>1. LengthInv => LengthWithinRound
  BY DEF LengthInv, LengthWithinRound
<1>. QED
  BY <1>1, LengthInitial, LengthStep, PTL DEF Spec

-------------------------------------------------------------------------------
(* Type correctness: every word stays within GFBITS bits.                  *)

LEMMA SumTyped == \A f, S : SumOver(f, S) \in Gf
BY DEF SumOver, Gf

(* n + 1 - l is in the range of a word, whatever that range is. *)
LEMMA LengthInWord ==
  ASSUME NEW w \in Nat, NEW t \in Nat, 2 * t < w \div 2,
         NEW n \in 0..(2 * t - 1), NEW l \in 0..(w - 1), l <= n
  PROVE  l \in 0..n /\ n + 1 - l \in 0..(w - 1)
<1>1. w \div 2 \in Int /\ w \div 2 <= w
  OBVIOUS
<1>. QED
  BY <1>1

LEMMA WordIsNat == Word \in Nat
BY DEF Word

(* A round of the loop keeps the types, for any syndrome. *)
LEMMA RoundTyped ==
  ASSUME NEW st, st \in [n : 0..(2 * SYS_T - 1), l : 0..(Word - 1),
                         c : Coeffs, b : Coeffs, base : Gf],
         st.l <= st.n,
         NEW sy \in Syndromes
  PROVE  BmRound(st, sy) \in [n : 0..(2 * SYS_T), l : 0..(Word - 1), c : Coeffs,
                              b : Coeffs, base : Gf]
<1>. DEFINE d == Discrepancy(st, sy)
            f == Product[<<Reciprocal[st.base], d>>]
<1>1. d \in Gf
  BY SumTyped DEF Discrepancy, Convolution
<1>2. f \in Gf
  BY <1>1, FieldTyped
<1>3. [k \in 0..SYS_T |-> gf_add(st.c[k], Product[<<f, st.b[k]>>])] \in Coeffs
  <2>1. ASSUME NEW k \in 0..SYS_T
        PROVE  gf_add(st.c[k], Product[<<f, st.b[k]>>]) \in Gf
    <3>1. st.c[k] \in Gf /\ Product[<<f, st.b[k]>>] \in Gf
      BY <1>2, FieldTyped DEF Coeffs
    <3>. QED
      BY <3>1, FieldTyped
  <2>. QED
    BY <2>1 DEF Coeffs
<1>4. ASSUME NEW p \in Coeffs
      PROVE  Shift(p) \in Coeffs
  <2>1. ASSUME NEW k \in 0..SYS_T
        PROVE  (IF k = 0 THEN Zero ELSE p[k - 1]) \in Gf
    <3>1. CASE k = 0
      BY <3>1, FieldTyped
    <3>2. CASE k # 0
      <4>1. k - 1 \in 0..SYS_T
        BY <3>2, GoppaAssumption
      <4>. QED
        BY <3>2, <4>1 DEF Coeffs
    <3>. QED
      BY <3>1, <3>2
  <2>. QED
    BY <2>1 DEF Shift, Coeffs
<1>5. SYS_T \in Nat /\ 2 * SYS_T < Word \div 2
  BY GoppaAssumption, DecryptAssumption
<1>6. st.n \in Nat /\ st.n + 1 \in 0..(2 * SYS_T)
  BY <1>5
<1>7. NewLength(st) \in 0..(Word - 1)
  <2>1. st.n \in 0..(2 * SYS_T - 1) /\ st.l \in 0..(Word - 1) /\ st.l <= st.n
    OBVIOUS
  <2>2. ASSUME NEW n \in 0..(2 * SYS_T - 1), NEW l \in 0..(Word - 1), l <= n
        PROVE  l \in 0..n /\ n + 1 - l \in 0..(Word - 1)
    BY ONLY <1>5, <2>2, WordIsNat, LengthInWord
  <2>3. NewLength(st) = st.n + 1 - st.l
    BY ONLY <2>1, <2>2, MaskIsComparison DEF NewLength
  <2>. QED
    BY ONLY <2>1, <2>2, <2>3
<1>. HIDE DEF d, f
<1>. QED
  BY <1>1, <1>3, <1>4, <1>6, <1>7 DEF BmRound, d, f

BmTypes ==
  [n : 0..(2 * SYS_T), l : 0..(Word - 1), c : Coeffs, b : Coeffs, base : Gf]

LEMMA InitTyped == Init => TypeOK
<1>. SUFFICES ASSUME Init  PROVE TypeOK
  OBVIOUS
<1>1. SYS_T \in Nat
  BY GoppaAssumption
<1>2. \A x : Coefficient(x) \in Coeffs
  BY FieldTyped DEF Coefficient, Coeffs
<1>3. BmStart \in BmTypes
  BY <1>1, <1>2, FieldTyped DEF BmStart, BmTypes, Word
<1>4. [n \in 0..(2 * SYS_T - 1) |-> Zero] \in Syndromes
  BY FieldTyped DEF Syndromes
<1>. QED
  BY <1>3, <1>4 DEF Init, TypeOK, BmTypes

LEMMA SyndTyped == \A g, l, r : synd(g, l, r) \in Syndromes
BY SumTyped DEF synd, Syndromes

LEMMA StepTyped == TypeOK /\ LengthInv /\ [Next]_vars => TypeOK'
<1>. SUFFICES ASSUME TypeOK, LengthInv, [Next]_vars  PROVE TypeOK'
  OBVIOUS
<1>1. CASE Synd
  BY <1>1, SyndTyped DEF Synd, Goto, TypeOK
<1>2. CASE Round
  <2>1. bm \in [n : 0..(2 * SYS_T - 1), l : 0..(Word - 1), c : Coeffs,
                b : Coeffs, base : Gf]
    BY <1>2, GoppaAssumption DEF Round, TypeOK
  <2>2. BmRound(bm, s) \in BmTypes
    BY <2>1, RoundTyped DEF TypeOK, LengthInv, BmTypes
  <2>. QED
    BY <1>2, <2>2 DEF Round, TypeOK, BmTypes
<1>3. CASE Roots
  BY <1>3 DEF Roots, Goto, TypeOK, Zeroes
<1>4. CASE Check
  BY <1>4 DEF Check, Goto, TypeOK
<1>5. CASE Returned \/ UNCHANGED vars
  BY <1>5 DEF Returned, vars, TypeOK
<1>. QED
  BY <1>1, <1>2, <1>3, <1>4, <1>5 DEF Next

(***************************************************************************)
(* No step of decrypt leaves the words of GFBITS bits, the SYS_T + 1       *)
(* coefficients, the 16-bit counters or the positions of the code,         *)
(* whatever the ciphertext and its padding bits are.                       *)
(***************************************************************************)
THEOREM DecryptTypeCorrect == Spec => []TypeOK
BY InitTyped, StepTyped, LengthInitial, LengthStep, PTL DEF Spec

-------------------------------------------------------------------------------
(* Sums of field elements.                                                 *)

(* What FieldAssumption and the laws of gf_mul give for Product. *)
LEMMA FieldLaws ==
  /\ \A a, b, c \in Gf :
       /\ gf_mul(gf_add(a, b), c) = gf_add(gf_mul(a, c), gf_mul(b, c))
       /\ gf_mul(c, gf_add(a, b)) = gf_add(gf_mul(c, a), gf_mul(c, b))
       /\ gf_mul(gf_mul(a, b), c) = gf_mul(a, gf_mul(b, c))
  /\ \A a \in Gf : gf_mul(a, Zero) = Zero /\ gf_mul(Zero, a) = Zero
  /\ \A a, d \in Gf : a # Zero => gf_mul(gf_mul(Reciprocal[a], d), a) = d
<1>1. ASSUME NEW a \in Gf, NEW b \in Gf, NEW c \in Gf
      PROVE  gf_mul(gf_mul(a, b), c) = gf_mul(a, gf_mul(b, c))
  BY MulAssociates
<1>2. ASSUME NEW a \in Gf
      PROVE  gf_mul(a, Zero) = Zero /\ gf_mul(Zero, a) = Zero
  <2>1. \A x : gf_add(x, x) = Zero
    BY DEF gf_add, SymDiff, Zero
  <2>2. /\ gf_mul(a, gf_add(Zero, Zero)) = gf_add(gf_mul(a, Zero), gf_mul(a, Zero))
        /\ gf_mul(gf_add(Zero, Zero), a) = gf_add(gf_mul(Zero, a), gf_mul(Zero, a))
    BY MulAdd, FieldTyped
  <2>. QED
    BY ONLY <2>1, <2>2
<1>3. ASSUME NEW a \in Gf, NEW d \in Gf, a # Zero
      PROVE  gf_mul(gf_mul(Reciprocal[a], d), a) = d
  <2>. DEFINE r == Reciprocal[a]
  <2>1. r \in Gf
    BY FieldTyped
  <2>2. gf_mul(a, r) = One
    <3>. HIDE DEF r
    <3>1. Product[<<a, r>>] = One
      BY <1>3, FieldAssumption DEF r
    <3>2. Product[<<a, r>>] = gf_mul(a, r)
      BY ONLY <2>1, FieldTyped, a \in Gf
    <3>. QED
      BY <3>1, <3>2
  <2>. HIDE DEF r
  <2>3. gf_mul(gf_mul(r, d), a) = gf_mul(gf_mul(d, r), a)
    BY <2>1, MulCommutes
  <2>4. gf_mul(gf_mul(d, r), a) = gf_mul(d, gf_mul(r, a))
    BY <1>1, <2>1
  <2>5. gf_mul(r, a) = One
    BY <2>1, <2>2, MulCommutes
  <2>6. gf_mul(d, One) = d
    BY MulCommutes, MulOne, FieldTyped
  <2>. QED
    BY <2>3, <2>4, <2>5, <2>6 DEF r
<1>. QED
  BY <1>1, <1>2, <1>3, MulAdd

LEMMA SumNone == \A f : SumOver(f, {}) = Zero
BY OddOne DEF SumOver, Zero

LEMMA SumStep ==
  ASSUME NEW f, NEW S, IsFiniteSet(S), NEW j, j \notin S, f[j] \in Gf
  PROVE  SumOver(f, S \cup {j}) = gf_add(SumOver(f, S), f[j])
<1>. DEFINE Hits(R, b) == {x \in R : b \in f[x]}
<1>1. ASSUME NEW b \in 0..(GFBITS - 1)
      PROVE  b \in SumOver(f, S \cup {j}) <=> b \in gf_add(SumOver(f, S), f[j])
  <2>1. /\ b \in SumOver(f, S \cup {j}) <=> Odd(Hits(S \cup {j}, b))
        /\ b \in SumOver(f, S) <=> Odd(Hits(S, b))
    BY DEF SumOver
  <2>2. b \in gf_add(SumOver(f, S), f[j]) <=> ((b \in SumOver(f, S)) # (b \in f[j]))
    BY SymDiffBit DEF gf_add
  <2>3. CASE b \in f[j]
    <3>1. Hits(S \cup {j}, b) = SymDiff(Hits(S, b), {j})
      BY <2>3 DEF SymDiff
    <3>2. IsFiniteSet(Hits(S, b))
      BY FS_Subset
    <3>3. Odd(Hits(S \cup {j}, b)) <=> ~ Odd(Hits(S, b))
      BY <3>1, <3>2, OddFlip
    <3>. QED
      BY ONLY <2>1, <2>2, <2>3, <3>3 DEF Odd
  <2>4. CASE b \notin f[j]
    <3>1. Hits(S \cup {j}, b) = Hits(S, b)
      BY <2>4
    <3>2. b \in SumOver(f, S \cup {j}) <=> b \in SumOver(f, S)
      BY ONLY <2>1, <3>1
    <3>. QED
      BY ONLY <2>2, <2>4, <3>2
  <2>. QED
    BY <2>3, <2>4
<1>2. SumOver(f, S \cup {j}) \in Gf /\ gf_add(SumOver(f, S), f[j]) \in Gf
  BY SumTyped, FieldTyped
<1>. QED
  BY <1>1, <1>2 DEF Gf

(* The terms that are 0 do not count. *)
LEMMA SumSame ==
  ASSUME NEW f, NEW g, NEW R, NEW S \in SUBSET R,
         \A x \in S : f[x] = g[x], \A x \in R \ S : g[x] = Zero
  PROVE  SumOver(f, S) = SumOver(g, R)
<1>1. \A b : {x \in S : b \in f[x]} = {x \in R : b \in g[x]}
  BY DEF Zero
<1>. QED
  BY <1>1 DEF SumOver

LEMMA SumAdd ==
  ASSUME NEW m \in Nat, NEW f, NEW g
  PROVE  SumOver([k \in 0..m |-> gf_add(f[k], g[k])], 0..m)
           = gf_add(SumOver(f, 0..m), SumOver(g, 0..m))
<1>. DEFINE h == [k \in 0..m |-> gf_add(f[k], g[k])]
            Hits(u, b) == {x \in 0..m : b \in u[x]}
<1>1. ASSUME NEW b \in 0..(GFBITS - 1)
      PROVE  b \in SumOver(h, 0..m)
               <=> b \in gf_add(SumOver(f, 0..m), SumOver(g, 0..m))
  <2>1. Hits(h, b) = SymDiff(Hits(f, b), Hits(g, b))
    BY DEF SymDiff, gf_add
  <2>2. \A u : IsFiniteSet(Hits(u, b))
    <3>1. IsFiniteSet(0..m)
      BY FS_Interval
    <3>2. \A u : Hits(u, b) \subseteq 0..m
      OBVIOUS
    <3>. HIDE DEF Hits
    <3>. QED
      BY ONLY <3>1, <3>2, FS_Subset
  <2>3. Odd(Hits(h, b)) <=> (Odd(Hits(f, b)) # Odd(Hits(g, b)))
    <3>. HIDE DEF Hits, h
    <3>. QED
      BY ONLY <2>1, <2>2, OddSymDiff
  <2>4. \A u : b \in SumOver(u, 0..m) <=> Odd(Hits(u, b))
    BY DEF SumOver
  <2>5. b \in gf_add(SumOver(f, 0..m), SumOver(g, 0..m))
          <=> ((b \in SumOver(f, 0..m)) # (b \in SumOver(g, 0..m)))
    BY SymDiffBit DEF gf_add
  <2>. HIDE DEF Hits, h
  <2>. QED
    BY ONLY <2>3, <2>4, <2>5 DEF Odd
<1>2. SumOver(h, 0..m) \in Gf /\ gf_add(SumOver(f, 0..m), SumOver(g, 0..m)) \in Gf
  BY SumTyped, FieldTyped
<1>. HIDE DEF h
<1>3. SumOver(h, 0..m) = gf_add(SumOver(f, 0..m), SumOver(g, 0..m))
  BY <1>1, <1>2 DEF Gf
<1>. QED
  BY <1>3 DEF h

(***************************************************************************)
(* A factor may be taken out of a sum.  The least number of terms for      *)
(* which it may not would be one more than a number for which it may.      *)
(***************************************************************************)
LEMMA SumScale ==
  ASSUME NEW h \in Gf, NEW m \in Nat, NEW f \in [0..m -> Gf]
  PROVE  SumOver([k \in 0..m |-> gf_mul(h, f[k])], 0..m)
           = gf_mul(h, SumOver(f, 0..m))
<1>. DEFINE g == [k \in 0..m |-> gf_mul(h, f[k])]
            Same(j) == SumOver(g, 0..(j - 1)) = gf_mul(h, SumOver(f, 0..(j - 1)))
            T == {j \in 0..(m + 1) : ~ Same(j)}
<1>1. Same(0)
  <2>1. 0..(0 - 1) = {}
    OBVIOUS
  <2>. QED
    BY <2>1, SumNone, FieldLaws
<1>2. ASSUME NEW j \in 0..m, Same(j)
      PROVE  Same(j + 1)
  <2>. DEFINE S == 0..(j - 1)
  <2>1. 0..((j + 1) - 1) = S \cup {j} /\ j \notin S /\ IsFiniteSet(S)
    <3>1. IsFiniteSet(S)
      BY FS_Interval
    <3>2. j \notin S
      OBVIOUS
    <3>3. 0..((j + 1) - 1) = S \cup {j}
      OBVIOUS
    <3>. QED
      BY <3>1, <3>2, <3>3
  <2>2. f[j] \in Gf /\ g[j] = gf_mul(h, f[j]) /\ g[j] \in Gf
    BY FieldTyped
  <2>. HIDE DEF S, g
  <2>3. /\ SumOver(f, S \cup {j}) = gf_add(SumOver(f, S), f[j])
        /\ SumOver(g, S \cup {j}) = gf_add(SumOver(g, S), g[j])
    BY <2>1, <2>2, SumStep
  <2>4. gf_mul(h, gf_add(SumOver(f, S), f[j]))
          = gf_add(gf_mul(h, SumOver(f, S)), gf_mul(h, f[j]))
    BY <2>2, FieldLaws, SumTyped
  <2>5. SumOver(g, S) = gf_mul(h, SumOver(f, S))
    BY <1>2 DEF S
  <2>. QED
    BY <2>1, <2>2, <2>3, <2>4, <2>5
<1>. HIDE DEF Same
<1>3. T = {}
  <2>1. SUFFICES ASSUME T # {}  PROVE FALSE
    OBVIOUS
  <2>2. PICK j \in T : \A i \in T : j <= i
    <3>1. T \in SUBSET Nat
      OBVIOUS
    <3>. HIDE DEF T
    <3>. QED
      BY <2>1, <3>1, MinOfNaturals
  <2>3. j # 0 /\ j - 1 \in 0..m /\ j = (j - 1) + 1
    BY <1>1, <2>2
  <2>4. ~ Same(j - 1)
    BY <1>2, <2>2, <2>3
  <2>. QED
    BY <2>2, <2>3, <2>4
<1>4. Same(m + 1) /\ (m + 1) - 1 = m
  BY <1>3
<1>. QED
  BY <1>4 DEF Same

-------------------------------------------------------------------------------
(* The register.                                                           *)

(***************************************************************************)
(* The convolution with all SYS_T + 1 coefficients of p, at place x of the *)
(* syndrome: what the discrepancy is.                                      *)
(***************************************************************************)
Term(p, sy, x) ==
  [k \in 0..SYS_T |-> IF k <= x THEN gf_mul(p[k], sy[x - k]) ELSE Zero]

At(p, sy, x) == SumOver(Term(p, sy, x), 0..SYS_T)

(* The coefficients of p after that of x^m are 0. *)
Degree(p, m) == \A k \in 0..SYS_T : k > m => p[k] = Zero

(***************************************************************************)
(* What makes RegisterGeneratesPrefix inductive.  b is the register before *)
(* the last change of length, multiplied by x in every round since: it     *)
(* explains the syndrome up to the place before n, has degree n + 1 - l,   *)
(* and misses by base at place n.  It is not yet there when l = 0; and     *)
(* once n + 1 - l coefficients do not fit, Shift has dropped the last one: *)
(* then b is not used before l itself has passed SYS_T.                    *)
(***************************************************************************)
OtherRegister(st, sy) ==
  LET m == st.n + 1 - st.l
  IN  m <= SYS_T =>
        /\ Degree(st.b, m)
        /\ st.l > 0 /\ st.n < 2 * SYS_T =>
             /\ \A x \in m..(st.n - 1) : At(st.b, sy, x) = Zero
             /\ At(st.b, sy, st.n) = st.base

RegisterInv(st, sy) ==
  st.l <= SYS_T =>
    /\ Degree(st.c, st.l)
    /\ \A x \in st.l..(st.n - 1) : At(st.c, sy, x) = Zero
    /\ st.base # Zero
    /\ OtherRegister(st, sy)

LEMMA TermTyped ==
  ASSUME NEW p \in Coeffs, NEW sy \in Syndromes, NEW x \in 0..(2 * SYS_T - 1)
  PROVE  /\ Term(p, sy, x) \in [0..SYS_T -> Gf]
         /\ \A k \in 0..SYS_T : k <= x => sy[x - k] \in Gf
<1>1. \A k \in 0..SYS_T : k <= x => sy[x - k] \in Gf
  BY GoppaAssumption DEF Syndromes
<1>2. \A k \in 0..SYS_T :
        (IF k <= x THEN gf_mul(p[k], sy[x - k]) ELSE Zero) \in Gf
  BY FieldTyped DEF gf_mul, Gf
<1>. QED
  BY <1>1, <1>2 DEF Term

(* A sum of the code, over fewer coefficients, is the same when the others *)
(* are 0.                                                                  *)
LEMMA ConvolutionIs ==
  ASSUME NEW p \in Coeffs, NEW sy \in Syndromes, NEW x \in 0..(2 * SYS_T - 1),
         NEW m \in 0..SYS_T, m <= x,
         \A k \in 0..SYS_T : k > m /\ k <= x => p[k] = Zero
  PROVE  Convolution(p, sy, x, m) = At(p, sy, x)
<1>. DEFINE f == [k \in 0..m |-> Product[<<p[k], sy[x - k]>>]]
            g == Term(p, sy, x)
<1>1. SYS_T \in Nat /\ 0..m \in SUBSET (0..SYS_T)
  BY GoppaAssumption
<1>2. ASSUME NEW k \in 0..m  PROVE f[k] = g[k]
  <2>1. k \in 0..SYS_T /\ k <= x /\ p[k] \in Gf /\ sy[x - k] \in Gf
    <3>1. k \in 0..SYS_T /\ k <= x
      BY <1>1
    <3>2. p[k] \in Gf
      BY <3>1 DEF Coeffs
    <3>3. sy[x - k] \in Gf
      BY <3>1, TermTyped
    <3>. QED
      BY <3>1, <3>2, <3>3
  <2>2. Product[<<p[k], sy[x - k]>>] = gf_mul(p[k], sy[x - k])
    BY <2>1, FieldTyped
  <2>. QED
    BY <2>1, <2>2 DEF Term
<1>3. ASSUME NEW k \in (0..SYS_T) \ (0..m)  PROVE g[k] = Zero
  <2>1. CASE k <= x
    <3>1. k \in 0..SYS_T /\ p[k] = Zero /\ sy[x - k] \in Gf
      BY <1>1, <2>1, TermTyped
    <3>. QED
      BY <2>1, <3>1, FieldLaws DEF Term
  <2>2. CASE ~ (k <= x)
    BY <2>2 DEF Term
  <2>. QED
    BY <2>1, <2>2
<1>. HIDE DEF f, g
<1>4. SumOver(f, 0..m) = SumOver(g, 0..SYS_T)
  BY ONLY <1>1, <1>2, <1>3, SumSame
<1>. QED
  BY <1>4 DEF f, g, Convolution, At

(* The discrepancy, whatever the degree of the register. *)
LEMMA DiscrepancyIs ==
  ASSUME NEW st, st.c \in Coeffs, st.n \in 0..(2 * SYS_T - 1), NEW sy \in Syndromes
  PROVE  Discrepancy(st, sy) = At(st.c, sy, st.n)
<1>. DEFINE m == Min({st.n, SYS_T})
<1>1. m \in 0..SYS_T /\ m <= st.n /\ \A k \in 0..SYS_T : ~ (k > m /\ k <= st.n)
  <2>1. {st.n, SYS_T} \in SUBSET Nat /\ {st.n, SYS_T} # {}
    BY GoppaAssumption
  <2>2. m \in {st.n, SYS_T} /\ \A x \in {st.n, SYS_T} : m <= x
    BY <2>1, MinOfNaturals
  <2>. HIDE DEF m
  <2>. QED
    BY <2>2, GoppaAssumption
<1>. HIDE DEF m
<1>2. Convolution(st.c, sy, st.n, m) = At(st.c, sy, st.n)
  BY <1>1, ConvolutionIs
<1>. QED
  BY <1>2 DEF Discrepancy, m

(* c + f * b, coefficient by coefficient, at a place. *)
LEMMA AtSum ==
  ASSUME NEW p \in Coeffs, NEW q \in Coeffs, NEW f \in Gf,
         NEW sy \in Syndromes, NEW x \in 0..(2 * SYS_T - 1)
  PROVE  At([k \in 0..SYS_T |-> gf_add(p[k], gf_mul(f, q[k]))], sy, x)
           = gf_add(At(p, sy, x), gf_mul(f, At(q, sy, x)))
<1>. DEFINE r == [k \in 0..SYS_T |-> gf_add(p[k], gf_mul(f, q[k]))]
            P == Term(p, sy, x)
            Q == Term(q, sy, x)
            R == Term(r, sy, x)
            fQ == [k \in 0..SYS_T |-> gf_mul(f, Q[k])]
<1>1. SYS_T \in Nat
  BY GoppaAssumption
<1>2. P \in [0..SYS_T -> Gf] /\ Q \in [0..SYS_T -> Gf]
  BY TermTyped
<1>3. ASSUME NEW k \in 0..SYS_T
      PROVE  R[k] = gf_add(P[k], fQ[k])
  <2>1. CASE k <= x
    <3>. DEFINE y == sy[x - k]
    <3>1. p[k] \in Gf /\ q[k] \in Gf /\ y \in Gf /\ gf_mul(f, q[k]) \in Gf
      BY <2>1, TermTyped, FieldTyped DEF Coeffs, gf_mul, Gf
    <3>2. /\ P[k] = gf_mul(p[k], y)
          /\ Q[k] = gf_mul(q[k], y)
          /\ R[k] = gf_mul(gf_add(p[k], gf_mul(f, q[k])), y)
      BY <2>1 DEF Term
    <3>. HIDE DEF y, P, Q, R
    <3>3. gf_mul(gf_add(p[k], gf_mul(f, q[k])), y)
            = gf_add(gf_mul(p[k], y), gf_mul(f, gf_mul(q[k], y)))
      BY ONLY <3>1, FieldLaws, f \in Gf
    <3>. QED
      BY <3>2, <3>3
  <2>2. CASE ~ (k <= x)
    <3>1. P[k] = Zero /\ Q[k] = Zero /\ R[k] = Zero
      BY <2>2 DEF Term
    <3>2. gf_mul(f, Zero) = Zero /\ gf_add(Zero, Zero) = Zero
      BY FieldLaws DEF gf_add, SymDiff, Zero
    <3>. QED
      BY <3>1, <3>2
  <2>. QED
    BY <2>1, <2>2
<1>4. R = [k \in 0..SYS_T |-> gf_add(P[k], fQ[k])]
  <2>1. R = [k \in 0..SYS_T |-> R[k]]
    BY DEF Term
  <2>. HIDE DEF P, fQ, R
  <2>. QED
    BY <1>3, <2>1
<1>. HIDE DEF P, Q, R
<1>5. SumOver(fQ, 0..SYS_T) = gf_mul(f, SumOver(Q, 0..SYS_T))
  BY <1>1, <1>2, SumScale
<1>. HIDE DEF fQ
<1>6. SumOver([k \in 0..SYS_T |-> gf_add(P[k], fQ[k])], 0..SYS_T)
        = gf_add(SumOver(P, 0..SYS_T), SumOver(fQ, 0..SYS_T))
  BY <1>1, SumAdd
<1>. QED
  BY <1>4, <1>5, <1>6 DEF At, P, Q, R

(* Multiplying by x moves the places by one, if no coefficient is lost. *)
LEMMA AtShift ==
  ASSUME NEW p \in Coeffs, p[SYS_T] = Zero, NEW sy \in Syndromes,
         NEW x \in Nat, x + 1 \in 0..(2 * SYS_T - 1)
  PROVE  At(Shift(p), sy, x + 1) = At(p, sy, x)
<1>. DEFINE L == Term(Shift(p), sy, x + 1)
            R == Term(p, sy, x)
<1>1. SYS_T \in Nat \ {0} /\ x \in 0..(2 * SYS_T - 1)
  BY GoppaAssumption
<1>2. L[0] = Zero /\ R[SYS_T] = Zero
  <2>1. sy[(x + 1) - 0] \in Gf
    BY <1>1 DEF Syndromes
  <2>2. SYS_T <= x => sy[x - SYS_T] \in Gf
    BY <1>1 DEF Syndromes
  <2>3. L[0] = gf_mul(Zero, sy[(x + 1) - 0])
    BY <1>1 DEF Term, Shift
  <2>4. R[SYS_T] = IF SYS_T <= x THEN gf_mul(Zero, sy[x - SYS_T]) ELSE Zero
    BY <1>1 DEF Term
  <2>. QED
    BY <2>1, <2>2, <2>3, <2>4, FieldLaws
<1>3. ASSUME NEW k \in 0..(SYS_T - 1)
      PROVE  L[k + 1] = R[k]
  <2>1. k + 1 \in 0..SYS_T /\ k + 1 # 0 /\ (k + 1) - 1 = k /\ k \in 0..SYS_T
        /\ (x + 1) - (k + 1) = x - k /\ (k + 1 <= x + 1 <=> k <= x)
    BY <1>1
  <2>2. Shift(p)[k + 1] = p[k]
    BY <2>1 DEF Shift
  <2>. QED
    BY <2>1, <2>2 DEF Term
<1>. HIDE DEF L, R
<1>4. ASSUME NEW b \in 0..(GFBITS - 1)
      PROVE  Odd({k \in 0..SYS_T : b \in R[k]}) <=> Odd({k \in 0..SYS_T : b \in L[k]})
  <2>. DEFINE S == {k \in 0..SYS_T : b \in R[k]}
              T == {k \in 0..SYS_T : b \in L[k]}
              f == [k \in S |-> k + 1]
  <2>1. \A k \in S : k \in 0..(SYS_T - 1) /\ k + 1 \in T
    BY <1>1, <1>2, <1>3 DEF Zero
  <2>2. \A k \in T : k - 1 \in S /\ (k - 1) + 1 = k
    <3>1. SUFFICES ASSUME NEW k \in T  PROVE k - 1 \in S /\ (k - 1) + 1 = k
      OBVIOUS
    <3>2. k # 0
      BY <1>2 DEF Zero
    <3>3. k - 1 \in 0..(SYS_T - 1) /\ (k - 1) + 1 = k /\ k - 1 \in 0..SYS_T
      BY <1>1, <3>2
    <3>4. L[k] = R[k - 1]
      BY <1>3, <3>3
    <3>. QED
      BY <3>3, <3>4
  <2>3. IsFiniteSet(S)
    <3>1. S \subseteq 0..SYS_T /\ IsFiniteSet(0..SYS_T)
      BY <1>1, FS_Interval
    <3>. QED
      BY ONLY <3>1, FS_Subset
  <2>4. \A i, j \in S : i + 1 = j + 1 => i = j
    BY <1>1
  <2>. HIDE DEF S, T
  <2>5. f \in Bijection(S, T)
    BY <2>1, <2>2, <2>4 DEF Bijection, Injection, Surjection, IsInjective
  <2>. HIDE DEF f
  <2>6. Odd(S) <=> Odd(T)
    BY <2>3, <2>5, OddBijection
  <2>. QED
    BY <2>6 DEF S, T
<1>. QED
  BY <1>4 DEF At, SumOver, L, R

(* A round, as the register and the other one see it. *)
LEMMA RoundIs ==
  ASSUME NEW st, st \in BmTypes, st.n < 2 * SYS_T, st.l <= st.n,
         NEW sy \in Syndromes
  PROVE  LET d == At(st.c, sy, st.n)
             f == gf_mul(Reciprocal[st.base], d)
             longer == d # Zero /\ 2 * st.l <= st.n
             new == BmRound(st, sy)
         IN  /\ d \in Gf /\ f \in Gf
             /\ st.base # Zero => gf_mul(f, st.base) = d
             /\ d = Zero => f = Zero
             /\ new.n = st.n + 1
             /\ new.l = IF longer THEN st.n + 1 - st.l ELSE st.l
             /\ new.c = [k \in 0..SYS_T |-> gf_add(st.c[k], gf_mul(f, st.b[k]))]
             /\ new.b = Shift(IF longer THEN st.c ELSE st.b)
             /\ new.base = IF longer THEN d ELSE st.base
<1>. DEFINE d == At(st.c, sy, st.n)
            f == gf_mul(Reciprocal[st.base], d)
            longer == d # Zero /\ 2 * st.l <= st.n
            new == BmRound(st, sy)
<1>1. /\ st.n \in 0..(2 * SYS_T - 1) /\ st.l \in 0..st.n
      /\ st.c \in Coeffs /\ st.b \in Coeffs /\ st.base \in Gf
  BY GoppaAssumption DEF BmTypes
<1>2. d \in Gf /\ d = Discrepancy(st, sy)
  BY <1>1, SumTyped, DiscrepancyIs DEF At
<1>. HIDE DEF d
<1>3. /\ Reciprocal[st.base] \in Gf /\ f \in Gf
      /\ f = Product[<<Reciprocal[st.base], d>>]
  BY <1>1, <1>2, FieldTyped
<1>4. (st.base # Zero => gf_mul(f, st.base) = d) /\ (d = Zero => f = Zero)
  BY <1>1, <1>2, <1>3, FieldLaws
<1>5. Mle(st, d) <=> longer
  BY <1>1, MaskIsComparison DEF Mle
<1>6. NewLength(st) = st.n + 1 - st.l
  BY <1>1, MaskIsComparison DEF NewLength
<1>. HIDE DEF f
<1>7. [k \in 0..SYS_T |-> gf_add(st.c[k], Product[<<f, st.b[k]>>])]
        = [k \in 0..SYS_T |-> gf_add(st.c[k], gf_mul(f, st.b[k]))]
  <2>1. ASSUME NEW k \in 0..SYS_T  PROVE Product[<<f, st.b[k]>>] = gf_mul(f, st.b[k])
    <3>1. st.b[k] \in Gf
      BY <1>1 DEF Coeffs
    <3>. QED
      BY <1>3, <3>1, FieldTyped
  <2>. QED
    BY <2>1
<1>8. /\ new.n = st.n + 1
      /\ new.l = IF longer THEN st.n + 1 - st.l ELSE st.l
      /\ new.c = [k \in 0..SYS_T |-> gf_add(st.c[k], gf_mul(f, st.b[k]))]
      /\ new.b = Shift(IF longer THEN st.c ELSE st.b)
      /\ new.base = IF longer THEN d ELSE st.base
  <2>. HIDE DEF longer
  <2>. QED
    BY <1>2, <1>3, <1>5, <1>6, <1>7 DEF BmRound
<1>. QED
  BY <1>2, <1>3, <1>4, <1>8 DEF d, f

LEMMA ShiftDegree ==
  ASSUME NEW p \in Coeffs, NEW m \in Nat, Degree(p, m)
  PROVE  Degree(Shift(p), m + 1)
<1>1. ASSUME NEW k \in 0..SYS_T, k > m + 1
      PROVE  Shift(p)[k] = Zero
  <2>1. k # 0 /\ k - 1 \in 0..SYS_T /\ k - 1 > m
    BY <1>1, GoppaAssumption
  <2>. QED
    BY <2>1 DEF Shift, Degree
<1>. QED
  BY <1>1 DEF Degree

(* Shifted once more, a register that fits explains the next place, too. *)
LEMMA ShiftExplains ==
  ASSUME NEW p \in Coeffs, NEW sy \in Syndromes, NEW m \in Nat, NEW n \in Nat,
         m < SYS_T, Degree(p, m), n + 1 < 2 * SYS_T, m <= n,
         NEW v, At(p, sy, n) = v,
         \A x \in m..(n - 1) : At(p, sy, x) = Zero
  PROVE  /\ \A x \in (m + 1)..n : At(Shift(p), sy, x) = Zero
         /\ At(Shift(p), sy, n + 1) = v
<1>1. SYS_T \in Nat /\ p[SYS_T] = Zero
  BY GoppaAssumption DEF Degree
<1>2. ASSUME NEW x \in m..n
      PROVE  At(Shift(p), sy, x + 1) = At(p, sy, x)
  <2>1. x \in Nat /\ x + 1 \in 0..(2 * SYS_T - 1)
    BY <1>1
  <2>. QED
    BY <1>1, <2>1, AtShift
<1>3. ASSUME NEW x \in (m + 1)..n
      PROVE  At(Shift(p), sy, x) = Zero
  <2>1. x - 1 \in m..n /\ x - 1 \in m..(n - 1) /\ (x - 1) + 1 = x
    OBVIOUS
  <2>2. At(Shift(p), sy, (x - 1) + 1) = At(p, sy, x - 1)
    BY <1>2, <2>1
  <2>. QED
    BY <2>1, <2>2
<1>. QED
  BY <1>2, <1>3

LEMMA RegisterStep ==
  ASSUME NEW st, st \in BmTypes, st.n < 2 * SYS_T, st.l <= st.n,
         NEW sy \in Syndromes, RegisterInv(st, sy)
  PROVE  RegisterInv(BmRound(st, sy), sy)
<1>. DEFINE n == st.n
            l == st.l
            d == At(st.c, sy, n)
            f == gf_mul(Reciprocal[st.base], d)
            longer == d # Zero /\ 2 * l <= n
            new == BmRound(st, sy)
            m == n + 1 - l
<1>0. /\ SYS_T \in Nat \ {0} /\ n \in Nat /\ l \in Nat /\ l <= n /\ n < 2 * SYS_T
      /\ m \in Nat /\ m > 0
      /\ st.c \in Coeffs /\ st.b \in Coeffs /\ st.base \in Gf
  BY GoppaAssumption DEF BmTypes
<1>1. /\ d \in Gf /\ f \in Gf
      /\ st.base # Zero => gf_mul(f, st.base) = d
      /\ d = Zero => f = Zero
      /\ new.n = n + 1
      /\ new.l = IF longer THEN m ELSE l
      /\ new.c = [k \in 0..SYS_T |-> gf_add(st.c[k], gf_mul(f, st.b[k]))]
      /\ new.b = Shift(IF longer THEN st.c ELSE st.b)
      /\ new.base = IF longer THEN d ELSE st.base
  BY RoundIs
<1>. HIDE DEF d, f, new
<1>. SUFFICES ASSUME new.l <= SYS_T
              PROVE  /\ Degree(new.c, new.l)
                     /\ \A x \in new.l..(new.n - 1) : At(new.c, sy, x) = Zero
                     /\ new.base # Zero
                     /\ OtherRegister(new, sy)
  BY DEF RegisterInv, new
<1>2. l <= SYS_T /\ (longer => m <= SYS_T /\ l < m)
  BY <1>0, <1>1
<1>3. /\ Degree(st.c, l)
      /\ \A x \in l..(n - 1) : At(st.c, sy, x) = Zero
      /\ st.base # Zero
      /\ OtherRegister(st, sy)
  BY <1>2 DEF RegisterInv
<1>4. m <= SYS_T =>
        /\ Degree(st.b, m)
        /\ l > 0 => /\ \A x \in m..(n - 1) : At(st.b, sy, x) = Zero
                   /\ At(st.b, sy, n) = st.base
  BY <1>0, <1>3 DEF OtherRegister
<1>5. ASSUME NEW x \in 0..n
      PROVE  At(new.c, sy, x) = gf_add(At(st.c, sy, x), gf_mul(f, At(st.b, sy, x)))
  <2>. DEFINE p == st.c
              q == st.b
              r == [k \in 0..SYS_T |-> gf_add(p[k], gf_mul(f, q[k]))]
  <2>1. x \in 0..(2 * SYS_T - 1) /\ p \in Coeffs /\ q \in Coeffs /\ new.c = r
    BY <1>0, <1>1
  <2>2. At(r, sy, x) = gf_add(At(p, sy, x), gf_mul(f, At(q, sy, x)))
    <3>. HIDE DEF p, q
    <3>. QED
      BY <1>1, <2>1, AtSum
  <2>. QED
    BY <2>1, <2>2
<1>6. /\ gf_add(Zero, Zero) = Zero /\ gf_mul(f, Zero) = Zero
      /\ gf_add(d, d) = Zero
      /\ \A y : gf_add(y, Zero) = y
      /\ \A y \in Gf : gf_mul(Zero, y) = Zero
  BY <1>1, FieldLaws DEF gf_add, SymDiff, Zero
<1>7. ASSUME NEW i \in Nat, Degree(st.c, i), f = Zero \/ Degree(st.b, i)
      PROVE  Degree(new.c, i)
  <2>1. ASSUME NEW k \in 0..SYS_T, k > i
        PROVE  new.c[k] = Zero
    <3>1. st.c[k] = Zero /\ st.b[k] \in Gf
      BY <1>0, <1>7, <2>1 DEF Degree, Coeffs
    <3>2. gf_mul(f, st.b[k]) = Zero
      BY <1>6, <1>7, <2>1, <3>1 DEF Degree
    <3>3. new.c[k] = gf_add(st.c[k], gf_mul(f, st.b[k]))
      BY <1>1
    <3>. QED
      BY <1>6, <3>1, <3>2, <3>3
  <2>. QED
    BY <2>1 DEF Degree
<1>9. ~ longer => OtherRegister(new, sy)
  <2>. SUFFICES ASSUME ~ longer  PROVE OtherRegister(new, sy)
    OBVIOUS
  <2>1. new.l = l /\ new.n + 1 - new.l = m + 1 /\ new.n = n + 1
        /\ new.b = Shift(st.b) /\ new.base = st.base
    BY <1>0, <1>1
  <2>2. SUFFICES ASSUME m + 1 <= SYS_T
                 PROVE  /\ Degree(Shift(st.b), m + 1)
                        /\ l > 0 /\ n + 1 < 2 * SYS_T =>
                             /\ \A x \in (m + 1)..n : At(Shift(st.b), sy, x) = Zero
                             /\ At(Shift(st.b), sy, n + 1) = st.base
    BY <1>0, <2>1 DEF OtherRegister
  <2>. DEFINE p == st.b
  <2>3. /\ p \in Coeffs /\ Degree(p, m) /\ m < SYS_T
        /\ l > 0 => /\ \A x \in m..(n - 1) : At(p, sy, x) = Zero
                   /\ At(p, sy, n) = st.base
                   /\ m <= n
    BY <1>0, <1>4, <2>2
  <2>. HIDE DEF p
  <2>4. Degree(Shift(p), m + 1)
    BY <1>0, <2>3, ShiftDegree
  <2>5. ASSUME l > 0, n + 1 < 2 * SYS_T
        PROVE  /\ \A x \in (m + 1)..n : At(Shift(p), sy, x) = Zero
               /\ At(Shift(p), sy, n + 1) = st.base
    <3>1. /\ m \in Nat /\ n \in Nat /\ m < SYS_T /\ m <= n
          /\ At(p, sy, n) = st.base
          /\ \A x \in m..(n - 1) : At(p, sy, x) = Zero
      BY <1>0, <2>3, <2>5
    <3>. HIDE DEF m, n
    <3>. QED
      BY <2>3, <2>5, <3>1, ShiftExplains
  <2>. QED
    BY <2>4, <2>5 DEF p
<1>10. CASE d = Zero
  <2>1. ~ longer /\ f = Zero /\ new.l = l /\ new.base = st.base
    BY <1>1, <1>10
  <2>2. Degree(new.c, l)
    BY <1>0, <1>3, <1>7, <2>1
  <2>3. ASSUME NEW x \in l..n
        PROVE  At(new.c, sy, x) = Zero
    <3>1. At(st.c, sy, x) = Zero
      BY <1>0, <1>3, <1>10 DEF d
    <3>2. At(st.b, sy, x) \in Gf
      BY SumTyped DEF At
    <3>3. x \in 0..n
      BY <1>0
    <3>. QED
      BY <1>5, <1>6, <2>1, <3>1, <3>2, <3>3
  <2>4. OtherRegister(new, sy)
    BY <1>9, <2>1
  <2>. QED
    BY <1>0, <1>1, <1>3, <2>1, <2>2, <2>3, <2>4
<1>11. CASE d # Zero /\ ~ longer
  <2>1. new.l = l /\ new.base = st.base /\ m <= l /\ l > 0
    BY <1>0, <1>1, <1>11
  <2>2. /\ Degree(st.b, m) /\ At(st.b, sy, n) = st.base
        /\ \A x \in m..(n - 1) : At(st.b, sy, x) = Zero
    BY <1>0, <1>2, <1>4, <2>1
  <2>3. Degree(new.c, l)
    <3>1. Degree(st.b, l)
      BY <1>0, <2>1, <2>2 DEF Degree
    <3>. QED
      BY <1>0, <1>3, <1>7, <3>1
  <2>4. ASSUME NEW x \in l..(n - 1)
        PROVE  At(new.c, sy, x) = Zero
    <3>1. x \in 0..n /\ x \in m..(n - 1)
      BY <1>0, <2>1
    <3>2. At(st.c, sy, x) = Zero /\ At(st.b, sy, x) = Zero
      BY <1>3, <2>2, <3>1
    <3>. QED
      BY <1>5, <1>6, <3>1, <3>2
  <2>5. At(new.c, sy, n) = Zero
    BY <1>0, <1>1, <1>3, <1>5, <1>6, <2>2 DEF d
  <2>6. ASSUME NEW x \in l..n
        PROVE  At(new.c, sy, x) = Zero
    <3>1. x = n \/ x \in l..(n - 1)
      BY <1>0
    <3>. QED
      BY <2>4, <2>5, <3>1
  <2>7. OtherRegister(new, sy)
    BY <1>9, <1>11
  <2>. QED
    BY <1>0, <1>1, <1>3, <2>1, <2>3, <2>6, <2>7
<1>12. CASE longer
  <2>1. /\ new.l = m /\ new.base = d /\ d # Zero /\ new.b = Shift(st.c)
        /\ l < m /\ m <= SYS_T
    BY <1>1, <1>2, <1>12
  <2>2. Degree(new.c, m)
    <3>1. Degree(st.c, m)
      BY <1>0, <1>3, <2>1 DEF Degree
    <3>. QED
      BY <1>0, <1>4, <1>7, <2>1, <3>1
  <2>3. ASSUME NEW x \in m..n
        PROVE  At(new.c, sy, x) = Zero
    <3>1. l > 0 /\ x \in 0..n
      BY <1>0
    <3>2. CASE x = n
      BY <1>1, <1>3, <1>4, <1>5, <1>6, <2>1, <3>1, <3>2 DEF d
    <3>3. CASE x # n
      <4>1. x \in m..(n - 1) /\ x \in l..(n - 1)
        BY <1>0, <2>1, <3>3
      <4>2. At(st.c, sy, x) = Zero /\ At(st.b, sy, x) = Zero
        BY <1>3, <1>4, <2>1, <3>1, <4>1
      <4>. QED
        BY <1>5, <1>6, <3>1, <4>2
    <3>. QED
      BY <3>2, <3>3
  <2>4. OtherRegister(new, sy)
    <3>1. new.n + 1 - new.l = l + 1 /\ new.n = n + 1
      BY <1>0, <1>1, <2>1
    <3>2. SUFFICES ASSUME l + 1 <= SYS_T
                   PROVE  /\ Degree(Shift(st.c), l + 1)
                          /\ n + 1 < 2 * SYS_T =>
                               /\ \A x \in (l + 1)..n : At(Shift(st.c), sy, x) = Zero
                               /\ At(Shift(st.c), sy, n + 1) = d
      BY <1>0, <2>1, <3>1 DEF OtherRegister
    <3>. DEFINE p == st.c
    <3>3. /\ p \in Coeffs /\ Degree(p, l) /\ At(p, sy, n) = d
          /\ \A x \in l..(n - 1) : At(p, sy, x) = Zero
      BY <1>0, <1>3 DEF d
    <3>. HIDE DEF p
    <3>4. Degree(Shift(p), l + 1)
      BY <1>0, <3>3, ShiftDegree
    <3>5. n + 1 < 2 * SYS_T =>
            /\ \A x \in (l + 1)..n : At(Shift(p), sy, x) = Zero
            /\ At(Shift(p), sy, n + 1) = d
      <4>1. SUFFICES ASSUME n + 1 < 2 * SYS_T
                     PROVE  /\ \A x \in (l + 1)..n : At(Shift(p), sy, x) = Zero
                            /\ At(Shift(p), sy, n + 1) = d
        OBVIOUS
      <4>2. n \in Nat /\ l \in Nat /\ l < SYS_T /\ l <= n
        BY <1>0, <3>2
      <4>. HIDE DEF d, n, l
      <4>. QED
        BY <1>0, <3>3, <4>1, <4>2, ShiftExplains
    <3>. QED
      BY <3>4, <3>5 DEF p
  <2>. QED
    BY <1>0, <1>1, <2>1, <2>2, <2>3, <2>4
<1>. QED
  BY <1>10, <1>11, <1>12

(* Before the first round, whatever the syndrome. *)
LEMMA RegisterStart ==
  ASSUME NEW sy  PROVE RegisterInv(BmStart, sy)
<1>1. SYS_T \in Nat /\ 0 + 1 - 0 = 1
  BY GoppaAssumption
<1>2. One # Zero
  BY DEF One, Zero
<1>3. \A m \in Nat : Degree(Coefficient(m), m)
  BY <1>1 DEF Degree, Coefficient
<1>4. OtherRegister(BmStart, sy)
  BY <1>1, <1>3 DEF OtherRegister, BmStart
<1>. QED
  BY <1>1, <1>2, <1>3, <1>4 DEF RegisterInv, BmStart

(* The inductive invariant: bm is started once, on the syndrome s. *)
BmInv ==
  /\ pc = "synd" => bm = BmStart
  /\ RegisterInv(bm, s)

LEMMA BmInvInitial == Init => BmInv
BY RegisterStart DEF Init, BmInv

LEMMA BmInvStep == TypeOK /\ LengthInv /\ BmInv /\ [Next]_vars => BmInv'
<1>. SUFFICES ASSUME TypeOK, LengthInv, BmInv, [Next]_vars
              PROVE  BmInv'
  OBVIOUS
<1>1. CASE Synd
  <2>1. pc' = "bm" /\ bm' = BmStart
    BY <1>1 DEF Synd, Goto, BmInv
  <2>. QED
    BY <2>1, RegisterStart DEF BmInv
<1>2. CASE Round
  <2>1. /\ bm \in BmTypes /\ bm.n < 2 * SYS_T /\ bm.l <= bm.n
        /\ s \in Syndromes /\ RegisterInv(bm, s)
    BY <1>2 DEF Round, TypeOK, BmTypes, LengthInv, BmInv
  <2>2. RegisterInv(BmRound(bm, s), s)
    BY <2>1, RegisterStep
  <2>3. bm' = BmRound(bm, s) /\ s' = s /\ pc' = "bm"
    BY <1>2 DEF Round
  <2>. QED
    BY <2>2, <2>3 DEF BmInv
<1>3. CASE Roots \/ Check \/ Returned \/ UNCHANGED vars
  <2>1. s' = s /\ bm' = bm /\ (pc' = "synd" => pc = "synd")
    BY <1>3 DEF Roots, Check, Returned, Goto, vars
  <2>. QED
    BY <2>1 DEF BmInv
<1>. QED
  BY <1>1, <1>2, <1>3 DEF Next

LEMMA RegisterExplains ==
  TypeOK /\ LengthInv /\ BmInv => RegisterGeneratesPrefix
<1>. SUFFICES ASSUME TypeOK, LengthInv, BmInv, bm.l <= SYS_T,
                     NEW x \in bm.l..(bm.n - 1)
              PROVE  Convolution(bm.c, s, x, bm.l) = Zero
  BY DEF RegisterGeneratesPrefix
<1>1. /\ bm.c \in Coeffs /\ s \in Syndromes
      /\ bm.l \in 0..SYS_T /\ bm.l <= x /\ x \in 0..(2 * SYS_T - 1)
  BY GoppaAssumption DEF TypeOK, LengthInv
<1>2. Degree(bm.c, bm.l) /\ At(bm.c, s, x) = Zero
  BY DEF BmInv, RegisterInv
<1>. DEFINE p == bm.c
            l == bm.l
<1>3. \A k \in 0..SYS_T : k > l /\ k <= x => p[k] = Zero
  BY <1>2 DEF Degree
<1>. HIDE DEF p, l
<1>4. Convolution(p, s, x, l) = At(p, s, x)
  BY <1>1, <1>3, ConvolutionIs DEF p, l
<1>. QED
  BY <1>2, <1>4 DEF p, l

(***************************************************************************)
(* After every round the register that bm holds generates the syndrome     *)
(* seen so far, for every SYS_T, every syndrome and every field: the       *)
(* loop of bm.rs, with its masks and its fixed number of coefficients,     *)
(* keeps what Massey's algorithm promises.                                 *)
(***************************************************************************)
THEOREM RegisterExplainsPrefix == Spec => []RegisterGeneratesPrefix
BY InitTyped, StepTyped, LengthInitial, LengthStep, BmInvInitial, BmInvStep,
   RegisterExplains, PTL DEF Spec

-------------------------------------------------------------------------------
(***************************************************************************)
(* What decrypt accepts.  synd works with the columns a^n / g(a)^2, n up   *)
(* to 2 * SYS_T - 1, and pk_gen with a^n / g(a), n up to SYS_T - 1: those  *)
(* are combinations of these, with the coefficients of g (Columns).  So    *)
(* two words with the same syndrome in synd's sense have the same syndrome *)
(* under the matrix that the public key is made from (SameSyndrome).       *)
(***************************************************************************)

(* The powers of y, times x: what Powers and e_inv of synd are.            *)
IsPowers(f, x, y, m) ==
  f = [n \in 0..m |-> IF n = 0 THEN x ELSE Product[<<f[n - 1], y>>]]

(* There is such a function. *)
LEMMA PowersExist ==
  ASSUME NEW x \in Gf, NEW y \in Gf, NEW m \in Nat
  PROVE  \E f : IsPowers(f, x, y, m)
<1>. DEFINE F == [a \in Gf |-> Product[<<a, y>>]]
<1>1. F \in [Gf -> Gf] /\ \A a \in Gf : F[a] = Product[<<a, y>>] /\ F[a] = gf_mul(a, y)
  BY FieldTyped
<1>. HIDE DEF F
<1>2. PICK f \in [0..m -> Gf] : Iterates(f, F, x, m)
  BY <1>1, IteratesExist
<1>3. ASSUME NEW n \in 0..m
      PROVE  f[n] = IF n = 0 THEN x ELSE Product[<<f[n - 1], y>>]
  <2>1. f[n] = IF n = 0 THEN x ELSE F[f[n - 1]]
    BY <1>2 DEF Iterates
  <2>2. n # 0 => f[n - 1] \in Gf
    BY <1>2
  <2>. QED
    BY <1>1, <2>1, <2>2
<1>4. f = [n \in 0..m |-> f[n]]
  BY <1>2
<1>. QED
  BY <1>3, <1>4 DEF IsPowers

(* And these are its values. *)
LEMMA PowersAre ==
  ASSUME NEW x \in Gf, NEW y \in Gf, NEW m \in Nat, NEW f, IsPowers(f, x, y, m)
  PROVE  /\ f \in [0..m -> Gf]
         /\ f[0] = x
         /\ \A n \in 1..m : f[n] = gf_mul(f[n - 1], y)
<1>1.  f \in [0..m -> Gf]
  <2>. DEFINE T == {n \in 0..m : f[n] \notin Gf}
  <2>1. SUFFICES ASSUME T # {}  PROVE FALSE
    <3>1. f = [n \in 0..m |-> f[n]]
      BY DEF IsPowers
    <3>. QED
      BY <3>1
  <2>2. PICK n \in T : \A q \in T : n <= q
    <3>1. T \in SUBSET Nat
      OBVIOUS
    <3>. HIDE DEF T
    <3>. QED
      BY <2>1, <3>1, MinOfNaturals
  <2>3. f[n] = IF n = 0 THEN x ELSE Product[<<f[n - 1], y>>]
    BY DEF IsPowers
  <2>4. n # 0 /\ n - 1 \in 0..m
    BY <2>3
  <2>5. f[n - 1] \in Gf
    BY <2>2, <2>4
  <2>. QED
    BY <2>3, <2>4, <2>5, FieldTyped
<1>2.  f[0] = x /\ \A n \in 1..m : f[n] = gf_mul(f[n - 1], y)
  <2>1. f[0] = x /\ \A n \in 1..m : f[n] = Product[<<f[n - 1], y>>]
    BY DEF IsPowers
  <2>2. f \in [0..m -> Gf]
    BY <1>1
  <2>3. \A n \in 1..m : f[n - 1] \in Gf
    BY <2>2
  <2>. QED
    BY <2>1, <2>3, FieldTyped
<1>. QED
  BY <1>1, <1>2

(***************************************************************************)
(* Horner's rule: the r of eval, from the last coefficient to the first.   *)
(***************************************************************************)
IsHorner(r, f, a) ==
  r = [n \in 0..SYS_T |->
         IF n = SYS_T THEN f[SYS_T] ELSE gf_add(Product[<<r[n + 1], a>>], f[n])]

(* It exists, counting down with pairs of an index and a value. *)
LEMMA HornerExists ==
  ASSUME NEW f \in Coeffs, NEW a \in Gf
  PROVE  /\ \E r : IsHorner(r, f, a)
         /\ \A r : IsHorner(r, f, a) =>
              /\ r \in [0..SYS_T -> Gf]
              /\ r[SYS_T] = f[SYS_T]
              /\ \A n \in 0..(SYS_T - 1) : r[n] = gf_add(gf_mul(r[n + 1], a), f[n])
<1>0. SYS_T \in Nat /\ SYS_T # 0 /\ f \in [0..SYS_T -> Gf]
  BY GoppaAssumption DEF Coeffs
<1>. DEFINE S == (0..SYS_T) \X Gf
            Down(n) == IF n = 0 THEN 0 ELSE n - 1
            F == [p \in S |-> <<Down(p[1]), gf_add(Product[<<p[2], a>>], f[Down(p[1])])>>]
            x == <<SYS_T, f[SYS_T]>>
<1>1. F \in [S -> S] /\ x \in S
  <2>1. ASSUME NEW n \in 0..SYS_T, NEW b \in Gf
        PROVE  Down(n) \in 0..SYS_T /\ gf_add(Product[<<b, a>>], f[Down(n)]) \in Gf
    <3>1. Down(n) \in 0..SYS_T
      BY <1>0
    <3>. HIDE DEF Down
    <3>2. f[Down(n)] \in Gf
      BY <1>0, <3>1
    <3>. QED
      BY <3>1, <3>2, FieldTyped
  <2>2. x \in S
    BY <1>0
  <2>. HIDE DEF Down
  <2>. QED
    BY <2>1, <2>2
<1>2. \E r : IsHorner(r, f, a)
  <2>1. PICK h \in [0..SYS_T -> S] : Iterates(h, F, x, SYS_T)
    <3>. HIDE DEF S, F, x
    <3>. QED
      BY <1>0, <1>1, IteratesExist
  <2>2. h[0] = x /\ \A n \in 1..SYS_T : h[n] = F[h[n - 1]]
    <3>. HIDE DEF S, F, x
    <3>. QED
      BY <1>0, <2>1 DEF Iterates
  <2>3. \A n \in 0..SYS_T : h[n] \in S /\ h[n] = <<h[n][1], h[n][2]>>
    BY <2>1
  <2>4. \A n \in 0..SYS_T : h[n][1] = SYS_T - n
    <3>. DEFINE T == {n \in 0..SYS_T : h[n][1] # SYS_T - n}
    <3>1. SUFFICES ASSUME T # {}  PROVE FALSE
      OBVIOUS
    <3>2. PICK n \in T : \A q \in T : n <= q
      <4>1. T \in SUBSET Nat
        OBVIOUS
      <4>. HIDE DEF T
      <4>. QED
        BY <3>1, <4>1, MinOfNaturals
    <3>3. n # 0
      BY <1>0, <2>2, <3>2
    <3>4. n - 1 \in 0..SYS_T /\ h[n - 1][1] = SYS_T - (n - 1) /\ n \in 1..SYS_T
      BY <1>0, <3>2, <3>3
    <3>5. h[n] = F[h[n - 1]] /\ h[n - 1] \in S
      BY <2>2, <2>3, <3>4
    <3>6. h[n][1] = Down(h[n - 1][1])
      BY <3>5
    <3>. QED
      BY <1>0, <3>2, <3>4, <3>6
  <2>. DEFINE r == [n \in 0..SYS_T |-> h[SYS_T - n][2]]
  <2>5. r[SYS_T] = f[SYS_T]
    BY <1>0, <2>2
  <2>6. ASSUME NEW n \in 0..SYS_T, n # SYS_T
        PROVE  r[n] = gf_add(Product[<<r[n + 1], a>>], f[n])
    <3>. DEFINE q == SYS_T - n
                p == h[q - 1]
    <3>1. q \in 1..SYS_T /\ q - 1 \in 0..SYS_T /\ n + 1 \in 0..SYS_T
          /\ SYS_T - (n + 1) = q - 1
      BY <1>0, <2>6
    <3>2. h[q] = F[p] /\ p \in S /\ p[1] = SYS_T - (q - 1)
      BY <2>2, <2>3, <2>4, <3>1
    <3>3. Down(p[1]) = n
      BY <1>0, <3>1, <3>2
    <3>4. r[n] = h[q][2] /\ r[n + 1] = p[2]
      BY <3>1
    <3>5. F[p] = <<Down(p[1]), gf_add(Product[<<p[2], a>>], f[Down(p[1])])>>
      BY <3>2
    <3>. HIDE DEF F, Down, S, r, p, q
    <3>. QED
      BY <3>2, <3>3, <3>4, <3>5
  <2>7. r = [n \in 0..SYS_T |-> r[n]]
    OBVIOUS
  <2>. HIDE DEF r
  <2>8. IsHorner(r, f, a)
    BY <2>5, <2>6, <2>7 DEF IsHorner
  <2>. QED
    BY <2>8
<1>3. ASSUME NEW r, IsHorner(r, f, a)
      PROVE  /\ r[SYS_T] = f[SYS_T]
             /\ \A n \in 0..(SYS_T - 1) : r[n] = gf_add(Product[<<r[n + 1], a>>], f[n])
             /\ r = [n \in 0..SYS_T |-> r[n]]
  BY <1>0, <1>3 DEF IsHorner
<1>4. ASSUME NEW r, IsHorner(r, f, a)
      PROVE  r \in [0..SYS_T -> Gf]
  <2>. DEFINE T == {n \in 0..SYS_T : r[SYS_T - n] \notin Gf}
  <2>1. T = {}
    <3>1. SUFFICES ASSUME T # {}  PROVE FALSE
      OBVIOUS
    <3>2. PICK n \in T : \A q \in T : n <= q
      <4>1. T \in SUBSET Nat
        OBVIOUS
      <4>. HIDE DEF T
      <4>. QED
        BY <3>1, <4>1, MinOfNaturals
    <3>3. n # 0
      BY <1>0, <1>3, <1>4, <3>2
    <3>4. n - 1 \in 0..SYS_T /\ n - 1 \notin T /\ SYS_T - n \in 0..(SYS_T - 1)
          /\ (SYS_T - n) + 1 = SYS_T - (n - 1) /\ SYS_T - n \in 0..SYS_T
      BY <1>0, <3>2, <3>3
    <3>5. r[(SYS_T - n) + 1] \in Gf /\ f[SYS_T - n] \in Gf
      BY <1>0, <3>4
    <3>6. r[SYS_T - n] = gf_add(Product[<<r[(SYS_T - n) + 1], a>>], f[SYS_T - n])
      BY <1>3, <1>4, <3>4
    <3>. QED
      BY <3>2, <3>5, <3>6, FieldTyped
  <2>2. ASSUME NEW n \in 0..SYS_T  PROVE r[n] \in Gf
    <3>1. SYS_T - n \in 0..SYS_T /\ SYS_T - (SYS_T - n) = n
      BY <1>0
    <3>. QED
      BY <2>1, <3>1
  <2>. QED
    BY <1>3, <1>4, <2>2
<1>5. ASSUME NEW r, IsHorner(r, f, a), NEW n \in 0..(SYS_T - 1)
      PROVE  r[n] = gf_add(gf_mul(r[n + 1], a), f[n])
  <2>1. n + 1 \in 0..SYS_T
    BY <1>0
  <2>2. r[n + 1] \in Gf
    BY <1>4, <1>5, <2>1
  <2>3. r[n] = gf_add(Product[<<r[n + 1], a>>], f[n])
    BY <1>3, <1>5
  <2>4. Product[<<r[n + 1], a>>] = gf_mul(r[n + 1], a)
    BY <2>2, FieldTyped
  <2>. QED
    BY <2>3, <2>4
<1>. QED
  BY <1>2, <1>3, <1>4, <1>5

(* eval returns the last of them. *)
LEMMA EvalIs ==
  ASSUME NEW f \in Coeffs, NEW a \in Gf
  PROVE  /\ eval(f, a) \in Gf
         /\ \E r : IsHorner(r, f, a) /\ eval(f, a) = r[0]
<1>1. \E r : IsHorner(r, f, a)
  BY HornerExists
<1>2. PICK r : r = CHOOSE u : IsHorner(u, f, a)
  OBVIOUS
<1>3. IsHorner(r, f, a)
  BY <1>1, <1>2
<1>4. eval(f, a) = r[0]
  BY <1>2 DEF eval, IsHorner
<1>5. r \in [0..SYS_T -> Gf] /\ 0 \in 0..SYS_T
  BY <1>3, HornerExists, GoppaAssumption
<1>. QED
  BY <1>3, <1>4, <1>5

(* 1/x^2 times x is 1/x, for 0 too. *)
LEMMA ReciprocalOfSquare ==
  ASSUME NEW x \in Gf
  PROVE  /\ Square(x) \in Gf
         /\ gf_mul(x, Reciprocal[Square(x)]) = Reciprocal[x]
<1>. DEFINE q == gf_mul(x, x)
            R == Reciprocal[x]
            Q == Reciprocal[q]
            u == gf_mul(x, Q)
<1>1. Square(x) = q /\ q \in Gf /\ R \in Gf /\ Q \in Gf /\ u \in Gf /\ One \in Gf
  <2>1. \A a \in Gf : gf_mul(x, a) \in Gf
    BY FieldTyped
  <2>2. Square(x) = q
    BY FieldTyped DEF Square
  <2>. QED
    BY <2>1, <2>2, FieldTyped
<1>2. CASE x = Zero
  <2>1. q = Zero /\ u = Zero /\ R = Zero
    BY <1>1, <1>2, FieldLaws, FieldAssumption
  <2>. QED
    BY <1>1, <2>1
<1>3. CASE x # Zero
  <2>1. gf_mul(R, x) = One /\ gf_mul(x, R) = One
    <3>1. gf_mul(gf_mul(R, One), x) = One
      BY <1>1, <1>3, FieldLaws
    <3>2. gf_mul(R, One) = R
      BY <1>1, MulCommutes, MulOne
    <3>. QED
      BY <1>1, <3>1, <3>2, MulCommutes
  <2>2. q # Zero
    <3>1. SUFFICES ASSUME q = Zero  PROVE FALSE
      OBVIOUS
    <3>2. gf_mul(R, q) = gf_mul(gf_mul(R, x), x)
      BY <1>1, FieldLaws
    <3>3. gf_mul(One, x) = x /\ gf_mul(R, Zero) = Zero
      BY <1>1, MulOne, FieldLaws
    <3>. QED
      BY <1>3, <2>1, <3>1, <3>2, <3>3
  <2>3. gf_mul(q, Q) = One
    <3>1. gf_mul(gf_mul(Q, One), q) = One
      BY <1>1, <2>2, FieldLaws
    <3>2. gf_mul(Q, One) = Q
      BY <1>1, MulCommutes, MulOne
    <3>. QED
      BY <1>1, <3>1, <3>2, MulCommutes
  <2>. HIDE DEF R, Q
  <2>4. gf_mul(x, u) = One
    <3>1. gf_mul(gf_mul(x, x), Q) = gf_mul(x, gf_mul(x, Q))
      BY <1>1, FieldLaws
    <3>. QED
      BY <2>3, <3>1
  <2>5. gf_mul(R, gf_mul(x, u)) = u
    <3>1. gf_mul(gf_mul(R, x), u) = gf_mul(R, gf_mul(x, u))
      BY <1>1, FieldLaws
    <3>2. gf_mul(One, u) = u
      BY <1>1, MulOne
    <3>. QED
      BY <2>1, <3>1, <3>2
  <2>6. gf_mul(R, One) = R
    BY <1>1, MulCommutes, MulOne
  <2>7. u = R
    BY <2>4, <2>5, <2>6
  <2>. HIDE DEF q, u
  <2>. QED
    BY <1>1, <2>7 DEF u, Q, R
<1>. QED
  BY <1>2, <1>3

(* gf_mul stays within the words. *)
LEMMA MulTyped == \A a, b \in Gf : gf_mul(a, b) \in Gf
BY DEF gf_mul, Gf

(* XOR, as addition. *)
LEMMA AddLaws ==
  /\ \A a : gf_add(a, a) = Zero
  /\ \A a \in Gf : gf_add(a, Zero) = a /\ gf_add(Zero, a) = a
  /\ \A a, b : gf_add(a, b) = gf_add(b, a)
  /\ \A a \in Gf : \A b \in Gf : gf_add(a, b) = Zero => a = b
BY DEF gf_add, SymDiff, Zero

(* Horner's rule computes the sum that it is the rule for. *)
LEMMA HornerSum ==
  ASSUME NEW g \in Coeffs, NEW a \in Gf, NEW z \in [0..SYS_T -> Gf],
         \A k \in 0..(SYS_T - 1) : z[k + 1] = gf_mul(z[k], a)
  PROVE  SumOver([k \in 0..SYS_T |-> gf_mul(g[k], z[k])], 0..SYS_T)
           = gf_mul(eval(g, a), z[0])
<1>0. SYS_T \in Nat /\ SYS_T # 0 /\ g \in [0..SYS_T -> Gf]
  BY GoppaAssumption DEF Coeffs
<1>1. PICK r : IsHorner(r, g, a) /\ eval(g, a) = r[0]
  BY EvalIs
<1>2. /\ r \in [0..SYS_T -> Gf]
      /\ r[SYS_T] = g[SYS_T]
      /\ \A k \in 0..(SYS_T - 1) : r[k] = gf_add(gf_mul(r[k + 1], a), g[k])
  BY <1>1, HornerExists
(* Horner's value after the coefficients from k on. *)
<1>. DEFINE f == [k \in 0..SYS_T |-> gf_mul(g[k], z[k])]
            Same(k) == SumOver(f, k..SYS_T) = gf_mul(r[k], z[k])
            P == {k \in 0..SYS_T : Same(k)}
<1>3. \A k \in 0..SYS_T : f[k] = gf_mul(g[k], z[k]) /\ f[k] \in Gf
  BY FieldTyped, <1>0
<1>. HIDE DEF f
<1>4. Same(SYS_T)
  <2>1. SYS_T..SYS_T = {} \cup {SYS_T} /\ SYS_T \notin {} /\ IsFiniteSet({})
    BY <1>0, FS_EmptySet
  <2>2. f[SYS_T] \in Gf /\ f[SYS_T] = gf_mul(r[SYS_T], z[SYS_T])
    BY <1>0, <1>2, <1>3
  <2>3. SumOver(f, SYS_T..SYS_T) = gf_add(SumOver(f, {}), f[SYS_T])
    BY ONLY <2>1, <2>2, SumStep
  <2>. QED
    BY <2>2, <2>3, SumNone, AddLaws
<1>5. ASSUME NEW j \in 0..(SYS_T - 1), j + 1 \in P  PROVE j \in P
  <2>1. j \in 0..SYS_T /\ j + 1 \in 0..SYS_T
    BY <1>0
  <2>2. SumOver(f, (j + 1)..SYS_T) = gf_mul(r[j + 1], z[j + 1])
    BY <1>5
  <2>3. j..SYS_T = ((j + 1)..SYS_T) \cup {j} /\ j \notin (j + 1)..SYS_T
        /\ IsFiniteSet((j + 1)..SYS_T)
    <3>1. j \in Int /\ j <= SYS_T
      BY <1>0, <2>1
    <3>2. j..SYS_T = ((j + 1)..SYS_T) \cup {j}
      BY <1>0, <3>1
    <3>3. j \notin (j + 1)..SYS_T
      BY <1>0, <3>1
    <3>4. IsFiniteSet((j + 1)..SYS_T)
      <4>1. j + 1 \in Int /\ SYS_T \in Int
        BY <1>0, <3>1
      <4>. QED
        BY <4>1, FS_Interval
    <3>. QED
      BY <3>2, <3>3, <3>4
  <2>4. SumOver(f, j..SYS_T) = gf_add(SumOver(f, (j + 1)..SYS_T), f[j])
    <3>1. f[j] \in Gf
      BY <1>3, <2>1
    <3>. QED
      BY ONLY <2>3, <3>1, SumStep
  <2>5. /\ r[j + 1] \in Gf /\ z[j] \in Gf /\ g[j] \in Gf
        /\ r[j] = gf_add(gf_mul(r[j + 1], a), g[j])
        /\ z[j + 1] = gf_mul(z[j], a)
        /\ gf_mul(r[j + 1], a) \in Gf /\ f[j] = gf_mul(g[j], z[j])
    <3>1. r[j + 1] \in Gf /\ z[j] \in Gf /\ g[j] \in Gf
      BY <1>0, <1>2, <2>1
    <3>2. gf_mul(r[j + 1], a) \in Gf
      BY <3>1, FieldTyped
    <3>. QED
      BY <1>2, <1>3, <2>1, <3>1, <3>2
  <2>6. gf_mul(r[j], z[j])
           = gf_add(gf_mul(gf_mul(r[j + 1], a), z[j]), gf_mul(g[j], z[j]))
    BY <2>5, FieldLaws
  <2>7. gf_mul(gf_mul(r[j + 1], a), z[j]) = gf_mul(r[j + 1], z[j + 1])
    <3>1. gf_mul(gf_mul(r[j + 1], a), z[j]) = gf_mul(r[j + 1], gf_mul(a, z[j]))
      BY <2>5, FieldLaws
    <3>2. gf_mul(a, z[j]) = gf_mul(z[j], a)
      BY <2>5, MulCommutes
    <3>. QED
      BY <2>5, <3>1, <3>2
  <2>8. Same(j)
    BY <2>2, <2>4, <2>5, <2>6, <2>7
  <2>. QED
    BY <2>1, <2>8
<1>6. SYS_T \in P
  BY <1>0, <1>4
<1>. HIDE DEF P
<1>7. \A k \in 0..SYS_T : k \in P
  BY <1>0, <1>5, <1>6, Downward
<1>8. SumOver(f, 0..SYS_T) = gf_mul(r[0], z[0])
  BY <1>0, <1>7 DEF P
<1>. QED
  BY <1>1, <1>8 DEF f

(* Terms is a column of the matrix: the powers of a over g(a), and Squares *)
(* one of the doubled matrix of synd, over g(a)^2.                         *)
LEMMA Columns ==
  ASSUME NEW g \in Coeffs, NEW a \in Gf,
         NEW P, IsPowers(P, Reciprocal[eval(g, a)], a, SYS_T - 1),
         NEW Q, IsPowers(Q, Reciprocal[Square(eval(g, a))], a, 2 * SYS_T - 1),
         NEW n \in 0..(SYS_T - 1)
  PROVE  /\ P[n] \in Gf
         /\ \A k \in 0..SYS_T : Q[n + k] \in Gf
         /\ SumOver([k \in 0..SYS_T |-> gf_mul(g[k], Q[n + k])], 0..SYS_T) = P[n]
<1>. DEFINE out == eval(g, a)
<1>0. SYS_T \in Nat /\ SYS_T # 0 /\ g \in [0..SYS_T -> Gf]
  BY GoppaAssumption DEF Coeffs
<1>3. out \in Gf
  BY EvalIs
<1>. HIDE DEF out
<1>4. /\ P \in [0..(SYS_T - 1) -> Gf] /\ P[0] = Reciprocal[out]
      /\ \A k \in 1..(SYS_T - 1) : P[k] = gf_mul(P[k - 1], a)
  <2>1. Reciprocal[out] \in Gf /\ SYS_T - 1 \in Nat
    BY <1>0, <1>3, FieldTyped
  <2>2. IsPowers(P, Reciprocal[out], a, SYS_T - 1)
    BY DEF out
  <2>3. ASSUME NEW y \in Gf, NEW m \in Nat, IsPowers(P, y, a, m)
        PROVE  /\ P \in [0..m -> Gf] /\ P[0] = y
               /\ \A k \in 1..m : P[k] = gf_mul(P[k - 1], a)
    BY <2>3, PowersAre
  <2>. QED
    BY <2>1, <2>2, <2>3
<1>5. /\ Q \in [0..(2 * SYS_T - 1) -> Gf] /\ Q[0] = Reciprocal[Square(out)]
      /\ \A k \in 1..(2 * SYS_T - 1) : Q[k] = gf_mul(Q[k - 1], a)
  <2>1. Reciprocal[Square(out)] \in Gf /\ 2 * SYS_T - 1 \in Nat
    BY <1>0, <1>3, ReciprocalOfSquare, FieldTyped
  <2>2. IsPowers(Q, Reciprocal[Square(out)], a, 2 * SYS_T - 1)
    BY DEF out
  <2>3. ASSUME NEW y \in Gf, NEW m \in Nat, IsPowers(Q, y, a, m)
        PROVE  /\ Q \in [0..m -> Gf] /\ Q[0] = y
               /\ \A k \in 1..m : Q[k] = gf_mul(Q[k - 1], a)
    BY <2>3, PowersAre
  <2>. QED
    BY <2>1, <2>2, <2>3
<1>6. \A k \in 0..SYS_T : n + k \in 0..(2 * SYS_T - 1) /\ Q[n + k] \in Gf
  BY <1>0, <1>5
<1>7. gf_mul(out, Q[n]) = P[n]
  <2>. DEFINE S == {m \in 0..(SYS_T - 1) : gf_mul(out, Q[m]) = P[m]}
  <2>1. SYS_T - 1 \in Nat /\ 0 \in S
    BY <1>0, <1>3, <1>4, <1>5, ReciprocalOfSquare
  <2>2. ASSUME NEW m \in 0..((SYS_T - 1) - 1), m \in S  PROVE m + 1 \in S
    <3>1. /\ m + 1 \in 1..(SYS_T - 1) /\ (m + 1) - 1 = m
          /\ m + 1 \in 1..(2 * SYS_T - 1) /\ m \in 0..(2 * SYS_T - 1)
      BY <1>0
    <3>2. Q[m] \in Gf /\ Q[m + 1] = gf_mul(Q[m], a) /\ P[m + 1] = gf_mul(P[m], a)
      <4>1. Q[m + 1] = gf_mul(Q[(m + 1) - 1], a) /\ P[m + 1] = gf_mul(P[(m + 1) - 1], a)
        BY <1>4, <1>5, <3>1
      <4>. QED
        BY <1>5, <3>1, <4>1
    <3>3. gf_mul(gf_mul(out, Q[m]), a) = gf_mul(out, gf_mul(Q[m], a))
      BY <1>3, <3>2, FieldLaws
    <3>. QED
      BY <2>2, <3>1, <3>2, <3>3
  <2>. HIDE DEF S
  <2>3. \A m \in 0..(SYS_T - 1) : m \in S
    BY <2>1, <2>2, Upward
  <2>. QED
    BY <2>3 DEF S
<1>8. SumOver([k \in 0..SYS_T |-> gf_mul(g[k], Q[n + k])], 0..SYS_T) = gf_mul(out, Q[n])
  <2>. DEFINE z == [k \in 0..SYS_T |-> Q[n + k]]
              f == [k \in 0..SYS_T |-> gf_mul(g[k], z[k])]
  <2>1. z \in [0..SYS_T -> Gf] /\ \A k \in 0..SYS_T : z[k] = Q[n + k]
    BY <1>6
  <2>2. z[0] = Q[n]
    <3>1. 0 \in 0..SYS_T /\ n + 0 = n
      BY <1>0
    <3>. HIDE DEF z
    <3>. QED
      BY <2>1, <3>1
  <2>3. f = [k \in 0..SYS_T |-> gf_mul(g[k], Q[n + k])]
    OBVIOUS
  <2>. HIDE DEF z
  <2>4. ASSUME NEW k \in 0..(SYS_T - 1)  PROVE z[k + 1] = gf_mul(z[k], a)
    <3>1. /\ k \in 0..SYS_T /\ k + 1 \in 0..SYS_T
          /\ n + (k + 1) \in 1..(2 * SYS_T - 1) /\ (n + (k + 1)) - 1 = n + k
      BY <1>0
    <3>2. Q[n + (k + 1)] = gf_mul(Q[(n + (k + 1)) - 1], a)
      BY <1>5, <3>1
    <3>. QED
      BY <2>1, <3>1, <3>2
  <2>5. SumOver(f, 0..SYS_T) = gf_mul(out, z[0])
    BY <2>1, <2>4, HornerSum DEF out
  <2>. QED
    BY <2>2, <2>3, <2>5
<1>. QED
  BY <1>4, <1>6, <1>7, <1>8

(***************************************************************************)
(* A sum of columns over the positions of c, each a combination of others  *)
(* with the same coefficients, is that combination of their sums.          *)
(***************************************************************************)
LEMMA Interchange ==
  ASSUME NEW g \in Coeffs, NEW E \in [0..SYS_T -> [Cols -> Gf]], NEW I \in [Cols -> Gf],
         \A x \in Cols : SumOver([k \in 0..SYS_T |-> gf_mul(g[k], E[k][x])], 0..SYS_T) = I[x]
  PROVE  \A c \in SUBSET Cols :
           SumOver(I, c)
             = SumOver([k \in 0..SYS_T |-> gf_mul(g[k], SumOver(E[k], c))], 0..SYS_T)
<1>. DEFINE Combined(c) == [k \in 0..SYS_T |-> gf_mul(g[k], SumOver(E[k], c))]
            P == {c \in SUBSET Cols : SumOver(I, c) = SumOver(Combined(c), 0..SYS_T)}
<1>0. SYS_T \in Nat /\ g \in [0..SYS_T -> Gf]
  BY GoppaAssumption DEF Coeffs
<1>1. {} \in P
  <2>1. ASSUME NEW k \in 0..SYS_T  PROVE Combined({})[k] = Zero
    <3>1. SumOver(E[k], {}) = Zero /\ g[k] \in Gf
      BY <1>0, SumNone
    <3>. QED
      BY <3>1, FieldLaws
  <2>. HIDE DEF Combined
  <2>2. SumOver(Combined({}), {}) = SumOver(Combined({}), 0..SYS_T)
    <3>1. ASSUME NEW f, NEW R, \A x \in R : f[x] = Zero
          PROVE  SumOver(f, {}) = SumOver(f, R)
      <4>1. {} \in SUBSET R /\ \A x \in R \ {} : f[x] = Zero
        BY <3>1
      <4>. QED
        BY ONLY <4>1, SumSame
    <3>. QED
      BY <2>1, <3>1
  <2>. QED
    BY <2>2, SumNone
<1>2. ASSUME NEW A \in P, NEW j \in Cols \ A
      PROVE  A \cup {j} \in P
  <2>. DEFINE B == A \cup {j}
              Column == [k \in 0..SYS_T |-> gf_mul(g[k], E[k][j])]
              f == Combined(A)
  <2>1. A \in SUBSET Cols /\ IsFiniteSet(A) /\ j \notin A /\ j \in Cols /\ I[j] \in Gf
    <3>1. IsFiniteSet(Cols)
      BY ColsFinite, FS_Interval DEF Cols
    <3>. HIDE DEF Combined
    <3>. QED
      BY <3>1, FS_Subset
  <2>2. SumOver(I, B) = gf_add(SumOver(I, A), I[j])
    BY <2>1, SumStep
  <2>3. ASSUME NEW k \in 0..SYS_T
        PROVE  Combined(B)[k] = gf_add(f[k], Column[k])
    <3>1. E[k] \in [Cols -> Gf] /\ E[k][j] \in Gf /\ g[k] \in Gf
      BY <1>0, <2>1
    <3>2. SumOver(E[k], B) = gf_add(SumOver(E[k], A), E[k][j])
      BY <2>1, <3>1, SumStep
    <3>3. SumOver(E[k], A) \in Gf
      BY SumTyped
    <3>4. gf_mul(g[k], SumOver(E[k], B))
            = gf_add(gf_mul(g[k], SumOver(E[k], A)), gf_mul(g[k], E[k][j]))
      BY <3>1, <3>2, <3>3, FieldLaws
    <3>. QED
      BY <3>4
  <2>4. Combined(B) = [k \in 0..SYS_T |-> gf_add(f[k], Column[k])]
    <3>1. Combined(B) = [k \in 0..SYS_T |-> Combined(B)[k]]
      OBVIOUS
    <3>. HIDE DEF Combined, B, f, Column
    <3>. QED
      BY <2>3, <3>1
  <2>5. SumOver(Column, 0..SYS_T) = I[j]
    BY <2>1
  <2>6. SumOver(I, A) = SumOver(f, 0..SYS_T)
    OBVIOUS
  <2>. HIDE DEF Combined, f, Column
  <2>7. SumOver(Combined(B), 0..SYS_T)
          = gf_add(SumOver(f, 0..SYS_T), SumOver(Column, 0..SYS_T))
    BY <1>0, <2>4, SumAdd
  <2>8. SumOver(I, B) = SumOver(Combined(B), 0..SYS_T)
    BY <2>2, <2>5, <2>6, <2>7
  <2>. QED
    BY <2>1, <2>8
<1>. HIDE DEF P
<1>3. \A c \in SUBSET Cols : c \in P
  BY <1>1, <1>2, ColsFinite, SubsetInduction DEF Cols
<1>. QED
  BY <1>3 DEF P

(* The columns of the two matrices. *)
EInv(g, a) ==
  CHOOSE f : IsPowers(f, Reciprocal[Square(eval(g, a))], a, 2 * SYS_T - 1)

LEMMA ColumnsExist ==
  ASSUME NEW g \in Coeffs, NEW a \in Gf
  PROVE  /\ IsPowers(Powers(a, eval(g, a)), Reciprocal[eval(g, a)], a, SYS_T - 1)
         /\ IsPowers(EInv(g, a), Reciprocal[Square(eval(g, a))], a, 2 * SYS_T - 1)
<1>. DEFINE out == eval(g, a)
            y == Reciprocal[out]
            z == Reciprocal[Square(out)]
<1>1. SYS_T - 1 \in Nat /\ 2 * SYS_T - 1 \in Nat
  BY GoppaAssumption
<1>2. out \in Gf
  BY EvalIs
<1>3. y \in Gf /\ z \in Gf
  <2>. HIDE DEF out
  <2>. QED
    BY <1>2, FieldTyped, ReciprocalOfSquare
<1>4. Powers(a, out) = CHOOSE f : IsPowers(f, y, a, SYS_T - 1)
  BY DEF Powers, IsPowers
<1>5. EInv(g, a) = CHOOSE f : IsPowers(f, z, a, 2 * SYS_T - 1)
  BY DEF EInv
<1>. HIDE DEF y, z, out
<1>6. \E f : IsPowers(f, y, a, SYS_T - 1)
  BY <1>1, <1>3, PowersExist
<1>7. \E f : IsPowers(f, z, a, 2 * SYS_T - 1)
  BY <1>1, <1>3, PowersExist
<1>8. IsPowers(Powers(a, out), y, a, SYS_T - 1)
  BY <1>4, <1>6
<1>9. IsPowers(EInv(g, a), z, a, 2 * SYS_T - 1)
  BY <1>5, <1>7
<1>. QED
  BY <1>8, <1>9 DEF out, y, z

(* What synd sums up. *)
LEMMA SyndIs ==
  ASSUME NEW g, NEW l, NEW c, NEW n \in 0..(2 * SYS_T - 1)
  PROVE  synd(g, l, c)[n] = SumOver([x \in c |-> EInv(g, l[x])[n]], c)
BY DEF synd, EInv, IsPowers

(* Row r is bit r % GFBITS of power r div GFBITS. *)
LEMMA RowPlace ==
  ASSUME NEW b \in Nat \ {0}, NEW t \in Nat, NEW r \in Nat, r < t * b
  PROVE  r \div b \in 0..(t - 1) /\ r % b \in 0..(b - 1)
<1>. DEFINE q == r \div b
            z == r % b
<1>1. q \in Nat /\ z \in 0..(b - 1) /\ r = q * b + z
  OBVIOUS
<1>. HIDE DEF q, z
<1>2. ~ t <= q
  <2>1. SUFFICES ASSUME t <= q  PROVE FALSE
    OBVIOUS
  <2>2. PICK i \in Nat : q = t + i
    <3>1. q - t \in Nat /\ q = t + (q - t)
      BY <1>1, <2>1
    <3>. QED
      BY <3>1
  <2>3. q * b = t * b + i * b /\ i * b \in Nat /\ t * b \in Nat
    BY <2>2
  <2>. QED
    BY <1>1, <2>3
<1>. QED
  BY <1>1, <1>2 DEF q, z

(* Column n of pk_gen's matrix, for every position. *)
Inv(g, l, n) == [x \in Cols |-> Powers(l[x], eval(g, l[x]))[n]]

(* The columns of pk_gen's matrix are combinations of synd's: Columns, summed. *)
LEMMA SumsOfColumns ==
  ASSUME NEW g \in Coeffs, NEW l \in [Cols -> Gf], NEW n \in 0..(SYS_T - 1),
         NEW c \in SUBSET Cols
  PROVE  SumOver(Inv(g, l, n), c)
           = SumOver([k \in 0..SYS_T |-> gf_mul(g[k], synd(g, l, c)[n + k])], 0..SYS_T)
<1>. DEFINE I == Inv(g, l, n)
            E == [k \in 0..SYS_T |-> [x \in Cols |-> EInv(g, l[x])[n + k]]]
            sy == synd(g, l, c)
<1>0. SYS_T \in Nat /\ SYS_T # 0
  BY GoppaAssumption
<1>1. ASSUME NEW x \in Cols
      PROVE  /\ I[x] \in Gf
             /\ \A k \in 0..SYS_T : E[k][x] \in Gf
             /\ SumOver([k \in 0..SYS_T |-> gf_mul(g[k], E[k][x])], 0..SYS_T) = I[x]
  <2>. DEFINE a == l[x]
              P == Powers(a, eval(g, a))
              Q == EInv(g, a)
  <2>1. a \in Gf
    OBVIOUS
  <2>2. /\ IsPowers(P, Reciprocal[eval(g, a)], a, SYS_T - 1)
        /\ IsPowers(Q, Reciprocal[Square(eval(g, a))], a, 2 * SYS_T - 1)
    <3>. HIDE DEF a
    <3>. QED
      BY <2>1, ColumnsExist
  <2>3. I[x] = P[n] /\ \A k \in 0..SYS_T : E[k][x] = Q[n + k]
    BY DEF Inv
  <2>. HIDE DEF I, E, a, P, Q
  <2>4. /\ P[n] \in Gf
        /\ \A k \in 0..SYS_T : Q[n + k] \in Gf
        /\ SumOver([k \in 0..SYS_T |-> gf_mul(g[k], Q[n + k])], 0..SYS_T) = P[n]
    BY <2>1, <2>2, Columns
  <2>5. [k \in 0..SYS_T |-> gf_mul(g[k], E[k][x])]
          = [k \in 0..SYS_T |-> gf_mul(g[k], Q[n + k])]
    BY <2>3
  <2>. QED
    BY <2>3, <2>4, <2>5
<1>2. ASSUME NEW k \in 0..SYS_T
      PROVE  SumOver(E[k], c) = sy[n + k]
  <2>. DEFINE f == [x \in c |-> EInv(g, l[x])[n + k]]
  <2>1. n + k \in 0..(2 * SYS_T - 1)
    BY <1>0
  <2>2. sy[n + k] = SumOver(f, c)
    BY <2>1, SyndIs
  <2>3. \A x \in c : E[k][x] = f[x]
    OBVIOUS
  <2>. HIDE DEF E, f, sy
  <2>4. SumOver(E[k], c) = SumOver(f, c)
    BY <2>3, SumSame
  <2>. QED
    BY <2>2, <2>4
<1>3. I \in [Cols -> Gf] /\ E \in [0..SYS_T -> [Cols -> Gf]]
  <2>1. I = [x \in Cols |-> I[x]]
    BY DEF Inv
  <2>. HIDE DEF I
  <2>. QED
    BY <1>1, <2>1
<1>. HIDE DEF I, E, sy
<1>4. [k \in 0..SYS_T |-> gf_mul(g[k], SumOver(E[k], c))]
        = [k \in 0..SYS_T |-> gf_mul(g[k], sy[n + k])]
  BY <1>2
<1>5. SumOver(I, c) = SumOver([k \in 0..SYS_T |-> gf_mul(g[k], SumOver(E[k], c))], 0..SYS_T)
  <2>1. ASSUME NEW J \in [Cols -> Gf], NEW F \in [0..SYS_T -> [Cols -> Gf]],
               \A x \in Cols :
                 SumOver([k \in 0..SYS_T |-> gf_mul(g[k], F[k][x])], 0..SYS_T) = J[x]
        PROVE  \A u \in SUBSET Cols :
                 SumOver(J, u)
                   = SumOver([k \in 0..SYS_T |-> gf_mul(g[k], SumOver(F[k], u))], 0..SYS_T)
    BY <2>1, Interchange, Zenon
  <2>2. \A x \in Cols :
          SumOver([k \in 0..SYS_T |-> gf_mul(g[k], E[k][x])], 0..SYS_T) = I[x]
    BY <1>1
  <2>. QED
    BY <1>3, <2>1, <2>2, Zenon
<1>. QED
  BY <1>4, <1>5 DEF I, sy

(* Words with the same syndrome in synd's sense have the same sums of the  *)
(* columns that pk_gen works with.                                         *)
LEMMA SameSums ==
  ASSUME NEW g \in Coeffs, NEW l \in [Cols -> Gf],
         NEW c \in SUBSET Cols, NEW d \in SUBSET Cols,
         synd(g, l, c) = synd(g, l, d), NEW n \in 0..(SYS_T - 1)
  PROVE  SumOver(Inv(g, l, n), c) = SumOver(Inv(g, l, n), d)
<1>. DEFINE F(sy) == SumOver([k \in 0..SYS_T |-> gf_mul(g[k], sy[n + k])], 0..SYS_T)
<1>1. SumOver(Inv(g, l, n), c) = F(synd(g, l, c)) /\ SumOver(Inv(g, l, n), d) = F(synd(g, l, d))
  BY SumsOfColumns
<1>. HIDE DEF F
<1>. QED
  BY <1>1

(* Bit b of a sum of columns is a row of the parity check matrix.          *)
LEMMA SameSyndrome ==
  ASSUME NEW g \in Coeffs, NEW pi \in [Idx -> Idx],
         NEW c \in SUBSET Cols, NEW d \in SUBSET Cols,
         synd(g, Support(pi), c) = synd(g, Support(pi), d)
  PROVE  SyndromeOf(FillMatrix(g, pi), c) = SyndromeOf(FillMatrix(g, pi), d)
<1>. DEFINE l == Support(pi)
            h == FillMatrix(g, pi)
<1>1. l \in [Cols -> Gf]
  BY DEF Support, bitrev, Gf
<1>2. ASSUME NEW r \in Rows
      PROVE  Odd(h[r] \cap c) <=> Odd(h[r] \cap d)
  <2>. DEFINE n == r \div GFBITS
              b == r % GFBITS
              I == Inv(g, l, n)
  <2>1. n \in 0..(SYS_T - 1) /\ b \in 0..(GFBITS - 1)
    <3>1. GFBITS \in Nat \ {0} /\ SYS_T \in Nat /\ r \in Nat /\ r < SYS_T * GFBITS
      BY GFAssumption, GoppaAssumption, ColsFinite DEF Rows, PK_NROWS
    <3>. QED
      BY <3>1, RowPlace
  <2>2. h[r] = {x \in Cols : b \in I[x]}
    BY DEF FillMatrix, root, Support, Inv
  <2>3. SumOver(I, c) = SumOver(I, d)
    <3>. HIDE DEF l, n
    <3>. QED
      BY <1>1, <2>1, SameSums DEF l
  <2>. HIDE DEF h, I, b, n, l
  <2>4. ASSUME NEW u \in SUBSET Cols
        PROVE  b \in SumOver(I, u) <=> Odd(h[r] \cap u)
    <3>1. h[r] \cap u = {x \in u : b \in I[x]}
      BY <2>2
    <3>. QED
      BY <2>1, <3>1 DEF SumOver
  <2>. QED
    BY <2>3, <2>4
<1>. HIDE DEF h
<1>3. SyndromeOf(h, c) = SyndromeOf(h, d)
  BY <1>2 DEF SyndromeOf, Odd
<1>. QED
  BY <1>3 DEF h

-------------------------------------------------------------------------------
(* After synd, s is the syndrome of the ciphertext; decrypt returns 0 when *)
(* e has weight SYS_T and the same one.                                    *)
AcceptInv ==
  /\ pc # "synd" => s = synd(in.g, Support(in.pi), in.c)
  /\ pc = "synd" => ret = 1
  /\ pc = "done" /\ ret = 0 => Accepts(e, s, synd(in.g, Support(in.pi), e))

LEMMA AcceptStep == AcceptInv /\ [Next]_vars => AcceptInv'
<1>. SUFFICES ASSUME AcceptInv, [Next]_vars  PROVE AcceptInv'
  OBVIOUS
<1>1. CASE Synd
  BY <1>1 DEF Synd, Goto, AcceptInv
<1>2. CASE Round
  BY <1>2 DEF Round, AcceptInv
<1>3. CASE Roots
  BY <1>3 DEF Roots, Goto, AcceptInv
<1>4. CASE Check
  BY <1>4 DEF Check, Goto, AcceptInv
<1>5. CASE Returned \/ UNCHANGED vars
  BY <1>5 DEF Returned, vars, AcceptInv
<1>. QED
  BY <1>1, <1>2, <1>3, <1>4, <1>5 DEF Next

(* decrypt returns 0 (decrypt.rs:62-74) only with an error vector of   *)
(* weight SYS_T whose syndrome, under the matrix that pk_gen fills from    *)
(* the secret key, is that of the ciphertext: half of DecodesExactly.      *)
AcceptsOnlyPreimages == pc = "done" /\ ret = 0 => e \in Preimages

LEMMA AcceptedIsPreimage == TypeOK /\ AcceptInv => AcceptsOnlyPreimages
<1>. SUFFICES ASSUME TypeOK, AcceptInv, pc = "done", ret = 0
              PROVE  e \in Preimages
  BY DEF AcceptsOnlyPreimages
<1>. DEFINE k == [g |-> in.g, pi |-> in.pi]
<1>1. in \in Inputs /\ e \in SUBSET Cols
  BY DEF TypeOK
<1>2. in.g \in Coeffs /\ in.pi \in [Idx -> Idx] /\ in.c \in SUBSET Cols
  BY <1>1, DecryptAssumption DEF Poly, Coeffs
<1>3. /\ Cardinality(e) = SYS_T
      /\ synd(in.g, Support(in.pi), in.c) = synd(in.g, Support(in.pi), e)
  BY DEF AcceptInv, Accepts
<1>4. k \in Keys /\ k.g = in.g /\ k.pi = in.pi
  BY <1>1 DEF Keys
<1>5. Parity[k] = FillMatrix(in.g, in.pi)
  <2>. HIDE DEF k
  <2>. QED
    BY <1>4 DEF Parity
<1>6. SyndromeOf(Parity[k], in.c) = SyndromeOf(Parity[k], e)
  <2>. HIDE DEF k
  <2>. QED
    BY <1>1, <1>2, <1>3, <1>5, SameSyndrome
<1>7. e \in kSubset(SYS_T, Cols)
  BY <1>1, <1>3 DEF kSubset
<1>8. /\ DOMAIN ErrorSyndromes[k] = kSubset(SYS_T, Cols)
      /\ ErrorSyndromes[k][e] = SyndromeOf(Parity[k], e)
  <2>. HIDE DEF k
  <2>. QED
    BY <1>4, <1>7 DEF ErrorSyndromes
<1>. QED
  BY <1>6, <1>7, <1>8 DEF Preimages

(***************************************************************************)
(* Whatever the ciphertext and the secret key are, decrypt accepts nothing *)
(* but a preimage of the ciphertext: its check of weight and syndrome      *)
(* (decrypt.rs:62-74), made on the doubled syndrome of synd.rs:20, implies *)
(* the equation between e and the ciphertext that encrypt.rs:139-212       *)
(* computes under the public key.                                          *)
(***************************************************************************)
THEOREM DecryptIsSound == Spec => []AcceptsOnlyPreimages
<1>1. Init => AcceptInv
  BY DEF Init, AcceptInv
<1>. QED
  BY <1>1, AcceptStep, AcceptedIsPreimage, InitTyped, StepTyped,
     LengthInitial, LengthStep, PTL DEF Spec
-------------------------------------------------------------------------------
(***************************************************************************)
(* What decrypt finds: the other half of DecodesExactly, that a ciphertext *)
(* with a preimage is never rejected.  The steps of the proof are:         *)
(*   - Vandermonde: a register that explains SYS_T places of the syndrome  *)
(*     of SYS_T positions explains the powers of every one of them         *)
(*     (Annihilates), and so the whole of the syndrome;                    *)
(*   - the powers that a register explains are those of the roots of its   *)
(*     locator (LocatorSum), of which there are at most SYS_T (FewRoots);  *)
(*   - the even places of the syndrome are squares of what the matrix of   *)
(*     pk_gen computes (EvenSum), and, when g has no multiple factor, they *)
(*     determine the odd ones (SameSynd), so that a preimage of the        *)
(*     ciphertext has its syndrome in synd's sense, too.                   *)
(***************************************************************************)

(* A field has no zero divisors. *)
LEMMA NoZeroDivisors ==
  ASSUME NEW a \in Gf, NEW b \in Gf, gf_mul(a, b) = Zero
  PROVE  a = Zero \/ b = Zero
<1>. SUFFICES ASSUME a # Zero  PROVE b = Zero
  OBVIOUS
<1>. DEFINE R == Reciprocal[a]
<1>1. R \in Gf
  BY FieldTyped
<1>2. gf_mul(gf_mul(R, b), a) = b
  BY FieldLaws
<1>. HIDE DEF R
<1>3. gf_mul(gf_mul(R, b), a) = gf_mul(R, gf_mul(b, a))
  BY <1>1, FieldLaws
<1>4. gf_mul(b, a) = Zero
  BY MulCommutes
<1>. QED
  BY <1>1, <1>2, <1>3, <1>4, FieldLaws

(* A sum from the last term to the first. *)
LEMMA SumReverse ==
  ASSUME NEW m \in Nat, NEW u, NEW v, \A k \in 0..m : v[k] = u[m - k]
  PROVE  SumOver(v, 0..m) = SumOver(u, 0..m)
<1>1. ASSUME NEW b \in 0..(GFBITS - 1)
      PROVE  Odd({k \in 0..m : b \in v[k]}) <=> Odd({k \in 0..m : b \in u[k]})
  <2>. DEFINE S == {k \in 0..m : b \in v[k]}
              T == {k \in 0..m : b \in u[k]}
              f == [k \in S |-> m - k]
  <2>1. \A k \in 0..m : m - k \in 0..m /\ m - (m - k) = k
    OBVIOUS
  <2>2. \A k \in S : m - k \in T
    BY <2>1
  <2>3. \A k \in T : m - k \in S
    BY <2>1
  <2>4. IsFiniteSet(S)
    <3>1. S \subseteq 0..m /\ IsFiniteSet(0..m)
      BY FS_Interval
    <3>. QED
      BY ONLY <3>1, FS_Subset
  <2>5. S \subseteq 0..m /\ T \subseteq 0..m
    OBVIOUS
  <2>. HIDE DEF S, T
  <2>6. f \in Bijection(S, T)
    <3>1. f \in [S -> T]
      BY <2>2
    <3>2. \A i, j \in S : f[i] = f[j] => i = j
      BY <2>1, <2>5
    <3>3. \A t \in T : \E i \in S : f[i] = t
      <4>1. SUFFICES ASSUME NEW t \in T  PROVE f[m - t] = t /\ m - t \in S
        OBVIOUS
      <4>. QED
        BY <2>1, <2>3, <2>5
    <3>. HIDE DEF f
    <3>. QED
      BY <3>1, <3>2, <3>3 DEF Bijection, Injection, Surjection, IsInjective
  <2>. HIDE DEF f
  <2>7. Odd(S) <=> Odd(T)
    BY <2>4, <2>6, OddBijection
  <2>. QED
    BY <2>7 DEF S, T
<1>. QED
  BY <1>1 DEF SumOver

(***************************************************************************)
(* What the locator is: the coefficients of the register, backwards.  So   *)
(* its value at a is what the register makes of the powers of a.           *)
(***************************************************************************)
LEMMA LocatorSum ==
  ASSUME NEW p \in Coeffs, NEW a \in Gf, NEW z \in Syndromes,
         \A k \in 1..(2 * SYS_T - 1) : z[k] = gf_mul(z[k - 1], a)
  PROVE  LET f == [k \in 0..SYS_T |-> p[SYS_T - k]]
         IN  f \in Coeffs /\ At(p, z, SYS_T) = gf_mul(eval(f, a), z[0])
<1>. DEFINE f == [k \in 0..SYS_T |-> p[SYS_T - k]]
            w == [k \in 0..SYS_T |-> z[k]]
            u == [k \in 0..SYS_T |-> gf_mul(f[k], w[k])]
            v == Term(p, z, SYS_T)
<1>0. SYS_T \in Nat \ {0} /\ p \in [0..SYS_T -> Gf] /\ z \in [0..(2 * SYS_T - 1) -> Gf]
  BY GoppaAssumption DEF Coeffs, Syndromes
<1>1. \A k \in 0..SYS_T : /\ SYS_T - k \in 0..SYS_T /\ SYS_T - (SYS_T - k) = k
                          /\ k \in 0..(2 * SYS_T - 1) /\ k <= SYS_T
  BY <1>0
<1>2. f \in Coeffs
  BY <1>0, <1>1 DEF Coeffs
<1>3. w \in [0..SYS_T -> Gf]
  BY <1>0, <1>1
<1>4. \A k \in 0..(SYS_T - 1) : w[k + 1] = gf_mul(w[k], a)
  <2>1. SUFFICES ASSUME NEW k \in 0..(SYS_T - 1)  PROVE w[k + 1] = gf_mul(w[k], a)
    OBVIOUS
  <2>2. /\ k + 1 \in 1..(2 * SYS_T - 1) /\ (k + 1) - 1 = k
        /\ k \in 0..SYS_T /\ k + 1 \in 0..SYS_T
    BY <1>0
  <2>3. z[k + 1] = gf_mul(z[(k + 1) - 1], a)
    BY <2>2
  <2>. QED
    BY <2>2, <2>3
<1>5. \A k \in 0..SYS_T : v[k] = u[SYS_T - k]
  <2>1. SUFFICES ASSUME NEW k \in 0..SYS_T  PROVE v[k] = u[SYS_T - k]
    OBVIOUS
  <2>2. v[k] = gf_mul(p[k], z[SYS_T - k])
    BY <1>1 DEF Term
  <2>3. f[SYS_T - k] = p[k] /\ w[SYS_T - k] = z[SYS_T - k]
    BY <1>1
  <2>. HIDE DEF f, w
  <2>. QED
    BY <1>1, <2>2, <2>3
<1>. HIDE DEF f, w
<1>6. SumOver(u, 0..SYS_T) = gf_mul(eval(f, a), w[0])
  BY <1>2, <1>3, <1>4, HornerSum
<1>. HIDE DEF u, v
<1>7. SumOver(v, 0..SYS_T) = SumOver(u, 0..SYS_T)
  BY <1>0, <1>5, SumReverse
<1>8. w[0] = z[0]
  BY <1>0 DEF w
<1>. QED
  BY <1>2, <1>6, <1>7, <1>8 DEF v, At, f

(* A set of positions is finite. *)
LEMMA PositionsFinite ==
  ASSUME NEW S \in SUBSET Cols
  PROVE  /\ IsFiniteSet(S) /\ Cardinality(S) \in Nat
         /\ Cardinality(S) = 0 <=> S = {}
         /\ \A z \in S : Cardinality(S \ {z}) = Cardinality(S) - 1
<1>1. IsFiniteSet(S)
  <2>1. IsFiniteSet(Cols)
    BY ColsFinite, FS_Interval DEF Cols
  <2>. QED
    BY <2>1, FS_Subset
<1>. QED
  BY <1>1, FS_CardinalityType, FS_EmptySet, FS_RemoveElement

(* A linear combination, summed over a set of positions. *)
LEMMA SumLinear ==
  ASSUME NEW h \in Gf, NEW f \in [Cols -> Gf], NEW g \in [Cols -> Gf],
         NEW S \in SUBSET Cols
  PROVE  SumOver([y \in Cols |-> gf_add(f[y], gf_mul(h, g[y]))], S)
           = gf_add(SumOver(f, S), gf_mul(h, SumOver(g, S)))
<1>. DEFINE F == [y \in Cols |-> IF y \in S THEN f[y] ELSE Zero]
            G == [y \in Cols |-> IF y \in S THEN g[y] ELSE Zero]
            hG == [y \in Cols |-> gf_mul(h, G[y])]
            C == [y \in Cols |-> gf_add(f[y], gf_mul(h, g[y]))]
            D == [y \in Cols |-> gf_add(F[y], hG[y])]
            m == SYS_N - 1
<1>0. m \in Nat /\ Cols = 0..m
  BY GoppaAssumption, ColsFinite DEF Cols
<1>1. F \in [Cols -> Gf] /\ G \in [Cols -> Gf]
  BY FieldTyped
<1>2. ASSUME NEW y \in Cols
      PROVE  /\ y \in S => F[y] = f[y] /\ G[y] = g[y] /\ D[y] = C[y]
             /\ y \notin S => F[y] = Zero /\ G[y] = Zero /\ D[y] = Zero
  <2>1. y \in S => F[y] = f[y] /\ G[y] = g[y]
    OBVIOUS
  <2>2. y \notin S => F[y] = Zero /\ G[y] = Zero
    OBVIOUS
  <2>3. D[y] = gf_add(F[y], gf_mul(h, G[y])) /\ C[y] = gf_add(f[y], gf_mul(h, g[y]))
    OBVIOUS
  <2>4. gf_add(Zero, gf_mul(h, Zero)) = Zero
    BY FieldLaws, AddLaws, FieldTyped
  <2>. HIDE DEF F, G, D, C
  <2>. QED
    BY <2>1, <2>2, <2>3, <2>4
<1>. HIDE DEF F, G, C, m
<1>3. SumOver(f, S) = SumOver(F, Cols) /\ SumOver(g, S) = SumOver(G, Cols)
  BY <1>2, SumSame
<1>4. SumOver(C, S) = SumOver(D, Cols)
  <2>. HIDE DEF D
  <2>. QED
    BY <1>2, SumSame
<1>5. SumOver(hG, Cols) = gf_mul(h, SumOver(G, Cols))
  BY <1>0, <1>1, SumScale
<1>. HIDE DEF hG
<1>6. SumOver(D, Cols) = gf_add(SumOver(F, Cols), SumOver(hG, Cols))
  BY <1>0, SumAdd
<1>. QED
  BY <1>3, <1>4, <1>5, <1>6 DEF C

(* Take one position out of a sum. *)
LEMMA SumSplit ==
  ASSUME NEW f \in [Cols -> Gf], NEW E \in SUBSET Cols, NEW z \in E
  PROVE  SumOver(f, E) = gf_add(SumOver(f, E \ {z}), f[z])
<1>1. E = (E \ {z}) \cup {z} /\ z \notin E \ {z} /\ f[z] \in Gf
  OBVIOUS
<1>2. IsFiniteSet(E \ {z})
  <2>1. IsFiniteSet(Cols) /\ E \ {z} \subseteq Cols
    BY ColsFinite, FS_Interval DEF Cols
  <2>. QED
    BY ONLY <2>1, FS_Subset
<1>3. SumOver(f, (E \ {z}) \cup {z}) = gf_add(SumOver(f, E \ {z}), f[z])
  BY ONLY <1>1, <1>2, SumStep
<1>. QED
  BY <1>1, <1>3

-------------------------------------------------------------------------------
(***************************************************************************)
(* Vandermonde: m positions with distinct elements of the support.  If the *)
(* sums of q[0], ..., q[m - 1] over them are 0, and q[n] is q[0] times the *)
(* n-th power of the element, q[0] is 0 everywhere.                        *)
(***************************************************************************)
Vanishing(l, m) ==
  \A E \in SUBSET Cols, q \in [Nat -> [Cols -> Gf]] :
    /\ Cardinality(E) <= m
    /\ \A n \in Nat : n + 1 < m => \A y \in E : q[n + 1][y] = gf_mul(q[n][y], l[y])
    /\ \A n \in Nat : n < m => SumOver(q[n], E) = Zero
    => \A y \in E : q[0][y] = Zero

(* One position less: subtract l[z] times the sums from the next ones. *)
LEMMA VanishingStep ==
  ASSUME NEW l \in [Cols -> Gf], \A x, y \in Cols : l[x] = l[y] => x = y,
         NEW m \in Nat, Vanishing(l, m)
  PROVE  Vanishing(l, m + 1)
<1>. SUFFICES ASSUME NEW E \in SUBSET Cols, NEW q \in [Nat -> [Cols -> Gf]],
                     Cardinality(E) <= m + 1,
                     \A n \in Nat : n + 1 < m + 1 =>
                       \A y \in E : q[n + 1][y] = gf_mul(q[n][y], l[y]),
                     \A n \in Nat : n < m + 1 => SumOver(q[n], E) = Zero,
                     NEW z \in E
              PROVE  q[0][z] = Zero
  BY DEF Vanishing
<1>. DEFINE F == E \ {z}
            p == [n \in Nat |-> [y \in Cols |-> gf_add(q[n + 1][y], gf_mul(l[z], q[n][y]))]]
<1>0. z \in Cols /\ l[z] \in Gf /\ F \in SUBSET Cols /\ F \subseteq E /\ z \notin F
  OBVIOUS
<1>1. Cardinality(F) <= m
  <2>1. IsFiniteSet(E)
    <3>1. IsFiniteSet(Cols)
      BY ColsFinite, FS_Interval DEF Cols
    <3>. QED
      BY <3>1, FS_Subset
  <2>2. Cardinality(F) = Cardinality(E) - 1 /\ Cardinality(E) \in Nat
    BY <2>1, FS_RemoveElement, FS_CardinalityType
  <2>. HIDE DEF F
  <2>. QED
    BY <2>2
<1>2. \A n \in Nat : n + 1 \in Nat /\ q[n] \in [Cols -> Gf] /\ q[n + 1] \in [Cols -> Gf]
  OBVIOUS
<1>3. \A n \in Nat : \A y \in Cols :
        /\ q[n][y] \in Gf /\ q[n + 1][y] \in Gf
        /\ p[n][y] = gf_add(q[n + 1][y], gf_mul(l[z], q[n][y]))
        /\ p[n][y] \in Gf
  <2>1. ASSUME NEW n \in Nat, NEW y \in Cols
        PROVE  /\ q[n][y] \in Gf /\ q[n + 1][y] \in Gf
               /\ p[n][y] = gf_add(q[n + 1][y], gf_mul(l[z], q[n][y]))
               /\ p[n][y] \in Gf
    <3>1. q[n][y] \in Gf /\ q[n + 1][y] \in Gf
      BY <1>2
    <3>2. gf_mul(l[z], q[n][y]) \in Gf
      BY <1>0, <3>1, MulTyped
    <3>3. p[n][y] = gf_add(q[n + 1][y], gf_mul(l[z], q[n][y]))
      OBVIOUS
    <3>. HIDE DEF p
    <3>. QED
      BY <3>1, <3>2, <3>3, FieldTyped
  <2>. QED
    BY <2>1
<1>4. p \in [Nat -> [Cols -> Gf]] /\ \A n \in Nat : p[n] \in [Cols -> Gf]
  <2>1. \A n \in Nat : [y \in Cols |-> gf_add(q[n + 1][y], gf_mul(l[z], q[n][y]))] \in [Cols -> Gf]
    BY <1>3
  <2>. QED
    BY <2>1
<1>5. ASSUME NEW n \in Nat, n < m  PROVE SumOver(p[n], F) = Zero
  <2>1. SumOver(q[n], E) = Zero /\ SumOver(q[n + 1], E) = Zero
    <3>1. n < m + 1 /\ n + 1 \in Nat /\ n + 1 < m + 1
      BY <1>5
    <3>. QED
      BY <3>1
  <2>2. p[n] = [y \in Cols |-> gf_add(q[n + 1][y], gf_mul(l[z], q[n][y]))]
    OBVIOUS
  <2>. HIDE DEF p, F
  <2>3. SumOver(p[n], E) = Zero
    <3>1. ASSUME NEW f \in [Cols -> Gf], NEW g \in [Cols -> Gf],
                 SumOver(f, E) = Zero, SumOver(g, E) = Zero
          PROVE  SumOver([y \in Cols |-> gf_add(f[y], gf_mul(l[z], g[y]))], E) = Zero
      <4>1. SumOver([y \in Cols |-> gf_add(f[y], gf_mul(l[z], g[y]))], E)
              = gf_add(SumOver(f, E), gf_mul(l[z], SumOver(g, E)))
        BY <1>0, SumLinear
      <4>2. gf_add(Zero, gf_mul(l[z], Zero)) = Zero
        BY <1>0, FieldLaws, AddLaws, FieldTyped
      <4>. QED
        BY <3>1, <4>1, <4>2
    <3>2. q[n + 1] \in [Cols -> Gf] /\ q[n] \in [Cols -> Gf]
      BY <1>2
    <3>3. SumOver([y \in Cols |-> gf_add(q[n + 1][y], gf_mul(l[z], q[n][y]))], E) = Zero
      BY ONLY <2>1, <3>1, <3>2
    <3>. QED
      BY <2>2, <3>3
  <2>4. p[n][z] = Zero
    <3>1. q[n + 1][z] = gf_mul(q[n][z], l[z])
      BY <1>5
    <3>2. gf_mul(q[n][z], l[z]) = gf_mul(l[z], q[n][z])
      BY <1>0, <1>3, MulCommutes
    <3>. QED
      BY <1>0, <1>3, <3>1, <3>2, AddLaws
  <2>5. SumOver(p[n], E) = gf_add(SumOver(p[n], F), p[n][z])
    BY <1>4, SumSplit DEF F
  <2>. QED
    BY <2>3, <2>4, <2>5, AddLaws, SumTyped
<1>6. ASSUME NEW n \in Nat, n + 1 < m, NEW y \in F
      PROVE  p[n + 1][y] = gf_mul(p[n][y], l[y])
  <2>. DEFINE a == q[n][y]
              b == q[n + 1][y]
              c == q[n + 2][y]
  <2>1. b = gf_mul(a, l[y]) /\ c = gf_mul(b, l[y])
    <3>1. n + 1 \in Nat /\ (n + 1) + 1 = n + 2 /\ n + 1 < m + 1 /\ (n + 1) + 1 < m + 1
      BY <1>6
    <3>2. q[(n + 1) + 1][y] = gf_mul(q[n + 1][y], l[y])
      BY <3>1
    <3>. QED
      BY <3>1, <3>2
  <2>2. p[n][y] = gf_add(b, gf_mul(l[z], a)) /\ p[n + 1][y] = gf_add(c, gf_mul(l[z], b))
    <3>1. n + 1 \in Nat /\ (n + 1) + 1 = n + 2 /\ y \in Cols
      OBVIOUS
    <3>2. p[n + 1][y] = gf_add(q[(n + 1) + 1][y], gf_mul(l[z], q[n + 1][y]))
      BY <1>3, <3>1
    <3>. QED
      BY <1>3, <3>1, <3>2
  <2>3. a \in Gf /\ b \in Gf /\ l[y] \in Gf /\ gf_mul(l[z], a) \in Gf
    <3>1. a \in Gf /\ b \in Gf /\ l[y] \in Gf
      BY <1>3
    <3>. HIDE DEF a, b
    <3>. QED
      BY <1>0, <3>1, MulTyped
  <2>. HIDE DEF a, b, c, p, F
  <2>4. gf_mul(gf_add(b, gf_mul(l[z], a)), l[y])
          = gf_add(gf_mul(b, l[y]), gf_mul(gf_mul(l[z], a), l[y]))
    BY <2>3, FieldLaws
  <2>5. gf_mul(gf_mul(l[z], a), l[y]) = gf_mul(l[z], gf_mul(a, l[y]))
    BY <1>0, <2>3, FieldLaws
  <2>. QED
    BY <2>1, <2>2, <2>4, <2>5
<1>. HIDE DEF p, F
<1>7. \A y \in F : p[0][y] = Zero
  <2>1. \A n \in Nat : n < m => SumOver(p[n], F) = Zero
    BY <1>5
  <2>2. \A n \in Nat : n + 1 < m => \A y \in F : p[n + 1][y] = gf_mul(p[n][y], l[y])
    BY <1>6
  <2>. QED
    BY <1>0, <1>1, <1>4, <2>1, <2>2 DEF Vanishing
<1>8. ASSUME NEW y \in F, m > 0  PROVE q[0][y] = Zero
  <2>1. y \in Cols /\ y \in E /\ y # z /\ l[y] \in Gf
    BY DEF F
  <2>2. q[0] \in [Cols -> Gf] /\ q[0][y] \in Gf
    BY <2>1
  <2>3. q[1][y] = gf_mul(q[0][y], l[y])
    <3>1. 0 \in Nat /\ 0 + 1 = 1 /\ 0 + 1 < m + 1
      BY <1>8
    <3>2. q[0 + 1][y] = gf_mul(q[0][y], l[y])
      BY <2>1, <3>1
    <3>. QED
      BY <3>1, <3>2
  <2>4. p[0][y] = gf_add(q[1][y], gf_mul(l[z], q[0][y]))
    <3>1. 0 \in Nat /\ 0 + 1 = 1
      OBVIOUS
    <3>2. p[0][y] = gf_add(q[0 + 1][y], gf_mul(l[z], q[0][y]))
      BY <1>3, <2>1, <3>1
    <3>. QED
      BY <3>1, <3>2
  <2>5. gf_mul(l[z], q[0][y]) = gf_mul(q[0][y], l[z])
    BY <1>0, <2>2, MulCommutes
  <2>6. gf_mul(q[0][y], gf_add(l[y], l[z])) = p[0][y]
    BY <1>0, <2>1, <2>2, <2>3, <2>4, <2>5, FieldLaws
  <2>7. gf_mul(q[0][y], gf_add(l[y], l[z])) = Zero
    BY <1>7, <2>6
  <2>8. gf_add(l[y], l[z]) # Zero
    BY <1>0, <2>1, AddLaws
  <2>9. gf_add(l[y], l[z]) \in Gf
    BY <1>0, <2>1, FieldTyped
  <2>. QED
    BY <2>2, <2>7, <2>8, <2>9, NoZeroDivisors
<1>9. \A y \in F : q[0][y] = Zero
  <2>1. CASE m > 0
    BY <1>8, <2>1
  <2>2. CASE m = 0
    <3>1. F = {}
      <4>1. IsFiniteSet(F)
        <5>1. IsFiniteSet(Cols)
          BY ColsFinite, FS_Interval DEF Cols
        <5>. QED
          BY <1>0, <5>1, FS_Subset
      <4>2. Cardinality(F) = 0
        BY <1>1, <2>2, <4>1, FS_CardinalityType
      <4>. QED
        BY <4>1, <4>2, FS_EmptySet
    <3>. QED
      BY <3>1
  <2>. QED
    BY <2>1, <2>2
<1>10. SumOver(q[0], F) = Zero
  <2>1. {} \in SUBSET F /\ \A y \in F \ {} : q[0][y] = Zero
    BY <1>9
  <2>2. SumOver(q[0], {}) = SumOver(q[0], F)
    BY ONLY <2>1, SumSame
  <2>. QED
    BY <2>2, SumNone
<1>11. SumOver(q[0], E) = gf_add(SumOver(q[0], F), q[0][z])
  <2>1. q[0] \in [Cols -> Gf]
    OBVIOUS
  <2>. QED
    BY <2>1, SumSplit DEF F
<1>12. SumOver(q[0], E) = Zero
  <2>1. 0 \in Nat /\ 0 < m + 1
    OBVIOUS
  <2>. QED
    BY <2>1
<1>. QED
  <2>1. q[0][z] \in Gf
    BY <1>0
  <2>. QED
    BY <1>10, <1>11, <1>12, <2>1, AddLaws

(* From no position at all, one after the other. *)
LEMMA Vandermonde ==
  ASSUME NEW l \in [Cols -> Gf], \A x, y \in Cols : l[x] = l[y] => x = y,
         NEW m \in Nat
  PROVE  Vanishing(l, m)
<1>. DEFINE P == {n \in Nat : Vanishing(l, n)}
<1>1. 0 \in P
  BY PositionsFinite DEF Vanishing
<1>2. \A n \in 0..(m - 1) : n \in P => n + 1 \in P
  BY VanishingStep
<1>. HIDE DEF P
<1>3. \A n \in 0..m : n \in P
  BY <1>1, <1>2, Upward
<1>. QED
  BY <1>3 DEF P

(* The values of e_inv, for one position of the support. *)
LEMMA EInvIs ==
  ASSUME NEW g \in Coeffs, NEW a \in Gf
  PROVE  /\ EInv(g, a) \in Syndromes
         /\ EInv(g, a)[0] = Reciprocal[Square(eval(g, a))]
         /\ \A k \in 1..(2 * SYS_T - 1) : EInv(g, a)[k] = gf_mul(EInv(g, a)[k - 1], a)
<1>1. IsPowers(EInv(g, a), Reciprocal[Square(eval(g, a))], a, 2 * SYS_T - 1)
  BY ColumnsExist
<1>2. Reciprocal[Square(eval(g, a))] \in Gf
  BY EvalIs, ReciprocalOfSquare, FieldTyped
<1>3. 2 * SYS_T - 1 \in Nat
  BY GoppaAssumption
<1>. QED
  BY <1>1, <1>2, <1>3, PowersAre DEF Syndromes

(* No column of synd is 0: the support has no root of g.                   *)
LEMMA EInvNotZero ==
  ASSUME NEW g \in Coeffs, NEW a \in Gf, eval(g, a) # Zero
  PROVE  EInv(g, a)[0] # Zero /\ EInv(g, a)[0] \in Gf
<1>. DEFINE v == eval(g, a)
            z == EInv(g, a)
<1>1. z[0] = Reciprocal[Square(v)]
  BY EInvIs
<1>2. v \in Gf /\ v # Zero
  BY EvalIs
<1>. HIDE DEF v, z
<1>3. Square(v) \in Gf /\ gf_mul(v, Reciprocal[Square(v)]) = Reciprocal[v]
  BY <1>2, ReciprocalOfSquare
<1>4. Reciprocal[v] # Zero
  <2>1. SUFFICES ASSUME Reciprocal[v] = Zero  PROVE FALSE
    OBVIOUS
  <2>2. Product[<<v, Reciprocal[v]>>] = One
    BY <1>2, FieldAssumption
  <2>3. Product[<<v, Zero>>] = Zero
    <3>1. Product[<<v, Zero>>] = gf_mul(v, Zero)
      BY <1>2, FieldTyped
    <3>. QED
      BY <1>2, <3>1, FieldLaws
  <2>. QED
    BY <2>1, <2>2, <2>3 DEF One, Zero
<1>5. Reciprocal[Square(v)] # Zero
  <2>1. gf_mul(v, Zero) = Zero
    BY <1>2, FieldLaws
  <2>. QED
    BY <1>3, <1>4, <2>1
<1>6. Reciprocal[Square(v)] \in Gf
  BY <1>3, FieldTyped
<1>. QED
  BY <1>1, <1>5, <1>6 DEF v, z

(***************************************************************************)
(* What a register makes of a geometric sequence is a geometric sequence.  *)
(***************************************************************************)
LEMMA AtGeometric ==
  ASSUME NEW p \in Coeffs, NEW a \in Gf, NEW z \in Syndromes,
         \A k \in 1..(2 * SYS_T - 1) : z[k] = gf_mul(z[k - 1], a),
         NEW m \in Nat, Degree(p, m),
         NEW x \in Nat, m <= x, x + 1 <= 2 * SYS_T - 1
  PROVE  At(p, z, x + 1) = gf_mul(At(p, z, x), a)
<1>. DEFINE f == Term(p, z, x)
            h == Term(p, z, x + 1)
            af == [k \in 0..SYS_T |-> gf_mul(a, f[k])]
<1>0. /\ SYS_T \in Nat /\ p \in [0..SYS_T -> Gf] /\ z \in [0..(2 * SYS_T - 1) -> Gf]
      /\ x \in 0..(2 * SYS_T - 1) /\ x + 1 \in 0..(2 * SYS_T - 1)
  BY GoppaAssumption DEF Coeffs, Syndromes
<1>1. f \in [0..SYS_T -> Gf]
  BY <1>0, TermTyped
<1>2. ASSUME NEW k \in 0..SYS_T  PROVE h[k] = gf_mul(a, f[k])
  <2>1. p[k] \in Gf
    BY <1>0
  <2>2. CASE k <= m
    <3>1. /\ k <= x /\ k <= x + 1 /\ x - k \in 0..(2 * SYS_T - 1)
          /\ x + 1 - k \in 1..(2 * SYS_T - 1) /\ (x + 1 - k) - 1 = x - k
      BY <1>0, <2>2
    <3>2. z[x + 1 - k] = gf_mul(z[x - k], a) /\ z[x - k] \in Gf
      <4>1. z[x + 1 - k] = gf_mul(z[(x + 1 - k) - 1], a)
        BY <3>1
      <4>. QED
        BY <1>0, <3>1, <4>1
    <3>3. h[k] = gf_mul(p[k], z[x + 1 - k]) /\ f[k] = gf_mul(p[k], z[x - k])
      BY <3>1 DEF Term
    <3>4. gf_mul(p[k], gf_mul(z[x - k], a)) = gf_mul(gf_mul(p[k], z[x - k]), a)
      BY <2>1, <3>2, FieldLaws
    <3>5. gf_mul(gf_mul(p[k], z[x - k]), a) = gf_mul(a, gf_mul(p[k], z[x - k]))
      BY <2>1, <3>2, MulTyped, MulCommutes
    <3>. QED
      BY <3>2, <3>3, <3>4, <3>5
  <2>3. CASE k > m
    <3>1. p[k] = Zero
      BY <2>3 DEF Degree
    <3>2. ASSUME NEW y \in 0..(2 * SYS_T - 1)  PROVE Term(p, z, y)[k] = Zero
      <4>1. Term(p, z, y)[k] = IF k <= y THEN gf_mul(p[k], z[y - k]) ELSE Zero
        BY DEF Term
      <4>2. k <= y => z[y - k] \in Gf
        BY TermTyped
      <4>. QED
        BY <3>1, <4>1, <4>2, FieldLaws
    <3>3. h[k] = Zero /\ f[k] = Zero
      BY <1>0, <3>2
    <3>. QED
      BY <3>3, FieldLaws
  <2>. QED
    BY <2>2, <2>3
<1>3. h = af
  <2>1. h = [k \in 0..SYS_T |-> h[k]]
    BY DEF Term
  <2>. HIDE DEF h, f
  <2>. QED
    BY <1>2, <2>1
<1>. HIDE DEF f
<1>4. SumOver(af, 0..SYS_T) = gf_mul(a, SumOver(f, 0..SYS_T))
  BY <1>0, <1>1, SumScale
<1>5. gf_mul(a, SumOver(f, 0..SYS_T)) = gf_mul(SumOver(f, 0..SYS_T), a)
  BY SumTyped, MulCommutes
<1>. QED
  BY <1>3, <1>4, <1>5 DEF At, f

(***************************************************************************)
(* What a register makes of the syndrome of the positions E is the sum of  *)
(* what it makes of the sequences of the single positions.                 *)
(***************************************************************************)
LEMMA AtOfSum ==
  ASSUME NEW g \in Coeffs, NEW l \in [Cols -> Gf], NEW p \in Coeffs,
         NEW x \in 0..(2 * SYS_T - 1), NEW E \in SUBSET Cols
  PROVE  At(p, synd(g, l, E), x)
           = SumOver([y \in Cols |-> At(p, EInv(g, l[y]), x)], E)
<1>. DEFINE I == [y \in Cols |-> At(p, EInv(g, l[y]), x)]
            F == [k \in 0..SYS_T |->
                    [y \in Cols |-> IF k <= x THEN EInv(g, l[y])[x - k] ELSE Zero]]
            sy == synd(g, l, E)
            Combined == [k \in 0..SYS_T |-> gf_mul(p[k], SumOver(F[k], E))]
<1>0. SYS_T \in Nat /\ p \in [0..SYS_T -> Gf]
  BY GoppaAssumption DEF Coeffs
<1>1. \A y \in Cols : EInv(g, l[y]) \in Syndromes
  BY EInvIs
<1>2. ASSUME NEW k \in 0..SYS_T, NEW y \in Cols
      PROVE  /\ F[k][y] \in Gf
             /\ gf_mul(p[k], F[k][y]) = Term(p, EInv(g, l[y]), x)[k]
  <2>1. F[k][y] = IF k <= x THEN EInv(g, l[y])[x - k] ELSE Zero
    OBVIOUS
  <2>. HIDE DEF F
  <2>2. k <= x => EInv(g, l[y])[x - k] \in Gf
    BY <1>1, TermTyped
  <2>3. p[k] \in Gf
    BY <1>0
  <2>4. Term(p, EInv(g, l[y]), x)[k]
          = IF k <= x THEN gf_mul(p[k], EInv(g, l[y])[x - k]) ELSE Zero
    BY DEF Term
  <2>. QED
    BY <2>1, <2>2, <2>3, <2>4, FieldLaws, FieldTyped
<1>3. F \in [0..SYS_T -> [Cols -> Gf]]
  <2>1. \A k \in 0..SYS_T :
          [y \in Cols |-> IF k <= x THEN EInv(g, l[y])[x - k] ELSE Zero] \in [Cols -> Gf]
    BY <1>2
  <2>. QED
    BY <2>1
<1>4. I \in [Cols -> Gf]
  BY SumTyped DEF At
<1>5. ASSUME NEW y \in Cols
      PROVE  SumOver([k \in 0..SYS_T |-> gf_mul(p[k], F[k][y])], 0..SYS_T) = I[y]
  <2>1. I[y] = SumOver(Term(p, EInv(g, l[y]), x), 0..SYS_T)
    BY DEF At
  <2>2. Term(p, EInv(g, l[y]), x) = [k \in 0..SYS_T |-> Term(p, EInv(g, l[y]), x)[k]]
    BY DEF Term
  <2>. HIDE DEF F, I
  <2>3. [k \in 0..SYS_T |-> gf_mul(p[k], F[k][y])]
          = [k \in 0..SYS_T |-> Term(p, EInv(g, l[y]), x)[k]]
    BY <1>2
  <2>. QED
    BY <2>1, <2>2, <2>3
<1>6. ASSUME NEW k \in 0..SYS_T
      PROVE  Combined[k] = Term(p, sy, x)[k]
  <2>1. Combined[k] = gf_mul(p[k], SumOver(F[k], E))
    OBVIOUS
  <2>2. Term(p, sy, x)[k] = IF k <= x THEN gf_mul(p[k], sy[x - k]) ELSE Zero
    BY DEF Term
  <2>3. CASE k <= x
    <3>1. x - k \in 0..(2 * SYS_T - 1)
      BY <1>0, <2>3
    <3>2. sy[x - k] = SumOver([y \in E |-> EInv(g, l[y])[x - k]], E)
      BY <3>1, SyndIs
    <3>3. \A y \in E : F[k][y] = [w \in E |-> EInv(g, l[w])[x - k]][y]
      BY <2>3
    <3>. HIDE DEF F
    <3>4. SumOver(F[k], E) = SumOver([y \in E |-> EInv(g, l[y])[x - k]], E)
      BY <3>3, SumSame
    <3>. HIDE DEF Combined, sy
    <3>. QED
      BY <2>1, <2>2, <2>3, <3>2, <3>4
  <2>4. CASE ~ k <= x
    <3>1. {} \in SUBSET E /\ \A y \in E \ {} : F[k][y] = Zero
      BY <2>4
    <3>. HIDE DEF F
    <3>2. SumOver(F[k], {}) = SumOver(F[k], E)
      BY ONLY <3>1, SumSame
    <3>3. gf_mul(p[k], Zero) = Zero
      BY <1>0, FieldLaws
    <3>. HIDE DEF Combined, sy
    <3>. QED
      BY <2>1, <2>2, <2>4, <3>2, <3>3, SumNone
  <2>. QED
    BY <2>3, <2>4
<1>7. Combined = Term(p, sy, x)
  <2>1. Term(p, sy, x) = [k \in 0..SYS_T |-> Term(p, sy, x)[k]]
    BY DEF Term
  <2>2. Combined = [k \in 0..SYS_T |-> Combined[k]]
    OBVIOUS
  <2>. HIDE DEF Combined, sy
  <2>. QED
    BY <1>6, <2>1, <2>2
<1>. HIDE DEF I, F
<1>8. SumOver(I, E) = SumOver(Combined, 0..SYS_T)
  <2>1. ASSUME NEW J \in [Cols -> Gf], NEW H \in [0..SYS_T -> [Cols -> Gf]],
               \A y \in Cols :
                 SumOver([k \in 0..SYS_T |-> gf_mul(p[k], H[k][y])], 0..SYS_T) = J[y]
        PROVE  \A u \in SUBSET Cols :
                 SumOver(J, u)
                   = SumOver([k \in 0..SYS_T |-> gf_mul(p[k], SumOver(H[k], u))], 0..SYS_T)
    BY <2>1, Interchange, Zenon
  <2>2. \A y \in Cols :
          SumOver([k \in 0..SYS_T |-> gf_mul(p[k], F[k][y])], 0..SYS_T) = I[y]
    BY <1>5
  <2>. QED
    BY <1>3, <1>4, <2>1, <2>2, Zenon
<1>. HIDE DEF Combined, sy
<1>. QED
  BY <1>7, <1>8 DEF At, I, sy

(***************************************************************************)
(* A register that explains SYS_T places of the syndrome of at most SYS_T  *)
(* positions explains the sequence of each of them, everywhere.            *)
(***************************************************************************)
LEMMA Annihilates ==
  ASSUME NEW g \in Coeffs, NEW l \in [Cols -> Gf],
         \A x, y \in Cols : l[x] = l[y] => x = y,
         NEW E \in SUBSET Cols, Cardinality(E) <= SYS_T,
         NEW p \in Coeffs, NEW m \in 0..SYS_T, Degree(p, m),
         \A x \in m..(m + SYS_T - 1) : At(p, synd(g, l, E), x) = Zero
  PROVE  \A y \in E : \A x \in m..(2 * SYS_T - 1) : At(p, EInv(g, l[y]), x) = Zero
<1>. DEFINE q == [n \in Nat |-> [y \in Cols |->
                    IF n < SYS_T THEN At(p, EInv(g, l[y]), m + n) ELSE Zero]]
<1>0. SYS_T \in Nat \ {0} /\ m \in Nat /\ m <= SYS_T
  BY GoppaAssumption
<1>1. ASSUME NEW y \in Cols, NEW x \in Nat, m <= x, x + 1 <= 2 * SYS_T - 1
      PROVE  At(p, EInv(g, l[y]), x + 1) = gf_mul(At(p, EInv(g, l[y]), x), l[y])
  <2>1. l[y] \in Gf
    OBVIOUS
  <2>2. /\ EInv(g, l[y]) \in Syndromes
        /\ \A k \in 1..(2 * SYS_T - 1) :
             EInv(g, l[y])[k] = gf_mul(EInv(g, l[y])[k - 1], l[y])
    BY <2>1, EInvIs
  <2>. QED
    BY <1>0, <1>1, <2>1, <2>2, AtGeometric
<1>2. q \in [Nat -> [Cols -> Gf]]
  <2>1. \A n \in Nat :
          [y \in Cols |-> IF n < SYS_T THEN At(p, EInv(g, l[y]), m + n) ELSE Zero]
            \in [Cols -> Gf]
    BY SumTyped, FieldTyped DEF At
  <2>. QED
    BY <2>1
<1>3. ASSUME NEW n \in Nat, n < SYS_T
      PROVE  /\ q[n] = [y \in Cols |-> At(p, EInv(g, l[y]), m + n)]
             /\ \A y \in Cols : q[n][y] = At(p, EInv(g, l[y]), m + n)
             /\ m + n \in 0..(2 * SYS_T - 1) /\ m + n \in m..(m + SYS_T - 1)
  BY <1>0, <1>3
<1>. HIDE DEF q
<1>4. ASSUME NEW n \in Nat, n + 1 < SYS_T, NEW y \in E
      PROVE  q[n + 1][y] = gf_mul(q[n][y], l[y])
  <2>1. /\ n + 1 \in Nat /\ n < SYS_T /\ m + n \in Nat /\ m + (n + 1) = (m + n) + 1
        /\ m <= m + n /\ (m + n) + 1 <= 2 * SYS_T - 1 /\ y \in Cols
    BY <1>0, <1>4
  <2>2. q[n][y] = At(p, EInv(g, l[y]), m + n)
    BY <1>3, <2>1
  <2>3. q[n + 1][y] = At(p, EInv(g, l[y]), m + (n + 1))
    BY <1>3, <1>4, <2>1
  <2>. QED
    BY <1>1, <2>1, <2>2, <2>3
<1>5. ASSUME NEW n \in Nat, n < SYS_T  PROVE SumOver(q[n], E) = Zero
  <2>1. /\ q[n] = [y \in Cols |-> At(p, EInv(g, l[y]), m + n)]
        /\ m + n \in 0..(2 * SYS_T - 1) /\ m + n \in m..(m + SYS_T - 1)
    BY <1>3, <1>5
  <2>2. At(p, synd(g, l, E), m + n)
          = SumOver([y \in Cols |-> At(p, EInv(g, l[y]), m + n)], E)
    BY <2>1, AtOfSum
  <2>. QED
    BY <2>1, <2>2
<1>6. Vanishing(l, SYS_T)
  BY <1>0, Vandermonde
<1>7. \A y \in E : q[0][y] = Zero
  BY <1>2, <1>4, <1>5, <1>6 DEF Vanishing
<1>8. ASSUME NEW y \in E
      PROVE  \A x \in m..(2 * SYS_T - 1) : At(p, EInv(g, l[y]), x) = Zero
  <2>. DEFINE P == {n \in 0..(2 * SYS_T - 1 - m) : At(p, EInv(g, l[y]), m + n) = Zero}
              k == 2 * SYS_T - 1 - m
  <2>1. k \in Nat /\ y \in Cols /\ l[y] \in Gf
    BY <1>0
  <2>2. 0 \in P
    <3>1. 0 \in Nat /\ 0 < SYS_T
      BY <1>0
    <3>2. q[0][y] = At(p, EInv(g, l[y]), m + 0)
      BY <1>3, <2>1, <3>1
    <3>. QED
      BY <1>7, <2>1, <3>2
  <2>3. ASSUME NEW n \in 0..(k - 1), n \in P  PROVE n + 1 \in P
    <3>1. /\ n + 1 \in 0..k /\ m + n \in Nat /\ m <= m + n
          /\ (m + n) + 1 <= 2 * SYS_T - 1 /\ m + (n + 1) = (m + n) + 1
      BY <1>0
    <3>2. At(p, EInv(g, l[y]), (m + n) + 1) = gf_mul(At(p, EInv(g, l[y]), m + n), l[y])
      BY <1>1, <2>1, <3>1
    <3>. QED
      BY <2>1, <2>3, <3>1, <3>2, FieldLaws
  <2>. HIDE DEF P, k
  <2>4. \A n \in 0..k : n \in P
    BY <2>1, <2>2, <2>3, Upward
  <2>5. ASSUME NEW x \in m..(2 * SYS_T - 1)  PROVE At(p, EInv(g, l[y]), x) = Zero
    <3>1. x - m \in 0..k /\ m + (x - m) = x
      BY <1>0 DEF k
    <3>. QED
      BY <2>4, <3>1 DEF P
  <2>. QED
    BY <2>5
<1>. QED
  BY <1>8

(* The leading coefficient, in Horner's rule. *)
LEMMA HornerDegree ==
  ASSUME NEW f \in Coeffs, NEW b \in Gf, NEW r, IsHorner(r, f, b),
         NEW m \in 0..SYS_T, Degree(f, m)
  PROVE  r[m] = f[m] /\ \A k \in 0..SYS_T : k > m => r[k] = Zero
<1>0. SYS_T \in Nat /\ f \in [0..SYS_T -> Gf]
  BY GoppaAssumption DEF Coeffs
<1>1. /\ r \in [0..SYS_T -> Gf]
      /\ r[SYS_T] = f[SYS_T]
      /\ \A n \in 0..(SYS_T - 1) : r[n] = gf_add(gf_mul(r[n + 1], b), f[n])
  BY HornerExists
<1>. DEFINE P == {k \in 0..SYS_T : k > m => r[k] = Zero}
<1>2. SYS_T \in P
  BY <1>0, <1>1 DEF Degree
<1>3. ASSUME NEW k \in 0..(SYS_T - 1), k + 1 \in P  PROVE k \in P
  <2>1. k \in 0..SYS_T
    BY <1>0
  <2>2. ASSUME k > m  PROVE r[k] = Zero
    <3>1. r[k + 1] = Zero /\ f[k] = Zero
      BY <1>3, <2>1, <2>2 DEF Degree
    <3>2. gf_add(gf_mul(Zero, b), Zero) = Zero
      BY FieldLaws, AddLaws, FieldTyped
    <3>. HIDE DEF P
    <3>. QED
      BY <1>1, <3>1, <3>2
  <2>. QED
    BY <2>1, <2>2
<1>. HIDE DEF P
<1>4. \A k \in 0..SYS_T : k \in P
  BY <1>0, <1>2, <1>3, Downward
<1>5. \A k \in 0..SYS_T : k > m => r[k] = Zero
  BY <1>4 DEF P
<1>6. r[m] = f[m]
  <2>1. CASE m = SYS_T
    BY <1>1, <2>1
  <2>2. CASE m # SYS_T
    <3>1. m \in 0..(SYS_T - 1) /\ m + 1 \in 0..SYS_T /\ m + 1 > m
      BY <1>0, <2>2
    <3>2. r[m + 1] = Zero
      BY <1>5, <3>1
    <3>3. gf_add(gf_mul(Zero, b), f[m]) = f[m]
      <4>1. f[m] \in Gf
        BY <1>0
      <4>. QED
        BY <4>1, FieldLaws, AddLaws
    <3>. QED
      BY <1>1, <3>1, <3>2, <3>3
  <2>. QED
    BY <2>1, <2>2
<1>. QED
  BY <1>5, <1>6

(***************************************************************************)
(* f(a) - f(b) is (a - b) q(a), where the coefficients of q are the        *)
(* intermediate values of Horner's rule for f(b).                          *)
(***************************************************************************)
LEMMA Quotient ==
  ASSUME NEW f \in Coeffs, NEW b \in Gf
  PROVE  \E q \in Coeffs :
           /\ \A a \in Gf : gf_add(eval(f, a), eval(f, b)) = gf_mul(gf_add(a, b), eval(q, a))
           /\ \A m \in 1..SYS_T : Degree(f, m) => Degree(q, m - 1) /\ q[m - 1] = f[m]
<1>0. SYS_T \in Nat /\ SYS_T # 0 /\ f \in [0..SYS_T -> Gf]
  BY GoppaAssumption DEF Coeffs
<1>1. PICK r : IsHorner(r, f, b) /\ eval(f, b) = r[0]
  BY EvalIs
<1>2. /\ r \in [0..SYS_T -> Gf]
      /\ r[SYS_T] = f[SYS_T]
      /\ \A n \in 0..(SYS_T - 1) : r[n] = gf_add(gf_mul(r[n + 1], b), f[n])
  BY <1>1, HornerExists
<1>. DEFINE q == [k \in 0..SYS_T |-> IF k = SYS_T THEN Zero ELSE r[k + 1]]
<1>3. /\ q \in Coeffs
      /\ q[SYS_T] = Zero
      /\ \A k \in 0..(SYS_T - 1) : q[k] = r[k + 1]
  <2>1. \A k \in 0..SYS_T : k # SYS_T => k + 1 \in 0..SYS_T
    BY <1>0
  <2>2. \A k \in 0..SYS_T : (IF k = SYS_T THEN Zero ELSE r[k + 1]) \in Gf
    BY <1>2, <2>1, FieldTyped
  <2>3. \A k \in 0..(SYS_T - 1) : k \in 0..SYS_T /\ k # SYS_T
    BY <1>0
  <2>. QED
    BY <1>0, <2>2, <2>3 DEF Coeffs
<1>. HIDE DEF q
<1>4. ASSUME NEW a \in Gf
      PROVE  gf_add(eval(f, a), eval(f, b)) = gf_mul(gf_add(a, b), eval(q, a))
  <2>1. PICK u : IsHorner(u, f, a) /\ eval(f, a) = u[0]
    BY EvalIs
  <2>2. PICK v : IsHorner(v, q, a) /\ eval(q, a) = v[0]
    BY <1>3, EvalIs
  <2>3. /\ u \in [0..SYS_T -> Gf]
        /\ u[SYS_T] = f[SYS_T]
        /\ \A n \in 0..(SYS_T - 1) : u[n] = gf_add(gf_mul(u[n + 1], a), f[n])
    BY <2>1, HornerExists
  <2>4. /\ v \in [0..SYS_T -> Gf]
        /\ v[SYS_T] = q[SYS_T]
        /\ \A n \in 0..(SYS_T - 1) : v[n] = gf_add(gf_mul(v[n + 1], a), q[n])
    BY <1>3, <2>2, HornerExists
  <2>. DEFINE d == gf_add(a, b)
              P == {k \in 0..SYS_T : gf_add(u[k], r[k]) = gf_mul(d, v[k])}
  <2>5. d \in Gf
    BY FieldTyped
  <2>6. SYS_T \in P
    <3>1. gf_add(u[SYS_T], r[SYS_T]) = Zero
      BY <1>2, <2>3, AddLaws
    <3>2. gf_mul(d, v[SYS_T]) = Zero
      <4>. HIDE DEF d
      <4>. QED
        BY <1>3, <2>4, <2>5, FieldLaws
    <3>. QED
      BY <1>0, <3>1, <3>2
  <2>7. ASSUME NEW k \in 0..(SYS_T - 1), k + 1 \in P  PROVE k \in P
    <3>. DEFINE U == u[k + 1]
                V == v[k + 1]
                R == r[k + 1]
    <3>0. k \in 0..SYS_T /\ k + 1 \in 0..SYS_T
      BY <1>0
    <3>1. /\ U \in Gf /\ V \in Gf /\ R \in Gf /\ f[k] \in Gf
          /\ u[k] = gf_add(gf_mul(U, a), f[k])
          /\ r[k] = gf_add(gf_mul(R, b), f[k])
          /\ v[k] = gf_add(gf_mul(V, a), R)
      BY <1>0, <1>2, <1>3, <2>3, <2>4, <3>0
    <3>2. gf_add(U, R) = gf_mul(d, V)
      BY <2>7
    <3>. HIDE DEF U, V, R
    <3>3. gf_mul(d, v[k]) = gf_add(gf_mul(U, a), gf_mul(R, b))
      <4>1. gf_mul(V, a) \in Gf /\ gf_mul(d, V) \in Gf /\ gf_mul(U, a) \in Gf
            /\ gf_mul(R, a) \in Gf /\ gf_mul(R, b) \in Gf
        BY <2>5, <3>1, MulTyped
      <4>2. gf_mul(d, v[k]) = gf_add(gf_mul(d, gf_mul(V, a)), gf_mul(d, R))
        <5>. HIDE DEF d
        <5>. QED
          BY <2>5, <3>1, <4>1, FieldLaws
      <4>3. gf_mul(d, gf_mul(V, a)) = gf_add(gf_mul(U, a), gf_mul(R, a))
        <5>1. gf_mul(d, gf_mul(V, a)) = gf_mul(gf_mul(d, V), a)
          <6>. HIDE DEF d
          <6>. QED
            BY <2>5, <3>1, FieldLaws
        <5>2. gf_mul(gf_add(U, R), a) = gf_add(gf_mul(U, a), gf_mul(R, a))
          BY <3>1, FieldLaws
        <5>. QED
          BY <3>2, <5>1, <5>2
      <4>4. gf_mul(d, R) = gf_add(gf_mul(R, a), gf_mul(R, b))
        <5>1. gf_mul(d, R) = gf_add(gf_mul(a, R), gf_mul(b, R))
          BY <3>1, FieldLaws
        <5>2. gf_mul(a, R) = gf_mul(R, a) /\ gf_mul(b, R) = gf_mul(R, b)
          BY <3>1, MulCommutes
        <5>. QED
          BY <5>1, <5>2
      <4>5. ASSUME NEW x, NEW y, NEW w
            PROVE  gf_add(gf_add(x, y), gf_add(y, w)) = gf_add(x, w)
        BY DEF gf_add, SymDiff
      <4>. HIDE DEF d
      <4>. QED
        BY <4>2, <4>3, <4>4, <4>5
    <3>4. gf_add(u[k], r[k]) = gf_add(gf_mul(U, a), gf_mul(R, b))
      <4>1. ASSUME NEW x, NEW y, NEW w
            PROVE  gf_add(gf_add(x, w), gf_add(y, w)) = gf_add(x, y)
        BY DEF gf_add, SymDiff
      <4>. QED
        BY <3>1, <4>1
    <3>. QED
      BY <3>0, <3>3, <3>4
  <2>. HIDE DEF P
  <2>8. \A k \in 0..SYS_T : k \in P
    BY <1>0, <2>6, <2>7, Downward
  <2>9. 0 \in P
    BY <1>0, <2>8
  <2>. QED
    BY <1>1, <2>1, <2>2, <2>9 DEF P
<1>5. ASSUME NEW m \in 1..SYS_T, Degree(f, m)
      PROVE  Degree(q, m - 1) /\ q[m - 1] = f[m]
  <2>1. m \in 0..SYS_T /\ m - 1 \in 0..(SYS_T - 1) /\ (m - 1) + 1 = m
    BY <1>0
  <2>2. r[m] = f[m] /\ \A k \in 0..SYS_T : k > m => r[k] = Zero
    BY <1>1, <1>5, <2>1, HornerDegree
  <2>3. q[m - 1] = f[m]
    BY <1>3, <2>1, <2>2
  <2>4. ASSUME NEW k \in 0..SYS_T, k > m - 1  PROVE q[k] = Zero
    <3>1. CASE k = SYS_T
      BY <1>3, <3>1
    <3>2. CASE k # SYS_T
      <4>1. k \in 0..(SYS_T - 1) /\ k + 1 \in 0..SYS_T /\ k + 1 > m
        BY <1>0, <2>4, <3>2
      <4>. QED
        BY <1>3, <2>2, <4>1
    <3>. QED
      BY <3>1, <3>2
  <2>. QED
    BY <2>3, <2>4 DEF Degree
<1>. QED
  BY <1>3, <1>4, <1>5

(***************************************************************************)
(* A polynomial of degree m is 0 at no more than m positions.              *)
(***************************************************************************)
HasFewRoots(l, m) ==
  \A f \in Coeffs, S \in SUBSET Cols :
    /\ Degree(f, m) /\ f[m] # Zero
    /\ \A y \in S : eval(f, l[y]) = Zero
    => Cardinality(S) <= m

(* One root less, with the quotient by its linear factor. *)
LEMMA FewRoots ==
  ASSUME NEW l \in [Cols -> Gf], \A x, y \in Cols : l[x] = l[y] => x = y
  PROVE  \A m \in 0..SYS_T : HasFewRoots(l, m)
<1>0. SYS_T \in Nat
  BY GoppaAssumption
<1>1. HasFewRoots(l, 0)
  <2>. SUFFICES ASSUME NEW f \in Coeffs, NEW S \in SUBSET Cols,
                       Degree(f, 0), f[0] # Zero, NEW y \in S,
                       eval(f, l[y]) = Zero
                PROVE  FALSE
    BY PositionsFinite DEF HasFewRoots
  <2>1. PICK r : IsHorner(r, f, l[y]) /\ eval(f, l[y]) = r[0]
    BY EvalIs
  <2>2. 0 \in 0..SYS_T /\ l[y] \in Gf
    BY <1>0
  <2>3. r[0] = f[0]
    BY <2>1, <2>2, HornerDegree
  <2>. QED
    BY <2>1, <2>3
<1>2. ASSUME NEW m \in 1..SYS_T, HasFewRoots(l, m - 1)  PROVE HasFewRoots(l, m)
  <2>. SUFFICES ASSUME NEW f \in Coeffs, NEW S \in SUBSET Cols,
                       Degree(f, m), f[m] # Zero,
                       \A y \in S : eval(f, l[y]) = Zero,
                       NEW z \in S
                PROVE  Cardinality(S) <= m
    BY PositionsFinite, <1>0 DEF HasFewRoots
  <2>1. z \in Cols /\ l[z] \in Gf
    OBVIOUS
  <2>2. PICK q \in Coeffs :
          /\ \A a \in Gf : gf_add(eval(f, a), eval(f, l[z])) = gf_mul(gf_add(a, l[z]), eval(q, a))
          /\ \A j \in 1..SYS_T : Degree(f, j) => Degree(q, j - 1) /\ q[j - 1] = f[j]
    BY <2>1, Quotient
  <2>3. Degree(q, m - 1) /\ q[m - 1] # Zero
    BY <2>2
  <2>4. ASSUME NEW y \in S \ {z}  PROVE eval(q, l[y]) = Zero
    <3>1. y \in Cols /\ l[y] \in Gf /\ eval(q, l[y]) \in Gf
      BY EvalIs
    <3>2. gf_add(eval(f, l[y]), eval(f, l[z])) = Zero
      BY AddLaws
    <3>3. gf_mul(gf_add(l[y], l[z]), eval(q, l[y])) = Zero
      BY <2>2, <3>1, <3>2
    <3>4. gf_add(l[y], l[z]) # Zero /\ gf_add(l[y], l[z]) \in Gf
      BY <2>1, <3>1, AddLaws, FieldTyped
    <3>. QED
      BY <3>1, <3>3, <3>4, NoZeroDivisors
  <2>5. Cardinality(S \ {z}) <= m - 1
    BY <1>2, <2>3, <2>4 DEF HasFewRoots
  <2>. QED
    BY <1>0, <2>5, PositionsFinite
<1>. DEFINE P == {m \in 0..SYS_T : HasFewRoots(l, m)}
<1>3. 0 \in P
  BY <1>0, <1>1
<1>4. ASSUME NEW m \in 0..(SYS_T - 1), m \in P  PROVE m + 1 \in P
  <2>1. m + 1 \in 1..SYS_T /\ m + 1 \in 0..SYS_T /\ (m + 1) - 1 = m
    BY <1>0
  <2>. QED
    BY <1>2, <1>4, <2>1
<1>. HIDE DEF P
<1>5. \A m \in 0..SYS_T : m \in P
  BY <1>0, <1>3, <1>4, Upward
<1>. QED
  BY <1>5 DEF P

(***************************************************************************)
(* Squares.  In characteristic 2 the square of a sum is the sum of the     *)
(* squares, so the even places of the syndrome are squares of the sums     *)
(* that pk_gen works with.                                                 *)
(***************************************************************************)
LEMMA SquareOfSum ==
  ASSUME NEW a \in Gf, NEW b \in Gf
  PROVE  Square(a) \in Gf /\ Square(gf_add(a, b)) = gf_add(Square(a), Square(b))
<1>1. \A x \in Gf : Square(x) = gf_mul(x, x) /\ Square(x) \in Gf
  BY FieldTyped DEF Square
<1>2. gf_add(a, b) \in Gf
  BY FieldTyped
<1>3. gf_mul(gf_add(a, b), gf_add(a, b))
        = gf_add(gf_mul(a, gf_add(a, b)), gf_mul(b, gf_add(a, b)))
  BY <1>2, FieldLaws
<1>4. gf_mul(a, gf_add(a, b)) = gf_add(gf_mul(a, a), gf_mul(a, b))
  BY FieldLaws
<1>5. gf_mul(b, gf_add(a, b)) = gf_add(gf_mul(a, b), gf_mul(b, b))
  <2>1. gf_mul(b, gf_add(a, b)) = gf_add(gf_mul(b, a), gf_mul(b, b))
    BY FieldLaws
  <2>. QED
    BY <2>1, MulCommutes
<1>6. ASSUME NEW x, NEW y, NEW w
      PROVE  gf_add(gf_add(x, y), gf_add(y, w)) = gf_add(x, w)
  BY DEF gf_add, SymDiff
<1>. QED
  BY <1>1, <1>2, <1>3, <1>4, <1>5, <1>6

(* And of a sum over a set of positions. *)
LEMMA SquareOfSums ==
  ASSUME NEW f \in [Cols -> Gf]
  PROVE  \A S \in SUBSET Cols :
           SumOver([y \in Cols |-> Square(f[y])], S) = Square(SumOver(f, S))
<1>. DEFINE q == [y \in Cols |-> Square(f[y])]
            P == {S \in SUBSET Cols : SumOver(q, S) = Square(SumOver(f, S))}
<1>1. \A y \in Cols : q[y] = Square(f[y]) /\ q[y] \in Gf /\ f[y] \in Gf
  <2>1. \A y \in Cols : f[y] \in Gf
    OBVIOUS
  <2>. QED
    BY <2>1, SquareOfSum
<1>. HIDE DEF q
<1>2. {} \in P
  <2>1. Square(Zero) = Zero
    BY FieldLaws, FieldTyped DEF Square
  <2>. QED
    BY <2>1, SumNone
<1>3. ASSUME NEW A \in P, NEW j \in Cols \ A  PROVE A \cup {j} \in P
  <2>1. A \in SUBSET Cols /\ IsFiniteSet(A) /\ j \notin A /\ j \in Cols
        /\ SumOver(q, A) = Square(SumOver(f, A))
    BY PositionsFinite
  <2>2. SumOver(q, A \cup {j}) = gf_add(SumOver(q, A), q[j])
    BY <1>1, <2>1, SumStep
  <2>3. SumOver(f, A \cup {j}) = gf_add(SumOver(f, A), f[j])
    BY <1>1, <2>1, SumStep
  <2>4. Square(gf_add(SumOver(f, A), f[j])) = gf_add(Square(SumOver(f, A)), Square(f[j]))
    BY <1>1, <2>1, SumTyped, SquareOfSum
  <2>. QED
    BY <1>1, <2>1, <2>2, <2>3, <2>4
<1>. HIDE DEF P
<1>4. \A S \in SUBSET Cols : S \in P
  BY <1>2, <1>3, ColsFinite, SubsetInduction DEF Cols
<1>. QED
  BY <1>4 DEF P, q

(* 1 / x^2 is the square of 1 / x. *)
LEMMA SquareOfReciprocal ==
  ASSUME NEW x \in Gf
  PROVE  Reciprocal[Square(x)] = Square(Reciprocal[x])
<1>. DEFINE R == Reciprocal[x]
            Q == Reciprocal[Square(x)]
<1>1. R \in Gf /\ Q \in Gf /\ gf_mul(x, Q) = R
  BY ReciprocalOfSquare, FieldTyped
<1>2. Square(R) = gf_mul(R, R)
  <2>. HIDE DEF R
  <2>. QED
    BY <1>1, FieldTyped DEF Square
<1>3. CASE x = Zero
  <2>1. Square(Zero) = Zero
    BY FieldLaws, FieldTyped DEF Square
  <2>2. Reciprocal[Zero] = Zero
    BY FieldAssumption
  <2>. QED
    BY <1>3, <2>1, <2>2
<1>4. CASE x # Zero
  <2>1. gf_mul(gf_mul(R, Q), x) = Q
    BY <1>1, <1>4, FieldLaws
  <2>. HIDE DEF R, Q
  <2>2. gf_mul(gf_mul(R, Q), x) = gf_mul(R, gf_mul(Q, x))
    BY <1>1, FieldLaws
  <2>3. gf_mul(Q, x) = gf_mul(x, Q)
    BY <1>1, MulCommutes
  <2>. QED
    BY <1>1, <1>2, <2>1, <2>2, <2>3 DEF R, Q
<1>. QED
  BY <1>3, <1>4

(* Every second power of synd is the square of one of pk_gen. *)
LEMMA EvenPlace ==
  ASSUME NEW g \in Coeffs, NEW a \in Gf, NEW n \in 0..(SYS_T - 1)
  PROVE  /\ Powers(a, eval(g, a))[n] \in Gf
         /\ EInv(g, a)[2 * n] = Square(Powers(a, eval(g, a))[n])
<1>. DEFINE P == Powers(a, eval(g, a))
            Q == EInv(g, a)
            S == {k \in 0..(SYS_T - 1) : Q[2 * k] = Square(P[k])}
<1>0. SYS_T \in Nat /\ SYS_T # 0 /\ SYS_T - 1 \in Nat
  BY GoppaAssumption
<1>1. /\ P \in [0..(SYS_T - 1) -> Gf]
      /\ P[0] = Reciprocal[eval(g, a)]
      /\ \A k \in 1..(SYS_T - 1) : P[k] = gf_mul(P[k - 1], a)
  <2>1. IsPowers(P, Reciprocal[eval(g, a)], a, SYS_T - 1)
    BY ColumnsExist
  <2>2. Reciprocal[eval(g, a)] \in Gf
    BY EvalIs, FieldTyped
  <2>. HIDE DEF P
  <2>. QED
    BY <1>0, <2>1, <2>2, PowersAre
<1>2. /\ Q \in [0..(2 * SYS_T - 1) -> Gf]
      /\ Q[0] = Reciprocal[Square(eval(g, a))]
      /\ \A k \in 1..(2 * SYS_T - 1) : Q[k] = gf_mul(Q[k - 1], a)
  BY EInvIs DEF Syndromes
<1>. HIDE DEF P, Q
<1>3. 0 \in S
  <2>1. Q[2 * 0] = Square(P[0])
    BY <1>1, <1>2, EvalIs, SquareOfReciprocal
  <2>. QED
    BY <1>0, <2>1
<1>4. ASSUME NEW k \in 0..((SYS_T - 1) - 1), k \in S  PROVE k + 1 \in S
  <2>1. /\ k \in 0..(SYS_T - 1) /\ k + 1 \in 1..(SYS_T - 1) /\ (k + 1) - 1 = k
        /\ 2 * k \in 0..(2 * SYS_T - 1)
        /\ 2 * k + 1 \in 1..(2 * SYS_T - 1) /\ (2 * k + 1) - 1 = 2 * k
        /\ 2 * (k + 1) \in 1..(2 * SYS_T - 1) /\ 2 * (k + 1) - 1 = 2 * k + 1
        /\ k + 1 \in 0..(SYS_T - 1)
    BY <1>0
  <2>. DEFINE x == P[k]
              y == Q[2 * k]
  <2>2. x \in Gf /\ y \in Gf /\ y = gf_mul(x, x)
    <3>1. x \in Gf /\ y \in Gf /\ y = Square(x)
      BY <1>1, <1>2, <1>4, <2>1
    <3>. HIDE DEF x, y
    <3>. QED
      BY <3>1, FieldTyped DEF Square
  <2>3. P[k + 1] = gf_mul(x, a)
    <3>1. P[k + 1] = gf_mul(P[(k + 1) - 1], a)
      BY <1>1, <2>1
    <3>. QED
      BY <2>1, <3>1
  <2>4. Q[2 * (k + 1)] = gf_mul(gf_mul(y, a), a)
    <3>1. Q[2 * k + 1] = gf_mul(Q[(2 * k + 1) - 1], a)
      BY <1>2, <2>1
    <3>2. Q[2 * (k + 1)] = gf_mul(Q[2 * (k + 1) - 1], a)
      BY <1>2, <2>1
    <3>. QED
      BY <2>1, <3>1, <3>2
  <2>. HIDE DEF x, y
  <2>5. gf_mul(gf_mul(gf_mul(x, x), a), a) = gf_mul(gf_mul(x, a), gf_mul(x, a))
    <3>1. gf_mul(x, a) \in Gf /\ gf_mul(x, x) \in Gf
      BY <2>2, MulTyped
    <3>2. gf_mul(gf_mul(x, x), a) = gf_mul(x, gf_mul(x, a))
      BY <2>2, FieldLaws
    <3>3. gf_mul(x, gf_mul(x, a)) = gf_mul(gf_mul(x, a), x)
      BY <2>2, <3>1, MulCommutes
    <3>4. gf_mul(gf_mul(gf_mul(x, a), x), a) = gf_mul(gf_mul(x, a), gf_mul(x, a))
      BY <2>2, <3>1, FieldLaws
    <3>. QED
      BY <3>2, <3>3, <3>4
  <2>6. Square(gf_mul(x, a)) = gf_mul(gf_mul(x, a), gf_mul(x, a))
    <3>1. gf_mul(x, a) \in Gf
      BY <2>2, MulTyped
    <3>. QED
      BY <3>1, FieldTyped DEF Square
  <2>. QED
    BY <2>1, <2>2, <2>3, <2>4, <2>5, <2>6
<1>. HIDE DEF S
<1>5. \A k \in 0..(SYS_T - 1) : k \in S
  BY <1>0, <1>3, <1>4, Upward
<1>6. P[n] \in Gf
  BY <1>1
<1>. QED
  BY <1>5, <1>6 DEF S, P, Q

(* So is its sum over a set of positions. *)
LEMMA EvenSum ==
  ASSUME NEW g \in Coeffs, NEW l \in [Cols -> Gf], NEW c \in SUBSET Cols,
         NEW n \in 0..(SYS_T - 1)
  PROVE  synd(g, l, c)[2 * n] = Square(SumOver(Inv(g, l, n), c))
<1>. DEFINE I == Inv(g, l, n)
            f == [x \in c |-> EInv(g, l[x])[2 * n]]
            q == [x \in Cols |-> Square(I[x])]
<1>1. 2 * n \in 0..(2 * SYS_T - 1)
  BY GoppaAssumption
<1>2. synd(g, l, c)[2 * n] = SumOver(f, c)
  BY <1>1, SyndIs
<1>3. \A x \in Cols : l[x] \in Gf /\ I[x] = Powers(l[x], eval(g, l[x]))[n]
  BY DEF Inv
<1>4. \A x \in Cols : I[x] \in Gf /\ q[x] = EInv(g, l[x])[2 * n]
  <2>. HIDE DEF I
  <2>. QED
    BY <1>3, EvenPlace
<1>5. I \in [Cols -> Gf]
  <2>1. I = [x \in Cols |-> I[x]]
    BY DEF Inv
  <2>. HIDE DEF I
  <2>. QED
    BY <1>4, <2>1
<1>6. \A x \in c : f[x] = q[x]
  <2>1. \A x \in c : f[x] = EInv(g, l[x])[2 * n] /\ x \in Cols
    OBVIOUS
  <2>. HIDE DEF f, q
  <2>. QED
    BY <1>4, <2>1
<1>. HIDE DEF I
<1>7. SumOver(q, c) = Square(SumOver(I, c))
  BY <1>5, SquareOfSums
<1>. HIDE DEF f, q
<1>8. SumOver(f, c) = SumOver(q, c)
  BY <1>6, SumSame
<1>. QED
  BY <1>2, <1>7, <1>8 DEF I

(***************************************************************************)
(* When g has no multiple factor, its code is that of g^2: words with the  *)
(* same sums of pk_gen's columns have the same syndrome in synd's sense.   *)
(* The even places are squares (EvenSum); what the sums say of the odd     *)
(* ones is Sylvester's system.                                             *)
(***************************************************************************)
LEMMA SameSynd ==
  ASSUME NEW g \in Coeffs, IsSeparable(g), NEW l \in [Cols -> Gf],
         NEW c \in SUBSET Cols, NEW d \in SUBSET Cols,
         \A n \in 0..(SYS_T - 1) : SumOver(Inv(g, l, n), c) = SumOver(Inv(g, l, n), d)
  PROVE  synd(g, l, c) = synd(g, l, d)
<1>. DEFINE s1 == synd(g, l, c)
            s2 == synd(g, l, d)
            t == [n \in OddPlaces |-> gf_add(s1[n], s2[n])]
<1>0. SYS_T \in Nat /\ SYS_T # 0 /\ g \in [0..SYS_T -> Gf]
  BY GoppaAssumption DEF Coeffs
<1>1. s1 \in [0..(2 * SYS_T - 1) -> Gf] /\ s2 \in [0..(2 * SYS_T - 1) -> Gf]
  BY SyndTyped DEF Syndromes
<1>2. ASSUME NEW n \in 0..(2 * SYS_T - 1), n \notin OddPlaces  PROVE s1[n] = s2[n]
  <2>1. PICK i \in 0..(SYS_T - 1) : n = 2 * i
    <3>1. n % 2 = 0
      BY <1>2 DEF OddPlaces
    <3>2. n \div 2 \in 0..(SYS_T - 1) /\ n = 2 * (n \div 2)
      BY <1>0, <3>1
    <3>. QED
      BY <3>2
  <2>. QED
    BY <2>1, EvenSum
<1>3. OddPlaces \subseteq 0..(2 * SYS_T - 1)
  BY DEF OddPlaces
<1>4. \A n \in OddPlaces : t[n] = gf_add(s1[n], s2[n]) /\ t[n] \in Gf
  BY <1>1, <1>3, FieldTyped
<1>. HIDE DEF s1, s2
<1>5. t \in [OddPlaces -> Gf]
  BY <1>4
<1>. HIDE DEF t
<1>6. ASSUME NEW n \in 0..(SYS_T - 1)
      PROVE  LET K == {k \in 0..SYS_T : n + k \in OddPlaces}
             IN  SumOver([k \in K |-> Product[<<g[k], t[n + k]>>]], K) = Zero
  <2>. DEFINE K == {k \in 0..SYS_T : n + k \in OddPlaces}
              u == [k \in 0..SYS_T |-> gf_mul(g[k], s1[n + k])]
              v == [k \in 0..SYS_T |-> gf_mul(g[k], s2[n + k])]
              w == [k \in 0..SYS_T |-> gf_add(u[k], v[k])]
              f == [k \in K |-> Product[<<g[k], t[n + k]>>]]
  <2>1. SumOver(u, 0..SYS_T) = SumOver(v, 0..SYS_T)
    <3>1. SumOver(Inv(g, l, n), c) = SumOver(u, 0..SYS_T)
      BY SumsOfColumns DEF s1
    <3>2. SumOver(Inv(g, l, n), d) = SumOver(v, 0..SYS_T)
      BY SumsOfColumns DEF s2
    <3>. HIDE DEF u, v
    <3>. QED
      BY <3>1, <3>2
  <2>2. ASSUME NEW k \in 0..SYS_T
        PROVE  /\ k \in K => f[k] = w[k]
               /\ k \notin K => w[k] = Zero
    <3>. DEFINE x == s1[n + k]
                y == s2[n + k]
    <3>1. n + k \in 0..(2 * SYS_T - 1)
      BY <1>0
    <3>2. x \in Gf /\ y \in Gf /\ g[k] \in Gf
      BY <1>0, <1>1, <3>1
    <3>3. w[k] = gf_add(gf_mul(g[k], x), gf_mul(g[k], y))
      OBVIOUS
    <3>4. k \notin K => x = y
      BY <1>2, <3>1
    <3>5. k \in K => /\ f[k] = Product[<<g[k], t[n + k]>>]
                     /\ t[n + k] = gf_add(x, y) /\ t[n + k] \in Gf
      BY <1>4
    <3>. HIDE DEF w, f, x, y, K
    <3>6. k \in K => f[k] = w[k]
      <4>1. gf_mul(g[k], gf_add(x, y)) = gf_add(gf_mul(g[k], x), gf_mul(g[k], y))
        BY <3>2, FieldLaws
      <4>2. k \in K => f[k] = gf_mul(g[k], t[n + k])
        BY <3>2, <3>5, FieldTyped
      <4>. QED
        BY <3>3, <3>5, <4>1, <4>2
    <3>7. k \notin K => w[k] = Zero
      BY <3>3, <3>4, AddLaws
    <3>. QED
      BY <3>6, <3>7
  <2>3. K \in SUBSET (0..SYS_T)
    OBVIOUS
  <2>. HIDE DEF u, v, f
  <2>4. SumOver(w, 0..SYS_T) = gf_add(SumOver(u, 0..SYS_T), SumOver(v, 0..SYS_T))
    BY <1>0, SumAdd
  <2>. HIDE DEF w, K
  <2>5. SumOver(f, K) = SumOver(w, 0..SYS_T)
    <3>. DEFINE R == 0..SYS_T
    <3>1. /\ K \in SUBSET R
          /\ \A k \in K : f[k] = w[k]
          /\ \A k \in R \ K : w[k] = Zero
      BY <2>2, <2>3
    <3>. HIDE DEF R
    <3>2. SumOver(f, K) = SumOver(w, R)
      BY ONLY <3>1, SumSame
    <3>. QED
      BY <3>2 DEF R
  <2>6. SumOver(f, K) = Zero
    BY <2>1, <2>4, <2>5, AddLaws
  <2>. QED
    BY <2>6 DEF f, K
<1>7. \A n \in OddPlaces : t[n] = Zero
  BY <1>5, <1>6 DEF IsSeparable
<1>8. ASSUME NEW n \in 0..(2 * SYS_T - 1)  PROVE s1[n] = s2[n]
  <2>1. CASE n \in OddPlaces
    <3>1. gf_add(s1[n], s2[n]) = Zero
      BY <1>4, <1>7, <2>1
    <3>. QED
      BY <1>1, <3>1, AddLaws
  <2>. QED
    BY <1>2, <2>1
<1>9. s1 = s2
  <2>1. /\ s1 = [n \in 0..(2 * SYS_T - 1) |-> s1[n]]
        /\ s2 = [n \in 0..(2 * SYS_T - 1) |-> s2[n]]
    BY <1>1
  <2>. QED
    BY <1>8, <2>1
<1>. QED
  BY <1>9 DEF s1, s2

(* The row of bit b of power n, and the sums that the rows say. *)
LEMMA PlaceOfRow ==
  ASSUME NEW b \in Nat \ {0}, NEW t \in Nat, NEW n \in 0..(t - 1), NEW j \in 0..(b - 1)
  PROVE  LET r == n * b + j IN r \in 0..(t * b - 1) /\ r \div b = n /\ r % b = j
<1>. DEFINE r == n * b + j
            q == r \div b
            z == r % b
<1>1. n * b \in Nat /\ t * b \in Nat /\ r \in Nat
  <2>1. \A x, y \in Nat : x * y \in Nat
    OBVIOUS
  <2>. QED
    BY <2>1
<1>2. q \in Nat /\ z \in 0..(b - 1) /\ r = q * b + z
  <2>. HIDE DEF r
  <2>. QED
    BY <1>1
<1>3. ASSUME NEW x \in Nat, NEW y \in Nat, NEW u \in 0..(b - 1), NEW v \in 0..(b - 1),
             x < y
      PROVE  x * b + u < y * b + v
  <2>1. PICK i \in Nat : y = x + 1 + i
    <3>1. y - x - 1 \in Nat /\ y = x + 1 + (y - x - 1)
      BY <1>3
    <3>. QED
      BY <3>1
  <2>2. y * b = x * b + b + i * b /\ i * b \in Nat /\ x * b \in Nat
    BY <2>1
  <2>. QED
    BY <2>2
<1>4. r < t * b
  <2>1. n * b + j < t * b + 0
    BY <1>3
  <2>. QED
    BY <1>1, <2>1
<1>. HIDE DEF q, z
<1>5. ~ q < n /\ ~ n < q
  BY <1>1, <1>2, <1>3
<1>6. q = n
  BY <1>2, <1>5
<1>7. z = j
  <2>1. n * b + j = n * b + z
    BY <1>2, <1>6
  <2>. QED
    BY <1>1, <1>2, <2>1
<1>. HIDE DEF r
<1>8. r \in 0..(t * b - 1)
  BY <1>1, <1>4
<1>. QED
  BY <1>6, <1>7, <1>8 DEF r, q, z

(* A syndrome under the matrix determines the sums of the columns. *)
LEMMA SumsFromSyndrome ==
  ASSUME NEW g \in Coeffs, NEW pi \in [Idx -> Idx],
         NEW c \in SUBSET Cols, NEW d \in SUBSET Cols,
         SyndromeOf(FillMatrix(g, pi), c) = SyndromeOf(FillMatrix(g, pi), d),
         NEW n \in 0..(SYS_T - 1)
  PROVE  SumOver(Inv(g, Support(pi), n), c) = SumOver(Inv(g, Support(pi), n), d)
<1>. DEFINE l == Support(pi)
            h == FillMatrix(g, pi)
            I == Inv(g, l, n)
<1>1. ASSUME NEW b \in 0..(GFBITS - 1)
      PROVE  b \in SumOver(I, c) <=> b \in SumOver(I, d)
  <2>. DEFINE r == n * GFBITS + b
  <2>1. r \in Rows /\ r \div GFBITS = n /\ r % GFBITS = b
    <3>1. GFBITS \in Nat \ {0} /\ SYS_T \in Nat
      BY GFAssumption, GoppaAssumption
    <3>. QED
      BY <3>1, PlaceOfRow DEF Rows, PK_NROWS
  <2>. HIDE DEF r
  <2>2. h[r] = {x \in Cols : b \in I[x]}
    BY <2>1 DEF FillMatrix, root, Support, Inv
  <2>3. Odd(h[r] \cap c) <=> Odd(h[r] \cap d)
    <3>. HIDE DEF h
    <3>1. \A x \in SUBSET Cols : r \in SyndromeOf(h, x) <=> Odd(h[r] \cap x)
      BY <2>1 DEF SyndromeOf
    <3>2. SyndromeOf(h, c) = SyndromeOf(h, d)
      BY DEF h
    <3>. QED
      BY <3>1, <3>2
  <2>. HIDE DEF h, I
  <2>4. ASSUME NEW u \in SUBSET Cols
        PROVE  b \in SumOver(I, u) <=> Odd(h[r] \cap u)
    <3>1. h[r] \cap u = {x \in u : b \in I[x]}
      BY <2>2
    <3>. QED
      BY <3>1 DEF SumOver
  <2>. QED
    BY <2>3, <2>4
<1>. HIDE DEF I
<1>2. SumOver(I, c) \in Gf /\ SumOver(I, d) \in Gf
  BY SumTyped
<1>3. SumOver(I, c) = SumOver(I, d)
  BY <1>1, <1>2 DEF Gf
<1>. QED
  BY <1>3 DEF I

(* Two sets of positions, and what is in one of them only. *)
LEMMA SumSymDiff ==
  ASSUME NEW f, NEW d \in SUBSET Cols, NEW c \in SUBSET Cols
  PROVE  SumOver(f, SymDiff(d, c)) = gf_add(SumOver(f, d), SumOver(f, c))
<1>. DEFINE Hits(S, b) == {x \in S : b \in f[x]}
            D == SymDiff(d, c)
<1>1. ASSUME NEW b \in 0..(GFBITS - 1)
      PROVE  b \in SumOver(f, D) <=> b \in gf_add(SumOver(f, d), SumOver(f, c))
  <2>1. Hits(D, b) = SymDiff(Hits(d, b), Hits(c, b))
    BY DEF SymDiff
  <2>2. IsFiniteSet(Hits(d, b)) /\ IsFiniteSet(Hits(c, b))
    <3>1. Hits(d, b) \in SUBSET Cols /\ Hits(c, b) \in SUBSET Cols
      OBVIOUS
    <3>. HIDE DEF Hits
    <3>. QED
      BY <3>1, PositionsFinite
  <2>3. Odd(Hits(D, b)) <=> (Odd(Hits(d, b)) # Odd(Hits(c, b)))
    <3>. HIDE DEF Hits, D
    <3>. QED
      BY ONLY <2>1, <2>2, OddSymDiff
  <2>4. \A S : b \in SumOver(f, S) <=> Odd(Hits(S, b))
    BY DEF SumOver
  <2>5. b \in gf_add(SumOver(f, d), SumOver(f, c))
          <=> ((b \in SumOver(f, d)) # (b \in SumOver(f, c)))
    BY SymDiffBit DEF gf_add
  <2>. HIDE DEF Hits, D
  <2>. QED
    BY ONLY <2>3, <2>4, <2>5 DEF Odd
<1>2. SumOver(f, D) \in Gf /\ gf_add(SumOver(f, d), SumOver(f, c)) \in Gf
  BY SumTyped, FieldTyped
<1>. HIDE DEF D
<1>3. SumOver(f, D) = gf_add(SumOver(f, d), SumOver(f, c))
  BY <1>1, <1>2 DEF Gf
<1>. QED
  BY <1>3 DEF D

(***************************************************************************)
(* The minimum distance of the code is above 2 * SYS_T: two words of       *)
(* weight at most SYS_T have different syndromes under the matrix that     *)
(* pk_gen fills (pk_gen.rs:245-276), so that a ciphertext of encrypt.rs    *)
(* determines its error vector.                                            *)
(***************************************************************************)
THEOREM SyndromeDeterminesError ==
  ASSUME NEW k \in Keys, NEW d \in SUBSET Cols, NEW c \in SUBSET Cols,
         Cardinality(d) <= SYS_T, Cardinality(c) <= SYS_T,
         SyndromeOf(FillMatrix(k.g, k.pi), d) = SyndromeOf(FillMatrix(k.g, k.pi), c)
  PROVE  d = c
<1>. DEFINE g == k.g
            l == Support(k.pi)
            D == SymDiff(d, c)
            q == [n \in Nat |-> [y \in Cols |->
                    IF n < 2 * SYS_T THEN EInv(g, l[y])[n] ELSE Zero]]
<1>0. /\ SYS_T \in Nat \ {0} /\ g \in Coeffs /\ k.pi \in [Idx -> Idx]
      /\ l \in [Cols -> Gf]
      /\ \A x, y \in Cols : l[x] = l[y] => x = y
      /\ \A x \in Cols : eval(g, l[x]) # Zero
      /\ IsSeparable(g)
  <2>1. k.g \in Coeffs /\ k.pi \in [Idx -> Idx]
    BY DecryptAssumption DEF Keys, Poly, Coeffs
  <2>2. Support(k.pi) \in [Cols -> Gf]
    BY DEF Support, bitrev, Gf
  <2>. QED
    BY <2>1, <2>2, GoppaAssumption, KeyAssumption
<1>1. synd(g, l, d) = synd(g, l, c)
  <2>1. \A n \in 0..(SYS_T - 1) : SumOver(Inv(g, l, n), d) = SumOver(Inv(g, l, n), c)
    BY <1>0, SumsFromSyndrome
  <2>. HIDE DEF g, l
  <2>. QED
    BY <1>0, <2>1, SameSynd
<1>2. D \in SUBSET Cols /\ Cardinality(D) <= 2 * SYS_T
  <2>1. D \in SUBSET Cols /\ D \in SUBSET (d \cup c)
    BY DEF SymDiff
  <2>2. /\ IsFiniteSet(d) /\ IsFiniteSet(c) /\ Cardinality(d) \in Nat /\ Cardinality(c) \in Nat
        /\ IsFiniteSet(d \cap c) /\ Cardinality(d \cap c) \in Nat
        /\ IsFiniteSet(d \cup c) /\ Cardinality(d \cup c) \in Nat
    <3>1. d \cap c \in SUBSET Cols /\ d \cup c \in SUBSET Cols
      OBVIOUS
    <3>. QED
      BY <3>1, PositionsFinite
  <2>3. Cardinality(d \cup c) = Cardinality(d) + Cardinality(c) - Cardinality(d \cap c)
    BY <2>2, FS_Union
  <2>. HIDE DEF D
  <2>4. Cardinality(D) <= Cardinality(d \cup c) /\ Cardinality(D) \in Nat
    BY <2>1, <2>2, FS_Subset, PositionsFinite
  <2>. QED
    BY <1>0, <2>1, <2>2, <2>3, <2>4
<1>3. \A y \in Cols : /\ EInv(g, l[y]) \in [0..(2 * SYS_T - 1) -> Gf]
                      /\ \A n \in 1..(2 * SYS_T - 1) :
                           EInv(g, l[y])[n] = gf_mul(EInv(g, l[y])[n - 1], l[y])
                      /\ EInv(g, l[y])[0] # Zero
  <2>1. ASSUME NEW y \in Cols
        PROVE  /\ EInv(g, l[y]) \in [0..(2 * SYS_T - 1) -> Gf]
               /\ \A n \in 1..(2 * SYS_T - 1) :
                    EInv(g, l[y])[n] = gf_mul(EInv(g, l[y])[n - 1], l[y])
               /\ EInv(g, l[y])[0] # Zero
    <3>1. l[y] \in Gf /\ eval(g, l[y]) # Zero
      BY <1>0
    <3>. HIDE DEF g, l
    <3>. QED
      BY <1>0, <3>1, EInvIs, EInvNotZero DEF Syndromes
  <2>. QED
    BY <2>1
<1>. HIDE DEF g, l
<1>4. \A n \in Nat : n < 2 * SYS_T => n \in 0..(2 * SYS_T - 1)
  BY <1>0
<1>5. q \in [Nat -> [Cols -> Gf]]
  <2>1. \A n \in Nat : \A y \in Cols :
          (IF n < 2 * SYS_T THEN EInv(g, l[y])[n] ELSE Zero) \in Gf
    BY <1>3, <1>4, FieldTyped
  <2>2. \A n \in Nat :
          [y \in Cols |-> IF n < 2 * SYS_T THEN EInv(g, l[y])[n] ELSE Zero] \in [Cols -> Gf]
    BY <2>1
  <2>. QED
    BY <2>2
<1>6. \A n \in Nat : n < 2 * SYS_T => \A y \in Cols : q[n][y] = EInv(g, l[y])[n]
  OBVIOUS
<1>. HIDE DEF q
<1>7. ASSUME NEW n \in Nat, n + 1 < 2 * SYS_T, NEW y \in D
      PROVE  q[n + 1][y] = gf_mul(q[n][y], l[y])
  <2>1. /\ y \in Cols /\ n < 2 * SYS_T /\ n + 1 \in Nat
        /\ n + 1 \in 1..(2 * SYS_T - 1) /\ (n + 1) - 1 = n
    BY <1>0, <1>2, <1>7
  <2>2. EInv(g, l[y])[n + 1] = gf_mul(EInv(g, l[y])[(n + 1) - 1], l[y])
    BY <1>3, <2>1
  <2>. QED
    BY <1>6, <1>7, <2>1, <2>2
<1>8. ASSUME NEW n \in Nat, n < 2 * SYS_T  PROVE SumOver(q[n], D) = Zero
  <2>1. ASSUME NEW w \in SUBSET Cols  PROVE SumOver(q[n], w) = synd(g, l, w)[n]
    <3>. DEFINE f == [x \in w |-> EInv(g, l[x])[n]]
    <3>1. synd(g, l, w)[n] = SumOver(f, w)
      BY <1>4, <1>8, SyndIs
    <3>2. \A x \in w : q[n][x] = f[x]
      BY <1>6, <1>8
    <3>. HIDE DEF f
    <3>3. SumOver(q[n], w) = SumOver(f, w)
      BY <3>2, SumSame
    <3>. QED
      BY <3>1, <3>3
  <2>2. SumOver(q[n], D) = gf_add(SumOver(q[n], d), SumOver(q[n], c))
    BY SumSymDiff
  <2>. QED
    BY <1>1, <2>1, <2>2, AddLaws
<1>9. \A y \in D : q[0][y] = Zero
  <2>1. 2 * SYS_T \in Nat
    BY <1>0
  <2>2. Vanishing(l, 2 * SYS_T)
    BY <1>0, <2>1, Vandermonde
  <2>. HIDE DEF D
  <2>. QED
    BY <1>2, <1>5, <1>7, <1>8, <2>2 DEF Vanishing
<1>10. D = {}
  <2>1. 0 \in Nat /\ 0 < 2 * SYS_T
    BY <1>0
  <2>. QED
    BY <1>2, <1>3, <1>6, <1>9, <2>1
<1>. QED
  BY <1>10 DEF SymDiff

(***************************************************************************)
(* The error vectors that the loop is about: E, in a support without       *)
(* repetitions, none of whose elements is a root of g.                     *)
(***************************************************************************)
IsSupport(g, l) ==
  /\ l \in [Cols -> Gf]
  /\ \A x, y \in Cols : l[x] = l[y] => x = y
  /\ \A x \in Cols : eval(g, l[x]) # Zero

(* While at most SYS_T errors explain the syndrome, the register is never  *)
(* longer than SYS_T: one that has explained SYS_T places explains all.    *)
LEMMA LengthFits ==
  ASSUME NEW g \in Coeffs, NEW l, IsSupport(g, l),
         NEW E \in SUBSET Cols, Cardinality(E) <= SYS_T,
         NEW st, st \in BmTypes, st.n < 2 * SYS_T, st.l <= st.n, st.l <= SYS_T,
         RegisterInv(st, synd(g, l, E))
  PROVE  BmRound(st, synd(g, l, E)).l <= SYS_T
<1>. DEFINE sy == synd(g, l, E)
            n == st.n
            L == st.l
            d == At(st.c, sy, n)
            longer == d # Zero /\ 2 * L <= n
            new == BmRound(st, sy)
<1>0. /\ SYS_T \in Nat /\ sy \in Syndromes /\ l \in [Cols -> Gf]
      /\ n \in 0..(2 * SYS_T - 1) /\ L \in 0..n /\ L \in 0..SYS_T /\ st.c \in Coeffs
  BY GoppaAssumption, SyndTyped DEF BmTypes, IsSupport
<1>1. new.l = IF longer THEN n + 1 - L ELSE L
  <2>. HIDE DEF new, longer, sy
  <2>. QED
    BY <1>0, RoundIs DEF new, longer, sy
<1>2. SUFFICES ASSUME longer, ~ (n + 1 - L <= SYS_T)  PROVE FALSE
  <2>. HIDE DEF longer, sy, n, L
  <2>. QED
    BY <1>0, <1>1 DEF sy, L
<1>3. Degree(st.c, L) /\ \A x \in L..(n - 1) : At(st.c, sy, x) = Zero
  BY <1>0 DEF RegisterInv
<1>4. \A x \in L..(L + SYS_T - 1) : At(st.c, sy, x) = Zero
  <2>1. \A x \in L..(L + SYS_T - 1) : x \in L..(n - 1)
    BY <1>0, <1>2
  <2>. HIDE DEF sy
  <2>. QED
    BY <1>3, <2>1
<1>5. \A y \in E : \A x \in L..(2 * SYS_T - 1) : At(st.c, EInv(g, l[y]), x) = Zero
  <2>. HIDE DEF n, L
  <2>. QED
    BY <1>0, <1>3, <1>4, Annihilates DEF sy, IsSupport
<1>6. d = Zero
  <2>. DEFINE I == [y \in Cols |-> At(st.c, EInv(g, l[y]), n)]
  <2>1. d = SumOver(I, E)
    BY <1>0, AtOfSum
  <2>2. \A y \in E : I[y] = Zero
    <3>1. n \in L..(2 * SYS_T - 1)
      BY <1>0
    <3>. QED
      BY <1>5, <3>1
  <2>. HIDE DEF I, d
  <2>3. {} \in SUBSET E /\ \A y \in E \ {} : I[y] = Zero
    BY <2>2
  <2>4. SumOver(I, {}) = SumOver(I, E)
    BY ONLY <2>3, SumSame
  <2>. QED
    BY <2>1, <2>4, SumNone
<1>. QED
  BY <1>2, <1>6

(* The constant coefficient of the register is 1. *)
Normalised(st) == st.c[0] = One /\ st.b[0] = Zero

(* BmStart has it. *)
LEMMA NormalisedStart == Normalised(BmStart)
<1>1. 0 \in 0..SYS_T
  BY GoppaAssumption
<1>. QED
  BY <1>1 DEF Normalised, BmStart, Coefficient

(* And a round keeps it: Shift has left b[0] at 0. *)
LEMMA NormalisedStep ==
  ASSUME NEW st, st \in BmTypes, st.n < 2 * SYS_T, st.l <= st.n,
         NEW sy \in Syndromes, Normalised(st)
  PROVE  Normalised(BmRound(st, sy))
<1>. DEFINE new == BmRound(st, sy)
            f == gf_mul(Reciprocal[st.base], At(st.c, sy, st.n))
<1>0. 0 \in 0..SYS_T
  BY GoppaAssumption
<1>1. /\ f \in Gf
      /\ new.c = [k \in 0..SYS_T |-> gf_add(st.c[k], gf_mul(f, st.b[k]))]
      /\ \E p : new.b = Shift(p)
  <2>. HIDE DEF new, f
  <2>. QED
    BY RoundIs DEF new, f
<1>. HIDE DEF new, f
<1>2. new.c[0] = gf_add(One, gf_mul(f, Zero))
  BY <1>0, <1>1 DEF Normalised
<1>3. gf_add(One, gf_mul(f, Zero)) = One
  BY <1>1, FieldLaws, FieldTyped, AddLaws
<1>4. new.b[0] = Zero
  BY <1>0, <1>1 DEF Shift
<1>. QED
  BY <1>2, <1>3, <1>4 DEF Normalised, new

(***************************************************************************)
(* After all the rounds the locator vanishes at the error positions, and   *)
(* nowhere else.                                                           *)
(***************************************************************************)
LEMMA Decodes ==
  ASSUME NEW g \in Coeffs, NEW l, IsSupport(g, l),
         NEW E \in SUBSET Cols, Cardinality(E) = SYS_T,
         NEW st, st \in BmTypes, st.n = 2 * SYS_T, st.l <= SYS_T,
         RegisterInv(st, synd(g, l, E)), Normalised(st)
  PROVE  Zeroes(root(Locator(st), l)) = E
<1>. DEFINE sy == synd(g, l, E)
            p == st.c
            L == st.l
            f == [k \in 0..SYS_T |-> p[SYS_T - k]]
            Z == {x \in Cols : eval(f, l[x]) = Zero}
<1>0. /\ SYS_T \in Nat \ {0} /\ sy \in Syndromes /\ l \in [Cols -> Gf]
      /\ L \in 0..SYS_T /\ p \in Coeffs /\ Cardinality(E) <= SYS_T
  BY GoppaAssumption, SyndTyped DEF BmTypes, IsSupport
<1>1. Degree(p, L) /\ \A x \in L..(2 * SYS_T - 1) : At(p, sy, x) = Zero
  BY <1>0 DEF RegisterInv
<1>2. \A x \in L..(L + SYS_T - 1) : At(p, sy, x) = Zero
  <2>1. \A x \in L..(L + SYS_T - 1) : x \in L..(2 * SYS_T - 1)
    BY <1>0
  <2>. HIDE DEF sy
  <2>. QED
    BY <1>1, <2>1
<1>3. \A y \in E : \A x \in L..(2 * SYS_T - 1) : At(p, EInv(g, l[y]), x) = Zero
  <2>. HIDE DEF p, L
  <2>. QED
    BY <1>0, <1>1, <1>2, Annihilates DEF sy, IsSupport
<1>4. f \in Coeffs
  <2>1. \A k \in 0..SYS_T : p[SYS_T - k] \in Gf
    BY <1>0 DEF Coeffs
  <2>. QED
    BY <2>1 DEF Coeffs
<1>5. ASSUME NEW y \in E  PROVE eval(f, l[y]) = Zero
  <2>. DEFINE a == l[y]
              z == EInv(g, a)
  <2>1. a \in Gf /\ y \in Cols
    BY <1>0
  <2>2. /\ z \in Syndromes
        /\ z[0] = Reciprocal[Square(eval(g, a))]
        /\ \A k \in 1..(2 * SYS_T - 1) : z[k] = gf_mul(z[k - 1], a)
    <3>. HIDE DEF a
    <3>. QED
      BY <2>1, EInvIs
  <2>3. At(p, z, SYS_T) = Zero
    <3>1. SYS_T \in L..(2 * SYS_T - 1)
      BY <1>0
    <3>. QED
      BY <1>3, <3>1
  <2>. HIDE DEF z, a, p
  <2>4. At(p, z, SYS_T) = gf_mul(eval(f, a), z[0])
    BY <1>0, <2>1, <2>2, LocatorSum
  <2>5. z[0] # Zero /\ z[0] \in Gf
    <3>1. eval(g, a) # Zero
      BY <2>1 DEF a, IsSupport
    <3>. QED
      BY <2>1, <3>1, EInvNotZero DEF z
  <2>6. eval(f, a) \in Gf
    BY <1>4, <2>1, EvalIs
  <2>7. gf_mul(eval(f, a), z[0]) = Zero
    BY <2>3, <2>4
  <2>. QED
    BY <2>5, <2>6, <2>7, NoZeroDivisors DEF a
<1>6. f[SYS_T] = One /\ Degree(f, SYS_T)
  <2>1. SYS_T \in 0..SYS_T /\ SYS_T - SYS_T = 0
    BY <1>0
  <2>2. f[SYS_T] = p[0]
    BY <2>1
  <2>3. \A k \in 0..SYS_T : ~ k > SYS_T
    BY <1>0
  <2>. HIDE DEF f
  <2>. QED
    BY <2>2, <2>3 DEF Normalised, Degree
<1>. HIDE DEF f
<1>7. Cardinality(Z) <= SYS_T
  <2>1. HasFewRoots(l, SYS_T)
    <3>1. SYS_T \in 0..SYS_T
      BY <1>0
    <3>. QED
      BY <1>0, <3>1, FewRoots DEF IsSupport
  <2>2. Z \in SUBSET Cols /\ \A y \in Z : eval(f, l[y]) = Zero
    OBVIOUS
  <2>3. f[SYS_T] # Zero
    BY <1>6 DEF One, Zero
  <2>. HIDE DEF Z
  <2>. QED
    BY <1>4, <1>6, <2>1, <2>2, <2>3 DEF HasFewRoots
<1>8. E \subseteq Z /\ Z \subseteq Cols
  BY <1>5
<1>. HIDE DEF Z
<1>9. E = Z
  <2>1. IsFiniteSet(Z)
    BY <1>8, PositionsFinite
  <2>2. /\ Cardinality(E) <= Cardinality(Z)
        /\ Cardinality(Z) = Cardinality(E) => Z = E
    <3>1. E \in SUBSET Z
      BY <1>8
    <3>. QED
      BY ONLY <2>1, <3>1, FS_Subset
  <2>3. Cardinality(Z) \in Nat
    BY <2>1, FS_CardinalityType
  <2>. QED
    BY <1>0, <1>7, <2>2, <2>3
<1>10. Zeroes(root(Locator(st), l)) = Z
  <2>1. Locator(st) = f
    BY DEF Locator, f
  <2>2. DOMAIN l = Cols
    BY <1>0
  <2>. QED
    BY <2>1, <2>2 DEF Zeroes, root, gf_iszero, Z
<1>. QED
  BY <1>9, <1>10

(* What is assumed of the secret key, and what a preimage is. *)
LEMMA KeyIs ==
  ASSUME TypeOK
  PROVE  /\ in.g \in Coeffs /\ IsSeparable(in.g)
         /\ in.pi \in [Idx -> Idx] /\ in.c \in SUBSET Cols
         /\ IsSupport(in.g, Support(in.pi))
         /\ \A x \in Preimages :
              /\ x \in SUBSET Cols /\ Cardinality(x) = SYS_T
              /\ synd(in.g, Support(in.pi), x) = synd(in.g, Support(in.pi), in.c)
<1>. DEFINE k == [g |-> in.g, pi |-> in.pi]
            l == Support(in.pi)
<1>1. in \in Inputs
  BY DEF TypeOK
<1>2. in.g \in Coeffs /\ in.pi \in [Idx -> Idx] /\ in.c \in SUBSET Cols
  BY <1>1, DecryptAssumption DEF Poly, Coeffs
<1>3. k \in Keys /\ k.g = in.g /\ k.pi = in.pi
  BY <1>1 DEF Keys
<1>4. l \in [Cols -> Gf]
  BY DEF Support, bitrev, Gf
<1>5. IsSeparable(in.g) /\ IsSupport(in.g, l)
  <2>. HIDE DEF k
  <2>. QED
    BY <1>3, <1>4, KeyAssumption DEF IsSupport
<1>6. ASSUME NEW x \in Preimages
      PROVE  /\ x \in SUBSET Cols /\ Cardinality(x) = SYS_T
             /\ synd(in.g, l, x) = synd(in.g, l, in.c)
  <2>1. /\ x \in DOMAIN ErrorSyndromes[k]
        /\ ErrorSyndromes[k][x] = SyndromeOf(Parity[k], in.c)
    BY DEF Preimages
  <2>2. x \in kSubset(SYS_T, Cols)
        /\ SyndromeOf(Parity[k], x) = SyndromeOf(Parity[k], in.c)
    <3>. HIDE DEF k
    <3>. QED
      BY <1>3, <2>1 DEF ErrorSyndromes
  <2>3. x \in SUBSET Cols /\ Cardinality(x) = SYS_T
    BY <2>2 DEF kSubset
  <2>4. Parity[k] = FillMatrix(in.g, in.pi)
    <3>. HIDE DEF k
    <3>. QED
      BY <1>3 DEF Parity
  <2>5. SyndromeOf(FillMatrix(in.g, in.pi), x) = SyndromeOf(FillMatrix(in.g, in.pi), in.c)
    BY <2>2, <2>4
  <2>6. \A n \in 0..(SYS_T - 1) : SumOver(Inv(in.g, l, n), x) = SumOver(Inv(in.g, l, n), in.c)
    BY <1>2, <2>3, <2>5, SumsFromSyndrome
  <2>7. synd(in.g, l, x) = synd(in.g, l, in.c)
    <3>. HIDE DEF l
    <3>. QED
      BY <1>2, <1>4, <1>5, <2>3, <2>6, SameSynd
  <2>. QED
    BY <2>3, <2>7
<1>. QED
  BY <1>2, <1>5, <1>6

(***************************************************************************)
(* The inductive invariant: a ciphertext that has a preimage keeps the     *)
(* register short, and then its roots are that preimage.                   *)
(***************************************************************************)
FoundInv ==
  /\ Normalised(bm)
  /\ Preimages # {} => bm.l <= SYS_T
  /\ pc \in {"check", "done"} => \A x \in Preimages : x = e
  /\ pc = "done" /\ ret # 0 => ~ Accepts(e, s, synd(in.g, Support(in.pi), e))

(* Before synd the register is that of length 0. *)
LEMMA FoundInitial == Init => FoundInv
<1>. SUFFICES ASSUME Init  PROVE FoundInv
  OBVIOUS
<1>1. bm = BmStart /\ pc = "synd" /\ bm.l <= SYS_T
  BY GoppaAssumption DEF Init, BmStart
<1>. QED
  BY <1>1, NormalisedStart DEF FoundInv

(* Every step keeps it. *)
LEMMA FoundStep ==
  TypeOK /\ LengthInv /\ BmInv /\ AcceptInv /\ FoundInv /\ [Next]_vars => FoundInv'
<1>. SUFFICES ASSUME TypeOK, LengthInv, BmInv, AcceptInv, FoundInv, [Next]_vars
              PROVE  FoundInv'
  OBVIOUS
<1>0. in' = in => Preimages' = Preimages
  BY DEF Preimages
<1>. HIDE DEF Preimages
<1>1. CASE Synd
  BY <1>0, <1>1 DEF Synd, Goto, FoundInv
<1>2. CASE Round
  <2>1. /\ bm \in BmTypes /\ bm.n < 2 * SYS_T /\ bm.l <= bm.n
        /\ s \in Syndromes /\ RegisterInv(bm, s)
    BY <1>2 DEF Round, TypeOK, BmTypes, LengthInv, BmInv
  <2>2. bm' = BmRound(bm, s) /\ s' = s /\ pc = "bm" /\ pc' = "bm" /\ in' = in
    BY <1>2 DEF Round
  <2>3. Normalised(bm')
    BY <2>1, <2>2, NormalisedStep DEF FoundInv
  <2>4. ASSUME NEW x \in Preimages  PROVE bm'.l <= SYS_T
    <3>1. /\ x \in SUBSET Cols /\ Cardinality(x) = SYS_T
          /\ synd(in.g, Support(in.pi), x) = synd(in.g, Support(in.pi), in.c)
          /\ in.g \in Coeffs /\ IsSupport(in.g, Support(in.pi))
      BY KeyIs
    <3>2. s = synd(in.g, Support(in.pi), x)
      BY <2>2, <3>1 DEF AcceptInv
    <3>3. bm.l <= SYS_T /\ Cardinality(x) <= SYS_T
      BY <3>1, GoppaAssumption DEF FoundInv
    <3>. QED
      BY <2>1, <2>2, <3>1, <3>2, <3>3, LengthFits
  <2>. QED
    BY <1>0, <2>2, <2>3, <2>4 DEF FoundInv
<1>3. CASE Roots
  <2>1. /\ pc = "bm" /\ pc' = "check" /\ bm.n = 2 * SYS_T /\ in' = in /\ bm' = bm
        /\ e' = Zeroes(root(Locator(bm), Support(in.pi)))
    BY <1>3 DEF Roots, Goto
  <2>2. ASSUME NEW x \in Preimages  PROVE x = e'
    <3>1. /\ x \in SUBSET Cols /\ Cardinality(x) = SYS_T
          /\ synd(in.g, Support(in.pi), x) = synd(in.g, Support(in.pi), in.c)
          /\ in.g \in Coeffs /\ IsSupport(in.g, Support(in.pi))
      BY KeyIs
    <3>2. s = synd(in.g, Support(in.pi), x)
      BY <2>1, <3>1 DEF AcceptInv
    <3>3. bm \in BmTypes /\ bm.l <= SYS_T /\ RegisterInv(bm, s) /\ Normalised(bm)
      BY DEF TypeOK, BmTypes, BmInv, FoundInv
    <3>. QED
      BY <2>1, <3>1, <3>2, <3>3, Decodes
  <2>. QED
    BY <1>0, <2>1, <2>2 DEF FoundInv
<1>4. CASE Check
  BY <1>0, <1>4 DEF Check, Goto, FoundInv
<1>5. CASE Returned \/ UNCHANGED vars
  BY <1>0, <1>5 DEF Returned, vars, FoundInv
<1>. QED
  BY <1>1, <1>2, <1>3, <1>4, <1>5 DEF Next

(* With DecryptIsSound, both directions. *)
LEMMA FoundIsExact == TypeOK /\ AcceptInv /\ FoundInv => DecodesExactly
<1>. SUFFICES ASSUME TypeOK, AcceptInv, FoundInv, pc = "done"
              PROVE  IF ret = 0 THEN Preimages = {e} ELSE Preimages = {}
  BY DEF DecodesExactly
<1>1. \A x \in Preimages : x = e
  BY DEF FoundInv
<1>2. CASE ret = 0
  BY <1>1, <1>2, AcceptedIsPreimage DEF AcceptsOnlyPreimages
<1>3. CASE ret # 0
  <2>1. ASSUME NEW x \in Preimages  PROVE FALSE
    <3>1. x = e /\ Cardinality(x) = SYS_T
          /\ synd(in.g, Support(in.pi), x) = synd(in.g, Support(in.pi), in.c)
      BY <1>1, KeyIs
    <3>2. s = synd(in.g, Support(in.pi), in.c)
      BY DEF AcceptInv
    <3>. QED
      BY <1>3, <3>1, <3>2 DEF FoundInv, Accepts
  <2>. QED
    BY <1>3, <2>1
<1>. QED
  BY <1>2, <1>3

(***************************************************************************)
(* Whatever the ciphertext and the secret key are, decrypt returns 0 with  *)
(* the only error vector of weight SYS_T that has the syndrome of the      *)
(* ciphertext when there is one, and 1 when there is none: the doubled     *)
(* syndrome (synd.rs:20), the 2 * SYS_T rounds of bm (bm.rs:31-105), the   *)
(* roots of the locator (root.rs) and the check of decrypt.rs:62-74 decode *)
(* SYS_T errors, and decapsulation fails exactly when it has to.           *)
(***************************************************************************)
THEOREM DecryptIsExact == Spec => []DecodesExactly
<1>1. Init => AcceptInv
  BY DEF Init, AcceptInv
<1>. QED
  BY <1>1, AcceptStep, FoundInitial, FoundStep, FoundIsExact, InitTyped, StepTyped,
     LengthInitial, LengthStep, BmInvInitial, BmInvStep, PTL DEF Spec
===============================================================================
