---------------------------------- MODULE GF ----------------------------------
(***************************************************************************)
(* Arithmetic of GF(2^GFBITS) as src/gf.rs computes it, and the bit-level  *)
(* helpers of src/util.rs that feed it.                                    *)
(*                                                                         *)
(* A machine word is the set of the positions of its 1 bits: XOR is        *)
(* SymDiff, AND is \cap, a shift adds to every position.  An element of    *)
(* the field is a word with all its bits below GFBITS.                     *)
(***************************************************************************)
EXTENDS Integers, FiniteSets, FiniteSetsExt

CONSTANTS
  GFBITS,     \* the degree of the field: 12 or 13 in src/params.rs
  TAPS        \* x^GFBITS = the sum of x^t, t \in TAPS: {3,0} or {4,3,1,0}

ASSUME GFAssumption ==
  /\ GFBITS \in Nat \ {0}
  /\ TAPS \subseteq 0..(GFBITS - 1)
  /\ 0 \in TAPS
  /\ TAPS # {0}
  /\ \A s, t \in TAPS : s + t <= GFBITS + 1     \* two bands are enough

Gf == SUBSET (0..(GFBITS - 1))
Zero == {}
One == {0}

Odd(S) == Cardinality(S) % 2 = 1

gf_add(a, b) == SymDiff(a, b)

gf_iszero(a) == a = Zero

(***************************************************************************)
(* tmp ^= (t >> (GFBITS - tap)) for every tap, with t = tmp & band.        *)
(***************************************************************************)
FoldBand(p, band) ==
  LET Hits(b) == {t \in TAPS : b + GFBITS - t \in p \cap band}
      reach == p \cup {h - GFBITS + t : h \in p \cap band, t \in TAPS}
  IN  {b \in reach : (b \in p) # Odd(Hits(b))}

(***************************************************************************)
(* The product of two polynomials over GF(2): t0 * (t1 & 1 << i), XORed    *)
(* for every i.  Words of more than GFBITS bits are allowed (gf_sqmul).    *)
(***************************************************************************)
PolyMul(a, b) ==
  {k \in {i + j : i \in a, j \in b} : Odd({i \in b : k - i \in a})}

(***************************************************************************)
(* The first mask of gf_mul (0x7FC000, 0x1FF0000) starts at the highest    *)
(* position that folding the bits above it can reach, plus one; the        *)
(* second (0x3000, 0x000E000) holds the bits from there down to GFBITS.    *)
(***************************************************************************)
FoldAt == GFBITS + Max(TAPS) - 1

gf_mul(a, b) ==
  LET tmp1 == PolyMul(a, b)
      tmp2 == FoldBand(tmp1, {k \in tmp1 : k >= FoldAt})
      tmp3 == FoldBand(tmp2, {k \in tmp2 : GFBITS <= k /\ k < FoldAt})
  IN  tmp3 \cap (0..(GFBITS - 1))

(***************************************************************************)
(* The power a^(2^GFBITS - 2): the inverse, and 0 for 0.  The code takes   *)
(* an addition chain of squarings, fixed by its GFBITS, to that exponent.  *)
(***************************************************************************)
gf_inv(a) ==
  LET TimesA == [x \in Gf |-> gf_mul(x, a)]
      Power[n \in 0..(2^GFBITS - 2)] ==
        IF n = 0 THEN One ELSE TimesA[Power[n - 1]]
  IN  Power[2^GFBITS - 2]

gf_frac(den, num) == gf_mul(gf_inv(den), num)

(***************************************************************************)
(* src/util.rs: a number n < 2^GFBITS as a field element with its bits in  *)
(* reverse order.                                                          *)
(***************************************************************************)
Bit(n, b) == (n \div 2^b) % 2 = 1

bitrev(n) == {b \in 0..(GFBITS - 1) : Bit(n, GFBITS - 1 - b)}
===============================================================================
