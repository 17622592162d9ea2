------------------------------- MODULE GFChains -------------------------------
(***************************************************************************)
(* src/gf.rs at its two real sizes, GF(2^12) (mceliece348864[f]) and       *)
(* GF(2^13) (all others), with every mask, shift and addition chain of the *)
(* code.  As in GF, a machine word is the set of the positions of its 1    *)
(* bits; a mask of consecutive bits is an interval.                        *)
(***************************************************************************)
EXTENDS Integers, FiniteSets, SequencesExt

G12 == INSTANCE GF WITH GFBITS <- 12, TAPS <- {3, 0}
G13 == INSTANCE GF WITH GFBITS <- 13, TAPS <- {4, 3, 1, 0}

Shl(x, s) == {i + s : i \in x}

(* x = (x | (x << s)) & mask: the mask keeps width bits of every period. *)
Smear(x, s, period, width) ==
  {i \in x \cup Shl(x, s) : i % period < width}

-------------------------------------------------------------------------------
(* GF(2^12).                                                               *)

(* 0x7FC000, 0x3000 *)
Bands12 == <<14..22, 12..13>>

Reduce12(x) == FoldLeft(G12!FoldBand, x, Bands12) \cap 0..11

(* gf.rs:71-90 *)
gf_sq(a) ==
  Reduce12(Smear(Smear(Smear(Smear(a, 8, 16, 8), 4, 8, 4), 2, 4, 2), 1, 2, 1))

Squarings(a, n) ==
  LET s[k \in 0..n] == IF k = 0 THEN a ELSE gf_sq(s[k - 1])
  IN  s[n]

(* gf.rs:224-247; a name says which power of in0 it is, in binary. *)
gf_inv12(in0) ==
  LET p11         == G12!gf_mul(Squarings(in0, 1), in0)
      p1111       == G12!gf_mul(Squarings(p11, 2), p11)
      p11111111   == G12!gf_mul(Squarings(p1111, 4), p1111)
      p1111111111 == G12!gf_mul(Squarings(p11111111, 2), p11)
  IN  Squarings(G12!gf_mul(Squarings(p1111111111, 1), in0), 1)

-------------------------------------------------------------------------------
(* GF(2^13).                                                               *)

Reduce13(x, bands) == FoldLeft(G13!FoldBand, x, bands) \cap 0..12

(* gf.rs:92-124: (in0^2)^2 *)
gf_sq2(a) ==
  Reduce13(Smear(Smear(Smear(Smear(a, 24, 32, 8), 12, 16, 4), 6, 8, 2), 3, 4, 1),
           <<40..48, 31..39, 22..30, 13..21>>)

(***************************************************************************)
(* The products in gf_sqmul and gf_sq2mul.  A copy of a, lift bits up,     *)
(* brings bit k + 7 of a to place k + 7 + lift; one multiplication of m    *)
(* by the two bits k and k + 7 + lift serves both, because they are more   *)
(* than 12 places apart and the two copies of m do not overlap.  Bit 6 has *)
(* no partner.                                                             *)
(***************************************************************************)
SpreadMul(a, m, lift, s) ==
  LET t0 == SymDiff(a, Shl(a, lift))
      Bits(k) == IF k = 6 THEN a \cap {6} ELSE t0 \cap {k, k + 7 + lift}
      Part == [k \in 0..6 |-> {i + b + s * k : i \in m, b \in Bits(k)}]
  IN  {x \in UNION {Part[k] : k \in 0..6} : G13!Odd({k \in 0..6 : x \in Part[k]})}

(* gf.rs:126-157: (in0^2) * m *)
gf_sqmul(a, m) == Reduce13(SpreadMul(a, m, 7, 1), <<28..36, 19..27, 13..18>>)

(* gf.rs:159-198: ((in0^2)^2) * m *)
gf_sq2mul(a, m) ==
  Reduce13(SpreadMul(a, m, 21, 3),
           <<52..60, 43..51, 34..42, 25..33, 17..24, 13..16>>)

(* gf.rs:207-221 *)
gf_frac13(den, num) ==
  LET p11       == gf_sqmul(den, den)
      p1111     == gf_sq2mul(p11, p11)
      p11111111 == gf_sq2mul(gf_sq2(p1111), p1111)
  IN  gf_sqmul(gf_sq2mul(gf_sq2(p11111111), p1111), num)

-------------------------------------------------------------------------------
(* What the features select. *)

gf_mul(bits, a, b) == IF bits = 12 THEN G12!gf_mul(a, b) ELSE G13!gf_mul(a, b)

gf_inv(bits, a) == IF bits = 12 THEN gf_inv12(a) ELSE gf_frac13(a, {0})
===============================================================================
