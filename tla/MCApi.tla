-------------------------------- MODULE MCApi ---------------------------------
(***************************************************************************)
(* Api for TLC: GF(16), t = 2 and 15 columns in bytes of 3 bits, so that   *)
(* PK_NROWS = 8 and PK_NCOLS = 7 leave 2 bits and 1 bit over, and the      *)
(* ciphertext has one padding bit.  Two keys.                              *)
(***************************************************************************)
EXTENDS Api, TLC

CONSTANTS p1, p2, s1, s2, x1, x2

MCTaps == {1, 0}

Affine(a, b) == [n \in Idx |-> (a * n + b) % 16]

(* x^2 + x + {3}: irreducible, a polynomial of degree 2 without a root. *)
Quadratic == (0 :> {3}) @@ (1 :> One) @@ (2 :> One)

ASSUME QuadraticAssumption == Quadratic \in Poly /\ \A a \in Gf : eval(Quadratic, a) # Zero

k1 == [g |-> Quadratic, pi |-> Affine(1, 0), s |-> {0, 5, 11}]
k2 == [g |-> Quadratic, pi |-> Affine(5, 3), s |-> {1, 2, 14}]

MCKeys == {k1, k2}

(* A key from the wire: as it is; with a padding bit set, in the last row; all zeros. *)
MCPublicKeys ==
  {PublicKeyOf[k1],
   [PublicKeyOf[k1] EXCEPT ![PK_NROWS - 1] = @ \cup {PK_NCOLS}],
   ZeroKey}

(* The last columns of I and of T; both sides of the first byte border of  *)
(* T, where T begins.                                                      *)
MCDrawn == {{7, 14}, {8, 9}}

(* A syndrome bit of the first byte, the last one, and the padding bit. *)
MCFlipBits == {0, PK_NROWS - 1, PK_NROWS}

MCSymmetry == Permutations(SsBuffers)
===============================================================================
