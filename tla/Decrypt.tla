------------------------------- MODULE Decrypt --------------------------------
(***************************************************************************)
(* decrypt (src/decrypt.rs:18-75) with synd (src/synd.rs) and the          *)
(* Berlekamp-Massey algorithm (src/bm.rs), one action per round of bm's    *)
(* loop.  The support that support_gen derives from the control bits of    *)
(* the secret key is Support(pi) of Goppa.                                 *)
(*                                                                         *)
(* The ciphertext and the error vector are sets of positions.              *)
(***************************************************************************)
EXTENDS Goppa

CONSTANTS
  Inputs      \* the arguments: a polynomial g, a permutation pi, a ciphertext c

Word == 65536                    \* the values of a u16

(* The bits of the SYND_BYTES bytes of c: PK_NROWS bits, and padding bits  *)
(* up to a whole byte (mceliece6960119), which decrypt does not mask out.  *)
SyndBits == 0..(8 * ((PK_NROWS + 7) \div 8) - 1)

ASSUME DecryptAssumption ==
  /\ Inputs \subseteq [g : Poly, pi : [Idx -> Idx], c : SUBSET SyndBits]
  /\ SyndBits \subseteq Cols
  /\ 2 * SYS_T < Word \div 2

(* The polynomial behind GFBITS and TAPS is irreducible: gf_inv inverts,   *)
(* or returns 0 for 0.                                                     *)
ASSUME FieldAssumption ==
  /\ \A a \in Gf \ {Zero} : Product[<<a, Reciprocal[a]>>] = One
  /\ Reciprocal[Zero] = Zero

Syndromes == [0..(2 * SYS_T - 1) -> Gf]
Coeffs    == [0..SYS_T -> Gf]

(* The sum of f[x] over the x in S. *)
SumOver(f, S) == {b \in 0..(GFBITS - 1) : Odd({x \in S : b \in f[x]})}

(***************************************************************************)
(* src/synd.rs: out[n] is the sum of l[x]^n / g(l[x])^2 over the positions *)
(* x that r holds.  Term[x][n] is e_inv of position x in round n.          *)
(***************************************************************************)
Square(a) == Product[<<a, a>>]

synd(g, l, r) ==
  LET Of(x) ==
        LET e_inv[n \in 0..(2 * SYS_T - 1)] ==
              IF n = 0 THEN Reciprocal[Square(eval(g, l[x]))]
                       ELSE Product[<<e_inv[n - 1], l[x]>>]
        IN  e_inv
      Term == [x \in r |-> Of(x)]
  IN  [n \in 0..(2 * SYS_T - 1) |-> SumOver([x \in r |-> Term[x][n]], r)]

-------------------------------------------------------------------------------
(* src/bm.rs.  The state of its loop: the round n, the degree l, the       *)
(* polynomials c and b, and base, the discrepancy at the last change of l. *)

Coefficient(x) == [k \in 0..SYS_T |-> IF k = x THEN One ELSE Zero]

BmStart == [n |-> 0, l |-> 0, c |-> Coefficient(0), b |-> Coefficient(1),
            base |-> One]

(* p[0] * s[x] + ... + p[m] * s[x - m] *)
Convolution(p, s, x, m) ==
  SumOver([k \in 0..m |-> Product[<<p[k], s[x - k]>>]], 0..m)

(* bm.rs:32-35 *)
Discrepancy(st, s) == Convolution(st.c, s, st.n, Min({st.n, SYS_T}))

(* bm.rs:36-45: the top bit of n - 2l in 16 bits says that it is negative. *)
Mle(st, d) == d # Zero /\ (st.n - 2 * st.l) % Word < Word \div 2

(* With a bug: one too long. *)
NewLength_Long(st) == (st.n + 2 - st.l) % Word

(* bm.rs:55 *)
NewLength(st) == (st.n + 1 - st.l) % Word

(* With a bug: the coefficient of x^(SYS_T + 1) is kept. *)
Shift_Keeps(p) == [k \in 0..(SYS_T + 1) |-> IF k = 0 THEN Zero ELSE p[k - 1]]

(* With a bug: b is not multiplied by x. *)
Shift_Not(p) == p

(* bm.rs:63-67: times x; the coefficient of x^SYS_T is dropped. *)
Shift(p) == [k \in 0..SYS_T |-> IF k = 0 THEN Zero ELSE p[k - 1]]

(* bm.rs:31-68 *)
BmRound(st, s) ==
  LET d   == Discrepancy(st, s)
      f   == Product[<<Reciprocal[st.base], d>>]      \* gf_frac(base, d)
      mle == Mle(st, d)
  IN  [n    |-> st.n + 1,
       l    |-> IF mle THEN NewLength(st) ELSE st.l,
       c    |-> [k \in 0..SYS_T |-> gf_add(st.c[k], Product[<<f, st.b[k]>>])],
       b    |-> Shift(IF mle THEN st.c ELSE st.b),
       base |-> IF mle THEN d ELSE st.base]

(* bm.rs:70-72 *)
Locator(st) == [k \in 0..SYS_T |-> st.c[SYS_T - k]]

-------------------------------------------------------------------------------
(* src/decrypt.rs:53-60: the positions at which the locator vanishes. *)
Zeroes(images) == {x \in Cols : gf_iszero(images[x])}

(* With a bug: the recomputed syndrome is not compared. *)
Accepts_WeightOnly(e, s, s_cmp) == Cardinality(e) = SYS_T

(* With a bug: the weight is not compared. *)
Accepts_SyndromeOnly(e, s, s_cmp) == s = s_cmp

(* 64-72: check is 0 when the weight is SYS_T and the syndromes agree. *)
Accepts(e, s, s_cmp) == Cardinality(e) = SYS_T /\ s = s_cmp

VARIABLES
  in,         \* the arguments
  s,          \* the syndrome of the ciphertext
  bm,         \* the state of bm's loop
  e,          \* &mut e
  ret,        \* the return value, 1 before decrypt returns
  pc

vars == <<in, s, bm, e, ret, pc>>

Goto(from, to) == pc = from /\ pc' = to

Init ==
  /\ in \in Inputs
  /\ s = [n \in 0..(2 * SYS_T - 1) |-> Zero]
  /\ bm = BmStart
  /\ e = {}
  /\ ret = 1
  /\ pc = "synd"

(* 36-47: the received word is the bits of the ciphertext, then zeros. *)
Synd ==
  /\ Goto("synd", "bm")
  /\ s' = synd(in.g, Support(in.pi), in.c)
  /\ UNCHANGED <<in, bm, e, ret>>

Round ==
  /\ pc = "bm"
  /\ bm.n < 2 * SYS_T
  /\ bm' = BmRound(bm, s)
  /\ UNCHANGED <<in, s, e, ret, pc>>

(* 51-60 *)
Roots ==
  /\ Goto("bm", "check")
  /\ bm.n = 2 * SYS_T
  /\ e' = Zeroes(root(Locator(bm), Support(in.pi)))
  /\ UNCHANGED <<in, s, bm, ret>>

(* 62-74 *)
Check ==
  /\ Goto("check", "done")
  /\ ret' = IF Accepts(e, s, synd(in.g, Support(in.pi), e)) THEN 0 ELSE 1
  /\ UNCHANGED <<in, s, bm, e>>

Returned == pc = "done" /\ UNCHANGED vars

Next == Synd \/ Round \/ Roots \/ Check \/ Returned

Spec == Init /\ [][Next]_vars

-------------------------------------------------------------------------------
(* Properties.                                                             *)

TypeOK ==
  /\ in \in Inputs
  /\ s \in Syndromes
  /\ bm \in [n : 0..(2 * SYS_T), l : 0..(Word - 1), c : Coeffs, b : Coeffs,
             base : Gf]
  /\ e \subseteq Cols
  /\ ret \in {0, 1}
  /\ pc \in {"synd", "bm", "check", "done"}

(* The parity check matrix of every key: what its public key is made from. *)
Keys == {[g |-> i.g, pi |-> i.pi] : i \in Inputs}

Parity == [k \in Keys |-> FillMatrix(k.g, k.pi)]

(***************************************************************************)
(* g has no multiple factor: it has none in common with its derivative, so *)
(* Sylvester's matrix of its even and its odd coefficients is nonsingular. *)
(***************************************************************************)
OddPlaces == {n \in 0..(2 * SYS_T - 1) : n % 2 = 1}

IsSeparable(g) ==
  \A d \in [OddPlaces -> Gf] :
    (\A n \in 0..(SYS_T - 1) :
       LET K == {k \in 0..SYS_T : n + k \in OddPlaces}
       IN  SumOver([k \in K |-> Product[<<g[k], d[n + k]>>]], K) = Zero)
    => \A n \in OddPlaces : d[n] = Zero

(***************************************************************************)
(* What is known of a secret key that crypto_kem_keypair has made: pi is a *)
(* permutation, so that no element is twice in the support, and g, the     *)
(* minimal polynomial of an element (genpoly_gen), is irreducible: it has  *)
(* no root and no multiple factor.                                         *)
(***************************************************************************)
ASSUME KeyAssumption ==
  \A k \in Keys :
    /\ \A x, y \in Cols : Support(k.pi)[x] = Support(k.pi)[y] => x = y
    /\ \A x \in Cols : eval(k.g, Support(k.pi)[x]) # Zero
    /\ IsSeparable(k.g)

SyndromeOf(h, x) == {r \in Rows : Odd(h[r] \cap x)}

(* The syndromes of the error vectors of weight SYS_T.                     *)
ErrorSyndromes ==
  [k \in Keys |-> [x \in kSubset(SYS_T, Cols) |-> SyndromeOf(Parity[k], x)]]

(* The error vectors the ciphertext may stand for: those of weight SYS_T   *)
(* that differ from the received word by a word of the code.               *)
Preimages ==
  LET k  == [g |-> in.g, pi |-> in.pi]
      sy == SyndromeOf(Parity[k], in.c)
  IN  {x \in DOMAIN ErrorSyndromes[k] : ErrorSyndromes[k][x] = sy}

(***************************************************************************)
(* decrypt returns 0 exactly for the ciphertexts that some error vector of *)
(* weight SYS_T produces, and then e is that vector and there is no other: *)
(* the code of twice the redundancy that synd and bm work with (g^2 in     *)
(* synd.rs:20) is the code of the public key.                              *)
(***************************************************************************)
DecodesExactly ==
  pc = "done" => IF ret = 0 THEN Preimages = {e} ELSE Preimages = {}

(***************************************************************************)
(* bm.rs:55 evaluates n + 1 - l in every round, also when the result is    *)
(* masked out: an l above n + 1 would panic in a debug build.  And the     *)
(* register is never longer than the rounds it has explained.              *)
(***************************************************************************)
LengthWithinRound == bm.l <= bm.n

(***************************************************************************)
(* After n rounds the register c of length l generates the first n         *)
(* elements of the syndrome: sum of c[k] * s[x - k] = 0 for l <= x < n -   *)
(* as long as its length fits into the SYS_T + 1 coefficients kept.        *)
(***************************************************************************)
RegisterGeneratesPrefix ==
  bm.l <= SYS_T =>
    \A x \in bm.l..(bm.n - 1) : Convolution(bm.c, s, x, bm.l) = Zero
===============================================================================
