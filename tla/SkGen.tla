-------------------------------- MODULE SkGen ---------------------------------
(***************************************************************************)
(* genpoly_gen (src/sk_gen.rs): the minimal polynomial of an element f of  *)
(* GF((2^m)^t), by a Gaussian elimination with column operations on the    *)
(* matrix of the powers of f.  One action per round of each loop; the      *)
(* field is the real one, with the masks and chains of gf.rs (GFChains).   *)
(*                                                                         *)
(* A row of mat is an element of GF((2^m)^t): the function from the powers *)
(* of y to their coefficients.                                             *)
(***************************************************************************)
EXTENDS GFChains

CONSTANTS
  Inputs,     \* the features and the argument: see InputOK
  Stale       \* what irr holds before the call

(***************************************************************************)
(* bits is GFBITS, t is SYS_T.  y^t is the sum of modulus[n] * y^n: the    *)
(* polynomial that the cfgs of gf_mul_inplace select.                      *)
(***************************************************************************)
Elements(i) == [0..(i.t - 1) -> SUBSET (0..(i.bits - 1))]

InputOK(i) ==
  /\ DOMAIN i = {"bits", "t", "modulus", "f"}
  /\ i.bits \in {12, 13}
  /\ i.t \in Nat \ {0, 1}
  /\ {i.modulus, i.f} \subseteq Elements(i)

ASSUME SkGenAssumption == \A i \in Inputs : InputOK(i)

(***************************************************************************)
(* The chains of gf_inv and gf_frac end in the inverse, for every element  *)
(* of both fields.                                                         *)
(***************************************************************************)
ASSUME InverseAssumption ==
  \A bits \in {12, 13} : \A a \in SUBSET (0..(bits - 1)) :
    a # {} => gf_mul(bits, a, gf_inv(bits, a)) = {0}

VARIABLES
  in,         \* the arguments
  mat,        \* mat: SYS_T + 1 rows
  j,          \* j
  k,          \* k
  out,        \* &mut out
  pc

vars == <<in, mat, j, k, out, pc>>

t == in.t
mul(a, b) == gf_mul(in.bits, a, b)
inv(a)    == gf_inv(in.bits, a)

Row(x) == [n \in 0..(t - 1) |-> IF n = 0 THEN x ELSE {}]

(* The XOR of the words f[x], x \in S. *)
SumOver(f, S) == {b \in 0..12 : G13!Odd({x \in S : b \in f[x]})}

(* gf.rs:260-264: the product without its reduction. *)
Convolution(a, b) ==
  LET Terms(n) == {x \in 0..(t - 1) : n - x \in 0..(t - 1)}
  IN  [n \in 0..(2 * t - 2) |->
         SumOver([x \in Terms(n) |-> mul(a[x], b[n - x])], Terms(n))]

(***************************************************************************)
(* gf.rs:266-296: prod[i] * y^(i - t) * modulus is added, for i from the   *)
(* highest place down; the places that i feeds may still be above t.       *)
(***************************************************************************)
FoldPlace(prod, i) ==
  [n \in DOMAIN prod |->
     IF n \in (i - t)..(i - 1)
     THEN SymDiff(prod[n], mul(in.modulus[n - i + t], prod[i]))
     ELSE prod[n]]

(* With a bug: the places are folded from the lowest up. *)
gf_mul_inplace_Upward(a, b) ==
  LET r[n \in 0..(t - 1)] ==
        IF n = 0 THEN Convolution(a, b) ELSE FoldPlace(r[n - 1], t - 1 + n)
  IN  [n \in 0..(t - 1) |-> r[t - 1][n]]

gf_mul_inplace(a, b) ==
  LET r[n \in 0..(t - 1)] ==
        IF n = 0 THEN Convolution(a, b) ELSE FoldPlace(r[n - 1], 2 * t - 1 - n)
  IN  [n \in 0..(t - 1) |-> r[t - 1][n]]

-------------------------------------------------------------------------------
Goto(from, to) == pc = from /\ pc' = to

(* sk_gen.rs:9-14 *)
Init ==
  /\ in \in Inputs
  /\ mat = [c \in 0..t |-> IF c = 0 THEN Row({0}) ELSE IF c = 1 THEN in.f ELSE Row({})]
  /\ j = 2 /\ k = 0
  /\ out = Stale
  /\ pc = "powers"

(* 16-19: row j is f^j. *)
Power ==
  /\ pc = "powers" /\ j <= t
  /\ mat' = [mat EXCEPT ![j] = gf_mul_inplace(mat[j - 1], in.f)]
  /\ j' = j + 1
  /\ UNCHANGED <<in, k, out, pc>>

Eliminate ==
  /\ Goto("powers", "pivot")
  /\ j = t + 1
  /\ j' = 0 /\ k' = 1
  /\ UNCHANGED <<in, mat, out>>

(* With a bug: the row of the pivot is left out. *)
FixedRows_Below == (j + 1)..t

FixedRows == j..t

(* 22-30: while the pivot is 0, the columns right of it are added to it. *)
FixPivot ==
  /\ pc = "pivot" /\ k < t
  /\ mat' = IF mat[j][j] # {} THEN mat
            ELSE [c \in 0..t |->
                    IF c \in FixedRows
                    THEN [mat[c] EXCEPT ![j] = SymDiff(@, mat[c][k])]
                    ELSE mat[c]]
  /\ k' = k + 1
  /\ UNCHANGED <<in, j, out, pc>>

(* 32-34: -1 *)
NoPivot ==
  /\ Goto("pivot", "failed")
  /\ k = t /\ mat[j][j] = {}
  /\ UNCHANGED <<in, mat, j, k, out>>

(* 36-40 *)
Scale ==
  /\ Goto("pivot", "clear")
  /\ k = t /\ mat[j][j] # {}
  /\ LET r == inv(mat[j][j])
     IN  mat' = [c \in 0..t |-> [mat[c] EXCEPT ![j] = mul(@, r)]]
  /\ k' = 0
  /\ UNCHANGED <<in, j, out>>

(* 42-50: row j is cleared by adding multiples of column j to the others. *)
Clear ==
  /\ pc = "clear" /\ k < t
  /\ mat' = IF k = j THEN mat
            ELSE [c \in 0..t |->
                    [mat[c] EXCEPT ![k] = SymDiff(@, mul(mat[c][j], mat[j][k]))]]
  /\ k' = k + 1
  /\ UNCHANGED <<in, j, out, pc>>

(* With a bug: one column too many. *)
NextColumn_PastLast ==
  /\ Goto("clear", "pivot")
  /\ k = t /\ j + 1 <= t
  /\ j' = j + 1 /\ k' = j + 2
  /\ UNCHANGED <<in, mat, out>>

NextColumn ==
  /\ Goto("clear", "pivot")
  /\ k = t /\ j + 1 < t
  /\ j' = j + 1 /\ k' = j + 2
  /\ UNCHANGED <<in, mat, out>>

(* 53 *)
Result == mat[t]

Return ==
  /\ Goto("clear", "done")
  /\ k = t /\ j + 1 = t
  /\ out' = Result
  /\ UNCHANGED <<in, mat, j, k>>

Returned == pc \in {"done", "failed"} /\ UNCHANGED vars

Next ==
  \/ Power \/ Eliminate
  \/ FixPivot \/ NoPivot \/ Scale \/ Clear \/ NextColumn
  \/ Return \/ Returned

Spec == Init /\ [][Next]_vars

-------------------------------------------------------------------------------
(* Properties.                                                             *)

TypeOK ==
  /\ in \in Inputs
  /\ mat \in [0..t -> Elements(in)]
  /\ j \in 0..(t + 1)
  /\ k \in 0..t
  /\ out \in Elements(in) \cup {Stale}
  /\ pc \in {"powers", "pivot", "clear", "done", "failed"}

(***************************************************************************)
(* Reference arithmetic, on polynomials in y and z: the set of the         *)
(* <<n, b>> of their monomials y^n * z^b.  A product is divided by         *)
(* y^t - modulus, from the highest power of y down, and then by the field  *)
(* polynomial, from the highest power of z down.                           *)
(***************************************************************************)
Poly(x) == UNION {{<<n, b>> : b \in x[n]} : n \in DOMAIN x}

Product(p, q) ==
  LET places == {<<a[1] + b[1], a[2] + b[2]>> : a \in p, b \in q}
  IN  {s \in places : G13!Odd({a \in p : <<s[1] - a[1], s[2] - a[2]>> \in q})}

DivideY(p, n) ==
  SymDiff(p, Product({a \in p : a[1] = n}, {<<0, 0>>} \cup
                     {<<a[1] - t, a[2]>> : a \in Poly(in.modulus)}))

DivideZ(p, b) ==
  LET low == IF in.bits = 12 THEN {3, 0} ELSE {4, 3, 1, 0}
  IN  SymDiff(p, Product({a \in p : a[2] = b},
                         {<<0, l - in.bits>> : l \in low \cup {in.bits}}))

(* y^(2 * t - 2), ..., y^t go, and then the powers of z that are too high. *)
Residue(p) ==
  LET y[m \in 0..(t - 1)] ==
        IF m = 0 THEN p ELSE DivideY(y[m - 1], 2 * t - 1 - m)
      top == Max({in.bits - 1} \cup {a[2] : a \in y[t - 1]})
      z[m \in 0..(top - in.bits + 1)] ==
        IF m = 0 THEN y[t - 1] ELSE DivideZ(z[m - 1], top + 1 - m)
  IN  z[top - in.bits + 1]

RefPower(x, n) ==
  LET r[m \in 0..n] == IF m = 0 THEN {<<0, 0>>} ELSE Residue(Product(r[m - 1], x))
  IN  r[n]

(***************************************************************************)
(* genpoly_gen returns coefficients with f^t = the sum of out[n] * f^n,    *)
(* evaluated by other means than the code's: f is a root of the polynomial *)
(* that keypair stores as the Goppa polynomial.                            *)
(***************************************************************************)
RootOfResult ==
  pc = "done" =>
    LET f == Poly(in.f)
        Term(n) == Residue(Product(Poly(Row(out[n])), RefPower(f, n)))
        sum[n \in 0..t] == IF n = 0 THEN {} ELSE SymDiff(sum[n - 1], Term(n - 1))
    IN  RefPower(f, t) = sum[t]

(* x^(2^n): the square of a sum is the sum of the squares. *)
Frobenius(x, n) ==
  LET r[m \in 0..n] ==
        IF m = 0 THEN x ELSE Residue({<<2 * a[1], 2 * a[2]>> : a \in r[m - 1]})
  IN  r[n]

(***************************************************************************)
(* It fails exactly for the f of a proper subfield, those with             *)
(* f^(2^(m*d)) = f for a proper divisor d of t, and then writes nothing.   *)
(* All others have a minimal polynomial of degree t, so that with          *)
(* RootOfResult what it returns is irreducible.                            *)
(***************************************************************************)
FailsExactlyInSubfield ==
  pc \in {"done", "failed"} =>
    LET divisors == {d \in 1..(t - 1) : t % d = 0}
        subfield == \E d \in divisors : Frobenius(Poly(in.f), in.bits * d) = Poly(in.f)
    IN  /\ pc = "failed" <=> subfield
        /\ pc = "failed" => out = Stale
===============================================================================
