-------------------------------- MODULE Goppa ---------------------------------
(***************************************************************************)
(* The binary Goppa code of a key: evaluation of its polynomial            *)
(* (src/root.rs), its support (src/pk_gen.rs:241-243), and the parity      *)
(* check matrix pk_gen fills bit by bit (src/pk_gen.rs:245-276).           *)
(*                                                                         *)
(* A polynomial of degree SYS_T is a function on 0..SYS_T; a row of the    *)
(* matrix is the set of the columns in which it has a 1.  Byte j/8, bit    *)
(* j%8 of the code's packed row is column j.                               *)
(***************************************************************************)
EXTENDS GF

CONSTANTS
  SYS_T,      \* degree of the Goppa polynomial
  SYS_N       \* length of the code

PK_NROWS == SYS_T * GFBITS
PK_NCOLS == SYS_N - PK_NROWS

Rows == 0..(PK_NROWS - 1)
Cols == 0..(SYS_N - 1)
Idx  == 0..(2^GFBITS - 1)          \* the domain of perm and pi

ASSUME GoppaAssumption ==
  /\ SYS_T \in Nat \ {0}
  /\ SYS_N \in Nat
  /\ 2^GFBITS \in Nat              \* SMT knows nothing of exponentiation
  /\ PK_NROWS < SYS_N
  /\ SYS_N <= 2^GFBITS

Poly == {f \in [0..SYS_T -> Gf] : f[SYS_T] = One}

(* The field operations as tables: one evaluation of each serves a whole run. *)
Product == [p \in Gf \X Gf |-> gf_mul(p[1], p[2])]
Reciprocal == [a \in Gf |-> gf_inv(a)]

(* Horner's rule, from the leading coefficient down. *)
eval(f, a) ==
  LET r[n \in 0..SYS_T] ==
        IF n = SYS_T THEN f[SYS_T] ELSE gf_add(Product[<<r[n + 1], a>>], f[n])
  IN  r[0]

root(f, l) == [x \in DOMAIN l |-> eval(f, l[x])]

Support(pi) == [x \in Cols |-> bitrev(pi[x])]

(* An entry of inv after n rounds of inv[x] = inv[x] * l[x], for every n:  *)
(* l is l[x], and out the value of the polynomial there.                   *)
Powers(l, out) ==
  LET inv[n \in 0..(SYS_T - 1)] ==
        IF n = 0 THEN Reciprocal[out] ELSE Product[<<inv[n - 1], l>>]
  IN  inv

(* Row n*GFBITS + b holds bit b of l[x]^n / g(l[x]) for every column x.    *)
FillMatrix(g, pi) ==
  LET l   == Support(pi)
      out == root(g, l)
      inv == [x \in Cols |-> Powers(l[x], out[x])]
  IN  [r \in Rows |-> {x \in Cols : r % GFBITS \in inv[x][r \div GFBITS]}]

-------------------------------------------------------------------------------
(* Linear algebra over GF(2), used to state properties.                    *)

(* The sum of the rows of m that S names. *)
RowSum(m, S) == {c \in Cols : Odd({r \in S : c \in m[r]})}

(* h is m: TLC computes an element of a set once. *)
RowSpace(m) == {RowSum(h, S) : h \in {m}, S \in SUBSET Rows}

(* The first n columns can be made unit vectors: each is independent of    *)
(* the others.                                                             *)
Systematic(m, n) ==
  LET leading == {v \cap (0..(n - 1)) : v \in RowSpace(m)}
  IN  \A c \in 0..(n - 1) : {c} \in leading

(* No rows cancel out in the first n columns: they have full rank there.   *)
Independent(m, n) ==
  \A h \in {m}, S \in (SUBSET Rows) \ {{}} : RowSum(h, S) \cap (0..(n - 1)) # {}
===============================================================================
