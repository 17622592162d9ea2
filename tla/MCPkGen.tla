------------------------------- MODULE MCPkGen --------------------------------
(* Instances of PkGen for TLC. *)
EXTENDS PkGen, TLC

(* x^m = x + 1, for m = 3 and 4 *)
MCTaps == {1, 0}

(* Polynomials of degree 2 without a root: what genpoly_gen can return. *)
Irreducible2 == {f \in Poly : \A a \in Gf : eval(f, a) # Zero}

(* Those with the given constant coefficients. *)
SomePolys(consts) == {f \in Irreducible2 : f[0] \in consts}

(***************************************************************************)
(* Permutations with and without a systematic form: the affine maps of     *)
(* Idx, each with one pair exchanged; and one perm with an equal pair.     *)
(***************************************************************************)
Affine(slopes, offsets) ==
  {[n \in Idx |-> (a * n + b) % Cardinality(Idx)] : a \in slopes, b \in offsets}

OnePairMoved(ps, xs) ==
  ps \cup {[p EXCEPT ![x] = p[y], ![y] = p[x]] : p \in ps, x \in xs, y \in Idx}

Twice == {[n \in Idx |-> IF n = 3 THEN 5 ELSE n]}

(* x^3 = x + 1, 8 columns *)
MCInputs3 ==
  [g : SomePolys({{0}, {0, 1}}),
   perm : OnePairMoved(Affine({1, 3}, {0, 3}), {0, 3}) \cup Twice]

(* x^4 = x + 1, 12 or more columns *)
MCInputs4 ==
  [g : {f \in SomePolys({{0, 1}}) : f[1] \in {{0}, {3}}},
   perm : OnePairMoved(Affine({1, 3, 7}, {0, 5}), {2}) \cup Twice]
===============================================================================
