------------------------------ MODULE MCDecrypt -------------------------------
(* Instances of Decrypt for TLC: x^m = x + 1, every ciphertext. *)
EXTENDS Decrypt

MCTaps == {1, 0}

(* Polynomials of degree 2 or 3 without a root are irreducible. *)
Rootless(const) ==
  {f \in Poly : f[0] = const /\ \A a \in Gf : eval(f, a) # Zero}

Identity == [n \in Idx |-> n]
Rotated  == [n \in Idx |-> (3 * n + 1) % Cardinality(Idx)]

MCInputs2 ==
  [g : Rootless({0}), pi : {Identity, Rotated}, c : SUBSET SyndBits]

(* One polynomial of degree 3 over GF(16). *)
OnePoly == CHOOSE f \in Rootless({0}) : TRUE

MCInputs3 ==
  [g : {OnePoly}, pi : {Rotated}, c : {x \in SUBSET SyndBits : {0, 5, 6, 9, 14} \cap x = {}}]
===============================================================================
