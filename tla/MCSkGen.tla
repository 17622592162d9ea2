------------------------------- MODULE MCSkGen --------------------------------
(* Instances of SkGen for TLC: t = 3 and 4 over GF(2^12), 2 and 4 over GF(2^13). *)
EXTENDS SkGen

(* The coefficients below t of an element, from its sequence of coefficients. *)
El(s) == [n \in 0..(Len(s) - 1) |-> s[n + 1]]

(* y^4 + y^3 + y + z is that of mceliece348864 but for its degree; z = {1}. *)
Modulus12 == {El(<<{1}, {0}, {}, {0}>>), El(<<{1}, {0}, {0}>>)}

(* y^4 + y + 1, y^2 + y + 1 *)
Modulus13 == {El(<<{0}, {0}, {}, {}>>), El(<<{0}, {0}>>)}

(* Coefficients that reach the high bits of every mask. *)
Some12 == {{}, {0}, {11}, {10, 7, 4, 0}}
Some13 == {{}, {0}, {12}, {11, 8, 6, 3, 1}}

Fs(t0, coeffs) ==
  {x \in [0..(t0 - 1) -> coeffs] : t0 < 4 \/ x[1] = x[2] \/ x[3] = {}}

InputsOf(bits0, moduli, coeffs) ==
  UNION {LET n == Cardinality(DOMAIN m)
         IN  {[bits |-> bits0, t |-> n, modulus |-> m, f |-> x] : x \in Fs(n, coeffs)}
           : m \in moduli}

MCInputs == InputsOf(12, Modulus12, Some12) \cup InputsOf(13, Modulus13, Some13)
===============================================================================
