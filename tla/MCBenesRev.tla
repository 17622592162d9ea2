------------------------------ MODULE MCBenesRev ------------------------------
(* One or two exchanges anywhere in the networks on 8 and on 16 bits. *)
EXTENDS BenesRev

BitsOf(b) == {{x, y} : x, y \in 0..(Layers(b) * 2^(b - 1) - 1)}

CONSTANT Widths

MCCases ==
  UNION {{[b |-> b, bits |-> bits, r |-> {0, 3, 2^(b - 1)}] : bits \in BitsOf(b)}
           : b \in Widths}
===============================================================================
