------------------------------ MODULE SupportGen ------------------------------
(***************************************************************************)
(* The control bits of a permutation, computed when a key is generated     *)
(* (ControlBits), and what decryption makes of them: support_gen           *)
(* (src/benes.rs) sends the GFBITS bit planes of the list of all field     *)
(* elements through the Benes network and reads the support off them.      *)
(***************************************************************************)
EXTENDS ControlBits

VARIABLES
  l,          \* l: the bit planes, each the set of the indices of its 1 bits
  plane,      \* the number of planes that went through the network
  s           \* s: the support; an element is the set of its 1 bits

vars == <<pi, temp, out, calls, i, pc, l, plane, s>>

(* util.rs: the set of the 1 bits of bitrev(x) *)
bitrev(x) == {b \in 0..(W - 1) : (x \div 2^(W - 1 - b)) % 2 = 1}

SgInit == Init /\ l = <<>> /\ plane = 0 /\ s = <<>>

ComputeBits == CbNext /\ UNCHANGED <<l, plane, s>>

(* benes.rs:349-357 *)
FillPlanes ==
  /\ Goto("verified", "planes")
  /\ l' = [b \in 0..(W - 1) |-> {x \in 0..(N - 1) : b \in bitrev(x)}]
  /\ UNCHANGED <<pi, temp, out, calls, i, plane, s>>

(* 359-368 *)
Permute ==
  /\ pc = "planes" /\ plane < W
  /\ l' = [l EXCEPT ![plane] = apply_benes(@, out, W, 0)]
  /\ plane' = plane + 1
  /\ UNCHANGED <<pi, temp, out, calls, i, pc, s>>

(* 370-376 *)
Collect ==
  /\ Goto("planes", "done")
  /\ plane = W
  /\ s' = [x \in 0..(N - 1) |-> {b \in 0..(W - 1) : x \in l[b]}]
  /\ UNCHANGED <<pi, temp, out, calls, i, l, plane>>

Done == pc \in {"done", "panic"} /\ UNCHANGED vars

Next == ComputeBits \/ FillPlanes \/ Permute \/ Collect \/ Done

Spec == SgInit /\ [][Next]_vars

-------------------------------------------------------------------------------
(* Properties.                                                             *)

(***************************************************************************)
(* Decryption works on the support that key generation used: the network   *)
(* applied to the list of all elements leaves bitrev(pi[x]) at place x,    *)
(* which is what pk_gen evaluates the Goppa polynomial at                  *)
(* (pk_gen.rs:241-243, Support of Goppa).                                  *)
(***************************************************************************)
SupportFollowsPi ==
  pc = "done" => \A x \in 0..(N - 1) : s[x] = bitrev(pi[x])
===============================================================================
