------------------------------- MODULE BenesRev -------------------------------
(***************************************************************************)
(* apply_benes with rev = 0 and then with rev = 1 under the same bits.     *)
(* The crate itself only calls it with rev = 0 (support_gen); the comment  *)
(* on it promises the inverse for the other value.                         *)
(***************************************************************************)
EXTENDS BenesNet

(* Records of the width b, the set bits of the indices of the control bits *)
(* that are 1, below Layers(b) * 2^(b - 1), and the argument r.            *)
CONSTANT Cases

VARIABLES case, r, pc

vars == <<case, r, pc>>

Init == case \in Cases /\ r = case.r /\ pc = "forward"

Forward ==
  /\ pc = "forward" /\ pc' = "backward"
  /\ r' = apply_benes(r, case.bits, case.b, 0)
  /\ UNCHANGED case

Backward ==
  /\ pc = "backward" /\ pc' = "done"
  /\ r' = apply_benes(r, case.bits, case.b, 1)
  /\ UNCHANGED case

Done == pc = "done" /\ UNCHANGED vars

Next == Forward \/ Backward \/ Done

Spec == Init /\ [][Next]_vars

(***************************************************************************)
(* benes.rs:136-137 and 253-254: rev toggles between normal application    *)
(* (0) or its inverse (!0).  So both, one after the other, restore r.      *)
(***************************************************************************)
RevIsInverse == pc = "done" => r = case.r
===============================================================================
