------------------------------- MODULE MCKeyGen -------------------------------
(* Three seeds, with every function from seeds to outcomes and next seeds. *)
EXTENDS KeyGen

CONSTANTS s1, s2, s3
===============================================================================
