-------------------------------- MODULE MCGenE --------------------------------
(* Instances of GenE for TLC; the .cfg files give the four constants. *)
EXTENDS GenE
===============================================================================
