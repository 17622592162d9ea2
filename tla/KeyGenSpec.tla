------------------------------ MODULE KeyGenSpec ------------------------------
(***************************************************************************)
(* What crypto_kem_keypair promises, without its loop: the key pair is the *)
(* one that the first good seed determines.  A seed is expanded into the   *)
(* random block r, whose last 32 bytes are the seed of the next attempt;   *)
(* whether genpoly_gen and pk_gen accept the rest of r, and every segment  *)
(* of the key, is a function of the seed alone.                            *)
(***************************************************************************)
CONSTANTS
  Seeds,      \* the 32-byte seeds
  SEMI,       \* TRUE for the "f" features
  NoKey,
  DefaultPivots   \* 0xFFFFFFFF

VARIABLES
  expand,     \* SHAKE256 of 64 || seed: what becomes of the attempt, and the next seed
  first,      \* the seed the caller's rng delivers
  result      \* the key pair, or NoKey before it is returned

(* How an attempt ends: genpoly_gen fails; pk_gen fails on equal perm      *)
(* values, on a window without full rank, or on a missing pivot; or it     *)
(* succeeds.                                                               *)
Outcomes ==
  {"no_irr", "duplicate", "singular", "good"} \cup (IF SEMI THEN {"window"} ELSE {})

Expansions == [Seeds -> [outcome : Outcomes, next : Seeds]]

(* What pk_gen leaves in pi and pivots: values determined by the seed. *)
SortedOf(s)  == [of |-> s, is |-> "sorted"]
MovedOf(s)   == [of |-> s, is |-> "moved"]
PartialOf(s) == [of |-> s, is |-> "partial"]

FinalPi(s)     == IF SEMI THEN MovedOf(s) ELSE SortedOf(s)
FinalPivots(s) == IF SEMI THEN MovedOf(s) ELSE DefaultPivots

KeyOf(s) ==
  [pk |-> [irr |-> s, perm |-> s],
   sk |-> [seed |-> s, pivots |-> FinalPivots(s), irr |-> s,
           cond |-> FinalPi(s), s |-> s]]

Good(s) == expand[s].outcome = "good"

(* A set of seeds that the attempts do not leave: the first seed is in it, *)
(* and the seed that follows a failed attempt.                             *)
Closed(S) ==
  first \in S /\ \A s \in S : ~ Good(s) => expand[s].next \in S

(* The seeds that are tried, whatever number of attempts it takes. *)
Tried(s) == \A S \in SUBSET Seeds : Closed(S) => s \in S

(* The first good one, as no attempt follows it; a chain of seeds that has *)
(* run into a cycle without a good seed will never meet one.               *)
IsFirstGood(s) == Good(s) /\ Tried(s)

vars == <<expand, first, result>>

Init ==
  /\ expand \in Expansions
  /\ first \in Seeds
  /\ result = NoKey

Deliver ==
  /\ result = NoKey
  /\ \E s \in Seeds : IsFirstGood(s) /\ result' = KeyOf(s)
  /\ UNCHANGED <<expand, first>>

Spec == Init /\ [][Deliver]_vars
===============================================================================
