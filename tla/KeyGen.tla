-------------------------------- MODULE KeyGen --------------------------------
(***************************************************************************)
(* crypto_kem_keypair (src/operations.rs:205-333): the loop that expands a *)
(* seed, tries genpoly_gen and pk_gen, and starts over with the next seed  *)
(* when either fails - on top of whatever the failed attempt has already   *)
(* written to the secret key, to pi and to pivots.                         *)
(*                                                                         *)
(* The bytes of a seed's expansion and everything computed from them are   *)
(* named after the seed: the models of genpoly_gen and pk_gen say what     *)
(* these functions leave behind (PkGen shows it in detail), not the values. *)
(***************************************************************************)
EXTENDS Naturals

CONSTANTS
  Seeds,          \* the 32-byte seeds
  SEMI,           \* TRUE for the "f" features
  DefaultPivots,  \* 0xFFFFFFFF
  Stale,          \* bytes written before the call
  Zeros,          \* a freshly initialized array
  NoKey           \* nothing returned yet

ASSUME KeyGenAssumption ==
  /\ SEMI \in BOOLEAN
  /\ Stale \notin [irr : Seeds, perm : Seeds]

VARIABLES
  expand,     \* shake256 as a function of the seed (see KeyGenSpec)
  first,      \* the bytes the rng delivers; it is asked once
  seed,       \* let mut seed, without its first byte 64
  r,          \* the random block, named after the seed it was expanded from
  irr,        \* let mut irr
  perm,       \* let mut perm
  pi,         \* let mut pi
  pivots,     \* pivots
  sk,         \* the five segments of the caller's buffer
  pk,         \* the caller's buffer
  pc

locals == <<seed, r, irr, perm, pi, pivots>>
vars   == <<expand, first, seed, r, irr, perm, pi, pivots, sk, pk, pc>>

Result == IF pc = "done" THEN [pk |-> pk, sk |-> sk] ELSE NoKey

Abstract == INSTANCE KeyGenSpec WITH result <- Result

Outcome == expand[r].outcome

Goto(from, to) == pc = from /\ pc' = to

Init ==
  /\ expand \in Abstract!Expansions
  /\ first \in Seeds
  /\ seed = Zeros /\ r = Zeros /\ irr = Zeros
  /\ perm = Zeros /\ pi = Zeros /\ pivots = Zeros
  /\ sk = [seed |-> Stale, pivots |-> Stale, irr |-> Stale, cond |-> Stale,
           s |-> Stale]
  /\ pk = Stale
  /\ pc = "fill"

(* 244: rng.fill_bytes. *)
FillSeed ==
  /\ Goto("fill", "expand")
  /\ seed' = first
  /\ UNCHANGED <<expand, first, r, irr, perm, pi, pivots, sk, pk>>

(* With a bug: the seed is updated before it is stored. *)
StoredSeed_Next(s) == expand[s].next

(* 250: the seed r was expanded from. *)
StoredSeed(s) == s

(* With a bug: the next attempt repeats this one. *)
NextSeed_Same(s) == s

(* 251: the last 32 bytes of r. *)
NextSeed(s) == expand[s].next

(* 248-251: the seed is stored, then replaced by the end of r. *)
Expand ==
  /\ Goto("expand", "genpoly")
  /\ r' = seed
  /\ sk' = [sk EXCEPT !.seed = StoredSeed(seed)]
  /\ seed' = NextSeed(seed)
  /\ UNCHANGED <<expand, first, irr, perm, pi, pivots, pk>>

(* 259-261: irr is not written when genpoly_gen fails (src/sk_gen.rs:33). *)
NoPolynomial ==
  /\ Goto("genpoly", "expand")
  /\ Outcome = "no_irr"
  /\ UNCHANGED <<expand, first, locals, sk, pk>>

(* 259-271: irr is stored in sk, perm is read from r. *)
Polynomial ==
  /\ Goto("genpoly", "pk_gen")
  /\ Outcome # "no_irr"
  /\ irr' = r
  /\ sk' = [sk EXCEPT !.irr = irr']
  /\ perm' = r
  /\ UNCHANGED <<expand, first, seed, r, pi, pivots, pk>>

-------------------------------------------------------------------------------
(* 281-302: pk_gen reads the polynomial from sk and perm; PkGen shows what  *)
(* each of its returns leaves in pi and pivots.                            *)

(* Equal perm values: it returns before it writes anything. *)
PermDuplicate ==
  /\ Goto("pk_gen", "expand")
  /\ Outcome = "duplicate"
  /\ UNCHANGED <<expand, first, locals, sk, pk>>

(* A missing pivot: pi is sorted; the elimination fails before mov_columns *)
(* is called or when there is none (PkGen!NoFailureAfterWindow).           *)
NotSystematic ==
  /\ Goto("pk_gen", "expand")
  /\ Outcome = "singular"
  /\ pi' = Abstract!SortedOf(perm)
  /\ UNCHANGED <<expand, first, seed, r, irr, perm, pivots, sk, pk>>

(* mov_columns fails: some pivots are set, pi is not moved yet. *)
WindowNotFullRank ==
  /\ Goto("pk_gen", "expand")
  /\ Outcome = "window"
  /\ pi' = Abstract!SortedOf(perm)
  /\ pivots' = Abstract!PartialOf(perm)
  /\ UNCHANGED <<expand, first, seed, r, irr, perm, sk, pk>>

PublicKey ==
  /\ Goto("pk_gen", "controlbits")
  /\ Outcome = "good"
  /\ pk' = [irr |-> sk.irr, perm |-> perm]
  /\ pi' = Abstract!FinalPi(perm)
  /\ pivots' = IF SEMI THEN Abstract!MovedOf(perm) ELSE pivots
  /\ UNCHANGED <<expand, first, seed, r, irr, perm, sk>>

-------------------------------------------------------------------------------
(* 305-310. *)
ControlBits ==
  /\ Goto("controlbits", "store")
  /\ sk' = [sk EXCEPT !.cond = pi]
  /\ UNCHANGED <<expand, first, locals, pk>>

(* With a bug: the pivots of the other features are stored. *)
StoredPivots_Default == DefaultPivots

(* With a bug: the bytes of s are stored for the pivots. *)
StoredPivots_S == r

(* 326: the features without mov_columns set pivots to its default. *)
StoredPivots == IF SEMI THEN pivots ELSE DefaultPivots

(* 314-331: s is read from r; the pivots are stored last. *)
Store ==
  /\ Goto("store", "done")
  /\ pivots' = StoredPivots
  /\ sk' = [sk EXCEPT !.s = r, !.pivots = pivots']
  /\ UNCHANGED <<expand, first, seed, r, irr, perm, pi, pk>>

Returned == pc = "done" /\ UNCHANGED vars

Attempt ==
  \/ Expand \/ NoPolynomial \/ Polynomial
  \/ PermDuplicate \/ NotSystematic \/ WindowNotFullRank \/ PublicKey
  \/ ControlBits \/ Store

Next == FillSeed \/ Attempt \/ Returned

Spec == Init /\ [][Next]_vars /\ WF_vars(Next)

-------------------------------------------------------------------------------
(* Properties.                                                             *)

PiValues     == {Zeros} \cup [of : Seeds, is : {"sorted", "moved"}]
PivotsValues == {Zeros, DefaultPivots} \cup [of : Seeds, is : {"moved", "partial"}]

TypeOK ==
  /\ expand \in Abstract!Expansions
  /\ first \in Seeds
  /\ seed \in Seeds \cup {Zeros}
  /\ {r, irr, perm} \subseteq Seeds \cup {Zeros}
  /\ pi \in PiValues
  /\ pivots \in PivotsValues
  /\ sk \in [seed : Seeds \cup {Stale}, irr : Seeds \cup {Stale},
             s : Seeds \cup {Stale}, cond : PiValues \cup {Stale},
             pivots : PivotsValues \cup {Stale}]
  /\ pk \in [irr : Seeds, perm : Seeds] \cup {Stale}
  /\ pc \in {"fill", "expand", "genpoly", "pk_gen", "controlbits", "store", "done"}

(***************************************************************************)
(* Once pk_gen has accepted, everything that goes into the key comes from  *)
(* the attempt whose seed is stored, although seed, irr, perm, pi, pivots  *)
(* and three segments of sk were written by failed attempts before it      *)
(* (operations.rs:246-332); and the public key is touched only then.       *)
(***************************************************************************)
OneAttempt ==
  /\ pc \in {"controlbits", "store", "done"} =>
       /\ Outcome = "good"
       /\ sk.seed = r /\ sk.irr = r
       /\ pk = [irr |-> r, perm |-> r]
       /\ pi = Abstract!FinalPi(r)
       /\ SEMI => pivots = Abstract!MovedOf(r)
  /\ pc \in {"store", "done"} => sk.cond = Abstract!FinalPi(r)
  /\ pc = "done" => sk.s = r /\ sk.pivots = Abstract!FinalPivots(r)
  /\ pc \in {"fill", "expand", "genpoly", "pk_gen"} => pk = Stale

(***************************************************************************)
(* The 32 bytes kept in front of the secret key are a complete description *)
(* of the key pair: expanding them again yields the pair in one attempt    *)
(* (operations.rs:250, "sk[..32].clone_from_slice(&seed[1..])").           *)
(***************************************************************************)
StoredSeedReproducesKey ==
  pc = "done" =>
    /\ expand[sk.seed].outcome = "good"
    /\ Result = Abstract!KeyOf(sk.seed)

(* The loop refines "deliver the key of the first good seed". *)
DeliversFirstGoodKey == Abstract!Spec

(* If the chain of seeds meets a good one at all, keypair returns. *)
ReturnsIfGoodSeedExists ==
  (\E s \in Seeds : Abstract!IsFirstGood(s)) => <>(pc = "done")
===============================================================================
