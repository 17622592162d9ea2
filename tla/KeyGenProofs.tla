----------------------------- MODULE KeyGenProofs -----------------------------
(***************************************************************************)
(* Proofs about the retry loop of crypto_kem_keypair, for every set of     *)
(* seeds and every expansion.                                              *)
(***************************************************************************)
EXTENDS KeyGen, TLAPS

(* The segments of the secret key are those of operations.rs:202.          *)
SkShape ==
  sk = [seed |-> sk.seed, pivots |-> sk.pivots, irr |-> sk.irr,
        cond |-> sk.cond, s |-> sk.s]

(***************************************************************************)
(* What holds in the middle of an attempt.  OneAttempt alone is not        *)
(* inductive: it does not say that the seed segment was overwritten when   *)
(* the attempt began, nor that irr and perm were before pk_gen read them.  *)
(***************************************************************************)
AttemptInv ==
  /\ SkShape
  /\ pc # "fill" => seed \in Seeds
  /\ pc \notin {"fill", "expand"} => r \in Seeds /\ sk.seed = r
  /\ pc \notin {"fill", "expand", "genpoly"} => sk.irr = r /\ perm = r
  /\ expand \in Abstract!Expansions
  /\ first \in Seeds

IInv == AttemptInv /\ OneAttempt

LEMMA InitInv == Init => IInv
BY DEF Init, IInv, AttemptInv, SkShape, OneAttempt

LEMMA NextInv == IInv /\ [Next]_vars => IInv'
<1>. SUFFICES ASSUME IInv, [Next]_vars
              PROVE  IInv'
  OBVIOUS
<1>. USE DEF IInv, AttemptInv, SkShape, OneAttempt, Goto, Outcome
<1>1. CASE FillSeed
  BY <1>1 DEF FillSeed
<1>2. CASE Expand
  <2>1. expand[seed].next \in Seeds
    BY <1>2 DEF Expand, Abstract!Expansions
  <2>2. seed' \in Seeds /\ r' \in Seeds
    BY <1>2, <2>1 DEF Expand, NextSeed
  <2>3. sk' = [sk EXCEPT !.seed = seed]
    BY <1>2 DEF Expand, StoredSeed
  <2>4. sk'.seed = r' /\ SkShape'
    BY <1>2, <2>3 DEF Expand
  <2>. QED
    BY <1>2, <2>2, <2>4 DEF Expand
<1>3. CASE NoPolynomial
  BY <1>3 DEF NoPolynomial, locals
<1>4. CASE Polynomial
  <2>1. sk' = [sk EXCEPT !.irr = r]
    BY <1>4 DEF Polynomial
  <2>2. sk'.irr = r /\ sk'.seed = sk.seed /\ SkShape'
    BY <2>1
  <2>. QED
    BY <1>4, <2>2 DEF Polynomial
<1>5. CASE PermDuplicate \/ NotSystematic \/ WindowNotFullRank
  BY <1>5 DEF PermDuplicate, NotSystematic, WindowNotFullRank, locals
<1>6. CASE PublicKey
  BY <1>6 DEF PublicKey, Abstract!FinalPi
<1>7. CASE ControlBits
  <2>1. sk' = [sk EXCEPT !.cond = pi]
    BY <1>7 DEF ControlBits
  <2>2. /\ sk'.cond = pi /\ sk'.seed = sk.seed /\ sk'.irr = sk.irr
        /\ SkShape'
    BY <2>1
  <2>. QED
    BY <1>7, <2>2 DEF ControlBits, locals
<1>8. CASE Store
  <2>1. sk' = [sk EXCEPT !.s = r, !.pivots = pivots']
    BY <1>8 DEF Store
  <2>2. /\ sk'.s = r /\ sk'.pivots = pivots' /\ sk'.seed = sk.seed
        /\ sk'.irr = sk.irr /\ sk'.cond = sk.cond
        /\ SkShape'
    BY <2>1
  <2>3. pivots' = Abstract!FinalPivots(r) /\ (SEMI => pivots' = pivots)
    BY <1>8 DEF Store, StoredPivots, Abstract!FinalPivots
  <2>. QED
    BY <1>8, <2>2, <2>3 DEF Store
<1>9. CASE Returned \/ UNCHANGED vars
  BY <1>9 DEF Returned, vars
<1>. QED
  BY <1>1, <1>2, <1>3, <1>4, <1>5, <1>6, <1>7, <1>8, <1>9 DEF Next, Attempt

(***************************************************************************)
(* The type invariant needs the invariant of an attempt: the permutation   *)
(* is sorted, and the public key made, only from bytes that this attempt   *)
(* has expanded, never from the zeros the arrays begin with.               *)
(***************************************************************************)
LEMMA TypeStep == TypeOK /\ IInv /\ [Next]_vars => TypeOK'
<1>. SUFFICES ASSUME TypeOK, IInv, [Next]_vars
              PROVE  TypeOK'
  OBVIOUS
<1>. USE DEF TypeOK, Goto, PiValues, PivotsValues
<1>0. /\ pc # "fill" => seed \in Seeds
      /\ pc \notin {"fill", "expand"} => r \in Seeds
      /\ pc \notin {"fill", "expand", "genpoly"} => sk.irr \in Seeds /\ perm \in Seeds
  BY DEF IInv, AttemptInv
<1>1. CASE FillSeed
  BY <1>1 DEF FillSeed
<1>2. CASE Expand
  <2>1. expand[seed].next \in Seeds
    BY <1>0, <1>2 DEF Expand, Abstract!Expansions
  <2>2. sk' = [sk EXCEPT !.seed = seed]
    BY <1>2 DEF Expand, StoredSeed
  <2>3. sk' \in [seed : Seeds \cup {Stale}, irr : Seeds \cup {Stale},
                 s : Seeds \cup {Stale}, cond : PiValues \cup {Stale},
                 pivots : PivotsValues \cup {Stale}]
    BY <1>0, <1>2, <2>2 DEF Expand
  <2>. QED
    BY <1>0, <1>2, <2>1, <2>3 DEF Expand, NextSeed
<1>3. CASE NoPolynomial \/ PermDuplicate
  BY <1>3 DEF NoPolynomial, PermDuplicate, locals
<1>4. CASE Polynomial
  <2>1. sk' = [sk EXCEPT !.irr = r] /\ r \in Seeds
    BY <1>0, <1>4 DEF Polynomial
  <2>2. sk' \in [seed : Seeds \cup {Stale}, irr : Seeds \cup {Stale},
                 s : Seeds \cup {Stale}, cond : PiValues \cup {Stale},
                 pivots : PivotsValues \cup {Stale}]
    BY <2>1
  <2>. QED
    BY <1>4, <2>1, <2>2 DEF Polynomial
<1>5. CASE NotSystematic \/ WindowNotFullRank
  BY <1>0, <1>5
     DEF NotSystematic, WindowNotFullRank, Abstract!SortedOf, Abstract!PartialOf
<1>6. CASE PublicKey
  <2>1. pi' \in PiValues /\ pivots' \in PivotsValues
    BY <1>0, <1>6 DEF PublicKey, Abstract!FinalPi, Abstract!SortedOf, Abstract!MovedOf
  <2>2. pk' \in [irr : Seeds, perm : Seeds]
    BY <1>0, <1>6 DEF PublicKey
  <2>. QED
    BY <1>6, <2>1, <2>2 DEF PublicKey
<1>7. CASE ControlBits
  <2>1. sk' = [sk EXCEPT !.cond = pi]
    BY <1>7 DEF ControlBits
  <2>2. sk' \in [seed : Seeds \cup {Stale}, irr : Seeds \cup {Stale},
                 s : Seeds \cup {Stale}, cond : PiValues \cup {Stale},
                 pivots : PivotsValues \cup {Stale}]
    BY <2>1
  <2>. QED
    BY <1>7, <2>2 DEF ControlBits, locals
<1>8. CASE Store
  <2>1. /\ sk' = [sk EXCEPT !.s = r, !.pivots = pivots']
        /\ pivots' \in PivotsValues /\ r \in Seeds
    BY <1>0, <1>8 DEF Store, StoredPivots
  <2>2. sk' \in [seed : Seeds \cup {Stale}, irr : Seeds \cup {Stale},
                 s : Seeds \cup {Stale}, cond : PiValues \cup {Stale},
                 pivots : PivotsValues \cup {Stale}]
    BY <2>1
  <2>. QED
    BY <1>8, <2>1, <2>2 DEF Store
<1>9. CASE Returned \/ UNCHANGED vars
  BY <1>9 DEF Returned, vars
<1>. QED
  BY <1>1, <1>2, <1>3, <1>4, <1>5, <1>6, <1>7, <1>8, <1>9 DEF Next, Attempt

(***************************************************************************)
(* Every variable keeps its type: no attempt leaves the zeros or the stale *)
(* bytes that the arrays began with where a value of a seed is due.        *)
(***************************************************************************)
THEOREM KeyGenTypeCorrect == Spec => []TypeOK
<1>1. Init => TypeOK
  BY DEF Init, TypeOK, PiValues, PivotsValues
<1>. QED
  BY <1>1, TypeStep, InitInv, NextInv, PTL DEF Spec

(* Everything in the key pair comes from the attempt that succeeded.       *)
THEOREM KeyFromOneAttempt == Spec => []OneAttempt
<1>1. IInv => OneAttempt
  BY DEF IInv
<1>. QED
  BY <1>1, InitInv, NextInv, PTL DEF Spec

(* The seed stored in the secret key determines the whole key pair.        *)
THEOREM SeedDeterminesKey == Spec => []StoredSeedReproducesKey
<1>1. IInv => StoredSeedReproducesKey
  BY DEF IInv, AttemptInv, SkShape, OneAttempt, Outcome,
         StoredSeedReproducesKey, Result, Abstract!KeyOf
<1>. QED
  BY <1>1, InitInv, NextInv, PTL DEF Spec

-------------------------------------------------------------------------------
(* The loop against KeyGenSpec.                                            *)

(***************************************************************************)
(* KeyGenSpec leaves no choice: at most one seed of a chain is its first   *)
(* good one.  The argument needs no count of the attempts: the seeds from  *)
(* which both s and t are met are closed, so s is one of them, and from s, *)
(* which is good, no other is met.                                         *)
(***************************************************************************)
THEOREM FirstGoodIsUnique ==
  ASSUME expand \in Abstract!Expansions, first \in Seeds,
         NEW s \in Seeds, NEW t \in Seeds,
         Abstract!IsFirstGood(s), Abstract!IsFirstGood(t)
  PROVE  s = t
<1>. DEFINE Kept(S) == \A x \in S : ~ Abstract!Good(x) => expand[x].next \in S
            Meets(x, y) == \A S \in SUBSET Seeds : x \in S /\ Kept(S) => y \in S
            Both == {x \in Seeds : Meets(x, s) /\ Meets(x, t)}
<1>1. Meets(first, s) /\ Meets(first, t)
  BY DEF Abstract!IsFirstGood, Abstract!Tried, Abstract!Closed
<1>2. ASSUME NEW x \in Both, ~ Abstract!Good(x)
      PROVE  expand[x].next \in Both
  <2>1. expand[x].next \in Seeds
    BY DEF Abstract!Expansions
  <2>2. ASSUME NEW y \in {s, t}, NEW S \in SUBSET Seeds,
               expand[x].next \in S, Kept(S)
        PROVE  y \in S
    <3>1. S \cup {x} \in SUBSET Seeds /\ Kept(S \cup {x})
      BY <2>2
    <3>2. y \in S \cup {x}
      BY <3>1
    <3>3. y # x
      BY <1>2 DEF Abstract!IsFirstGood
    <3>. QED
      BY <3>2, <3>3
  <2>. QED
    BY <2>1, <2>2
<1>3. s \in Both
  BY <1>1, <1>2 DEF Abstract!IsFirstGood, Abstract!Tried, Abstract!Closed
<1>4. Kept({s})
  BY DEF Abstract!IsFirstGood
<1>. QED
  BY <1>3, <1>4

(***************************************************************************)
(* Every seed the loop expands is one of the chain: it is the rng's, or it *)
(* follows the seed of an attempt that failed.                             *)
(***************************************************************************)
ChainInv ==
  /\ pc = "expand" => Abstract!Tried(seed)
  /\ pc \notin {"fill", "expand"} => Abstract!Tried(r) /\ seed = NextSeed(r)

LEMMA TriedFirst == first \in Seeds => Abstract!Tried(first)
BY DEF Abstract!Tried, Abstract!Closed

LEMMA TriedNext ==
  ASSUME NEW s, Abstract!Tried(s), ~ Abstract!Good(s)
  PROVE  Abstract!Tried(expand[s].next)
BY DEF Abstract!Tried, Abstract!Closed

LEMMA ChainStep == IInv /\ ChainInv /\ [Next]_vars => ChainInv'
<1>. SUFFICES ASSUME IInv, ChainInv, [Next]_vars
              PROVE  ChainInv'
  OBVIOUS
<1>. USE DEF Abstract!Tried, Abstract!Closed, Abstract!Good, Goto, ChainInv
<1>1. CASE FillSeed
  BY <1>1 DEF FillSeed, IInv, AttemptInv
<1>2. CASE Expand
  BY <1>2 DEF Expand, NextSeed
<1>3. CASE NoPolynomial \/ PermDuplicate \/ NotSystematic \/ WindowNotFullRank
  <2>1. /\ pc \in {"genpoly", "pk_gen"} /\ pc' = "expand"
        /\ ~ Abstract!Good(r)
        /\ UNCHANGED <<expand, first, seed>>
    BY <1>3 DEF NoPolynomial, PermDuplicate, NotSystematic, WindowNotFullRank,
                locals, Outcome
  <2>2. Abstract!Tried(expand[r].next)
    BY <2>1, TriedNext
  <2>. QED
    BY <2>1, <2>2 DEF NextSeed
<1>4. CASE Polynomial \/ PublicKey \/ ControlBits \/ Store
  BY <1>4 DEF Polynomial, PublicKey, ControlBits, Store, locals, NextSeed
<1>5. CASE Returned \/ UNCHANGED vars
  BY <1>5 DEF Returned, vars, NextSeed
<1>. QED
  BY <1>1, <1>2, <1>3, <1>4, <1>5 DEF Next, Attempt

(***************************************************************************)
(* crypto_kem_keypair implements KeyGenSpec: it delivers once, and what it *)
(* delivers is the key pair of the first good seed, whatever the attempts  *)
(* before it left in the variables that outlive an attempt.  All steps but *)
(* the last one are steps in which KeyGenSpec does nothing.                *)
(***************************************************************************)
THEOREM LoopImplementsSpec == Spec => DeliversFirstGoodKey
<1>. DEFINE AInit == Abstract!Init
            ANext == [Abstract!Deliver]_(Abstract!vars)
<1>1. Init => AInit
  BY DEF Init, Abstract!Init, Result
<1>2. Init => ChainInv
  BY DEF Init, ChainInv
<1>3. IInv /\ IInv' /\ ChainInv /\ [Next]_vars => ANext
  <2>. SUFFICES ASSUME IInv, IInv', ChainInv, [Next]_vars
                PROVE  ANext
    OBVIOUS
  <2>1. CASE Store
    <3>1. pc # "done" /\ pc' = "done" /\ UNCHANGED <<expand, first, r>>
      BY <2>1 DEF Store, Goto
    <3>2. Result = NoKey
      BY <3>1 DEF Result
    <3>3. Result' = Abstract!KeyOf(r)
      <4>1. /\ SkShape' /\ pk' = [irr |-> r', perm |-> r']
            /\ sk'.seed = r' /\ sk'.irr = r' /\ sk'.s = r'
            /\ sk'.cond = Abstract!FinalPi(r')
            /\ sk'.pivots = Abstract!FinalPivots(r')
        BY <3>1 DEF IInv, AttemptInv, OneAttempt, Abstract!FinalPi,
                    Abstract!FinalPivots
      <4>2. sk' = [seed |-> r, pivots |-> Abstract!FinalPivots(r), irr |-> r,
                   cond |-> Abstract!FinalPi(r), s |-> r]
        BY <3>1, <4>1 DEF SkShape
      <4>. QED
        BY <3>1, <4>1, <4>2 DEF Result, Abstract!KeyOf
    <3>4. r \in Seeds /\ Abstract!IsFirstGood(r)
      BY <2>1 DEF Store, Goto, IInv, AttemptInv, OneAttempt, ChainInv, Outcome,
                  Abstract!IsFirstGood, Abstract!Good
    <3>. QED
      BY <3>1, <3>2, <3>3, <3>4 DEF Abstract!Deliver
  <2>2. CASE \/ FillSeed \/ Expand \/ NoPolynomial \/ Polynomial
             \/ PermDuplicate \/ NotSystematic \/ WindowNotFullRank \/ PublicKey
             \/ ControlBits
    BY <2>2 DEF FillSeed, Expand, NoPolynomial, Polynomial, PermDuplicate,
                NotSystematic, WindowNotFullRank, PublicKey, ControlBits,
                Goto, Result, Abstract!vars
  <2>3. CASE Returned \/ UNCHANGED vars
    BY <2>3 DEF Returned, vars, Result, Abstract!vars
  <2>. QED
    BY <2>1, <2>2, <2>3 DEF Next, Attempt
<1>. QED
  BY <1>1, <1>2, <1>3, InitInv, NextInv, ChainStep, PTL
     DEF Spec, DeliversFirstGoodKey, Abstract!Spec
===============================================================================
