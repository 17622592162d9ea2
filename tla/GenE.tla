--------------------------------- MODULE GenE ---------------------------------
(***************************************************************************)
(* gen_e (src/encrypt.rs:25-85, and 91-133 for mceliece8192128[f]): an     *)
(* error vector of weight SYS_T by rejection sampling.  Every round takes  *)
(* a block of random numbers, keeps the first SYS_T of them that are       *)
(* positions, and is repeated when there are too few or when one occurs    *)
(* twice.  ind lives outside the loop: it keeps what rejected rounds wrote. *)
(*                                                                         *)
(* mceliece8192128[f] draws SYS_T numbers a round and checks no range, its *)
(* SYS_N being 2^GFBITS: every number passes the range check made here.    *)
(***************************************************************************)
EXTENDS Naturals, FiniteSets

CONSTANTS
  SYS_T,      \* the weight
  SYS_N,      \* the positions are 0..SYS_N-1
  RANGE,      \* 2^GFBITS: load_gf masks every number with GFMASK
  BLOCK       \* numbers in a round: 2 * SYS_T, or SYS_T for mceliece8192128[f]

ASSUME GenEAssumption ==
  /\ SYS_T \in Nat \ {0}
  /\ SYS_N \in Nat /\ SYS_T <= SYS_N
  /\ RANGE \in Nat /\ SYS_N <= RANGE
  /\ \/ BLOCK = 2 * SYS_T
     \/ BLOCK = SYS_T /\ SYS_N = RANGE

Positions == 0..(SYS_N - 1)
Slots     == 0..(SYS_T - 1)
Blocks    == [0..(BLOCK - 1) -> 0..(RANGE - 1)]

VARIABLES
  nums,       \* nums: local to a round
  n,          \* the position of itr_num in nums
  count,      \* count: local to a round
  ind,        \* ind
  e,          \* &mut e, as the set of its 1 bits
  pc

vars == <<nums, n, count, ind, e, pc>>

ZeroBlock == [x \in 0..(BLOCK - 1) |-> 0]

Goto(from, to) == pc = from /\ pc' = to

Init ==
  /\ nums = ZeroBlock
  /\ n = 0
  /\ count = 0
  /\ ind = [x \in Slots |-> 0]
  /\ e \in {{}, Positions}            \* the caller's buffer
  /\ pc = "fill"

(* 30-40: rng.fill_bytes. *)
FillWith(block) ==
  /\ Goto("fill", "scan")
  /\ nums' = block
  /\ n' = 0
  /\ count' = 0
  /\ UNCHANGED <<ind, e>>

Fill == \E block \in Blocks : FillWith(block)

(* With a bug: the check is off by one. *)
InRange_OffByOne(x) == x <= SYS_N

InRange(x) == x < SYS_N

(* 41-49: one round of the loop over nums. *)
Keep ==
  /\ pc = "scan"
  /\ n < BLOCK /\ count < SYS_T
  /\ InRange(nums[n])
  /\ ind' = [ind EXCEPT ![count] = nums[n]]
  /\ count' = count + 1
  /\ n' = n + 1
  /\ UNCHANGED <<nums, e, pc>>

Skip ==
  /\ pc = "scan"
  /\ n < BLOCK /\ count < SYS_T
  /\ ~ InRange(nums[n])
  /\ n' = n + 1
  /\ UNCHANGED <<nums, count, ind, e, pc>>

(* With a bug: one number too few is accepted. *)
Enough_OffByOne == count + 1 >= SYS_T

Enough == count >= SYS_T

(* The end of the loop over nums. *)
Scanned == n = BLOCK \/ count >= SYS_T

(* 51-53. *)
TooFew ==
  /\ Goto("scan", "fill")
  /\ Scanned /\ ~ Enough
  /\ nums' = ZeroBlock /\ n' = 0 /\ count' = 0
  /\ UNCHANGED <<ind, e>>

GotEnough ==
  /\ Goto("scan", "check")
  /\ Scanned /\ Enough
  /\ UNCHANGED <<nums, n, count, ind, e>>

(* With a bug: the first two are not compared. *)
Repetition_Late ==
  \E i \in Slots \ {0, 1} : \E j \in 0..(i - 1) : ind[i] = ind[j]

(* With a bug: every number is compared with itself. *)
Repetition_Itself == \E i \in Slots \ {0} : \E j \in 0..i : ind[i] = ind[j]

(* 57-65: eq. *)
Repetition == \E i \in Slots \ {0} : \E j \in 0..(i - 1) : ind[i] = ind[j]

Repeated ==
  /\ Goto("check", "fill")
  /\ Repetition
  /\ nums' = ZeroBlock /\ n' = 0 /\ count' = 0
  /\ UNCHANGED <<ind, e>>

(* 72-84: every byte of e is overwritten with the bits that ind names in it. *)
Distinct ==
  /\ Goto("check", "done")
  /\ ~ Repetition
  /\ e' = {x \in Positions : \E j \in Slots : ind[j] = x}
  /\ UNCHANGED <<nums, n, count, ind>>

Returned == pc = "done" /\ UNCHANGED vars

Next == Fill \/ Keep \/ Skip \/ TooFew \/ GotEnough \/ Repeated \/ Distinct \/ Returned

-------------------------------------------------------------------------------
(* What a round is worth, as a function of its block alone. *)

(* The places of a block that hold positions; those before place x. *)
Hits(block)      == {x \in DOMAIN block : block[x] < SYS_N}
Before(block, x) == {y \in Hits(block) : y < x}

(* The places of the first SYS_T positions. *)
Taken(block) == {x \in Hits(block) : Cardinality(Before(block, x)) < SYS_T}

Usable(block) ==
  /\ Cardinality(Hits(block)) >= SYS_T
  /\ \A x, y \in Taken(block) : block[x] = block[y] => x = y

(***************************************************************************)
(* Fairness: the program runs, and its random number generator delivers    *)
(* some usable block sooner or later.  Without the second part gen_e need  *)
(* not return; it has no limit on the number of rounds.                    *)
(***************************************************************************)
Fairness ==
  /\ WF_vars(Next)
  /\ SF_vars(\E block \in Blocks : Usable(block) /\ FillWith(block))

Spec == Init /\ [][Next]_vars /\ Fairness

-------------------------------------------------------------------------------
(* Properties.                                                             *)

TypeOK ==
  /\ nums \in Blocks
  /\ n \in 0..BLOCK
  /\ count \in 0..SYS_T
  /\ ind \in [Slots -> Positions]
  /\ e \subseteq Positions
  /\ pc \in {"fill", "scan", "check", "done"}

(* The error vector has weight SYS_T, the weight decrypt insists on        *)
(* (src/decrypt.rs:64-65), whatever the rejected rounds have left in ind.  *)
WeightIsT == pc = "done" => Cardinality(e) = SYS_T

(***************************************************************************)
(* The error vector consists of the first SYS_T positions of one block,    *)
(* the last one: none is left over from a rejected round (encrypt.rs:26    *)
(* declares ind outside the loop).                                         *)
(***************************************************************************)
AllFromLastBlock ==
  pc = "done" => Usable(nums) /\ e = {nums[x] : x \in Taken(nums)}

(* A block is rejected only for its own numbers, never for those an        *)
(* earlier round left behind: no error vector is less likely than another. *)
RejectsOnlyUnusable ==
  [][pc # "fill" /\ pc' = "fill" => ~ Usable(nums)]_vars

(* gen_e returns, given that the generator delivers a usable block.        *)
Terminates == <>(pc = "done")
===============================================================================
