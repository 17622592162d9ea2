------------------------------ MODULE GenEProofs ------------------------------
(***************************************************************************)
(* Proofs about gen_e for every SYS_T, SYS_N, block size and block.        *)
(***************************************************************************)
EXTENDS GenE, FiniteSetTheorems, TLAPS

LEMMA Sizes ==
  /\ SYS_T \in Nat /\ SYS_T > 0 /\ SYS_N \in Nat /\ SYS_N > 0
  /\ BLOCK \in Nat /\ BLOCK >= SYS_T
  /\ 0 \in Positions /\ Positions \subseteq 0..(RANGE - 1)
  /\ ZeroBlock \in Blocks
BY GenEAssumption DEF Positions, ZeroBlock, Blocks

(* The image of the slots under ind has SYS_T elements when ind repeats    *)
(* none.                                                                   *)
LEMMA DistinctImage ==
  ASSUME NEW f \in [Slots -> Positions],
         ~ \E i \in Slots \ {0} : \E j \in 0..(i - 1) : f[i] = f[j]
  PROVE  Cardinality({f[j] : j \in Slots}) = SYS_T
<1>. DEFINE T == {f[j] : j \in Slots}
<1>1. IsFiniteSet(Slots) /\ Cardinality(Slots) = SYS_T
  BY FS_Interval, Sizes DEF Slots
<1>2. \A a, b \in Slots : f[a] = f[b] => a = b
  <2>1. SUFFICES ASSUME NEW a \in Slots, NEW b \in Slots, a < b
                 PROVE  f[a] # f[b]
    BY Sizes DEF Slots
  <2>2. b \in Slots \ {0} /\ a \in 0..(b - 1)
    BY <2>1, Sizes DEF Slots
  <2>. QED
    BY <2>2
<1>3. f \in Surjection(Slots, T)
  BY DEF Surjection
<1>4. f \in Injection(Slots, T)
  BY <1>2, <1>3 DEF Injection, IsInjective, Surjection
<1>. QED
  BY <1>1, <1>3, <1>4, FS_Surjection

(* The type invariant: in particular count never passes SYS_T, the length  *)
(* of ind, and every number kept is a position.                            *)
THEOREM GenETypeCorrect == Spec => []TypeOK
<1>1. Init => TypeOK
  BY Sizes DEF Init, TypeOK
<1>2. TypeOK /\ [Next]_vars => TypeOK'
  <2>. SUFFICES ASSUME TypeOK, [Next]_vars
                PROVE  TypeOK'
    OBVIOUS
  <2>. USE Sizes DEF TypeOK, Goto
  <2>1. CASE Fill
    BY <2>1 DEF Fill, FillWith
  <2>2. CASE Keep
    <3>1. n \in 0..(BLOCK - 1) /\ count \in Slots
      BY <2>2 DEF Keep, Slots
    <3>2. nums[n] \in Positions
      BY <2>2, <3>1, GenEAssumption DEF Keep, InRange, Blocks, Positions
    <3>3. ind' \in [Slots -> Positions]
      BY <2>2, <3>1, <3>2 DEF Keep
    <3>4. n' \in 0..BLOCK /\ count' \in 0..SYS_T
      BY <2>2, <3>1 DEF Keep, Slots
    <3>. QED
      BY <2>2, <3>3, <3>4 DEF Keep
  <2>3. CASE Skip
    BY <2>3 DEF Skip
  <2>4. CASE TooFew
    BY <2>4 DEF TooFew
  <2>5. CASE GotEnough
    BY <2>5 DEF GotEnough
  <2>6. CASE Repeated
    BY <2>6 DEF Repeated
  <2>7. CASE Distinct
    BY <2>7 DEF Distinct
  <2>8. CASE Returned \/ UNCHANGED vars
    BY <2>8 DEF Returned, vars
  <2>. QED
    BY <2>1, <2>2, <2>3, <2>4, <2>5, <2>6, <2>7, <2>8 DEF Next
<1>. QED
  BY <1>1, <1>2, PTL DEF Spec

(* gen_e never returns an error vector whose weight is not SYS_T, however  *)
(* many rounds it took and whatever they left in ind.                      *)
THEOREM ErrorVectorHasWeightT == Spec => []WeightIsT
<1>1. Init => WeightIsT
  BY DEF Init, WeightIsT
<1>2. TypeOK /\ WeightIsT /\ [Next]_vars => WeightIsT'
  <2>. SUFFICES ASSUME TypeOK, WeightIsT, [Next]_vars, pc' = "done"
                PROVE  Cardinality(e') = SYS_T
    BY DEF WeightIsT
  <2>1. CASE Distinct
    <3>1. Cardinality({ind[j] : j \in Slots}) = SYS_T
      BY <2>1, DistinctImage DEF Distinct, Repetition, TypeOK
    <3>2. e' = {ind[j] : j \in Slots}
      BY <2>1 DEF Distinct, TypeOK
    <3>. QED
      BY <3>1, <3>2
  <2>2. CASE Returned \/ UNCHANGED vars
    BY <2>2 DEF Returned, vars, WeightIsT
  <2>3. CASE Fill \/ Keep \/ Skip \/ TooFew \/ GotEnough \/ Repeated
    BY <2>3 DEF Fill, FillWith, Keep, Skip, TooFew, GotEnough, Repeated, Goto
  <2>. QED
    BY <2>1, <2>2, <2>3 DEF Next
<1>. QED
  BY <1>1, <1>2, GenETypeCorrect, PTL DEF Spec

-------------------------------------------------------------------------------
(* Nothing left behind: which block the result, or a rejection, is about.  *)

(* The positions before place x, counted: what count is at place x.        *)
Hit(block, x) == Cardinality(Before(block, x))

LEMMA BeforeFinite ==
  ASSUME NEW block \in Blocks, NEW x
  PROVE  /\ Before(block, x) \subseteq Hits(block)
         /\ Hits(block) \subseteq 0..(BLOCK - 1)
         /\ IsFiniteSet(Before(block, x)) /\ Hit(block, x) \in Nat
         /\ IsFiniteSet(Hits(block)) /\ Cardinality(Hits(block)) \in Nat
<1>1. Before(block, x) \subseteq Hits(block) /\ Hits(block) \subseteq 0..(BLOCK - 1)
  BY DEF Before, Hits, Blocks
<1>2. IsFiniteSet(0..(BLOCK - 1))
  BY Sizes, FS_Interval
<1>3. IsFiniteSet(Hits(block)) /\ IsFiniteSet(Before(block, x))
  BY <1>1, <1>2, FS_Subset
<1>. QED
  BY <1>1, <1>3, FS_CardinalityType DEF Hit

LEMMA HitMonotone ==
  ASSUME NEW block \in Blocks, NEW x \in Int, NEW y \in Int, x <= y
  PROVE  Hit(block, x) <= Hit(block, y)
<1>1. \A z \in Hits(block) : z \in Int
  BY BeforeFinite, Sizes
<1>2. Before(block, x) \subseteq Before(block, y)
  BY <1>1 DEF Before
<1>. QED
  BY <1>2, BeforeFinite, FS_Subset DEF Hit

(* The next place: one more if it holds a position. *)
LEMMA HitStep ==
  ASSUME NEW block \in Blocks, NEW x \in 0..(BLOCK - 1)
  PROVE  /\ x \in Hits(block) => /\ Before(block, x + 1) = Before(block, x) \cup {x}
                                /\ Hit(block, x + 1) = Hit(block, x) + 1
         /\ x \notin Hits(block) => Before(block, x + 1) = Before(block, x)
<1>1. \A z \in Hits(block) : z \in Int /\ (z < x + 1 <=> z < x \/ z = x)
  BY BeforeFinite, Sizes
<1>2. x \in Hits(block) => Before(block, x + 1) = Before(block, x) \cup {x}
  BY <1>1 DEF Before
<1>3. x \notin Hits(block) => Before(block, x + 1) = Before(block, x)
  BY <1>1 DEF Before
<1>4. x \notin Before(block, x)
  BY Sizes DEF Before
<1>. QED
  BY <1>2, <1>3, <1>4, BeforeFinite, FS_AddElement DEF Hit

LEMMA HitStrict ==
  ASSUME NEW block \in Blocks, NEW x \in Hits(block), NEW y \in Int, x < y
  PROVE  Hit(block, x) < Hit(block, y)
<1>1. x \in 0..(BLOCK - 1) /\ x + 1 <= y /\ x + 1 \in Int
  BY BeforeFinite, Sizes
<1>2. Hit(block, x + 1) = Hit(block, x) + 1
  BY <1>1, HitStep
<1>. QED
  BY <1>1, <1>2, HitMonotone, BeforeFinite

LEMMA HitInjective ==
  ASSUME NEW block \in Blocks, NEW x \in Hits(block), NEW y \in Hits(block),
         Hit(block, x) = Hit(block, y)
  PROVE  x = y
<1>1. x \in Int /\ y \in Int
  BY BeforeFinite, Sizes
<1>. QED
  BY <1>1, HitStrict, BeforeFinite

(***************************************************************************)
(* At place n of a block, the first count slots hold its positions before  *)
(* n, in order; what other slots hold is left from earlier rounds.         *)
(***************************************************************************)
ScanInv ==
  /\ pc \in {"scan", "check"} =>
       /\ count = Hit(nums, n)
       /\ \A x \in Before(nums, n) : ind[Hit(nums, x)] = nums[x]
       /\ \A s \in Slots : s < count =>
            \E x \in Before(nums, n) : Hit(nums, x) = s /\ ind[s] = nums[x]
  /\ pc = "check" => count = SYS_T

LEMMA ScanStep == TypeOK /\ ScanInv /\ [Next]_vars => ScanInv'
<1>. SUFFICES ASSUME TypeOK, ScanInv, [Next]_vars
              PROVE  ScanInv'
  OBVIOUS
<1>. USE Sizes DEF TypeOK, Goto
<1>1. CASE Fill
  <2>1. nums' \in Blocks /\ n' = 0 /\ count' = 0 /\ pc' = "scan"
    BY <1>1 DEF Fill, FillWith
  <2>2. Before(nums', 0) = {}
    <3>1. \A z \in Hits(nums') : z \in Int /\ ~ (z < 0)
      BY <2>1, BeforeFinite
    <3>. QED
      BY <3>1 DEF Before
  <2>3. Hit(nums', 0) = 0
    BY <2>2, FS_EmptySet DEF Hit
  <2>. QED
    BY <2>1, <2>2, <2>3 DEF ScanInv, Slots
<1>2. CASE Keep
  <2>1. /\ n \in 0..(BLOCK - 1) /\ count \in Slots /\ nums[n] < SYS_N
        /\ pc = "scan" /\ pc' = pc /\ nums' = nums /\ n' = n + 1
        /\ count' = count + 1 /\ ind' = [ind EXCEPT ![count] = nums[n]]
    BY <1>2 DEF Keep, Slots, InRange
  <2>2. n \in Hits(nums)
    BY <2>1 DEF Hits, Blocks
  <2>3. /\ Before(nums, n + 1) = Before(nums, n) \cup {n}
        /\ Hit(nums, n + 1) = count + 1 /\ Hit(nums, n) = count
    BY <2>1, <2>2, HitStep DEF ScanInv
  <2>4. ASSUME NEW x \in Before(nums, n)
        PROVE  Hit(nums, x) < count /\ Hit(nums, x) \in Slots
    <3>1. x \in Hits(nums) /\ x < n
      BY <2>1 DEF Before
    <3>2. Hit(nums, x) < count /\ Hit(nums, x) \in Nat
      BY <2>1, <2>3, <3>1, HitStrict, BeforeFinite
    <3>. QED
      BY <2>1, <3>2 DEF Slots
  <2>5. /\ ind'[count] = nums[n]
        /\ \A s \in Slots : s < count => ind'[s] = ind[s]
    BY <2>1 DEF Slots
  <2>6. \A x \in Before(nums, n + 1) : ind'[Hit(nums, x)] = nums[x]
    BY <2>1, <2>3, <2>4, <2>5 DEF ScanInv
  <2>7. ASSUME NEW s \in Slots, s < count + 1
        PROVE  \E x \in Before(nums, n + 1) : Hit(nums, x) = s /\ ind'[s] = nums[x]
    <3>1. CASE s = count
      BY <2>3, <2>5, <3>1
    <3>2. CASE s < count
      BY <2>1, <2>3, <2>5, <3>2 DEF ScanInv
    <3>. QED
      BY <2>1, <2>7, <3>1, <3>2 DEF Slots
  <2>. QED
    BY <2>1, <2>3, <2>6, <2>7 DEF ScanInv
<1>3. CASE Skip
  <2>1. /\ n \in 0..(BLOCK - 1) /\ ~ (nums[n] < SYS_N) /\ pc = "scan" /\ n' = n + 1
        /\ UNCHANGED <<nums, count, ind, e, pc>>
    BY <1>3 DEF Skip, InRange
  <2>2. Before(nums, n + 1) = Before(nums, n)
    BY <2>1, HitStep DEF Hits
  <2>. QED
    BY <2>1, <2>2 DEF ScanInv, Hit
<1>4. CASE GotEnough
  BY <1>4 DEF GotEnough, Enough, ScanInv
<1>5. CASE TooFew \/ Repeated \/ Distinct
  BY <1>5 DEF TooFew, Repeated, Distinct, ScanInv
<1>6. CASE Returned \/ UNCHANGED vars
  BY <1>6 DEF Returned, vars, ScanInv
<1>. QED
  BY <1>1, <1>2, <1>3, <1>4, <1>5, <1>6 DEF Next

(* When the slots are full they hold the first SYS_T positions. *)
LEMMA FullSlots ==
  ASSUME TypeOK, ScanInv, pc = "check"
  PROVE  /\ Before(nums, n) = Taken(nums)
         /\ Cardinality(Hits(nums)) >= SYS_T
         /\ \A x \in Taken(nums) : Hit(nums, x) \in Slots
<1>. USE Sizes DEF TypeOK
<1>1. Hit(nums, n) = SYS_T
  BY DEF ScanInv
<1>2. ASSUME NEW x \in Before(nums, n)
      PROVE  x \in Taken(nums)
  <2>1. x \in Hits(nums) /\ x < n
    BY DEF Before
  <2>. QED
    BY <1>1, <2>1, HitStrict DEF Taken, Hit
<1>3. ASSUME NEW x \in Taken(nums)
      PROVE  x \in Before(nums, n) /\ Hit(nums, x) \in Slots
  <2>1. x \in Hits(nums) /\ Hit(nums, x) < SYS_T /\ Hit(nums, x) \in Nat
    BY BeforeFinite DEF Taken, Hit
  <2>2. x \in Int
    BY <2>1, BeforeFinite
  <2>3. x < n
    BY <1>1, <2>1, <2>2, HitMonotone
  <2>. QED
    BY <2>1, <2>3 DEF Before, Slots
<1>4. Cardinality(Hits(nums)) >= SYS_T
  BY <1>1, BeforeFinite, FS_Subset DEF Hit
<1>. QED
  BY <1>2, <1>3, <1>4

LEMMA TooFewUnusable ==
  ASSUME TypeOK, ScanInv, TooFew
  PROVE  ~ Usable(nums)
<1>. USE Sizes DEF TypeOK
<1>1. n = BLOCK /\ count < SYS_T /\ count = Hit(nums, n)
  BY DEF TooFew, Scanned, Enough, Goto, ScanInv
<1>2. \A z \in Hits(nums) : z < n
  BY <1>1, BeforeFinite
<1>3. Before(nums, n) = Hits(nums)
  BY <1>2 DEF Before
<1>. QED
  BY <1>1, <1>3, BeforeFinite DEF Hit, Usable

LEMMA RepeatedUnusable ==
  ASSUME TypeOK, ScanInv, Repeated
  PROVE  ~ Usable(nums)
<1>. USE Sizes DEF TypeOK
<1>1. PICK s \in Slots, u \in Slots : s # u /\ ind[s] = ind[u]
  BY DEF Repeated, Repetition, Slots
<1>2. pc = "check" /\ count = SYS_T
  BY DEF Repeated, Goto, ScanInv
<1>3. PICK x \in Before(nums, n) : Hit(nums, x) = s /\ ind[s] = nums[x]
  BY <1>2 DEF ScanInv, Slots
<1>4. PICK y \in Before(nums, n) : Hit(nums, y) = u /\ ind[u] = nums[y]
  BY <1>2 DEF ScanInv, Slots
<1>5. x \in Taken(nums) /\ y \in Taken(nums) /\ nums[x] = nums[y] /\ x # y
  BY <1>1, <1>2, <1>3, <1>4, FullSlots
<1>. QED
  BY <1>5 DEF Usable

LEMMA DistinctUsable ==
  ASSUME TypeOK, ScanInv, Distinct
  PROVE  Usable(nums) /\ e' = {nums[x] : x \in Taken(nums)}
<1>. USE Sizes DEF TypeOK
<1>1. pc = "check" /\ count = SYS_T /\ e' = {p \in Positions : \E j \in Slots : ind[j] = p}
  BY DEF Distinct, Goto, ScanInv
<1>2. \A a, b \in Slots : a < b => ind[a] # ind[b]
  BY DEF Distinct, Repetition, Slots
<1>3. \A a, b \in Slots : ind[a] = ind[b] => a = b
  BY <1>2 DEF Slots
<1>4. \A x \in Taken(nums) : Hit(nums, x) \in Slots /\ ind[Hit(nums, x)] = nums[x]
  BY <1>1, FullSlots DEF ScanInv
<1>5. ASSUME NEW x \in Taken(nums), NEW y \in Taken(nums), nums[x] = nums[y]
      PROVE  x = y
  <2>1. Hit(nums, x) = Hit(nums, y)
    BY <1>3, <1>4, <1>5
  <2>. QED
    BY <2>1, HitInjective DEF Taken
<1>6. \A j \in Slots : \E x \in Taken(nums) : ind[j] = nums[x]
  BY <1>1, FullSlots DEF ScanInv, Slots
<1>7. e' = {nums[x] : x \in Taken(nums)}
  <2>1. \A x \in Taken(nums) : nums[x] \in Positions
    BY <1>4
  <2>. QED
    BY <1>1, <1>4, <1>6, <2>1
<1>. QED
  BY <1>1, <1>5, <1>7, FullSlots DEF Usable

LEMMA ScanCorrect == Spec => []ScanInv
<1>1. Init => ScanInv
  BY DEF Init, ScanInv
<1>. QED
  BY <1>1, ScanStep, GenETypeCorrect, PTL DEF Spec

(***************************************************************************)
(* The error vector consists of the first SYS_T positions of the block     *)
(* drawn last, which has enough of them and no repetition: ind, declared   *)
(* outside the loop (encrypt.rs:26), contributes nothing of earlier rounds.*)
(***************************************************************************)
THEOREM ErrorVectorFromLastBlock == Spec => []AllFromLastBlock
<1>1. Init => AllFromLastBlock
  BY DEF Init, AllFromLastBlock
<1>2. TypeOK /\ ScanInv /\ AllFromLastBlock /\ [Next]_vars => AllFromLastBlock'
  <2>. SUFFICES ASSUME TypeOK, ScanInv, AllFromLastBlock, [Next]_vars, pc' = "done"
                PROVE  (Usable(nums) /\ e = {nums[x] : x \in Taken(nums)})'
    BY DEF AllFromLastBlock
  <2>1. CASE Distinct
    <3>1. nums' = nums
      BY <2>1 DEF Distinct
    <3>2. Usable(nums) /\ e' = {nums[x] : x \in Taken(nums)}
      BY <2>1, DistinctUsable
    <3>. QED
      BY <3>1, <3>2 DEF Usable, Taken, Before, Hits
  <2>2. CASE Returned \/ UNCHANGED vars
    <3>1. nums' = nums /\ e' = e /\ Usable(nums) /\ e = {nums[x] : x \in Taken(nums)}
      BY <2>2 DEF Returned, vars, AllFromLastBlock
    <3>. QED
      BY <3>1 DEF Usable, Taken, Before, Hits
  <2>3. CASE Fill \/ Keep \/ Skip \/ TooFew \/ GotEnough \/ Repeated
    BY <2>3 DEF Fill, FillWith, Keep, Skip, TooFew, GotEnough, Repeated, Goto
  <2>. QED
    BY <2>1, <2>2, <2>3 DEF Next
<1>. QED
  BY <1>1, <1>2, GenETypeCorrect, ScanCorrect, PTL DEF Spec

(***************************************************************************)
(* No block is rejected that would have given an error vector, whatever    *)
(* the rounds before it were: every usable block is accepted, so that no   *)
(* error vector is less likely than another (encrypt.rs:51-67).            *)
(***************************************************************************)
THEOREM OnlyUnusableRejected == Spec => RejectsOnlyUnusable
<1>1. TypeOK /\ ScanInv /\ [Next]_vars =>
        [pc # "fill" /\ pc' = "fill" => ~ Usable(nums)]_vars
  <2>. SUFFICES ASSUME TypeOK, ScanInv, [Next]_vars, pc # "fill", pc' = "fill"
                PROVE  ~ Usable(nums)
    OBVIOUS
  <2>1. CASE TooFew
    BY <2>1, TooFewUnusable
  <2>2. CASE Repeated
    BY <2>2, RepeatedUnusable
  <2>3. CASE Fill \/ Keep \/ Skip \/ GotEnough \/ Distinct \/ Returned \/ UNCHANGED vars
    BY <2>3 DEF Fill, FillWith, Keep, Skip, GotEnough, Distinct, Returned, vars, Goto
  <2>. QED
    BY <2>1, <2>2, <2>3 DEF Next
<1>. QED
  BY <1>1, GenETypeCorrect, ScanCorrect, PTL DEF Spec, RejectsOnlyUnusable
===============================================================================
