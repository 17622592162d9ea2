# A verification development for classic-mceliece-rust

The crate implements the ten variants of the Classic McEliece key encapsulation
mechanism in safe, `no_std` Rust. It is a sequential library: no threads, no
I/O, no shared state. What makes it hard to test is of another kind.

* Key generation is a **retry loop over rejection samplers**: arrays declared
  outside the loop are partly overwritten by attempts that fail.
* The interesting inputs are **rare**: most random matrices take one path
  through the elimination, few make the window of the semi-systematic variants
  singular or move columns far.
* Correctness is a **relation between two halves of a key** that are computed
  by different algorithms and meet again only when a ciphertext is decoded.
* A mistake in any step usually gives a key pair that *looks* right.

This directory holds TLA+ models of these algorithms, step by step and at small
sizes for TLC, and TLAPS proofs for every size.

File names below are those of `src/src/` (`pk_gen.rs` is
`src/src/pk_gen.rs`); line numbers in the modules' comments refer to them.

## 1. Inventory

| component | state | operations | properties that make it correct |
|---|---|---|---|
| `lib.rs`, `api.rs`: public API | `KeyBufferMut`: borrowed or owned array; zeroed on drop | `keypair`, `encapsulate`, `decapsulate` (and `_boxed`), `to_owned`, the `kem` traits | a copy is as good as the original, also after that was dropped; a dropped key leaves no bytes; return codes mean something |
| `operations.rs`: `crypto_kem_keypair` | `seed`, `r`, `irr`, `perm`, `pi`, `pivots`, five segments of `sk` | retry loop | all parts of the key come from one attempt; the stored seed reproduces it |
| `operations.rs`: `crypto_kem_enc/dec` | the hash input | encapsulate, decapsulate, padding checks | both sides get one key; otherwise implicit rejection |
| `pk_gen.rs` | the matrix, `pi`, `pivots`, window, row counters | sort, fill, eliminate, `mov_columns`, extract | the public key generates the code of `g` and the final `pi`; failure exactly on singular input |
| `sk_gen.rs` | a (t+1) x t matrix over GF(2^m) | `genpoly_gen` | the result is a monic irreducible polynomial, or -1 and nothing written |
| `encrypt.rs` | `ind`, `e`, `s` | `gen_e`, `syndrome` | weight exactly t, every vector equally likely; `s = H e` |
| `decrypt.rs`, `synd.rs`, `bm.rs`, `root.rs` | syndrome, register (`l`, `c`, `b`, `base`), `e` | `decrypt` | returns 0 exactly for decodable syndromes, with the unique `e` |
| `controlbits.rs`, `benes.rs`, `transpose.rs` | control bits | `controlbitsfrompermutation`, `apply_benes`, `support_gen` | the network computes `pi`: the support of decryption is that of `pk_gen` |
| `uint64_sort.rs`, `int32_sort.rs` | the array | sorting networks | the output is the sorted input |
| `gf.rs`, `util.rs` | none | field arithmetic, `bitrev`, load and store | field laws at 12 and 13 bits |
| `crypto_hash.rs`, `nist_aes_rng.rs` | none; DRBG state | SHAKE256 (from `sha3`); test generator | external, test only |

Interactions are calls: `keypair` -> `crypto_kem_keypair` -> `shake256`,
`genpoly_gen`, `pk_gen` (-> `uint64_sort`, `root`, `mov_columns`),
`controlbitsfrompermutation` (-> `int32_sort`); `encapsulate` ->
`crypto_kem_enc` -> `encrypt` (-> `gen_e`, `syndrome`); `decapsulate` ->
`crypto_kem_dec` -> `decrypt` (-> `support_gen`, `synd`, `bm`, `root`).
`PROJECT.json` lists the hazards of each part at its line.

## 2. Modules

| module | models | correspondence |
|---|---|---|
| `GF` | `gf_mul`, `gf_is_zero`, `bitrev`, for any width with two reduction bands | a machine word is the set of its 1 bits; `gf_mul` is the carry-less product and the code's two folding bands |
| `GFChains` | the rest of `gf.rs`, at 12 and 13 bits | `gf_sq`, `gf_sq2`, `gf_sqmul`, `gf_sq2mul`, `gf_inv`, `gf_frac` with the code's masks, shifts and addition chains |
| `Goppa` | `root.rs`, `pk_gen.rs:241-276` | support, evaluation, the parity check matrix; a row is the set of its 1 columns; and the linear algebra that properties speak in (sums of rows, row space, systematic form) |
| `PkGen` | `pk_gen.rs` | one action per round of each inner loop; `pc` is the place in the code |
| `KeyGenSpec` | what `crypto_kem_keypair` promises | one action: deliver the key of the first good seed |
| `KeyGen` | `operations.rs:205-333` | one action per call or early `continue`; values are named after the seed they derive from |
| `SkGen` | `sk_gen.rs`, `gf_mul_inplace` | one action per round of each loop of `genpoly_gen`, over the real fields |
| `GenE` | `gen_e` (`encrypt.rs:25-133`) | one action per number looked at, one per reason to draw again |
| `Decrypt` | `decrypt.rs`, `synd.rs`, `bm.rs` | one action per round of Berlekamp-Massey |
| `SortNet` | `int32_sort.rs` | the list of its compare-exchanges, in order |
| `BenesNet` | `apply_benes` (`benes.rs`), `transpose.rs` | both layouts: one 64 x 64 matrix (12 bits) for even widths, two (13 bits) for odd ones; a layer maps the places of 1 bits |
| `ControlBits` | `controlbits.rs` | the calls of `cbrecursion` as a stack over the one array `temp`; the steps between two sorts are actions; then the retry loop |
| `SupportGen` | `support_gen` (`benes.rs:347-377`) | extends `ControlBits`: planes of bits through the network, then the support |
| `BenesRev` | `apply_benes` with `rev` 0, then 1 | two steps |
| `Kem` | `crypto_kem_enc`, `crypto_kem_dec`, the padding checks, `syndrome`, `encrypt` | functions of their arguments; a byte string is the set of its 1 bits, rows are shifted byte by byte; `Reduced` is the key that `pk_gen` makes of a secret matrix |
| `Api` | `lib.rs`, `api.rs` | extends `Kem`: one action per call that makes, copies, uses or drops a handle; ciphertexts travel through a network that loses, repeats, reorders and alters them |
| `MCPkGen`, `MCKeyGen`, `MCSkGen`, `MCGenE`, `MCDecrypt`, `MCSupportGen`, `MCBenesRev`, `MCApi` | inputs for TLC | |
| `LinearLemmas` | facts about sets of numbers, parities, words and `gf_mul`; recursive functions; sums of rows under row operations and column exchanges | extends `Goppa` |
| `PkGenProofs`, `KeyGenProofs`, `SkGenProofs`, `GenEProofs`, `DecryptProofs`, `SupportGenProofs`, `ApiProofs` | the theorems about the module of that name | |

How they compose: `Kem` takes as a public key the element of the row space that
`PkGen` shows `pk_gen` to deliver, as an error vector any that `GenE` shows
`gen_e` to deliver, and as `decrypt` the contract that `Decrypt` checks
(`DecodesExactly`); `Api` calls `Kem` and keeps the buffers. `Decrypt` is given
its support by the permutation; that the network delivers just this support is
`SupportFollowsPi` of `SupportGen`, for all permutations by `SupportGenProofs`. `KeyGen` composes the results of
`genpoly_gen` and `pk_gen`, whose details are in `SkGen` and `PkGen`.

Abstractions.

* Columns and bits are numbers, so the packing of eight columns to a byte is
  not visible, except in `Kem`: there a byte has `BYTE` bits (3 in the run),
  and the shifts by `tail` and the padding that mceliece6960119[f] needs,
  because its `PK_NROWS` is not a multiple of 8, are modelled byte by byte.
* Masked (constant-time) selections are written as conditions.
* `PkGen`, `Kem` and `Decrypt` use small fields with the multiplication of
  `GF`, where `gf_inv` is the power its addition chain computes; the chains
  themselves, with the real masks, are in `GFChains` and used by `SkGen`.
* The column loop of `mov_columns` (134-177) runs row by row in the code and
  column pair by column pair in the model; rows do not interact.
* In `KeyGen` the results of `genpoly_gen` and `pk_gen` are an arbitrary
  function of the seed; *which* variables each failing return has already
  written is taken from the code, and is what `SkGen` and `PkGen` show in detail.
* `ControlBits` has fields of `WIDE` and `NARROW` bits for 16 and 10: scaled to
  6 and 3, permutations of 16 and 32 points take the path the code takes above
  2^10. The words, their packing and the lost high bits are those of the code.
* A matrix of bits is the set of the places of its 1 bits; transposing and the
  layers move places. The side of the matrices is 2^(b/2) instead of 64.
* SHAKE256 is a function without collisions in `Kem` (the key is named after
  what is hashed) and an arbitrary function of the seed in `KeyGen`.
* `PkGen` sorts by definition; `uint64_sort` has no model of its compare-exchanges.

Definitions whose comment begins with "With a bug" are alternatives that nothing
uses: `PROJECT.json` names, for each checked property, one that would break it.

## 3. What the runs show

| run | instance | shows |
|---|---|---|
| `pkgen_sys` | GF(8), t = 2, n = 8; irreducible `g`; affine permutations with one pair exchanged; one `perm` with equal values | `pk_gen` fails exactly when it must, and the public key generates the code of `g` and `pi` |
| `pkgen_semi` | the same inputs, with a window of 2 x 4 (32 x 64 in the code) | the matrix and `pi` move together; pivots increase; no failure after the window |
| `pkgen_semi16` | GF(16), t = 2, n = 14, window 3 x 6 | the same relation with columns on both sides of the window; the pivots mask names what moved |
| `keygen_sys`, `keygen_semi` | three seeds, every function from seeds to outcomes and next seeds | the loop refines `KeyGenSpec`; the stored seed reproduces the key; it returns if a good seed is reachable |
| `decrypt8` | every irreducible `g` with g(0) = 1 over GF(8), t = 2, n = 8, two supports, all 256 received words | `decrypt` is exact: 0 if and only if an error vector of weight t exists, and it is the only one |
| `decrypt16` | GF(16), t = 3, n = 16, 2048 received words | the same with three errors |
| `gen_e` | t = 2, n = 3, numbers below 4, blocks of 4: all 256 blocks in each round | weight t, all from one block, rejection only for cause, termination |
| `sk_gen` | GF(2^12) with t = 3, 4 and GF(2^13) with t = 2, 4; coefficients that reach every mask | `f` is a root of the returned polynomial, computed by other means; failure exactly for elements of a proper subfield, and then nothing is written |
| `support_gen` | all permutations of 4 points, 169 of 8, 16 and 32 | the recursion's shared array never loses a permutation it still needs; the two or three fields of its words stay apart; the cycle minima are found with that number of rounds; the bits verify at the first attempt; the support of decryption is that of `pk_gen`, in both layouts |
| `benes_rev` | networks on 8 and 16 bits, up to two exchanges | expected violation: `rev` is not the inverse the comment promises (below) |
| `api` | GF(16), t = 2, n = 15, bytes of 3 bits; two keys; a public key with a padding bit, and one of zeros; an array and a box for each kind of key, two for secrets; one ciphertext at a time, as sent or with a bit changed | both sides agree on an unaltered ciphertext, also through copies of keys and secrets whose originals are gone; otherwise secrets are equal only in the cases that `NoFalseAgreement` names; nothing is left in a buffer after the drop |

The bounds are small in the numbers and complete in the control: the runs of a
module together reach every action of it, every failing return, and both
outcomes of every comparison. Two window rows are enough for a pivot to be displaced by an
earlier exchange; three (`pkgen_semi16`) for a chain of displacements. Three
seeds allow two failed attempts, of different kinds, before a good one, and
cycles without any. In `decrypt8` every syndrome occurs, decodable or not. The
padding bits of the last ciphertext byte (two bits at t*m = 6) are part of the
received word there, as they are in the code. In `sk_gen` t is small (the
polynomial of mceliece348864 has degree 64) but the arithmetic is the real one;
t = 4 has subfields of two degrees, t = 3 and 2 of one. In `support_gen` widths
2 to 5 cover both layouts twice, the narrow and the wide rounds, and three
levels of recursion with all widths below. `api` allows four live handles
(`MAX_LIVE`): a key, its copy and two secrets, or both keys and two secrets,
which is what every property needs. One distinct ciphertext at a time
(`MAX_SENT`) is enough because with `FlipBits` every decapsulation has a
second one; a step that no one takes is how it is lost, a repeated step is how
it is repeated. Two encapsulations are therefore compared there for one
ciphertext only (and with the error vectors that share it); for different ones
the theorem `NoAccidentalAgreement` stands alone. The two secret buffers are
symmetric.

What a shared secret is expected to be is kept in the history variable `made`:
`to_owned` hands on what the original stood for, not what its buffer held, and
the two agreement properties relate the keys of that history to the bytes in
the buffers. So a copy that is not filled, or a drop that clears another
handle's buffer, is seen as two sides that disagree. What `NoFalseAgreement`
leaves out is what the code makes equal on purpose: the cleared outputs of failed
padding checks (all 1s for decapsulations, all 0s for encapsulations) are
equal for everybody, and two secret keys that find the same error vector in
one ciphertext get the same secret.

### Where the comment and the code part

`benes.rs:136-137` promises that `rev` toggles between the application of the
network and its inverse. In the branch for mceliece348864[f] `layer` stands
inside the loop that loads `cond` (line 225) and runs once per word. The run
`benes_rev` finds bits for which the two applications do not restore the
input; the shortest has one exchange. The crate itself calls `apply_benes` with
`rev` = 0 only, so no key or ciphertext is affected. With `Widths = {3, 5}`,
the layout of the other parameter sets, TLC finds no violation.

### Fairness

`KeyGen` assumes weak fairness of the next-state relation: a
sequential function whose next step is possible takes it. `GenE` assumes in
addition strong fairness of drawing a usable block. That is an assumption about
the caller's generator, not about the code: `gen_e` has no limit on its rounds.
`ReturnsIfGoodSeedExists` is conditional in the same way. No other module
states liveness: `PkGen`, `SkGen`, `ControlBits` and `Decrypt` are bounded
loops, and `Api` waits for its caller.

## 4. What is proved

For every value of the constants that the named assumptions allow. TLC evaluates
each assumption in a run. They are of these kinds:

* sizes and types, as the parameter sets and the types of the code have them:
  `GFAssumption`, `GoppaAssumption`, `PkGenAssumption`, `KeyGenAssumption`,
  `GenEAssumption`, `DecryptAssumption`, `KemAssumption`, `ApiAssumption`, `SkGenAssumption`,
  `ControlBitsAssumption` (a word of two fields is an `i32`; an element of a call's
  `pi` fits in a field below its sign, as those of at most 2^13 points do);
* `InverseAssumption` (`SkGen`): the addition chains of `gf_inv` and `gf_frac`, with
  all their masks, end in the inverse. It has no parameter: TLC evaluates it for every
  element of GF(2^12) and GF(2^13) at the start of the run `sk_gen`;
* `FieldAssumption` (`Decrypt`): `gf_inv` inverts, and returns 0 for 0. This is
  what the choice of an *irreducible* polynomial gives. That `gf_mul` is
  associative and distributes is not assumed, but proved (`LinearLemmas`);
* `KeyAssumption` (`Decrypt`): what `crypto_kem_keypair` makes. No element is
  twice in the support, because `pi` is a permutation
  (`PkGenProofs!PiStaysPermutation`); `g` is irreducible, because `genpoly_gen`
  accepts only an element of full degree and returns its minimal polynomial
  (`SkGenProofs!MinimalPolynomialFound`; `SkGen!FailsExactlyInSubfield`). An irreducible polynomial of
  degree above 1 has no root, and over a finite field no multiple factor. The
  assumption states those two consequences, the second as the
  nonsingularity of the Sylvester matrix of the even and the odd coefficients
  of `g` (`IsSeparable`), that is of `g` and its derivative;
* `KeysAssumption` (`Kem`): what is known of the keys in use. They come from
  `pk_gen`, so their matrix has a systematic form; different error vectors of
  weight t have different syndromes (proved in `DecryptProofs`,
  `SyndromeDeterminesError`, from the two assumptions above); the strings `s` differ.

### Public key generation

* `PkGenProofs!TypeCorrect`: `[]TypeOK`. No loop of `pk_gen` or `mov_columns`
  leaves the matrix, the window or `pi`. The inductive invariant adds to
  `TypeOK` what the program counter says about the counters (`Control`): for
  instance that `row` is the first window row inside `mov_columns`.
* `PkGenProofs!ReducedColumnsStayUnit`: `[]UnitColumns`. Inside a round the
  invariant also has to say how far the current column is cleared, and that
  `mov_columns` exchanges columns right of the reduced ones only.
* `PkGenProofs!PiStaysPermutation`: `[]PiIsPermutation`. The sorted order of
  keys that differ pairwise is a bijection; an exchange keeps it one. An injective map
  of a finite set into itself is onto (`LinearLemmas!InjectionIsOnto`), which is
  how the final position of every key is found to exist.
* `PkGenProofs!MovColumnsPivots`: `[]PivotsGoUp`. After round `i` no later
  window row holds a bit at or left of the pivots found; while row `i` is being
  completed, and while it is added to the rows below, the invariant bounds the bits of all
  rows from `i` on by the current pivot.
* `PkGenProofs!PivotsDescribePi`: `[]PivotsRecordTheMove`. While the exchanges
  run, the invariant divides the window: positions before `j` have their
  element, pivots from `j` on are still where sorting left them. That an
  exchange touches neither kind follows from the pivots going up
  (`MovColumnsPivots`); before and after the exchanges `MoveInv` says in which
  phases `pi` is the sorted permutation and in which it is what the mask says.
* `PkGenProofs!EliminationFollowsPi`: `[]RowSpaceFollowsPi`. The matrix keeps
  the row space of the parity check matrix of the support that `pi` lists. Row
  operations keep the set of sums of rows (`LinearLemmas!AddRowSums`). Between
  the exchanges of `pi` and those of the columns the two disagree; there
  `SumsInv` says after which of the exchanges the columns are what the matrix
  is made from.
* `PkGenProofs!PublicKeyIsOfTheSecretCode`: `[]PublicKeyMatchesSupport`. The
  public key with the unit matrix put back generates the code of the secret `g`
  and of the `pi` that is returned with it.
* `PkGenProofs!FailsOnlyWhenItMust`: `[]FailsExactlyWhenSingular`. The
  difficult half is that `pk_gen` never gives up on a usable matrix. When row
  `row` is left without a pivot, no row from `row` on has one (`AddInv`), and the
  rows above cannot help because their columns are reduced (`UnitColumns`): no
  sum of rows leads with column `row`. In the semi-systematic variants `WindowInv` carries this over to the copied window: every
  sum of its rows is the window's part of a sum of rows that is zero left of it.
* `PkGenProofs!WindowSuffices`: `NoFailureAfterWindow`. Each window row has
  its own pivot and none of the earlier ones (`EchelonInv`); after the exchanges some
  sum of rows leads with each of the last columns (`LeadingInv`), so that the
  elimination cannot run out of pivots.

### Key pair generation

* `KeyGenProofs!KeyFromOneAttempt`, `SeedDeterminesKey`: `[]OneAttempt` and
  `[]StoredSeedReproducesKey`. `OneAttempt` speaks of the end of an attempt;
  the invariant `AttemptInv` adds which variables have been overwritten at
  each point of it; `KeyGenTypeCorrect` (`[]TypeOK`) needs it too, because the
  permutation is sorted from bytes this attempt has written.
* `KeyGenProofs!LoopImplementsSpec`: `DeliversFirstGoodKey`, the refinement. Every
  step but the successful last one is a stutter of `KeyGenSpec`; the last one
  delivers the key of the first good seed. The chain of seeds is
  followed without counting: `ChainInv` says that the seed being expanded is in
  every set that has the generator's first seed and, with a seed that fails, the next one. `FirstGoodIsUnique` shows that
  `KeyGenSpec` leaves no choice, so the refinement fixes the key.

### Secret polynomial

* `SkGenProofs!SkGenTypeCorrect`: `[]TypeOK`. The recursive functions that
  compute a product and the powers of `f` exist and stay among the elements
  (`StepsExist`, `MulInplaceTyped`, `PowersAre`).
* `SkGenProofs!MinimalPolynomialFound`: `[]MinimalPolynomial`. The elimination
  works on columns, so that the rows stop being the powers of `f`. What it keeps
  is the set of *relations* between the rows, the coefficients whose combination
  is zero: adding a multiple of one column to another keeps it (`AddColumn`, for
  `FixPivot`, which leaves out rows whose entry is 0, and `Clear`), and so does
  multiplying a column by an element with an inverse (`ScaleColumn`, for `Scale`;
  this is where `InverseAssumption` is used). `ColumnsInv` says so, and that
  the finished rows are unit vectors. At the end the first t rows are all unit
  vectors, hence independent, and the last one shows how it depends on them: its
  entries are the coefficients. On failure row `j` is zero from place `j` on
  (`PivotInv`, `FailedInv`), hence a combination of the unit vectors above it.
* `SkGenProofs!ResultHasRoot`: `[]RootOfResult`. `MinimalPolynomialFound` speaks of the
  powers of `f` that `gf_mul_inplace` computes; here they are compared with
  polynomials in y and z and their division with remainder. The argument goes
  column by column, a column being what one power of y is multiplied by. Before
  the reduction each place of the product is congruent to its column
  (`ConvolutionAgrees`), folding the highest place is a division by the polynomial
  in y (`FoldAgrees`), and the division by the polynomial in z changes no
  residue (`DivideZColumns`). At the end the columns are short enough to be
  residues themselves, and residues are unique (`ResidueIsUnique`), so the two are
  equal (`ResidueOfProduct`). The powers and the sum follow (`ReferencePowers`,
  `SumOfResult`). The run adds the link between failure and the subfields.

### Error vectors

* `GenEProofs!GenETypeCorrect`, `ErrorVectorHasWeightT`: `count` stays within
  `ind`, and the result has weight `SYS_T`, from "no repetition among the
  slots" by cardinality of the image of an injection.
* `GenEProofs!ErrorVectorFromLastBlock`, `OnlyUnusableRejected`:
  `[]AllFromLastBlock` and `RejectsOnlyUnusable`. The invariant `ScanInv` says
  that at place `n` of a block the first `count` slots are the positions before
  `n`, in order; counting the positions before a place is strictly monotone,
  so a repetition among the slots is one in the block and conversely.

### Field arithmetic

* `LinearLemmas!MulIsRingMultiplication`: for every `GFBITS` and `TAPS` for which
  two bands are enough (no two taps add up to more than `GFBITS + 1`; the taps
  of `gf.rs` at 12 and 13 bits are such), `gf_mul` is the multiplication of GF(2)[x] modulo the
  field polynomial. Folding with a mask subtracts a multiple of that polynomial
  (`FoldIs`), after two bands nothing is left above (`MulIsResidue`), and a
  multiple of it with fewer than `GFBITS` terms is 0 (`ResidueIsUnique`). From
  there `gf_mul` is commutative and associative and distributes over XOR,
  because the product of polynomials does.

### Decryption

* `DecryptProofs!LengthNeverUnderflows`: `l <= n` in every round, with the
  16-bit wrap-around of the code: `n + 1 - l` of `bm.rs:55` never underflows,
  for any syndrome and any `SYS_T < 2^14`.
* `DecryptProofs!DecryptTypeCorrect`: `[]TypeOK`, with all values of recursive
  functions in the field (`LinearLemmas!IteratesExist`).
* `DecryptProofs!RegisterExplainsPrefix`: `[]RegisterGeneratesPrefix`, Massey's
  invariant of `bm.rs`. It is not inductive by itself: `OtherRegister` says what
  the second register `b` explains, where it first misses, and by how much
  (`base`). The code keeps `SYS_T + 1` coefficients and shifts the last one
  out; the invariant also says why the lost one is never missed while `l <= SYS_T`.
* `DecryptProofs!DecryptIsSound`: `[]AcceptsOnlyPreimages`, half of
  `DecodesExactly`. `decrypt` compares syndromes over 2t columns a^n / g(a)^2,
  `encrypt` works with t columns a^n / g(a). The second are combinations of
  the first with the coefficients of `g` (`Columns`, by Horner's rule as
  `eval` computes it), for points where `g` is 0 too; hence equal syndromes of the
  first kind are equal syndromes of the second (`SameSyndrome`), and an
  accepted `e` has the syndrome of the ciphertext under the public key's code.
* `DecryptProofs!DecryptIsExact`: `[]DecodesExactly`. The other half, that
  `decrypt` *finds* a preimage of weight t, goes in three steps.
  * The codes of `g` and of `g`^2 are one (`SameSynd`). The even places of the
    syndrome of `synd` are the squares of the sums that the rows of `pk_gen`'s
    matrix compute (`EvenSum`); what those sums say of the odd places is a
    system with Sylvester's matrix, nonsingular by `IsSeparable`. So the ciphertext
    and its preimage have the same doubled syndrome.
  * The register stays short. One that has explained t places of the syndrome
    of t positions explains the powers at every single one of them
    (`Annihilates`, by a Vandermonde argument), hence all later places, so
    `l` is not increased beyond t (`LengthFits`) and the coefficient that `Shift`
    drops is never needed.
  * At the end the locator, which is the register read backwards, vanishes at
    the t error positions (`LocatorSum`); having degree t it vanishes at no
    others (`FewRoots`), so the roots are the preimage (`Decodes`).

  The inductive invariant (`FoundInv`) carries `l <= SYS_T` for ciphertexts with
  a preimage, and c[0] = 1.
* `DecryptProofs!SyndromeDeterminesError`: the minimum distance of the code is
  above 2t, from the same two lemmas (`SameSynd`, `Vandermonde`).

### The Benes network and the support

* `SupportGenProofs!SupportIsPermuted`: `[]SupportFollowsPi`, for every
  permutation of 4 to 2^15 points, with one matrix and with two. The code has the
  network twice: `layer` of `controlbits.rs`, applied to a list of numbers, with
  which `controlbitsfrompermutation` verifies its result (`pi_test`), and
  `apply_benes`, with which decryption permutes planes of bits. The first is
  plain: layer m pairs x and x + 2^k. The second holds the bits in matrices which
  it transposes twice on the way, so that a layer pairs bits of a word, words,
  or matrices, and reads its control bits from words that are transposed as well,
  or from two halves that alternate or follow each other.

  The heart of the proof is that both are one network, for *any* control bits
  (`NetworkFollowsTrace`). `TransposeTurns` shows that the masked
  exchanges of `transpose.rs` end in the transposed matrix: after the rounds down
  to 2^d a row number has its bits from d on from the column, and the rest of its own
  (`Spliced`). `Cell` says where place x of the list is in the matrices;
  `PairOfBits`, `PairOfHalves` and `PairOfWords` give the pair and the partner of
  a place for a stride of each kind, in terms of words and bits, and `TurnedHas` and
  `LoadedHas` where in the loaded words its control bit is. Together
  (`OuterPoint`, `InnerPoint`) they say that a layer of the code moves every place as
  the layer of `pi_test` does. A layer is its own inverse (`MovedBack`), so that
  the places of the 1 bits before layer m are those whose image so far is in the plane
  (`Before`); the rest is counting through the layers.

  The inductive invariant (`SgInv`) then says which planes are permuted, and that
  the bits were verified: `support_gen` is not reached otherwise. That the verification
  always succeeds (`NoRetry`) is a matter of the recursion, and model-checked.
* `SupportGenProofs!FieldsStayApart`, `CbTypeCorrect`: `[]FieldsApart` and
  `[]CbTypeOK`, for the same permutations.
  `cbrecursion` keeps two, and for w <= 10 three, numbers in a word that is then
  sorted as a signed 32-bit integer, so a field that grows into the next one, or into
  the sign, would put the words in a wrong order. It also uses one array for all calls: a
  call of width w works in the first 2 * 2^w words, and the permutations
  of the calls that wait for it lie behind them.

  `FieldsApart` says, for every place in the code between two sorts, of
  what form the words of A and of B are (`InA`, `InB`: two fields below 2^w, or three of
  which the middle one is, in a form that is only taken for 2^w <= 2^10), and for every
  call on the stack that its permutation lies behind the words of those inside it
  (`CallFits`, `CallsInv`). `CbTypeOK` adds that no word is negative and that every bit
  set lies in `out`. The two together, with the round counter, are inductive
  (`CbInv`). Its lemmas are of
  three kinds: what the expressions make of fields (`WordTyped`, `SumTyped`,
  `ThreeFields`, `SmallerTyped`, ...); that the list of compare-exchanges of
  `int32_sort`, for any power of two, is within the slice (`NetworkTyped`), so that a sort neither
  touches the words outside nor brings new ones in (`SortKeeps`); and one per step, which
  puts these together (`PibarKeeps` to `SplitKeeps`). That the sort also *orders* the words is not
  needed here.

### Encapsulation, decapsulation and the API

* `ApiProofs!DecapsulationInverts`: `crypto_kem_dec` computes the key of
  `crypto_kem_enc`, for every key and error vector, with and without padding:
  the byte-wise shifts of `syndrome` put every bit of a row where the secret
  matrix has it, the public key's syndrome decodes to the error vector, and
  both padding checks pass.
* `ApiProofs!SameCiphertextSameKey`, `NoAccidentalAgreement`:
  `[]AgreeOnSameCiphertext` and `[]NoFalseAgreement` for the secrets in the
  buffers of any history of calls. Two invariants carry them: every live handle
  is on a buffer that holds what it stands for (`IInv`), and every live secret
  stands for what `crypto_kem_enc` or `crypto_kem_dec` returns for the keys and
  the ciphertext of the call it goes back to (`History`). The second theorem
  says no more than its property: equal outputs of failed padding checks are
  excluded, and two secret keys may find the same error vector.
* `ApiProofs!DroppedBuffersAreCleared`: `[]NothingLeftBehind`, for any number
  of buffers, keys, ciphertexts and calls, from `IInv`. `ApiAssumption` is
  needed for the kinds of buffers to be disjoint, as the types of the code
  make them.

### How recursion and induction are handled

The provers do not instantiate the induction theorems of the library. Four
lemmas stand in for them: `MinOfNaturals` (a least counterexample), `Upward` and
`Downward` (counting), and `SubsetInduction` (a finite set, one element more at
a time), for properties that are given as sets. Recursive functions are handled by `IteratesExist` and
its relatives: a function with the defining equation exists, so that the one
that CHOOSE picks satisfies it (`StagesExist`, when the steps differ). Powers of 2 with a variable exponent
are known to the provers for numerals only: `PowerStep` takes the exponents below 16
one by one (`WidePowerStep` those of a word of 32 bits), which is why the network lemmas are about at most 2^15 points.

### Only model-checked

* Liveness (`Terminates` of `GenE`, `ReturnsIfGoodSeedExists`).
* `FailsExactlyInSubfield` (`SkGen`): it speaks of the subfields of the extension, and
  holds only if the modulus is irreducible, which the theorems do not need.
  `MinimalPolynomialFound` proves when `genpoly_gen` fails in terms of the powers of `f`;
  that these are dependent exactly in a proper subfield is what the run adds.
* `ControlBits`: `NetworkSoFar`, `CycleMinima` and `NoRetry`. They rest on
  `int32_sort` sorting, that is on a theorem about every comparison network of that form,
  and on an induction over the width of the calls.

## 5. Plan

What is left, in this order:

1. Proofs: that `int32_sort` sorts, and with it the loops of `ControlBits`
   before the recursion; that `gf_inv` inverts when the field polynomial has no
   factors, and that an irreducible `g` is separable, which would replace
   `FieldAssumption` and part of `KeyAssumption`; then `Kem` can take
   `SyndromeDeterminesError` in place of the second part of `KeysAssumption`.
2. `uint64_sort` by its compare-exchanges, beside `int32_sort` in `SortNet`;
   `PkGen` uses the order by definition.
3. The channels of `examples/client-server.rs`, over `Api`.

### Not modelled

* SHAKE256 itself (the `sha3` crate) and `nist_aes_rng.rs` (an AES-CTR
  generator for the known answer tests): external, or test only. Every model
  quantifies over what they may deliver.
* Tests, benches, examples and the build script, which were read for what they
  say about the library.
* `as_array`, `as_ref`, `Debug` and the `kem` traits in `lib.rs`: they read, or
  make the same calls as the functions that `Api` models.
* Temporaries: that secrets on the stack, in `sk_gen` or `pk_gen`, are not cleared
  is not visible in a model of the buffers.
* Constant-time behaviour (not a property of states) and the hardness
  assumptions.

## 6. Use

In this directory: `tlc -workers 2 -config MCPkGenSemi.cfg MCPkGen` for a run
(PROJECT.json lists them), `tlapm PkGenProofs.tla` for a proof module (each takes a few minutes).
