---------------------------------- MODULE Kem ---------------------------------
(***************************************************************************)
(* crypto_kem_enc and crypto_kem_dec (src/operations.rs) with syndrome and *)
(* encrypt (src/encrypt.rs), as functions of their arguments.              *)
(*                                                                         *)
(* A byte has BYTE bits, so that a small instance has PK_NROWS % BYTE # 0: *)
(* rows of the public key that do not end on a byte, and a ciphertext with *)
(* padding bits, as mceliece6960119[f] has.  Where nothing is left over    *)
(* the code of the other features is the one that is compiled.             *)
(*                                                                         *)
(* A string of bytes is the set of the positions of its 1 bits.            *)
(***************************************************************************)
EXTENDS Goppa

CONSTANTS
  BYTE,       \* 8
  Keys        \* key pairs: the polynomial g, the permutation pi, the string s

SYND_BYTES   == (PK_NROWS + BYTE - 1) \div BYTE
PK_ROW_BYTES == (PK_NCOLS + BYTE - 1) \div BYTE
E_BYTES      == SYS_N \div BYTE

(* The features mceliece6960119 and mceliece6960119f. *)
HasPadding == PK_NROWS % BYTE # 0

ASSUME KemAssumption ==
  /\ BYTE \in Nat \ {0, 1}
  /\ BYTE <= PK_NROWS
  /\ SYS_N % BYTE = 0
  /\ PK_NCOLS % BYTE # 0 <=> HasPadding
  /\ SYND_BYTES * BYTE <= SYS_N
  /\ Keys \subseteq [g : Poly, pi : [Idx -> Idx], s : SUBSET Cols]

CBits   == 0..(SYND_BYTES * BYTE - 1)
RowBits == 0..(PK_ROW_BYTES * BYTE - 1)

ErrorVectors == {e \in SUBSET Cols : Cardinality(e) = SYS_T}

(* The secret parity check matrix. *)
Matrices == [k \in Keys |-> FillMatrix(k.g, k.pi)]

(***************************************************************************)
(* What pk_gen makes of a key (PkGen: UnitColumns, RowSpaceFollowsPi):     *)
(* row n is the element of the row space with unit part n; the unit part   *)
(* is left out and the rest starts a byte of its own.                      *)
(***************************************************************************)
Reduced ==
  [k \in Keys |->
     LET space == RowSpace(Matrices[k])
     IN  [n \in Rows |-> CHOOSE v \in space : v \cap Rows = {n}]]

PublicKeyOf ==
  [k \in Keys |-> [n \in Rows |-> {x - PK_NROWS : x \in Reduced[k][n] \ Rows}]]

ZeroKey == [n \in Rows |-> {}]

-------------------------------------------------------------------------------
(* syndrome.  A row is a function from the index of a byte to its bits.    *)

(* encrypt.rs:154-156: the segment of pk fills the last bytes of the row. *)
Placed(segment) ==
  LET from == E_BYTES - PK_ROW_BYTES
  IN  [n \in 0..(E_BYTES - 1) |->
         {b \in 0..(BYTE - 1) : (n - from) * BYTE + b \in segment}]

(* 159: the byte before it lends its upper bits. *)
ShiftByte(row, n, tail) ==
  [row EXCEPT ![n] =
     {b \in 0..(BYTE - 1) : b - tail \in @ \/ b - tail + BYTE \in row[n - 1]}]

(* With a bug: the bytes are shifted from the first up. *)
Order_Up == [m \in 1..PK_ROW_BYTES |-> E_BYTES - PK_ROW_BYTES + m - 1]

(* 158: from the last byte down, each shifted before its upper neighbour. *)
Order == [m \in 1..PK_ROW_BYTES |-> E_BYTES - m]

(* 151-162: row n of the matrix (I | T), as a set of columns. *)
FullRow(segment, n) ==
  LET shifted[m \in 0..PK_ROW_BYTES] ==
        IF m = 0 THEN Placed(segment)
        ELSE ShiftByte(shifted[m - 1], Order[m], PK_NROWS % BYTE)
      row == IF HasPadding THEN shifted[PK_ROW_BYTES] ELSE Placed(segment)
  IN  {n} \cup UNION {{m * BYTE + b : b \in row[m]} : m \in 0..(E_BYTES - 1)}

(* 164-176: the parities of the products with the rows. *)
syndrome(pk, e) == {n \in Rows : Odd(FullRow(pk[n], n) \cap e)}

-------------------------------------------------------------------------------
(* The padding checks.                                                     *)

(* b.wrapping_sub(1): the lowest 1 and the 0s below it; 0 becomes all 1s.  *)
Decremented(b) ==
  IF b = {} THEN 0..(BYTE - 1) ELSE (b \ {Min(b)}) \cup (0..(Min(b) - 1))

ShiftedRight(b, n) == {x - n : x \in {y \in b : n <= y}}

(* operations.rs:28-30, 37-39: 0 for 0, and all 1s for other b < 2^(BYTE-1) *)
Bad(b) == Decremented(ShiftedRight(Decremented(b), BYTE - 1))

LastByte(bits, bytes) ==
  {b \in 0..(BYTE - 1) : (bytes - 1) * BYTE + b \in bits}

(* 21-31: of all rows at once. *)
check_pk_padding(pk) ==
  LET b == UNION {LastByte(pk[n], PK_ROW_BYTES) : n \in Rows}
  IN  Bad(ShiftedRight(b, PK_NCOLS % BYTE))

check_c_padding(c) == Bad(ShiftedRight(LastByte(c, SYND_BYTES), PK_NROWS % BYTE))

-------------------------------------------------------------------------------
(***************************************************************************)
(* SHAKE256, seen as a function without collisions: the key is named after *)
(* what is hashed.  Two keys are no hash: the cleared outputs.             *)
(***************************************************************************)
shake256(b, e, c) == [kind |-> "hash", b |-> b, e |-> e, c |-> c]

Zeros == [kind |-> "zeros"]
Ones  == [kind |-> "ones"]

(***************************************************************************)
(* 48-65, 73-106: the ciphertext and the key for the error vector e that   *)
(* gen_e draws (GenE).                                                     *)
(***************************************************************************)
crypto_kem_enc(pk, e) ==
  LET c == syndrome(pk, e)
  IN  IF HasPadding /\ check_pk_padding(pk) # {}
      THEN [c |-> {}, key |-> Zeros]
      ELSE [c |-> c, key |-> shake256(1, e, c)]

(* The syndromes, by the secret parity check matrix, of the words that     *)
(* decrypt can be asked about.                                             *)
SecretSyndrome(k, word) == {n \in Rows : Odd(Matrices[k][n] \cap word)}

ErrorSyndromes == [k \in Keys |-> [e \in ErrorVectors |-> SecretSyndrome(k, e)]]

(***************************************************************************)
(* What is known of keys that crypto_kem_keypair has returned.  pk_gen     *)
(* fails when there is no systematic form (PkGen: FailsExactlyWhenSingular)*)
(* and g has no multiple root, so that the code corrects SYS_T errors      *)
(* (Decrypt: DecodesExactly); the strings s, cut from the output of        *)
(* SHAKE256, do not collide.                                               *)
(***************************************************************************)
ASSUME KeysAssumption ==
  \A k \in Keys :
    /\ Systematic(Matrices[k], PK_NROWS)
    /\ \A d, e \in ErrorVectors : ErrorSyndromes[k][d] = ErrorSyndromes[k][e] => d = e
    /\ \A l \in Keys : k.s = l.s => k = l

(***************************************************************************)
(* decrypt as Decrypt shows it (DecodesExactly): the error vector with the *)
(* same syndrome as the bytes of c, if there is one; all bits of c count.  *)
(***************************************************************************)
Decoded(k, c) ==
  LET target == SecretSyndrome(k, c)
  IN  {e \in ErrorVectors : ErrorSyndromes[k][e] = target}

(* With a bug: e is hashed, and not s, when decrypt fails. *)
Preimage_AlwaysE(k, found, c) ==
  shake256(1, IF found = {} THEN {} ELSE CHOOSE e \in found : TRUE, c)

(* 128-140, 169-181: ret_decrypt selects the first byte, and e or s. *)
Preimage(k, found, c) ==
  IF found = {} THEN shake256(0, k.s, c)
  ELSE shake256(1, CHOOSE e \in found : TRUE, c)

(* 113-145, 152-194: the padding check overrides the hash. *)
crypto_kem_dec(k, c) ==
  IF HasPadding /\ check_c_padding(c) # {} THEN Ones
  ELSE Preimage(k, Decoded(k, c), c)
===============================================================================
