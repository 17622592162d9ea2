---------------------------------- MODULE Api ---------------------------------
(***************************************************************************)
(* The public API (src/lib.rs): handles of type PublicKey, SecretKey and   *)
(* SharedSecret on buffers, the calls that make, copy and drop them, and   *)
(* ciphertexts that a network loses, repeats, reorders and alters.         *)
(*                                                                         *)
(* A buffer is an array of the caller's, which a handle borrows, or a box  *)
(* that the handle owns.  A handle is named after its buffer: the borrow   *)
(* checker keeps the caller, and other handles, from a borrowed array.     *)
(***************************************************************************)
EXTENDS Kem

CONSTANTS
  PkArrays, PkBoxes,      \* [u8; CRYPTO_PUBLICKEYBYTES]
  SkArrays, SkBoxes,      \* [u8; CRYPTO_SECRETKEYBYTES]
  SsBuffers,              \* [u8; CRYPTO_BYTES]
  PublicKeys,             \* the bytes that From<&mut [u8]> is given: see PkOK
  Drawn,                  \* the error vectors that gen_e draws
  ZEROIZE,                \* the feature zeroize
  FlipBits,               \* the bits of a ciphertext that may arrive changed
  MAX_SENT,               \* bound: the ciphertexts sent
  MAX_LIVE                \* bound: the handles at a time

PkBuffers == PkArrays \cup PkBoxes
SkBuffers == SkArrays \cup SkBoxes
Buffers   == PkBuffers \cup SkBuffers \cup SsBuffers

ASSUME ApiAssumption ==
  /\ PkBuffers \cap SkBuffers = {}
  /\ SsBuffers \cap (PkBuffers \cup SkBuffers) = {}
  /\ PublicKeys \subseteq [Rows -> SUBSET RowBits]
  /\ Drawn \subseteq ErrorVectors
  /\ ZEROIZE \in BOOLEAN
  /\ FlipBits \subseteq CBits
  /\ MAX_SENT \in Nat /\ MAX_LIVE \in Nat

VARIABLES
  mem,        \* the contents of the buffers
  made,       \* history: what each live handle stands for, and how it came about
  sent        \* the ciphertexts sent so far

vars == <<mem, made, sent>>

(* The live handles, which are the buffers in use. *)
Live == DOMAIN made

(* The content of a buffer is what it stands for. *)
Cleared       == [is |-> "zeros"]
Pk(rows)      == [is |-> "pk", rows |-> rows]
Sk(k)         == [is |-> "sk", key |-> k]
Secret(key)   == [is |-> "ss", key |-> key]

Put(f, x, v) == [y \in DOMAIN f \cup {x} |-> IF y = x THEN v ELSE f[y]]

(* One more handle on buffer b, where the call writes content; history is *)
(* what a caller who knows nothing of buffers takes the handle for.       *)
Make(b, content, history) ==
  /\ Cardinality(Live) < MAX_LIVE
  /\ mem' = [mem EXCEPT ![b] = content]
  /\ made' = Put(made, b, history)

Result(content, how) == [value |-> content, by |-> how]

Init ==
  /\ mem = [b \in Buffers |-> Cleared]
  /\ made = <<>>
  /\ sent = {}

(* 330-359: keypair and keypair_boxed *)
Keypair ==
  \E pair \in (PkArrays \X SkArrays) \cup (PkBoxes \X SkBoxes), k \in Keys :
    LET p == pair[1]
        s == pair[2]
    IN  /\ {p, s} \cap Live = {}
        /\ Cardinality(Live) + 1 < MAX_LIVE
        /\ mem' = [mem EXCEPT ![p] = Pk(PublicKeyOf[k]), ![s] = Sk(k)]
        /\ made' = Put(Put(made, p, Result(Pk(PublicKeyOf[k]), <<>>)),
                       s, Result(Sk(k), <<>>))
        /\ UNCHANGED sent

(* 142-154: a handle on bytes of the caller's. *)
PublicKeyFrom ==
  /\ \E p \in PkBuffers \ Live, x \in PublicKeys :
       Make(p, Pk(x), Result(Pk(x), <<>>))
  /\ UNCHANGED sent

(* 214-228 *)
SecretKeyFrom ==
  /\ \E s \in SkBuffers \ Live, k \in Keys :
       Make(s, Sk(k), Result(Sk(k), <<>>))
  /\ UNCHANGED sent

(* With a bug: the new box is not filled, and holds zeros (not for secret *)
(* keys, of which no call could take zeros).                              *)
Copied_NotFilled(content) ==
  IF content.is = "pk" THEN Pk(ZeroKey)
  ELSE IF content.is = "ss" THEN Secret(Zeros) ELSE content

(* 77-84: copy_from_slice *)
Copied(content) == content

(* 127-129, 187-189, 281-283: a box of its own, for a handle that stands  *)
(* for the same.                                                          *)
ToOwned ==
  /\ \E h \in Live, kind \in {<<PkBuffers, PkBoxes>>, <<SkBuffers, SkBoxes>>,
                               <<SsBuffers, SsBuffers>>} :
       /\ h \in kind[1]
       /\ \E b \in kind[2] \ Live : Make(b, Copied(mem[h]), made[h])
  /\ UNCHANGED sent

(* 367-404, 456-481: encapsulate, encapsulate_boxed, try_encap.  The return *)
(* code of crypto_kem_enc is dropped.                                      *)
Encapsulate ==
  \E h \in Live \cap PkBuffers, x \in SsBuffers \ Live, e \in Drawn :
    LET enc == crypto_kem_enc(mem[h].rows, e)
        how == [op |-> "enc", pk |-> made[h].value.rows, e |-> e, c |-> enc.c]
    IN  /\ Cardinality(sent \cup {enc.c}) <= MAX_SENT
        /\ sent' = sent \cup {enc.c}
        /\ Make(x, Secret(enc.key), Result(Secret(enc.key), how))

(* A ciphertext as it is sent, or with one bit changed (From, 267-271). *)
Received == sent \cup UNION {{SymDiff(c, {b}) : b \in FlipBits} : c \in sent}

(* 410-440, 501-520: decapsulate, decapsulate_boxed, try_decap *)
Decapsulate ==
  /\ \E h \in Live \cap SkBuffers, x \in SsBuffers \ Live, c \in Received :
       LET key == crypto_kem_dec(mem[h].key, c)
           how == [op |-> "dec", sk |-> made[h].value.key, c |-> c]
       IN  Make(x, Secret(key), Result(Secret(key), how))
  /\ UNCHANGED sent

(* With a bug: only the arrays of the caller are zeroized. *)
Zeroized_Arrays(b) == b \in PkArrays \cup SkArrays

(* 106-115 *)
Zeroized(b) == ZEROIZE

(* 166-174, 240-248, 315-323 *)
Drop ==
  /\ \E h \in Live :
       /\ mem' = IF Zeroized(h) THEN [mem EXCEPT ![h] = Cleared] ELSE mem
       /\ made' = Restrict(made, Live \ {h})
  /\ UNCHANGED sent

Next ==
  \/ Keypair \/ PublicKeyFrom \/ SecretKeyFrom \/ ToOwned
  \/ Encapsulate \/ Decapsulate \/ Drop

Spec == Init /\ [][Next]_vars

-------------------------------------------------------------------------------
(* Properties.                                                             *)

(* The live shared secrets that came about by an encapsulation, or a decapsulation. *)
By(op) == {h \in Live \cap SsBuffers : made[h].by.op = op}

KeyIn(h) == mem[h].key

(***************************************************************************)
(* Who encapsulates with a public key and who decapsulates the same        *)
(* ciphertext with its secret key hold the same key: the row arithmetic of *)
(* syndrome (encrypt.rs:151-176) and decrypt agree on the code.  The keys  *)
(* are those that the handles stand for, and so are the shared secrets:    *)
(* copies of any of them, made from copies and used after the original was *)
(* dropped and its array taken for another key, have to be as good         *)
(* (lib.rs:79-83, 166-174).                                                *)
(***************************************************************************)
AgreeOnSameCiphertext ==
  \A x \in By("enc"), y \in By("dec") :
    LET enc == made[x].by
        dec == made[y].by
    IN  enc.pk = PublicKeyOf[dec.sk] /\ enc.c = dec.c => KeyIn(x) = KeyIn(y)

(***************************************************************************)
(* Keys do not agree by accident.                                          *)
(*   - An encapsulation and a decapsulation: only for one and the same     *)
(*     ciphertext, of a public key without padding bits, and whose error   *)
(*     vector is the only one that the secret key finds.                   *)
(*   - Two decapsulations: only for one and the same ciphertext, and with  *)
(*     two secret keys only when both find the same error vector, so that  *)
(*     a rejection tells nothing but the secret key's own s.               *)
(*   - Two encapsulations: only for the same error vector and ciphertext.  *)
(* The cleared outputs are not meant: decapsulations of ciphertexts with   *)
(* padding bits share the key of all 1s, encapsulations with public keys   *)
(* with padding bits the key of all 0s.  The return codes are dropped      *)
(* (lib.rs:375, 417): the keys are all that tells a caller of a failure.   *)
(***************************************************************************)
NoFalseAgreement ==
  /\ \A x \in By("enc"), y \in By("dec") :
       LET enc == made[x].by
           dec == made[y].by
       IN  KeyIn(x) = KeyIn(y) =>
             /\ enc.c = dec.c
             /\ \A n \in Rows : enc.pk[n] \subseteq 0..(PK_NCOLS - 1)
             /\ Decoded(dec.sk, dec.c) = {enc.e}
  /\ \A x, y \in By("dec") :
       LET a == made[x].by
           b == made[y].by
       IN  KeyIn(x) = KeyIn(y) /\ KeyIn(x) # Ones =>
             /\ a.c = b.c
             /\ a.sk = b.sk \/ (Decoded(a.sk, a.c) = Decoded(b.sk, b.c) /\ Decoded(a.sk, a.c) # {})
  /\ \A x, y \in By("enc") :
       LET a == made[x].by
           b == made[y].by
       IN  KeyIn(x) = KeyIn(y) /\ KeyIn(x) # Zeros => a.e = b.e /\ a.c = b.c

(***************************************************************************)
(* No key and no shared secret stays behind in a buffer that no handle is  *)
(* on, array or box: with the feature zeroize, every drop clears it        *)
(* (lib.rs:216, "the array will be zeroed on drop").                       *)
(***************************************************************************)
NothingLeftBehind == ZEROIZE => \A b \in Buffers \ Live : mem[b] = Cleared
===============================================================================
