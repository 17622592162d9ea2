------------------------------- MODULE BenesNet -------------------------------
(***************************************************************************)
(* apply_benes (src/benes.rs) and the transposition it uses                *)
(* (src/transpose.rs): a Benes network on the 2^b bits of r, b = GFBITS.   *)
(* r is held in 64 x 64 matrices, one for b = 12 and two for b = 13; here  *)
(* of side 2^(b \div 2), so that an even b stands for mceliece348864[f]    *)
(* and an odd b for all others.                                            *)
(*                                                                         *)
(* A matrix is the set of the places <<half, word, bit>> of its 1 bits, a  *)
(* string of bits the set of the indices of its 1 bits.  d &= bits[k] and  *)
(* the two XORs move a 1 to the other place of its pair.                   *)
(***************************************************************************)
EXTENDS Integers, FiniteSets, SequencesExt

Side(b)   == 2^(b \div 2)
Halves(b) == 1 + (b % 2)

(* The pair, and the other place of the pair, of place x at a stride. *)
PairOf(x, stride)  == (x \div (2 * stride)) * stride + (x % stride)
Partner(x, stride) == IF (x \div stride) % 2 = 0 THEN x + stride ELSE x - stride

(* The layers run through the strides 1, 2, ..., 2^(b - 1), ..., 2, 1. *)
Level(b, m)  == IF m < b THEN m ELSE 2 * b - 2 - m
Layers(b)    == 2 * b - 1

(* The control bits of layer m: 2^(b - 1) of them, n >> 4 bytes. *)
LayerBits(bits, b, m) ==
  LET half == 2^(b - 1)
  IN  {c - m * half : c \in bits \cap ((m * half)..((m + 1) * half - 1))}

-------------------------------------------------------------------------------
(***************************************************************************)
(* transpose.rs: the rounds d, from the largest blocks down, exchange the  *)
(* words j and j + 2^d under masks: bit d of a row with bit d of a column. *)
(***************************************************************************)
Exchanged(x, d) ==
  LET row == (x[2] \div 2^d) % 2
      col == (x[3] \div 2^d) % 2
  IN  <<x[1], x[2] + (col - row) * 2^d, x[3] + (row - col) * 2^d>>

transpose(m, b) ==
  LET r[d \in 0..(b \div 2)] ==      \* before round d - 1
        IF d = b \div 2 THEN m ELSE {Exchanged(x, d) : x \in r[d + 1]}
  IN  r[0]

-------------------------------------------------------------------------------
(* The layers: data[.][j] against data[.][j + s], under bits[index].       *)

(* 24-42 *)
layer(data, bits, s) ==
  {IF <<0, PairOf(x[2], s), x[3]>> \in bits
   THEN [x EXCEPT ![2] = Partner(@, s)] ELSE x : x \in data}

(* 46-72: the bits of the two matrices alternate. *)
layer_in(data, bits, s) ==
  {IF <<0, 2 * PairOf(x[2], s) + x[1], x[3]>> \in bits
   THEN [x EXCEPT ![2] = Partner(@, s)] ELSE x : x \in data}

(* With a bug: the bits of the second matrix follow the first's at once. *)
layer_ex_Alternate(data, bits, s, b) ==
  IF s = Side(b)
  THEN {IF <<0, x[2], x[3]>> \in bits THEN [x EXCEPT ![1] = 1 - @] ELSE x : x \in data}
  ELSE layer_in(data, bits, s)

(* 90-132: s = 64 pairs the two matrices; their bits are 32 words apart. *)
layer_ex(data, bits, s, b) ==
  IF s = Side(b)
  THEN {IF <<0, x[2], x[3]>> \in bits THEN [x EXCEPT ![1] = 1 - @] ELSE x : x \in data}
  ELSE {IF <<0, x[1] * (Side(b) \div 2) + PairOf(x[2], s), x[3]>> \in bits
        THEN [x EXCEPT ![2] = Partner(@, s)] ELSE x : x \in data}

-------------------------------------------------------------------------------
(* 144-146, 264-267, and back: 186-188, 341-344 *)
ToMatrix(r, b) ==
  {<<(x \div Side(b)) % Halves(b), x \div (Side(b) * Halves(b)), x % Side(b)>> : x \in r}

FromMatrix(m, b) == {(x[2] * Halves(b) + x[1]) * Side(b) + x[3] : x \in m}

(* The words cond, of the given width, that the bits of layer m fill. *)
Load(bits, b, m, width) ==
  {<<0, c \div width, c % width>> : c \in LayerBits(bits, b, m)}

(* The number of the strides inside a word, or a pair of words; the others *)
(* are between words.  Within a word the matrix is transposed.             *)
Outer(b) == b - b \div 2

(* 150-156, 175-182, 272-286, 321-336: block says where the bits are *)
OuterLayer(data, bits, b, m, block) ==
  LET s == 2^Level(b, m)
  IN  IF Halves(b) = 1
      THEN layer(data, transpose(Load(bits, b, block, Side(b) \div 2), b), s)
      ELSE layer_ex(data, transpose(Load(bits, b, block, Side(b)), b), s, b)

InnerStride(b, m) == 2^(Level(b, m) - Outer(b))

(* 160-171, 291-316 *)
InnerLayer(data, bits, b, m, block) ==
  LET cond == Load(bits, b, block, Side(b))
  IN  IF Halves(b) = 1 THEN layer(data, cond, InnerStride(b, m))
                       ELSE layer_in(data, cond, InnerStride(b, m))

(***************************************************************************)
(* 218-227, for rev # 0 and b = 12: the layer runs after every word that   *)
(* is loaded, with the words to come still those of the layer before it.   *)
(***************************************************************************)
InnerLayerEachWord(data, bits, b, m) ==
  LET new == Load(bits, b, 2 * b - 2 - m, Side(b))
      old == Load(bits, b, 2 * b - 1 - m, Side(b))
      Cond(k) == {x \in new : x[2] <= k} \cup {x \in old : x[2] > k}
  IN  FoldLeft(LAMBDA r, k : layer(r, Cond(k), InnerStride(b, m)), data,
               [k \in 1..(Side(b) \div 2) |-> k - 1])

(* 152-178, 199-235; 262, 277-281: the block of bits for layer m *)
Block(b, m, rev) == IF rev = 0 THEN m ELSE Layers(b) - 1 - m

(* data before layer to, when it is given before layer from. *)
OuterLayers(data, bits, b, from, to, rev) ==
  LET d[m \in from..to] ==
        IF m = from THEN data
        ELSE OuterLayer(d[m - 1], bits, b, m - 1, Block(b, m - 1, rev))
  IN  d[to]

InnerLayers(data, bits, b, rev) ==
  LET Step(r, m) == IF rev # 0 /\ Halves(b) = 1 /\ m >= b
                    THEN InnerLayerEachWord(r, bits, b, m)
                    ELSE InnerLayer(r, bits, b, m, Block(b, m, rev))
      d[m \in Outer(b)..(Layers(b) - Outer(b))] ==
        IF m = Outer(b) THEN data ELSE Step(d[m - 1], m - 1)
  IN  d[Layers(b) - Outer(b)]

(* 138-249, 255-345 *)
apply_benes(r, bits, b, rev) ==
  LET d1 == OuterLayers(transpose(ToMatrix(r, b), b), bits, b, 0, Outer(b), rev)
      d2 == InnerLayers(transpose(d1, b), bits, b, rev)
      d3 == OuterLayers(transpose(d2, b), bits, b, Layers(b) - Outer(b), Layers(b), rev)
  IN  FromMatrix(transpose(d3, b), b)
===============================================================================
