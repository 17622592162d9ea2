------------------------------- MODULE ApiProofs ------------------------------
(***************************************************************************)
(* For any number of buffers, keys, ciphertexts and calls: the two sides   *)
(* of a key exchange get the same key, whatever was copied and dropped in  *)
(* between; two shared secrets that are not the output of a failed padding *)
(* check agree only when what they were computed from does; and the        *)
(* buffers that no handle is on are cleared.                               *)
(***************************************************************************)
EXTENDS Api, LinearLemmas

-------------------------------------------------------------------------------
(* Part 1: the bytes of a row of the public key, in syndrome. *)

(* Division with remainder, which the provers know for numerals only. *)
LEMMA Division ==
  ASSUME NEW a \in Nat, NEW b \in Nat \ {0}
  PROVE  /\ a \div b \in Nat /\ a % b \in 0..(b - 1)
         /\ a = (a \div b) * b + (a % b)
OBVIOUS

LEMMA Quotient ==
  ASSUME NEW b \in Nat \ {0}, NEW p \in Int, NEW q \in Int,
         NEW r \in 0..(b - 1), NEW s \in 0..(b - 1), p * b + r = q * b + s
  PROVE  p = q /\ r = s
<1>1. ASSUME NEW x \in Int, NEW y \in Int, NEW u \in 0..(b - 1), NEW v \in 0..(b - 1),
             x * b + u = y * b + v
      PROVE  ~ x < y
  <2>1. SUFFICES ASSUME x < y  PROVE FALSE
    OBVIOUS
  <2>2. PICK d \in Nat : y = x + 1 + d
    <3>1. y - x - 1 \in Nat /\ y = x + 1 + (y - x - 1)
      BY <2>1
    <3>. QED
      BY <3>1
  <2>3. y * b = x * b + b + d * b
    BY <2>2
  <2>4. d * b \in Nat /\ x * b \in Int
    OBVIOUS
  <2>. QED
    BY <1>1, <2>3, <2>4
<1>2. ~ p < q /\ ~ q < p
  BY <1>1
<1>3. p = q
  BY <1>2
<1>. QED
  BY <1>3

(***************************************************************************)
(* The bytes of a row: the segment of the public key starts in the byte    *)
(* that holds the last bits of the unit part, or in the one after it.      *)
(***************************************************************************)
From == E_BYTES - PK_ROW_BYTES
Tail == PK_NROWS % BYTE

LEMMA Layout ==
  /\ BYTE \in Nat \ {0, 1} /\ PK_NROWS \in Nat /\ SYS_N \in Nat
  /\ PK_NCOLS \in Nat /\ PK_NCOLS = SYS_N - PK_NROWS
  /\ E_BYTES \in Nat /\ E_BYTES * BYTE = SYS_N
  /\ PK_ROW_BYTES \in Nat
  /\ From \in Nat \ {0} /\ E_BYTES = From + PK_ROW_BYTES
  /\ Tail \in 0..(BYTE - 1) /\ PK_NROWS = From * BYTE + Tail
<1>. DEFINE b == BYTE
            R == PK_NROWS
            u == R \div b
            t == R % b
            e == E_BYTES
<1>1. b \in Nat \ {0, 1} /\ R \in Nat /\ SYS_N \in Nat /\ b <= R /\ R < SYS_N
  BY KemAssumption, GoppaAssumption, ColsFinite
<1>2. u \in Nat /\ t \in 0..(b - 1) /\ R = u * b + t
  <2>. HIDE DEF b, R
  <2>1. b \in Nat \ {0}
    BY <1>1
  <2>. QED
    BY <1>1, <2>1, Division
<1>3. e \in Nat /\ SYS_N = e * b
  <2>. DEFINE r == SYS_N % b
  <2>1. r = 0
    BY KemAssumption
  <2>2. SYS_N \div b \in Nat /\ SYS_N = (SYS_N \div b) * b + r
    <3>1. b \in Nat \ {0}
      BY <1>1
    <3>. HIDE DEF b
    <3>. QED
      BY <1>1, <3>1, Division
  <2>3. e = SYS_N \div b
    BY DEF E_BYTES
  <2>4. (SYS_N \div b) * b \in Nat
    BY <1>1, <2>2
  <2>. HIDE DEF b, e, r
  <2>. QED
    BY <2>1, <2>2, <2>3, <2>4
<1>4. PK_NCOLS = SYS_N - R
  BY DEF PK_NCOLS
<1>. DEFINE x == PK_NCOLS + b - 1
<1>5. x \in Nat /\ x = (e - u) * b + (b - 1 - t) /\ b - 1 - t \in 0..(b - 1)
      /\ e - u \in Int
  <2>. HIDE DEF b, R, u, t, e
  <2>1. (e - u) * b = e * b - u * b /\ e * b \in Nat /\ u * b \in Nat
    BY <1>1, <1>2, <1>3
  <2>. QED
    BY <1>1, <1>2, <1>3, <1>4, <2>1
<1>6. PK_ROW_BYTES = x \div b
  BY DEF PK_ROW_BYTES
<1>. HIDE DEF b, R, u, t, e, x
<1>7. x \div b \in Nat /\ x \div b = e - u
  <2>1. b \in Nat \ {0}
    BY <1>1
  <2>2. x \div b \in Nat /\ x % b \in 0..(b - 1) /\ x = (x \div b) * b + (x % b)
    BY <1>5, <2>1, Division
  <2>. DEFINE q == x \div b
              r == x % b
              d == e - u
              s == b - 1 - t
  <2>3. /\ b \in Nat \ {0} /\ q \in Int /\ d \in Int
        /\ r \in 0..(b - 1) /\ s \in 0..(b - 1)
        /\ q * b + r = d * b + s
    BY <1>5, <2>1, <2>2
  <2>. HIDE DEF q, r, d, s
  <2>4. q = d
    BY ONLY <2>3, Quotient
  <2>. QED
    BY <2>2, <2>4 DEF q, d
<1>8. u # 0
  BY <1>1, <1>2
<1>9. From = u /\ Tail = t
  BY <1>2, <1>3, <1>6, <1>7 DEF From, Tail, e, t, b, R
<1>. QED
  BY <1>1, <1>2, <1>3, <1>4, <1>6, <1>7, <1>8, <1>9 DEF b, R, e

(* The bits of byte n, if the segment stands right after the unit part. *)
ByteOf(segment, n) == {b \in 0..(BYTE - 1) : n * BYTE + b - PK_NROWS \in segment}

(* Before the byte in which the segment starts there is nothing. *)
LEMMA BeforeSegment ==
  ASSUME NEW segment \in SUBSET Nat, NEW n \in Nat, n < From
  PROVE  Placed(segment)[n] = {} /\ ByteOf(segment, n) = {}
<1>1. PICK d \in Nat : From = n + 1 + d
  <2>1. From - n - 1 \in Nat /\ From = n + 1 + (From - n - 1)
    BY Layout
  <2>. QED
    BY <2>1
<1>2. (n - From) * BYTE = 0 - BYTE - d * BYTE /\ d * BYTE \in Nat
  BY <1>1, Layout
<1>3. ASSUME NEW b \in 0..(BYTE - 1)
      PROVE  (n - From) * BYTE + b < 0 /\ n * BYTE + b - PK_NROWS < 0
  <2>1. (n - From) * BYTE + b < 0
    BY <1>2, Layout
  <2>2. n * BYTE + b - PK_NROWS = (n - From) * BYTE + b - Tail
    BY Layout
  <2>. QED
    BY <2>1, <2>2, Layout
<1>4. n \in 0..(E_BYTES - 1)
  BY Layout
<1>5. Placed(segment)[n] = {b \in 0..(BYTE - 1) : (n - From) * BYTE + b \in segment}
  BY <1>4 DEF Placed, From
<1>6. \A y \in segment : ~ y < 0
  OBVIOUS
<1>. QED
  BY ONLY <1>3, <1>5, <1>6 DEF ByteOf

(* One shift: the byte gets the bits that belong there. *)
LEMMA ShiftedByte ==
  ASSUME NEW segment, NEW n \in From..(E_BYTES - 1)
  PROVE  {b \in 0..(BYTE - 1) :
            \/ b - Tail \in Placed(segment)[n]
            \/ b - Tail + BYTE \in Placed(segment)[n - 1]} = ByteOf(segment, n)
<1>1. n \in 0..(E_BYTES - 1) /\ n - 1 \in 0..(E_BYTES - 1) /\ n \in Nat
  BY Layout
<1>2. ASSUME NEW b \in 0..(BYTE - 1)
      PROVE  (\/ b - Tail \in Placed(segment)[n]
              \/ b - Tail + BYTE \in Placed(segment)[n - 1])
             <=> n * BYTE + b - PK_NROWS \in segment
  <2>. DEFINE x == n * BYTE + b - PK_NROWS
  <2>1. b - Tail \in Placed(segment)[n]
          <=> b - Tail \in 0..(BYTE - 1) /\ (n - From) * BYTE + (b - Tail) \in segment
    BY <1>1 DEF Placed, From
  <2>2. b - Tail + BYTE \in Placed(segment)[n - 1]
          <=> /\ b - Tail + BYTE \in 0..(BYTE - 1)
              /\ (n - 1 - From) * BYTE + (b - Tail + BYTE) \in segment
    BY <1>1 DEF Placed, From
  <2>3. (n - From) * BYTE + (b - Tail) = x
    BY <1>1, Layout
  <2>4. (n - 1 - From) * BYTE + (b - Tail + BYTE) = x
    BY <1>1, Layout
  <2>5. b - Tail \in 0..(BYTE - 1) <=> ~ (b - Tail + BYTE \in 0..(BYTE - 1))
    BY Layout
  <2>. HIDE DEF x
  <2>6. (\/ b - Tail \in Placed(segment)[n]
         \/ b - Tail + BYTE \in Placed(segment)[n - 1]) <=> x \in segment
    BY <2>1, <2>2, <2>3, <2>4, <2>5
  <2>. QED
    BY <2>6 DEF x
<1>. QED
  BY <1>2 DEF ByteOf

(* The loop: the rows that shifted takes, from the last byte down. *)
Loop(segment, f) ==
  f = [m \in 0..PK_ROW_BYTES |->
         IF m = 0 THEN Placed(segment)
         ELSE ShiftByte(f[m - 1], Order[m], Tail)]

(* After m rounds the last m bytes are where they belong. *)
AfterRounds(segment, m) ==
  [n \in 0..(E_BYTES - 1) |->
     IF n < E_BYTES - m THEN Placed(segment)[n] ELSE ByteOf(segment, n)]

LEMMA LoopRound ==
  ASSUME NEW segment, NEW m \in 1..PK_ROW_BYTES
  PROVE  ShiftByte(AfterRounds(segment, m - 1), Order[m], Tail) = AfterRounds(segment, m)
<1>. DEFINE n == E_BYTES - m
            row == AfterRounds(segment, m - 1)
            new == {b \in 0..(BYTE - 1) : b - Tail \in row[n] \/ b - Tail + BYTE \in row[n - 1]}
<1>1. n \in From..(E_BYTES - 1) /\ n \in 0..(E_BYTES - 1) /\ n - 1 \in 0..(E_BYTES - 1)
      /\ Order[m] = n
  BY Layout DEF Order
<1>2. row[n] = Placed(segment)[n] /\ row[n - 1] = Placed(segment)[n - 1]
  <2>1. n < E_BYTES - (m - 1) /\ n - 1 < E_BYTES - (m - 1)
    BY Layout
  <2>. HIDE DEF n
  <2>. QED
    BY <1>1, <2>1 DEF AfterRounds
<1>3. new = ByteOf(segment, n)
  <2>. HIDE DEF n, row
  <2>. QED
    BY <1>1, <1>2, ShiftedByte
<1>4. ShiftByte(row, n, Tail) = [x \in 0..(E_BYTES - 1) |-> IF x = n THEN new ELSE row[x]]
  BY DEF ShiftByte, AfterRounds
<1>5. ASSUME NEW x \in 0..(E_BYTES - 1)
      PROVE  (IF x = n THEN new ELSE row[x]) = AfterRounds(segment, m)[x]
  <2>1. CASE x = n
    BY <1>3, <2>1 DEF AfterRounds
  <2>2. CASE x # n
    <3>1. x < E_BYTES - (m - 1) <=> x < E_BYTES - m
      BY <2>2, Layout
    <3>. QED
      BY <2>2, <3>1 DEF AfterRounds
  <2>. QED
    BY <2>1, <2>2
<1>6. AfterRounds(segment, m) = [x \in 0..(E_BYTES - 1) |-> AfterRounds(segment, m)[x]]
  BY DEF AfterRounds
<1>. HIDE DEF n, row, new
<1>. QED
  BY <1>1, <1>4, <1>5, <1>6 DEF row

LEMMA LoopIs ==
  ASSUME NEW segment \in SUBSET Nat
  PROVE  /\ Loop(segment, [m \in 0..PK_ROW_BYTES |-> AfterRounds(segment, m)])
         /\ \A f : Loop(segment, f) => f[PK_ROW_BYTES] = AfterRounds(segment, PK_ROW_BYTES)
<1>. DEFINE R == [m \in 0..PK_ROW_BYTES |-> AfterRounds(segment, m)]
<1>1. AfterRounds(segment, 0) = Placed(segment)
  <2>1. \A n \in 0..(E_BYTES - 1) : n < E_BYTES - 0
    BY Layout
  <2>2. AfterRounds(segment, 0) = [n \in 0..(E_BYTES - 1) |-> Placed(segment)[n]]
    BY <2>1 DEF AfterRounds
  <2>3. Placed(segment) = [n \in 0..(E_BYTES - 1) |-> Placed(segment)[n]]
    BY DEF Placed
  <2>. QED
    BY <2>2, <2>3
<1>2. Loop(segment, R)
  <2>1. ASSUME NEW m \in 0..PK_ROW_BYTES
        PROVE  R[m] = IF m = 0 THEN Placed(segment)
                      ELSE ShiftByte(R[m - 1], Order[m], Tail)
    <3>1. CASE m = 0
      BY <1>1, <3>1
    <3>2. CASE m # 0
      <4>1. m \in 1..PK_ROW_BYTES /\ m - 1 \in 0..PK_ROW_BYTES
        BY <3>2, Layout
      <4>. QED
        BY <3>2, <4>1, LoopRound
    <3>. QED
      BY <3>1, <3>2
  <2>2. R = [m \in 0..PK_ROW_BYTES |-> R[m]]
    OBVIOUS
  <2>. HIDE DEF R
  <2>. QED
    BY <2>1, <2>2 DEF Loop
<1>3. ASSUME NEW f, Loop(segment, f)
      PROVE  f[PK_ROW_BYTES] = AfterRounds(segment, PK_ROW_BYTES)
  <2>. DEFINE T == {m \in 0..PK_ROW_BYTES : f[m] # AfterRounds(segment, m)}
  <2>1. SUFFICES ASSUME T # {}  PROVE FALSE
    BY Layout
  <2>2. PICK m \in T : \A i \in T : m <= i
    <3>1. T \in SUBSET Nat
      OBVIOUS
    <3>. HIDE DEF T
    <3>. QED
      BY <2>1, <3>1, MinOfNaturals
  <2>3. m \in 0..PK_ROW_BYTES /\ f[m] # AfterRounds(segment, m)
    OBVIOUS
  <2>4. f[m] = IF m = 0 THEN Placed(segment) ELSE ShiftByte(f[m - 1], Order[m], Tail)
    BY <1>3, <2>3 DEF Loop
  <2>5. m # 0
    BY <1>1, <2>3, <2>4
  <2>6. m \in 1..PK_ROW_BYTES /\ m - 1 \in 0..PK_ROW_BYTES
    BY <2>3, <2>5, Layout
  <2>7. m - 1 \notin T
    <3>. HIDE DEF T
    <3>. QED
      BY <2>2, <2>6
  <2>8. f[m - 1] = AfterRounds(segment, m - 1)
    BY <2>6, <2>7
  <2>. QED
    BY <2>3, <2>4, <2>5, <2>6, <2>8, LoopRound
<1>. QED
  BY <1>2, <1>3

(***************************************************************************)
(* The row that syndrome works with: the segment of the public key stands  *)
(* right after the unit part, whether or not it had to be shifted.         *)
(***************************************************************************)
LEMMA FullRowIs ==
  ASSUME NEW segment \in SUBSET (0..(PK_NCOLS - 1)), NEW n \in Rows
  PROVE  FullRow(segment, n) = {n} \cup {x \in Cols : x - PK_NROWS \in segment}
<1>. DEFINE row == IF HasPadding
                   THEN (CHOOSE f : Loop(segment, f))[PK_ROW_BYTES]
                   ELSE Placed(segment)
<1>1. segment \in SUBSET Nat
  BY Layout
<1>2. ASSUME NEW m \in 0..(E_BYTES - 1)
      PROVE  row[m] = ByteOf(segment, m)
  <2>1. CASE HasPadding
    <3>1. row = AfterRounds(segment, PK_ROW_BYTES)
      <4>1. \E f : Loop(segment, f)
        BY <1>1, LoopIs
      <4>. QED
        BY <1>1, <2>1, <4>1, LoopIs
    <3>2. m < E_BYTES - PK_ROW_BYTES => Placed(segment)[m] = ByteOf(segment, m)
      <4>1. m \in Nat /\ E_BYTES - PK_ROW_BYTES = From
        BY Layout DEF From
      <4>. QED
        BY <1>1, <4>1, BeforeSegment
    <3>. HIDE DEF row
    <3>. QED
      BY <3>1, <3>2 DEF AfterRounds
  <2>2. CASE ~ HasPadding
    <3>1. Tail = 0
      BY <2>2 DEF HasPadding, Tail
    <3>2. row[m] = {b \in 0..(BYTE - 1) : (m - From) * BYTE + b \in segment}
      BY <2>2 DEF Placed, From
    <3>3. ASSUME NEW b \in 0..(BYTE - 1)
          PROVE  (m - From) * BYTE + b = m * BYTE + b - PK_NROWS
      BY <3>1, Layout
    <3>. HIDE DEF row
    <3>. QED
      BY <3>2, <3>3 DEF ByteOf
  <2>. QED
    BY <2>1, <2>2
<1>3. FullRow(segment, n)
        = {n} \cup UNION {{m * BYTE + b : b \in row[m]} : m \in 0..(E_BYTES - 1)}
  BY DEF FullRow, Loop, Tail
<1>. HIDE DEF row
<1>. DEFINE columns == UNION {{m * BYTE + b : b \in ByteOf(segment, m)} : m \in 0..(E_BYTES - 1)}
<1>4. FullRow(segment, n) = {n} \cup columns
  BY <1>2, <1>3
<1>5. ASSUME NEW x \in columns
      PROVE  x \in Cols /\ x - PK_NROWS \in segment
  <2>1. PICK m \in 0..(E_BYTES - 1), b \in 0..(BYTE - 1) :
          x = m * BYTE + b /\ m * BYTE + b - PK_NROWS \in segment
    BY DEF ByteOf
  <2>2. x \in Int /\ x - PK_NROWS \in segment /\ x - PK_NROWS \in 0..(PK_NCOLS - 1)
    BY <2>1, Layout
  <2>. QED
    BY <2>2, Layout DEF Cols
<1>6. ASSUME NEW x \in Cols, x - PK_NROWS \in segment
      PROVE  x \in columns
  <2>. DEFINE m == x \div BYTE
              b == x % BYTE
  <2>1. x \in Nat /\ x < E_BYTES * BYTE
    BY Layout DEF Cols
  <2>2. m \in Nat /\ b \in 0..(BYTE - 1) /\ x = m * BYTE + b
    BY <2>1, Layout, Division
  <2>. HIDE DEF m, b
  <2>3. m < E_BYTES
    <3>1. SUFFICES ASSUME E_BYTES <= m  PROVE FALSE
      BY <2>2, Layout
    <3>2. PICK d \in Nat : m = E_BYTES + d
      <4>1. m - E_BYTES \in Nat /\ m = E_BYTES + (m - E_BYTES)
        BY <2>2, <3>1, Layout
      <4>. QED
        BY <4>1
    <3>3. m * BYTE = E_BYTES * BYTE + d * BYTE /\ d * BYTE \in Nat
      BY <3>2, Layout
    <3>. QED
      BY <2>1, <2>2, <3>3, Layout
  <2>4. m \in 0..(E_BYTES - 1) /\ b \in ByteOf(segment, m)
    BY <1>6, <2>2, <2>3, Layout DEF ByteOf
  <2>. QED
    BY <2>2, <2>4
<1>. QED
  BY <1>4, <1>5, <1>6

-------------------------------------------------------------------------------
(* Part 2: the keys that pk_gen returns. *)

(* pk_gen's systematic form exists for the keys at hand. *)
LEMMA ReducedRows ==
  ASSUME NEW k \in Keys
  PROVE  /\ Matrices[k] \in [Rows -> SUBSET Cols]
         /\ Reduced[k] \in [Rows -> SUBSET Cols]
         /\ \A n \in Rows : /\ Reduced[k][n] \in RowSpace(Matrices[k])
                            /\ Reduced[k][n] \cap Rows = {n}
<1>. DEFINE m == Matrices[k]
<1>1. m \in [Rows -> SUBSET Cols]
  <2>1. FillMatrix(k.g, k.pi) \in [Rows -> SUBSET Cols]
    BY DEF FillMatrix
  <2>. QED
    BY <2>1 DEF Matrices
<1>. HIDE DEF m
<1>2. RowSpace(m) \subseteq SUBSET Cols
  <2>1. \A h, S : RowSum(h, S) \in SUBSET Cols
    BY DEF RowSum
  <2>2. ASSUME NEW v \in RowSpace(m)
        PROVE  v \in SUBSET Cols
    <3>1. PICK S \in SUBSET Rows : v = RowSum(m, S)
      BY DEF RowSpace
    <3>. QED
      BY <2>1, <3>1
  <2>. QED
    BY <2>2
<1>3. Reduced[k] = [n \in Rows |-> CHOOSE v \in RowSpace(m) : v \cap Rows = {n}]
  BY DEF Reduced, m
<1>4. ASSUME NEW n \in Rows
      PROVE  \E v \in RowSpace(m) : v \cap Rows = {n}
  <2>1. Systematic(m, PK_NROWS)
    BY KeysAssumption DEF m
  <2>2. {n} \in {v \cap Rows : v \in RowSpace(m)}
    BY <2>1 DEF Systematic, Rows
  <2>. QED
    BY <2>2
<1>5. ASSUME NEW n \in Rows
      PROVE  Reduced[k][n] \in RowSpace(m) /\ Reduced[k][n] \cap Rows = {n}
  BY <1>3, <1>4
<1>6. Reduced[k] \in [Rows -> SUBSET Cols]
  BY <1>2, <1>3, <1>5
<1>. QED
  BY <1>1, <1>5, <1>6 DEF m

(* The public key is all but the unit part, and syndrome puts it back. *)
LEMMA FullRowOfKey ==
  ASSUME NEW k \in Keys, NEW n \in Rows
  PROVE  /\ PublicKeyOf[k][n] \in SUBSET (0..(PK_NCOLS - 1))
         /\ FullRow(PublicKeyOf[k][n], n) = Reduced[k][n]
<1>. DEFINE v == Reduced[k][n]
            segment == PublicKeyOf[k][n]
<1>1. v \subseteq Cols /\ v \cap Rows = {n}
  BY ReducedRows
<1>2. segment = {x - PK_NROWS : x \in v \ Rows}
  BY DEF PublicKeyOf
<1>. HIDE DEF v, segment
<1>3. \A x \in Cols : x \in Int /\ (x \in Rows <=> ~ x - PK_NROWS \in 0..(PK_NCOLS - 1))
  BY Layout DEF Cols, Rows
<1>4. segment \in SUBSET (0..(PK_NCOLS - 1))
  BY <1>1, <1>2, <1>3
<1>5. ASSUME NEW x \in Cols
      PROVE  x - PK_NROWS \in segment <=> x \in v \ Rows
  BY <1>1, <1>2, <1>3, Layout
<1>6. FullRow(segment, n) = {n} \cup {x \in Cols : x - PK_NROWS \in segment}
  BY <1>4, FullRowIs
<1>7. {n} \cup {x \in Cols : x - PK_NROWS \in segment} = v
  BY <1>1, <1>5
<1>. QED
  BY <1>4, <1>6, <1>7 DEF v, segment

(***************************************************************************)
(* The syndrome of e by the public key is, as a word, a word with the      *)
(* syndrome of e by the secret parity check matrix.                        *)
(***************************************************************************)
LEMMA SyndromesAgree ==
  ASSUME NEW k \in Keys, NEW e \in SUBSET Cols
  PROVE  /\ syndrome(PublicKeyOf[k], e) \in SUBSET Rows
         /\ SecretSyndrome(k, syndrome(PublicKeyOf[k], e)) = SecretSyndrome(k, e)
<1>. DEFINE m == Matrices[k]
            h == Reduced[k]
            c == syndrome(PublicKeyOf[k], e)
<1>1. /\ m \in [Rows -> SUBSET Cols] /\ h \in [Rows -> SUBSET Cols]
      /\ \A n \in Rows : h[n] \in RowSpace(m) /\ h[n] \cap Rows = {n}
  BY ReducedRows
<1>2. c = {n \in Rows : Odd(h[n] \cap e)}
  <2>1. \A n \in Rows : FullRow(PublicKeyOf[k][n], n) = h[n]
    BY FullRowOfKey
  <2>. HIDE DEF h
  <2>. QED
    BY <2>1 DEF syndrome
<1>. HIDE DEF m, h, c
<1>3. c \in SUBSET Rows /\ c \in SUBSET Cols
  BY <1>2, Layout DEF Rows, Cols
<1>4. ASSUME NEW r \in Rows
      PROVE  Odd(m[r] \cap c) <=> Odd(m[r] \cap e)
  <2>1. PICK S \in SUBSET Rows : m[r] = RowSum(h, S)
    BY <1>1, UnitRowsSpan
  <2>2. Odd(m[r] \cap e) <=> Odd({n \in S : Odd(h[n] \cap e)})
    BY <1>1, <2>1, ParityOfSum
  <2>3. {n \in S : Odd(h[n] \cap e)} = S \cap c
    BY <1>2
  <2>4. m[r] \cap c = S \cap c
    <3>1. ASSUME NEW x \in Rows
          PROVE  x \in RowSum(h, S) <=> x \in S
      <4>1. \A q \in S : x \in h[q] <=> q = x
        BY <1>1
      <4>. QED
        BY <1>1, <4>1, ColsFinite, UnitColumnSum
    <3>. QED
      BY <1>3, <2>1, <3>1
  <2>. QED
    BY <2>2, <2>3, <2>4
<1>5. SecretSyndrome(k, c) = SecretSyndrome(k, e)
  BY <1>4 DEF SecretSyndrome, m
<1>. QED
  BY <1>3, <1>5 DEF c

(* decrypt finds the error vector that was encrypted, and no other. *)
LEMMA DecodesItsOwn ==
  ASSUME NEW k \in Keys, NEW e \in ErrorVectors
  PROVE  Decoded(k, syndrome(PublicKeyOf[k], e)) = {e}
<1>. DEFINE c == syndrome(PublicKeyOf[k], e)
<1>1. SecretSyndrome(k, c) = ErrorSyndromes[k][e]
  BY SyndromesAgree DEF ErrorVectors, ErrorSyndromes
<1>2. \A d \in ErrorVectors : ErrorSyndromes[k][d] = ErrorSyndromes[k][e] => d = e
  BY KeysAssumption
<1>. HIDE DEF c
<1>3. Decoded(k, c) = {d \in ErrorVectors : ErrorSyndromes[k][d] = ErrorSyndromes[k][e]}
  BY <1>1 DEF Decoded
<1>. QED
  BY <1>2, <1>3 DEF c

-------------------------------------------------------------------------------
(* Part 3: the padding checks. *)

(* The byte that the check computes: 0 only for 0. *)
LEMMA BadIs ==
  ASSUME NEW b \in SUBSET (0..(BYTE - 2))
  PROVE  Bad(b) = {} <=> b = {}
<1>0. BYTE \in Nat /\ BYTE - 1 \in Nat /\ BYTE - 1 # 0
  BY Layout
<1>1. CASE b = {}
  <2>1. Decremented(b) = 0..(BYTE - 1)
    BY <1>1 DEF Decremented
  <2>2. ShiftedRight(0..(BYTE - 1), BYTE - 1) = {0}
    <3>1. {y \in 0..(BYTE - 1) : BYTE - 1 <= y} = {BYTE - 1}
      BY <1>0
    <3>. QED
      BY <1>0, <3>1 DEF ShiftedRight
  <2>3. Min({0}) = 0
    BY DEF Min
  <2>4. Decremented({0}) = {}
    BY <2>3 DEF Decremented
  <2>. QED
    BY <1>1, <2>1, <2>2, <2>4 DEF Bad
<1>2. CASE b # {}
  <2>1. b \in SUBSET Nat
    BY <1>0
  <2>2. Min(b) \in b
    <3>1. \E x \in b : \A y \in b : x <= y
      BY <1>2, <2>1, MinOfNaturals
    <3>. QED
      BY <3>1 DEF Min
  <2>3. Decremented(b) \subseteq 0..(BYTE - 2)
    <3>. DEFINE l == Min(b)
    <3>1. l \in 0..(BYTE - 2)
      BY <2>2
    <3>2. Decremented(b) = (b \ {l}) \cup (0..(l - 1))
      BY <1>2 DEF Decremented
    <3>. HIDE DEF l
    <3>. QED
      BY <1>0, <3>1, <3>2
  <2>4. ShiftedRight(Decremented(b), BYTE - 1) = {}
    <3>1. \A y \in Decremented(b) : ~ BYTE - 1 <= y
      BY <1>0, <2>3
    <3>. QED
      BY <3>1 DEF ShiftedRight
  <2>5. Decremented({}) = 0..(BYTE - 1) /\ 0 \in 0..(BYTE - 1)
    BY <1>0 DEF Decremented
  <2>. QED
    BY <1>2, <2>4, <2>5 DEF Bad
<1>. QED
  BY <1>1, <1>2

(* Where total bits end in the last of bytes bytes. *)
LEMMA LastByteOf ==
  ASSUME NEW total \in Nat, total % BYTE # 0
  PROVE  /\ total % BYTE \in 1..(BYTE - 1)
         /\ (total + BYTE - 1) \div BYTE \in Nat
         /\ ((total + BYTE - 1) \div BYTE - 1) * BYTE = total - (total % BYTE)
         /\ ((total + BYTE - 1) \div BYTE) * BYTE = total - (total % BYTE) + BYTE
<1>. DEFINE b == BYTE
            q == total \div b
            t == total % b
            x == total + b - 1
            d == q + 1
            s == t - 1
            y == x \div b
            r == x % b
<1>1. b \in Nat \ {0}
  BY Layout
<1>2. q \in Nat /\ t \in 0..(b - 1) /\ total = q * b + t /\ t # 0
  <2>1. t # 0
    OBVIOUS
  <2>. HIDE DEF b
  <2>. QED
    BY <1>1, <2>1, Division
<1>3. x \in Nat
  BY <1>1
<1>4. y \in Nat /\ r \in 0..(b - 1) /\ x = y * b + r
  <2>. HIDE DEF b, x
  <2>. QED
    BY <1>1, <1>3, Division
<1>. HIDE DEF q, t, y, r
<1>5. x = d * b + s /\ s \in 0..(b - 1) /\ d \in Nat
  <2>. HIDE DEF b
  <2>1. d * b = q * b + b /\ q * b \in Nat /\ d \in Nat
    BY <1>1, <1>2
  <2>. HIDE DEF d
  <2>. QED
    BY <1>1, <1>2, <2>1
<1>6. y = d
  <2>. HIDE DEF b, x, d, s
  <2>1. y * b + r = d * b + s
    BY <1>4, <1>5
  <2>. QED
    BY ONLY <1>1, <1>4, <1>5, <2>1, Quotient
<1>7. (y - 1) * b = total - t /\ y * b = total - t + b
  <2>. HIDE DEF b, x, s
  <2>1. (d - 1) * b = q * b /\ d * b = q * b + b /\ q * b \in Nat
    BY <1>1, <1>2
  <2>. HIDE DEF d
  <2>. QED
    BY <1>1, <1>2, <1>6, <2>1
<1>8. t \in 1..(b - 1)
  BY <1>1, <1>2
<1>. QED
  BY <1>4, <1>7, <1>8 DEF y, t

(* The check of the last byte sees every bit from total on, and no other. *)
LEMMA PaddingSeen ==
  ASSUME NEW total \in Nat, total % BYTE # 0,
         NEW bytes, bytes = (total + BYTE - 1) \div BYTE,
         NEW bits \in SUBSET (0..(bytes * BYTE - 1))
  PROVE  /\ ShiftedRight(LastByte(bits, bytes), total % BYTE) \in SUBSET (0..(BYTE - 2))
         /\ ShiftedRight(LastByte(bits, bytes), total % BYTE) = {}
              <=> bits \subseteq 0..(total - 1)
<1>. DEFINE t == total % BYTE
            base == (bytes - 1) * BYTE
            last == LastByte(bits, bytes)
<1>1. /\ t \in 1..(BYTE - 1) /\ BYTE \in Nat
      /\ base = total - t /\ bytes * BYTE = total - t + BYTE
  BY LastByteOf, Layout
<1>2. last = {b \in 0..(BYTE - 1) : base + b \in bits}
  BY DEF LastByte
<1>. HIDE DEF t, base, last
<1>3. ShiftedRight(last, t) \in SUBSET (0..(BYTE - 2))
  BY <1>1, <1>2 DEF ShiftedRight
<1>4. ASSUME bits \subseteq 0..(total - 1), NEW y \in last
      PROVE  ~ t <= y
  BY <1>1, <1>2, <1>4
<1>5. ASSUME NEW x \in bits, x \notin 0..(total - 1)
      PROVE  x - base \in last /\ t <= x - base
  <2>1. x \in Int /\ total <= x /\ x < total - t + BYTE
    BY <1>1, <1>5
  <2>2. x - base \in 0..(BYTE - 1) /\ base + (x - base) = x /\ t <= x - base
    BY <1>1, <2>1
  <2>. QED
    BY <1>2, <2>2
<1>6. ShiftedRight(last, t) = {} <=> \A y \in last : ~ t <= y
  BY DEF ShiftedRight
<1>. QED
  BY <1>3, <1>4, <1>5, <1>6 DEF t, last

(* What crypto_kem_enc's check accepts. *)
LEMMA PkPadding ==
  ASSUME HasPadding, NEW pk \in [Rows -> SUBSET RowBits]
  PROVE  check_pk_padding(pk) = {} <=> \A n \in Rows : pk[n] \subseteq 0..(PK_NCOLS - 1)
<1>. DEFINE t == PK_NCOLS % BYTE
            Last(n) == LastByte(pk[n], PK_ROW_BYTES)
            b == UNION {Last(n) : n \in Rows}
<1>1. PK_NCOLS \in Nat /\ t # 0 /\ PK_ROW_BYTES = (PK_NCOLS + BYTE - 1) \div BYTE
  BY Layout, KemAssumption DEF PK_ROW_BYTES
<1>2. ASSUME NEW n \in Rows
      PROVE  /\ ShiftedRight(Last(n), t) \in SUBSET (0..(BYTE - 2))
             /\ ShiftedRight(Last(n), t) = {} <=> pk[n] \subseteq 0..(PK_NCOLS - 1)
  <2>1. pk[n] \in SUBSET (0..(PK_ROW_BYTES * BYTE - 1))
    BY DEF RowBits
  <2>. QED
    BY <1>1, <2>1, PaddingSeen
<1>3. ShiftedRight(b, t) = UNION {ShiftedRight(Last(n), t) : n \in Rows}
  <2>. HIDE DEF Last, t
  <2>. QED
    BY DEF ShiftedRight
<1>4. check_pk_padding(pk) = Bad(ShiftedRight(b, t))
  BY DEF check_pk_padding
<1>. HIDE DEF Last, t, b
<1>5. ShiftedRight(b, t) \in SUBSET (0..(BYTE - 2))
  BY <1>2, <1>3
<1>6. ShiftedRight(b, t) = {} <=> \A n \in Rows : ShiftedRight(Last(n), t) = {}
  BY <1>3
<1>. QED
  BY <1>2, <1>4, <1>5, <1>6, BadIs

(* What crypto_kem_dec's check accepts. *)
LEMMA CPadding ==
  ASSUME HasPadding, NEW c \in SUBSET CBits
  PROVE  check_c_padding(c) = {} <=> c \subseteq Rows
<1>1. PK_NROWS \in Nat /\ PK_NROWS % BYTE # 0
      /\ SYND_BYTES = (PK_NROWS + BYTE - 1) \div BYTE
  BY Layout DEF HasPadding, SYND_BYTES
<1>2. c \in SUBSET (0..(SYND_BYTES * BYTE - 1))
  BY DEF CBits
<1>. QED
  BY <1>1, <1>2, PaddingSeen, BadIs DEF check_c_padding, Rows

(* Where bits fill bytes there are no others. *)
LEMMA WholeBytes ==
  ASSUME NEW total \in Nat, total % BYTE = 0
  PROVE  ((total + BYTE - 1) \div BYTE) * BYTE = total
<1>. DEFINE b == BYTE
            q == total \div b
            x == total + b - 1
            y == x \div b
            r == x % b
            s == b - 1
<1>1. b \in Nat \ {0}
  BY Layout
<1>2. q \in Nat /\ total = q * b
  <2>. DEFINE t == total % b
  <2>1. t = 0
    OBVIOUS
  <2>2. q \in Nat /\ total = q * b + t
    <3>. HIDE DEF b
    <3>. QED
      BY <1>1, Division
  <2>3. q * b \in Nat
    BY <1>1, <2>2
  <2>. HIDE DEF q, b, t
  <2>. QED
    BY <2>1, <2>2, <2>3
<1>3. x \in Nat /\ x = q * b + s /\ s \in 0..(b - 1)
  BY <1>1, <1>2
<1>4. y \in Nat /\ r \in 0..(b - 1) /\ x = y * b + r
  <2>. HIDE DEF b, x
  <2>. QED
    BY <1>1, <1>3, Division
<1>. HIDE DEF b, q, x, y, r, s
<1>5. y = q
  <2>1. y * b + r = q * b + s
    BY <1>3, <1>4
  <2>. QED
    BY ONLY <1>1, <1>2, <1>3, <1>4, <2>1, Quotient
<1>. QED
  BY <1>2, <1>5 DEF y, x, b

LEMMA NoPadding ==
  ASSUME ~ HasPadding
  PROVE  RowBits = 0..(PK_NCOLS - 1) /\ CBits = Rows
<1>1. PK_NCOLS % BYTE = 0 /\ PK_NROWS % BYTE = 0
  BY KemAssumption DEF HasPadding
<1>2. PK_ROW_BYTES * BYTE = PK_NCOLS /\ SYND_BYTES * BYTE = PK_NROWS
  BY <1>1, WholeBytes, Layout DEF PK_ROW_BYTES, SYND_BYTES
<1>. QED
  BY <1>2 DEF RowBits, CBits, Rows

-------------------------------------------------------------------------------
(* Part 4: crypto_kem_enc and crypto_kem_dec. *)

LEMMA BitsFit == 0..(PK_NCOLS - 1) \subseteq RowBits /\ Rows \subseteq CBits
<1>1. CASE HasPadding
  <2>1. /\ PK_NCOLS \in Nat /\ PK_NCOLS % BYTE # 0
        /\ PK_NROWS \in Nat /\ PK_NROWS % BYTE # 0
    BY <1>1, Layout, KemAssumption DEF HasPadding
  <2>2. PK_NCOLS <= PK_ROW_BYTES * BYTE /\ PK_ROW_BYTES * BYTE \in Int
    <3>1. /\ PK_NCOLS % BYTE \in 1..(BYTE - 1)
          /\ PK_ROW_BYTES * BYTE = PK_NCOLS - (PK_NCOLS % BYTE) + BYTE
      BY <2>1, LastByteOf DEF PK_ROW_BYTES
    <3>. DEFINE t == PK_NCOLS % BYTE
                w == PK_ROW_BYTES * BYTE
    <3>2. t \in 1..(BYTE - 1) /\ w = PK_NCOLS - t + BYTE
      BY <3>1
    <3>. HIDE DEF t, w
    <3>3. PK_NCOLS <= w /\ w \in Int
      BY <2>1, <3>2, Layout
    <3>. QED
      BY <3>3 DEF w
  <2>3. PK_NROWS <= SYND_BYTES * BYTE /\ SYND_BYTES * BYTE \in Int
    <3>1. /\ PK_NROWS % BYTE \in 1..(BYTE - 1)
          /\ SYND_BYTES * BYTE = PK_NROWS - (PK_NROWS % BYTE) + BYTE
      BY <2>1, LastByteOf DEF SYND_BYTES
    <3>. DEFINE t == PK_NROWS % BYTE
                w == SYND_BYTES * BYTE
    <3>2. t \in 1..(BYTE - 1) /\ w = PK_NROWS - t + BYTE
      BY <3>1
    <3>. HIDE DEF t, w
    <3>3. PK_NROWS <= w /\ w \in Int
      BY <2>1, <3>2, Layout
    <3>. QED
      BY <3>3 DEF w
  <2>. QED
    BY <2>1, <2>2, <2>3 DEF RowBits, CBits, Rows
<1>2. CASE ~ HasPadding
  BY <1>2, NoPadding
<1>. QED
  BY <1>1, <1>2

(***************************************************************************)
(* The key encapsulation mechanism is correct: crypto_kem_dec computes the *)
(* key of crypto_kem_enc from the ciphertext, and both padding checks let  *)
(* it pass.                                                                *)
(***************************************************************************)
THEOREM DecapsulationInverts ==
  ASSUME NEW k \in Keys, NEW e \in ErrorVectors
  PROVE  LET enc == crypto_kem_enc(PublicKeyOf[k], e)
         IN  crypto_kem_dec(k, enc.c) = enc.key
<1>. DEFINE pk == PublicKeyOf[k]
            c == syndrome(pk, e)
            enc == crypto_kem_enc(pk, e)
<1>1. /\ pk \in [Rows -> SUBSET RowBits]
      /\ \A n \in Rows : pk[n] \subseteq 0..(PK_NCOLS - 1)
  <2>1. pk = [n \in Rows |-> pk[n]]
    BY DEF PublicKeyOf
  <2>2. \A n \in Rows : pk[n] \in SUBSET (0..(PK_NCOLS - 1))
    BY FullRowOfKey
  <2>. HIDE DEF pk
  <2>. QED
    BY <2>1, <2>2, BitsFit
<1>2. ~ (HasPadding /\ check_pk_padding(pk) # {})
  <2>. HIDE DEF pk
  <2>. QED
    BY <1>1, PkPadding
<1>3. c \in SUBSET Rows /\ Decoded(k, c) = {e}
  BY SyndromesAgree, DecodesItsOwn DEF ErrorVectors
<1>4. enc.c = c /\ enc.key = shake256(1, e, c)
  BY <1>2 DEF crypto_kem_enc
<1>. HIDE DEF pk, c
<1>5. ~ (HasPadding /\ check_c_padding(c) # {})
  <2>1. c \in SUBSET CBits
    BY <1>3, BitsFit
  <2>. QED
    BY <1>3, <2>1, CPadding
<1>6. crypto_kem_dec(k, c) = Preimage(k, {e}, c)
  BY <1>3, <1>5 DEF crypto_kem_dec
<1>7. Preimage(k, {e}, c) = shake256(1, e, c)
  <2>1. (CHOOSE d \in {e} : TRUE) = e
    OBVIOUS
  <2>. QED
    BY <2>1 DEF Preimage
<1>. QED
  BY <1>4, <1>6, <1>7 DEF pk, c

(* The three kinds of keys. *)
LEMMA KeysDiffer ==
  /\ Zeros # Ones
  /\ \A b, e, c : shake256(b, e, c) # Zeros /\ shake256(b, e, c) # Ones
  /\ \A b, d, e, f, x, y :
       shake256(b, e, x) = shake256(d, f, y) => b = d /\ e = f /\ x = y
<1>1. /\ Zeros.kind = "zeros" /\ Ones.kind = "ones"
      /\ \A b, e, c : shake256(b, e, c).kind = "hash"
  BY DEF shake256, Zeros, Ones
<1>2. \A p, q, r : /\ shake256(p, q, r).b = p
                   /\ shake256(p, q, r).e = q
                   /\ shake256(p, q, r).c = r
  BY DEF shake256
<1>3. \A b, d, e, f, x, y :
        shake256(b, e, x) = shake256(d, f, y) => b = d /\ e = f /\ x = y
  <2>. TAKE b, d, e, f, x, y
  <2>. HAVE shake256(b, e, x) = shake256(d, f, y)
  <2>. QED
    BY <1>2
<1>. QED
  BY <1>1, <1>3

(* decrypt finds at most one error vector. *)
LEMMA DecodedIs ==
  ASSUME NEW k \in Keys, NEW c, Decoded(k, c) # {}
  PROVE  Decoded(k, c) = {CHOOSE e \in Decoded(k, c) : TRUE}
<1>. DEFINE found == Decoded(k, c)
<1>1. ASSUME NEW d \in found, NEW e \in found
      PROVE  d = e
  <2>1. d \in ErrorVectors /\ e \in ErrorVectors
        /\ ErrorSyndromes[k][d] = ErrorSyndromes[k][e]
    BY DEF Decoded
  <2>. QED
    BY <2>1, KeysAssumption
<1>. HIDE DEF found
<1>2. found # {}
  BY DEF found
<1>3. found = {CHOOSE e \in found : TRUE}
  BY <1>1, <1>2
<1>. QED
  BY <1>3 DEF found

(* What a key of decapsulation can be. *)
LEMMA KeyOfDecapsulation ==
  ASSUME NEW k \in Keys, NEW c, crypto_kem_dec(k, c) # Ones
  PROVE  \/ Decoded(k, c) = {} /\ crypto_kem_dec(k, c) = shake256(0, k.s, c)
         \/ \E e : Decoded(k, c) = {e} /\ crypto_kem_dec(k, c) = shake256(1, e, c)
<1>1. crypto_kem_dec(k, c) = Preimage(k, Decoded(k, c), c)
  BY DEF crypto_kem_dec
<1>2. CASE Decoded(k, c) = {}
  BY <1>1, <1>2 DEF Preimage
<1>3. CASE Decoded(k, c) # {}
  <2>. DEFINE e == CHOOSE e \in Decoded(k, c) : TRUE
  <2>1. crypto_kem_dec(k, c) = shake256(1, e, c)
    BY <1>1, <1>3 DEF Preimage
  <2>2. Decoded(k, c) = {e}
    BY <1>3, DecodedIs
  <2>. HIDE DEF e
  <2>. QED
    BY <2>1, <2>2
<1>. QED
  BY <1>2, <1>3

(* The keys of the two sides are the same only as they should be. *)
LEMMA EncDecSame ==
  ASSUME NEW pk \in [Rows -> SUBSET RowBits], NEW e, NEW k \in Keys, NEW c,
         crypto_kem_enc(pk, e).key = crypto_kem_dec(k, c)
  PROVE  /\ crypto_kem_enc(pk, e).c = c
         /\ \A n \in Rows : pk[n] \subseteq 0..(PK_NCOLS - 1)
         /\ Decoded(k, c) = {e}
<1>. DEFINE enc == crypto_kem_enc(pk, e)
            x == syndrome(pk, e)
<1>1. CASE HasPadding /\ check_pk_padding(pk) # {}
  <2>1. crypto_kem_dec(k, c) = Zeros
    BY <1>1 DEF crypto_kem_enc
  <2>2. crypto_kem_dec(k, c) # Ones
    BY <2>1, KeysDiffer
  <2>. QED
    BY <2>1, <2>2, KeyOfDecapsulation, KeysDiffer
<1>2. CASE ~ (HasPadding /\ check_pk_padding(pk) # {})
  <2>1. enc.key = shake256(1, e, x) /\ enc.c = x
    BY <1>2 DEF crypto_kem_enc
  <2>2. crypto_kem_dec(k, c) = shake256(1, e, x)
    BY <2>1
  <2>. HIDE DEF enc, x
  <2>3. crypto_kem_dec(k, c) # Ones
    BY <2>2, KeysDiffer
  <2>4. ~ crypto_kem_dec(k, c) = shake256(0, k.s, c)
    BY <2>2, KeysDiffer
  <2>5. PICK d : Decoded(k, c) = {d} /\ crypto_kem_dec(k, c) = shake256(1, d, c)
    BY <2>3, <2>4, KeyOfDecapsulation
  <2>6. d = e /\ x = c
    BY <2>2, <2>5, KeysDiffer
  <2>7. \A n \in Rows : pk[n] \subseteq 0..(PK_NCOLS - 1)
    BY <1>2, PkPadding, NoPadding
  <2>. QED
    BY <2>1, <2>5, <2>6, <2>7 DEF enc
<1>. QED
  BY <1>1, <1>2

LEMMA DecDecSame ==
  ASSUME NEW k \in Keys, NEW l \in Keys, NEW c, NEW d,
         crypto_kem_dec(k, c) = crypto_kem_dec(l, d), crypto_kem_dec(k, c) # Ones
  PROVE  /\ c = d
         /\ k = l \/ (Decoded(k, c) = Decoded(l, d) /\ Decoded(k, c) # {})
<1>. DEFINE x == crypto_kem_dec(k, c)
            y == crypto_kem_dec(l, d)
            found == Decoded(k, c)
            other == Decoded(l, d)
<1>1. \/ found = {} /\ x = shake256(0, k.s, c)
      \/ \E e : found = {e} /\ x = shake256(1, e, c)
  BY KeyOfDecapsulation
<1>2. \/ other = {} /\ y = shake256(0, l.s, d)
      \/ \E e : other = {e} /\ y = shake256(1, e, d)
  BY KeyOfDecapsulation
<1>3. x = y
  OBVIOUS
<1>. HIDE DEF x, y, found, other
<1>4. CASE found = {} /\ x = shake256(0, k.s, c)
  <2>1. y = shake256(0, l.s, d)
    BY <1>2, <1>3, <1>4, KeysDiffer
  <2>2. k.s = l.s /\ c = d
    <3>1. shake256(0, k.s, c) = shake256(0, l.s, d)
      BY <1>3, <1>4, <2>1
    <3>. QED
      BY ONLY <3>1, KeysDiffer
  <2>3. k = l
    BY <2>2, KeysAssumption
  <2>. QED
    BY <2>2, <2>3
<1>5. CASE \E e : found = {e} /\ x = shake256(1, e, c)
  <2>1. PICK e : found = {e} /\ x = shake256(1, e, c)
    BY <1>5
  <2>2. PICK f : other = {f} /\ y = shake256(1, f, d)
    BY <1>2, <1>3, <2>1, KeysDiffer
  <2>3. e = f /\ c = d
    <3>1. shake256(1, e, c) = shake256(1, f, d)
      BY <1>3, <2>1, <2>2
    <3>. QED
      BY ONLY <3>1, KeysDiffer
  <2>. QED
    BY <2>1, <2>2, <2>3 DEF found, other
<1>. QED
  BY <1>1, <1>4, <1>5

LEMMA EncEncSame ==
  ASSUME NEW p, NEW q, NEW d, NEW e,
         crypto_kem_enc(p, d).key = crypto_kem_enc(q, e).key,
         crypto_kem_enc(p, d).key # Zeros
  PROVE  d = e /\ crypto_kem_enc(p, d).c = crypto_kem_enc(q, e).c
<1>1. ASSUME NEW x, NEW y, crypto_kem_enc(x, y).key # Zeros
      PROVE  crypto_kem_enc(x, y).key = shake256(1, y, crypto_kem_enc(x, y).c)
  BY <1>1 DEF crypto_kem_enc
<1>. DEFINE c == crypto_kem_enc(p, d).c
            f == crypto_kem_enc(q, e).c
<1>2. shake256(1, d, c) = shake256(1, e, f)
  BY <1>1
<1>. HIDE DEF c, f
<1>3. d = e /\ c = f
  BY ONLY <1>2, KeysDiffer
<1>. QED
  BY <1>3 DEF c, f

-------------------------------------------------------------------------------
(* Part 5: handles and buffers. *)

(* The inductive invariant: every live handle is on a buffer that holds    *)
(* what the handle stands for, and the other buffers are cleared.          *)
Contents ==
  /\ DOMAIN mem = Buffers /\ Live \subseteq Buffers
  /\ \A h \in Live : mem[h] = made[h].value

ClearedOutside == ZEROIZE => \A b \in Buffers \ Live : mem[b] = Cleared

IInv ==
  /\ mem = [b \in DOMAIN mem |-> mem[b]]
  /\ Contents /\ ClearedOutside

LEMMA InitIInv == Init => IInv
BY DEF Init, IInv, Contents, ClearedOutside, Live

(* One more handle on a buffer of its own. *)
LEMMA MakeIInv ==
  ASSUME IInv, NEW b \in Buffers \ Live, NEW m, Make(b, m.value, m)
  PROVE  IInv'
<1>1. /\ DOMAIN made' = Live \cup {b} /\ made'[b] = m
      /\ \A h \in Live : made'[h] = made[h]
  BY DEF Make, Put, Live
<1>2. mem' = [x \in DOMAIN mem |-> IF x = b THEN m.value ELSE mem[x]]
  BY DEF Make
<1>. QED
  BY <1>1, <1>2 DEF IInv, Contents, ClearedOutside, Live

(* keypair: two handles in one call. *)
LEMMA KeypairIInv == ASSUME IInv, Keypair PROVE IInv'
<1>1. PICK pair \in (PkArrays \X SkArrays) \cup (PkBoxes \X SkBoxes), k \in Keys :
        /\ {pair[1], pair[2]} \cap Live = {}
        /\ mem' = [mem EXCEPT ![pair[1]] = Pk(PublicKeyOf[k]), ![pair[2]] = Sk(k)]
        /\ made' = Put(Put(made, pair[1], Result(Pk(PublicKeyOf[k]), <<>>)),
                       pair[2], Result(Sk(k), <<>>))
  BY DEF Keypair
<1>2. PICK p \in Buffers, s \in Buffers : p = pair[1] /\ s = pair[2] /\ p # s
  BY <1>1, ApiAssumption DEF Buffers, PkBuffers, SkBuffers
<1>3. /\ DOMAIN made' = Live \cup {p, s}
      /\ made'[p].value = Pk(PublicKeyOf[k]) /\ made'[s].value = Sk(k)
      /\ \A h \in Live : made'[h] = made[h]
  BY <1>1, <1>2 DEF Put, Result, Live
<1>4. mem' = [x \in DOMAIN mem |-> IF x = s THEN Sk(k)
                                  ELSE IF x = p THEN Pk(PublicKeyOf[k]) ELSE mem[x]]
  BY <1>1, <1>2
<1>5. (mem = [b \in DOMAIN mem |-> mem[b]])'
  BY <1>4
<1>6. Contents' /\ ClearedOutside'
  BY <1>2, <1>3, <1>4 DEF IInv, Contents, ClearedOutside, Live
<1>. QED
  BY <1>5, <1>6 DEF IInv

(* drop: the buffer of a dropped handle is cleared and nobody else's. *)
LEMMA DropIInv == ASSUME IInv, Drop PROVE IInv'
<1>1. PICK h \in Live :
        /\ mem' = IF Zeroized(h) THEN [mem EXCEPT ![h] = Cleared] ELSE mem
        /\ made' = Restrict(made, Live \ {h})
  BY DEF Drop
<1>2. /\ DOMAIN made' = Live \ {h} /\ \A x \in Live \ {h} : made'[x] = made[x]
  BY <1>1 DEF Restrict
<1>3. mem' = IF ZEROIZE THEN [x \in DOMAIN mem |-> IF x = h THEN Cleared ELSE mem[x]]
             ELSE mem
  BY <1>1 DEF Zeroized
<1>. QED
  BY <1>2, <1>3 DEF IInv, Contents, ClearedOutside, Live

LEMMA NextIInv == IInv /\ [Next]_vars => IInv'
<1>. SUFFICES ASSUME IInv, [Next]_vars
              PROVE  IInv'
  OBVIOUS
<1>1. CASE Keypair
  BY <1>1, KeypairIInv
<1>2. CASE PublicKeyFrom \/ SecretKeyFrom
  <2>1. PICK b, m : b \in Buffers \ Live /\ Make(b, m.value, m)
    BY <1>2 DEF PublicKeyFrom, SecretKeyFrom, Result, Buffers
  <2>. QED
    BY <2>1, MakeIInv
<1>3. CASE ToOwned
  <2>1. PICK b \in Buffers \ Live, h \in Live : Make(b, mem[h], made[h])
    BY <1>3 DEF ToOwned, Copied, Buffers, PkBuffers, SkBuffers
  <2>2. mem[h] = made[h].value
    BY DEF IInv, Contents
  <2>. QED
    BY <2>1, <2>2, MakeIInv
<1>4. CASE Encapsulate
  <2>1. PICK b, m : b \in Buffers \ Live /\ Make(b, m.value, m)
    BY <1>4 DEF Encapsulate, Result, Buffers
  <2>. QED
    BY <2>1, MakeIInv
<1>5. CASE Decapsulate
  <2>1. PICK b, m : b \in Buffers \ Live /\ Make(b, m.value, m)
    BY <1>5 DEF Decapsulate, Result, Buffers
  <2>. QED
    BY <2>1, MakeIInv
<1>6. CASE Drop
  BY <1>6, DropIInv
<1>7. CASE UNCHANGED vars
  BY <1>7 DEF vars, IInv, Contents, ClearedOutside, Live
<1>. QED
  BY <1>1, <1>2, <1>3, <1>4, <1>5, <1>6, <1>7 DEF Next

LEMMA Inductive == Spec => []IInv
<1>. QED
  BY InitIInv, NextIInv, PTL DEF Spec

(***************************************************************************)
(* With the feature zeroize, no key and no shared secret is in a buffer    *)
(* that no handle is on (lib.rs:166-174, 240-248, 315-323).                *)
(***************************************************************************)
THEOREM DroppedBuffersAreCleared == Spec => []NothingLeftBehind
<1>1. IInv => NothingLeftBehind
  BY DEF IInv, ClearedOutside, NothingLeftBehind
<1>. QED
  BY <1>1, Inductive, PTL

-------------------------------------------------------------------------------
(* Part 6: shared secrets. *)

(***************************************************************************)
(* What the history of a handle says is what happened: keys are keys, and  *)
(* a shared secret is what crypto_kem_enc or crypto_kem_dec computed from  *)
(* the key and the ciphertext named with it.                               *)
(***************************************************************************)
Encapsulated(m) ==
  LET enc == crypto_kem_enc(m.by.pk, m.by.e)
  IN  /\ m.by.op = "enc"
      /\ m.by.pk \in [Rows -> SUBSET RowBits]
      /\ m.by.e \in Drawn
      /\ m.by.c = enc.c
      /\ m.value.key = enc.key

Decapsulated(m) ==
  /\ m.by.op = "dec"
  /\ m.by.sk \in Keys
  /\ m.by.c \in SUBSET CBits
  /\ m.value.key = crypto_kem_dec(m.by.sk, m.by.c)

Fits(h, m) ==
  /\ h \in PkBuffers => m.value.rows \in [Rows -> SUBSET RowBits]
  /\ h \in SkBuffers => m.value.key \in Keys
  /\ h \in SsBuffers => Encapsulated(m) \/ Decapsulated(m)

History == sent \subseteq SUBSET CBits /\ \A h \in Live : Fits(h, made[h])

LEMMA InitHistory == Init => History
BY DEF Init, History, Live

LEMMA BuffersApart ==
  /\ \A p \in PkBuffers : p \in Buffers /\ p \notin SkBuffers /\ p \notin SsBuffers
  /\ \A s \in SkBuffers : s \in Buffers /\ s \notin PkBuffers /\ s \notin SsBuffers
  /\ \A x \in SsBuffers : x \in Buffers /\ x \notin PkBuffers /\ x \notin SkBuffers
BY ApiAssumption DEF Buffers

LEMMA PublicKeyTyped ==
  ASSUME NEW k \in Keys
  PROVE  PublicKeyOf[k] \in [Rows -> SUBSET RowBits]
<1>. DEFINE pk == PublicKeyOf[k]
<1>1. pk = [n \in Rows |-> pk[n]]
  BY DEF PublicKeyOf
<1>2. \A n \in Rows : pk[n] \in SUBSET (0..(PK_NCOLS - 1))
  BY FullRowOfKey
<1>. HIDE DEF pk
<1>3. pk \in [Rows -> SUBSET RowBits]
  BY <1>1, <1>2, BitsFit
<1>. QED
  BY <1>3 DEF pk

LEMMA MakeHistory ==
  ASSUME IInv, History, sent' \subseteq SUBSET CBits,
         NEW b \in Buffers \ Live, NEW content, NEW m, Make(b, content, m), Fits(b, m)
  PROVE  History'
<1>1. /\ DOMAIN made' = Live \cup {b} /\ made'[b] = m
      /\ \A h \in Live : made'[h] = made[h]
  BY DEF Make, Put, Live
<1>2. \A h \in Live \cup {b} : Fits(h, made'[h])
  BY <1>1 DEF History
<1>. QED
  BY <1>1, <1>2 DEF History, Live

LEMMA KeypairHistory == ASSUME IInv, History, Keypair PROVE History'
<1>1. PICK pair \in (PkArrays \X SkArrays) \cup (PkBoxes \X SkBoxes), k \in Keys :
        /\ {pair[1], pair[2]} \cap Live = {}
        /\ made' = Put(Put(made, pair[1], Result(Pk(PublicKeyOf[k]), <<>>)),
                       pair[2], Result(Sk(k), <<>>))
        /\ sent' = sent
  BY DEF Keypair
<1>2. PICK p \in PkBuffers, s \in SkBuffers : p = pair[1] /\ s = pair[2]
  BY <1>1 DEF PkBuffers, SkBuffers
<1>3. DOMAIN made' = Live \cup {p, s} /\ p # s /\ p \notin Live /\ s \notin Live
  BY <1>1, <1>2, BuffersApart DEF Put, Live
<1>4. /\ made'[p].value = Pk(PublicKeyOf[k]) /\ made'[s].value = Sk(k)
      /\ \A h \in Live : made'[h] = made[h]
  BY <1>1, <1>2, <1>3 DEF Put, Result, Live
<1>5. Fits(p, made'[p])
  <2>1. made'[p].value.rows = PublicKeyOf[k]
    BY <1>4 DEF Pk
  <2>. QED
    BY <1>2, <2>1, BuffersApart, PublicKeyTyped DEF Fits
<1>6. Fits(s, made'[s])
  <2>1. made'[s].value.key = k
    BY <1>4 DEF Sk
  <2>. QED
    BY <1>2, <2>1, BuffersApart DEF Fits
<1>7. \A h \in Live \cup {p, s} : Fits(h, made'[h])
  BY <1>4, <1>5, <1>6 DEF History
<1>. QED
  BY <1>1, <1>3, <1>7 DEF History, Live

LEMMA FromHistory ==
  ASSUME IInv, History, PublicKeyFrom \/ SecretKeyFrom PROVE History'
<1>1. CASE PublicKeyFrom
  <2>1. PICK p \in PkBuffers \ Live, x \in PublicKeys : Make(p, Pk(x), Result(Pk(x), <<>>))
    BY <1>1 DEF PublicKeyFrom
  <2>2. Pk(x).rows = x /\ x \in [Rows -> SUBSET RowBits]
    BY ApiAssumption DEF Pk
  <2>3. Fits(p, Result(Pk(x), <<>>))
    BY <2>2, BuffersApart DEF Fits, Result
  <2>. QED
    BY <1>1, <2>1, <2>3, BuffersApart, MakeHistory DEF PublicKeyFrom, History
<1>2. CASE SecretKeyFrom
  <2>1. PICK s \in SkBuffers \ Live, k \in Keys : Make(s, Sk(k), Result(Sk(k), <<>>))
    BY <1>2 DEF SecretKeyFrom
  <2>2. Fits(s, Result(Sk(k), <<>>))
    BY BuffersApart DEF Fits, Sk, Result
  <2>. QED
    BY <1>2, <2>1, <2>2, BuffersApart, MakeHistory DEF SecretKeyFrom, History
<1>. QED
  BY <1>1, <1>2

(* A copy is of the same kind and has the same history. *)
LEMMA ToOwnedHistory == ASSUME IInv, History, ToOwned PROVE History'
<1>1. PICK h \in Live, kind \in {<<PkBuffers, PkBoxes>>, <<SkBuffers, SkBoxes>>,
                                 <<SsBuffers, SsBuffers>>} :
        /\ h \in kind[1]
        /\ \E b \in kind[2] \ Live : Make(b, mem[h], made[h])
  BY DEF ToOwned, Copied
<1>2. PICK b \in kind[2] \ Live : Make(b, mem[h], made[h])
  BY <1>1
<1>3. Fits(h, made[h])
  BY DEF History
<1>4. /\ b \in PkBuffers <=> h \in PkBuffers
      /\ b \in SkBuffers <=> h \in SkBuffers
      /\ b \in SsBuffers <=> h \in SsBuffers
      /\ b \in Buffers \ Live
  <2>1. \/ h \in PkBuffers /\ b \in PkBuffers
        \/ h \in SkBuffers /\ b \in SkBuffers
        \/ h \in SsBuffers /\ b \in SsBuffers
    BY <1>1, <1>2 DEF PkBuffers, SkBuffers
  <2>. QED
    BY <1>2, <2>1, BuffersApart
<1>5. Fits(b, made[h])
  BY <1>3, <1>4 DEF Fits
<1>. QED
  BY <1>2, <1>4, <1>5, MakeHistory DEF ToOwned, History

(* crypto_kem_enc returns bits of a ciphertext. *)
LEMMA CiphertextTyped ==
  ASSUME NEW pk, NEW e
  PROVE  crypto_kem_enc(pk, e).c \in SUBSET CBits
<1>1. syndrome(pk, e) \in SUBSET Rows
  BY DEF syndrome
<1>. QED
  BY <1>1, BitsFit DEF crypto_kem_enc

LEMMA EncapsulateHistory == ASSUME IInv, History, Encapsulate PROVE History'
<1>1. PICK h \in Live \cap PkBuffers, x \in SsBuffers \ Live, e \in Drawn :
        LET enc == crypto_kem_enc(mem[h].rows, e)
            how == [op |-> "enc", pk |-> made[h].value.rows, e |-> e, c |-> enc.c]
        IN  /\ sent' = sent \cup {enc.c}
            /\ Make(x, Secret(enc.key), Result(Secret(enc.key), how))
  BY DEF Encapsulate
<1>. DEFINE rows == made[h].value.rows
            enc == crypto_kem_enc(rows, e)
            how == [op |-> "enc", pk |-> rows, e |-> e, c |-> enc.c]
            m == Result(Secret(enc.key), how)
<1>2. rows \in [Rows -> SUBSET RowBits] /\ mem[h].rows = rows
  BY DEF IInv, Contents, History, Fits
<1>3. sent' \subseteq SUBSET CBits
  BY <1>1, CiphertextTyped DEF History
<1>4. Fits(x, m)
  <2>1. /\ m.value.key = enc.key /\ m.by.op = "enc" /\ m.by.pk = rows
        /\ m.by.e = e /\ m.by.c = enc.c
    BY DEF Secret, Result
  <2>2. enc = crypto_kem_enc(rows, e)
    OBVIOUS
  <2>. HIDE DEF rows, enc, m
  <2>3. Encapsulated(m)
    BY <1>2, <2>1, <2>2 DEF Encapsulated
  <2>. QED
    BY <2>3, BuffersApart DEF Fits
<1>5. Make(x, Secret(enc.key), m)
  BY <1>1, <1>2
<1>. HIDE DEF rows, enc, m
<1>. QED
  BY <1>3, <1>4, <1>5, BuffersApart, MakeHistory

LEMMA DecapsulateHistory == ASSUME IInv, History, Decapsulate PROVE History'
<1>1. PICK h \in Live \cap SkBuffers, x \in SsBuffers \ Live, c \in Received :
        LET key == crypto_kem_dec(mem[h].key, c)
            how == [op |-> "dec", sk |-> made[h].value.key, c |-> c]
        IN  Make(x, Secret(key), Result(Secret(key), how))
  BY DEF Decapsulate
<1>. DEFINE k == made[h].value.key
            m == Result(Secret(crypto_kem_dec(k, c)), [op |-> "dec", sk |-> k, c |-> c])
<1>2. k \in Keys /\ mem[h].key = k
  BY DEF IInv, Contents, History, Fits
<1>3. c \in SUBSET CBits
  <2>1. CASE c \in sent
    BY <2>1 DEF History
  <2>2. CASE \E d \in sent, b \in FlipBits : c = SymDiff(d, {b})
    <3>1. PICK d \in sent, b \in FlipBits : c = SymDiff(d, {b})
      BY <2>2
    <3>2. d \in SUBSET CBits /\ {b} \in SUBSET CBits
      BY ApiAssumption DEF History
    <3>. QED
      BY ONLY <3>1, <3>2 DEF SymDiff
  <2>3. c \in sent \/ \E d \in sent, b \in FlipBits : c = SymDiff(d, {b})
    BY DEF Received
  <2>. QED
    BY <2>1, <2>2, <2>3
<1>4. Fits(x, m)
  <2>1. /\ m.value.key = crypto_kem_dec(k, c)
        /\ m.by.op = "dec" /\ m.by.sk = k /\ m.by.c = c
    BY DEF Secret, Result
  <2>. HIDE DEF k, m
  <2>2. Decapsulated(m)
    BY <1>2, <1>3, <2>1 DEF Decapsulated
  <2>. QED
    BY <2>2, BuffersApart DEF Fits
<1>5. Make(x, Secret(crypto_kem_dec(k, c)), m)
  BY <1>1, <1>2
<1>6. sent' \subseteq SUBSET CBits
  BY DEF Decapsulate, History
<1>. HIDE DEF k, m
<1>. QED
  BY <1>4, <1>5, <1>6, BuffersApart, MakeHistory

LEMMA NextHistory == IInv /\ History /\ [Next]_vars => History'
<1>. SUFFICES ASSUME IInv, History, [Next]_vars
              PROVE  History'
  OBVIOUS
<1>1. CASE Drop
  <2>1. PICK h \in Live :
          /\ made' = Restrict(made, Live \ {h})
          /\ sent' = sent
    BY <1>1 DEF Drop
  <2>2. DOMAIN made' = Live \ {h} /\ \A x \in Live \ {h} : made'[x] = made[x]
    BY <2>1 DEF Restrict
  <2>. QED
    BY <2>1, <2>2 DEF History, Live
<1>2. CASE UNCHANGED vars
  BY <1>2 DEF vars, History, Live
<1>. QED
  BY <1>1, <1>2, KeypairHistory, FromHistory, ToOwnedHistory, EncapsulateHistory,
     DecapsulateHistory DEF Next

LEMMA HistoryHolds == Spec => [](IInv /\ History)
<1>. QED
  BY InitIInv, InitHistory, NextIInv, NextHistory, PTL DEF Spec

(* A live shared secret holds what its history says. *)
LEMMA SecretHeld ==
  ASSUME IInv, History, NEW h \in Live \cap SsBuffers
  PROVE  /\ KeyIn(h) = made[h].value.key
         /\ made[h].by.op = "enc" => Encapsulated(made[h])
         /\ made[h].by.op = "dec" => Decapsulated(made[h])
<1>1. mem[h] = made[h].value
  BY DEF IInv, Contents
<1>2. Encapsulated(made[h]) \/ Decapsulated(made[h])
  BY DEF History, Fits
<1>. QED
  BY <1>1, <1>2 DEF KeyIn, Encapsulated, Decapsulated

(***************************************************************************)
(* Both sides of a key exchange get the same key, whatever calls and       *)
(* copies came in between and for every code, key and error vector: the    *)
(* syndrome that encrypt.rs:151-176 computes from the public key decodes   *)
(* to the error vector, and neither padding check stands in the way.       *)
(***************************************************************************)
THEOREM SameCiphertextSameKey == Spec => []AgreeOnSameCiphertext
<1>1. ASSUME IInv, History  PROVE AgreeOnSameCiphertext
  <2>. SUFFICES ASSUME NEW x \in By("enc"), NEW y \in By("dec"),
                       made[x].by.pk = PublicKeyOf[made[y].by.sk],
                       made[x].by.c = made[y].by.c
                PROVE  KeyIn(x) = KeyIn(y)
    BY DEF AgreeOnSameCiphertext
  <2>1. /\ KeyIn(x) = made[x].value.key /\ Encapsulated(made[x])
        /\ KeyIn(y) = made[y].value.key /\ Decapsulated(made[y])
    BY <1>1, SecretHeld DEF By
  <2>. DEFINE k == made[y].by.sk
              e == made[x].by.e
              enc == crypto_kem_enc(PublicKeyOf[k], e)
  <2>2. k \in Keys /\ e \in ErrorVectors /\ made[x].by.c = enc.c
        /\ KeyIn(x) = enc.key /\ KeyIn(y) = crypto_kem_dec(k, made[y].by.c)
    BY <2>1, ApiAssumption DEF Encapsulated, Decapsulated
  <2>. HIDE DEF k, e
  <2>3. crypto_kem_dec(k, enc.c) = enc.key
    BY <2>2, DecapsulationInverts
  <2>. HIDE DEF enc
  <2>. QED
    BY <2>2, <2>3
<1>. QED
  BY <1>1, HistoryHolds, PTL

(***************************************************************************)
(* Shared secrets do not agree by accident (operations.rs:48-194).  An     *)
(* encapsulation and a decapsulation agree only on one ciphertext, of a    *)
(* public key without padding bits, in which the secret key finds the      *)
(* error vector that was drawn; two decapsulations only on one ciphertext, *)
(* for one secret key or two that find the same error vector in it; two    *)
(* encapsulations only on one error vector and one ciphertext.  Excluded   *)
(* are the outputs that a failed padding check clears: all 1s for          *)
(* decapsulations, all 0s for encapsulations.                              *)
(***************************************************************************)
THEOREM NoAccidentalAgreement == Spec => []NoFalseAgreement
<1>1. ASSUME IInv, History  PROVE NoFalseAgreement
  <2>1. ASSUME NEW x \in By("enc"), NEW y \in By("dec"), KeyIn(x) = KeyIn(y)
        PROVE  /\ made[x].by.c = made[y].by.c
               /\ \A n \in Rows : made[x].by.pk[n] \subseteq 0..(PK_NCOLS - 1)
               /\ Decoded(made[y].by.sk, made[y].by.c) = {made[x].by.e}
    <3>1. /\ KeyIn(x) = made[x].value.key /\ Encapsulated(made[x])
          /\ KeyIn(y) = made[y].value.key /\ Decapsulated(made[y])
      BY <1>1, SecretHeld DEF By
    <3>. DEFINE pk == made[x].by.pk
                e == made[x].by.e
                k == made[y].by.sk
                c == made[y].by.c
    <3>2. /\ pk \in [Rows -> SUBSET RowBits] /\ k \in Keys
          /\ crypto_kem_enc(pk, e).key = crypto_kem_dec(k, c)
          /\ made[x].by.c = crypto_kem_enc(pk, e).c
      BY <2>1, <3>1 DEF Encapsulated, Decapsulated
    <3>. HIDE DEF pk, e, k, c
    <3>3. /\ crypto_kem_enc(pk, e).c = c
          /\ \A n \in Rows : pk[n] \subseteq 0..(PK_NCOLS - 1)
          /\ Decoded(k, c) = {e}
      BY <3>2, EncDecSame
    <3>. QED
      BY <3>2, <3>3 DEF pk, e, k, c
  <2>2. ASSUME NEW x \in By("dec"), NEW y \in By("dec"),
               KeyIn(x) = KeyIn(y), KeyIn(x) # Ones
        PROVE  LET a == made[x].by
                   b == made[y].by
               IN  /\ a.c = b.c
                   /\ \/ a.sk = b.sk
                      \/ /\ Decoded(a.sk, a.c) = Decoded(b.sk, b.c)
                         /\ Decoded(a.sk, a.c) # {}
    <3>1. /\ KeyIn(x) = made[x].value.key /\ Decapsulated(made[x])
          /\ KeyIn(y) = made[y].value.key /\ Decapsulated(made[y])
      BY <1>1, SecretHeld DEF By
    <3>. DEFINE k == made[x].by.sk
                c == made[x].by.c
                l == made[y].by.sk
                d == made[y].by.c
    <3>2. /\ k \in Keys /\ l \in Keys
          /\ crypto_kem_dec(k, c) = crypto_kem_dec(l, d)
          /\ crypto_kem_dec(k, c) # Ones
      BY <2>2, <3>1 DEF Decapsulated
    <3>. HIDE DEF k, c, l, d
    <3>3. /\ c = d
          /\ k = l \/ (Decoded(k, c) = Decoded(l, d) /\ Decoded(k, c) # {})
      BY <3>2, DecDecSame
    <3>. QED
      BY <3>3 DEF k, c, l, d
  <2>3. ASSUME NEW x \in By("enc"), NEW y \in By("enc"),
               KeyIn(x) = KeyIn(y), KeyIn(x) # Zeros
        PROVE  made[x].by.e = made[y].by.e /\ made[x].by.c = made[y].by.c
    <3>1. /\ KeyIn(x) = made[x].value.key /\ Encapsulated(made[x])
          /\ KeyIn(y) = made[y].value.key /\ Encapsulated(made[y])
      BY <1>1, SecretHeld DEF By
    <3>2. /\ crypto_kem_enc(made[x].by.pk, made[x].by.e).key
                = crypto_kem_enc(made[y].by.pk, made[y].by.e).key
          /\ crypto_kem_enc(made[x].by.pk, made[x].by.e).key # Zeros
      BY <2>3, <3>1 DEF Encapsulated
    <3>. QED
      BY <3>1, <3>2, EncEncSame DEF Encapsulated
  <2>. QED
    BY <2>1, <2>2, <2>3 DEF NoFalseAgreement
<1>. QED
  BY <1>1, HistoryHolds, PTL
===============================================================================
